SPECIFICATION FairSpec
CONSTANT Programs <- SettledTwice
INVARIANT JumpsPatched

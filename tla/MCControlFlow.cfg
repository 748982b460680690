SPECIFICATION FairSpec
CONSTANT Programs <- MCPrograms
INVARIANTS
  SameBehaviour
  CompilesAndStays
PROPERTY KeepsPace

SPECIFICATION Spec
CONSTANTS
  Programs <- MCPrograms
  Conds <- MCConds
INVARIANT DecodesBack
INVARIANT JumpsLand
INVARIANT ReferencesLand
INVARIANT DataImage
PROPERTY JumpsOnlyGrow
CHECK_DEADLOCK FALSE

SPECIFICATION FairSpec
CONSTANTS
  d1 = d1
  d2 = d2
  a = a
  b = b
  c = c
  x = x
  y = y
  Ns = Ns
  main = main
  int = int
  builtinFile = builtinFile
  here = here
  None = None
  Dirs <- MCDirs
  Bases <- MCBases
  Here = here
  Names <- MCNames
  Builtins <- MCBuiltins
  BuiltinFile = builtinFile
  MainFile <- MCMain
  MainProc = main
  IncludeLimit = 1
  Programs <- MCPrograms
INVARIANTS
  OnlyExportedLeaves
  CyclicMeansCyclic
  ErrorsInTheirFile
PROPERTIES
  NamesStay
  ImplementsOrder
  Terminates

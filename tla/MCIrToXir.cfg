CONSTANTS
  Programs <- MCPrograms
  MaxSteps = 40
SPECIFICATION Spec
INVARIANT SameEffects
INVARIANT ForcedApart
INVARIANT NeverAsserts

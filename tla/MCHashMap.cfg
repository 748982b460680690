SPECIFICATION Spec
CONSTANTS
  Keys <- MCKeys
  Values = {u, v}
  NoKey = 0
  Absent = Absent
  Hash <- MCHash
  Caps <- MCCaps
INVARIANT SparseEnough
PROPERTY ImplementsDictionary
PROPERTY CallsReturn

SPECIFICATION Spec
CONSTANTS
    ByteBits = 2
    Operands <- MCOperands
    CastTypes <- MCCastTypes
    Digits <- MCDigits
    MaxDigits <- MCMaxDigits
    MaxOps = 3
    LeftOut = {"NegatedStore", "CmpAsByte", "AddrConst", "UnsignedShift", "ConstPtrMinus", "ImmPointer",
               "FarDisplacement", "HostTraps", "StaleScalar", "MixedTernary"}
INVARIANT FoldsAsMeant
INVARIANT NeverStops
INVARIANT LiteralsExact
CHECK_DEADLOCK FALSE

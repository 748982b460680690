SPECIFICATION Spec
CONSTANTS
    IntLocs <- MCIntLocs
    FltLocs <- MCFltLocs
    BaseLocs <- MCBaseLocs
    LeftOut = {"TmpIsSource", "HalfSlot", "FlagsLost", "SignedImm"}
INVARIANT SameEffect
INVARIANT Undisturbed
CHECK_DEADLOCK FALSE

SPECIFICATION Spec
CONSTANT Procs <- MCProcs
CONSTANT CallsOf <- MCCallsOf
INVARIANT ArgumentsArrive
INVARIANT CallPreserves
INVARIANT FrameDisjoint
CHECK_DEADLOCK FALSE

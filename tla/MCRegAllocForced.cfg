SPECIFICATION Spec
CONSTANTS
  rax = rax
  r12 = r12
  rbp = rbp
  xmm0 = xmm0
  int = int
  float = float
  None = None
  NumLRegs = 4
  InitOffset = 12
  PRegs <- MCPRegs
  Classes <- MCClasses
  ClassOf <- MCClassOf
  Scratch <- MCScratch
  CallerSaved <- MCCallerSaved
  Programs <- MCPrograms
INVARIANT ForcedRegisterIsFree

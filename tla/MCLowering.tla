----------------------------- MODULE MCLowering -----------------------------
(* A few places for the operands: the registers that the emitted code borrows *)
(* first, one it never borrows first, and two slots of the frame.             *)
EXTENDS Lowering

MCIntLocs  == {Reg(RAX), Reg(R10), Reg(R12), Reg(R9), Stack(-8), Stack(-16)}
MCFltLocs  == {Reg(XMM0), Reg(XMM0 + 1), Reg(XMM0 + 10), Stack(-8), Stack(-16)}
MCBaseLocs == {Reg(R10), Reg(R12), Reg(R9)}
=============================================================================

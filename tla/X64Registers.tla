---------------------------- MODULE X64Registers ----------------------------
(***************************************************************************)
(* The registers of the target and what the System V convention uses them   *)
(* for (x64_gen/regs.h, regs.c).  A register number is the source's         *)
(* X64_Reg: 0..15 are 8 bytes wide, 16..31 are XMM registers.               *)
(***************************************************************************)
EXTENDS Integers, Sequences

RAX == 0
RCX == 1
RDX == 2
RBX == 3
RSP == 4
RBP == 5
RSI == 6
RDI == 7
R8 == 8
R9 == 9
R10 == 10
R11 == 11
R12 == 12
R13 == 13
R14 == 14
R15 == 15
XMM0 == 16
Registers == 0..31
NoReg == 32

IsFlt(r) == r >= XMM0

ArgRegs(cls) == IF cls = "int" THEN <<RDI, RSI, RDX, RCX, R8, R9>>
                ELSE [i \in 1..8 |-> XMM0 + i - 1]
RetRegs(cls) == IF cls = "int" THEN <<RAX, RDX>> ELSE <<XMM0, XMM0 + 1>>
CallerSaved  == Registers \ {RBX, RSP, RBP, R12, R13, R14, R15}
=============================================================================

------------------------------ MODULE X64Emit ------------------------------
(***************************************************************************)
(* From one XIR instruction to x64 instructions: X64_gen_instr of           *)
(* xir_to_x64.c and the functions it emits with, procedure calls apart.     *)
(* The register allocator has put each virtual register (lreg) into a       *)
(* register or into a slot of the frame; the emitted instructions borrow a  *)
(* temporary register when the processor wants one.                         *)
(*                                                                         *)
(* In these operators p is [loc, leaf]: the place of each lreg, and whether *)
(* the procedure calls no other.  Each yields a sequence of instructions.   *)
(***************************************************************************)
EXTENDS X64Machine

---------------------------------------------------------------------------
(* Registers of the target *)

LeafInt    == <<R10, R11, RAX, RDI, RSI, RDX, RCX, R8, R9, R12, R13, R14, R15, RBX>>
NonleafInt == <<R12, R13, R14, R15, RBX, R10, R11, RAX, RDI, RSI, RDX, RCX, R8, R9>>
LeafFlt    == [i \in 1..16 |-> XMM0 + i - 1]
NonleafFlt == [i \in 1..16 |-> XMM0 + ((i + 9) % 16)]

ScratchRegs(cls, isLeaf) ==
    CASE cls = "int" /\ isLeaf  -> LeafInt
      [] cls = "int" /\ ~isLeaf -> NonleafInt
      [] cls = "flt" /\ isLeaf  -> LeafFlt
      [] cls = "flt" /\ ~isLeaf -> NonleafFlt

---------------------------------------------------------------------------
(* Emitting *)

Reg(r)   == [k |-> "reg", r |-> r]
Stack(o) == [k |-> "stack", off |-> o]
InReg(l) == l.k = "reg"
FrameAddr(off) == M(RBP, NoReg, 0, off)
StackAddr(off) == M(RSP, NoReg, 0, off)
Slot(l) == FrameAddr(l.off)

Fatal == Ins("fatal", 0, None, None)
PushReg(r) ==
    IF IsFlt(r) THEN <<Ins("sub", 8, R(RSP), I(N(16))), Ins("movdqu", 16, StackAddr(0), R(r))>>
    ELSE <<Ins("push", 8, None, R(r))>>
\* Mutant: the stack of a saved XMM register is not given back.
PopReg_KeepStack(r) ==
    IF IsFlt(r) THEN <<Ins("movdqu", 16, R(r), StackAddr(0))>> ELSE <<Ins("pop", 8, R(r), None)>>
PopReg(r) ==
    IF IsFlt(r) THEN <<Ins("movdqu", 16, R(r), StackAddr(0)), Ins("add", 8, R(RSP), I(N(16)))>>
    ELSE <<Ins("pop", 8, R(r), None)>>
LoadPrim(size, r, mem) == <<Ins(IF IsFlt(r) THEN "mov_flt" ELSE "mov", size, R(r), mem)>>
SavePrim(size, mem, r) == <<Ins(IF IsFlt(r) THEN "mov_flt" ELSE "mov", size, mem, R(r))>>

\* Which instruction kinds each table of emit functions knows: a kind is an
\* operation and its form.  Any other kind ends the compiler.
Kinds(ops, form) == {<<op, form>> : op \in ops}
IntRR == Kinds({"add", "sub", "imul", "and", "or", "xor", "mov", "cmp"}, "RR")
IntRM == Kinds({"add", "sub", "imul", "and", "or", "xor", "mov", "cmp"}, "RM")
IntRI == Kinds({"add", "sub", "imul", "and", "or", "xor", "cmp"}, "RI")
IntMR == Kinds({"add", "sub", "and", "or", "xor", "mov", "cmp"}, "MR")
IntMI == Kinds({"add", "sub", "imul", "and", "or", "xor", "mov", "cmp"}, "MI")
ExtRR == Kinds({"movsx", "movsxd", "movzx"}, "RR")
ExtRM == Kinds({"movsx", "movsxd", "movzx"}, "RM")
FltRR == Kinds(FltArith \cup {"mov_flt"}, "RR")
FltRM == Kinds(FltArith \cup {"mov_flt"}, "RM")
FltMR == Kinds({"mov_flt"}, "MR")

By(table, kind, size, dst, src) ==
    IF kind \in table THEN <<Ins(kind[1], size, dst, src)>> ELSE <<Fatal>>
ByExt(table, kind, size, dst, ssize, src) ==
    IF kind \in table THEN <<InsExt(kind[1], size, dst, ssize, src)>> ELSE <<Fatal>>

---------------------------------------------------------------------------
(* Groups of borrowed registers *)

NoGroup == [tmps |-> <<>>, used |-> {}]

\* The place of an lreg if that is a register; otherwise the first scratch
\* register that is neither banned nor borrowed already, saved on the stack
\* and loaded.  This yields the register, the group and the code so far.
GetReg(p, g, cls, l, size, store, banned) ==
    IF InReg(p.loc[l]) THEN [reg |-> p.loc[l].r, group |-> g, code |-> <<>>]
    ELSE LET free == SelectSeq(ScratchRegs(cls, p.leaf), LAMBDA r : r \notin g.used \cup banned)
             r    == free[1]
             t    == [reg |-> r, off |-> p.loc[l].off, size |-> size, store |-> store]
         IN  [reg   |-> r,
              group |-> [tmps |-> <<t>> \o g.tmps, used |-> g.used \cup {r}],
              code  |-> PushReg(r) \o LoadPrim(size, r, Slot(p.loc[l]))]

SaveReg(g, r) ==
    [group |-> [tmps |-> <<[reg |-> r, off |-> 0, size |-> 0, store |-> FALSE]>> \o g.tmps,
                used |-> g.used \cup {r}],
     code  |-> PushReg(r)]

\* Mutant: what was computed in a borrowed register is not stored.
EndGroup_NoStore(g) == FlattenSeq([i \in 1..Len(g.tmps) |-> PopReg(g.tmps[i].reg)])
EndGroup(g) ==
    FlattenSeq([i \in 1..Len(g.tmps) |->
        (IF g.tmps[i].store
         THEN SavePrim(g.tmps[i].size, FrameAddr(g.tmps[i].off), g.tmps[i].reg) ELSE <<>>)
        \o PopReg(g.tmps[i].reg)])

\* Body with the register of l, borrowed if need be.
WithReg(p, cls, l, size, store, banned, Body(_)) ==
    LET t == GetReg(p, NoGroup, cls, l, size, store, banned)
    IN  t.code \o Body(t.reg) \o EndGroup(t.group)

\* An address of lregs as one of registers, and the registers it reads.
SibdAddr(p, a) ==
    LET reg(l) == IF l = NoReg THEN NoReg ELSE p.loc[l].r
    IN  IF a.k = "label" THEN M(NoReg, NoReg, 0, a.disp)
        ELSE M(reg(a.base), IF a.scale = 0 THEN NoReg ELSE reg(a.index), a.scale, a.disp)
SibdRegs(p, a) == {SibdAddr(p, a).base, SibdAddr(p, a).index} \ {NoReg}

---------------------------------------------------------------------------
(* Two-operand instructions *)

\* op1 is the place of lreg d and op2 that of lreg s.
BinIntRR(p, kind, writes, allowMR, size, d, s) ==
    LET a == p.loc[d]
        b == p.loc[s]
    IN  CASE InReg(a) /\ InReg(b)  -> By(IntRR, kind, size, R(a.r), R(b.r))
          [] InReg(a) /\ ~InReg(b) -> By(IntRM, kind, size, R(a.r), Slot(b))
          [] ~InReg(a) /\ InReg(b) /\ allowMR -> By(IntMR, kind, size, Slot(a), R(b.r))
          [] OTHER ->
               PushReg(RAX) \o <<Ins("mov", size, R(RAX), Slot(a))>>
               \o (IF InReg(b) THEN By(IntRR, kind, size, R(RAX), R(b.r))
                   ELSE By(IntRM, kind, size, R(RAX), Slot(b)))
               \o (IF writes THEN <<Ins("mov", size, Slot(a), R(RAX))>> ELSE <<>>)
               \o PopReg(RAX)

BinFltRR(p, kind, size, d, s, allowMR) ==
    LET a == p.loc[d]
        b == p.loc[s]
    IN  CASE InReg(a) /\ InReg(b)  -> By(FltRR, kind, size, R(a.r), R(b.r))
          [] InReg(a) /\ ~InReg(b) -> By(FltRM, kind, size, R(a.r), Slot(b))
          [] ~InReg(a) /\ InReg(b) /\ allowMR -> By(FltMR, kind, size, Slot(a), R(b.r))
          [] OTHER ->
               PushReg(XMM0) \o <<Ins("mov_flt", size, R(XMM0), Slot(a))>>
               \o (IF InReg(b) THEN By(FltRR, kind, size, R(XMM0), R(b.r))
                   ELSE By(FltRM, kind, size, R(XMM0), Slot(b)))
               \o <<Ins("mov_flt", size, Slot(a), R(XMM0))>>
               \o PopReg(XMM0)

MovExtRR(p, kind, size, d, ssize, s) ==
    LET emit(r) == IF InReg(p.loc[s]) THEN ByExt(ExtRR, kind, size, R(r), ssize, R(p.loc[s].r))
                   ELSE ByExt(ExtRM, kind, size, R(r), ssize, Slot(p.loc[s]))
    IN  WithReg(p, "int", d, size, TRUE, {}, emit)

MovExtRM(p, kind, size, d, ssize, a) ==
    WithReg(p, "int", d, size, TRUE, SibdRegs(p, a),
            LAMBDA r : ByExt(ExtRM, kind, size, R(r), ssize, SibdAddr(p, a)))

BinIntRM(p, kind, writes, size, d, a) ==
    WithReg(p, "int", d, size, writes, SibdRegs(p, a),
            LAMBDA r : By(IntRM, kind, size, R(r), SibdAddr(p, a)))
BinFltRM(p, kind, writes, size, d, a) ==
    WithReg(p, "flt", d, size, writes, SibdRegs(p, a),
            LAMBDA r : By(FltRM, kind, size, R(r), SibdAddr(p, a)))
BinIntMR(p, kind, size, a, s) ==
    WithReg(p, "int", s, size, FALSE, SibdRegs(p, a),
            LAMBDA r : By(IntMR, kind, size, SibdAddr(p, a), R(r)))
BinFltMR(p, kind, size, a, s) ==
    WithReg(p, "flt", s, size, FALSE, SibdRegs(p, a),
            LAMBDA r : By(FltMR, kind, size, SibdAddr(p, a), R(r)))

BinIntMI(p, kind, size, a, c) == By(IntMI, kind, size, SibdAddr(p, a), I(c))
BinIntRI(p, kind, size, d, c) ==
    IF InReg(p.loc[d]) THEN By(IntRI, kind, size, R(p.loc[d].r), I(c))
    ELSE By(IntMI, kind, size, Slot(p.loc[d]), I(c))

---------------------------------------------------------------------------
(* The XIR instructions *)

\* Lregs are numbers that name no register of the processor.
LD == 40     \* destination or first operand
LS == 41     \* source or second operand
LB == 42     \* base of the address
LX == 43     \* index of the address
Lregs == {LD, LS, LB, LX}

Label == [k |-> "label", base |-> NoReg, index |-> NoReg, scale |-> 0, disp |-> 5000]
Sibd(base, index, scale, disp) ==
    [k |-> "sibd", base |-> base, index |-> index, scale |-> scale, disp |-> disp]

Xir(kind, op, size, ssize, mem, imm) ==
    [kind |-> kind, op |-> op, size |-> size, ssize |-> ssize, mem |-> mem, imm |-> imm]

\* Integer arithmetic.  Only imul has no form that writes memory.
LowerInt(p, i) ==
    CASE i.kind = "int_R_R" ->
           BinIntRR(p, <<i.op, "RR">>, TRUE, i.op # "imul", i.size, LD, LS)
      [] i.kind = "int_R_M" -> BinIntRM(p, <<i.op, "RM">>, TRUE, i.size, LD, i.mem)
      [] i.kind = "int_R_I" -> BinIntRI(p, <<i.op, "RI">>, i.size, LD, i.imm)

LowerBitwise(p, i) ==
    CASE i.kind = "int_R_R" -> BinIntRR(p, <<i.op, "RR">>, TRUE, TRUE, i.size, LD, LS)
      [] i.kind = "int_R_M" -> BinIntRM(p, <<i.op, "RM">>, TRUE, i.size, LD, i.mem)
      [] i.kind = "int_R_I" -> BinIntRI(p, <<i.op, "RI">>, i.size, LD, i.imm)

\* A comparison does not write its first operand back.
LowerCmp(p, i) ==
    CASE i.kind = "int_R_R" -> BinIntRR(p, <<"cmp", "RR">>, FALSE, TRUE, i.size, LD, LS)
      [] i.kind = "int_R_M" -> BinIntRM(p, <<"cmp", "RM">>, FALSE, i.size, LD, i.mem)
      [] i.kind = "int_R_I" -> BinIntRI(p, <<"cmp", "RI">>, i.size, LD, i.imm)
      [] i.kind = "Cmp_M_R" -> BinIntMR(p, <<"cmp", "MR">>, i.size, i.mem, LS)
      [] i.kind = "Cmp_M_I" -> BinIntMI(p, <<"cmp", "MI">>, i.size, i.mem, i.imm)

LowerFlt(p, i) ==
    CASE i.kind = "flt_R_R" -> BinFltRR(p, <<i.op, "RR">>, i.size, LD, LS, FALSE)
      [] i.kind = "flt_R_M" -> BinFltRM(p, <<i.op, "RM">>, TRUE, i.size, LD, i.mem)

\* The operand of an instruction that takes a register or memory.
RegOrSlot(l) == IF InReg(l) THEN R(l.r) ELSE Slot(l)

\* Multiplications and divisions of RAX and RDX by one operand.
LowerMul(p, i) ==
    <<Ins(i.op, i.size, None,
          IF i.kind = "one_R" THEN RegOrSlot(p.loc[LS]) ELSE SibdAddr(p, i.mem))>>
LowerDiv(p, i) ==
    <<Ins(i.op, i.size, None,
          IF i.kind = "one_R" THEN RegOrSlot(p.loc[LS]) ELSE SibdAddr(p, i.mem))>>

LowerUnary(p, i) == <<Ins(i.op, i.size, RegOrSlot(p.loc[LD]), None)>>

\* The count of a shift is in RCX or an immediate.
LowerShift(p, i) ==
    CASE i.kind = "shift_R_R" ->
           IF p.loc[LS] = Reg(RCX)
           THEN <<Ins(i.op, i.size, RegOrSlot(p.loc[LD]), R(RCX))>> ELSE <<Fatal>>
      [] i.kind = "shift_R_I" -> <<Ins(i.op, i.size, RegOrSlot(p.loc[LD]), I(i.imm))>>

\* A move of a place to itself is left out.
LowerMov(p, i) ==
    CASE i.kind = "Mov_R_R" ->
           IF p.loc[LD] = p.loc[LS] THEN <<>>
           ELSE BinIntRR(p, <<"mov", "RR">>, TRUE, TRUE, i.size, LD, LS)
      [] i.kind = "Mov_R_RH" -> <<Ins("mov", 1, RegOrSlot(p.loc[LD]), RH(p.loc[LS].r))>>
      [] i.kind = "Mov_R_M" -> BinIntRM(p, <<"mov", "RM">>, TRUE, i.size, LD, i.mem)
      [] i.kind = "Mov_M_R" -> BinIntMR(p, <<"mov", "MR">>, i.size, i.mem, LS)
      [] i.kind = "Mov_R_I" ->
           WithReg(p, "int", LD, i.size, TRUE, {},
                   LAMBDA r : <<Ins("mov", i.size, R(r), I(i.imm))>>)
      [] i.kind = "Mov_M_I" -> BinIntMI(p, <<"mov", "MI">>, i.size, i.mem, i.imm)

\* The kind is the one of the register form, also for a source in memory.
LowerMovSX(p, i) ==
    LET kind == <<IF i.ssize >= 4 THEN "movsxd" ELSE "movsx", "RR">>
    IN  CASE i.kind = "MovSX_R_R" -> MovExtRR(p, kind, i.size, LD, i.ssize, LS)
          [] i.kind = "MovSX_R_M" -> MovExtRM(p, kind, i.size, LD, i.ssize, i.mem)

\* A 4-byte source is zero-extended by a 4-byte move.
LowerMovZX(p, i) ==
    CASE i.kind = "MovZX_R_R" /\ i.ssize # 4 ->
           MovExtRR(p, <<"movzx", "RR">>, i.size, LD, i.ssize, LS)
      [] i.kind = "MovZX_R_R" /\ i.ssize = 4 ->
           BinIntRR(p, <<"mov", "RR">>, TRUE, TRUE, i.ssize, LD, LS)
      [] i.kind = "MovZX_R_M" /\ i.ssize # 4 ->
           MovExtRM(p, <<"movzx", "RM">>, i.size, LD, i.ssize, i.mem)
      [] i.kind = "MovZX_R_M" /\ i.ssize = 4 ->
           BinIntRM(p, <<"mov", "RM">>, TRUE, i.ssize, LD, i.mem)

LowerMovFlt(p, i) ==
    CASE i.kind = "MovFlt_R_R" ->
           IF p.loc[LD] = p.loc[LS] THEN <<>>
           ELSE BinFltRR(p, <<"mov_flt", "RR">>, i.size, LD, LS, TRUE)
      [] i.kind = "MovFlt_R_M" -> BinFltRM(p, <<"mov_flt", "RM">>, TRUE, i.size, LD, i.mem)
      [] i.kind = "MovFlt_M_R" -> BinFltMR(p, <<"mov_flt", "MR">>, i.size, i.mem, LS)

\* The second operand of an instruction that wants its first in a register,
\* and the registers that may then not be borrowed for the first.
SecondOperand(p, i) == IF i.kind \in {"Cvt_R_R", "UComi_R_R"} THEN RegOrSlot(p.loc[LS]) ELSE SibdAddr(p, i.mem)
SecondRegs(p, i) ==
    CASE i.kind \in {"Cvt_R_M", "UComi_R_M"} -> SibdRegs(p, i.mem)
      [] i.kind \in {"Cvt_R_R", "UComi_R_R"} -> IF InReg(p.loc[LS]) THEN {p.loc[LS].r} ELSE {}

FltDst(op) == op \in {"cvtss2sd", "cvtsd2ss", "cvtsi2ss", "cvtsi2sd"}
LowerFltToFlt(p, i) ==
    WithReg(p, "flt", LD, i.size, TRUE, SecondRegs(p, i),
            LAMBDA r : <<InsExt(i.op, i.size, R(r), i.ssize, SecondOperand(p, i))>>)
\* The processor converts to 4 or 8 bytes only; from memory, the size asked for is kept.
LowerFltToInt(p, i) ==
    LET width == IF i.size = 8 THEN 8 ELSE 4
    IN  WithReg(p, "int", LD, IF i.kind = "Cvt_R_M" THEN i.size ELSE width, TRUE, SecondRegs(p, i),
                LAMBDA r : <<InsExt(i.op, width, R(r), i.ssize, SecondOperand(p, i))>>)
LowerIntToFlt(p, i) ==
    WithReg(p, "flt", LD, i.size, TRUE, SecondRegs(p, i),
            LAMBDA r : <<InsExt(i.op, i.size, R(r), i.ssize, SecondOperand(p, i))>>)

LowerUComi(p, i) ==
    WithReg(p, "flt", LD, i.size, FALSE, SecondRegs(p, i),
            LAMBDA r : <<Ins("ucomis", i.size, R(r), SecondOperand(p, i))>>)

LowerLea(p, i) ==
    WithReg(p, "int", LD, 8, TRUE, SibdRegs(p, i.mem),
            LAMBDA r : <<Ins("lea", 8, R(r), SibdAddr(p, i.mem))>>)

\* Blocks are numbers; imm is the target and size the block of the instruction.
LowerJump(p, i) ==
    CASE i.kind = "Jmp" -> IF i.imm # N(i.size + 1) THEN <<Ins("jmp", 0, None, I(i.imm))>> ELSE <<>>
      [] i.kind = "JmpCC" -> <<Ins("jmpcc", 0, I(i.op), I(i.imm))>>

LowerSetCC(p, i) == <<Ins("setcc", 1, RegOrSlot(p.loc[LD]), I(i.op))>>

Lower(p, i) ==
    CASE i.op \in {"add", "sub", "imul"} /\ i.kind \in {"int_R_R", "int_R_M", "int_R_I"} -> LowerInt(p, i)
      [] i.op \in {"and", "or", "xor"} -> LowerBitwise(p, i)
      [] i.op = "cmp" -> LowerCmp(p, i)
      [] i.kind \in {"flt_R_R", "flt_R_M"} -> LowerFlt(p, i)
      [] i.op \in {"mul1", "imul1"} -> LowerMul(p, i)
      [] i.op \in {"div1", "idiv1"} -> LowerDiv(p, i)
      [] i.kind = "unary" -> LowerUnary(p, i)
      [] i.kind \in {"shift_R_R", "shift_R_I"} -> LowerShift(p, i)
      [] i.kind \in {"Mov_R_R", "Mov_R_RH", "Mov_R_M", "Mov_M_R", "Mov_R_I", "Mov_M_I"} ->
           LowerMov(p, i)
      [] i.kind \in {"MovSX_R_R", "MovSX_R_M"} -> LowerMovSX(p, i)
      [] i.kind \in {"MovZX_R_R", "MovZX_R_M"} -> LowerMovZX(p, i)
      [] i.kind \in {"MovFlt_R_R", "MovFlt_R_M", "MovFlt_M_R"} -> LowerMovFlt(p, i)
      [] i.op \in {"cvtss2sd", "cvtsd2ss"} -> LowerFltToFlt(p, i)
      [] i.op \in {"cvttss2si", "cvttsd2si"} -> LowerFltToInt(p, i)
      [] i.op \in {"cvtsi2ss", "cvtsi2sd"} -> LowerIntToFlt(p, i)
      [] i.kind \in {"UComi_R_R", "UComi_R_M"} -> LowerUComi(p, i)
      [] i.kind = "LEA" -> LowerLea(p, i)
      [] i.kind \in {"Jmp", "JmpCC"} -> LowerJump(p, i)
      [] i.kind = "SetCC" -> LowerSetCC(p, i)
      [] i.kind \in {"sext_ax", "rep_movsb", "rep_stosb", "syscall"} ->
           <<Ins(i.kind, i.size, None, None)>>
=============================================================================

------------------------------ MODULE Lowering ------------------------------
(***************************************************************************)
(* One XIR instruction, emitted and executed.  x is the instruction, loc    *)
(* the place of each of its lregs.  Gen emits the code of module X64Emit,   *)
(* Step executes one emitted instruction, and at the end the machine is     *)
(* compared with one that executes x on the lregs themselves.               *)
(***************************************************************************)
EXTENDS X64Emit

CONSTANTS
    IntLocs,     \* places an integer lreg may have
    FltLocs,     \* places a floating-point lreg may have
    BaseLocs,    \* registers the lregs of an address may have
    LeftOut      \* the kinds of instruction that are known to go wrong and left out

VARIABLES x, loc, leaf, code, pc, m

vars == <<x, loc, leaf, code, pc, m>>

---------------------------------------------------------------------------
(* The instructions there are, and the places their lregs may have *)

\* An immediate is used as an operand if it is at most the largest u32.
ImmFits4Bytes(c, size) == size < 8 \/ c # U64

Mems == {Label, Sibd(LB, NoReg, 0, -4), Sibd(LB, LX, 4, 8), Sibd(NoReg, LX, 8, 16)}
IntOps == {"add", "sub", "imul", "and", "or", "xor", "cmp"}

Instructions ==
    {i \in {Xir("int_R_R", op, n, n, Label, N(0)) : op \in IntOps, n \in {1, 4, 8}} :
        ~(i.op = "imul" /\ i.size = 1)}
    \cup {Xir("int_R_M", op, n, n, a, N(0)) : op \in {"add", "imul", "cmp"}, n \in {4, 8}, a \in Mems}
    \cup {i \in {Xir("int_R_I", op, n, n, Label, c) :
                    op \in {"add", "imul", "cmp"}, n \in {4, 8}, c \in {N(7), U32, U64}} :
            ImmFits4Bytes(i.imm, i.size)}
    \cup {Xir("Cmp_M_R", "cmp", n, n, a, N(0)) : n \in {1, 8}, a \in Mems}
    \cup {i \in {Xir(k[1], k[2], n, n, a, c) : k \in {<<"Cmp_M_I", "cmp">>, <<"Mov_M_I", "mov">>},
                    n \in {1, 8}, a \in Mems, c \in {N(7), U32, U64}} :
            ImmFits4Bytes(i.imm, i.size)}
    \cup {Xir("flt_R_R", op, n, n, Label, N(0)) : op \in FltArith, n \in {4, 8}}
    \cup {Xir("flt_R_M", op, n, n, a, N(0)) : op \in {"add_flt", "div_flt"}, n \in {4, 8}, a \in Mems}
    \cup {Xir("one_R", op, n, n, Label, N(0)) : op \in {"mul1", "imul1", "div1", "idiv1"}, n \in {1, 8}}
    \cup {Xir("one_M", op, n, n, a, N(0)) : op \in {"imul1", "div1"}, n \in {1, 8}, a \in Mems}
    \cup {Xir("unary", op, n, n, Label, N(0)) : op \in {"neg", "not"}, n \in {1, 8}}
    \cup {Xir("shift_R_R", op, n, n, Label, N(0)) : op \in {"sar", "shl"}, n \in {1, 8}}
    \cup {Xir("shift_R_I", op, n, n, Label, N(3)) : op \in {"sar", "shl"}, n \in {1, 8}}
    \cup {Xir("Mov_R_R", "mov", n, n, Label, N(0)) : n \in {1, 4, 8}}
    \cup {Xir("Mov_R_RH", "mov", 1, 1, Label, N(0))}
    \cup {Xir(k, "mov", n, n, a, N(0)) : k \in {"Mov_R_M", "Mov_M_R"}, n \in {1, 4, 8}, a \in Mems}
    \* An 8-byte immediate that fits in 32 bits is moved with 4 bytes.
    \cup {Xir("Mov_R_I", "mov", 4, n, Label, c) : n \in {4, 8}, c \in {N(7), U32}}
    \cup {Xir("Mov_R_I", "mov", 8, 8, Label, U64)}
    \cup {Xir("MovSX_R_R", "movsx", 8, n, Label, N(0)) : n \in {1, 4}}
    \cup {Xir("MovSX_R_M", "movsx", 4, 1, a, N(0)) : a \in Mems}
    \cup {Xir("MovZX_R_R", "movzx", 8, n, Label, N(0)) : n \in {1, 4}}
    \cup {Xir("MovZX_R_M", "movzx", 8, n, a, N(0)) : n \in {1, 4}, a \in Mems}
    \cup {Xir("MovFlt_R_R", "mov_flt", n, n, Label, N(0)) : n \in {4, 8}}
    \cup {Xir(k, "mov_flt", n, n, a, N(0)) : k \in {"MovFlt_R_M", "MovFlt_M_R"}, n \in {4, 8}, a \in Mems}
    \cup {Xir("Cvt_R_R", op, 8, 4, Label, N(0)) : op \in {"cvtss2sd", "cvttss2si", "cvtsi2sd"}}
    \cup {Xir("Cvt_R_R", op, 4, 8, Label, N(0)) : op \in {"cvtsd2ss", "cvttsd2si", "cvtsi2ss"}}
    \cup {Xir("Cvt_R_R", "cvttss2si", 1, 4, Label, N(0))}
    \cup {Xir("Cvt_R_M", op, 8, 4, a, N(0)) : op \in {"cvtss2sd", "cvttss2si", "cvtsi2sd"}, a \in Mems}
    \cup {Xir("Cvt_R_M", op, 4, 8, a, N(0)) : op \in {"cvtsd2ss", "cvttsd2si", "cvtsi2ss"}, a \in Mems}
    \cup {Xir("UComi_R_R", "ucomis", n, n, Label, N(0)) : n \in {4, 8}}
    \cup {Xir("UComi_R_M", "ucomis", n, n, a, N(0)) : n \in {4, 8}, a \in Mems}
    \cup {Xir("LEA", "lea", 8, 8, a, N(0)) : a \in Mems}
    \cup {Xir("Jmp", "jmp", b, 0, Label, N(t)) : b \in {1, 2}, t \in {1, 2, 3}}
    \cup {Xir("JmpCC", cc, 1, 0, Label, N(t)) : cc \in {"EQ", "S_LT"}, t \in {1, 2}}
    \cup {Xir("SetCC", cc, 1, 1, Label, N(0)) : cc \in {"EQ", "U_GT"}}
    \cup {Xir("sext_ax", "sext_ax", n, n, Label, N(0)) : n \in {1, 4, 8}}
    \cup {Xir(k, k, 8, 8, Label, N(0)) : k \in {"rep_movsb", "rep_stosb", "syscall"}}

NoOperands == {"Jmp", "JmpCC", "sext_ax", "rep_movsb", "rep_stosb", "syscall"}
OneAddress == {"int_R_M", "Cmp_M_R", "Cmp_M_I", "Mov_M_I", "flt_R_M", "one_M", "Mov_R_M", "Mov_M_R",
               "MovSX_R_M", "MovZX_R_M", "MovFlt_R_M", "MovFlt_M_R", "Cvt_R_M", "UComi_R_M", "LEA"}
NoDest   == NoOperands \cup {"Cmp_M_R", "Cmp_M_I", "Mov_M_I", "one_R", "one_M", "Mov_M_R", "MovFlt_M_R"}
OneSource == {"int_R_R", "Cmp_M_R", "flt_R_R", "one_R", "shift_R_R", "Mov_R_R", "Mov_R_RH", "Mov_M_R",
              "MovSX_R_R", "MovZX_R_R", "MovFlt_R_R", "MovFlt_M_R", "Cvt_R_R", "UComi_R_R"}

\* Instructions that only write their destination: it may take the place of
\* an operand whose last use this is.
Fresh == {"Mov_R_R", "Mov_R_RH", "Mov_R_M", "Mov_R_I", "MovSX_R_R", "MovSX_R_M", "MovZX_R_R",
          "MovZX_R_M", "MovFlt_R_R", "MovFlt_R_M", "Cvt_R_R", "Cvt_R_M", "LEA", "SetCC"}

Uses(i) ==
    {l \in Lregs :
        \/ l = LD /\ i.kind \notin NoDest
        \/ l = LS /\ i.kind \in OneSource
        \/ i.kind \in OneAddress /\ i.mem.k = "sibd" /\ l \in {i.mem.base, i.mem.index}}

FltLreg(i, l) ==
    \/ i.kind \in {"flt_R_R", "flt_R_M", "MovFlt_R_R", "MovFlt_R_M", "MovFlt_M_R", "UComi_R_R", "UComi_R_M"}
       /\ l \in {LD, LS}
    \/ i.kind \in {"Cvt_R_R", "Cvt_R_M"} /\ l = LD /\ FltDst(i.op)
    \/ i.kind = "Cvt_R_R" /\ l = LS /\ i.op \notin {"cvtsi2ss", "cvtsi2sd"}

Nowhere == [k |-> "none"]

Places(i, l) ==
    CASE l \notin Uses(i) -> {Nowhere}
      [] l \in {LB, LX} /\ l \in Uses(i) -> BaseLocs
      [] i.kind = "shift_R_R" /\ l = LS -> {Reg(RCX)}
      [] i.kind = "Mov_R_RH" /\ l = LS -> {Reg(RAX)}
      [] FltLreg(i, l) -> FltLocs
      [] OTHER -> IntLocs

\* Registers an instruction implies, which its lregs cannot have.
Implied(i) ==
    CASE i.kind \in {"one_R", "one_M"} -> {RAX, RDX}
      [] i.kind \in {"shift_R_R"} -> {RCX}
      [] OTHER -> {}

\* Lregs that live at the same time have different places.
Placed(i, p) ==
    /\ \A a, b \in Uses(i) : a # b /\ p[a] = p[b] => i.kind \in Fresh /\ LD \in {a, b}
    /\ \A a \in Uses(i) : InReg(p[a]) /\ p[a].r \in Implied(i) => i.kind = "shift_R_R" /\ a = LS

---------------------------------------------------------------------------
(* What goes wrong: an input of one of these kinds is generated unless LeftOut names it. *)

Spilled(p, l) == p.loc[l].k = "stack"

\* The register borrowed for the spilled operand holds the other one.
TmpIsSource(i, p) ==
    /\ Spilled(p, LD) /\ InReg(p.loc[LS])
    /\ \/ i.kind \in {"MovSX_R_R", "MovZX_R_R"} /\ p.loc[LS].r = ScratchRegs("int", p.leaf)[1]
       \/ i.kind = "int_R_R" /\ i.op = "imul" /\ p.loc[LS].r = RAX
       \/ i.kind = "flt_R_R" /\ p.loc[LS].r = XMM0

\* Four bytes are stored to a slot where eight are wanted.
HalfSlot(i, p) ==
    /\ Spilled(p, LD)
    /\ \/ i.kind = "MovZX_R_M" /\ i.ssize = 4
       \/ i.kind = "Mov_R_I" /\ i.ssize = 8 /\ i.size = 4

\* Giving back the stack of a borrowed XMM register sets the flags.
FlagsLost(i, p) == i.kind \in {"UComi_R_R", "UComi_R_M"} /\ Spilled(p, LD)

\* The processor sign-extends a 32-bit immediate.
SignedImm(i, p) ==
    i.imm = U32 /\ i.size = 8 /\ i.kind \in {"int_R_I", "Cmp_M_I", "Mov_M_I"}

Known(i, p) ==
    \/ "TmpIsSource" \in LeftOut /\ TmpIsSource(i, p)
    \/ "HalfSlot" \in LeftOut /\ HalfSlot(i, p)
    \/ "FlagsLost" \in LeftOut /\ FlagsLost(i, p)
    \/ "SignedImm" \in LeftOut /\ SignedImm(i, p)

---------------------------------------------------------------------------
(* The specification *)

\* The machine before the first emitted instruction: addresses in the
\* registers of addresses, an unknown value in every other.
Start(p, i) ==
    LET holds(r, l) == l \in Uses(i) /\ p[l] = Reg(r)
        string == i.kind \in {"rep_movsb", "rep_stosb"}
    IN  [reg |-> [r \in Registers |->
                    CASE r = RSP -> Num(1000)
                      [] r = RBP -> Num(1048)
                      [] holds(r, LB) -> Num(2000)
                      [] holds(r, LX) -> Num(3)
                      [] string /\ r = RDI -> Num(2000)
                      [] string /\ r = RSI -> Num(3000)
                      [] string /\ r = RCX -> Num(3)
                      [] OTHER -> [b \in 1..(IF IsFlt(r) THEN 16 ELSE 8) |-> <<"in", r, b>>]],
         mem |-> <<>>, flags |-> "flags", goto |-> N(i.size + 1)]

Init ==
    /\ x \in Instructions
    /\ leaf \in BOOLEAN
    /\ \E d \in Places(x, LD), s \in Places(x, LS), b \in Places(x, LB), n \in Places(x, LX) :
          loc = (LD :> d @@ LS :> s @@ LB :> b @@ LX :> n)
    /\ Placed(x, loc)
    /\ ~Known(x, [loc |-> loc, leaf |-> leaf])
    /\ code = <<>>
    /\ pc = 0
    /\ m = Start(loc, x)

Died == \E k \in 1..Len(code) : code[k] = Fatal

Gen ==
    /\ pc = 0
    /\ code' = Lower([loc |-> loc, leaf |-> leaf], x)
    /\ pc' = 1
    /\ UNCHANGED <<x, loc, leaf, m>>

Step ==
    /\ pc \in 1..Len(code)
    /\ ~Died
    /\ m' = Exec(m, code[pc])
    /\ pc' = pc + 1
    /\ UNCHANGED <<x, loc, leaf, code>>

Next == Gen \/ Step
Spec == Init /\ [][Next]_vars

---------------------------------------------------------------------------
(* The reference: one instruction on a machine whose registers are the lregs *)

Ideal ==
    LET m0    == Start(loc, x)
        value(l) == IF InReg(loc[l]) THEN m0.reg[loc[l].r]
                    ELSE Bytes(m0, 1048 + loc[l].off, 8) \o (IF FltLreg(x, l) THEN Zeros(8) ELSE <<>>)
        imm   == x.kind \in {"int_R_I", "shift_R_I", "Cmp_M_I", "Mov_M_I", "Mov_R_I"}
        m1    == [m0 EXCEPT !.reg = [r \in Registers \cup Lregs |->
                     CASE r \in Registers -> m0.reg[r]
                       [] r = LS /\ imm -> ImmWord(x.imm)
                       [] r \in Uses(x) -> value(r)
                       [] OTHER -> <<>>]]
        a     == M(x.mem.base, IF x.mem.scale = 0 THEN NoReg ELSE x.mem.index, x.mem.scale, x.mem.disp)
        ins   ==
          CASE x.kind \in {"int_R_R", "int_R_I", "flt_R_R", "UComi_R_R", "shift_R_I"} ->
                 Ins(x.op, x.size, R(LD), R(LS))
            [] x.kind \in {"int_R_M", "flt_R_M", "UComi_R_M"} -> Ins(x.op, x.size, R(LD), a)
            [] x.kind \in {"Mov_R_R", "MovFlt_R_R"} -> Ins("mov", x.size, R(LD), R(LS))
            [] x.kind = "Mov_R_I" -> Ins("mov", x.ssize, R(LD), R(LS))
            [] x.kind \in {"Mov_R_M", "MovFlt_R_M"} -> Ins("mov", x.size, R(LD), a)
            [] x.kind \in {"Mov_M_R", "MovFlt_M_R", "Mov_M_I"} -> Ins("mov", x.size, a, R(LS))
            [] x.kind \in {"Cmp_M_R", "Cmp_M_I"} -> Ins("cmp", x.size, a, R(LS))
            [] x.kind = "Mov_R_RH" -> Ins("mov", 1, R(LD), RH(LS))
            [] x.kind = "one_R" -> Ins(x.op, x.size, None, R(LS))
            [] x.kind = "one_M" -> Ins(x.op, x.size, None, a)
            [] x.kind = "unary" -> Ins(x.op, x.size, R(LD), None)
            [] x.kind = "shift_R_R" -> Ins(x.op, x.size, R(LD), R(LS))
            [] x.kind \in {"MovSX_R_R", "MovZX_R_R"} -> InsExt(x.op, x.size, R(LD), x.ssize, R(LS))
            [] x.kind \in {"MovSX_R_M", "MovZX_R_M"} -> InsExt(x.op, x.size, R(LD), x.ssize, a)
            [] x.kind = "Cvt_R_R" -> InsExt(x.op, x.size, R(LD), x.ssize, R(LS))
            [] x.kind = "Cvt_R_M" -> InsExt(x.op, x.size, R(LD), x.ssize, a)
            [] x.kind = "LEA" -> Ins("lea", 8, R(LD), a)
            [] x.kind = "SetCC" -> Ins("setcc", 1, R(LD), I(x.op))
            [] x.kind = "JmpCC" -> Ins("jmpcc", 0, I(x.op), I(x.imm))
            [] x.kind = "Jmp" -> Ins("jmp", 0, None, I(x.imm))
            [] OTHER -> Ins(x.kind, x.size, None, None)
    IN  Exec(m1, ins)

Done == pc > Len(code) /\ pc > 0 /\ ~Died

\* How many bytes of its destination an instruction defines.
Defines(i) == IF i.kind = "Mov_R_I" THEN i.ssize ELSE i.size
Compares(i) == i.op \in {"cmp", "ucomis"}

\* What is emitted for an instruction does what the instruction says: its
\* destination, in its register or in its slot, holds what the instruction
\* computes, memory holds what it stores, a comparison leaves its flags for the
\* jump that follows, and a jump goes where it says.
SameEffect ==
    Done =>
      LET n == IF Compares(x) THEN 8 ELSE Defines(x)
      IN  /\ LD \in Uses(x) => Read(m, RegOrSlot(loc[LD]), n) = SubSeq(Ideal.reg[LD], 1, n)
          /\ \A a \in DOMAIN m.mem \cup DOMAIN Ideal.mem :
                a \notin 0..1048 => ByteAt(m, a) = ByteAt(Ideal, a)
          /\ Compares(x) => m.flags = Ideal.flags
          /\ m.goto = Ideal.goto

\* Nothing else changes: every other register, a borrowed one included, holds
\* what it held (or what the instruction says, for the registers it implies),
\* the stack pointer is back and no other slot of the frame is written.
Undisturbed ==
    Done =>
      /\ \A r \in Registers : loc[LD] # Reg(r) => m.reg[r] = Ideal.reg[r]
      /\ \A a \in DOMAIN m.mem :
            /\ a \in 1000..1048
            /\ ~(Spilled([loc |-> loc], LD) /\ a \in (1048 + loc[LD].off)..(1055 + loc[LD].off))
            => ByteAt(m, a) = ByteAt(Ideal, a)

\* The compiler has an instruction for every place an operand may be in.
SpilledOperandsLower == ~Died
=============================================================================

---------------------------- MODULE MCObjectFile ----------------------------
(***************************************************************************)
(* Programs for TLC: every form of instruction over registers that need a   *)
(* prefix, a SIB byte, a displacement or none of them; jumps near the limit *)
(* of the short form; references of every kind; initializers of every kind. *)
(***************************************************************************)
EXTENDS ObjectFile

Entities ==
    [strs |-> <<<<"a", "b", "c">>, <<>>>>,
     floats |-> <<[size |-> 4, v |-> "f1"], [size |-> 8, v |-> "f2"]>>,
     vars |-> <<[type |-> Scalar(2), init |-> IntConst("x")],
                [type |-> Scalar(8), init |-> NotGiven]>>,
     foreign |-> 2]
Program(procs) == [procs |-> procs] @@ Entities
Block(code, jmp) == [code |-> code, jmp |-> jmp]
Straight(code) == Program(<<<<Block(code, NoJump)>>>>)
Listed(S) == FoldSet(LAMBDA x, s : Append(s, x), <<>>, S)

---------------------------------------------------------------------------
(* Instructions.  The code has no sound encoding for two kinds.              *)

\* A global, which is addressed relative to the next instruction, together with
\* an immediate, which is not counted.
RipImmediate(i) ==
    i.dst.k = "global" /\ i.src.k = "i" /\ i.op # "setcc" /\ ~(i.op \in {"shl", "sar"} /\ i.src = I(N(1)))
\* A one-byte move into RSP..RDI from a register that needs no prefix.
MovDst8h(i) ==
    /\ i.op = "mov" /\ i.size = 1 /\ i.src.k = "r" /\ i.dst.k = "r"
    /\ i.dst.r \in RSP..RDI /\ i.src.r \in RAX..RBX
LeftOut(i) == RipImmediate(i) \/ MovDst8h(i)

Sizes == {1, 2, 4, 8}
Ints == {RAX, RBX, RSP, RBP, RSI, R8, R12, R13}
Few  == {RCX, RDI, R9}
Flts == {XMM0, XMM0 + 1, XMM0 + 8, XMM0 + 15}
Mem(b, d) == M(b, NoReg, 0, d)
Mems == {Mem(RBP, -8), Mem(R12, 0), Mem(RSP, 16), Mem(R13, 0), M(RAX, R9, 4, 200),
         Global(Var(1)), Global(Str(1)), Global(Flt(2)), Global(Var(2))}
RegOps == {R(r) : r \in Ints}
ImmsOf(size) ==
    {N(0), N(1), N(-1), N(127), N(-128)}
    \cup (IF size = 1 THEN {N(200)} ELSE {N(128), N(-129), N(1000)})
    \cup (IF size >= 4 THEN {N(100000), N(-100000)} ELSE {})
    \cup (IF size = 4 THEN {U32} ELSE {})

TwoInts(op, size) ==
    {Ins(op, size, d, s) : d \in RegOps, s \in RegOps}
    \cup {Ins(op, size, R(r), x) : r \in Few, x \in Mems}
    \cup (IF op = "imul" THEN {} ELSE {Ins(op, size, x, R(r)) : r \in Few, x \in Mems})
WithImms(op, size) ==
    {Ins(op, size, R(r), I(c)) : r \in Ints \cup Few, c \in ImmsOf(size)}
    \cup (IF op = "imul" THEN {} ELSE {Ins(op, size, x, I(c)) : x \in Mems, c \in ImmsOf(size)})
Places1 == {R(r) : r \in Ints \cup Few} \cup Mems

Forms ==
       {TwoInts(op, n) : op \in DOMAIN Alu \cup {"mov"}, n \in Sizes}
  \cup {TwoInts("imul", n) : n \in {2, 4, 8}}
  \cup {WithImms(op, n) : op \in DOMAIN Alu \cup {"mov"}, n \in Sizes}
  \cup {WithImms("imul", n) : n \in {2, 4, 8}}
  \cup {{Ins("mov", 8, R(r), I(c)) : r \in Ints, c \in {U32, U64}}}
  \cup {{Ins("mov", 1, R(RAX), RH(RAX))}}
  \cup {{Ins(op, n, x, s) : x \in Places1, s \in {R(RCX), I(N(1)), I(N(5))}} : op \in {"shl", "sar"}, n \in Sizes}
  \cup {{Ins(op, n, x, None) : x \in Places1} : op \in {"not", "neg"}, n \in Sizes}
  \cup {{Ins(op, n, None, x) : x \in Places1} : op \in {"mul1", "imul1", "div1", "idiv1"}, n \in Sizes}
  \cup {{InsExt(op, n, R(r), 1, x) : r \in Ints, x \in Places1} : op \in {"movzx", "movsx"}, n \in {2, 4, 8}}
  \cup {{InsExt(op, n, R(r), 2, x) : r \in Ints, x \in Places1} : op \in {"movzx", "movsx"}, n \in {4, 8}}
  \cup {{InsExt("movsxd", 8, R(r), 4, x) : r \in Ints, x \in Places1}}
  \cup {{Ins(op, n, R(d), x) : d \in Flts, x \in Mems \cup {R(r) : r \in Flts}} :
          op \in FltArith \cup {"mov_flt", "ucomis"}, n \in {4, 8}}
  \cup {{Ins("mov_flt", n, x, R(s)) : s \in Flts, x \in Mems} : n \in {4, 8}}
  \cup {{Ins("movdqu", 16, R(s), x) : s \in Flts, x \in Mems},
        {Ins("movdqu", 16, x, R(s)) : s \in Flts, x \in Mems}}
  \cup {{InsExt("cvtss2sd", 8, R(d), 4, x) : d \in Flts, x \in Mems \cup {R(r) : r \in Flts}},
        {InsExt("cvtsd2ss", 4, R(d), 8, x) : d \in Flts, x \in Mems \cup {R(r) : r \in Flts}}}
  \cup {{InsExt(IF f = 4 THEN "cvttss2si" ELSE "cvttsd2si", n, R(d), f, x)
           : d \in Ints, x \in Mems \cup {R(r) : r \in Flts}} : f \in {4, 8}, n \in {4, 8}}
  \cup {{InsExt(IF f = 4 THEN "cvtsi2ss" ELSE "cvtsi2sd", f, R(d), n, x)
           : d \in Flts, x \in Places1} : f \in {4, 8}, n \in {4, 8}}
  \cup {{Ins("setcc", 1, x, I(c)) : x \in Places1} : c \in DOMAIN CondNumber}
  \cup {{Ins("lea", 8, R(r), x) : r \in Ints, x \in Mems},
        {Ins("push", 8, None, R(r)) : r \in Ints}, {Ins("pop", 8, R(r), None) : r \in Ints},
        {Ins("call", 8, None, x) : x \in Places1 \cup {Callee(Proc(1)), Callee(Foreign(1)), Callee(Foreign(2))}},
        {Ins("sext_ax", n, None, None) : n \in {2, 4, 8}},
        {Ins(op, 1, None, None) : op \in {"rep_movsb", "rep_stosb"}},
        {Ins(op, 8, None, None) : op \in {"ret", "syscall"}}}

Addresses(b) ==
    {M(b, NoReg, 0, d) : d \in {0, 8, 127, 128, -128, -129, 1000}}
    \cup {M(b, x, s, d) : x \in {RAX, RBP, R8, R12, R13}, s \in {1, 2, 4, 8}, d \in {0, 8, -129}}

Instructions ==
    UNION {{Straight(Listed({i \in F : i.dst = d /\ ~LeftOut(i)})) : d \in {i.dst : i \in F}} : F \in Forms}
    \cup {Straight(Listed({Ins("lea", 8, R(r), a) : a \in {x \in Addresses(b) : x.index = n}}))
            : b \in RAX..R15, r \in {RAX, R9}, n \in {NoReg, RAX, RBP, R8, R12, R13}}

---------------------------------------------------------------------------
(* Jumps *)

JumpsTo(n) == {NoJump} \cup {Jmp(t) : t \in 1..n} \cup {JmpCC("EQ", t) : t \in 1..n}
PadBlock(n, jmp) == Block(<<Pad(n)>>, jmp)
RetBlock == Block(<<Ins("ret", 8, None, None)>>, NoJump)

NearLimit ==
    {Program(<<<<PadBlock(a, j), PadBlock(b, k), RetBlock>>>>)
       : a \in {1, 122, 124, 126}, b \in {1, 120, 121, 122, 123, 125, 126, 127, 128},
         j \in JumpsTo(3), k \in JumpsTo(3)}
\* One jump that grows takes another over the limit.
Cascades ==
    {Program(<<<<PadBlock(a, JmpCC("S_LT", 4)), PadBlock(60, j), PadBlock(c, k),
                 PadBlock(130, Jmp(2)), RetBlock>>>>)
       : a \in {1, 4}, c \in 57..66, j \in {JmpCC("EQ", 5), Jmp(1), Jmp(3)},
         k \in {JmpCC("U_GT", 1), Jmp(5), JmpCC("EQ", 2)}}

---------------------------------------------------------------------------
(* References and initializers *)

Uses(e) == <<Ins("lea", 8, R(R12), Global(e)), Ins("mov", 8, R(RAX), Global(e))>>
Calls(p) == <<Ins("call", 8, None, Callee(p))>>
Body(code) == <<Block(code, Jmp(3)), PadBlock(140, JmpCC("EQ", 1)), RetBlock>>
References ==
    {Program(<<Body(Calls(p) \o Uses(e)), Body(Uses(Proc(1)) \o Calls(Foreign(2))), Incomplete,
               Body(Calls(q) \o Uses(e) \o Calls(Proc(2)))>>)
       : p \in {Proc(4), Foreign(1)}, q \in {Proc(4), Proc(1)},
         e \in {Var(1), Var(2), Str(1), Str(2), Flt(1), Flt(2), Proc(4), Foreign(2)}}

Pair == StructOf(<<Scalar(1), Scalar(4)>>)
Mixed == StructOf(<<Scalar(1), Pair, Pointer, Scalar(2)>>)
Either == UnionOf(<<Scalar(1), Pair, Pointer>>)
At(i, e) == Member(i, e)
Then(e)  == Member(InOrder, e)

Variables ==
    {[type |-> Mixed, init |-> Compound(<<At(3, AddrOf(Var(1))), Then(IntConst("s"))>>)],
     [type |-> Mixed, init |-> Compound(<<At(2, Compound(<<At(2, IntConst("y"))>>)), At(1, IntConst("b"))>>)],
     [type |-> Either, init |-> Compound(<<At(2, Compound(<<Then(IntConst("p")), Then(IntConst("q"))>>))>>)],
     [type |-> Either, init |-> NotGiven],
     [type |-> Either, init |-> Compound(<<>>)],
     [type |-> ArrayOf(Scalar(2), 4), init |-> Compound(<<At(3, IntConst("c")), Then(IntConst("d")), At(3, IntConst("e"))>>)],
     [type |-> ArrayOf(Pair, 2), init |-> Compound(<<Then(Compound(<<At(2, IntConst("m"))>>))>>)],
     [type |-> ArrayOf(Scalar(1), 4), init |-> StrChars(<<"h", "e", "y">>)],
     [type |-> ArrayOf(Pointer, 2), init |-> Compound(<<At(2, AddrOf(Str(1))), At(1, Plus(AddrOf(Var(3)), 2, 4))>>)],
     [type |-> Pointer, init |-> AddrOf(Proc(2))],
     [type |-> Pointer, init |-> Plus(Plus(AddrOf(Str(1)), 3, 1), -2, 1)],
     [type |-> Scalar(4), init |-> FloatLit("f")]}
Initializers ==
    {[Program(<<Body(Uses(Var(3))), Body(Calls(Proc(1)))>>) EXCEPT !.vars = <<first, v, w>>]
       : first \in {[type |-> Scalar(1), init |-> IntConst("k")], [type |-> Pointer, init |-> AddrOf(Var(2))]},
         v \in Variables, w \in Variables}
Bare == {[strs |-> <<>>, floats |-> <<>>, vars |-> <<>>, foreign |-> 0, procs |-> <<Body(<<>>)>>],
         [strs |-> <<>>, floats |-> <<>>, foreign |-> 0, procs |-> <<Body(Uses(Var(2)))>>,
          vars |-> <<[type |-> Scalar(1), init |-> NotGiven], [type |-> Mixed, init |-> NotGiven]>>]}

MCConds == DOMAIN CondNumber
MCPrograms == Instructions \cup NearLimit \cup Cascades \cup References \cup Initializers \cup Bare
=============================================================================

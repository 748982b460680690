----------------------------- MODULE MCIrToXir -----------------------------
(***************************************************************************)
(* Procedures for IrToXir.  Every kind of instruction is put between loads  *)
(* of its registers and uses of values that stay live across it: a base     *)
(* and an index of an address, a value that is stored last.                *)
(***************************************************************************)
EXTENDS IrToXir

IntT(n, signed) == [cls |-> "int", size |-> n, align |-> n, signed |-> signed]
FltT(n)         == [cls |-> "flt", size |-> n, align |-> n, signed |-> FALSE]
Obj(n)         == [cls |-> "obj", size |-> n, align |-> 8, signed |-> FALSE]
ObjF(n)        == [cls |-> "objf", size |-> n, align |-> 8, signed |-> FALSE]
S64 == IntT(8, TRUE)
U64T == IntT(8, FALSE)
S32 == IntT(4, TRUE)

LocalVar(d) == MemAddr(<<"local", d>>, NoIReg, 0, 0)
Kept == MemAddr(<<"reg", "p">>, "i", 8, 4)         \* p and i are used again after the instruction

\* Addresses whose registers may be used again: a scale the processor has.
Plain == { LocalVar(-24),
           MemAddr(<<"local", -200>>, "i", 8, 4),
           MemAddr(<<"reg", "p">>, NoIReg, 0, 16),
           MemAddr(<<"reg", "p">>, "i", 4, 8),
           MemAddr(<<"global", "g">>, NoIReg, 0, 0),
           MemAddr(<<"lit", "f">>, NoIReg, 0, 0),
           MemAddr(<<"alias", <<"local", -48>>>>, NoIReg, 0, 8),
           MemAddr(<<"at", MemAddr(<<"reg", "p">>, "i", 8, 8)>>, NoIReg, 0, 16) }
\* An element of 12 bytes: its address is computed in the index q, h or j.
Odd(q, j) == MemAddr(<<"reg", q>>, j, 12, 8)
OddLocal(j) == MemAddr(<<"local", -400>>, j, 12, 8)
Nested(q, h, j) == MemAddr(<<"at", MemAddr(<<"reg", q>>, h, 8, 8)>>, j, 4, 16)
Nested12(q, h, j) == MemAddr(<<"at", MemAddr(<<"reg", q>>, h, 8, 8)>>, j, 12, 16)

AddrsA == Plain \cup {Odd("q", "j"), OddLocal("j"), Nested("q", "h", "j"), Nested12("q", "h", "j")}
FewA   == {LocalVar(-24), MemAddr(<<"reg", "p">>, "i", 4, 8), Odd("q", "j")}
AddrsB == Plain \cup {Odd("q2", "j2"), Nested("q2", "h2", "j2")}
FewB   == {LocalVar(-32), Odd("q2", "j2"), MemAddr(<<"reg", "p">>, NoIReg, 0, 16)}
Addrs(S) == {Addr(m) : m \in S}

---------------------------------------------------------------------------
(* Procedures of one block *)

RECURSIVE AddrRegs(_)
AddrRegs(a) ==
    {r \in {a.index} : r # NoIReg /\ a.scale # 0}
    \cup (CASE a.base[1] = "reg" -> {a.base[2]} [] a.base[1] = "at" -> AddrRegs(a.base[2]) [] OTHER -> {})
OpRegs(x) == CASE x.k = "a" -> AddrRegs(x.a) [] x.k = "r" -> {x.r} [] OTHER -> {}

\* Every register is loaded from a variable of its own.
Names == <<"k", "a", "p", "i", "q", "j", "h", "b", "q2", "j2", "h2", "n", "c", "d", "e", "f", "g", "u", "v",
           "proc", "m", "x", "y", "r", "z", "s", "t", "w">>
Home(r) == LocalVar(-1000 - 8 * CHOOSE n \in DOMAIN Names : Names[n] = r)
Load(r, t) == IR("load", t, r, Addr(Home(r)), NoOp)
Store(r, t, a) == IR("store", t, NoIReg, Addr(a), Reg(r))
RetVoid == IR("ret", Void, NoIReg, NoOp, NoOp)

InOrder(S) == SelectSeq(Names, LAMBDA r : r \in S)

\* ta and tb are the types of the registers a and b.
Around(ta, tb, regs, instrs, results) ==
    LET typed(r) == CASE r = "a" -> ta [] r = "b" -> tb [] OTHER -> U64T
        loads == LET rs == InOrder(regs \cup {"p", "i", "k"})
                 IN  [n \in 1..Len(rs) |-> Load(rs[n], typed(rs[n]))]
    IN  <<loads \o instrs
          \o [n \in 1..Len(results) |-> Store(results[n][1], results[n][2], Kept)]
          \o <<Store("k", U64T, LocalVar(-72)), RetVoid>>>>
Simple(i) ==
    Around(i.type, i.type, OpRegs(i.a) \cup OpRegs(i.b), <<i>>,
           IF i.op = "divmod" THEN <<<<i.r, i.type>>, <<i.r2, i.type>>>> ELSE <<<<i.r, i.type>>>>)

Imms(t) == {Imm(Small(5))} \cup (IF t.size = 8 THEN {Imm(U64(1))} ELSE {Imm(U32(1))})

Binary ==
    {Simple(IR(op, t, "r", a, b)) :
       op \in {"sub", "mul", "divide", "mod"}, t \in {S64, U64T}, a \in {Imm(Small(7)), Reg("a")} \cup Addrs(FewA),
       b \in Imms(S64) \cup {Reg("b")} \cup Addrs(FewB)}
    \cup
    {Simple(IR(op, t, "r", a, b)) :
       op \in {"add", "and", "or", "xor", "mul", "divide"}, t \in {S32, IntT(4, FALSE)}, a \in {Reg("a")} \cup Addrs(FewA),
       b \in Imms(S32) \cup {Reg("b"), Addr(Odd("q2", "j2"))}}
    \cup
    {Simple([IR("divmod", t, "r", a, b) EXCEPT !.r2 = "s"]) :
       t \in {S64, IntT(4, FALSE)}, a \in {Imm(Small(7)), Reg("a")} \cup Addrs(FewA),
       b \in {Imm(Small(5)), Reg("b")} \cup Addrs(FewB)}
    \cup
    {Simple(IR(op, t, "r", a, b)) :
       op \in {"fadd", "fsub", "fmul", "fdiv"}, t \in {FltT(4), FltT(8)}, a \in {Reg("a")} \cup Addrs(FewA),
       b \in {Reg("b")} \cup Addrs(FewB)}
    \cup
    {Simple(IR(op, t, "r", a, b)) :
       op \in {"sar", "shl"}, t \in {S64, S32}, a \in {Imm(Small(7)), Reg("a")} \cup Addrs(FewA),
       b \in {Imm(Small(5)), Reg("b")} \cup Addrs(FewB)}

Unary ==
    {Simple(IR(op, t, "r", Reg("a"), NoOp)) : op \in {"neg", "not"}, t \in {S64, IntT(1, TRUE)}}
    \cup
    {Around(c[3], c[3], OpRegs(a), <<[IR(c[1], c[2], "r", a, NoOp) EXCEPT !.from = c[3]]>>, <<<<"r", c[2]>>>>) :
       c \in {<<"trunc", IntT(2, TRUE), S64>>, <<"zext", U64T, IntT(1, FALSE)>>, <<"sext", S64, S32>>,
              <<"flt2flt", FltT(8), FltT(4)>>, <<"flt2int", S32, FltT(8)>>, <<"int2flt", FltT(8), S64>>,
              <<"int2flt", FltT(4), IntT(2, TRUE)>>, <<"int2flt", FltT(8), IntT(1, FALSE)>>},
       a \in {Reg("a")}}
    \cup
    {Around(c[3], c[3], OpRegs(a), <<[IR(c[1], c[2], "r", a, NoOp) EXCEPT !.from = c[3]]>>, <<<<"r", c[2]>>>>) :
       c \in {<<"flt2flt", FltT(8), FltT(4)>>, <<"flt2int", S32, FltT(8)>>, <<"int2flt", FltT(4), IntT(2, TRUE)>>},
       a \in Addrs(FewA)}

Moves ==
    {Simple(IR("limm", t, "r", Imm(c), NoOp)) : t \in {S64}, c \in {Small(0), U32(1), U64(1)}}
    \cup {Simple(IR("load", t, "r", Addr(a), NoOp)) : t \in {IntT(1, TRUE), FltT(8)}, a \in AddrsA}
    \cup {Simple(IR("laddr", U64T, "r", Addr(a), NoOp)) : a \in AddrsA}
    \cup {Around(t, t, OpRegs(Addr(a)) \cup OpRegs(b), <<IR("store", t, NoIReg, Addr(a), b)>>, <<>>) :
            t \in {S64}, a \in AddrsA, b \in Imms(S64) \cup {Reg("b")}}

Comparisons ==
    LET pairs == ({Imm(Small(7)), Imm(U64(2)), Reg("a")} \X Addrs(FewB)) \cup (Addrs(FewA) \X (Imms(S64) \cup {Reg("b")} \cup Addrs(FewB)))
    IN  {Simple([IR("cmp", t, "r", ab[1], ab[2]) EXCEPT !.cond = c]) : t \in {S64}, ab \in pairs, c \in {"s<", "!="}}
        \cup {Simple([IR("fcmp", FltT(8), "r", Reg("a"), b) EXCEPT !.cond = c]) :
                c \in {"s<", "s<=", "s>", "s>=", "==", "!="}, b \in {Reg("b")} \cup Addrs(FewB)}

Blocks ==
    {Around(U64T, U64T, OpRegs(a) \cup OpRegs(b) \cup OpRegs(n),
            <<[IR(op, IntT(1, FALSE), NoIReg, a, b) EXCEPT !.args = <<n>>]>>, <<>>) :
       op \in {"memcpy"}, a \in Addrs(AddrsA), b \in Addrs(FewB), n \in {Imm(Small(24)), Reg("n")}}
    \cup
    {Around(U64T, IntT(1, FALSE), OpRegs(a) \cup OpRegs(b) \cup OpRegs(n),
            <<[IR("memset", IntT(1, FALSE), NoIReg, a, b) EXCEPT !.args = <<n>>]>>, <<>>) :
       a \in Addrs(FewA), b \in {Imm(Small(0)), Reg("b")}, n \in {Imm(Small(24)), Imm(U64(3)), Reg("n")}}

---------------------------------------------------------------------------
(* Calls, system calls, returns *)

Arg(t, v) == [type |-> t, val |-> v]
IntArg(r) == Arg(S64, Reg(r))
FltArg(r) == Arg(FltT(8), Reg(r))
ArgRegsOf(args) == UNION {OpRegs(args[k].val) : k \in DOMAIN args}

ArgLists ==
    { <<>>, <<IntArg("a"), FltArg("f"), Arg(S32, Reg("c"))>>,
      <<IntArg("a"), IntArg("b"), IntArg("c"), IntArg("d"), IntArg("e"), IntArg("g"), IntArg("u"), IntArg("v")>>,
      <<Arg(Obj(24), Addr(MemAddr(<<"reg", "q">>, NoIReg, 0, 8))), IntArg("a"), Arg(Obj(12), Addr(Odd("q2", "j2")))>>,
      <<Arg(ObjF(16), Addr(Kept)), Arg(Obj(8), Addr(MemAddr(<<"global", "g">>, NoIReg, 0, 0))), IntArg("a"),
        Arg(Obj(24), Addr(LocalVar(-96)))>> }

Call(op, ret, r, args) == [IR(op, ret, r, Reg("proc"), NoOp) EXCEPT !.args = args]
CallInto(ret, dst, args) == [IR("call", ret, NoIReg, Reg("proc"), Addr(dst)) EXCEPT !.args = args]
CallProgs ==
    {Around(S64, S64, ArgRegsOf(args) \cup {"proc"}, <<Call(op, t, "r", args)>>,
            IF t.cls = "void" THEN <<>> ELSE <<<<"r", t>>>>) :
       op \in {"call", "call_r"}, args \in ArgLists, t \in {Void, S32, FltT(8)}}
    \cup {Around(S64, S64, ArgRegsOf(args) \cup AddrRegs(a), <<CallInto(Obj(n), a, args)>>, <<>>) : args \in ArgLists, n \in {16, 24},
            a \in {LocalVar(-128), Kept, MemAddr(<<"alias", <<"global", "g">>>>, NoIReg, 0, 0)}}

SyscallProgs ==
    {Around(U64T, U64T, UNION {OpRegs(args[k]) : k \in 1..7},
            <<[IR("syscall", U64T, "r", NoOp, NoOp) EXCEPT !.args = SubSeq(args, 1, n)]>>, <<<<"r", U64T>>>>) :
       n \in 1..7, args \in {<<Imm(Small(1)), Reg("a"), Addr(LocalVar(-8)), Imm(U64(1)), Reg("b"),
                               Addr(MemAddr(<<"reg", "p">>, "i", 8, 0)), Reg("c")>>,
                             <<Reg("a"), Reg("b"), Reg("c"), Reg("d"), Reg("e"), Reg("g"), Reg("u")>>}}

Returning(t, v) ==
    <<LET rs == InOrder(OpRegs(v))
      IN  [k \in 1..Len(rs) |-> Load(rs[k], IF v.k = "r" THEN t ELSE U64T)]
          \o <<IR("ret", t, NoIReg, v, NoOp)>>>>
\* The generator loads the address of a global or literal it returns into a
\* register first.
Returns ==
    {Returning(t, Reg("a")) : t \in {IntT(1, TRUE), S64, FltT(4)}}
    \cup {Returning(t, Addr(a)) : t \in {Obj(3), Obj(16), ObjF(16), Obj(40)},
            a \in AddrsA \ {MemAddr(<<"global", "g">>, NoIReg, 0, 0), MemAddr(<<"lit", "f">>, NoIReg, 0, 0)}}

---------------------------------------------------------------------------
(* Procedures of several blocks.  Block 1 is the first. *)

Jmp(b)          == [IR("jmp", Void, NoIReg, NoOp, NoOp) EXCEPT !.to = <<b>>]
CondJmp(r, t, f) == [IR("condjmp", Void, NoIReg, Reg(r), NoOp) EXCEPT !.to = <<t, f>>]
Cmp(r, a, b)    == [IR("cmp", S64, r, a, b) EXCEPT !.cond = "s<"]
Phi(r, t, args) == [IR("phi", t, r, NoOp, NoOp) EXCEPT !.args = args]
From(b1, r1, b2, r2) == <<[block |-> b1, r |-> r1], [block |-> b2, r |-> r2]>>
Add(r, a, b)    == IR("add", S64, r, a, b)
LImm(r, c)      == IR("limm", S64, r, Imm(Small(c)), NoOp)
Last2           == <<Store("k", U64T, LocalVar(-72)), RetVoid>>

\* c < 5 ? x : y, with a value live across, then what is done with its value
Ternary(x, y, use) ==
    << <<Load("k", U64T), Load("c", S64), Cmp("t", Reg("c"), Imm(Small(5))), CondJmp("t", 2, 3)>>,
       x \o <<Jmp(4)>>, y \o <<Jmp(4)>>,
       <<Phi("r", S64, From(2, "x", 3, "y"))>> \o use \o Last2 >>
Uses == { <<Store("r", S64, LocalVar(-80))>>,
          <<Call("call", S32, "w", <<IntArg("r")>>), Store("w", S32, LocalVar(-80))>>,
          <<Add("w", Reg("r"), Reg("r")), Store("w", S64, MemAddr(<<"reg", "r">>, NoIReg, 0, 0))>>,
          <<IR("divide", S64, "w", Addr(LocalVar(-8)), Reg("r")), Store("w", S64, LocalVar(-80))>>,
          <<IR("shl", S64, "w", Reg("r"), Reg("r")), Store("w", S64, LocalVar(-80))>> }
Sides(r) == { <<LImm(r, 3)>>, <<Load(r, S64)>>,
              <<Call("call", S64, r, <<>>)>>,
              <<Load("m", S64), IR("mod", S64, r, Reg("m"), Imm(Small(3)))>> }
Ternaries == {Ternary(x, y, use) : x \in Sides("x"), y \in Sides("y"), use \in Uses}

\* c ? (d ? x : y) : z, a flag of two comparisons, a loop over a counter in memory
NestedTernary ==
    << <<Load("k", U64T), Load("c", IntT(1, FALSE)), CondJmp("c", 2, 6)>>,
       <<Load("d", S64), Cmp("t", Imm(Small(5)), Reg("d")), CondJmp("t", 3, 4)>>,
       <<Load("x", S64), Jmp(5)>>, <<LImm("y", 1), Jmp(5)>>,
       <<Phi("s", S64, From(3, "x", 4, "y")), Jmp(7)>>, <<Call("call", S64, "z", <<IntArg("k")>>), Jmp(7)>>,
       <<Phi("r", S64, From(5, "s", 6, "z")), Store("r", S64, LocalVar(-80)), RetVoid>> >>
BothOf ==
    << <<Load("k", U64T), Load("c", S64), Cmp("t", Reg("c"), Addr(LocalVar(-8))), CondJmp("t", 2, 4)>>,
       <<Load("d", FltT(8)), [IR("fcmp", FltT(8), "u", Reg("d"), Addr(LocalVar(-16))) EXCEPT !.cond = "s<"],
         CondJmp("u", 3, 4)>>,
       <<LImm("x", 1), Jmp(5)>>, <<LImm("y", 0), Jmp(5)>>,
       <<Phi("r", S64, From(3, "x", 4, "y")), Store("r", S64, LocalVar(-80))>> \o Last2 >>
Loop ==
    << <<LImm("z", 0), Store("z", S64, LocalVar(-8)), Jmp(2)>>,
       <<Load("i", S64), Cmp("t", Reg("i"), Imm(Small(9))), CondJmp("t", 3, 4)>>,
       <<Load("j", S64), Load("p", S64), Add("s", Reg("j"), Addr(MemAddr(<<"reg", "p">>, "j", 8, 0))),
         Store("s", S64, LocalVar(-8)), Jmp(2)>>,
       <<Load("r", S64), IR("ret", S64, NoIReg, Reg("r"), NoOp)>> >>

\* p[i].f += b: an address is computed once, read and written
Compound ==
    {Around(S64, S64, {"b", "p", "i"},
            <<IR("load", S64, "r", Addr(a), NoOp), Add("s", Reg("r"), Reg("b")), Store("s", S64, a)>>, <<>>) :
       a \in Plain}
\* f(x, g(y), s) where s is copied first: arguments wait for the call
Waiting ==
    {Around(S64, S64, {"b", "p", "i"},
            <<Load("a", S64), Call("call", S64, "g", <<IntArg("b")>>),
              [IR("memcpy", IntT(1, FALSE), NoIReg, Addr(LocalVar(-128)), Addr(Kept)) EXCEPT !.args = <<Imm(Small(24))>>],
              IR("divide", S64, "d", Addr(LocalVar(-8)), Imm(Small(3))),
              Call("call", t, "r", <<IntArg("a"), IntArg("g"), Arg(Obj(24), Addr(LocalVar(-128))), IntArg("d")>>)>>,
            <<<<"r", t>>>>) : t \in {S64}}

MCPrograms ==
    Binary \cup Unary \cup Moves \cup Comparisons \cup Blocks \cup CallProgs \cup SyscallProgs \cup Returns
    \cup Ternaries \cup {NestedTernary, BothOf, Loop} \cup Compound \cup Waiting
=============================================================================

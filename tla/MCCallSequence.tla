--------------------------- MODULE MCCallSequence ---------------------------
(* Calls small enough to enumerate and wide enough to run out of registers.  *)
EXTENDS CallSequence

IntT(n)  == [cls |-> "int", size |-> n, align |-> n]
FltT(n)  == [cls |-> "flt", size |-> n, align |-> n]
Obj(n, a)  == [cls |-> "obj", size |-> n, align |-> a]
ObjF(n, a) == [cls |-> "objf", size |-> n, align |-> a]
Copies(n, t) == [i \in 1..n |-> t]

ArgLists ==
    {<<>>, <<IntT(8), FltT(8), IntT(1)>>,
     <<Obj(16, 8), IntT(4)>>, <<Obj(3, 1), IntT(8)>>, <<ObjF(12, 4), FltT(4)>>,
     <<Obj(24, 8), IntT(8)>>,
     \* The registers of a class run out.
     Copies(8, IntT(8)), Copies(5, IntT(8)) \o <<Obj(16, 8), IntT(4)>>,
     Copies(9, FltT(8)) \o <<IntT(8)>>, Copies(6, IntT(8)) \o <<IntT(1), Obj(20, 4), IntT(2), Obj(8, 8)>>}

Rets == {Void, IntT(1), IntT(8), FltT(4), Obj(3, 1), Obj(7, 1), Obj(8, 8), Obj(16, 8), ObjF(12, 4),
         Obj(13, 1), Obj(40, 8)}

Scope(locals, objs, children) == [vars |-> locals, objs |-> objs, children |-> children]
MCProcs ==
    UNION {LET first == IF IsObj(ret) THEN <<ret>> ELSE <<>> IN
           {[ret |-> ret, params |-> args, tmps |-> <<>>, scopes |-> <<Scope(first, <<>>, <<>>)>>],
            [ret |-> ret, params |-> args, tmps |-> <<Obj(3, 1), Obj(16, 8)>>,
             scopes |-> <<Scope(first \o <<IntT(1), IntT(8)>>, <<Obj(24, 8)>>, <<2, 4>>),
                          Scope(<<IntT(8)>>, <<Obj(5, 1)>>, <<3>>),
                          Scope(<<IntT(2)>>, <<>>, <<>>), Scope(<<IntT(4)>>, <<>>, <<>>)>>]} :
           args \in ArgLists, ret \in Rets}

\* What else is in use around the call, in either procedure.
Around(direct, place, save, used, pushes) ==
    [direct |-> direct, proc |-> place, save |-> save, used |-> used, pushes |-> pushes]
Arounds ==
    {Around(TRUE, Stack(-448), {}, <<>>, 0),
     Around(TRUE, Stack(-448), {R10}, <<RBX, R12, R13>>, 2),
     Around(FALSE, Stack(-448), {R11, XMM0 + 8}, <<R14>>, 1),
     Around(FALSE, Reg(R14), {R10, R11}, <<R14, R15>>, 0)}

\* Every second argument spilled, or none; the result spilled or in a register.
MCCallsOf(p) ==
    {[args |-> p.params, ret |-> p.ret, spilled |-> spilled, dst |-> dst, base |-> base] @@ around :
        spilled \in {{}, {i \in 1..Len(p.params) : i % 2 = 1}},
        dst \in IF IsObj(p.ret) \/ p.ret = Void THEN {Stack(-440)}
                ELSE IF p.ret.cls = "flt" THEN {Stack(-440), Reg(XMM0 + 10)}
                ELSE {Stack(-440), Reg(R12)},
        base \in IF IsObj(p.ret) \/ \E i \in 1..Len(p.params) : IsObj(p.params[i])
                 THEN {RBP, R12} ELSE {RBP},
        around \in Arounds}
=============================================================================

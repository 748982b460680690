---------------------------- MODULE CallSequence ----------------------------
(***************************************************************************)
(* A procedure call, from the caller's XIR call instruction to the          *)
(* instruction after it: where ir_to_xir.c puts the arguments, the code     *)
(* xir_to_x64.c emits around the call, the callee's prologue and epilogue.  *)
(* The callee's frame is laid out first (FrameLayout).  Then one machine    *)
(* executes the whole sequence.  In the middle the body of the callee       *)
(* assigns all of its variables and every register it may use.             *)
(***************************************************************************)
EXTENDS X64Emit, FrameLayout

CONSTANT CallsOf(_)  \* the calls of a procedure to check, with the places of each

VARIABLES call, pc, m

callVars == <<call, pc, m>>
vars == <<layoutVars, callVars>>

---------------------------------------------------------------------------
(* The caller.  The lreg of argument i is i: its value, or the base of the  *)
(* object's address.  p is [loc, leaf] as in X64Emit.                       *)

LDst  == 50
LProc == 51
ObjDisp(i) == -(112 + 24 * i)
ArgAddr(i) == [k |-> "sibd", base |-> i, index |-> NoReg, scale |-> 0, disp |-> ObjDisp(i)]
DstDisp  == -480
DstAddr  == [k |-> "sibd", base |-> LDst, index |-> NoReg, scale |-> 0, disp |-> DstDisp]
At(a, n) == [a EXCEPT !.disp = @ + n]

Mov(size, dst, src) ==
    LET flt == (dst.k = "r" /\ IsFlt(dst.r)) \/ (src.k = "r" /\ IsFlt(src.r))
    IN  Ins(IF flt THEN "mov_flt" ELSE "mov", size, dst, src)

PlaceArgsInRegs(p, args, slots) ==
    FlattenSeq([i \in 1..Len(args) |->
        LET regs == slots[i].regs IN
        CASE IsObj(args[i]) ->
               [k \in 1..Len(regs) |-> Mov(8, R(regs[k]), At(SibdAddr(p, ArgAddr(i)), 8 * (k - 1)))]
          [] ~IsObj(args[i]) /\ regs # <<>> /\ ~InReg(p.loc[i]) ->
               LoadPrim(args[i].size, regs[1], Slot(p.loc[i]))
          [] OTHER -> <<>>])

PlaceStructArgsInStack(p, args, slots) ==
    LET copied == {i \in 1..Len(args) : IsObj(args[i]) /\ slots[i].regs = <<>>}
        copy(i) == <<Ins("lea", 8, R(RDI), StackAddr(slots[i].sp + 24)),
                     Ins("lea", 8, R(RSI), SibdAddr(p, ArgAddr(i))),
                     Ins("mov", 8, R(RCX), I(N(args[i].size))),
                     Ins("rep_movsb", 8, None, None)>>
    IN  IF copied = {} THEN <<>>
        ELSE PushReg(RDI) \o PushReg(RSI) \o PushReg(RCX)
             \o FlattenSeq([i \in 1..Len(args) |-> IF i \in copied THEN copy(i) ELSE <<>>])
             \o PopReg(RCX) \o PopReg(RSI) \o PopReg(RDI)

\* First objects, then what is in registers, so that RAX is free for the rest.
PlaceArgsInStack(p, args, slots) ==
    LET prim(i) == ~IsObj(args[i]) /\ slots[i].regs = <<>>
        fromReg(i) == SavePrim(args[i].size, StackAddr(slots[i].sp), p.loc[i].r)
        fromSlot(i) == <<Ins("mov", args[i].size, R(RAX), Slot(p.loc[i])),
                         Ins("mov", args[i].size, StackAddr(slots[i].sp), R(RAX))>>
    IN  PlaceStructArgsInStack(p, args, slots)
        \o FlattenSeq([i \in 1..Len(args) |-> IF prim(i) /\ InReg(p.loc[i]) THEN fromReg(i) ELSE <<>>])
        \o FlattenSeq([i \in 1..Len(args) |-> IF prim(i) /\ ~InReg(p.loc[i]) THEN fromSlot(i) ELSE <<>>])

\* Store the n low bytes of a register, n < 8, in powers of two.
RECURSIVE FillTail(_, _, _)
FillTail(dst, r, n) ==
    LET k == IF n >= 4 THEN 4 ELSE IF n >= 2 THEN 2 ELSE 1
    IN  IF n = 0 THEN <<>>
        ELSE <<Ins("mov", k, dst, R(r))>>
             \o (IF n > k THEN <<Ins("sar", 8, R(r), I(N(8 * k)))>> ELSE <<>>)
             \o FillTail(At(dst, k), r, n - k)
FillMemFromReg(dst, r, n) ==
    CASE n >= 8 -> <<Mov(8, dst, R(r))>>
      [] n < 8 /\ ~IsFlt(r) -> FillTail(dst, r, n)
      [] n < 8 /\ IsFlt(r) -> IF n = 4 THEN <<Mov(4, dst, R(r))>> ELSE <<Fatal>>

CopyRetSmallObj(p, ret) ==
    LET dst == SibdAddr(p, DstAddr)
        r   == RetRegs(Class(ret))
    IN  IF IsLarge(ret) THEN <<>>
        ELSE FillMemFromReg(dst, r[1], ret.size)
             \o (IF ret.size > 8 THEN FillMemFromReg(At(dst, 8), r[2], ret.size - 8) ELSE <<>>)

\* The result of a primitive type goes from RAX or XMM0 to its lreg.
CopyRetPrim(p, ret) ==
    LET r == RetRegs(Class(ret))[1]
    IN  CASE ~InReg(p.loc[LDst]) -> SavePrim(ret.size, Slot(p.loc[LDst]), r)
          [] InReg(p.loc[LDst]) /\ p.loc[LDst].r # r -> <<Mov(ret.size, R(p.loc[LDst].r), R(r))>>
          [] OTHER -> <<>>

\* The registers of the save mask, in their order, in one group.
SaveAll(mask) ==
    LET order == SelectSeq([i \in 1..32 |-> i - 1], LAMBDA r : r \in mask)
    IN  FoldLeft(LAMBDA s, r : [group |-> SaveReg(s.group, r).group,
                                code  |-> s.code \o SaveReg(s.group, r).code],
                 [group |-> NoGroup, code |-> <<>>], order)

AddRspCode(n) == IF n = 0 THEN <<>> ELSE <<Ins("add", 8, R(RSP), I(N(n)))>>
SubRspCode(n) == IF n = 0 THEN <<>> ELSE <<Ins("sub", 8, R(RSP), I(N(n)))>>

\* The code before the call, the call, and the code after it.
CallCode(p, c) ==
    LET passed == ConvertCallArgs(c.ret, c.args)
        size   == passed.size
        saves  == SaveAll(c.save)
        pad    == IF (size + 8 * Cardinality(c.save)) % 16 = 0 THEN 0 ELSE 8
        target == IF c.direct THEN None ELSE RegOrSlot(p.loc[LProc])
        result == CASE c.ret = Void -> <<>>
                    [] c.ret # Void /\ ~IsObj(c.ret) -> CopyRetPrim(p, c.ret)
                    [] IsObj(c.ret) -> CopyRetSmallObj(p, c.ret)
    IN  [before |-> SubRspCode(pad) \o saves.code
                    \o (IF IsLarge(c.ret)
                        THEN <<Ins("lea", 8, R(RDI), SibdAddr(p, DstAddr))>> ELSE <<>>)
                    \o SubRspCode(size)
                    \o PlaceArgsInRegs(p, c.args, passed.slots)
                    \o (IF size = 0 THEN <<>> ELSE PlaceArgsInStack(p, c.args, passed.slots)),
         call   |-> <<Ins("call", 0, None, target)>>,
         after  |-> result
                    \o (IF c.save = {} THEN AddRspCode(size + pad)
                        ELSE AddRspCode(size) \o EndGroup(saves.group) \o AddRspCode(pad))]

---------------------------------------------------------------------------
(* The callee's code: c.used are the callee-saves registers it was given, in *)
(* order; the register allocator added no slot of its own.                  *)

ProcPrologue(c) ==
    <<Ins("push", 8, None, R(RBP)), Ins("mov", 8, R(RBP), R(RSP))>>
    \o SubRspCode(frameSize)
    \o FlattenSeq([i \in 1..Len(saved) |->
                     SavePrim(saved[i].size, FrameAddr(saved[i].off), saved[i].reg)])
    \o FlattenSeq([i \in 1..Len(c.used) |-> PushReg(c.used[i])])

\* Mutant: the callee-saved registers are popped in the order they were pushed.
ProcEpilogue_InOrder(c) ==
    FlattenSeq([i \in 1..Len(c.used) |-> PopReg(c.used[i])])
    \o <<Ins("mov", 8, R(RSP), R(RBP)), Ins("pop", 8, R(RBP), None), Ins("ret", 0, None, None)>>
ProcEpilogue(c) ==
    FlattenSeq([i \in 1..Len(c.used) |-> PopReg(c.used[Len(c.used) + 1 - i])])
    \o <<Ins("mov", 8, R(RSP), R(RBP)), Ins("pop", 8, R(RBP), None), Ins("ret", 0, None, None)>>

\* What is returned is the first local if it is an object, and otherwise in the
\* register R10 or XMM10.
RetObject == FrameAddr(placed[Len(proc.params) + 1].off)
RetPrimReg(ret) == IF ret.cls = "flt" THEN XMM0 + 10 ELSE R10
RetCode(c) ==
    LET r == RetRegs(Class(c.ret)) IN
    CASE c.ret = Void -> <<>>
      [] c.ret # Void /\ ~IsObj(c.ret) -> <<Mov(c.ret.size, R(r[1]), R(RetPrimReg(c.ret)))>>
      [] IsObj(c.ret) /\ ~IsLarge(c.ret) ->
           <<Mov(8, R(r[1]), RetObject)>>
           \o (IF c.ret.size > 8 THEN <<Mov(8, R(r[2]), At(RetObject, 8))>> ELSE <<>>)
      [] IsLarge(c.ret) ->
           <<Mov(8, R(RDI), FrameAddr(-8)), Ins("lea", 8, R(RSI), RetObject),
             Ins("mov", 8, R(RCX), I(N(c.ret.size))), Ins("rep_movsb", 8, None, None),
             Mov(8, R(RAX), R(RDI))>>

---------------------------------------------------------------------------
(* The run *)

CallerRBP == 3000
\* The caller's stack pointer: below its frame, and below the callee-saved
\* registers it has pushed itself.
CallerFrame == 640
CallerRSP(c) == CallerRBP - CallerFrame - 8 * c.pushes

Input(r) == [i \in 1..(IF IsFlt(r) THEN 16 ELSE 8) |-> <<"in", r, i>>]
BeforeCall(c) ==
    [reg   |-> [r \in Registers |->
                  CASE r = RSP -> Num(CallerRSP(c))
                    [] r = RBP -> Num(CallerRBP)
                    [] r = R12 -> Num(CallerRBP - 64)
                    [] OTHER   -> Input(r)],
     mem   |-> <<>>, flags |-> <<>>, goto |-> "next"]

Run(ins, start) == FoldLeft(Exec, start, ins)

\* A place is given per argument: "in" its argument register, or spilled.
CallPlaces(c) ==
    LET slots == ConvertCallArgs(c.ret, c.args).slots
        regsLeft(i) == IF c.args[i].cls = "flt" THEN Reg(XMM0 + 11 + (i % 4)) ELSE Reg(R13)
    IN  [leaf |-> FALSE,
         loc  |-> [l \in 1..Len(c.args) \cup {LDst, LProc} |->
            CASE l = LProc -> c.proc
              [] l = LDst  -> IF IsObj(c.ret) THEN Reg(c.base) ELSE c.dst
              [] l \notin {LDst, LProc} ->
                   IF IsObj(c.args[l]) THEN Reg(c.base)
                   ELSE IF l \in c.spilled THEN Stack(-8 * l)
                   ELSE IF slots[l].regs # <<>> THEN Reg(slots[l].regs[1])
                   ELSE regsLeft(l)]]

\* The bytes of argument i in the caller.
ArgBytes(c, start, i) ==
    LET l == CallPlaces(c).loc[i]
        n == c.args[i].size
    IN  Read(start, IF IsObj(c.args[i]) THEN SibdAddr(CallPlaces(c), ArgAddr(i))
                    ELSE IF InReg(l) THEN R(l.r) ELSE Slot(l), n)

\* Where the result of the call is wanted.
DstOperand(c) ==
    IF IsObj(c.ret) THEN SibdAddr(CallPlaces(c), DstAddr)
    ELSE IF InReg(c.dst) THEN R(c.dst.r) ELSE Slot(c.dst)

\* The body assigns every variable, may call others below its stack pointer,
\* and changes every register it does not have to preserve.
Junk(n) == [i \in 1..n |-> <<"junk", i>>]
VarBytes(i) == [k \in 1..placed[i].type.size |-> <<"var", i, k>>]
ResultBytes(c) == [i \in 1..c.ret.size |-> <<"result", i>>]
Body(c, x) ==
    LET mayUse  == (CallerSaved \cup Range(c.used)) \ {RSP, RBP}
        junked  == [x EXCEPT !.reg = [r \in Registers |-> IF r \in mayUse
                                        THEN Junk(IF IsFlt(r) THEN 16 ELSE 8) ELSE x.reg[r]]]
        written == FoldLeft(LAMBDA y, i : Store(y, NumOf(y.reg[RBP]) + placed[i].off, VarBytes(i)),
                            Store(junked, NumOf(x.reg[RSP]) - 48, Junk(48)),
                            [i \in 1..Len(placed) |-> i])
    IN  CASE c.ret = Void  -> written
          [] IsObj(c.ret)  -> Store(written, Address(written, RetObject), ResultBytes(c))
          [] OTHER         -> Write(written, R(RetPrimReg(c.ret)), ResultBytes(c))

\* The call instruction pushes an address, and ret goes where it finds one.
ReturnAddress == [i \in 1..8 |-> <<"return", i>>]
EnterCallee(x) == Store(AddRsp(x, -8), NumOf(x.reg[RSP]) - 8, ReturnAddress)
LeaveCallee(x) == [AddRsp(x, 8) EXCEPT !.goto = Bytes(x, NumOf(x.reg[RSP]), 8)]

Init ==
    /\ InitLayout
    /\ pc = "layout" /\ call = <<>> /\ m = <<>>

Layout ==
    /\ pc = "layout"
    /\ NextLayout
    /\ UNCHANGED callVars
BeginCall ==
    /\ pc = "layout" /\ pc' = "before"
    /\ LaidOut
    /\ call' \in CallsOf(proc)
    /\ m' = BeforeCall(call')
    /\ UNCHANGED layoutVars
PlaceArguments ==
    /\ pc = "before" /\ pc' = "call"
    /\ m' = Run(CallCode(CallPlaces(call), call).before, m)
    /\ UNCHANGED <<layoutVars, call>>
\* The target of an indirect call is read before anything is pushed.
EnterProc ==
    /\ pc = "call" /\ pc' = "body"
    /\ m' = Run(ProcPrologue(call), EnterCallee(m))
    /\ UNCHANGED <<layoutVars, call>>
RunBody ==
    /\ pc = "body" /\ pc' = "return"
    /\ m' = Body(call, m)
    /\ UNCHANGED <<layoutVars, call>>
ReturnFromProc ==
    /\ pc = "return" /\ pc' = "after"
    /\ m' = LeaveCallee(Run(RetCode(call) \o ProcEpilogue(call), m))
    /\ UNCHANGED <<layoutVars, call>>
TakeResult ==
    /\ pc = "after" /\ pc' = "done"
    /\ m' = Run(CallCode(CallPlaces(call), call).after, m)
    /\ UNCHANGED <<layoutVars, call>>

Next == \/ Layout \/ BeginCall
        \/ PlaceArguments \/ EnterProc \/ RunBody \/ ReturnFromProc \/ TakeResult
Spec == Init /\ [][Next]_vars

---------------------------------------------------------------------------
(* Properties *)

\* When the body starts, each parameter's variable holds the bytes of its
\* argument: caller and callee assign registers and stack words to a parameter
\* list each on its own, and moving one argument overwrites no other.
ArgumentsArrive ==
    pc = "body" =>
        \A i \in 1..Len(call.args) :
            Bytes(m, NumOf(m.reg[RBP]) + placed[i].off, call.args[i].size)
              = ArgBytes(call, BeforeCall(call), i)

\* After the call the result is in its place, and the caller's stack pointer,
\* frame, callee-saved registers and saved registers are what they were; an
\* object smaller than its registers overwrites nothing behind it.
CallPreserves ==
    pc = "done" =>
        LET start == BeforeCall(call)
            keep  == (Registers \ CallerSaved) \cup call.save
            dst   == IF call.ret = Void THEN None ELSE DstOperand(call)
            dstBytes == IF dst.k = "m" THEN {Address(start, dst) + i : i \in 0..(call.ret.size - 1)}
                        ELSE {}
        IN  /\ m.goto = ReturnAddress
            /\ \A r \in keep : dst # R(r) => m.reg[r] = start.reg[r]
            /\ \A a \in DOMAIN m.mem :
                  a >= CallerRSP(call) /\ a \notin dstBytes => m.mem[a] = <<"mem", a>>
            /\ dst # None => Read(m, dst, call.ret.size) = ResultBytes(call)
=============================================================================

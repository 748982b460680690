------------------------------ MODULE ExprEmit ------------------------------
(***************************************************************************)
(* What the IR generator emits for the operators of expressions             *)
(* (bytecode/procs.c), as the value that the emitted code computes.  An     *)
(* IR_ExprResult is an immediate, a register, a variable, a deferred        *)
(* comparison, an address that no instruction computes yet, or what is left *)
(* of a compiler that stopped at an assertion.  The jumps of a deferred     *)
(* comparison are the subject of ControlFlow: here it has the truth of its  *)
(* last comparison, the result a jump on it stands for, and whether it has  *)
(* jumps.                                                                   *)
(***************************************************************************)
EXTENDS ConstFold

ImmResult(sc) == [k |-> "imm", v |-> sc]
RegResult(v)  == [k |-> "reg", v |-> v]
VarResult(v)  == [k |-> "var", v |-> v]
CmpResult(c, result, jumps) == [k |-> "cmp", v |-> Truth(c), result |-> result, jumps |-> jumps]
AddrResult(base, index, scale, disp) ==
    [k |-> "addr", v |-> base, index |-> index, scale |-> scale, disp |-> disp]
Stopped(at) == [k |-> "stop", v |-> 0, at |-> at]
Stops(er) == er.k = "stop"

CmpTruth(er) == (er.v = 1) = er.result
\* The displacement has four bytes, which are sign-extended.
AddrOf(er) == Bits(er.v + er.index * er.scale + Wrap(er.disp, "s32"))

---------------------------------------------------------------------------
(* Operands of instructions *)

\* A comparison without jumps is in its own register, whatever its result is.
ToReg(er, t) ==
    CASE er.k = "imm"  -> RegResult(AsInt(er.v, t))
      [] er.k = "addr" -> RegResult(AddrOf(er))
      [] er.k = "cmp" /\ t # "bool" -> Stopped("procs.c:929")
      [] er.k = "cmp" /\ t = "bool" /\ ~er.jumps -> RegResult(er.v)
      [] er.k = "cmp" /\ t = "bool" /\ er.jumps  -> RegResult(Truth(CmpTruth(er)))
      [] er.k \in {"reg", "var"} -> RegResult(Wrap(er.v, t))
      [] er.k = "stop" -> er

ToRIA(er, t) == IF er.k = "imm" THEN ImmResult(er.v) ELSE ToReg(er, t)

\* A pointer as an address to which offsets can be added.
PtrToMem(er) ==
    CASE er.k = "addr" -> er
      [] er.k \in {"reg", "var"} -> AddrResult(Bits(er.v), 0, 0, 0)
      [] er.k \in {"imm", "cmp"} -> Stopped("procs.c:1073")
      [] er.k = "stop" -> er

\* The first of the two that stopped, else the result.
Unless(x, y, result) == IF Stops(x) THEN x ELSE IF Stops(y) THEN y ELSE result

---------------------------------------------------------------------------
(* Instructions *)

\* A right shift is arithmetic whatever the type is.
Machine(op, t, x, y) ==
    CASE op \in {"+", "-", "*", "/", "%", "&", "|", "^", "<<"} -> Wrap(Eval64(op, x, y), t)
      [] op = ">>" -> LET s == IF 2 * x >= Moduli[t] THEN x - Moduli[t] ELSE x
                      IN  Wrap(Eval64(op, s, y), t)

\* Divisions and shifts load an immediate; the others convert two to nothing.
LoadsImm == {"/", "%", "<<", ">>"}
EmitInstr(op, t, left, right) ==
    LET x == ToRIA(left.er, left.type)
        y == ToRIA(right.er, right.type)
    IN  Unless(x, y,
            IF x.k = "imm" /\ y.k = "imm" /\ op \notin LoadsImm
            THEN Stopped("ir_to_xir.c:574")
            ELSE RegResult(Machine(op, t, AsInt(x.v, t), AsInt(y.v, IF op \in {"<<", ">>"} THEN right.type ELSE t))))

EmitCmp(op, left, right) ==
    LET x == ToRIA(left.er, left.type)
        y == ToRIA(right.er, right.type)
    IN  Unless(x, y,
            IF x.k = "imm" /\ y.k = "imm" THEN Stopped("ir_to_xir.c:1352")
            ELSE CmpResult(EvalLogical(op, AsInt(x.v, left.type), AsInt(y.v, left.type)) = 1, TRUE, FALSE))

CmpToZero(op, er, t) ==
    EmitCmp(op, [er |-> er, type |-> t], [er |-> ImmResult(0), type |-> t])

EmitUnary(op, e) ==
    LET x == ToReg(e.er, e.type)
    IN  CASE op = "+" -> e.er
          [] op # "+" /\ Stops(x) -> x
          [] op = "-" /\ ~Stops(x) -> RegResult(Wrap(-x.v, e.type))
          [] op = "~" /\ ~Stops(x) -> RegResult(Wrap(-x.v - 1, e.type))

EmitNot(e) ==
    IF e.er.k = "cmp" THEN [e.er EXCEPT !.result = ~@] ELSE CmpToZero("==", e.er, e.type)

\* A condition: whether it holds, or where the compiler stopped.
EmitCond(e) ==
    IF e.er.k = "cmp" THEN CmpResult(CmpTruth(e.er), TRUE, TRUE) ELSE CmpToZero("!=", e.er, e.type)

\* Either side is a comparison, or is loaded and compared.
EmitShortCircuit(op, left, right) ==
    LET side(e) == IF e.er.k = "cmp" THEN EmitCond(e)
                   ELSE LET x == ToReg(e.er, e.type)
                        IN  IF Stops(x) THEN x ELSE CmpToZero("!=", x, e.type)
        x == side(left)
        y == side(right)
        l == CmpTruth(x)
    IN  Unless(x, y, CmpResult(IF op = "&&" THEN l /\ CmpTruth(y) ELSE l \/ CmpTruth(y), TRUE, TRUE))

EmitTernary(c, left, right) ==
    LET cond == EmitCond(c)
        x    == ToReg(left.er, left.type)
        y    == ToReg(right.er, right.type)
    IN  CASE c.ce /\ ~c.im -> Stopped("procs.c:2229")
          [] IsConst(c) -> IF AsInt(c.sc, "bool") # 0 THEN left.er ELSE right.er
          [] ~c.ce /\ Stops(cond) -> cond
          [] ~c.ce /\ ~Stops(cond) -> Unless(x, y, RegResult(IF CmpTruth(cond) THEN x.v ELSE y.v))

---------------------------------------------------------------------------
(* Pointers *)

EmitPtrAdd(op, ptr, int) ==
    LET size  == SizeOf(BaseOf(ptr.type))
        sign  == IF op = "+" THEN 1 ELSE -1
        \* another scale is in use: the address is computed first
        first == IF ptr.er.k = "addr" /\ ptr.er.scale \notin {0, size} THEN ToReg(ptr.er, ptr.type) ELSE ptr.er
        addr  == PtrToMem(IF int.er.k = "imm" THEN ptr.er ELSE first)
        x     == ToReg(int.er, int.type)
    IN  Unless(addr, x,
            IF int.er.k = "imm"
            THEN [addr EXCEPT !.disp = Wrap(@ + sign * size * int.er.v, "u32")]
            ELSE [addr EXCEPT !.index = Bits(@ + sign * x.v), !.scale = size])

EmitPtrSub(left, right) ==
    LET d == EmitInstr("-", "s64", left, right)
    IN  IF Stops(d) THEN d ELSE RegResult(d.v \div 2^Clp2(SizeOf(BaseOf(left.type))))

---------------------------------------------------------------------------
(* Conversions *)

EmitIntCast(er, from, to) ==
    LET x == ToReg(er, from)
    IN  CASE er.k = "imm" -> Stopped("procs.c:2503")
          [] er.k # "imm" /\ IsPtr(from) /\ IsPtr(to) -> PtrToMem(er)
          [] er.k # "imm" /\ ~(IsPtr(from) /\ IsPtr(to)) /\ SizeOf(from) = SizeOf(to) -> er
          [] er.k # "imm" /\ SizeOf(from) # SizeOf(to) ->
                IF Stops(x) THEN x
                ELSE IF IsPtr(to) THEN AddrResult(Bits(x.v), 0, 0, 0) ELSE RegResult(Wrap(x.v, to))

EmitCast(er, from, to) ==
    CASE from = to \/ Stops(er) -> er
      [] from # to /\ to = "bool" /\ ~Stops(er) ->
            IF er.k = "cmp" THEN Stopped("procs.c:2604") ELSE CmpToZero("!=", er, from)
      [] from # to /\ to # "bool" /\ ~Stops(er) -> EmitIntCast(er, from, to)
=============================================================================

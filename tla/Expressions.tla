---------------------------- MODULE Expressions ----------------------------
(***************************************************************************)
(* An expression through the compiler: integer literals from their digits,  *)
(* then, operator by operator, what the resolver makes of it (its type, and *)
(* its value if it is constant) and what the IR generator emits.            *)
(*                                                                         *)
(* An expression is a resolved operand of ConstFold with er, what is        *)
(* emitted for it, and means, what it means.                                *)
(***************************************************************************)
EXTENDS Sequences, ExprEmit, ExprMeaning

CONSTANTS
    Operands,    \* by the number of operators so far: the operands the next one may take
    CastTypes,   \* the types of explicit casts
    Digits,      \* for each base of literals, the digits they are made of
    MaxDigits,   \* for each base, the length of literals
    MaxOps,      \* the number of operators of an expression
    LeftOut      \* the kinds of expression that are known to go wrong and left out

VARIABLES
    scan,        \* the literal: its base and length, the value so far, the exact one, a state
    expr,        \* the expression so far
    ops          \* its operators

vars == <<scan, expr, ops>>

Const(t, sc) == [type |-> t, ce |-> TRUE, im |-> TRUE, sc |-> sc, er |-> ImmResult(sc),
                 means |-> Meaning(t, AsInt(sc, t))]
RunTime(t, er) == [type |-> t, ce |-> FALSE, im |-> FALSE, sc |-> 0, er |-> er, means |-> Unknown(t)]
NoExpr == RunTime("void", Stopped("nothing"))

Init ==
    /\ scan = [base |-> 10, n |-> 0, value |-> 0, exact |-> 0, state |-> "none"]
    /\ expr = NoExpr
    /\ ops = 0

---------------------------------------------------------------------------
(* Integer literals *)

BeginInt(base) ==
    /\ scan.state = "none" /\ expr = NoExpr
    /\ scan' = [scan EXCEPT !.base = base, !.state = "digits"]
    /\ UNCHANGED <<expr, ops>>

\* Mutant: the digit is not accounted for.
OverflowsBeforeDigit(value, d, base) == value > IntMax("u64") \div base
Overflows(value, d, base) == value > (IntMax("u64") - d) \div base

ScanDigit(d) ==
    /\ scan.state = "digits" /\ scan.n < MaxDigits[scan.base]
    /\ LET read == [scan EXCEPT !.n = @ + 1, !.exact = @ * scan.base + d]
       IN  scan' = CASE d >= scan.base -> [read EXCEPT !.state = "bad digit"]
                     [] d < scan.base /\ Overflows(scan.value, d, scan.base) ->
                            [read EXCEPT !.state = "overflow"]
                     [] d < scan.base /\ ~Overflows(scan.value, d, scan.base) ->
                            [read EXCEPT !.value = Wrap(@ * scan.base + d, "u64")]
    /\ UNCHANGED <<expr, ops>>

\* The types that a literal may have, least first.
LiteralTypes(base, suffix) ==
    IF suffix = "s" \/ (suffix = "" /\ base = 10) THEN <<"s32", "s64", "s64">> ELSE <<"u32", "u64", "u64">>
Fits(value, types) == {i \in DOMAIN types : value <= IntMax(types[i])}
LiteralType(value, types) == types[CHOOSE i \in Fits(value, types) : \A j \in Fits(value, types) : i <= j]

\* A lone 0 is read as the prefix of a base that never comes.
EndInt(suffix) ==
    /\ scan.state = "digits" /\ (scan.n > 0 \/ scan.base = 10)
    /\ LET types == LiteralTypes(scan.base, suffix)
       IN  IF Fits(scan.value, types) = {}
           THEN scan' = [scan EXCEPT !.state = "too large"] /\ UNCHANGED expr
           ELSE /\ scan' = [scan EXCEPT !.state = IF suffix = "" THEN "plain" ELSE suffix]
                /\ expr' = Const(LiteralType(scan.value, types), scan.value)
    /\ UNCHANGED ops

---------------------------------------------------------------------------
(* Other operands *)

\* null is a ^void, an address of a global is constant without being known.
Null == Const("pvoid", 0)
Variable(t, v) == [RunTime(t, VarResult(v)) EXCEPT !.means = Meaning(t, v)]
GlobalAddress(t, at) ==
    [RunTime(t, AddrResult(at, 0, 0, 0)) EXCEPT !.ce = TRUE, !.means = Meaning(t, at)]
SizeConst(t) == Const("u64", SizeOf(t))

TakeOperand ==
    /\ scan.state = "none" /\ expr = NoExpr
    /\ \E o \in Operands[1] : expr' = o
    /\ UNCHANGED <<scan, ops>>

---------------------------------------------------------------------------
(* Operators *)

\* try_wrap_cast_expr: a constant is replaced, another expression is cast.
\* Mutant: a constant is cast like any other expression.
WrappedAlways(e, eop) == [eop EXCEPT !.er = EmitCast(@, e.type, eop.type)]
Wrapped(e, eop) ==
    [eop EXCEPT !.er = IF IsConst(eop) THEN ImmResult(eop.sc) ELSE EmitCast(@, e.type, eop.type)]

BothConst(l, r) == IsConst(l) /\ IsConst(r)
\* Both constant, but one of them an address that is not known yet.
AddrAmongConsts(l, r) == l.ce /\ r.ce /\ ~BothConst(l, r)
\* The compiler divides as the program would, and stops where the program would.
Traps(op, t, x, y) ==
    /\ op \in {"/", "%", "quot", "rem"}
    /\ ~Divides(Wrap(y, Wide(t)), Wrap(x, Wide(t)), Wide(t))
    /\ op \in {"/", "%"} => y # 0
Division(op, x, y) == IF op = "quot" THEN Quotient(x, y) ELSE Remainder(x, y)
ArithOps == {"+", "-", "*", "/", "%", "&", "|", "^"}

\* Below, l and r are the operands, a and b what the conversions make of them.
ArithResult(op, l, r, a, b) ==
    CASE AddrAmongConsts(l, r) -> RunTime(a.type, Stopped("exprs.c:930"))
      [] BothConst(l, r) /\ Traps(op, a.type, AsInt(a.sc, a.type), AsInt(b.sc, a.type)) ->
            RunTime(a.type, Stopped("SIGFPE"))
      [] BothConst(l, r) /\ ~Traps(op, a.type, AsInt(a.sc, a.type), AsInt(b.sc, a.type)) ->
            Const(a.type, EvalBinary(op, a.type, a.sc, b.sc))
      [] ~(l.ce /\ r.ce) -> RunTime(a.type, EmitInstr(op, a.type, a, b))

\* (l /% r)[0] and (l /% r)[1]: two constants are divided as they are stored.
DivModResult(op, a, b) ==
    RunTime(a.type,
        IF a.er.k # "imm" \/ b.er.k # "imm" THEN EmitInstr(IF op = "quot" THEN "/" ELSE "%", a.type, a, b)
        ELSE IF Traps(op, a.type, a.sc, b.sc) THEN Stopped("SIGFPE")
        ELSE VarResult(Wrap(Division(op, Wrap(a.sc, Wide(a.type)), Wrap(b.sc, Wide(a.type))), a.type)))

CmpResultOf(op, l, r, a, b) ==
    CASE AddrAmongConsts(l, r) /\ ~IsPtr(l.type) -> RunTime("bool", Stopped("exprs.c:946"))
      [] BothConst(l, r) ->
            Const("bool", EvalLogical(op, InWide(a.sc, a.type), InWide(b.sc, b.type)))
      [] OTHER -> RunTime("bool", EmitCmp(op, a, b))

\* The right operand is read as the left type.  The host takes its count from the lowest byte,
\* so that it does not matter what the bytes beyond the operand's own type hold.
ShiftResult(op, l, r) ==
    CASE AddrAmongConsts(l, r) -> RunTime(l.type, Stopped("exprs.c:1154"))
      [] BothConst(l, r)       -> Const(l.type, EvalBinary(op, l.type, l.sc, AsInt(r.sc, r.type)))
      [] ~(l.ce /\ r.ce)       -> RunTime(l.type, EmitInstr(op, l.type, l, r))

LogicResult(op, l, r, a, b) ==
    IF BothConst(l, r) THEN Const("bool", EvalLogical(op, AsInt(a.sc, "bool"), AsInt(b.sc, "bool")))
    ELSE RunTime("bool", EmitShortCircuit(op, a, b))

\* A constant pointer is only ever added to.
PtrIntResult(op, ptr, int) ==
    IF BothConst(ptr, int) THEN Const(ptr.type, Bits(ptr.sc + int.sc * Step(ptr.type)))
    ELSE [RunTime(ptr.type, EmitPtrAdd(op, ptr, int)) EXCEPT !.ce = ptr.ce /\ int.ce]

PtrPtrResult(a, b) ==
    IF BothConst(a, b) THEN Const("s64", Bits(a.sc - b.sc) \div 2^Clp2(Step(a.type)))
    ELSE [RunTime("s64", EmitPtrSub(a, b)) EXCEPT !.ce = a.ce /\ b.ce]

\* The conversions of the operands of a binary operator.
Retyped(e, t) == [e EXCEPT !.type = t]
PtrOperand(e) == IF IsPtr(e.type) THEN Retyped(e, Counted(e.type)) ELSE CastEop(e, "u64")
\* Of two pointers or of two numbers.
OneType(l, r) ==
    IF IsPtr(l.type) THEN <<Retyped(l, CommonPtr(l.type, r.type)), Retyped(r, CommonPtr(l.type, r.type))>>
    ELSE ConvertArith(l, r)
Conversions(op, l, r) ==
    CASE op \in Shifts  -> <<l, r>>
      [] op \in Logical -> <<CastEop(l, "bool"), CastEop(r, "bool")>>
      [] op \in Comparisons -> OneType(l, r)
      [] op \in {"+", "-"} /\ (IsPtr(l.type) \/ IsPtr(r.type)) -> <<PtrOperand(l), PtrOperand(r)>>
      [] OTHER -> ConvertArith(l, r)

BinaryResult(op, l, r, a, b) ==
    CASE op \in Logical     -> LogicResult(op, l, r, a, b)
      [] op \in Comparisons -> CmpResultOf(op, l, r, a, b)
      [] op \in Shifts      -> ShiftResult(op, l, r)
      [] op \in {"quot", "rem"} -> DivModResult(op, a, b)
      [] op \in ArithOps /\ ~IsPtr(l.type) /\ ~IsPtr(r.type) -> ArithResult(op, l, r, a, b)
      [] op \in ArithOps /\ IsPtr(l.type) /\ ~IsPtr(r.type)  -> PtrIntResult(op, a, b)
      [] op \in ArithOps /\ ~IsPtr(l.type) /\ IsPtr(r.type)  -> PtrIntResult(op, b, a)
      [] op \in ArithOps /\ IsPtr(l.type) /\ IsPtr(r.type)   -> PtrPtrResult(a, b)

\* What the resolver lets pass.
Accepts(op, t, u) ==
    \/ op \in Logical
    \/ op \notin Shifts /\ IsArithmetic(t) /\ IsArithmetic(u)
    \/ op \in Shifts /\ Kind(t) = "int" /\ Kind(u) = "int"
    \/ op \in Comparisons /\ IsPtr(t) /\ IsPtr(u) /\ CommonPtr(t, u) # "none"
    \/ op \in {"+", "-"} /\ IsPtr(t) /\ IsArithmetic(u)
    \/ op = "+" /\ IsArithmetic(t) /\ IsPtr(u)
    \/ op = "-" /\ IsPtr(t) /\ IsPtr(u) /\ Counted(t) = Counted(u)

UnaryResult(op, e, a) ==
    IF IsConst(e) THEN Const(a.type, EvalUnary(op, a.type, a.sc)) ELSE RunTime(a.type, EmitUnary(op, a))

\* Not of an address is constant like the address.
NotResult(e) ==
    IF IsConst(e) THEN Const("bool", Truth(AsInt(e.sc, e.type) = 0))
    ELSE [RunTime("bool", EmitNot(e)) EXCEPT !.ce = e.ce]

TernaryResult(c, l, r, cond, a, b) ==
    IF c.ce /\ BothConst(l, r)
    THEN Const(a.type, IF ~c.im \/ AsInt(cond.sc, "bool") # 0 THEN a.sc ELSE b.sc)
    ELSE [RunTime(a.type, EmitTernary(cond, a, b)) EXCEPT !.ce = c.ce /\ l.ce /\ r.ce]

---------------------------------------------------------------------------
(* What goes wrong: each kind is generated unless LeftOut names it. *)

\* A comparison whose negation is lost when it becomes a value.
Unstorable(e) == e.er.k = "cmp" /\ ~e.er.jumps /\ ~e.er.result
\* A constant of which the bytes beyond its type are not those of its value.
Stale(e) == IsConst(e) /\ Wrap(e.sc, Wide(e.type)) # AsInt(e.sc, e.type)

\* c is what the operands are converted to.
BinaryKinds(op, l, r, c) ==
    LET offset(p, i, sign) == Wrap(IF p.er.k = "addr" THEN p.er.disp ELSE 0, "s32")
                              + sign * Step(p.type) * Wrap(i.means.v, "s64")
        far(p, i, sign) == IsPtr(p.type) /\ ~IsPtr(i.type) /\ IsConst(i)
                           /\ offset(p, i, sign) \notin -IntMax("s32")..IntMax("s32")
        immediate(p, i) == IsPtr(p.type) /\ ~IsPtr(i.type) /\ p.er.k = "imm" /\ ~BothConst(p, i)
    IN  {k \in LeftOut :
            \/ k = "NegatedStore" /\ op \notin Logical /\ (Unstorable(l) \/ Unstorable(r))
            \/ k = "AddrConst" /\ op \notin Logical /\ ~IsPtr(l.type) /\ ~IsPtr(r.type) /\ AddrAmongConsts(l, r)
            \/ k = "UnsignedShift" /\ op = ">>" /\ ~BothConst(l, r) /\ ~Signed(l.type) /\ 2 * l.means.v >= Moduli[l.type]
            \/ k = "ConstPtrMinus" /\ op = "-" /\ IsPtr(l.type) /\ BothConst(l, r)
            \/ k = "ImmPointer" /\ op \in {"+", "-"} /\ (immediate(l, r) \/ immediate(r, l))
            \/ k = "FarDisplacement" /\ op \in {"+", "-"} /\ (far(l, r, IF op = "+" THEN 1 ELSE -1) \/ far(r, l, 1))
            \/ k = "HostTraps" /\ ~IsPtr(l.type) /\ ~IsPtr(r.type) /\ BothConst(l, r)
               /\ Traps(op, c[1].type, c[1].sc, c[2].sc)
            \/ k = "StaleScalar" /\ op \in {"quot", "rem"} /\ BothConst(l, r) /\ (Stale(c[1]) \/ Stale(c[2]))}

UnaryKinds(op, e) == {k \in LeftOut : k = "NegatedStore" /\ op # "!" /\ Unstorable(e)}

CastKinds(t, e) ==
    {k \in LeftOut :
        \/ k = "NegatedStore" /\ t # "bool" /\ Unstorable(e)
        \/ k = "CmpAsByte" /\ t # "bool" /\ SizeOf(t) = 1 /\ e.er.k = "cmp"}

TernaryKinds(c, l, r) ==
    {k \in LeftOut :
        \/ k = "NegatedStore" /\ (Unstorable(l) \/ Unstorable(r))
        \/ k = "AddrConst" /\ c.ce /\ ~c.im
        \/ k = "MixedTernary" /\ IsConst(c) /\ ~BothConst(l, r) /\ IsConst(IF c.means.v # 0 THEN l ELSE r)}

---------------------------------------------------------------------------
(* The next operator *)

\* What has no meaning, and literals read from digits, are not built upon.
Extends == ops < MaxOps /\ expr # NoExpr /\ scan.state = "none" /\ expr.means.ok
Becomes(e, m) == expr' = [e EXCEPT !.means = m] /\ ops' = ops + 1 /\ UNCHANGED scan
Others == Operands[ops + 1]

ResolveUnary(op) ==
    /\ Extends /\ IsArithmetic(expr.type) /\ UnaryKinds(op, expr) = {}
    /\ \E a \in {Wrapped(expr, PromoteInt(expr))} :
          Becomes(UnaryResult(op, expr, a), UnaryMeaning(op, expr.means))

ResolveNot ==
    /\ Extends
    /\ Becomes(NotResult(expr), UnaryMeaning("!", expr.means))

ResolveCast(t) ==
    /\ Extends /\ CanCast(expr.type, t) /\ CastKinds(t, expr) = {}
    /\ Becomes(Wrapped(expr, CastEop(expr, t)), CastMeaning(t, expr.means))

ResolveBinary(op, l, r) ==
    /\ Accepts(op, l.type, r.type)
    /\ \E c \in {Conversions(op, l, r)} :
          /\ BinaryKinds(op, l, r, c) = {}
          /\ \E a \in {Wrapped(l, c[1])}, b \in {Wrapped(r, c[2])} :
                Becomes(BinaryResult(op, l, r, a, b), BinaryMeaning(op, l.means, r.means))

ResolveTernary(c, l, r) ==
    /\ \/ IsArithmetic(l.type) /\ IsArithmetic(r.type)
       \/ IsPtr(l.type) /\ IsPtr(r.type) /\ CommonPtr(l.type, r.type) # "none"
    /\ TernaryKinds(c, l, r) = {}
    /\ \E both \in {OneType(l, r)}, cond \in {Wrapped(c, CastEop(c, "bool"))} :
         \E a \in {Wrapped(l, both[1])}, b \in {Wrapped(r, both[2])} :
            Becomes(TernaryResult(c, l, r, cond, a, b), TernaryMeaning(c.means, l.means, r.means))

BinaryOps == {"+", "-", "*", "/", "%", "quot", "rem", "<<", ">>", "&", "|", "^",
              "==", "!=", "<", "<=", ">", ">=", "&&", "||"}

ReadInt == \/ \E base \in DOMAIN Digits : BeginInt(base)
           \/ \E d \in Digits[scan.base] : ScanDigit(d)
           \/ \E suffix \in {"", "s", "u"} : EndInt(suffix)
UseUnary   == ResolveNot \/ (\E op \in {"+", "-", "~"} : ResolveUnary(op))
UseBinary  == Extends /\ \E op \in BinaryOps, o \in Others :
                            \E e \in {<<expr, o>>, <<o, expr>>} : ResolveBinary(op, e[1], e[2])
UseTernary == Extends /\ \E o, p \in Others :
                            \E e \in {<<expr, o, p>>, <<o, expr, p>>, <<o, p, expr>>} :
                                ResolveTernary(e[1], e[2], e[3])

Next == ReadInt \/ TakeOperand \/ UseUnary \/ (\E t \in CastTypes : ResolveCast(t)) \/ UseBinary \/ UseTernary
Spec == Init /\ [][Next]_vars

---------------------------------------------------------------------------
(* Properties *)

(* What the program computes, as a value (IR_expr_result_to_reg) and as a condition
   (IR_process_cfg_cond), is what the expression means, in the type it has; and so is
   the value that a constant expression has for the resolver (eval_binary_op and the
   casts before and after it). *)
FoldsAsMeant ==
    expr.means.ok =>
        LET value == ToReg(expr.er, expr.type)
            cond  == EmitCond(expr)
        IN  /\ expr.type = expr.means.type
            /\ IsConst(expr) => AsInt(expr.sc, expr.type) = expr.means.v
            /\ Stops(value) \/ Unstorable(expr) \/ AsInt(value.v, expr.type) = expr.means.v
            /\ IsConst(expr) \/ Stops(cond) \/ CmpTruth(cond) = (expr.means.v # 0)

(* An expression that the resolver accepts is emitted: no assertion of the resolver, the
   generator or the conversion to XIR fails for it, and the compiler does not divide by
   zero itself (const_eval.c:102, procs.c:2128). *)
NeverStops == expr # NoExpr => ~Stops(ToReg(expr.er, expr.type)) /\ (IsConst(expr) \/ ~Stops(EmitCond(expr)))

(* A literal has its exact value (scan_digits), in the first type of its list that holds
   it (get_int_lit_type), and is refused only if none does. *)
LiteralsExact ==
    /\ scan.state = "digits" => scan.value = scan.exact
    /\ scan.state \in {"overflow", "too large"} =>
           \E suffix \in {"", "s", "u"} :
              LET types == LiteralTypes(scan.base, suffix) IN scan.exact > IntMax(types[Len(types)])
    /\ scan.state \in {"plain", "s", "u"} =>
           LET types == LiteralTypes(scan.base, IF scan.state = "plain" THEN "" ELSE scan.state)
           IN  /\ AsInt(expr.sc, expr.type) = scan.exact
               /\ \A i \in DOMAIN types : scan.exact <= IntMax(types[i]) => SizeOf(expr.type) <= SizeOf(types[i])
=============================================================================

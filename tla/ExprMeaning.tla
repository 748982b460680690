---------------------------- MODULE ExprMeaning ----------------------------
(***************************************************************************)
(* What expressions mean: the reference that folding and emission are held  *)
(* against.  Values are integers; an operator's type follows from its       *)
(* operands' types as in C, whose rules the resolver names as its own.      *)
(***************************************************************************)
EXTENDS ConstFold

Meaning(type, v)   == [ok |-> TRUE, type |-> type, v |-> v]
Unknown(type)      == [ok |-> FALSE, type |-> type, v |-> 0]
Defined(c, type, v) == IF c THEN Meaning(type, v) ELSE Unknown(type)

\* At least four bytes; the larger of the two; the unsigned one if none is larger.
Promoted(t)   == IF SizeOf(t) < 4 THEN "s32" ELSE t
Underlying(t) == IF Kind(t) = "enum" THEN BaseOf(t) ELSE t
CommonType(t, u) ==
    LET a == Underlying(Promoted(t))
        b == Underlying(Promoted(u))
    IN  IF SizeOf(a) > SizeOf(b) \/ (SizeOf(a) = SizeOf(b) /\ ~Signed(a)) THEN a ELSE b
\* ^void is counted in bytes.
Counted(t) == IF t = "pvoid" THEN "ps8" ELSE t
Step(t) == SizeOf(BaseOf(Counted(t)))

\* No integer is divided by zero, nor the least one by -1.
Divides(y, x, t) == y # 0 /\ ~(Signed(t) /\ y = -1 /\ x = -IntMax(t) - 1)
InWidth(n, t) == n \in 0..(ByteBits * SizeOf(t) - 1)

Arithmetic(op, t, x, y) ==
    CASE op = "+" -> Meaning(t, Wrap(x + y, t))
      [] op = "-" -> Meaning(t, Wrap(x - y, t))
      [] op = "*" -> Meaning(t, Wrap(Product(x, y), t))
      [] op \in {"/", "quot"} /\ Divides(y, x, t) -> Meaning(t, Quotient(x, y))
      [] op \in {"%", "rem"} /\ Divides(y, x, t)  -> Meaning(t, Remainder(x, y))
      [] op \in {"/", "%", "quot", "rem"} /\ ~Divides(y, x, t) -> Unknown(t)
      [] op = "&" -> Meaning(t, Wrap(Bits(x) & Bits(y), t))
      [] op = "|" -> Meaning(t, Wrap(Bits(x) | Bits(y), t))
      [] op = "^" -> Meaning(t, Wrap(Bits(x) ^^ Bits(y), t))

\* Not of a truth value, and by less than the width.
Shifted(op, t, x, n) ==
    IF t = "bool" \/ ~InWidth(n, t) THEN Unknown(t)
    ELSE Meaning(t, Wrap(IF op = "<<" THEN Product(x, 2^n) ELSE x \div 2^n, t))

Comparisons == {"==", "!=", "<", "<=", ">", ">="}
Logical     == {"&&", "||"}
Shifts      == {"<<", ">>"}

\* l and r are meanings.
BinaryMeaning(op, l, r) ==
    LET t == CommonType(l.type, r.type)
        x == Wrap(l.v, t)
        y == Wrap(r.v, t)
        ptrs == {IsPtr(l.type), IsPtr(r.type)}
    IN  CASE op \in Logical -> Meaning("bool", EvalLogical(op, l.v, r.v))
          [] op \in Shifts  -> Shifted(op, l.type, l.v, r.v)
          [] op \in Comparisons /\ ptrs = {FALSE} -> Meaning("bool", EvalLogical(op, x, y))
          [] op \in Comparisons /\ ptrs = {TRUE}  -> Meaning("bool", EvalLogical(op, l.v, r.v))
          [] op \notin Logical \cup Shifts \cup Comparisons /\ ptrs = {FALSE} -> Arithmetic(op, t, x, y)
          [] op = "+" /\ IsPtr(r.type) -> Meaning(Counted(r.type), Bits(r.v + l.v * Step(r.type)))
          [] op = "+" /\ IsPtr(l.type) -> Meaning(Counted(l.type), Bits(l.v + r.v * Step(l.type)))
          [] op = "-" /\ ~IsPtr(r.type) /\ IsPtr(l.type) ->
                Meaning(Counted(l.type), Bits(l.v - r.v * Step(l.type)))
          [] op = "-" /\ ptrs = {TRUE} ->
                LET d == Wrap(l.v - r.v, "s64")
                IN  Defined(d % Step(l.type) = 0, "s64", d \div Step(l.type))

UnaryMeaning(op, e) ==
    LET t == Promoted(e.type)
    IN  CASE op = "!" -> Meaning("bool", Truth(e.v = 0))
          [] op = "+" -> Meaning(t, e.v)
          [] op = "-" -> Meaning(t, Wrap(-e.v, t))
          [] op = "~" -> Meaning(t, Wrap(-e.v - 1, t))

CastMeaning(t, e) == Meaning(t, Convert(e.v, t))

\* Of two pointers the type that says more.
TernaryMeaning(c, l, r) ==
    LET t == CASE IsArithmetic(l.type) -> CommonType(l.type, r.type)
               [] IsPtr(l.type) /\ l.type # "pvoid" -> l.type
               [] l.type = "pvoid" -> r.type
        v == IF c.v # 0 THEN l.v ELSE r.v
    IN  Meaning(t, Wrap(v, t))
=============================================================================

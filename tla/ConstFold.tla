----------------------------- MODULE ConstFold -----------------------------
(***************************************************************************)
(* How the resolver types expressions and evaluates constant ones:          *)
(* conversions and constant operators of resolver/exprs.c and const_eval.c. *)
(* A byte has ByteBits bits, so that the limits of every type are near.     *)
(*                                                                         *)
(* A resolved operand is a record with type, ce (is_constexpr), im (is_imm) *)
(* and sc, the union Scalar as its 64-bit member reads it.  A cast writes   *)
(* only the member of the new type; the other bytes keep what they held.    *)
(***************************************************************************)
EXTENDS Integers, Bitwise

CONSTANT ByteBits
ASSUME ByteBitsAssumption == ByteBits \in 1..2

---------------------------------------------------------------------------
(* Types, by name *)

IntType(size, signed)  == [kind |-> "int", size |-> size, signed |-> signed, base |-> "none"]
PtrType(base) == [kind |-> "ptr", size |-> 8, signed |-> FALSE, base |-> base]

Types ==
    [bool |-> IntType(1, FALSE),
     u8   |-> IntType(1, FALSE), s8  |-> IntType(1, TRUE),
     u16  |-> IntType(2, FALSE), s16 |-> IntType(2, TRUE),
     u32  |-> IntType(4, FALSE), s32 |-> IntType(4, TRUE),
     u64  |-> IntType(8, FALSE), s64 |-> IntType(8, TRUE),
     enum |-> [IntType(4, FALSE) EXCEPT !.kind = "enum", !.base = "u32"],
     void |-> [kind |-> "void", size |-> 0, signed |-> FALSE, base |-> "none"],
     ps8  |-> PtrType("s8"), pu32 |-> PtrType("u32"),
     penum |-> PtrType("enum"), pvoid |-> PtrType("void")]

Kind(t)    == Types[t].kind
SizeOf(t)  == Types[t].size
Signed(t)  == Types[t].signed
BaseOf(t)  == Types[t].base
IsPtr(t)   == Kind(t) = "ptr"
IsArithmetic(t) == Kind(t) \in {"int", "enum"}
Wide(t)    == IF Signed(t) THEN "s64" ELSE "u64"

\* The number of values of a type, and the value of a type that a number wraps to.
Moduli     == [t \in DOMAIN Types |-> 2^(ByteBits * SizeOf(t))]
Wrap(v, t) == LET m == v % Moduli[t]
              IN  IF Signed(t) /\ 2 * m >= Moduli[t] THEN m - Moduli[t] ELSE m
IntMax(t)  == IF Signed(t) THEN Moduli[t] \div 2 - 1 ELSE Moduli[t] - 1
\* The conversion to a type, of an integer.
Convert(v, t) == IF t = "bool" THEN (IF v = 0 THEN 0 ELSE 1) ELSE Wrap(v, t)

\* The member of a scalar that a type names, and a scalar after a write to it.
AsInt(sc, t) == Wrap(sc, t)
Stored(sc, t, v) == (sc - (sc % Moduli[t])) + (v % Moduli[t])

---------------------------------------------------------------------------
(* Conversions *)

Compatible(t, u) ==
    \/ t = u
    \/ IsPtr(t) /\ IsPtr(u) /\ (BaseOf(BaseOf(t)) = BaseOf(u) \/ BaseOf(t) = BaseOf(BaseOf(u)))

CanConvert(src, dst) ==
    \/ dst = src
    \/ IsArithmetic(dst) /\ IsArithmetic(src)
    \/ dst = "bool" /\ IsPtr(src)
    \/ IsPtr(dst) /\ IsPtr(src) /\ (Compatible(dst, src) \/ "pvoid" \in {dst, src})

CanCast(src, dst) ==
    \/ CanConvert(src, dst)
    \/ Kind(dst) = "int" /\ IsPtr(src)
    \/ Kind(src) = "int" /\ IsPtr(dst)
    \/ IsPtr(dst) /\ IsPtr(src)

IsConst(e) == e.ce /\ e.im

CastEop(e, t) ==
    IF IsConst(e)
    THEN [e EXCEPT !.type = t, !.sc = Stored(@, t, Convert(AsInt(@, e.type), t))]
    ELSE [e EXCEPT !.type = t]

PromoteInt(e) ==
    IF IsArithmetic(e.type) /\ SizeOf(e.type) < SizeOf("s32") THEN CastEop(e, "s32") ELSE e

\* To the base type of an enumeration; the value is the same.
Collapse(e) == IF Kind(e.type) = "enum" THEN [e EXCEPT !.type = BaseOf(@)] ELSE e

\* Ranks order the types as their sizes do.
Rank(t) == SizeOf(t)
\* Mutant: the sign does not matter.
LeftIsCastByRank(t, u) == Rank(t) <= Rank(u)
LeftIsCast(t, u) ==
    \/ Signed(t) = Signed(u) /\ Rank(t) <= Rank(u)
    \/ Signed(t) # Signed(u) /\ Signed(t) /\ Rank(u) >= Rank(t)
    \/ Signed(t) # Signed(u) /\ Signed(u) /\ Rank(t) < Rank(u)

\* The usual arithmetic conversions, of both operands.
ConvertArith(left, right) ==
    LET a == Collapse(PromoteInt(left))
        b == Collapse(PromoteInt(right))
    IN  CASE a.type = b.type -> <<a, b>>
          [] a.type # b.type /\ LeftIsCast(a.type, b.type)  -> <<CastEop(a, b.type), b>>
          [] a.type # b.type /\ ~LeftIsCast(a.type, b.type) -> <<a, CastEop(b, a.type)>>

CommonPtr(t, u) ==
    CASE Compatible(t, u) -> t
      [] ~Compatible(t, u) /\ t = "pvoid" -> u
      [] ~Compatible(t, u) /\ t # "pvoid" /\ u = "pvoid" -> t
      [] OTHER -> "none"

---------------------------------------------------------------------------
(* Constant operators: in 64 bits, then back to the type *)

Abs(v) == IF v < 0 THEN -v ELSE v
Quotient(x, y)  == IF (x < 0) = (y < 0) THEN Abs(x) \div Abs(y) ELSE -(Abs(x) \div Abs(y))
Remainder(x, y) == x - y * Quotient(x, y)
\* Both factors in two's complement, whose product has the same low bits.
Product(x, y) == Wrap(x, "s64") * Wrap(y, "s64")
Bits(v) == v % Moduli["u64"]

Eval64(op, x, y) ==
    CASE op = "+" -> x + y
      [] op = "-" -> x - y
      [] op = "*" -> Product(x, y)
      [] op = "/" -> IF y = 0 THEN 0 ELSE Quotient(x, y)
      [] op = "%" -> IF y = 0 THEN 0 ELSE Remainder(x, y)
      [] op = "<<" -> IF y \in 0..(8 * ByteBits - 1) THEN Product(x, 2^y) ELSE 0
      [] op = ">>" -> IF y \in 0..(8 * ByteBits - 1) THEN x \div 2^y ELSE 0
      [] op = "&" -> Bits(x) & Bits(y)
      [] op = "|" -> Bits(x) | Bits(y)
      [] op = "^" -> Bits(x) ^^ Bits(y)

InWide(sc, t) == Wrap(AsInt(sc, t), Wide(t))
Narrowed(v, t) == LET sc == Bits(v) IN Stored(sc, t, Convert(Wrap(sc, Wide(t)), t))

EvalBinary(op, t, a, b) == Narrowed(Eval64(op, InWide(a, t), InWide(b, t)), t)
EvalUnary(op, t, a) ==
    Narrowed(CASE op = "+" -> InWide(a, t) [] op = "-" -> -InWide(a, t) [] op = "~" -> -InWide(a, t) - 1, t)

Truth(b) == IF b THEN 1 ELSE 0
EvalLogical(op, x, y) ==
    Truth(CASE op = "==" -> x = y [] op = "!=" -> x # y [] op = "<" -> x < y
            [] op = "<=" -> x <= y [] op = ">" -> x > y [] op = ">=" -> x >= y
            [] op = "&&" -> x # 0 /\ y # 0 [] op = "||" -> x # 0 \/ y # 0)

\* Rounded up to a power of two.
Clp2(n) == CHOOSE k \in 0..8 : 2^k >= n /\ \A j \in 0..(k - 1) : 2^j < n
=============================================================================

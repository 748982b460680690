--------------------------- MODULE MCExpressions ---------------------------
(* Bytes of two bits: u8 is 0..3, s32 is -128..127, s64 is -32768..32767.  The *)
(* operands are the limits of the types, small numbers, and pointers, some of  *)
(* them into the upper half.                                                   *)
EXTENDS TLC, Expressions

Literal(v) == Const("s32", v)

MCOperands == <<
    {Literal(0), Literal(1), Literal(3), Const("s64", 200), Const("u32", 255), Const("s8", 1),
     Const("bool", 1), Null, SizeConst("u32"), GlobalAddress("pu32", 2048),
     Variable("bool", 0), Variable("bool", 1), Variable("u8", 3), Variable("s8", -2),
     Variable("u32", 200), Variable("s32", -3), Variable("s32", 5), Variable("u64", 40000),
     Variable("s64", -32768), Variable("enum", 9), Variable("pu32", 1024), Variable("pu32", 40000),
     Variable("penum", 1040), Variable("pvoid", 1024)},
    {Literal(0), Literal(2), Const("u32", 9), Variable("bool", 0), Variable("s8", -1), Variable("u32", 1),
     Variable("s64", 6), Variable("pu32", 1032)},
    {Literal(2)} >>

MCCastTypes == {"bool", "u8", "s8", "s32", "u32", "u64", "enum", "ps8", "pu32", "pvoid"}

MCDigits    == (2 :> {1, 2}) @@ (8 :> {0, 1, 2, 7, 8}) @@ (10 :> {1, 2, 3, 5, 6, 7, 8}) @@ (16 :> {0, 1, 7, 8, 15})
MCMaxDigits == (2 :> 17) @@ (8 :> 6) @@ (10 :> 5) @@ (16 :> 5)
=============================================================================

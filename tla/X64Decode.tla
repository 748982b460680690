------------------------------ MODULE X64Decode ------------------------------
(***************************************************************************)
(* The processor's reading of machine code in 64-bit mode, from the         *)
(* architecture manuals and not from the repository: what a specification   *)
(* of the encoder is compared with.  Decode(b) is the instruction that the  *)
(* byte sequence b starts with and its length.  Immediates are bytes, as    *)
(* many as the operand has.                                                 *)
(***************************************************************************)
EXTENDS X64Machine

Ripped(at) == [k |-> "rip", at |-> at]
Imm(bytes) == [k |-> "i", c |-> bytes]

\* The number in two's complement of one or four bytes.
Signed8(b) == IF b > 127 THEN b - 256 ELSE b
Signed32(b) == b[1] + 256 * b[2] + 65536 * b[3] + 16777216 * Signed8(b[4])
Extended(b, n) ==
    [i \in 1..n |-> IF i <= Len(b) THEN b[i] ELSE IF b[Len(b)] > 127 THEN 255 ELSE 0]

---------------------------------------------------------------------------
(* Prefixes and the bytes after the opcode *)

\* The byte at i, or 0 where the sequence ends too early.
At(b, i) == IF i <= Len(b) THEN b[i] ELSE 0
Slice(b, i, n) == [j \in 1..n |-> At(b, i + j - 1)]

Legacy(b) == IF At(b, 1) \in {102, 242, 243} THEN b[1] ELSE 0
RexAt(b) == IF Legacy(b) = 0 THEN 1 ELSE 2
HasRex(b) == At(b, RexAt(b)) \in 64..79
RexBit(b, v) == HasRex(b) /\ (b[RexAt(b)] \div v) % 2 = 1
OpcodeAt(b) == RexAt(b) + (IF HasRex(b) THEN 1 ELSE 0)

WideSize(b) == IF RexBit(b, 8) THEN 8 ELSE IF Legacy(b) = 102 THEN 2 ELSE 4

\* A register field with its extension bit.
Field(v, extended) == v + (IF extended THEN 8 ELSE 0)
IntReg(b, n, size) == IF size = 1 /\ ~HasRex(b) /\ n \in 4..7 THEN RH(n - 4) ELSE R(n)
FltReg(n) == R(XMM0 + n)

ModOf(v) == v \div 64
RegOf(v) == (v \div 8) % 8
RmOf(v)  == v % 8

\* The ModRM byte at m: its register field, its other operand and where the
\* bytes after it start.  reg(n) names register n.
ModRMAt(b, m, reg(_)) ==
    LET v     == At(b, m)
        hasSib == ModOf(v) # 3 /\ RmOf(v) = 4
        sib   == At(b, m + 1)
        base  == IF hasSib THEN RmOf(sib) ELSE RmOf(v)
        index == Field(RegOf(sib), RexBit(b, 2))
        at    == m + (IF hasSib THEN 2 ELSE 1)
        rip   == ModOf(v) = 0 /\ RmOf(v) = 5
        noBase == hasSib /\ ModOf(v) = 0 /\ base = 5
        size  == CASE ModOf(v) = 1 -> 1
                   [] ModOf(v) = 2 \/ rip \/ noBase -> 4
                   [] OTHER -> 0
        disp  == CASE size = 0 -> 0
                   [] size = 1 -> Signed8(At(b, at))
                   [] size = 4 -> Signed32(Slice(b, at, 4))
        indexed == hasSib /\ index # 4
    IN  [reg  |-> Field(RegOf(v), RexBit(b, 4)),
         digit |-> RegOf(v),
         next |-> at + size,
         x    |-> CASE ModOf(v) = 3 -> reg(Field(RmOf(v), RexBit(b, 1)))
                    [] rip -> Ripped(at)
                    [] ModOf(v) # 3 /\ ~rip ->
                         M(IF noBase THEN NoReg ELSE Field(base, RexBit(b, 1)),
                           IF indexed THEN index ELSE NoReg,
                           IF indexed THEN 2 ^ ModOf(sib) ELSE 0, disp)]

---------------------------------------------------------------------------
(* Opcodes *)

AluNames  == <<"add", "or", "adc", "sbb", "and", "sub", "xor", "cmp">>
OneNames  == <<"test", "test", "not", "neg", "mul1", "imul1", "div1", "idiv1">>
Unknown == [op |-> "unknown"]
Decoded(ins, len) == [ins |-> ins, len |-> len]

\* The forms below are of the opcode op at position p.
Rm(b, p, size) == LET reg(n) == IntReg(b, n, size) IN ModRMAt(b, p + 1, reg)
FltRm(b, p) == LET reg(n) == FltReg(n) IN ModRMAt(b, p + 1, reg)

\* The bit 0 of most opcodes tells a byte from the larger sizes.
SizeOf(b, op) == IF op % 2 = 0 THEN 1 ELSE WideSize(b)
ImmSize(size) == IF size = 8 THEN 4 ELSE size
WithImm(b, op, size, f, n) ==
    Decoded(Ins(op, size, f.x, Imm(Extended(Slice(b, f.next, n), size))), f.next + n - 1)

DecodeAlu(b, p, op) ==
    LET size == SizeOf(b, op)
        f    == Rm(b, p, size)
        reg  == IntReg(b, f.reg, size)
        name == AluNames[op \div 8 + 1]
    IN  Decoded(IF op % 4 < 2 THEN Ins(name, size, f.x, reg) ELSE Ins(name, size, reg, f.x),
                f.next - 1)

DecodeMov(b, p, op) ==
    LET size == SizeOf(b, op)
        f    == Rm(b, p, size)
        reg  == IntReg(b, f.reg, size)
    IN  Decoded(IF op < 138 THEN Ins("mov", size, f.x, reg) ELSE Ins("mov", size, reg, f.x),
                f.next - 1)

DecodeAluImm(b, p, op) ==
    LET size == IF op = 128 THEN 1 ELSE WideSize(b)
        f    == Rm(b, p, size)
    IN  WithImm(b, AluNames[f.digit + 1], size, f, IF op = 129 THEN ImmSize(size) ELSE 1)

DecodeMovImm(b, p, op) ==
    LET size == SizeOf(b, op)
    IN  WithImm(b, "mov", size, Rm(b, p, size), ImmSize(size))

DecodeMovOpcodeReg(b, p, op) ==
    LET size == IF op < 184 THEN 1 ELSE WideSize(b)
    IN  Decoded(Ins("mov", size, IntReg(b, Field(op % 8, RexBit(b, 1)), size), Imm(Slice(b, p + 1, size))),
                p + size)

DecodeOne(b, p, op) ==
    LET size == SizeOf(b, op)
        f    == Rm(b, p, size)
        name == OneNames[f.digit + 1]
    IN  Decoded(IF f.digit \in 2..3 THEN Ins(name, size, f.x, None) ELSE Ins(name, size, None, f.x),
                f.next - 1)

ShiftNames == <<"rol", "ror", "rcl", "rcr", "shl", "shr", "sal", "sar">>
DecodeShift(b, p, op) ==
    LET size == SizeOf(b, op)
        f    == Rm(b, p, size)
        name == ShiftNames[f.digit + 1]
    IN  CASE op \in {208, 209} -> Decoded(Ins(name, size, f.x, Imm(<<1>>)), f.next - 1)
          [] op \in {210, 211} -> Decoded(Ins(name, size, f.x, R(RCX)), f.next - 1)
          [] op \in {192, 193} -> Decoded(Ins(name, size, f.x, Imm(Slice(b, f.next, 1))), f.next)

\* imul r, r/m, imm: the form with one register has it in both fields.
DecodeImulImm(b, p, op) ==
    LET size == WideSize(b)
        f    == Rm(b, p, size)
        d    == WithImm(b, "imul", size, f, IF op = 107 THEN 1 ELSE ImmSize(size))
    IN  IF f.x = R(f.reg) THEN d ELSE Decoded(Unknown, d.len)

DecodeExt(b, p, name, ssize) ==
    LET f == Rm(b, p, ssize)
    IN  Decoded(InsExt(name, WideSize(b), R(f.reg), ssize, f.x), f.next - 1)

FltNames == <<"add_flt", "mul_flt", "cvt", "cvtdq", "sub_flt", "min_flt", "div_flt", "max_flt">>
DecodeFlt(b, p, op) ==
    LET size == IF Legacy(b) = 243 THEN 4 ELSE 8
        f    == FltRm(b, p)
        int  == Rm(b, p, 8)
        dst  == FltReg(f.reg)
        ins  == CASE op = 16 -> Ins("mov_flt", size, dst, f.x)
                  [] op = 17 -> Ins("mov_flt", size, f.x, dst)
                  [] op = 46 -> Ins("ucomis", IF Legacy(b) = 102 THEN 8 ELSE 4, dst, f.x)
                  [] op = 111 /\ Legacy(b) = 243 -> Ins("movdqu", 16, dst, f.x)
                  [] op = 127 /\ Legacy(b) = 243 -> Ins("movdqu", 16, f.x, dst)
                  [] op = 90 -> IF size = 4 THEN InsExt("cvtss2sd", 8, dst, 4, f.x)
                                ELSE InsExt("cvtsd2ss", 4, dst, 8, f.x)
                  [] op = 44 -> InsExt(IF size = 4 THEN "cvttss2si" ELSE "cvttsd2si",
                                       WideSize(b), R(f.reg), size, f.x)
                  [] op = 42 -> InsExt(IF size = 4 THEN "cvtsi2ss" ELSE "cvtsi2sd",
                                       size, dst, WideSize(b), int.x)
                  [] op \in {88, 89, 92, 94} -> Ins(FltNames[op - 87], size, dst, f.x)
    IN  Decoded(ins, f.next - 1)

CondNames == <<"O", "NO", "U_LT", "U_GTEQ", "EQ", "NEQ", "U_LTEQ", "U_GT",
               "S", "NS", "P", "NP", "S_LT", "S_GTEQ", "S_LTEQ", "S_GT">>
DecodeSetCC(b, p, op) ==
    LET f == Rm(b, p, 1)
    IN  Decoded(Ins("setcc", 1, f.x, I(CondNames[op - 143])), f.next - 1)

Relative(name, b, at, n, cond) ==
    Decoded([op |-> name, cond |-> cond, at |-> at,
             to |-> IF n = 1 THEN Signed8(At(b, at)) ELSE Signed32(Slice(b, at, 4))], at + n - 1)

DecodeCall(b, p) ==
    LET f == Rm(b, p, 8)
    IN  Decoded(IF f.digit = 2 THEN Ins("call", 8, None, f.x) ELSE Unknown, f.next - 1)

DecodeTwoByte(b, p, op) ==
    CASE op \in {16, 17, 42, 44, 46, 88, 89, 90, 92, 94, 111, 127} -> DecodeFlt(b, p, op)
      [] op \in 128..143 -> Relative("jmpcc", b, p + 1, 4, CondNames[op - 127])
      [] op \in 144..159 -> DecodeSetCC(b, p, op)
      [] op = 175 -> LET f == Rm(b, p, WideSize(b))
                     IN  Decoded(Ins("imul", WideSize(b), R(f.reg), f.x), f.next - 1)
      [] op \in {182, 183} -> DecodeExt(b, p, "movzx", IF op = 182 THEN 1 ELSE 2)
      [] op \in {190, 191} -> DecodeExt(b, p, "movsx", IF op = 190 THEN 1 ELSE 2)
      [] op = 5 -> Decoded(Ins("syscall", 8, None, None), p)
      [] OTHER -> Decoded(Unknown, p)

Decode(b) ==
    LET p  == OpcodeAt(b)
        op == At(b, p)
    IN  CASE op = 15 -> DecodeTwoByte(b, p + 1, At(b, p + 1))
          [] op < 64 /\ op % 8 < 4 /\ op # 15 -> DecodeAlu(b, p, op)
          [] op \in 80..87 -> Decoded(Ins("push", 8, None, R(Field(op - 80, RexBit(b, 1)))), p)
          [] op \in 88..95 -> Decoded(Ins("pop", 8, R(Field(op - 88, RexBit(b, 1))), None), p)
          [] op = 99 -> DecodeExt(b, p, "movsxd", 4)
          [] op \in {105, 107} -> DecodeImulImm(b, p, op)
          [] op \in 112..127 -> Relative("jmpcc", b, p + 1, 1, CondNames[op - 111])
          [] op \in {128, 129, 131} -> DecodeAluImm(b, p, op)
          [] op \in 136..139 -> DecodeMov(b, p, op)
          [] op = 141 -> LET f == Rm(b, p, 8)
                         IN  Decoded(Ins("lea", 8, R(f.reg), f.x), f.next - 1)
          [] op = 153 -> Decoded(Ins("sext_ax", WideSize(b), None, None), p)
          [] op \in {164, 170} /\ Legacy(b) = 243 ->
               Decoded(Ins(IF op = 164 THEN "rep_movsb" ELSE "rep_stosb", 1, None, None), p)
          [] op \in 176..191 -> DecodeMovOpcodeReg(b, p, op)
          [] op \in {192, 193} \cup 208..211 -> DecodeShift(b, p, op)
          [] op = 195 -> Decoded(Ins("ret", 8, None, None), p)
          [] op \in {198, 199} -> DecodeMovImm(b, p, op)
          [] op = 232 -> Relative("call", b, p + 1, 4, "always")
          [] op = 233 -> Relative("jmp", b, p + 1, 4, "always")
          [] op = 235 -> Relative("jmp", b, p + 1, 1, "always")
          [] op \in {246, 247} -> DecodeOne(b, p, op)
          [] op = 255 -> DecodeCall(b, p)
          [] OTHER -> Decoded(Unknown, p)
=============================================================================

------------------------------ MODULE Encoding ------------------------------
(***************************************************************************)
(* From x64 instructions to their bytes: X64_elf_gen_instr of               *)
(* machine_code.c and the functions it writes with.  An instruction is a    *)
(* record of X64Machine; its memory operands may also be a global entity,   *)
(* whose address the linker or the compiler patches in later.               *)
(***************************************************************************)
EXTENDS X64Machine

\* A global entity as a memory operand, and a procedure that is called.
Global(e) == [k |-> "global", to |-> e]
Callee(e) == [k |-> "proc", to |-> e]
InMemory(x) == x.k \in {"m", "global"}

\* The register's number in an instruction.
RegVal(r) == r % 16
\* The registers that share their number with ah, ch, dh and bh.
Aliased8h(r) == RegVal(r) \in 4..7

\* Little-endian bytes, of numbers in two's complement.
RECURSIVE LowBytes(_, _)
LowBytes(v, n) == IF n = 0 THEN <<>> ELSE <<v % 256>> \o LowBytes(v \div 256, n - 1)
ImmBytes(c, n) ==
    CASE c = U32    -> SubSeq(<<254, 255, 255, 255, 0, 0, 0, 0>>, 1, n)
      [] c = U64    -> SubSeq(<<1, 2, 3, 4, 5, 6, 7, 136>>, 1, n)
      [] c[1] = "n" -> LowBytes(c[2], n)
IsSmall(c, lo, hi) == c[1] = "n" /\ c[2] \in lo..hi
FitsByte(v) == v \in -128..127

---------------------------------------------------------------------------
(* Prefixes, ModRM and SIB *)

Bit(b) == IF b THEN 1 ELSE 0
ModRM(mod, reg, rm) == 64 * mod + 8 * (reg % 8) + (rm % 8)
Rex(w, r, x, b) == 64 + 8 * Bit(w) + 4 * Bit(r) + 2 * Bit(x) + Bit(b)
Ext(v) == v > 7
ScaleMode(s) == CASE s = 1 -> 0 [] s = 2 -> 1 [] s = 4 -> 2 [] s = 8 -> 3

\* What an operand adds: its ModRM fields, REX bits, SIB byte and displacement.
Fields(mod, rm, b, x, sib, disp) ==
    [mod |-> mod, rm |-> rm, b |-> b, x |-> x, sib |-> sib, disp |-> disp]
DispBytes(mod, v) == CASE mod = 0 -> <<>> [] mod = 1 -> LowBytes(v, 1) [] mod = 2 -> LowBytes(v, 4)

AddrBytes(a) ==
    LET base     == RegVal(a.base)
        hasIndex == a.scale # 0
        hasDisp  == a.disp # 0 \/ base % 8 = RBP
        mod      == CASE ~hasDisp -> 0
                      [] hasDisp /\ FitsByte(a.disp)  -> 1
                      [] hasDisp /\ ~FitsByte(a.disp) -> 2
        index    == IF hasIndex THEN RegVal(a.index) ELSE RSP
        scale    == IF hasIndex THEN ScaleMode(a.scale) ELSE 0
    IN  IF hasIndex \/ base % 8 = RSP
        THEN Fields(mod, 4, Ext(base), Ext(index), <<ModRM(scale, index, base)>>,
                    DispBytes(mod, a.disp))
        ELSE Fields(mod, base, Ext(base), FALSE, <<>>, DispBytes(mod, a.disp))

\* A register, an address, or a global at [rip + disp32].
Operand(x) ==
    CASE x.k = "r"      -> Fields(3, RegVal(x.r), Ext(RegVal(x.r)), FALSE, <<>>, <<>>)
      [] x.k = "m"      -> AddrBytes(x)
      [] x.k = "global" -> Fields(0, 5, FALSE, FALSE, <<>>, <<0, 0, 0, 0>>)

\* Mutant: the distance is counted from the end of the displacement.
UsageFromEnd(at, e) == [at |-> at, to |-> e, bytesToNextIp |-> 0]
\* X64_record_global_entity_offset_usage: where the displacement goes is recorded,
\* with the distance to the next instruction.
Usage(at, e) == [at |-> at, to |-> e, bytesToNextIp |-> 4]

\* An instruction with a ModRM byte.  The REX prefix is written when it carries
\* a bit, or to name the low byte of a register.
WithModRM(prefix, w, lowByte, opcode, reg, x, imm) ==
    LET f      == Operand(x)
        rex    == IF w \/ Ext(reg) \/ f.b \/ f.x \/ lowByte
                  THEN <<Rex(w, Ext(reg), f.x, f.b)>> ELSE <<>>
        before == prefix \o rex \o opcode \o <<ModRM(f.mod, reg, f.rm)>> \o f.sib
    IN  [bytes |-> before \o f.disp \o imm,
         usages |-> IF x.k = "global" THEN <<Usage(Len(before), x.to)>> ELSE <<>>]
Plain(bytes) == [bytes |-> bytes, usages |-> <<>>]

OpSize(size) == IF size = 2 THEN <<102>> ELSE <<>>
\* The opcode of the one-byte form, or of the larger forms.
Opcode(size, one, larger) == IF size = 1 THEN <<one>> ELSE <<larger>>

---------------------------------------------------------------------------
(* Integer instructions *)

\* Mutant: no prefix for the low bytes of RSP, RBP, RSI and RDI.
NoLowByte(size, r) == FALSE
LowByteOf(size, r) == size = 1 /\ Aliased8h(r)

BinaryRR(one, larger, size, dst, src) ==
    WithModRM(OpSize(size), size = 8, LowByteOf(size, dst) \/ LowByteOf(size, src),
              Opcode(size, one, larger), RegVal(src), R(dst), <<>>)
BinaryRM(one, larger, size, dst, x) ==
    WithModRM(OpSize(size), size = 8, LowByteOf(size, dst), Opcode(size, one, larger),
              RegVal(dst), x, <<>>)
BinaryMR(one, larger, size, x, src) ==
    WithModRM(OpSize(size), size = 8, LowByteOf(size, src), Opcode(size, one, larger),
              RegVal(src), x, <<>>)

\* A byte is sign-extended; anything larger has the size of the operand, at
\* most 4 bytes.  The immediate comes in as 32 bits.
Low32(c) == IF c = U32 THEN N(-2) ELSE c
BinaryI(ext, size, x, c) ==
    LET isByte == IsSmall(Low32(c), -128, 127)
    IN  WithModRM(OpSize(size), size = 8, x.k = "r" /\ LowByteOf(size, x.r),
                  IF size = 1 THEN <<128>> ELSE IF isByte THEN <<131>> ELSE <<129>>,
                  ext, x,
                  ImmBytes(Low32(c), IF isByte THEN 1 ELSE IF size = 8 THEN 4 ELSE size))

\* One operand in a register or in memory, the operation in the ModRM byte.
OneOperand(one, larger, ext, size, x, imm) ==
    WithModRM(OpSize(size), size = 8, x.k = "r" /\ LowByteOf(size, x.r),
              Opcode(size, one, larger), ext, x, imm)

\* A shift by RCX, by one, or by another number.
Shift(ext, i) ==
    CASE i.src.k = "r" -> OneOperand(210, 211, ext, i.size, i.dst, <<>>)
      [] i.src = I(N(1)) -> OneOperand(208, 209, ext, i.size, i.dst, <<>>)
      [] OTHER -> OneOperand(192, 193, ext, i.size, i.dst, ImmBytes(i.src.c, 1))

\* The base opcodes and the number of each operation.
Alu == [add |-> <<0, 0>>, or |-> <<8, 1>>, and |-> <<32, 4>>, sub |-> <<40, 5>>,
        xor |-> <<48, 6>>, cmp |-> <<56, 7>>]
AluInstr(i) ==
    LET base == Alu[i.op][1] IN
    CASE i.src.k = "i" -> BinaryI(Alu[i.op][2], i.size, i.dst, i.src.c)
      [] i.dst.k = "r" /\ i.src.k = "r" -> BinaryRR(base, base + 1, i.size, i.dst.r, i.src.r)
      [] i.dst.k = "r" /\ InMemory(i.src) -> BinaryRM(base + 2, base + 3, i.size, i.dst.r, i.src)
      [] InMemory(i.dst) /\ i.src.k = "r" -> BinaryMR(base, base + 1, i.size, i.dst, i.src.r)

UnaryNumber == [not |-> 2, neg |-> 3, mul1 |-> 4, imul1 |-> 5, div1 |-> 6, idiv1 |-> 7]

ImulInstr(i) ==
    IF i.src.k = "i"
    THEN LET isByte == IsSmall(i.src.c, 0, 127)
         IN  WithModRM(OpSize(i.size), i.size = 8, FALSE, IF isByte THEN <<107>> ELSE <<105>>,
                       RegVal(i.dst.r), i.dst,
                       ImmBytes(Low32(i.src.c), IF isByte THEN 1 ELSE IF i.size = 8 THEN 4 ELSE i.size))
    ELSE WithModRM(OpSize(i.size), i.size = 8, FALSE, <<15, 175>>, RegVal(i.dst.r), i.src, <<>>)

---------------------------------------------------------------------------
(* Moves *)

\* The source may be the second byte of a register: RH(r).
SrcVal(s) == IF s.k = "rh" THEN s.r + 4 ELSE RegVal(s.r)
MovFromReg(i) ==
    WithModRM(OpSize(i.size), i.size = 8, i.src.k = "r" /\ LowByteOf(i.size, i.src.r),
              Opcode(i.size, 136, 137), SrcVal(i.src), i.dst, <<>>)

\* opcode + register, with a REX prefix for B.
OpcodeReg(prefix, w, lowByte, base, r, imm) ==
    LET v == RegVal(r)
    IN  Plain(prefix \o (IF w \/ Ext(v) \/ lowByte THEN <<Rex(w, FALSE, FALSE, Ext(v))>> ELSE <<>>)
              \o <<base + (v % 8)>> \o imm)

\* An 8-byte move of a non-negative 31-bit number is a 4-byte one.
MovRI(size, r, c) ==
    CASE size = 8 /\ c[1] = "n" /\ c[2] >= 0 ->
           OpcodeReg(<<>>, FALSE, FALSE, 184, r, ImmBytes(c, 4))
      [] size = 8 /\ c[1] = "n" /\ c[2] < 0 ->
           WithModRM(<<>>, TRUE, FALSE, <<199>>, 0, R(r), ImmBytes(c, 4))
      [] size # 8 \/ c[1] # "n" ->
           OpcodeReg(OpSize(size), size = 8, LowByteOf(size, r), IF size = 1 THEN 176 ELSE 184, r,
                     ImmBytes(c, size))

MovInstr(i) ==
    CASE i.src.k \in {"r", "rh"} -> MovFromReg(i)
      [] i.dst.k = "r" /\ InMemory(i.src) -> BinaryRM(138, 139, i.size, i.dst.r, i.src)
      [] InMemory(i.dst) /\ i.src.k = "i" ->
           OneOperand(198, 199, 0, i.size, i.dst, ImmBytes(i.src.c, IF i.size = 8 THEN 4 ELSE i.size))
      [] i.dst.k = "r" /\ i.src.k = "i" -> MovRI(i.size, i.dst.r, i.src.c)

MovExtInstr(i) ==
    LET code == CASE i.op = "movsx"  -> <<15, IF i.ssize = 1 THEN 190 ELSE 191>>
                  [] i.op = "movzx"  -> <<15, IF i.ssize = 1 THEN 182 ELSE 183>>
                  [] i.op = "movsxd" -> <<99>>
    IN  WithModRM(OpSize(i.size), i.size = 8, i.src.k = "r" /\ LowByteOf(i.ssize, i.src.r),
                  code, RegVal(i.dst.r), i.src, <<>>)

---------------------------------------------------------------------------
(* Floating-point instructions *)

FltPrefix(size) == IF size = 4 THEN <<243>> ELSE <<242>>
FltFrom(prefix, w, suffix, reg, x) == WithModRM(prefix, w, FALSE, <<15, suffix>>, RegVal(reg), x, <<>>)

FltSuffix == [add_flt |-> 88, sub_flt |-> 92, mul_flt |-> 89, div_flt |-> 94]
FltInstr(i) ==
    CASE i.op \in FltArith -> FltFrom(FltPrefix(i.size), FALSE, FltSuffix[i.op], i.dst.r, i.src)
      [] i.op = "mov_flt" /\ i.dst.k = "r" -> FltFrom(FltPrefix(i.size), FALSE, 16, i.dst.r, i.src)
      [] i.op = "mov_flt" /\ i.dst.k # "r" -> FltFrom(FltPrefix(i.size), FALSE, 17, i.src.r, i.dst)
      [] i.op = "ucomis" ->
           FltFrom(IF i.size = 8 THEN <<102>> ELSE <<>>, FALSE, 46, i.dst.r, i.src)
      [] i.op = "movdqu" /\ i.dst.k = "r" -> FltFrom(<<243>>, FALSE, 111, i.dst.r, i.src)
      [] i.op = "movdqu" /\ i.dst.k # "r" -> FltFrom(<<243>>, FALSE, 127, i.src.r, i.dst)

\* The prefix tells the kind of float; the width of an integer operand is in W.
CvtInstr(i) ==
    CASE i.op \in {"cvtss2sd", "cvtsd2ss"} ->
           FltFrom(FltPrefix(IF i.op = "cvtss2sd" THEN 4 ELSE 8), FALSE, 90, i.dst.r, i.src)
      [] i.op \in {"cvttss2si", "cvttsd2si"} ->
           FltFrom(FltPrefix(IF i.op = "cvttss2si" THEN 4 ELSE 8), i.size = 8, 44, i.dst.r, i.src)
      [] i.op \in {"cvtsi2ss", "cvtsi2sd"} ->
           FltFrom(FltPrefix(IF i.op = "cvtsi2ss" THEN 4 ELSE 8), i.ssize = 8, 42, i.dst.r, i.src)

---------------------------------------------------------------------------
(* The rest *)

CondNumber == [U_LT |-> 2, U_GTEQ |-> 3, EQ |-> 4, NEQ |-> 5, U_LTEQ |-> 6, U_GT |-> 7,
               S_LT |-> 12, S_GTEQ |-> 13, S_LTEQ |-> 14, S_GT |-> 15]
SetCC(i) ==
    WithModRM(<<>>, FALSE, i.dst.k = "r" /\ Aliased8h(i.dst.r), <<15, 144 + CondNumber[i.src.c]>>,
              0, i.dst, <<>>)

SextAx(size) ==
    Plain(CASE size = 2 -> <<102, 153>> [] size = 4 -> <<153>> [] size = 8 -> <<72, 153>>)

CallInstr(i) ==
    IF i.src.k = "proc" THEN [bytes |-> <<232, 0, 0, 0, 0>>, usages |-> <<Usage(1, i.src.to)>>]
    ELSE WithModRM(<<>>, FALSE, FALSE, <<255>>, 2, i.src, <<>>)

Encode(i) ==
    CASE i.op \in DOMAIN Alu -> AluInstr(i)
      [] i.op \in DOMAIN UnaryNumber ->
           OneOperand(246, 247, UnaryNumber[i.op], i.size,
                      IF i.op \in {"not", "neg"} THEN i.dst ELSE i.src, <<>>)
      [] i.op \in {"shl", "sar"} -> Shift(IF i.op = "shl" THEN 4 ELSE 7, i)
      [] i.op = "imul" -> ImulInstr(i)
      [] i.op = "mov" -> MovInstr(i)
      [] i.op \in {"movsx", "movsxd", "movzx"} -> MovExtInstr(i)
      [] i.op \in FltArith \cup {"mov_flt", "ucomis", "movdqu"} -> FltInstr(i)
      [] i.op \in Converts -> CvtInstr(i)
      [] i.op = "setcc" -> SetCC(i)
      [] i.op = "lea" -> WithModRM(<<>>, TRUE, FALSE, <<141>>, RegVal(i.dst.r), i.src, <<>>)
      [] i.op = "push" -> OpcodeReg(<<>>, FALSE, FALSE, 80, i.src.r, <<>>)
      [] i.op = "pop" -> OpcodeReg(<<>>, FALSE, FALSE, 88, i.dst.r, <<>>)
      [] i.op = "call" -> CallInstr(i)
      [] i.op = "sext_ax" -> SextAx(i.size)
      [] i.op = "ret" -> Plain(<<195>>)
      [] i.op = "rep_movsb" -> Plain(<<243, 164>>)
      [] i.op = "rep_stosb" -> Plain(<<243, 170>>)
      [] i.op = "syscall" -> Plain(<<15, 5>>)
=============================================================================

----------------------------- MODULE X64Machine -----------------------------
(***************************************************************************)
(* The processor that the emitted instructions run on, as the code under    *)
(* src/x64_gen assumes it.  A word is a sequence of symbolic bytes: an      *)
(* input, a byte of a number or of an address, a byte of the result of an   *)
(* operation.  A machine is a record                                        *)
(*                                                                         *)
(*     [reg, mem, flags, goto]                                             *)
(*                                                                         *)
(* where mem holds the bytes written so far.                                *)
(***************************************************************************)
EXTENDS X64Registers, SequencesExt

---------------------------------------------------------------------------
(* Words *)

Zeros(n) == [i \in 1..n |-> <<"zero">>]
Ones(n)  == [i \in 1..n |-> <<"ones">>]
Signs(w, n) == [i \in 1..n |-> <<"sign", w>>]

\* A number of at most 31 bits, as 8 bytes.
Num(v) == [i \in 1..4 |-> <<"num", v, i>>] \o (IF v < 0 THEN Ones(4) ELSE Zeros(4))

IsNum(w) ==
    /\ Len(w) = 8
    /\ \A i \in 1..4 : w[i][1] = "num"
    /\ \A i \in 1..8 : w[i] = Num(w[1][2])[i]
NumOf(w) == w[1][2]

\* An immediate: a small number, or a number that needs all of 32 unsigned
\* bits, or one that needs 64.
N(v) == <<"n", v>>
U32  == <<"u32">>
U64  == <<"u64">>
Named(c, n) == [i \in 1..n |-> <<"imm", c, i>>]
ImmWord(c) ==
    CASE c = U32    -> Named(c, 4) \o Zeros(4)
      [] c = U64    -> Named(c, 8)
      [] c[1] = "n" -> Num(c[2])

\* The value the processor makes of the 32-bit immediate that encodes c.
SignExtended32(c) ==
    IF c[1] = "n" THEN ImmWord(c) ELSE SubSeq(ImmWord(c), 1, 4) \o Ones(4)

\* The n-byte result of an operation on words.
Result(op, args, n) == [i \in 1..n |-> <<"op", op, args, i>>]

---------------------------------------------------------------------------
(* Operands and instructions *)

R(r)  == [k |-> "r",  r |-> r]
RH(r) == [k |-> "rh", r |-> r]
I(c)  == [k |-> "i",  c |-> c]
M(base, index, scale, disp) ==
    [k |-> "m", base |-> base, index |-> index, scale |-> scale, disp |-> disp]
None == [k |-> "none"]

Ins(op, size, dst, src) == [op |-> op, size |-> size, ssize |-> size, dst |-> dst, src |-> src]
InsExt(op, size, dst, ssize, src) ==
    [op |-> op, size |-> size, ssize |-> ssize, dst |-> dst, src |-> src]

\* Where a byte goes whose address is no number: nowhere the program owns.
Wild == -1000000

RegNum(m, r) == IF r = NoReg THEN 0 ELSE IF IsNum(m.reg[r]) THEN NumOf(m.reg[r]) ELSE Wild
Address(m, x) ==
    LET b == RegNum(m, x.base)
        n == RegNum(m, x.index)
    IN  IF Wild \in {b, n} THEN Wild ELSE b + n * x.scale + x.disp

ByteAt(m, a) == IF a \in DOMAIN m.mem THEN m.mem[a] ELSE <<"mem", a>>
Bytes(m, a, n) == [i \in 1..n |-> ByteAt(m, a + i - 1)]
Store(m, a, w) ==
    [m EXCEPT !.mem = [b \in DOMAIN m.mem \cup a..(a + Len(w) - 1) |->
                         IF b \in a..(a + Len(w) - 1) THEN w[b - a + 1] ELSE m.mem[b]]]

Read(m, x, n) ==
    CASE x.k = "r"  -> SubSeq(m.reg[x.r], 1, n)
      [] x.k = "rh" -> <<m.reg[x.r][2]>>
      [] x.k = "m"  -> Bytes(m, Address(m, x), n)
      [] x.k = "i"  -> SubSeq(SignExtended32(x.c), 1, n)

\* A 4-byte write to an integer register clears its upper half; 1 and 2 byte
\* writes and writes to an XMM register keep the rest.
Write(m, x, w) ==
    CASE x.k = "r" ->
           [m EXCEPT !.reg[x.r] =
              IF Len(w) = 4 /\ Len(@) = 8 THEN w \o Zeros(4)
              ELSE w \o SubSeq(@, Len(w) + 1, Len(@))]
      [] x.k = "m" -> Store(m, Address(m, x), w)

AddRsp(m, n) == [m EXCEPT !.reg[RSP] = Num(NumOf(@) + n)]

---------------------------------------------------------------------------
(* One instruction *)

Arith == {"add", "sub", "imul", "and", "or", "xor", "sar", "shl"}
FltArith == {"add_flt", "sub_flt", "mul_flt", "div_flt"}
Converts == {"cvtss2sd", "cvtsd2ss", "cvttss2si", "cvttsd2si", "cvtsi2ss", "cvtsi2sd"}

ExecArith(m, i) ==
    LET a == Read(m, i.dst, i.size)
        b == Read(m, i.src, IF i.op \in {"sar", "shl"} THEN 1 ELSE i.size)
        w == IF i.op \in {"add", "sub"} /\ IsNum(a) /\ IsNum(b)
             THEN Num(IF i.op = "add" THEN NumOf(a) + NumOf(b) ELSE NumOf(a) - NumOf(b))
             ELSE Result(i.op, <<a, b>>, i.size)
    IN  [Write(m, i.dst, w) EXCEPT !.flags = <<i.op, a, b>>]

\* An arithmetic shift by whole bytes moves bytes.
ByWholeBytes(i) == i.op = "sar" /\ i.src.k = "i" /\ i.src.c[2] % 8 = 0
ExecSarBytes(m, i) ==
    LET a == Read(m, i.dst, i.size)
        n == i.src.c[2] \div 8
    IN  [Write(m, i.dst, SubSeq(a, n + 1, i.size) \o Signs(a, n))
           EXCEPT !.flags = <<"sar", a, n>>]

\* The one-operand forms take RAX (and RDX, which one-byte forms do not use).
ExecOneOperand(m, i) ==
    LET args == <<Read(m, R(RAX), IF i.size = 1 THEN 2 ELSE i.size),
                  IF i.size = 1 THEN <<>> ELSE Read(m, R(RDX), i.size),
                  Read(m, i.src, i.size)>>
    IN  IF i.size = 1
        THEN Write(m, R(RAX), Result(i.op, args, 2))
        ELSE Write(Write(m, R(RAX), Result(i.op, args, i.size)),
                   R(RDX), Result(<<i.op, "hi">>, args, i.size))

ExecRepMovsb(m) ==
    LET n == RegNum(m, RCX)
        s == RegNum(m, RSI)
        d == RegNum(m, RDI)
    IN  IF Wild \in {n, s, d} THEN Store(m, Wild, Zeros(1))
        ELSE [Store(m, d, Bytes(m, s, n))
                EXCEPT !.reg[RCX] = Num(0), !.reg[RSI] = Num(s + n), !.reg[RDI] = Num(d + n)]

ExecRepStosb(m) ==
    LET n == RegNum(m, RCX)
        d == RegNum(m, RDI)
    IN  IF Wild \in {n, d} THEN Store(m, Wild, Zeros(1))
        ELSE [Store(m, d, [i \in 1..n |-> m.reg[RAX][1]])
                EXCEPT !.reg[RCX] = Num(0), !.reg[RDI] = Num(d + n)]

Exec(m, i) ==
    CASE i.op = "mov" ->
           Write(m, i.dst, IF i.src.k = "i" /\ i.dst.k = "r"
                           THEN SubSeq(ImmWord(i.src.c), 1, i.size)
                           ELSE Read(m, i.src, i.size))
      [] i.op = "mov_flt" ->
           Write(m, i.dst, IF i.src.k = "m" /\ i.dst.k = "r"
                           THEN Read(m, i.src, i.size) \o Zeros(16 - i.size)
                           ELSE Read(m, i.src, i.size))
      [] i.op = "movdqu" -> Write(m, i.dst, Read(m, i.src, 16))
      [] i.op \in {"movsx", "movsxd"} ->
           LET w == Read(m, i.src, i.ssize)
           IN  Write(m, i.dst, w \o Signs(w, i.size - i.ssize))
      [] i.op = "movzx" -> Write(m, i.dst, Read(m, i.src, i.ssize) \o Zeros(i.size - i.ssize))
      [] i.op = "lea" -> Write(m, i.dst, Num(Address(m, i.src)))
      [] i.op = "push" -> Store(AddRsp(m, -8), NumOf(m.reg[RSP]) - 8, m.reg[i.src.r])
      [] i.op = "pop" ->
           LET w == Bytes(m, NumOf(m.reg[RSP]), 8)
           IN  [AddRsp(m, 8) EXCEPT !.reg[i.dst.r] = w]
      [] ByWholeBytes(i) -> ExecSarBytes(m, i)
      [] i.op \in Arith /\ ~ByWholeBytes(i) -> ExecArith(m, i)
      [] i.op \in FltArith ->
           Write(m, i.dst, Result(i.op, <<Read(m, i.dst, i.size), Read(m, i.src, i.size)>>, i.size))
      [] i.op \in {"neg", "not"} -> Write(m, i.dst, Result(i.op, <<Read(m, i.dst, i.size)>>, i.size))
      [] i.op \in {"mul1", "imul1", "div1", "idiv1"} -> ExecOneOperand(m, i)
      [] i.op = "sext_ax" ->
           IF i.size = 1
           THEN Write(m, R(RAX), Read(m, R(RAX), 1) \o Signs(Read(m, R(RAX), 1), 1))
           ELSE Write(m, R(RDX), Signs(Read(m, R(RAX), i.size), i.size))
      [] i.op \in Converts -> Write(m, i.dst, Result(i.op, <<Read(m, i.src, i.ssize)>>, i.size))
      [] i.op = "cmp" ->
           [m EXCEPT !.flags = <<"cmp", Read(m, i.dst, i.size), Read(m, i.src, i.size)>>]
      [] i.op = "ucomis" ->
           [m EXCEPT !.flags = <<"ucomis", Read(m, i.dst, i.size), Read(m, i.src, i.size)>>]
      [] i.op = "setcc" -> Write(m, i.dst, <<<<"cc", i.src.c, m.flags>>>>)
      [] i.op = "rep_movsb" -> ExecRepMovsb(m)
      [] i.op = "rep_stosb" -> ExecRepStosb(m)
      [] i.op = "syscall" ->
           [m EXCEPT !.reg[RAX] = Result("syscall", <<@>>, 8), !.reg[RCX] = Result("rip", <<>>, 8),
                     !.reg[R11] = Result("rflags", <<>>, 8)]
      [] i.op = "jmp" -> [m EXCEPT !.goto = i.src.c]
      [] i.op = "jmpcc" -> [m EXCEPT !.goto = <<i.dst.c, m.flags, i.src.c, m.goto>>]
      [] i.op = "ret" -> [m EXCEPT !.goto = "ret"]
=============================================================================

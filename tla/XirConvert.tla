----------------------------- MODULE XirConvert -----------------------------
(***************************************************************************)
(* How ir_to_xir.c turns one instruction of the intermediate language into  *)
(* XIR, instructions of the target on virtual registers (lregs).  Convert   *)
(* yields the calls a converter makes on the XIR builder, in their order:   *)
(* the instructions it emits, the constraints it puts on the register       *)
(* allocation of an lreg.  IrToXir performs them.                           *)
(*                                                                         *)
(* An lreg is named by what it holds, not numbered: the lreg of an IR       *)
(* register (builder->reg_map), a temporary of one IR instruction, or RBP.  *)
(***************************************************************************)
EXTENDS CallArgs

---------------------------------------------------------------------------
(* IR operands: an immediate, a register, an address.  An immediate has a   *)
(* kind: a positive number of 31 bits, one of 32 bits, one of 64 bits.      *)

Imm(c)  == [k |-> "i", c |-> c]
Reg(r)  == [k |-> "r", r |-> r]
Addr(a) == [k |-> "a", a |-> a]
NoOp    == [k |-> "none"]

Small(v) == <<"s31", v>>
U32(v)   == <<"u32", v>>
U64(v)   == <<"u64", v>>

NoIReg == "none"

\* The base of an address is <<"none">>, <<"reg", r>>, <<"lit", name>> or an
\* object: <<"global", name>>, <<"local", frame offset>>, another object it is
\* an alias of, or one that lies at an address.
MemAddr(base, index, scale, disp) ==
    [base |-> base, index |-> index, scale |-> scale, disp |-> disp]

\* An IR instruction; what it has no use for is left blank.
IR(op, type, r, a, b) ==
    [op |-> op, type |-> type, r |-> r, a |-> a, b |-> b,
     r2 |-> NoIReg, from |-> Void, cond |-> "", to |-> <<>>, args |-> <<>>]

---------------------------------------------------------------------------
(* XIR *)

FP         == <<"rbp">>
Ir(r)      == <<"ir", r>>
Tmp(i, n)  == <<"tmp", i.id, n>>
NoLreg     == <<"none">>

XR(l) == [k |-> "r", l |-> l]
XI(c) == [k |-> "i", c |-> c]
XM(base, index, scale, disp) ==
    [k |-> "m", base |-> base, index |-> index, scale |-> scale, disp |-> disp]
XN(name) == [k |-> "n", name |-> name]
XNone == [k |-> "none"]

\* regs are the registers an instruction names besides its operands, info what
\* else it carries.
XConvert(op, size, dst, ssize, src) ==
    [op |-> op, size |-> size, ssize |-> ssize, dst |-> dst, src |-> src,
     regs |-> <<>>, info |-> <<>>]
X(op, size, dst, src) == XConvert(op, size, dst, size, src)
XFixed(op, size, regs, src) == [X(op, size, XNone, src) EXCEPT !.regs = regs]
XWith(i, info) == [i EXCEPT !.info = info]

---------------------------------------------------------------------------
(* Calls on the builder *)

Request(q, l, x)    == [q |-> q, l |-> l, x |-> x]
Emit(i)             == Request("emit", NoLreg, i)
DefPhysReg(l, preg) == Request("phys", l, preg)
\* Mutant of ForceArgReg: an argument has its register from where it is computed.
ForceArgReg_AtOnce(l, preg) == Request("phys", l, preg)
ForceArgReg(l, preg)   == Request("arg", l, {preg})
ForceStackArgReg(l)    == Request("arg", l, {RAX, RBX} \cup R10..R15)
ForceAnyReg(l, banned) == Request("any", l, banned)
HintSameReg(l, copied) == Request("same", l, copied)
HintPhysReg(l, preg)   == Request("hint", l, preg)
AliasRegs(u, v)        == Request("alias", u, v)
AssertThat(ok)         == Request("assert", NoLreg, ok)

\* mov l, src and cmp a, b
Mov(size, l, src)  == Emit(X("mov", size, XR(l), src))
Compare(size, a, b) == Emit(X("cmp", size, a, b))

FitsFourBytes(c, size) == size < 8 \/ c[1] # "u64"

---------------------------------------------------------------------------
(* Addresses.  GetAddr yields [q, m]: the calls, and the operand. *)

\* index := index * scale + base
LeaSib(index, scale, base) ==
    <<Emit(X("mul", 8, XR(index), XI(Small(scale))))>>
    \o (IF base = NoLreg THEN <<>> ELSE <<Emit(X("add", 8, XR(index), XR(base)))>>)

IndexOf(a) == IF a.scale # 0 /\ a.index # NoIReg THEN Ir(a.index) ELSE NoLreg

\* The scale of an IR address is a u8, that of an XIR address an s8.
S8(n) == IF n > 127 THEN n - 256 ELSE n

\* The processor has the scales 1, 2, 4 and 8.
LegalScale(indexed, q, m) ==
    IF indexed /\ m.scale \notin {1, 2, 4, 8}
    THEN [q |-> q \o LeaSib(m.index, m.scale, m.base), m |-> XM(m.index, NoLreg, 0, m.disp)]
    ELSE [q |-> q, m |-> m]

\* An object at an address: both may have an index.
AtAddress(a, q, inner) ==
    LET index == IndexOf(a)
        q1    == q \o inner.q \o <<AssertThat(inner.m.k = "m")>>
        m     == inner.m
    IN  CASE m.k # "m" -> [q |-> q1, m |-> m]
          [] m.k = "m" /\ index # NoLreg /\ m.scale # 0 /\ m.index # NoLreg ->
               [q |-> q1 \o LeaSib(index, S8(a.scale), NoLreg) \o LeaSib(m.index, m.scale, index),
                m |-> [m EXCEPT !.scale = 1, !.disp = @ + a.disp]]
          [] OTHER -> [q |-> q1, m |-> [m EXCEPT !.disp = @ + a.disp]]

RECURSIVE GetAddr(_, _)
GetAddr(a, banned) ==
    LET index == IndexOf(a)
        force == IF index = NoLreg THEN <<>> ELSE <<ForceAnyReg(index, banned)>>
        sibd(q, base, disp) ==
            LegalScale(index # NoLreg, force \o q, XM(base, index, S8(a.scale), a.disp + disp))
    IN  CASE a.base[1] = "lit"    -> [q |-> <<>>, m |-> XN(a.base)]
          [] a.base[1] = "global" -> [q |-> force, m |-> XN(a.base)]
          [] a.base[1] = "alias"  -> GetAddr([a EXCEPT !.base = a.base[2]], banned)
          [] a.base[1] = "local"  -> sibd(<<>>, FP, a.base[2])
          [] a.base[1] = "reg"    -> sibd(<<ForceAnyReg(Ir(a.base[2]), banned)>>, Ir(a.base[2]), 0)
          [] a.base[1] = "none"   -> sibd(<<AssertThat(index # NoLreg)>>, NoLreg, 0)
          [] a.base[1] = "at"     -> AtAddress(a, force, GetAddr(a.base[2], banned))

---------------------------------------------------------------------------
(* Operands *)

\* An operand as it is, or as a register if the processor cannot take it.
InPlace(x) ==
    CASE x.k = "i" -> [q |-> <<>>, m |-> XI(x.c)]
      [] x.k = "r" -> [q |-> <<>>, m |-> XR(Ir(x.r))]
      [] x.k = "a" -> GetAddr(x.a, {})
InTmp(i, size, x) ==
    [q |-> <<Mov(size, Tmp(i, "imm"), XI(x.c))>>, m |-> XR(Tmp(i, "imm"))]
Source(i, size, x) ==
    IF x.k = "i" /\ ~FitsFourBytes(x.c, size) THEN InTmp(i, size, x) ELSE InPlace(x)
NotImm(i, size, x) == IF x.k = "i" THEN InTmp(i, size, x) ELSE InPlace(x)

\* An instruction whose source is such an operand.
Apply(op, size, dst, s) == s.q \o <<Emit(X(op, size, XR(dst), s.m))>>

\* mov dst, imm; a small immediate is moved with the 4-byte form.
MovImm(size, dst, c) ==
    Mov(IF size = 8 /\ FitsFourBytes(c, size) THEN 4 ELSE size, dst, XI(c))
LoadOpRI(size, dst, x) ==
    IF x.k = "i" THEN <<MovImm(size, dst, x.c)>>
    ELSE <<HintSameReg(Ir(x.r), dst), Mov(size, dst, XR(Ir(x.r)))>>
LoadOpRIA(size, dst, x) ==
    CASE x.k = "i" -> <<MovImm(size, dst, x.c)>>
      [] x.k = "r" -> <<HintSameReg(dst, Ir(x.r)), Mov(size, dst, XR(Ir(x.r)))>>
      [] x.k = "a" -> Apply("mov", size, dst, GetAddr(x.a, {}))

---------------------------------------------------------------------------
(* Arithmetic *)

ConvertIntBinary(i) ==
    LoadOpRIA(i.type.size, Ir(i.r), i.a)
    \o Apply(i.op, i.type.size, Ir(i.r), Source(i, i.type.size, i.b))

\* mov _ax, a; then clear or sign extend into _dx
LoadAx(i) == <<DefPhysReg(Tmp(i, "ax"), RAX)>> \o LoadOpRIA(i.type.size, Tmp(i, "ax"), i.a)
ClearDx(i) ==
    <<DefPhysReg(Tmp(i, "dx"), RDX), Emit(X("xor", 8, XR(Tmp(i, "dx")), XR(Tmp(i, "dx"))))>>
SetDx(i) ==
    IF i.type.signed
    THEN <<DefPhysReg(Tmp(i, "dx"), RDX),
           Emit(X("sext_ax", i.type.size, XR(Tmp(i, "dx")), XR(Tmp(i, "ax"))))>>
    ELSE ClearDx(i)
OneOperand(i, op, s) ==
    s.q \o <<Emit(XFixed(op, i.type.size, <<Tmp(i, "dx"), Tmp(i, "ax")>>, s.m))>>
CopyOut(i, r, from) ==
    <<Mov(i.type.size, Ir(r), XR(from)), HintSameReg(Ir(r), from)>>

ConvertMul(i) ==
    IF i.type.signed THEN ConvertIntBinary(i)
    ELSE LoadAx(i) \o ClearDx(i) \o OneOperand(i, "mul_ax", NotImm(i, i.type.size, i.b))
         \o CopyOut(i, i.r, Tmp(i, "ax"))

DivideAx(i) ==
    LoadAx(i) \o SetDx(i)
    \o OneOperand(i, IF i.type.signed THEN "idiv" ELSE "div", NotImm(i, i.type.size, i.b))
ConvertDiv(i) == DivideAx(i) \o CopyOut(i, i.r, Tmp(i, "ax"))
ConvertMod(i) == DivideAx(i) \o CopyOut(i, i.r, Tmp(i, "dx"))
ConvertDivMod(i) ==
    DivideAx(i) \o CopyOut(i, i.r2, Tmp(i, "dx")) \o CopyOut(i, i.r, Tmp(i, "ax"))

ConvertFltBinary(i) ==
    (IF i.a.k = "r" THEN <<HintSameReg(Ir(i.r), Ir(i.a.r))>> ELSE <<>>)
    \o Apply("mov", i.type.size, Ir(i.r), InPlace(i.a))
    \o Apply(i.op, i.type.size, Ir(i.r), InPlace(i.b))

\* A count that is no immediate goes to CL.
ConvertShift(i) ==
    LET cx == Tmp(i, "cx")
        s  == i.type.size
        shift(c) == <<Emit(X(i.op, s, XR(Ir(i.r)), c))>>
    IN  LoadOpRIA(s, Ir(i.r), i.a)
        \o CASE i.b.k = "i" -> shift(XI(i.b.c))
             [] i.b.k = "r" -> <<DefPhysReg(cx, RCX), HintPhysReg(Ir(i.b.r), RCX)>>
                               \o Apply("mov", s, cx, InPlace(i.b)) \o shift(XR(cx))
             [] i.b.k = "a" -> <<DefPhysReg(cx, RCX)>>
                               \o Apply("mov", s, cx, InPlace(i.b)) \o shift(XR(cx))

ConvertUnary(i) ==
    <<HintSameReg(Ir(i.r), Ir(i.a.r)),
      Mov(i.type.size, Ir(i.r), XR(Ir(i.a.r))),
      Emit(X(i.op, i.type.size, XR(Ir(i.r)), XNone))>>

---------------------------------------------------------------------------
(* Conversions *)

ConvertTrunc(i) == <<Mov(i.type.size, Ir(i.r), XR(Ir(i.a.r)))>>
ConvertExt(i) ==
    <<Emit(XConvert(i.op, i.type.size, XR(Ir(i.r)), i.from.size, XR(Ir(i.a.r))))>>
ConvertFlt(i) ==
    InPlace(i.a).q \o <<Emit(XConvert(i.op, i.type.size, XR(Ir(i.r)), i.from.size, InPlace(i.a).m))>>
\* An integer of less than 4 bytes is extended first.
ConvertInt2Flt(i) ==
    LET ext == Tmp(i, "ext")
        s   == InPlace(i.a)
    IN  IF i.from.size >= 4 THEN ConvertFlt(i)
        ELSE s.q \o <<Emit(XConvert(IF i.from.signed THEN "sext" ELSE "zext", 4, XR(ext),
                                    i.from.size, s.m)),
                      Emit(XConvert(i.op, i.type.size, XR(Ir(i.r)), 4, XR(ext)))>>

---------------------------------------------------------------------------
(* Moves *)

ConvertLImm(i)  == <<Mov(i.type.size, Ir(i.r), XI(i.a.c))>>
ConvertLoad(i)  == Apply("mov", i.type.size, Ir(i.r), GetAddr(i.a.a, {}))
ConvertLAddr(i) == Apply("lea", 8, Ir(i.r), GetAddr(i.a.a, {}))
ConvertStore(i) ==
    LET m == GetAddr(i.a.a, {})
        s == Source(i, i.type.size, i.b)
    IN  m.q \o s.q \o <<Emit(X("mov", i.type.size, m.m, s.m))>>

\* lea rdi, dst; lea rsi, src; mov rcx, size; rep movsb
Lea(l, preg, m) == <<DefPhysReg(l, preg), Emit(X("lea", 8, XR(l), m))>>
ConvertMemcpy(i) ==
    LET rdi == Tmp(i, "di")   rsi == Tmp(i, "si")   rcx == Tmp(i, "cx")
        dst == GetAddr(i.a.a, {})
        src == GetAddr(i.b.a, {RDI})
    IN  dst.q \o src.q \o Lea(rdi, RDI, dst.m) \o Lea(rsi, RSI, src.m)
        \o <<DefPhysReg(rcx, RCX)>> \o LoadOpRI(8, rcx, i.args[1])
        \o <<Emit(XFixed("rep_movsb", 1, <<rdi, rsi, rcx>>, XNone))>>
\* lea rdi, dst; mov al, value; mov rcx, size; rep stosb
ConvertMemset(i) ==
    LET rdi == Tmp(i, "di")   al == Tmp(i, "ax")   rcx == Tmp(i, "cx")
        dst == GetAddr(i.a.a, {})
    IN  dst.q \o Lea(rdi, RDI, dst.m)
        \o <<DefPhysReg(al, RAX)>> \o LoadOpRI(1, al, i.b)
        \o <<DefPhysReg(rcx, RCX)>> \o LoadOpRI(8, rcx, i.args[1])
        \o <<Emit(XFixed("rep_stosb", 1, <<rdi, al, rcx>>, XNone))>>

---------------------------------------------------------------------------
(* Comparisons and jumps *)

Combines(i, next) == i.op \in {"cmp", "fcmp"} /\ next.op = "condjmp" /\ next.a.r = i.r

JmpCC(cond, to) == <<Emit(XWith(X("jmpcc", 0, XNone, XNone), <<cond, to>>))>>
\* A comparison is combined with the conditional jump after it.
JumpOrSet(i, next, cond) ==
    IF Combines(i, next) THEN JmpCC(cond, next.to)
    ELSE <<Emit(XWith(X("setcc", 1, XR(Ir(i.r)), XNone), <<cond>>))>>

ConvertIntCmp(i, next) ==
    LET s == i.type.size
        inReg == i.a.k = "a" /\ i.b.k = "a"      \* no instruction compares memory with memory
        a == NotImm(i, s, i.a)
        b == IF inReg THEN [q |-> GetAddr(i.b.a, {}).q
                                  \o <<Mov(s, Tmp(i, "b"), GetAddr(i.b.a, {}).m)>>,
                            m |-> XR(Tmp(i, "b"))]
             ELSE Source(i, s, i.b)
    IN  a.q \o b.q \o <<Compare(s, a.m, b.m)>> \o JumpOrSet(i, next, i.cond)

\* A floating-point comparison has the unsigned conditions.
FltCond(cond) ==
    CASE cond = "s<" -> "u<" [] cond = "s<=" -> "u<=" [] cond = "s>" -> "u>"
      [] cond = "s>=" -> "u>=" [] OTHER -> cond
ConvertFltCmp(i, next) ==
    LET b == InPlace(i.b)
    IN  b.q \o <<Emit(X("fcmp", i.type.size, XR(Ir(i.a.r)), b.m))>>
        \o JumpOrSet(i, next, FltCond(i.cond))

ConvertJmp(i) == <<Emit(XWith(X("jmp", 0, XNone, XNone), <<i.to>>))>>
ConvertCondJmp(i) == <<Compare(1, XR(Ir(i.a.r)), XI(Small(0)))>> \o JmpCC("!=", i.to)

\* args[k] is [block, r].
ConvertPhi(i) == [k \in 1..Len(i.args) |-> AliasRegs(Ir(i.args[k].r), Ir(i.r))]

---------------------------------------------------------------------------
(* Leaving and calling *)

\* args[1] is the number.
SyscallRegs == <<RDI, RSI, RDX, R10, R8, R9>>
ConvertSyscall(i) ==
    LET rax == Tmp(i, "ax")   rcx == Tmp(i, "cx")   r11 == Tmp(i, "r11")
        n == Len(i.args) - 1
        arg == <<"arg1", "arg2", "arg3", "arg4", "arg5", "arg6">>
        set(k) == <<DefPhysReg(Tmp(i, arg[k]), SyscallRegs[k])>>
                  \o LoadOpRIA(8, Tmp(i, arg[k]), i.args[k + 1])
    IN  <<DefPhysReg(rax, RAX)>> \o LoadOpRIA(8, rax, i.args[1])
        \o FlattenSeq([k \in 1..n |-> set(k)])
        \o <<DefPhysReg(rcx, RCX), DefPhysReg(r11, R11),
             Emit(XFixed("syscall", 8, <<rax, rcx, r11>> \o [k \in 1..n |-> Tmp(i, arg[k])], XNone)),
             HintSameReg(Ir(i.r), rax), Mov(8, Ir(i.r), XR(rax))>>

Ret(regs) == <<Emit(XFixed("ret", 8, regs, XNone))>>

\* The address the caller passed for the result is in the first stack slot.
RetSlot == XM(FP, NoLreg, 0, -8)
ReturnLargeObj(i, m) ==
    LET rdi == Tmp(i, "di")   rsi == Tmp(i, "si")   rcx == Tmp(i, "cx")   ax == Tmp(i, "ax")
    IN  <<DefPhysReg(rdi, RDI), Mov(8, rdi, RetSlot)>> \o Lea(rsi, RSI, m)
        \o <<DefPhysReg(rcx, RCX), Mov(8, rcx, XI(Small(i.type.size))),
             Emit(XFixed("rep_movsb", 1, <<rdi, rsi, rcx>>, XNone)),
             DefPhysReg(ax, RAX), Mov(8, ax, XR(rdi))>>
        \o Ret(<<ax>>)
ReturnSmallObj(i, m) ==
    LET regs == RetRegs(Class(i.type))
        ax == Tmp(i, "ax")   dx == Tmp(i, "dx")
        low == <<DefPhysReg(ax, regs[1]), Mov(8, ax, m)>>
    IN  IF i.type.size <= 8 THEN low \o Ret(<<ax>>)
        ELSE low \o <<DefPhysReg(dx, regs[2]),
                      Mov(8, dx, [m EXCEPT !.disp = @ + 8])>>
             \o Ret(<<ax, dx>>)
ReturnPrim(i) ==
    LET ax == Tmp(i, "ax")
        preg == RetRegs(Class(i.type))[1]
    IN  <<DefPhysReg(ax, preg), Mov(i.type.size, ax, XR(Ir(i.a.r))),
          HintPhysReg(Ir(i.a.r), preg)>> \o Ret(<<ax>>)
ConvertRet(i) ==
    CASE i.type.cls = "void" -> Ret(<<>>)
      [] IsLarge(i.type) -> GetAddr(i.a.a, {RDI}).q \o ReturnLargeObj(i, GetAddr(i.a.a, {RDI}).m)
      [] IsObj(i.type) /\ ~IsLarge(i.type) ->
           GetAddr(i.a.a, {RDI}).q \o ReturnSmallObj(i, GetAddr(i.a.a, {RDI}).m)
      [] OTHER -> ReturnPrim(i)

\* args[k] is [type, val].  The address of an object is to keep off RDI.
PlaceArg(arg, slot) ==
    CASE IsObj(arg.type) -> GetAddr(arg.val.a, {RDI})
      [] ~IsObj(arg.type) /\ slot.regs = <<>> ->
           [q |-> <<ForceStackArgReg(Ir(arg.val.r))>>, m |-> XR(Ir(arg.val.r))]
      [] OTHER -> [q |-> <<ForceArgReg(Ir(arg.val.r), slot.regs[1])>>, m |-> XR(Ir(arg.val.r))]

\* The address of the result is to keep off the registers of results.
Result(i) ==
    CASE i.type.cls = "void" -> [q |-> <<>>, m |-> XNone]
      [] IsObj(i.type) -> GetAddr(i.b.a, {RAX, RDX})
      [] OTHER -> [q |-> <<>>, m |-> XR(Ir(i.r))]

\* i.a is a procedure, or the register of a procedure's address; i.b is where
\* an object goes.
ConvertCall(i) ==
    LET slots == ConvertCallArgs(i.type, [k \in 1..Len(i.args) |-> i.args[k].type]).slots
        args  == [k \in 1..Len(i.args) |-> PlaceArg(i.args[k], slots[k])]
        dst   == Result(i)
        instr == [X(i.op, i.type.size, dst.m, XNone) EXCEPT
                    !.regs = IF i.op = "call_r" THEN <<Ir(i.a.r)>> ELSE <<>>,
                    !.info = [k \in 1..Len(args) |-> <<slots[k], args[k].m, i.args[k].type.size>>]]
    IN  FlattenSeq([k \in 1..Len(args) |-> args[k].q]) \o dst.q \o <<Emit(instr)>>

Convert(i, next) ==
    CASE i.op \in {"add", "sub", "and", "or", "xor"} -> ConvertIntBinary(i)
      [] i.op = "mul"    -> ConvertMul(i)
      [] i.op = "divide" -> ConvertDiv(i)
      [] i.op = "mod"    -> ConvertMod(i)
      [] i.op = "divmod" -> ConvertDivMod(i)
      [] i.op \in {"fadd", "fsub", "fmul", "fdiv"} -> ConvertFltBinary(i)
      [] i.op \in {"sar", "shl"} -> ConvertShift(i)
      [] i.op \in {"neg", "not"} -> ConvertUnary(i)
      [] i.op = "trunc"  -> ConvertTrunc(i)
      [] i.op \in {"zext", "sext"} -> ConvertExt(i)
      [] i.op \in {"flt2flt", "flt2int"} -> ConvertFlt(i)
      [] i.op = "int2flt" -> ConvertInt2Flt(i)
      [] i.op = "limm"   -> ConvertLImm(i)
      [] i.op = "load"   -> ConvertLoad(i)
      [] i.op = "laddr"  -> ConvertLAddr(i)
      [] i.op = "store"  -> ConvertStore(i)
      [] i.op = "cmp"    -> ConvertIntCmp(i, next)
      [] i.op = "fcmp"   -> ConvertFltCmp(i, next)
      [] i.op = "jmp"    -> ConvertJmp(i)
      [] i.op = "condjmp" -> ConvertCondJmp(i)
      [] i.op = "phi"    -> ConvertPhi(i)
      [] i.op = "memcpy" -> ConvertMemcpy(i)
      [] i.op = "memset" -> ConvertMemset(i)
      [] i.op = "syscall" -> ConvertSyscall(i)
      [] i.op = "ret"    -> ConvertRet(i)
      [] i.op \in {"call", "call_r"} -> ConvertCall(i)
=============================================================================

------------------------------ MODULE IrToXir ------------------------------
(***************************************************************************)
(* A procedure on its way to the register allocator: XIR_emit_instrs        *)
(* converts its blocks, each converter calling the XIR builder;             *)
(* livevar.c then computes one live interval for each lreg, in one pass     *)
(* over the instructions in layout order.                                   *)
(*                                                                         *)
(* In its last phase the procedure runs twice, side by side: as IR, and as  *)
(* XIR under the worst register allocation the intervals allow, where a     *)
(* write to an lreg destroys every lreg whose interval does not overlap its *)
(* interval.                                                               *)
(***************************************************************************)
EXTENDS XirConvert

CONSTANTS Programs,      \* each a sequence of blocks, which are sequences of IR instructions
          MaxSteps       \* how many instructions of a run are followed

VARIABLES prog,
          phase,         \* "convert", "live", "run", "abort"
          pos,           \* the next IR instruction: <<block, index>>
          todo,          \* what is left of the converter's calls on the builder
          ranges,        \* the constraints on lregs: [kind, x]
          aliases,       \* the parent of an lreg that was aliased
          sizes,         \* the sizes of alias classes of more than one lreg
          code,          \* the XIR instructions, each with the IR instruction it comes from
          callSites,
          live,          \* the interval of each lreg that was touched: [start, end]
          run

vars == <<prog, phase, pos, todo, ranges, aliases, sizes, code, callSites, live, run>>

\* A machine: mem counts the writes to memory so far, ev is what the last
\* instruction did that can be seen.
Machine == [reg |-> [l \in {} |-> 0], mem |-> 0, flags |-> <<>>, ev |-> <<>>]
Over == <<0, 0>>
Idle == [at |-> Over, from |-> 0, steps |-> 0, ir |-> Machine, x |-> Machine]

Init ==
    /\ prog \in Programs
    /\ phase = "convert"
    /\ pos = <<1, 1>>
    /\ todo = <<>>
    /\ ranges = [l \in {FP} |-> [kind |-> "reg", x |-> RBP]]
    /\ aliases = [l \in {} |-> FP]
    /\ sizes = [l \in {} |-> 1]
    /\ code = <<>>
    /\ callSites = <<>>
    /\ live = [l \in {} |-> [start |-> 0, end |-> 0]]
    /\ run = Idle

---------------------------------------------------------------------------
(* The builder *)

NoControl == [kind |-> "none", x |-> NoLreg]
RangeOf(l) == IF l \in DOMAIN ranges THEN ranges[l] ELSE NoControl
SizeOf(l)  == IF l \in DOMAIN sizes THEN sizes[l] ELSE 1
Set(f, l, v) == [m \in DOMAIN f \cup {l} |-> IF m = l THEN v ELSE f[m]]

RECURSIVE FindAlias(_)
FindAlias(l) == IF l \in DOMAIN aliases THEN FindAlias(aliases[l]) ELSE l

Forced == {"reg", "any", "arg"}

AtEnd(p)  == p[2] = Len(prog[p[1]])
Next1(p) == IF AtEnd(p) THEN <<p[1] + 1, 1>> ELSE <<p[1], p[2] + 1>>
InstrAt(p) == [id |-> p] @@ prog[p[1]][p[2]]
NextInstr(p) == IF AtEnd(p) THEN IR("none", Void, NoIReg, NoOp, NoOp) ELSE InstrAt(<<p[1], p[2] + 1>>)
\* A comparison takes the conditional jump after it along.
After(p) == IF Combines(InstrAt(p), NextInstr(p)) THEN Next1(Next1(p)) ELSE Next1(p)

ConvertInstr ==
    /\ phase = "convert" /\ todo = <<>> /\ pos[1] <= Len(prog)
    /\ todo' = Convert(InstrAt(pos), NextInstr(pos)) \o <<Request("done", NoLreg, After(pos))>>
    /\ UNCHANGED <<prog, phase, pos, ranges, aliases, sizes, code, callSites, live, run>>

Asked(q) == phase = "convert" /\ todo # <<>> /\ Head(todo).q = q

InstrDone ==
    /\ Asked("done")
    /\ pos' = Head(todo).x
    /\ todo' = Tail(todo)
    /\ UNCHANGED <<prog, phase, ranges, aliases, sizes, code, callSites, live, run>>

EmitInstr ==
    /\ Asked("emit")
    /\ code' = Append(code, [at |-> pos] @@ Head(todo).x)
    /\ callSites' = IF Head(todo).x.op \in {"call", "call_r"}
                    THEN Append(callSites, Len(code)) ELSE callSites
    /\ todo' = Tail(todo)
    /\ UNCHANGED <<prog, phase, pos, ranges, aliases, sizes, live, run>>

\* A new constraint on the range of the first lreg, if ok; else an assertion fails.
Constrain(l, ok, kind, x) ==
    /\ phase' = IF ok THEN phase ELSE "abort"
    /\ ranges' = IF ok THEN Set(ranges, l, [kind |-> kind, x |-> x]) ELSE ranges
    /\ todo' = Tail(todo)
    /\ UNCHANGED <<prog, pos, aliases, sizes, code, callSites, live, run>>

XIR_def_phys_reg == Asked("phys") /\ Constrain(Head(todo).l, TRUE, "reg", Head(todo).x)

\* XIR_force_arg_reg and XIR_force_stack_arg_reg
XIR_force_arg_reg ==
    /\ Asked("arg")
    /\ LET l == FindAlias(Head(todo).l)
       IN  Constrain(l, RangeOf(l).kind \notin Forced, "arg", Head(todo).x)

ScratchMask == (0..15) \ {RSP, RBP}
XIR_force_any_reg ==
    /\ Asked("any")
    /\ LET l == FindAlias(Head(todo).l)
           mask == IF RangeOf(l).kind = "any" THEN RangeOf(l).x ELSE ScratchMask
       IN  Constrain(l, RangeOf(l).kind \notin {"reg", "arg"}, "any", mask \ Head(todo).x)

XIR_hint_same_reg ==
    /\ Asked("same")
    /\ LET l == FindAlias(Head(todo).l)
           r == RangeOf(l)
       IN  IF r.kind = "none" THEN Constrain(l, TRUE, "same", FindAlias(Head(todo).x))
           ELSE Constrain(l, TRUE, r.kind, r.x)

\* Where the chain of hints from l ends.
RECURSIVE EndOfHints(_)
EndOfHints(l) == IF RangeOf(l).kind = "same" THEN EndOfHints(RangeOf(l).x) ELSE l
XIR_hint_phys_reg ==
    /\ Asked("hint")
    /\ LET l == FindAlias(Head(todo).l)
           m == IF Head(todo).x \in CallerSaved THEN l ELSE EndOfHints(l)
           r == RangeOf(m)
       IN  IF r.kind = "none" THEN Constrain(m, TRUE, "hint", Head(todo).x)
           ELSE Constrain(m, TRUE, r.kind, r.x)

Check ==
    /\ Asked("assert")
    /\ phase' = IF Head(todo).x THEN phase ELSE "abort"
    /\ todo' = Tail(todo)
    /\ UNCHANGED <<prog, pos, ranges, aliases, sizes, code, callSites, live, run>>

\* The class of the arguments of a phi: the smaller tree goes below the
\* larger, and the range of its root is merged into the other's.
\* Mutant of MayMerge: a hint forbids the merge.
MayMerge_Free(to, from) == from.kind = "none"
MayMerge(to, from) == from.kind = "none" \/ to.kind \notin Forced
XIR_alias_regs ==
    /\ Asked("alias")
    /\ LET u == FindAlias(Head(todo).l)
           v == FindAlias(Head(todo).x)
           child == IF SizeOf(u) > SizeOf(v) THEN v ELSE u
           root  == IF child = u THEN v ELSE u
           merge == MayMerge(RangeOf(root), RangeOf(child))
       IN  IF u = v THEN UNCHANGED <<phase, ranges, aliases, sizes>>
           ELSE /\ phase' = IF merge THEN phase ELSE "abort"
                /\ aliases' = Set(aliases, child, root)
                /\ sizes' = Set(sizes, root, SizeOf(u) + SizeOf(v))
                /\ ranges' = IF RangeOf(child).kind = "none" THEN ranges
                             ELSE Set(ranges, root, RangeOf(child))
    /\ todo' = Tail(todo)
    /\ UNCHANGED <<prog, pos, code, callSites, live, run>>

Converted ==
    /\ phase = "convert" /\ todo = <<>> /\ pos[1] > Len(prog)
    /\ phase' = "live"
    /\ pos' = <<1, 1>>
    /\ UNCHANGED <<prog, todo, ranges, aliases, sizes, code, callSites, live, run>>

Build == \/ ConvertInstr \/ InstrDone \/ EmitInstr \/ Check \/ Converted
         \/ XIR_def_phys_reg \/ XIR_force_arg_reg \/ XIR_force_any_reg
         \/ XIR_hint_same_reg \/ XIR_hint_phys_reg \/ XIR_alias_regs

---------------------------------------------------------------------------
(* Live intervals.  In this phase pos[1] counts XIR instructions, whose     *)
(* number in the source (ino) is one less.                                 *)

\* Mutant of LregsOf: the index of an address is not touched.
LregsOf_NoIndex(m) ==
    CASE m.k = "r" -> {m.l} [] m.k = "m" /\ m.base # NoLreg -> {m.base} [] OTHER -> {}
LregsOf(m) ==
    CASE m.k = "r" -> {m.l}
      [] m.k = "m" -> {l \in {m.base} \cup (IF m.scale # 0 THEN {m.index} ELSE {}) : l # NoLreg}
      [] OTHER     -> {}

OperandLregs(i) == LregsOf(i.dst) \cup LregsOf(i.src)
CallLregs(i)    == LregsOf(i.dst) \cup UNION {LregsOf(i.info[k][2]) : k \in DOMAIN i.info}
TouchedBy(i) ==
    ToSet(i.regs) \cup (IF i.op \in {"call", "call_r"} THEN CallLregs(i) ELSE OperandLregs(i))

XIR_touch_lreg(ls, ino) ==
    LET roots == {FindAlias(l) : l \in ls}
        ok == \A l \in roots \cap DOMAIN live : live[l].end <= ino
    IN  /\ phase' = IF ok THEN phase ELSE "abort"
        /\ live' = [l \in DOMAIN live \cup roots |->
                      CASE l \notin roots -> live[l]
                        [] l \in roots \cap DOMAIN live -> [live[l] EXCEPT !.end = ino]
                        [] OTHER -> [start |-> ino, end |-> ino]]

TouchInstr ==
    /\ phase = "live" /\ pos[1] <= Len(code)
    /\ XIR_touch_lreg(TouchedBy(code[pos[1]]), pos[1] - 1)
    /\ pos' = <<pos[1] + 1, 1>>
    /\ UNCHANGED <<prog, todo, ranges, aliases, sizes, code, callSites, run>>

\* The frame pointer lives to the last instruction of the last block.
TouchFramePointer ==
    LET last == {k \in 1..Len(code) : code[k].at[1] = Len(prog)}
        ino  == IF last = {} THEN 0 ELSE Len(code) - 1
        old  == IF FP \in DOMAIN live THEN live[FP] ELSE [start |-> ino, end |-> ino]
    IN  /\ phase = "live" /\ pos[1] = Len(code) + 1
        /\ phase' = IF old.end <= ino THEN "run" ELSE "abort"
        /\ live' = Set(live, FP, [old EXCEPT !.end = ino])
        /\ pos' = <<1, 1>>
        /\ run' = [at |-> <<1, 1>>, from |-> 0, steps |-> 0, ir |-> Machine, x |-> Machine]
        /\ UNCHANGED <<prog, todo, ranges, aliases, sizes, code, callSites>>

---------------------------------------------------------------------------
(* Values.  A value is [t, n]: a term and how many bytes of it are there.   *)

Value(t, n) == [t |-> t, n |-> n]

\* An address is a sum of terms with coefficients, and a number.
Sum(f, d) ==
    LET g == [x \in {y \in DOMAIN f : f[y] # 0} |-> f[x]]
    IN  CASE DOMAIN g = {} -> <<"imm", "s31", d>>
          [] d = 0 /\ \E x \in DOMAIN g : DOMAIN g = {x} /\ g[x] = 1 -> CHOOSE x \in DOMAIN g : TRUE
          [] OTHER -> <<"sum", g, d>>
Coefs(t) == CASE t[1] = "sum" -> t[2]
              [] t[1] = "imm" /\ t[2] = "s31" -> [x \in {} |-> 0]
              [] OTHER -> [x \in {t} |-> 1]
Rest(t)  == IF t[1] = "sum" \/ (t[1] = "imm" /\ t[2] = "s31") THEN t[3] ELSE 0
Coef(t, x) == IF x \in DOMAIN Coefs(t) THEN Coefs(t)[x] ELSE 0
Plus(a, b) ==
    Sum([x \in DOMAIN Coefs(a) \cup DOMAIN Coefs(b) |-> Coef(a, x) + Coef(b, x)], Rest(a) + Rest(b))
Times(a, n) == Sum([x \in DOMAIN Coefs(a) |-> n * Coefs(a)[x]], n * Rest(a))

ImmTerm(c) == <<"imm", c[1], c[2]>>
Zero == ImmTerm(Small(0))
IsSmall(t) == t[1] = "imm" /\ t[2] = "s31"

Low(n, t) ==
    CASE t[1] = "imm" /\ n >= 4 /\ t[2] # "u64" -> t
      [] t[1] \in {"low", "wide"} -> <<"low", n, t[3]>>
      [] OTHER -> <<"low", n, t>>
Bytes(v, n) ==
    CASE v.n = n -> v.t
      [] v.n > n -> Low(n, v.t)
      [] v.n < n -> <<"wide", n, v.t>>

Apply2(op, size, a, b) ==
    CASE op = "add" /\ size = 8 -> Plus(a, b)
      [] op = "mul" /\ size = 8 /\ IsSmall(b) -> Times(a, b[3])
      [] op = "xor" /\ a = b -> <<"imm", "s31", 0>>
      [] OTHER -> <<"op", op, size, a, b>>

---------------------------------------------------------------------------
(* The procedure as IR.  What an instruction does that can be seen: memory   *)
(* it writes, procedures it calls, where it goes.                          *)

Local(d) == Plus(<<"rbp">>, <<"imm", "s31", d>>)

RECURSIVE AddressOf(_, _)
AddressOf(s, a) ==
    LET index == IF a.scale # 0 /\ a.index # NoIReg THEN Times(s.reg[a.index].t, a.scale)
                 ELSE Zero
        base == CASE a.base[1] \in {"lit", "global"} -> a.base
                  [] a.base[1] = "alias" -> AddressOf(s, MemAddr(a.base[2], NoIReg, 0, 0))
                  [] a.base[1] = "local" -> Local(a.base[2])
                  [] a.base[1] = "reg"   -> s.reg[a.base[2]].t
                  [] a.base[1] = "none"  -> Zero
                  [] a.base[1] = "at"    -> AddressOf(s, a.base[2])
    IN  Plus(base, Plus(index, <<"imm", "s31", a.disp>>))

LoadTerm(s, a, n) == <<"load", a, n, s.mem>>
Operand(s, x, n) ==
    CASE x.k = "i" -> ImmTerm(x.c)
      [] x.k = "r" -> Bytes(s.reg[x.r], n)
      [] x.k = "a" -> LoadTerm(s, AddressOf(s, x.a), n)

SetIr(s, r, t, n) == [s EXCEPT !.reg = Set(@, r, Value(t, n))]
Writes(s, ev)     == [s EXCEPT !.ev = Append(@, ev), !.mem = @ + 1]
Does(s, ev)       == [s EXCEPT !.ev = Append(@, ev)]

Conversion(op, to, from, a) == <<"cvt", op, to, from, a>>
\* A Boolean is not 0 when it is true.
CmpTerm(cond, c) ==
    IF cond = "!=" /\ c[1] = "cmp" /\ c[2] = 1 /\ c[4] = Zero THEN c[3] ELSE <<"cond", cond, c>>
\* What is less than 4 bytes is extended before it becomes a number of floating point.
IntToFlt(to, from, a) ==
    IF from.size >= 4 THEN Conversion(IF from.signed THEN "int2flt" ELSE "uint2flt", to, from.size, a)
    ELSE Conversion("int2flt", to, 4, Conversion(IF from.signed THEN "sext" ELSE "zext", 4, from.size, a))

\* Small objects are returned in two registers; how many bytes of them count
\* is for the caller to know.
RetIr(s, i) ==
    LET a == AddressOf(s, i.a.a)
    IN  CASE i.type.cls = "void" -> Does(s, <<"ret">>)
          [] IsLarge(i.type) ->
               Does(Writes(s, <<"memcpy", LoadTerm(s, Local(-8), 8), a, <<"imm", "s31", i.type.size>>>>),
                    <<"ret">>)
          [] IsObj(i.type) /\ i.type.size <= 8 -> Does(s, <<"ret", LoadTerm(s, a, 8)>>)
          [] IsObj(i.type) /\ i.type.size > 8 /\ ~IsLarge(i.type) ->
               Does(s, <<"ret", LoadTerm(s, a, 8), LoadTerm(s, Plus(a, <<"imm", "s31", 8>>), 8)>>)
          [] OTHER -> Does(s, <<"ret", Bytes(s.reg[i.a.r], i.type.size)>>)

CallIr(s, i) ==
    LET arg(k) == IF IsObj(i.args[k].type) THEN AddressOf(s, i.args[k].val.a)
                  ELSE Bytes(s.reg[i.args[k].val.r], i.args[k].type.size)
        proc == IF i.op = "call_r" THEN <<Bytes(s.reg[i.a.r], 8)>> ELSE <<>>
        dst  == IF IsObj(i.type) THEN <<AddressOf(s, i.b.a)>> ELSE <<>>
        s1   == Writes(s, <<"call", proc, dst, [k \in 1..Len(i.args) |-> arg(k)]>>)
    IN  IF IsObj(i.type) \/ i.type.cls = "void" THEN s1
        ELSE SetIr(s1, i.r, <<"result", s.mem>>, i.type.size)

\* from is the block the run came from.
StepIr(s0, i, from) ==
    LET s == [s0 EXCEPT !.ev = <<>>]
        n == i.type.size
        a == Operand(s, i.a, n)
        b == Operand(s, i.b, n)
    IN  CASE i.op \in {"add", "sub", "mul", "and", "or", "xor", "fadd", "fsub", "fmul", "fdiv"} ->
               SetIr(s, i.r, Apply2(i.op, n, a, b), n)
          [] i.op \in {"divide", "mod"} -> SetIr(s, i.r, <<i.op, i.type.signed, n, a, b>>, n)
          [] i.op = "divmod" ->
               SetIr(SetIr(s, i.r, <<"divide", i.type.signed, n, a, b>>, n),
                     i.r2, <<"mod", i.type.signed, n, a, b>>, n)
          [] i.op \in {"sar", "shl"} -> SetIr(s, i.r, <<"op", i.op, n, a, Low(1, b)>>, n)
          [] i.op \in {"neg", "not"} -> SetIr(s, i.r, <<"op1", i.op, n, a>>, n)
          [] i.op = "trunc" -> SetIr(s, i.r, a, n)
          [] i.op = "int2flt" -> SetIr(s, i.r, IntToFlt(n, i.from, Operand(s, i.a, i.from.size)), n)
          [] i.op = "flt2int" ->
               SetIr(s, i.r, Conversion(IF n < 4 \/ i.type.signed THEN "flt2int" ELSE "flt2uint",
                                        n, i.from.size, Operand(s, i.a, i.from.size)), n)
          [] i.op \in {"zext", "sext", "flt2flt"} ->
               SetIr(s, i.r, Conversion(i.op, n, i.from.size, Operand(s, i.a, i.from.size)), n)
          [] i.op \in {"limm", "load"} -> SetIr(s, i.r, a, n)
          [] i.op = "laddr" -> SetIr(s, i.r, AddressOf(s, i.a.a), 8)
          [] i.op = "store" -> Writes(s, <<"store", AddressOf(s, i.a.a), n, b>>)
          [] i.op = "cmp"   -> SetIr(s, i.r, CmpTerm(i.cond, <<i.op, n, a, b>>), 1)
          [] i.op = "fcmp"  -> SetIr(s, i.r, CmpTerm(FltCond(i.cond), <<i.op, n, a, b>>), 1)
          [] i.op = "jmp"   -> Does(s, <<"jmp", i.to>>)
          [] i.op = "condjmp" -> Does(s, <<"branch", Operand(s, i.a, 1), i.to>>)
          [] i.op = "phi" ->
               LET arg == CHOOSE k \in 1..Len(i.args) : i.args[k].block = from
               IN  SetIr(s, i.r, Bytes(s.reg[i.args[arg].r], n), n)
          [] i.op = "memcpy" ->
               Writes(s, <<"memcpy", AddressOf(s, i.a.a), AddressOf(s, i.b.a), Operand(s, i.args[1], 8)>>)
          [] i.op = "memset" ->
               Writes(s, <<"memset", AddressOf(s, i.a.a), Operand(s, i.b, 1), Operand(s, i.args[1], 8)>>)
          [] i.op = "syscall" ->
               SetIr(Writes(s, <<"syscall", [k \in 1..Len(i.args) |-> Operand(s, i.args[k], 8)]>>),
                     i.r, <<"result", s.mem>>, 8)
          [] i.op = "ret" -> RetIr(s, i)
          [] i.op \in {"call", "call_r"} -> CallIr(s, i)

---------------------------------------------------------------------------
(* The procedure as XIR *)

LiveOf(l)   == IF l \in DOMAIN live THEN live[l] ELSE [start |-> 0, end |-> 0]
Apart(l, m) == LiveOf(l).end <= LiveOf(m).start \/ LiveOf(m).end <= LiveOf(l).start
Held(s, l) ==
    LET r == FindAlias(l)
    IN  CASE r = FP -> Value(<<"rbp">>, 8)
          [] r # FP /\ r \in DOMAIN s.reg -> s.reg[r]
          [] OTHER -> Value(<<"wild", r>>, 8)
XRead(s, l, n) == Bytes(Held(s, l), n)
XWrite(s, l, t, n) ==
    LET r == FindAlias(l)
        kept == {m \in DOMAIN s.reg : ~Apart(m, r)} \cup {r}
    IN  [s EXCEPT !.reg = [m \in kept |-> IF m = r THEN Value(t, n) ELSE s.reg[m]]]

XAddress(s, m) ==
    LET part(l) == IF l = NoLreg THEN Zero ELSE XRead(s, l, 8)
    IN  IF m.k = "n" THEN m.name
        ELSE Plus(part(m.base), Plus(Times(part(m.index), m.scale), <<"imm", "s31", m.disp>>))

\* Except in a move to a register, an 8-byte instruction extends the sign of a
\* 4-byte immediate.
XImm(c, extends) == IF extends /\ c[1] = "u32" THEN <<"sext", ImmTerm(c)>> ELSE ImmTerm(c)
XOperand(s, m, n, extends) ==
    CASE m.k = "i" -> XImm(m.c, extends)
      [] m.k = "r" -> XRead(s, m.l, n)
      [] m.k \in {"m", "n"} -> LoadTerm(s, XAddress(s, m), n)

\* A 4-byte move of an immediate clears the rest of the register.
XMov(s, i) ==
    IF i.dst.k = "r"
    THEN XWrite(s, i.dst.l, XOperand(s, i.src, i.size, FALSE),
                IF i.src.k = "i" /\ i.size = 4 THEN 8 ELSE i.size)
    ELSE Writes(s, <<"store", XAddress(s, i.dst), i.size, XOperand(s, i.src, i.size, i.size = 8)>>)

\* regs are RDX and RAX.  What is divided is in both.
XDivide(s, i) ==
    LET a == XRead(s, i.regs[2], i.size)
        b == XOperand(s, i.src, i.size, FALSE)
        signed == i.op = "idiv"
        ok == XRead(s, i.regs[1], i.size) = IF signed THEN <<"sext_ax", i.size, a>> ELSE Zero
        result(what) == IF ok THEN <<what, signed, i.size, a, b>> ELSE <<"wild", i.regs[1]>>
    IN  XWrite(XWrite(s, i.regs[2], result("divide"), i.size), i.regs[1], result("mod"), i.size)

\* regs are RDI, RSI or RAX, and RCX.
XRepeat(s, i, ev) ==
    LET n == XRead(s, i.regs[3], 8)
        after(k) == Plus(XRead(s, i.regs[k], 8), n)
        s1 == XWrite(Writes(s, ev), i.regs[1], after(1), 8)
        s2 == IF i.op = "rep_stosb" THEN s1 ELSE XWrite(s1, i.regs[2], after(2), 8)
    IN  XWrite(s2, i.regs[3], Zero, 8)

\* regs are RAX, RCX, R11 and the arguments.
XSyscall(s, i) ==
    LET arg(k) == XRead(s, i.regs[IF k = 1 THEN 1 ELSE k + 2], 8)
        s1 == Writes(s, <<"syscall", [k \in 1..(Len(i.regs) - 2) |-> arg(k)]>>)
        s2 == XWrite(XWrite(s1, i.regs[2], <<"wild", i.regs[2]>>, 8), i.regs[3], <<"wild", i.regs[3]>>, 8)
    IN  XWrite(s2, i.regs[1], <<"result", s.mem>>, 8)

XCall(s, i) ==
    LET arg(k) == IF i.info[k][2].k = "r" THEN XRead(s, i.info[k][2].l, i.info[k][3])
                  ELSE XAddress(s, i.info[k][2])
        proc == [k \in 1..Len(i.regs) |-> XRead(s, i.regs[k], 8)]
        dst  == IF i.dst.k \in {"m", "n"} THEN <<XAddress(s, i.dst)>> ELSE <<>>
        s1   == Writes(s, <<"call", proc, dst, [k \in 1..Len(i.info) |-> arg(k)]>>)
    IN  IF i.dst.k = "r" THEN XWrite(s1, i.dst.l, <<"result", s.mem>>, i.size) ELSE s1

\* A large object has been returned in memory by now.
XRet(s, i) ==
    Does(s, <<"ret">> \o (IF s.ev = <<>> THEN [k \in 1..Len(i.regs) |-> Held(s, i.regs[k]).t] ELSE <<>>))

StepX(s, i) ==
    LET n == i.size
        src == XOperand(s, i.src, n, n = 8)
        dst == XOperand(s, i.dst, n, FALSE)
    IN  CASE i.op = "mov" -> XMov(s, i)
          [] i.op = "lea" -> XWrite(s, i.dst.l, XAddress(s, i.src), 8)
          [] i.op \in {"add", "sub", "mul", "and", "or", "xor", "fadd", "fsub", "fmul", "fdiv"} ->
               XWrite(s, i.dst.l, Apply2(i.op, n, dst, src), n)
          [] i.op = "mul_ax" ->
               XWrite(XWrite(s, i.regs[1], <<"wild", i.regs[1]>>, n), i.regs[2],
                      Apply2("mul", n, XRead(s, i.regs[2], n), src), n)
          [] i.op \in {"div", "idiv"} -> XDivide(s, i)
          [] i.op = "sext_ax" -> XWrite(s, i.dst.l, <<"sext_ax", n, src>>, n)
          [] i.op \in {"sar", "shl"} -> XWrite(s, i.dst.l, <<"op", i.op, n, dst, Low(1, src)>>, n)
          [] i.op \in {"neg", "not"} -> XWrite(s, i.dst.l, <<"op1", i.op, n, dst>>, n)
          [] i.op \in {"zext", "sext", "flt2flt", "flt2int", "int2flt"} ->
               XWrite(s, i.dst.l, Conversion(i.op, n, i.ssize, XOperand(s, i.src, i.ssize, FALSE)), n)
          [] i.op \in {"cmp", "fcmp"} -> [s EXCEPT !.flags = <<i.op, n, dst, src>>]
          [] i.op = "setcc" -> XWrite(s, i.dst.l, CmpTerm(i.info[1], s.flags), 1)
          [] i.op = "jmpcc" -> Does(s, <<"branch", CmpTerm(i.info[1], s.flags), i.info[2]>>)
          [] i.op = "jmp"   -> Does(s, <<"jmp", i.info[1]>>)
          [] i.op = "rep_movsb" ->
               XRepeat(s, i, <<"memcpy", XRead(s, i.regs[1], 8), XRead(s, i.regs[2], 8),
                               XRead(s, i.regs[3], 8)>>)
          [] i.op = "rep_stosb" ->
               XRepeat(s, i, <<"memset", XRead(s, i.regs[1], 8), XRead(s, i.regs[2], 1),
                               XRead(s, i.regs[3], 8)>>)
          [] i.op = "syscall" -> XSyscall(s, i)
          [] i.op \in {"call", "call_r"} -> XCall(s, i)
          [] i.op = "ret" -> XRet(s, i)

---------------------------------------------------------------------------
(* The two runs, side by side.  A branch may go either way. *)

StepsIr(s, p) ==
    IF Combines(InstrAt(p), NextInstr(p))
    THEN StepIr(StepIr(s, InstrAt(p), 0), NextInstr(p), 0)
    ELSE StepIr(s, InstrAt(p), run.from)
StepsX(s, p) ==
    FoldLeft(StepX, [s EXCEPT !.ev = <<>>], SelectSeq(code, LAMBDA i : i.at = p))

Targets(ev, next) ==
    IF ev = <<>> THEN {next}
    ELSE LET e == ev[Len(ev)]
         IN  CASE e[1] = "jmp" -> {<<e[2][1], 1>>}
               [] e[1] = "branch" -> {<<e[3][1], 1>>, <<e[3][2], 1>>}
               [] e[1] = "ret" -> {Over}
               [] OTHER -> {next}

Running == phase = "run" /\ run.at # Over /\ run.steps < MaxSteps
RunInstr ==
    /\ Running
    /\ \E ir \in {StepsIr(run.ir, run.at)}, x \in {StepsX(run.x, run.at)} :
         \E to \in Targets(ir.ev, After(run.at)) :
            run' = [at |-> to, from |-> IF to[2] = 1 THEN run.at[1] ELSE run.from,
                    steps |-> run.steps + 1, ir |-> ir, x |-> x]
    /\ UNCHANGED <<prog, phase, pos, todo, ranges, aliases, sizes, code, callSites, live>>

Finished ==
    /\ phase = "abort" \/ (phase = "run" /\ ~Running)
    /\ UNCHANGED vars

Next == Build \/ TouchInstr \/ TouchFramePointer \/ RunInstr \/ Finished

Spec == Init /\ [][Next]_vars

---------------------------------------------------------------------------
(* Properties *)

\* Whatever the procedure does to memory, whatever it passes to another, wherever
\* it goes, it does as XIR what it does as IR: although the converters choose
\* fixed registers, alias the arguments of a phi, change an index in place,
\* and although livevar.c makes one pass over the layout, no value is lost
\* to another that may be given its register.
SameEffects == phase = "run" => run.ir.ev = run.x.ev

\* Two lregs that are forced into the same register are never live together
\* and do not start together (the register allocator would find the register
\* of the second taken).
ForcedApart ==
    phase = "run" =>
      \A l, m \in {x \in DOMAIN live : RangeOf(x).kind = "reg"} :
        (l # m /\ RangeOf(l).x = RangeOf(m).x)
          => Apart(l, m) /\ LiveOf(l).start # LiveOf(m).start

\* No assertion of the builder fails (an lreg asked for two registers, an
\* interval that ends before it starts), and an lreg that may be in any
\* register but a few has a register left to be in.
NeverAsserts ==
    /\ phase # "abort"
    /\ \A l \in DOMAIN ranges : ranges[l].kind = "any" => ranges[l].x # {}
=============================================================================

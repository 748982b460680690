----------------------------- MODULE ControlFlow -----------------------------
(***************************************************************************)
(* The control-flow half of the IR generator (src/bytecode/procs.c): how a *)
(* procedure body becomes basic blocks, how short-circuit conditions are   *)
(* kept as deferred comparisons and their jumps patched later, how blocks  *)
(* that only jump are removed, how the rest is laid out, and what the      *)
(* result does when it runs.                                               *)
(*                                                                         *)
(* The generator's recursion over the syntax tree is an explicit stack of  *)
(* work: a statement or a condition, when its turn comes, puts its parts   *)
(* and what the C function does after them on the stack.  The removal pass *)
(* is one action per block, the run one per IR instruction.  Beside the    *)
(* run goes the source program it should be (SourceProgram): every         *)
(* observable instruction advances it.                                     *)
(***************************************************************************)
EXTENDS Integers, Sequences, SequencesExt, SourceProgram

CONSTANT Programs   (* the procedure bodies to compile *)

VARIABLES
  phase,   (* emit, prune, run, exit or lost                               *)
  b,       (* the procedure builder: blocks, registers, deferred jumps     *)
  work,    (* the call stack: what is still to be emitted                  *)
  at,      (* the current block; 0 after a jump away                       *)
  ers,     (* expression results, the latest first                         *)
  loops,   (* break and continue jumps to patch, innermost loop first      *)
  bblocks, (* as_proc.bblocks: the blocks, in layout order after the sort  *)
  i,       (* index of the removal pass                                    *)
  pc,      (* the running block and the instruction in it                  *)
  vals,    (* the value in each register class                             *)
  src      (* what the source program has left to do                       *)

emitter == <<work, at, ers, loops>>
machine == <<pc, vals, src>>
vars == <<phase, b, emitter, bblocks, i, machine>>

-----------------------------------------------------------------------------
(* Blocks and instructions.  0 is the NULL block; a jump is known by the
   block it ends.  A register that a comparison defines has the tested leaf
   or register and the value it is compared for; `root' is the alias class
   that phi instructions put it in.  `bad' says that an assert failed or a
   NULL block was used. *)
Block0 == [code |-> <<>>, first |-> 0, preds |-> <<>>]

Builder0 == [blocks |-> <<Block0>>, regs |-> <<>>, root |-> <<>>,
             nodes |-> <<>>, free |-> 0, ino |-> 1, bad |-> FALSE]

Jumps == {"jmp", "cond"}
Closed(bb) == bb.code # <<>> /\ Last(bb.code).op \in Jumps \cup {"ret"}

Alloc(c, n) == [c EXCEPT !.blocks = @ \o [m \in 1..n |-> Block0]]
Newest(c) == Len(c.blocks)

Bad(c) == [c EXCEPT !.bad = TRUE]

AddInstr(c, bb, instr) ==
  IF bb = 0 \/ Closed(c.blocks[bb]) THEN Bad(c)
  ELSE [c EXCEPT !.ino = @ + 1,
                 !.blocks[bb].first = IF @ = 0 THEN c.ino ELSE @,
                 !.blocks[bb].code = Append(@, instr)]

(* Block succ has the further predecessors preds. *)
Connect(c, preds, succ) ==
  IF succ = 0 THEN c ELSE [c EXCEPT !.blocks[succ].preds = @ \o preds]

EmitJmp(c, bb, t) == Connect(AddInstr(c, bb, [op |-> "jmp", t |-> t]), <<bb>>, t)

EmitCondJmp(c, bb, t, f, r) ==
  Connect(Connect(AddInstr(c, bb, [op |-> "cond", t |-> t, f |-> f, r |-> r]), <<bb>>, t), <<bb>>, f)

(* Retarget bb's jump; the false path of a conditional jump stays. *)
Aim(bb, target) == [bb EXCEPT !.code[Len(bb.code)].t = target]

PatchAll(c, froms, target) ==
  IF 0 \in Range(froms) THEN Bad(c)
  ELSE Connect([c EXCEPT !.blocks = [n \in DOMAIN @ |-> IF n \in Range(froms)
                                                        THEN Aim(@[n], target) ELSE @[n]]],
               froms, target)

PatchJmp(c, from, target) == PatchAll(c, <<from>>, target)

NewReg(c, def) == [c EXCEPT !.regs = Append(@, def), !.root = Append(@, Len(@) + 1)]
LastReg(c) == Len(c.regs)
Plain == [leaf |-> 0, reg |-> 0, want |-> TRUE]

(* Emit an instruction that sets the next register. *)
NextReg(c) == Len(c.regs) + 1
Define(c, bb, def, instr) == AddInstr(NewReg(c, def), bb, instr)

(* A comparison of a leaf, or of register r with zero. *)
EmitCmp(c, bb, leaf, r, want) ==
  Define(c, bb, [leaf |-> leaf, reg |-> r, want |-> want], [op |-> "test", r |-> NextReg(c)])

(* The destination of a phi instruction and its arguments become aliases. *)
EmitPhi(c, bb, args) ==
  LET d == Define(c, bb, Plain, [op |-> "phi", r |-> NextReg(c)]) IN
  [d EXCEPT !.root = [x \in DOMAIN @ |-> IF \E a \in args : @[x] = @[a] THEN LastReg(d) ELSE @[x]]]

-----------------------------------------------------------------------------
(* Deferred comparisons: [first, last] is a list of short-circuit jumps in
   the node heap, `fin' the final jump (from = 0 while there is none).      *)
NoList == [first |-> 0, last |-> 0]
Deferred(l, fin) == [kind |-> "deferred", l |-> l, fin |-> fin]
FreshCmp(r, result) == Deferred(NoList, [result |-> result, from |-> 0, cmp |-> r])

(* Other expression results. *)
InReg(r) == [kind |-> "reg", r |-> r]
InVar(n) == [kind |-> "var", n |-> n]

(* Invert j's comparison unless j already jumps on `desired'. *)
FixPath(c, j, desired) ==
  IF j.result = desired THEN c ELSE [c EXCEPT !.regs[j.cmp].want = ~@]

(* j made a jump on `desired'; if it has no jump instruction yet, it ends
   block bb and a new block follows. *)
CopyJmp(c, bb, j, desired) ==
  LET d == Alloc(FixPath(c, j, desired), 1) IN
  IF j.from # 0
  THEN [b |-> FixPath(c, j, desired), at |-> bb, j |-> [j EXCEPT !.result = desired]]
  ELSE [b |-> EmitCondJmp(d, bb, 0, Newest(d), j.cmp), at |-> Newest(d),
        j |-> [j EXCEPT !.result = desired, !.from = bb]]

(* Append j to the list l, in a node from the free list if there is one. *)
NewScJmp(c, l, j) ==
  LET n == IF c.free # 0 THEN c.free ELSE Len(c.nodes) + 1
      node == [result |-> j.result, from |-> j.from, cmp |-> j.cmp, next |-> 0]
      heap == IF c.free # 0 THEN [c.nodes EXCEPT ![n] = node] ELSE Append(c.nodes, node)
  IN [b |-> [c EXCEPT !.free = IF @ # 0 THEN c.nodes[@].next ELSE 0,
                      !.nodes = IF l.last # 0 THEN [heap EXCEPT ![l.last].next = n] ELSE heap],
      l |-> [first |-> IF l.last # 0 THEN l.first ELSE n, last |-> n]]

(* Remove node n, the successor of prev (0: the first) in l. *)
DelScJmp(c, l, prev, n) ==
  LET next == c.nodes[n].next
      heap == IF prev # 0 THEN [c.nodes EXCEPT ![prev].next = next] ELSE c.nodes
  IN [b |-> [c EXCEPT !.free = n, !.nodes = [heap EXCEPT ![n].next = c.free]],
      l |-> [first |-> IF prev # 0 THEN l.first ELSE next,
             last |-> IF n = l.last THEN prev ELSE l.last]]

(* The list `from' moved to the end of l. *)
MoveScJmps(c, l, from) ==
  IF l.first = 0 THEN [b |-> c, l |-> from]
  ELSE IF from.first = 0 THEN [b |-> c, l |-> l]
  ELSE [b |-> [c EXCEPT !.nodes[l.last].next = from.first],
        l |-> [first |-> l.first, last |-> from.last]]

-----------------------------------------------------------------------------
(* Work items besides statements and conditions. *)
Goto(bb)         == [k |-> "goto", bb |-> bb]    (* continue in bb               *)
Join(bb)         == [k |-> "join", bb |-> bb]    (* jump to bb, if still somewhere *)
Limm(v)          == [k |-> "limm", v |-> v]
Phi              == [k |-> "phi"]
ToReg            == [k |-> "toReg"]              (* IR_expr_result_to_reg        *)
Negate           == [k |-> "negate"]
Left(v)          == [k |-> "left", v |-> v]      (* after the left operand       *)
Right            == [k |-> "right"]              (* after the right operand      *)
Settle(n, p, v)  == [k |-> "settle", n |-> n, prev |-> p, v |-> v]
Patch(n, t, f)   == [k |-> "patch", n |-> n, t |-> t, f |-> f]
CondJmp(v, bb)   == [k |-> "condJmp", v |-> v, bb |-> bb] (* jump to bb if it is v *)
Assign           == [k |-> "assign"]
Discard          == [k |-> "discard"]
EndIf(bb)        == [k |-> "endIf", bb |-> bb]
DoCond(c, bb)    == [k |-> "doCond", c |-> c, bb |-> bb]
EndLoop(cont)    == [k |-> "endLoop", cont |-> cont]

(* What the resolver finds of a statement: it returns or leaves the loop on
   every path, or it is an error: nothing may follow such a statement, and
   the condition of a do-while must be reached. *)
RECURSIVE Flow(_)
Flow(s) ==
  CASE s.k = "return" -> {"returns"}
    [] s.k \in {"break", "continue"} -> {"exits"}
    [] s.k = "if" -> IF s.b = None THEN Flow(s.a) \cap {"error"}
                     ELSE (Flow(s.a) \cap Flow(s.b)) \cup ((Flow(s.a) \cup Flow(s.b)) \cap {"error"})
    [] s.k = "seq" -> UNION {Flow(x) : x \in Range(s.body)}
                        \cup {"error" : n \in {m \in 1..Len(s.body) - 1 : Flow(s.body[m]) # {}}}
    [] s.k = "loop" -> Flow(s.body) \cap {"error"}
    [] s.k = "do" -> IF Flow(s.body) = {} THEN {} ELSE {"error"}
    [] OTHER -> {}

(* A body the resolver accepts is emitted; one that may not return gets a
   return at its end. *)
Init ==
  /\ \E s \in Programs :
       /\ "error" \notin Flow(s)
       /\ work = IF "returns" \in Flow(s) THEN <<s>> ELSE <<s, Return>>
       /\ src = <<s, Return>>
  /\ phase = "emit"
  /\ b = Builder0
  /\ at = 1
  /\ ers = <<>>
  /\ loops = <<>>
  /\ bblocks = <<>>
  /\ i = 0
  /\ pc = <<1, 1>>
  /\ vals = <<>>

Emitting(k) == phase = "emit" /\ ~b.bad /\ work # <<>> /\ Head(work).k = k
It == Head(work)
Then(items) == work' = items \o Tail(work)

Result == Head(ers)
(* The latest n results are used up; r is the result now. *)
Yield(n, r) == ers' = <<r>> \o SubSeq(ers, n + 1, Len(ers))

notEmitting == <<phase, bblocks, i, machine>>

-----------------------------------------------------------------------------
(* Conditions. *)
EmitCmpExpr ==
  /\ Emitting("cmp")
  /\ b' = EmitCmp(b, at, It.n, 0, TRUE)
  /\ Yield(0, FreshCmp(LastReg(b'), TRUE))
  /\ Then(<<>>)
  /\ UNCHANGED <<at, loops, notEmitting>>

EmitVarExpr ==
  /\ Emitting("val")
  /\ Yield(0, InVar(It.n))
  /\ Then(<<>>)
  /\ UNCHANGED <<b, at, loops, notEmitting>>

EmitNot ==
  /\ Emitting("not")
  /\ Then(<<It.a, Negate>>)
  /\ UNCHANGED <<b, at, ers, loops, notEmitting>>

EmitShortCircuit ==
  /\ Emitting("and") \/ Emitting("or")
  /\ Then(<<It.a, Left(It.k = "or"), It.b, Right>>)
  /\ UNCHANGED <<b, at, ers, loops, notEmitting>>

EmitTernaryConst ==
  /\ Emitting("ite") /\ It.c.k = "const"
  /\ Then(<<IF It.c.v THEN It.a ELSE It.b>>)
  /\ UNCHANGED <<b, at, ers, loops, notEmitting>>

EmitTernary ==
  /\ Emitting("ite") /\ It.c.k # "const"
  /\ b' = Alloc(b, 2)
  /\ LET f == Newest(b) + 1  last == f + 1 IN
     Then(<<It.c, CondJmp(FALSE, f), It.a, ToReg, Join(last),
            Goto(f), It.b, ToReg, Join(last), Goto(last), Phi>>)
  /\ UNCHANGED <<at, ers, loops, notEmitting>>

(* Compare the result with zero: the comparison holds if the result is want. *)
CmpToZero(want) ==
  IF Result.kind = "var" THEN EmitCmp(b, at, Result.n, 0, want)
  ELSE EmitCmp(b, at, 0, Result.r, want)

(* The nodes of the list that starts at n.  No list is longer than the heap. *)
Nodes(c, n) ==
  LET walk[m \in 0..Len(c.nodes)] ==
        IF m = 0 THEN n ELSE IF walk[m - 1] = 0 THEN 0 ELSE c.nodes[walk[m - 1]].next
  IN Range(walk) \ {0}

(* Mutant: only the final jump is swapped. *)
NegateDeferred_FinalOnly ==
  /\ Emitting("negate") /\ Result.kind = "deferred"
  /\ Yield(1, [Result EXCEPT !.fin.result = ~@])
  /\ Then(<<>>)
  /\ UNCHANGED <<b, at, loops, notEmitting>>

(* Logical not swaps the paths of every jump of a deferred comparison. *)
NegateDeferred ==
  /\ Emitting("negate") /\ Result.kind = "deferred"
  /\ b' = [b EXCEPT !.nodes = [n \in DOMAIN @ |->
             IF n \in Nodes(b, Result.l.first) THEN [@[n] EXCEPT !.result = ~@] ELSE @[n]]]
  /\ Yield(1, [Result EXCEPT !.fin.result = ~@])
  /\ Then(<<>>)
  /\ UNCHANGED <<at, loops, notEmitting>>

NegateValue ==
  /\ Emitting("negate") /\ Result.kind # "deferred"
  /\ b' = CmpToZero(FALSE)
  /\ Yield(1, FreshCmp(LastReg(b'), TRUE))
  /\ Then(<<>>)
  /\ UNCHANGED <<at, loops, notEmitting>>

(* After the left operand: its final jump becomes a short-circuit jump, and
   its jumps of the opposite value lead to the right operand. *)
LeftDeferred ==
  /\ Emitting("left") /\ Result.kind = "deferred"
  /\ LET x == CopyJmp(b, at, Result.fin, It.v)
         y == NewScJmp(x.b, Result.l, x.j) IN
     /\ b' = y.b
     /\ at' = x.at
     /\ Yield(1, Deferred(y.l, x.j))
     /\ Then(<<Settle(y.l.first, 0, It.v)>>)
  /\ UNCHANGED <<loops, notEmitting>>

(* Mutant: the walk does not move on. *)
SettleKeep_NoAdvance ==
  /\ Emitting("settle") /\ It.n # 0
  /\ b.nodes[It.n].result = It.v
  /\ UNCHANGED vars

(* The walk over the list.  The code sets prev_it after it has moved on. *)
SettleKeep ==
  /\ Emitting("settle") /\ It.n # 0
  /\ b.nodes[It.n].result = It.v
  /\ LET next == b.nodes[It.n].next IN Then(<<Settle(next, next, It.v)>>)
  /\ UNCHANGED <<b, at, ers, loops, notEmitting>>

SettleOpposite ==
  /\ Emitting("settle") /\ It.n # 0
  /\ b.nodes[It.n].result # It.v
  /\ LET next == b.nodes[It.n].next
         x == DelScJmp(PatchJmp(b, b.nodes[It.n].from, at), Result.l, It.prev, It.n) IN
     /\ b' = x.b
     /\ Yield(1, [Result EXCEPT !.l = x.l])
     /\ Then(<<Settle(next, next, It.v)>>)
  /\ UNCHANGED <<at, loops, notEmitting>>

SettleEnd ==
  /\ Emitting("settle") /\ It.n = 0
  /\ Then(<<>>)
  /\ UNCHANGED <<b, at, ers, loops, notEmitting>>

(* An operand in a variable is loaded first. *)
LoadOperand ==
  /\ Emitting("left") \/ Emitting("right")
  /\ Result.kind = "var"
  /\ Then(<<ToReg, It>>)
  /\ UNCHANGED <<b, at, ers, loops, notEmitting>>

(* An operand in a register is compared with zero and jumped on. *)
JumpOnReg(v) ==
  LET d == Alloc(CmpToZero(v), 1) IN EmitCondJmp(d, at, 0, Newest(d), LastReg(d))

LeftReg ==
  /\ Emitting("left") /\ Result.kind = "reg"
  /\ LET j == [result |-> It.v, from |-> at, cmp |-> NextReg(b)]
         x == NewScJmp(JumpOnReg(It.v), NoList, j) IN
     /\ b' = x.b
     /\ Yield(1, Deferred(x.l, j))
  /\ at' = Newest(b')
  /\ Then(<<>>)
  /\ UNCHANGED <<loops, notEmitting>>

(* After the right operand: its jumps join the left operand's, and the final
   jump leads to the false path. *)
RightDeferred ==
  /\ Emitting("right") /\ Result.kind = "deferred"
  /\ LET m == MoveScJmps(b, ers[2].l, Result.l)
         x == CopyJmp(m.b, at, Result.fin, FALSE) IN
     /\ b' = x.b
     /\ at' = x.at
     /\ Yield(2, Deferred(m.l, x.j))
  /\ Then(<<>>)
  /\ UNCHANGED <<loops, notEmitting>>

RightReg ==
  /\ Emitting("right") /\ Result.kind = "reg"
  /\ b' = JumpOnReg(FALSE)
  /\ Yield(2, Deferred(ers[2].l, [result |-> FALSE, from |-> at, cmp |-> NextReg(b)]))
  /\ at' = Newest(b')
  /\ Then(<<>>)
  /\ UNCHANGED <<loops, notEmitting>>

-----------------------------------------------------------------------------
(* Results put to use. *)
InRegAlready ==
  /\ Emitting("toReg") /\ Result.kind = "reg"
  /\ Then(<<>>)
  /\ UNCHANGED <<b, at, ers, loops, notEmitting>>

LoadResult ==
  /\ Emitting("toReg") /\ Result.kind = "var"
  /\ b' = Define(b, at, Plain, [op |-> "load", r |-> NextReg(b), n |-> Result.n])
  /\ Yield(1, InReg(LastReg(b')))
  /\ Then(<<>>)
  /\ UNCHANGED <<at, loops, notEmitting>>

HasJumps(er) == er.l.first # 0 \/ er.fin.from # 0

(* A comparison without jumps leaves its register. *)
ExecuteFreshCmp ==
  /\ Emitting("toReg") /\ Result.kind = "deferred" /\ ~HasJumps(Result)
  /\ Yield(1, InReg(Result.fin.cmp))
  /\ Then(<<>>)
  /\ UNCHANGED <<b, at, loops, notEmitting>>

(* 1 on the true path and 0 on the false path, joined by a phi. *)
ExecuteCmp ==
  /\ Emitting("toReg") /\ Result.kind = "deferred" /\ HasJumps(Result)
  /\ LET f == Newest(b) + 1  e == f + 1 IN
     /\ b' = PatchJmp(Alloc(FixPath(b, Result.fin, FALSE), 2), Result.fin.from, f)
     /\ Then(<<Patch(Result.l.first, at, f), Limm(TRUE), Join(e),
               Goto(f), Limm(FALSE), Join(e), Goto(e), Phi>>)
  /\ ers' = Tail(ers)
  /\ UNCHANGED <<at, loops, notEmitting>>

EmitLimm ==
  /\ Emitting("limm")
  /\ b' = Define(b, at, Plain, [op |-> "limm", r |-> NextReg(b), v |-> It.v])
  /\ Yield(0, InReg(LastReg(b')))
  /\ Then(<<>>)
  /\ UNCHANGED <<at, loops, notEmitting>>

EmitPhiInstr ==
  /\ Emitting("phi")
  /\ b' = EmitPhi(b, at, {ers[1].r, ers[2].r})
  /\ Yield(2, InReg(LastReg(b')))
  /\ Then(<<>>)
  /\ UNCHANGED <<at, loops, notEmitting>>

(* Short-circuit jumps get their target, by result. *)
PatchScJmp ==
  /\ Emitting("patch") /\ It.n # 0
  /\ LET j == b.nodes[It.n] IN
     /\ b' = PatchJmp(b, j.from, IF j.result THEN It.t ELSE It.f)
     /\ Then(<<Patch(j.next, It.t, It.f)>>)
  /\ UNCHANGED <<at, ers, loops, notEmitting>>

PatchEnd ==
  /\ Emitting("patch") /\ It.n = 0
  /\ Then(<<>>)
  /\ UNCHANGED <<b, at, ers, loops, notEmitting>>

(* IR_process_cfg_cond: jump to It.bb if the condition is It.v. *)
CondDeferred ==
  /\ Emitting("condJmp") /\ Result.kind = "deferred"
  /\ LET c == FixPath(b, Result.fin, It.v)
         d == Alloc(c, 1)
         here == IF Result.fin.from # 0 THEN at ELSE Newest(d) IN
     /\ b' = IF Result.fin.from # 0 THEN PatchJmp(c, Result.fin.from, It.bb)
             ELSE EmitCondJmp(d, at, It.bb, here, Result.fin.cmp)
     /\ at' = here
     /\ Then(<<IF It.v THEN Patch(Result.l.first, It.bb, here)
               ELSE Patch(Result.l.first, here, It.bb)>>)
  /\ ers' = Tail(ers)
  /\ UNCHANGED <<loops, notEmitting>>

CondValue ==
  /\ Emitting("condJmp") /\ Result.kind # "deferred"
  /\ LET d == Alloc(CmpToZero(It.v), 1) IN
     /\ b' = EmitCondJmp(d, at, It.bb, Newest(d), LastReg(d))
     /\ at' = Newest(d)
  /\ ers' = Tail(ers)
  /\ Then(<<>>)
  /\ UNCHANGED <<loops, notEmitting>>

-----------------------------------------------------------------------------
(* Statements. *)
EmitAct ==
  /\ Emitting("act")
  /\ b' = AddInstr(b, at, [op |-> "act", n |-> It.n])
  /\ Then(<<>>)
  /\ UNCHANGED <<at, ers, loops, notEmitting>>

EmitReturn ==
  /\ Emitting("return")
  /\ b' = AddInstr(b, at, [op |-> "ret"])
  /\ at' = 0
  /\ Then(<<>>)
  /\ UNCHANGED <<ers, loops, notEmitting>>

EmitBlock ==
  /\ Emitting("seq")
  /\ Then(It.body)
  /\ UNCHANGED <<b, at, ers, loops, notEmitting>>

EmitStore ==
  /\ Emitting("store")
  /\ Then(<<It.e, ToReg, Assign>>)
  /\ UNCHANGED <<b, at, ers, loops, notEmitting>>

EmitAssign ==
  /\ Emitting("assign")
  /\ b' = AddInstr(b, at, [op |-> "store", r |-> Result.r])
  /\ ers' = Tail(ers)
  /\ Then(<<>>)
  /\ UNCHANGED <<at, loops, notEmitting>>

EmitEval ==
  /\ Emitting("eval")
  /\ Then(<<It.e, Discard>>)
  /\ UNCHANGED <<b, at, ers, loops, notEmitting>>

(* Only deferred work is done for a result that is not used. *)
DiscardResult ==
  /\ Emitting("discard")
  /\ IF Result.kind = "deferred" THEN Then(<<ToReg, Discard>>) /\ UNCHANGED ers
     ELSE Then(<<>>) /\ ers' = Tail(ers)
  /\ UNCHANGED <<b, at, loops, notEmitting>>

EmitIfConst ==
  /\ Emitting("if") /\ It.c.k = "const"
  /\ Then(<<IF It.c.v THEN It.a ELSE It.b>>)
  /\ b' = IF ~It.c.v /\ It.b = None THEN Bad(b) ELSE b
  /\ UNCHANGED <<at, ers, loops, notEmitting>>

EmitIf ==
  /\ Emitting("if") /\ It.c.k # "const" /\ It.b = None
  /\ b' = Alloc(b, 1)
  /\ LET last == Newest(b') IN
     Then(<<It.c, CondJmp(FALSE, last), It.a, Join(last), Goto(last)>>)
  /\ UNCHANGED <<at, ers, loops, notEmitting>>

EmitIfElse ==
  /\ Emitting("if") /\ It.c.k # "const" /\ It.b # None
  /\ b' = Alloc(b, 2)
  /\ LET last == Newest(b) + 1  f == last + 1 IN
     Then(<<It.c, CondJmp(FALSE, f), It.a, Join(last), Goto(f), It.b, Join(last), EndIf(last)>>)
  /\ UNCHANGED <<at, ers, loops, notEmitting>>

(* Nothing continues when neither arm of an if-else does. *)
EmitEndIf ==
  /\ Emitting("endIf")
  /\ at' = IF b.blocks[It.bb].preds = <<>> THEN 0 ELSE It.bb
  /\ Then(<<>>)
  /\ UNCHANGED <<b, ers, loops, notEmitting>>

EmitGoto ==
  /\ Emitting("goto")
  /\ at' = It.bb
  /\ Then(<<>>)
  /\ UNCHANGED <<b, ers, loops, notEmitting>>

EmitJoin ==
  /\ Emitting("join")
  /\ b' = IF at = 0 THEN b ELSE EmitJmp(b, at, It.bb)
  /\ Then(<<>>)
  /\ UNCHANGED <<at, ers, loops, notEmitting>>

-----------------------------------------------------------------------------
(* Loops. *)
EnterLoop == loops' = <<[brk |-> <<>>, cont |-> <<>>]>> \o loops

(* The body, the next statement when there is one, and a jump back. *)
BodyItems(bodyBB, body, next, nextBB, back) ==
  <<Goto(bodyBB), body>>
    \o (IF next = None THEN <<>> ELSE <<Join(nextBB), Goto(nextBB), next>>)
    \o <<Join(back)>>

EmitInfLoop(body, next) ==
  /\ LET hdr == Newest(b) + 1  end == hdr + 1
         nxt == IF next = None THEN hdr ELSE end + 1 IN
     /\ b' = EmitJmp(Alloc(b, IF next = None THEN 2 ELSE 3), at, hdr)
     /\ Then(BodyItems(hdr, body, next, nxt, hdr) \o <<Goto(end), EndLoop(nxt)>>)
  /\ EnterLoop

SkipLoop == Then(<<>>) /\ UNCHANGED <<b, loops>>

EmitLoopConst ==
  /\ Emitting("loop") /\ It.c.k = "const"
  /\ IF It.c.v THEN EmitInfLoop(It.body, It.next) ELSE SkipLoop
  /\ UNCHANGED <<at, ers, notEmitting>>

EmitLoop ==
  /\ Emitting("loop") /\ It.c.k # "const"
  /\ LET bodyBB == Newest(b) + 1  condBB == bodyBB + 1
         nxt == IF It.next = None THEN condBB ELSE condBB + 1 IN
     /\ b' = EmitJmp(Alloc(b, IF It.next = None THEN 2 ELSE 3), at, condBB)
     /\ Then(BodyItems(bodyBB, It.body, It.next, nxt, condBB)
             \o <<Goto(condBB), It.c, CondJmp(TRUE, bodyBB), EndLoop(nxt)>>)
  /\ EnterLoop
  /\ UNCHANGED <<at, ers, notEmitting>>

EmitDoConst ==
  /\ Emitting("do") /\ It.c.k = "const"
  /\ IF It.c.v THEN EmitInfLoop(It.body, None) ELSE SkipLoop
  /\ UNCHANGED <<at, ers, notEmitting>>

EmitDo ==
  /\ Emitting("do") /\ It.c.k # "const"
  /\ LET bodyBB == Newest(b) + 1 IN
     /\ b' = EmitJmp(Alloc(b, 1), at, bodyBB)
     /\ Then(<<Goto(bodyBB), It.body, DoCond(It.c, bodyBB), EndLoop(bodyBB)>>)
  /\ EnterLoop
  /\ UNCHANGED <<at, ers, notEmitting>>

(* After the body of a do-while: the condition, if its end is reached. *)
EmitDoCond ==
  /\ Emitting("doCond")
  /\ LET c == PatchAll(b, Head(loops).cont, It.bb) IN
     IF at # 0
     THEN b' = c /\ Then(<<It.c, CondJmp(TRUE, It.bb)>>) /\ UNCHANGED at
     ELSE b' = Alloc(c, 1) /\ Then(<<>>) /\ at' = Newest(b')
  /\ loops' = [loops EXCEPT ![1].cont = <<>>]
  /\ UNCHANGED <<ers, notEmitting>>

EmitBreak ==
  /\ Emitting("break")
  /\ b' = EmitJmp(b, at, 0)
  /\ loops' = [loops EXCEPT ![1].brk = Append(@, at)]
  /\ at' = 0
  /\ Then(<<>>)
  /\ UNCHANGED <<ers, notEmitting>>

EmitContinue ==
  /\ Emitting("continue")
  /\ b' = EmitJmp(b, at, 0)
  /\ loops' = [loops EXCEPT ![1].cont = Append(@, at)]
  /\ at' = 0
  /\ Then(<<>>)
  /\ UNCHANGED <<ers, notEmitting>>

(* The loop is left where the current block is. *)
EmitEndLoop ==
  /\ Emitting("endLoop")
  /\ b' = PatchAll(PatchAll(b, Head(loops).brk, at), Head(loops).cont, It.cont)
  /\ loops' = Tail(loops)
  /\ Then(<<>>)
  /\ UNCHANGED <<at, ers, notEmitting>>

(* The whole body is emitted. *)
EmitEnd ==
  /\ phase = "emit" /\ ~b.bad /\ work = <<>>
  /\ phase' = "prune"
  /\ bblocks' = [n \in DOMAIN b.blocks |-> n]
  /\ i' = Len(b.blocks)
  /\ UNCHANGED <<b, emitter, machine>>

EmitExpr ==
  \/ EmitCmpExpr \/ EmitVarExpr \/ EmitNot \/ EmitShortCircuit \/ EmitTernaryConst
  \/ EmitTernary \/ NegateDeferred \/ NegateValue \/ LeftDeferred \/ SettleKeep
  \/ SettleOpposite \/ SettleEnd \/ LoadOperand \/ LeftReg \/ RightDeferred \/ RightReg

UseResult ==
  \/ InRegAlready \/ LoadResult \/ ExecuteFreshCmp \/ ExecuteCmp \/ EmitLimm
  \/ EmitPhiInstr \/ PatchScJmp \/ PatchEnd \/ CondDeferred \/ CondValue

EmitStmt ==
  \/ EmitAct \/ EmitReturn \/ EmitBlock \/ EmitStore \/ EmitAssign \/ EmitEval
  \/ DiscardResult \/ EmitIfConst \/ EmitIf \/ EmitIfElse \/ EmitEndIf \/ EmitGoto
  \/ EmitJoin \/ EmitLoopConst \/ EmitLoop \/ EmitDoConst \/ EmitDo \/ EmitDoCond
  \/ EmitBreak \/ EmitContinue \/ EmitEndLoop \/ EmitEnd

Code(bb) == b.blocks[bb].code
Preds(bb) == Range(b.blocks[bb].preds)

(* array_remove_swap *)
RemoveSwap(s, n) == Front([s EXCEPT ![n] = Last(s)])

(* A conditional jump falls through to bb. *)
NeededForFallThrough(bb) ==
  \E p \in Preds(bb) : Last(Code(p)).op = "cond" /\ Last(Code(p)).f = bb

(* Mutant: a block that a conditional jump falls through to can be removed. *)
CanRemove_FallThrough(bb) ==
  /\ Len(Code(bb)) = 1 /\ Last(Code(bb)).op = "jmp"
  /\ Preds(bb) # {}

CanRemove(bb) ==
  /\ Len(Code(bb)) = 1 /\ Last(Code(bb)).op = "jmp"
  /\ Preds(bb) # {}
  /\ ~NeededForFallThrough(bb)

Pruning == phase = "prune" /\ ~b.bad /\ i > 0

(* One iteration of IR_rm_dead_bblocks on a block with no instruction. *)
RemoveEmpty ==
  /\ Pruning
  /\ Code(bblocks[i]) = <<>>
  /\ bblocks' = RemoveSwap(bblocks, i)
  /\ i' = i - 1
  /\ UNCHANGED <<phase, b, emitter, machine>>

KeepBlock ==
  /\ Pruning
  /\ Code(bblocks[i]) # <<>> /\ ~CanRemove(bblocks[i])
  /\ i' = i - 1
  /\ UNCHANGED <<phase, b, emitter, bblocks, machine>>

(* One on a block that only jumps: its predecessors jump past it, except if
   one of them is found not to jump here (an assert). *)
SkipOver(c, bb, target) ==
  LET preds == c.blocks[bb].preds
      tp == c.blocks[target].preds \o preds
      at1 == SelectInSeq(tp, LAMBDA p : p = bb)
  IN [c EXCEPT !.blocks = [n \in DOMAIN @ |->
        [(IF n \in Range(preds) THEN Aim(@[n], target) ELSE @[n]) EXCEPT
           !.preds = IF n = target THEN RemoveSwap(tp, IF at1 = 0 THEN 1 ELSE at1) ELSE @]]]

RemoveJump ==
  /\ Pruning
  /\ CanRemove(bblocks[i])
  /\ b' = IF \A p \in Preds(bblocks[i]) : Last(Code(p)).t = bblocks[i]
          THEN SkipOver(b, bblocks[i], Last(Code(bblocks[i])).t) ELSE Bad(b)
  /\ bblocks' = RemoveSwap(bblocks, i)
  /\ i' = i - 1
  /\ UNCHANGED <<phase, emitter, machine>>

FirstIno(bb) == b.blocks[bb].first

(* A jump of bb that no one gave a target. *)
Unpatched(bb) == Last(Code(bb)).op \in Jumps /\ Last(Code(bb)).t = 0

(* The blocks are laid out in the order of their first instructions; the
   conversion to XIR then reads the number of every jump's target. *)
Layout ==
  /\ phase = "prune" /\ ~b.bad /\ i = 0
  /\ bblocks' = SortSeq(bblocks, LAMBDA x, y : FirstIno(x) < FirstIno(y))
  /\ b' = IF \E bb \in Range(bblocks) : Unpatched(bb) THEN Bad(b) ELSE b
  /\ phase' = "run"
  /\ pc' = <<bblocks'[1], 1>>
  /\ \E garbage \in BOOLEAN : vals' = [r \in DOMAIN b.regs |-> garbage]
  /\ UNCHANGED <<emitter, i, src>>

-----------------------------------------------------------------------------
(* The run.  The source program moves to its next event by itself. *)
Instr == Code(pc[1])[pc[2]]
Executing == phase = "run" /\ ~b.bad
Running(op) == Executing /\ AtEvent(src) /\ Instr.op = op

SourceStep ==
  /\ Executing /\ ~AtEvent(src)
  /\ src' = Unfold(src)
  /\ UNCHANGED <<phase, b, emitter, bblocks, i, pc, vals>>

Position(bb) == CHOOSE n \in DOMAIN bblocks : bblocks[n] = bb

GoTo(bb) ==
  /\ phase' = IF bb \in Range(bblocks) THEN "run" ELSE "lost"
  /\ pc' = <<bb, 1>>

(* The next instruction; only the last block may lack a jump or a return. *)
Advance == pc' = <<pc[1], pc[2] + 1>> /\ UNCHANGED phase

Set(r, v) == vals' = [vals EXCEPT ![b.root[r]] = v]
Value(r) == vals[b.root[r]]

compiled == <<b, emitter, bblocks, i>>

TestLeaf ==
  /\ Running("test")
  /\ LET def == b.regs[Instr.r] IN
     /\ def.leaf # 0
     /\ \E v \in BOOLEAN :
          /\ Set(Instr.r, v = def.want)
          /\ src' = After(src, Tests(def.leaf, v))
  /\ Advance
  /\ UNCHANGED compiled

TestReg ==
  /\ Running("test")
  /\ LET def == b.regs[Instr.r] IN
     /\ def.leaf = 0
     /\ Set(Instr.r, Value(def.reg) = def.want)
  /\ Advance
  /\ UNCHANGED <<compiled, src>>

LoadVar ==
  /\ Running("load")
  /\ \E v \in BOOLEAN :
       /\ Set(Instr.r, v)
       /\ src' = After(src, Tests(Instr.n, v))
  /\ Advance
  /\ UNCHANGED compiled

LoadImm ==
  /\ Running("limm")
  /\ Set(Instr.r, Instr.v)
  /\ Advance
  /\ UNCHANGED <<compiled, src>>

(* The arguments of a phi share its register. *)
PhiInstr ==
  /\ Running("phi")
  /\ Advance
  /\ UNCHANGED <<compiled, src, vals>>

StoreReg ==
  /\ Running("store")
  /\ src' = After(src, Stored(Value(Instr.r)))
  /\ Advance
  /\ UNCHANGED <<compiled, vals>>

DoAct ==
  /\ Running("act")
  /\ src' = After(src, Act(Instr.n))
  /\ Advance
  /\ UNCHANGED <<compiled, vals>>

Jump ==
  /\ Running("jmp")
  /\ GoTo(Instr.t)
  /\ UNCHANGED <<compiled, vals, src>>

(* A conditional jump that is not taken falls through to the next block. *)
Branch ==
  /\ Running("cond")
  /\ LET n == Position(pc[1]) IN
     IF Value(Instr.r) THEN GoTo(Instr.t)
     ELSE GoTo(IF n < Len(bblocks) THEN bblocks[n + 1] ELSE 0)
  /\ UNCHANGED <<compiled, vals, src>>

Exit ==
  /\ Running("ret")
  /\ phase' = "exit"
  /\ UNCHANGED <<compiled, machine>>

Stopped == b.bad \/ phase \in {"exit", "lost"}

Done == Stopped /\ UNCHANGED vars

Emit == EmitExpr \/ UseResult \/ EmitStmt
Prune == RemoveEmpty \/ KeepBlock \/ RemoveJump \/ Layout
Run == SourceStep \/ TestLeaf \/ TestReg \/ LoadVar \/ LoadImm \/ PhiInstr \/ StoreReg
         \/ DoAct \/ Jump \/ Branch \/ Exit

Next == Emit \/ Prune \/ Run \/ Done

Spec == Init /\ [][Next]_vars
(* Compiling and running are sequential: neither pauses. *)
FairSpec == Spec /\ WF_vars(Next)

-----------------------------------------------------------------------------
(***************************************************************************)
(*                              Properties                                 *)
(***************************************************************************)

TypeOK ==
  /\ phase \in {"emit", "prune", "run", "exit", "lost"}
  /\ at \in 0..Len(b.blocks)
  /\ \A n \in DOMAIN b.blocks :
       /\ Range(b.blocks[n].preds) \subseteq DOMAIN b.blocks
       /\ \A k \in DOMAIN Code(n) : Code(n)[k].op \in Jumps \cup {"ret"} => k = Len(Code(n))
  /\ Range(bblocks) \subseteq DOMAIN b.blocks
  /\ i \in 0..Len(b.blocks)
  /\ vals \in [DOMAIN vals -> BOOLEAN]

(* The generated code does, event for event, what the source program does:
   it tests the same conditions in the same order and takes the side that
   the source takes, through merged short-circuit jumps (procs.c:1673),
   inverted comparisons (procs.c:895) and skipped blocks (procs.c:4150). *)
SameBehaviour ==
  /\ src # Lost
  /\ phase = "exit" => Head(src) = Return

(* While blocks are removed, a block's predecessor list names every block
   that jumps or falls through to it: the pass redirects only those
   (procs.c:4201). *)
PredsComplete ==
  phase = "prune" =>
    \A bb \in Range(bblocks) : Code(bb) # <<>> =>
      LET last == Last(Code(bb)) IN
      /\ last.op \in Jumps => bb \in Preds(last.t)
      /\ last.op = "cond" => bb \in Preds(last.f)

(* No assert fails, no NULL block is used, and no jump leads to a block that
   the removal pass (procs.c:4150) took out of the layout: every jump is the
   last of its block and known to the block it leads to. *)
CompilesAndStays == TypeOK /\ ~b.bad /\ phase # "lost" /\ PredsComplete

(* Generation ends, and compiled code never jumps around forever without an
   event: a condition is tested, a statement acts, or the procedure returns,
   again and again. *)
KeepsPace ==
  []<>(Stopped \/ \E op \in {"test", "load", "act", "store", "ret"} : Running(op))

(* Every deferred jump is given a target (procs.c:52: "target needs to be
   patched"), because merging keeps the jumps of the operand's own
   short-circuit value "as-is" (procs.c:1709). *)
JumpsPatched ==
  phase = "prune" => \A bb \in Range(bblocks) : Code(bb) # <<>> => ~Unpatched(bb)

=============================================================================

------------------------ MODULE SymbolResolverReach -------------------------
(***************************************************************************)
(* What a program reaches, and what the resolver makes of it, for every    *)
(* program: a program that resolves has settled exactly what it reaches,   *)
(* and one that is refused reaches something that needs itself.            *)
(***************************************************************************)
EXTENDS SymbolResolverProofs

(* What a call is there to settle; the bodies that have been checked or are
   being, and all that is settled or on the way. *)
ThingOf(f) == [what |-> f.task, of |-> f.sym]
Begun == checked \cup {s \in Sym : Open(stack, "body", s)}
Resolving == {s \in Sym : status[s] = "resolving"}
Touched == Settled \cup {Symbol(s) : s \in Resolving} \cup {Type(a) : a \in completing}
             \cup {Body(s) : s \in Begun}

(***************************************************************************)
(* The inductive invariant, while nothing has failed.  Every list holds    *)
(* all the symbols of its kind that are resolved, and no others; what is   *)
(* settled has all it needs settled too; a pass has dealt with what its    *)
(* position has left behind, and with all of what the passes before it     *)
(* went through; a call is there because the call below it needs what it   *)
(* settles; and no set that holds all that the program reaches leaves out  *)
(* something that is settled, or that a call is there to settle.           *)
(***************************************************************************)
KindsRight ==
  /\ \A i \in DOMAIN procs : procs[i] \in Procedures
  /\ \A i \in DOMAIN aggregates : aggregates[i] \in Aggregates /\ status[aggregates[i]] = "resolved"
  /\ Begun \subseteq Procedures
  /\ complete \cup completing \subseteq Aggregates

Listed ==
  \A s \in Sym : status[s] = "resolved" =>
    /\ s \in Procedures => \E i \in DOMAIN procs : procs[i] = s
    /\ s \in Aggregates => \E i \in DOMAIN aggregates : aggregates[i] = s

Met == \A x \in Settled : Needs[x] \subseteq Settled

OrderBehind ==
  \A i \in DOMAIN prog.order : (phase = "headers" => i < pos) => status[prog.order[i]] = "resolved"
AssertsBehind ==
  /\ \A x : Open(stack, "asserts", x) => phase = "asserts"
  /\ phase \in {"bodies", "types", "done"} => NeedsOf(prog, Main, prog.asserts, {}) \subseteq Settled
ReachSettled == \E xs \in SUBSET Settled : Closed(Procedures, {}, xs)
BodiesBehind ==
  /\ phase = "bodies" => pos <= Len(procs) + 1 /\ \A i \in DOMAIN procs : i < pos => procs[i] \in checked
  /\ phase \in {"types", "done"} => ReachSettled
TypesBehind ==
  /\ phase = "types" =>
       pos <= Len(aggregates) + 1 /\ \A i \in DOMAIN aggregates : i < pos => aggregates[i] \in complete
  /\ phase = "done" => stack = <<>> /\ \A i \in DOMAIN aggregates : aggregates[i] \in complete

CallNeeded(p, s, i) ==
  /\ s[i].task \in {"symbol", "type"}
  /\ s[i - 1].rest # <<>> /\ ThingOf(s[i]) \in NeedsNow(p, s[i - 1])
CallsNeeded(p, s) == \A i \in DOMAIN s : i # 1 => CallNeeded(p, s, i)

Covered ==
  \A xs \in SUBSET Things : Closed(Begun, Aggregates, xs) => Touched \subseteq xs

Sound ==
  /\ KindsRight /\ Listed /\ Met
  /\ OrderBehind /\ AssertsBehind /\ BodiesBehind /\ TypesBehind
  /\ CallsNeeded(prog, stack) /\ Covered

(* What a refusal shows of the program. *)
Refused ==
  \A xs \in SUBSET Things : Closed(Procedures, Aggregates, xs) =>
    \/ \E core \in SUBSET xs : core # {} /\ \A x \in core : Needs[x] \cap core # {}
    \/ ReadsResultSize(prog.asserts)
    \/ \E x \in xs : x.of # None /\ ReadsResultSize(UsesOf(x))

Live == phase \in Passes \cup {"done"}
ReachInv == IF Live THEN Sound ELSE Refused

-----------------------------------------------------------------------------
(*                       The calls, and what they need                     *)

LEMMA ProgStays == [Next]_vars => prog' = prog
BY DEF Next, Step, Stopped, vars, UseName, Declare, UseLocal, LookupFails, Lookup, Demand, UseType,
       CyclicType, ZeroSize, Used, Proceed, Fail, Abort, Complete, Return, FinishSymbol, FinishType,
       FinishBody, FinishAsserts, Unwind, UnwindSymbol, UnwindType, UnwindRest, ReportErrors, Pass,
       Headers, Asserts, Bodies, Completions, Begin, Advance

(* A call begins because the one below it needs it, or there is none. *)
LEMMA Pushed ==
  ASSUME stack \in Seq(Frame), CallsNeeded(prog, stack), NEW e \in Frame, stack' = Append(stack, e),
         stack # <<>> => /\ e.task \in {"symbol", "type"} /\ Top.rest # <<>>
                         /\ ThingOf(e) \in NeedsNow(prog, Top)
  PROVE  /\ CallsNeeded(prog, stack')
         /\ \A k, x : Open(stack', k, x) <=> Open(stack, k, x) \/ (e.task = k /\ e.sym = x)
<1> DEFINE n == Len(stack)  t == Append(stack, e)
<1>1. /\ Len(t) = n + 1 /\ DOMAIN t = 1..(n + 1) /\ t[n + 1] = e
      /\ \A i \in 1..n : t[i] = stack[i]
  BY PushSeq
<1>2. n \in Nat /\ DOMAIN stack = 1..n /\ (stack = <<>> <=> n = 0)
  BY EmptySeq, LenProperties
<1>3. \A k, x : Open(t, k, x) <=> Open(stack, k, x) \/ (e.task = k /\ e.sym = x)
  BY Push
<1> HIDE DEF t
<1>4. ASSUME NEW i \in DOMAIN t, i # 1  PROVE CallNeeded(prog, t, i)
  <2>1. CASE i = n + 1
    <3>1. stack # <<>> /\ t[i] = e /\ t[i - 1] = Top
      BY <1>1, <1>2, <1>4, <2>1 DEF Top
    <3> QED  BY <3>1 DEF CallNeeded
  <2>2. CASE i \in 1..n
    <3>1. t[i] = stack[i] /\ t[i - 1] = stack[i - 1]
      BY <1>1, <1>2, <1>4, <2>2
    <3>2. CallNeeded(prog, stack, i)
      BY <1>2, <1>4, <2>2 DEF CallsNeeded
    <3> QED  BY <3>1, <3>2 DEF CallNeeded
  <2> QED  BY <1>1, <1>2, <2>1, <2>2
<1> QED  BY <1>3, <1>4 DEF CallsNeeded, t

LEMMA Popped ==
  ASSUME stack \in Seq(Frame), CallsNeeded(prog, stack), stack # <<>>, NoTwice(stack), stack' = Below
  PROVE  /\ CallsNeeded(prog, stack')
         /\ \A k, x : Open(stack', k, x) <=> Open(stack, k, x) /\ ~(Top.task = k /\ Top.sym = x)
<1> DEFINE n == Len(stack)
<1>1. /\ n \in Nat \ {0} /\ Len(Below) = n - 1 /\ \A i \in 1..(n - 1) : Below[i] = stack[i]
      /\ Below \in Seq(Frame)
  BY PopSeq DEF Below
<1>2. DOMAIN stack = 1..n /\ DOMAIN Below = 1..(n - 1)
  BY <1>1, LenProperties
<1>3. \A k, x : Open(stack', k, x) <=> Open(stack, k, x) /\ ~(Top.task = k /\ Top.sym = x)
  BY Pop DEF Below, Top, FrontOf, LastOf
<1>4. ASSUME NEW i \in DOMAIN Below, i # 1  PROVE CallNeeded(prog, Below, i)
  <2>1. i \in DOMAIN stack /\ Below[i] = stack[i] /\ Below[i - 1] = stack[i - 1]
    BY <1>1, <1>2, <1>4
  <2> QED  BY <1>4, <2>1 DEF CallsNeeded, CallNeeded
<1> QED  BY <1>3, <1>4 DEF CallsNeeded

(* The innermost call goes on: the others, and what it is there for, stay. *)
LEMMA Proceeded ==
  ASSUME stack \in Seq(Frame), CallsNeeded(prog, stack), stack # <<>>, NEW e \in Frame,
         e.task = Top.task, e.sym = Top.sym, stack' = Append(Below, e)
  PROVE  /\ CallsNeeded(prog, stack')
         /\ \A k, x : Open(stack', k, x) <=> Open(stack, k, x)
<1> DEFINE n == Len(stack)  t == Append(Below, e)
<1>1. /\ n \in Nat \ {0} /\ Len(Below) = n - 1 /\ \A i \in 1..(n - 1) : Below[i] = stack[i]
      /\ Below \in Seq(Frame)
  BY PopSeq DEF Below
<1>2. Len(t) = n /\ DOMAIN t = 1..n /\ t[n] = e /\ \A i \in 1..(n - 1) : t[i] = stack[i]
  <2>1. /\ Len(t) = Len(Below) + 1 /\ DOMAIN t = 1..(Len(Below) + 1) /\ t[Len(Below) + 1] = e
        /\ \A i \in 1..Len(Below) : t[i] = Below[i]
    BY <1>1, PushSeq
  <2>2. Len(Below) + 1 = n
    BY <1>1
  <2> QED  BY <1>1, <2>1, <2>2
<1>3. DOMAIN stack = 1..n /\ stack[n] = Top
  BY <1>1, LenProperties DEF Top
<1> HIDE DEF t, n
<1>4. \A i \in 1..n : t[i].task = stack[i].task /\ t[i].sym = stack[i].sym
  <2>1. 1..n = (1..(n - 1)) \cup {n}
    BY <1>1
  <2> QED  BY <1>2, <1>3, <2>1
<1>5. \A k, x : Open(t, k, x) <=> Open(stack, k, x)
  BY <1>2, <1>3, <1>4 DEF Open
<1>6. ASSUME NEW i \in DOMAIN t, i # 1  PROVE CallNeeded(prog, t, i)
  <2>1. i \in DOMAIN stack /\ i - 1 \in 1..(n - 1)
    BY <1>1, <1>2, <1>3, <1>6
  <2>2. CallNeeded(prog, stack, i) /\ t[i - 1] = stack[i - 1]
    BY <1>2, <1>6, <2>1 DEF CallsNeeded
  <2> QED  BY <1>2, <1>4, <1>6, <2>2 DEF CallNeeded, ThingOf
<1> QED  BY <1>5, <1>6 DEF CallsNeeded, t

(* What a call is there to settle needs all that the call's uses do; what
   the #static_assert statements use is where the program starts. *)
LEMMA NextUseNeeded ==
  ASSUME IInv, NEW f \in Frame, FrameOK(prog, Settled, f), f.rest # <<>>
  PROVE  /\ f.task # "asserts" => ThingOf(f) \in Things /\ NeedsNow(prog, f) \subseteq Needs[ThingOf(f)]
         /\ f.task = "asserts" => NeedsNow(prog, f) \subseteq Roots
<1> DEFINE i == Behind(prog, f) + 1  q == Source(prog, f)  m == ModFor(prog, f.sym)  x == ThingOf(f)
<1>1. i \in DOMAIN q
  <2>1. f.rest \in Seq(Use) /\ Len(f.rest) \in Nat \ {0}
    BY EmptySeq DEF Frame
  <2>2. Len(q) \in Nat /\ DOMAIN q = 1..Len(q) /\ Behind(prog, f) \in Nat
    BY SourceTypes DEF FrameOK, IInv
  <2> QED  BY <2>1, <2>2 DEF Behind
<1> HIDE DEF i, q
<1>2. NeedsNow(prog, f) \subseteq NeedsOf(prog, m, q, Known(prog, f))
  BY <1>1 DEF NeedsOf, NeedsNow, i, q
<1>3. CASE f.task = "asserts"
  BY <1>2, <1>3 DEF FrameOK, Source, Known, ModFor, Roots, q
<1>4. CASE f.task # "asserts"
  <2>1. /\ f.task \in {"symbol", "type", "body"} /\ f.sym \in Sym /\ f.sym # None /\ m = prog.home[f.sym]
    BY <1>4 DEF Frame, Tasks, FrameOK, ModFor
  <2>2. x \in Things /\ x.what = f.task /\ x.of = f.sym
    BY <2>1 DEF ThingOf, Things
  <2> HIDE DEF x, m
  <2>3. CASE f.task = "body"
    <3>1. q = prog.body[f.sym] /\ Known(prog, f) = Params(prog, f.sym)
      BY <2>3 DEF Source, Known, q
    <3>2. Needs[x] = {Symbol(f.sym)} \cup NeedsOf(prog, m, q, Params(prog, f.sym))
      BY <2>1, <2>2, <2>3, <3>1 DEF Needs
    <3> QED  BY <1>2, <1>4, <2>2, <3>1, <3>2 DEF x
  <2>4. CASE f.task # "body"
    <3>1. q = prog.uses[f.sym] /\ Known(prog, f) = {}
      BY <1>4, <2>4 DEF Source, Known, q
    <3>2. f.task = "symbol" => ~IsAggregate(prog, f.sym)
      BY DEF FrameOK
    <3>3. Needs[x] = NeedsOf(prog, m, q, {})
      BY <2>1, <2>2, <2>4, <3>1, <3>2 DEF Needs
    <3> QED  BY <1>2, <1>4, <2>2, <3>1, <3>3 DEF x
  <2> QED  BY <2>3, <2>4
<1> QED  BY <1>3, <1>4

(* A call in progress is on the way to what it is there for. *)
LEMMA CallTouches ==
  ASSUME IInv, phase \in Passes, NEW i \in DOMAIN stack, stack[i].task # "asserts"
  PROVE  ThingOf(stack[i]) \in Touched /\ FrameOK(prog, Settled, stack[i]) /\ stack[i] \in Frame
<1>1. stack[i] \in Frame /\ FrameOK(prog, Settled, stack[i])
  BY DEF IInv, TypeOK, FramesOK, FramesRight
<1>2. stack[i].task \in {"symbol", "type", "body"} /\ stack[i].sym \in Sym
  BY <1>1 DEF Frame, Tasks, FrameOK
<1>3. Open(stack, stack[i].task, stack[i].sym)
  BY DEF Open
<1>4. Marks(prog, phase, mod, stack, status, completing)
  BY MarksForm DEF IInv
<1> DEFINE s == stack[i].sym
<1>5. CASE stack[i].task = "symbol"
  <2>1. ThingOf(stack[i]) = Symbol(s)
    BY <1>5 DEF ThingOf, Symbol
  <2>2. s \in Resolving
    BY <1>2, <1>3, <1>4, <1>5 DEF Marks, Resolving
  <2> QED  BY <1>1, <2>1, <2>2 DEF Touched
<1>6. CASE stack[i].task = "type"
  <2>1. ThingOf(stack[i]) = Type(s)
    BY <1>6 DEF ThingOf, Type
  <2>2. s \in completing
    BY <1>2, <1>3, <1>4, <1>6 DEF Marks
  <2> QED  BY <1>1, <2>1, <2>2 DEF Touched
<1>7. CASE stack[i].task = "body"
  <2>1. ThingOf(stack[i]) = Body(s)
    BY <1>7 DEF ThingOf, Body
  <2>2. s \in Begun
    BY <1>2, <1>3, <1>7 DEF Begun
  <2> QED  BY <1>1, <2>1, <2>2 DEF Touched
<1> QED  BY <1>2, <1>5, <1>6, <1>7

(* What the innermost call needs next is within the program's reach. *)
LEMMA NextUseReached ==
  ASSUME IInv, phase \in Passes, stack # <<>>, Top.rest # <<>>, Covered,
         NEW xs \in SUBSET Things, Closed(Begun, Aggregates, xs)
  PROVE  NeedsNow(prog, Top) \subseteq xs
<1>1. Len(stack) \in DOMAIN stack /\ Top = stack[Len(stack)] /\ Top \in Frame
  BY StackFacts DEF IInv, Top
<1>2. FrameOK(prog, Settled, Top)
  BY <1>1 DEF IInv, FramesOK, FramesRight
<1>3. CASE Top.task = "asserts"
  BY <1>1, <1>2, <1>3, NextUseNeeded DEF Closed
<1>4. CASE Top.task # "asserts"
  <2>1. ThingOf(Top) \in xs
    BY <1>1, <1>4, CallTouches DEF Covered
  <2> QED  BY <1>1, <1>2, <1>4, <2>1, NextUseNeeded DEF Closed, Leads
<1> QED  BY <1>3, <1>4

(* What one use needs, as the resolver meets it. *)
LEMMA UseNeeds ==
  ASSUME IInv, Using
  PROVE  /\ use.mode = "decl" /\ (use.name \in Top.locals \/ Found(use.name) # None) =>
              lost \in NeedsNow(prog, Top)
         /\ UsingGlobal /\ Found(use.name) = None => lost \in NeedsNow(prog, Top)
         /\ UsingGlobal /\ Found(use.name) # None => Symbol(Found(use.name)) \in NeedsNow(prog, Top)
         /\ Resolved /\ NeedsSize /\ SizeUnknown =>
              /\ Type(TypeUsed) \in NeedsNow(prog, Top)
              /\ TypeUsed \in Aggregates
         /\ use.mode = "ret" => ReadsResultSize(Source(prog, Top))
<1> DEFINE q == Source(prog, Top)  i == Behind(prog, Top) + 1  t == Found(use.name)
           N == NeedsAt(prog, ModFor(prog, Top.sym), q, i, Known(prog, Top))
<1>1. phase \in Passes /\ stack # <<>> /\ Top.rest # <<>>
  BY DEF Using
<1>2. /\ use = q[i] /\ mod = ModFor(prog, Top.sym) /\ mod \in Modules
      /\ Top.locals = Known(prog, Top) \cup DeclaredBefore(q, i)
  BY <1>1, NextUse
<1>3. t = prog.scope[mod][q[i].name] /\ t \in Sym \cup {None}
  BY <1>1, <1>2, TopFacts DEF Found
<1>4. N = NeedsNow(prog, Top)
  BY DEF NeedsNow
<1>5. i \in DOMAIN q
  <2>1. Len(Top.rest) \in Nat \ {0}
    BY <1>1, TopFacts
  <2>2. Len(q) \in Nat /\ DOMAIN q = 1..Len(q) /\ Behind(prog, Top) \in Nat
    BY <1>1, NextUse, StackFacts, SourceTypes DEF FrameOK, IInv
  <2> QED  BY <2>1, <2>2 DEF Behind
<1> HIDE DEF q, i, t
<1>6. q[i].mode = "decl" /\ (q[i].name \in Top.locals \/ t # None) => N = {lost}
  BY <1>2, <1>3 DEF NeedsAt
<1>7. q[i].mode # "decl" /\ q[i].name \notin Top.locals =>
        /\ t = None => N = {lost}
        /\ t # None =>
             N = {Symbol(t)} \cup {Type(a) : a \in {b \in Sym : q[i].mode \in {"size", "elem", "ret"} /\ b = prog.means[t]}}
  BY ONLY <1>2, <1>3, NeedsOfUse
<1> HIDE DEF N
<1>8. ASSUME Resolved, NeedsSize, SizeUnknown
      PROVE  Type(TypeUsed) \in N /\ TypeUsed \in Aggregates
  <2>1. /\ use.mode \in {"size", "elem"} /\ use.mode # "decl" /\ use.name \notin Top.locals
        /\ t # None /\ status[t] = "resolved" /\ TypeUsed = typeOf[t] /\ TypeUsed # None
    BY <1>8 DEF Resolved, UsingGlobal, NeedsSize, SizeUnknown, TypeUsed, t
  <2>2. t \in Sym
    BY <1>3, <2>1
  <2>3. TypeUsed = prog.means[t] /\ TypeUsed \in Sym
    BY <2>1, <2>2 DEF IInv, TypesTrue, TypeOK
  <2>4. IsAggregate(prog, TypeUsed)
    BY <2>2, <2>3, ResolverAssumption DEF IInv
  <2>5. N = {Symbol(t)} \cup {Type(a) : a \in {b \in Sym : q[i].mode \in {"size", "elem", "ret"} /\ b = prog.means[t]}}
    BY <1>2, <1>7, <2>1
  <2> QED  BY <1>2, <2>1, <2>3, <2>4, <2>5 DEF Aggregates
<1>9. use.mode = "ret" => ReadsResultSize(q)
  BY <1>2, <1>5 DEF ReadsResultSize
<1> QED  BY <1>2, <1>4, <1>6, <1>7, <1>8, <1>9 DEF UsingGlobal, t, q

-----------------------------------------------------------------------------
(*                           Why one is refused                            *)

(* Fewer bodies make fewer demands of a set. *)
LEMMA ClosedForFewer ==
  ASSUME NEW bodies, NEW more, bodies \subseteq more, NEW aggs, NEW xs, Closed(more, aggs, xs)
  PROVE  Closed(bodies, aggs, xs)
BY DEF Closed, Leads

LEMMA LostNeedsItself == lost \in Things /\ Needs[lost] = {lost}
<1>1. lost \in Things /\ lost.of = None
  BY DEF lost, Symbol, Things
<1> QED  BY <1>1 DEF Needs

(* A call needs nobody's name, or what some call below it is there for: the
   calls from that one on need each other in a circle. *)
LEMMA NeedsItself ==
  ASSUME IInv, Sound, phase \in Passes, stack # <<>>, Top.rest # <<>>, NEW y \in NeedsNow(prog, Top),
         \/ y = lost
         \/ \E s \in Resolving : y = Symbol(s)
         \/ \E a \in completing : y = Type(a)
  PROVE  Refused
<1> SUFFICES ASSUME NEW xs \in SUBSET Things, Closed(Procedures, Aggregates, xs)
             PROVE  \E core \in SUBSET xs : core # {} /\ \A x \in core : Needs[x] \cap core # {}
  BY DEF Refused
<1>1. Closed(Begun, Aggregates, xs) /\ Touched \subseteq xs
  <2>1. Begun \subseteq Procedures /\ Covered
    BY DEF Sound, KindsRight
  <2>2. Closed(Begun, Aggregates, xs)
    BY <2>1, ClosedForFewer
  <2> QED  BY <2>1, <2>2 DEF Covered
<1>2. y \in xs
  BY <1>1, NextUseReached DEF Sound
<1>3. CASE y = lost
  <2>1. {lost} \in SUBSET xs /\ {lost} # {} /\ \A x \in {lost} : Needs[x] \cap {lost} # {}
    BY <1>2, <1>3, LostNeedsItself
  <2> QED  BY <2>1
<1>4. CASE y # lost
  <2> DEFINE n == Len(stack)
  <2>1. /\ n \in Nat \ {0} /\ DOMAIN stack = 1..n /\ Top = stack[n]
    BY StackFacts DEF IInv, Top
  <2>2. Marks(prog, phase, mod, stack, status, completing)
    BY MarksForm DEF IInv
  <2>3. PICK j \in DOMAIN stack : ThingOf(stack[j]) = y /\ stack[j].task \in {"symbol", "type"}
    <3>1. CASE \E s \in Resolving : y = Symbol(s)
      <4>1. PICK s \in Resolving : y = Symbol(s)
        BY <3>1
      <4>2. Open(stack, "symbol", s)
        BY <2>2 DEF Marks, Resolving
      <4> QED  BY <4>1, <4>2 DEF Open, ThingOf, Symbol
    <3>2. CASE \E a \in completing : y = Type(a)
      <4>1. PICK a \in completing : y = Type(a)
        BY <3>2
      <4>2. Open(stack, "type", a)
        BY <2>2 DEF Marks, IInv, TypeOK
      <4> QED  BY <4>1, <4>2 DEF Open, ThingOf, Type
    <3> QED  BY <1>4, <3>1, <3>2
  <2> HIDE DEF n
  <2> DEFINE core == {ThingOf(stack[i]) : i \in j..n}
  <2>4. ASSUME NEW i \in j..n
        PROVE  i \in DOMAIN stack /\ stack[i].task \in {"symbol", "type"} /\ (i # j => CallNeeded(prog, stack, i))
    <3>1. i \in DOMAIN stack /\ (i # j => i # 1)
      BY <2>1, <2>3
    <3>2. i # j => CallNeeded(prog, stack, i)
      BY <3>1 DEF Sound, CallsNeeded
    <3> QED  BY <2>3, <3>1, <3>2 DEF CallNeeded
  <2>5. core \subseteq xs
    BY <1>1, <2>4, CallTouches
  <2>6. ASSUME NEW i \in j..n
        PROVE  Needs[ThingOf(stack[i])] \cap core # {}
    <3>1. stack[i] \in Frame /\ FrameOK(prog, Settled, stack[i]) /\ stack[i].task # "asserts"
      BY <2>4, CallTouches
    <3>2. CASE i = n
      BY <2>1, <2>3, <2>4, <3>1, <3>2, NextUseNeeded
    <3>3. CASE i # n
      <4>1. i + 1 \in j..n /\ i + 1 # j /\ i + 1 - 1 = i
        BY <2>1, <2>3, <3>3
      <4>2. stack[i].rest # <<>> /\ ThingOf(stack[i + 1]) \in NeedsNow(prog, stack[i])
        BY <2>4, <4>1 DEF CallNeeded
      <4> QED  BY <3>1, <4>1, <4>2, NextUseNeeded
    <3> QED  BY <3>2, <3>3
  <2>7. core # {}
    BY <2>1, <2>3
  <2>8. \A x \in core : Needs[x] \cap core # {}
    BY <2>6
  <2> HIDE DEF core
  <2> QED  BY <2>5, <2>7, <2>8
<1> QED  BY <1>3, <1>4

(* Every use that fails fails for such a reason. *)
LEMMA FailingRefuses ==
  ASSUME IInv, Sound, UseName, phase' \notin Passes
  PROVE  Refused
<1>1. Using /\ phase \in Passes /\ stack # <<>> /\ Top.rest # <<>>
  BY DEF UseName, Declare, UseLocal, UsingGlobal, LookupFails, Lookup, UseType, CyclicType, ZeroSize,
         Used, Resolved, Using
<1>2. CASE Declare
  <2>1. use.mode = "decl" /\ (use.name \in Top.locals \/ Found(use.name) # None)
    BY <1>1, <1>2 DEF Declare, Proceed
  <2> QED  BY <1>1, <2>1, UseNeeds, NeedsItself
<1>3. CASE LookupFails
  <2>1. CASE Found(use.name) = None
    BY <1>1, <1>3, <2>1, UseNeeds, NeedsItself DEF LookupFails
  <2>2. CASE Found(use.name) # None
    <3>1. UsingGlobal /\ status[Found(use.name)] = "resolving" /\ Found(use.name) \in Sym
      BY <1>1, <1>3, <2>2, TopFacts DEF LookupFails
    <3>2. Symbol(Found(use.name)) \in NeedsNow(prog, Top) /\ Found(use.name) \in Resolving
      BY <1>1, <2>2, <3>1, UseNeeds DEF Resolving
    <3> QED  BY <1>1, <3>2, NeedsItself
  <2> QED  BY <2>1, <2>2
<1>4. CASE CyclicType
  <2>1. Type(TypeUsed) \in NeedsNow(prog, Top) /\ TypeUsed \in completing
    BY <1>1, <1>4, UseNeeds DEF CyclicType
  <2> QED  BY <1>1, <2>1, NeedsItself
<1>5. CASE ZeroSize
  <2>1. ReadsResultSize(Source(prog, Top))
    BY <1>1, <1>5, UseNeeds DEF ZeroSize
  <2>2. CASE Top.task = "asserts"
    BY <2>1, <2>2 DEF Source, Refused
  <2>3. CASE Top.task # "asserts"
    <3>1. Len(stack) \in DOMAIN stack /\ Top = stack[Len(stack)]
      BY <1>1, StackFacts DEF IInv, Top
    <3>2. ThingOf(Top) \in Touched /\ FrameOK(prog, Settled, Top)
      BY <1>1, <2>3, <3>1, CallTouches
    <3>3. ThingOf(Top).of # None /\ ReadsResultSize(UsesOf(ThingOf(Top)))
      BY <2>1, <2>3, <3>2 DEF ThingOf, FrameOK, UsesOf, Source
    <3>4. ASSUME NEW xs \in SUBSET Things, Closed(Procedures, Aggregates, xs)
          PROVE  ThingOf(Top) \in xs
      <4>1. Closed(Begun, Aggregates, xs)
        BY <3>4, ClosedForFewer DEF Sound, KindsRight
      <4> QED  BY <3>2, <4>1 DEF Sound, Covered
    <3> QED  BY <3>3, <3>4 DEF Refused
  <2> QED  BY <2>2, <2>3
<1>6. CASE UseLocal \/ Lookup \/ UseType \/ Used
  BY <1>1, <1>6 DEF UseLocal, Lookup, UseType, Used, Proceed, Demand, Complete
<1> QED  BY <1>2, <1>3, <1>4, <1>5, <1>6 DEF UseName

-----------------------------------------------------------------------------
(*                      What a step leaves as it is                        *)

(* Whatever is settled next has what it needs. *)
LEMMA MetStays ==
  ASSUME IInv, [Next]_vars, Met
  PROVE  Met'
<1>1. Needs' = Needs
  BY ProgStays DEF Needs
<1>2. Settles
  BY NextSteps
<1> QED  BY <1>1, <1>2 DEF Met, Settles

LEMMA SameProgram ==
  ASSUME prog' = prog
  PROVE  /\ Needs' = Needs /\ Roots' = Roots /\ Procedures' = Procedures /\ Aggregates' = Aggregates
BY DEF Needs, Roots, Procedures, Aggregates

(* A set that holds all the program reaches goes on doing so, and holds what
   is on the way next. *)
LEMMA CoveredStays ==
  ASSUME prog' = prog, Covered, Begun \subseteq Begun',
         \A xs \in SUBSET Things : Closed(Begun', Aggregates, xs) /\ Touched \subseteq xs => Touched' \subseteq xs
  PROVE  Covered'
<1> SUFFICES ASSUME NEW xs \in SUBSET Things, Closed(Begun, Aggregates, xs)'
             PROVE  Touched' \subseteq xs
  BY DEF Covered
<1>1. Closed(Begun', Aggregates, xs)
  BY SameProgram DEF Closed, Leads
<1>2. Closed(Begun, Aggregates, xs)
  BY <1>1, ClosedForFewer
<1> QED  BY <1>1, <1>2 DEF Covered

Extends(q, r) == r = q \/ \E x \in Sym : r = Append(q, x)

LEMMA ExtendsSeq ==
  ASSUME NEW q \in Seq(Sym), NEW r, Extends(q, r)
  PROVE  /\ r \in Seq(Sym) /\ Len(q) <= Len(r) /\ Len(q) \in Nat /\ Len(r) \in Nat
         /\ DOMAIN q = 1..Len(q) /\ DOMAIN r = 1..Len(r)
         /\ \A i \in DOMAIN r : i <= Len(q) => i \in DOMAIN q /\ r[i] = q[i]
<1>1. Len(q) \in Nat /\ DOMAIN q = 1..Len(q)
  BY LenProperties
<1>2. CASE r = q
  BY <1>1, <1>2
<1>3. CASE \E x \in Sym : r = Append(q, x)
  <2>1. PICK x \in Sym : r = Append(q, x)
    BY <1>3
  <2>2. /\ r \in Seq(Sym) /\ Len(r) = Len(q) + 1 /\ DOMAIN r = 1..(Len(q) + 1)
        /\ \A i \in 1..Len(q) : r[i] = q[i]
    BY <2>1, PushSeq
  <2> QED  BY <1>1, <2>2
<1> QED  BY <1>2, <1>3 DEF Extends

(* A step within a pass leaves behind what its position has passed. *)
LEMMA PassStays ==
  ASSUME IInv, Sound, phase \in Passes, UNCHANGED <<prog, phase, pos>>,
         \A s \in Sym : status[s] = "resolved" => status'[s] = "resolved",
         complete \subseteq complete', checked \subseteq checked',
         Extends(procs, procs'), Extends(aggregates, aggregates'),
         \A x : Open(stack', "asserts", x) => Open(stack, "asserts", x) \/ phase = "asserts"
  PROVE  OrderBehind' /\ AssertsBehind' /\ BodiesBehind' /\ TypesBehind'
<1>1. Settled \subseteq Settled'
  BY SettledGrows
<1>2. pos \in Nat \ {0} /\ procs \in Seq(Sym) /\ aggregates \in Seq(Sym) /\ phase # "done"
  BY DEF IInv, TypeOK, Passes
<1>3. OrderBehind'
  <2>1. prog.order \in Seq(Sym)
    BY ProgramTypes DEF IInv
  <2>2. \A i \in DOMAIN prog.order : prog.order[i] \in Sym
    BY <2>1
  <2> QED  BY <2>2 DEF Sound, OrderBehind
<1>4. AssertsBehind'
  BY <1>1 DEF Sound, AssertsBehind
<1>5. BodiesBehind'
  <2>1. ASSUME phase = "bodies"
        PROVE  pos <= Len(procs') + 1 /\ \A i \in DOMAIN procs' : i < pos => procs'[i] \in checked'
    <3>1. /\ Len(procs) <= Len(procs') /\ Len(procs) \in Nat /\ Len(procs') \in Nat
          /\ DOMAIN procs' = 1..Len(procs')
          /\ \A i \in DOMAIN procs' : i <= Len(procs) => i \in DOMAIN procs /\ procs'[i] = procs[i]
      BY <1>2, ExtendsSeq
    <3>2. pos <= Len(procs) + 1 /\ \A i \in DOMAIN procs : i < pos => procs[i] \in checked
      BY <2>1 DEF Sound, BodiesBehind
    <3> QED  BY <1>2, <3>1, <3>2
  <2>2. ASSUME phase \in {"types", "done"}
        PROVE  ReachSettled'
    <3>1. PICK xs \in SUBSET Settled : Closed(Procedures, {}, xs)
      BY <2>2 DEF Sound, BodiesBehind, ReachSettled
    <3>2. Closed(Procedures, {}, xs)'
      BY <3>1, SameProgram DEF Closed, Leads
    <3> QED  BY <1>1, <3>1, <3>2 DEF ReachSettled
  <2> QED  BY <2>1, <2>2 DEF BodiesBehind
<1>6. TypesBehind'
  <2>1. ASSUME phase = "types"
        PROVE  pos <= Len(aggregates') + 1 /\ \A i \in DOMAIN aggregates' : i < pos => aggregates'[i] \in complete'
    <3>1. /\ Len(aggregates) <= Len(aggregates') /\ Len(aggregates) \in Nat /\ Len(aggregates') \in Nat
          /\ DOMAIN aggregates' = 1..Len(aggregates')
          /\ \A i \in DOMAIN aggregates' : i <= Len(aggregates) => i \in DOMAIN aggregates /\ aggregates'[i] = aggregates[i]
      BY <1>2, ExtendsSeq
    <3>2. pos <= Len(aggregates) + 1 /\ \A i \in DOMAIN aggregates : i < pos => aggregates[i] \in complete
      BY <2>1 DEF Sound, TypesBehind
    <3> QED  BY <1>2, <3>1, <3>2
  <2> QED  BY <1>2, <2>1 DEF TypesBehind
<1> QED  BY <1>3, <1>4, <1>5, <1>6

(* A step that settles nothing leaves the lists right. *)
LEMMA ListsStay ==
  ASSUME IInv, Sound, UNCHANGED <<prog, complete, checked, lists>>,
         \A s \in Sym : status'[s] = "resolved" <=> status[s] = "resolved",
         completing' \subseteq Aggregates, Begun' \subseteq Procedures
  PROVE  KindsRight' /\ Listed' /\ Settled' = Settled
<1>1. \A i \in DOMAIN aggregates : aggregates[i] \in Sym
  BY DEF IInv, TypeOK
<1>2. Settled' = Settled
  BY DEF Settled
<1>3. KindsRight'
  BY <1>1, SameProgram DEF Sound, KindsRight, lists
<1>4. Listed'
  BY SameProgram DEF Sound, Listed, lists
<1> QED  BY <1>2, <1>3, <1>4

-----------------------------------------------------------------------------
(*                  One lemma for each kind of step that lives             *)

LEMMA ProceedSound ==
  ASSUME IInv, Sound, Using, NEW locals \in SUBSET Names, Proceed(locals)
  PROVE  Met' => Sound'
<1> DEFINE e == [Top EXCEPT !.rest = Tail(@), !.locals = locals]
<1>1. /\ phase \in Passes /\ stack # <<>> /\ Top.rest # <<>> /\ stack' = Append(Below, e)
      /\ UNCHANGED <<prog, phase, pos, mod, status, typeOf, types, lists, checked>>
  BY DEF Using, Proceed
<1>2. stack \in Seq(Frame) /\ Top \in Frame /\ Tail(Top.rest) \in Seq(Use)
  BY <1>1, StackFacts, TopFacts DEF IInv, TypeOK
<1>3. e \in Frame /\ e.task = Top.task /\ e.sym = Top.sym
  BY <1>2 DEF Frame
<1> HIDE DEF e
<1>4. CallsNeeded(prog, stack') /\ \A k, x : Open(stack', k, x) <=> Open(stack, k, x)
  BY <1>1, <1>2, <1>3, Proceeded DEF Sound
<1>5. Begun' = Begun
  BY <1>1, <1>4 DEF Begun
<1>6. KindsRight' /\ Listed' /\ Settled' = Settled
  <2>1. completing' \subseteq Aggregates /\ Begun' \subseteq Procedures
    BY <1>1, <1>5 DEF Sound, KindsRight, types
  <2> QED  BY <1>1, <2>1, ListsStay DEF types
<1>7. Covered'
  <2>1. Touched' = Touched
    BY <1>1, <1>5, <1>6 DEF Touched, Resolving, types
  <2> QED  BY <1>1, <1>5, <2>1, CoveredStays DEF Sound
<1>8. OrderBehind' /\ AssertsBehind' /\ BodiesBehind' /\ TypesBehind'
  BY <1>1, <1>4, PassStays DEF Extends, types, lists
<1> QED  BY <1>1, <1>4, <1>6, <1>7, <1>8 DEF Sound

(* A symbol is asked for that the call, or the pass, is right to ask for. *)
LEMMA DemandSound ==
  ASSUME IInv, Sound, phase \in Passes, NEW s \in Sym, Demand(s),
         \A xs \in SUBSET Things : Closed(Begun, Aggregates, xs) => Symbol(s) \in xs,
         stack # <<>> => Top.rest # <<>> /\ Symbol(s) \in NeedsNow(prog, Top)
  PROVE  Met' => Sound'
<1>1. /\ status[s] = "unresolved" /\ UNCHANGED <<prog, phase, pos, types, checked>>
      /\ status \in [Sym -> {"unresolved", "resolving", "resolved"}] /\ prog.kind \in [Sym -> Kinds]
      /\ stack \in Seq(Frame) /\ aggregates \in Seq(Sym) /\ procs \in Seq(Sym)
  BY ProgramTypes DEF Demand, IInv, TypeOK
<1>2. CASE IsAggregate(prog, s)
  <2>1. /\ status' = [status EXCEPT ![s] = "resolved"] /\ aggregates' = Append(aggregates, s)
        /\ UNCHANGED <<mod, stack, procs, foreign, globals>>
    BY <1>2 DEF Demand
  <2>2. Settled' = Settled \cup {Symbol(s)} /\ Begun' = Begun /\ Resolving' = Resolving
    BY <1>1, <2>1 DEF Settled, types, Begun, Resolving
  <2>3. /\ DOMAIN aggregates' = 1..(Len(aggregates) + 1) /\ DOMAIN aggregates = 1..Len(aggregates)
        /\ Len(aggregates) \in Nat /\ aggregates'[Len(aggregates) + 1] = s
        /\ \A i \in 1..Len(aggregates) : aggregates'[i] = aggregates[i]
    BY <1>1, <2>1, PushSeq, LenProperties
  <2>4. s \in Aggregates /\ s \notin Procedures
    BY <1>2 DEF Aggregates, Procedures, IsAggregate
  <2>5. KindsRight'
    <3>1. \A i \in DOMAIN aggregates' : aggregates'[i] = s \/ (i \in DOMAIN aggregates /\ aggregates'[i] = aggregates[i])
      BY <2>3
    <3>2. \A i \in DOMAIN aggregates : aggregates[i] \in Sym
      BY <1>1
    <3> QED  BY <1>1, <2>1, <2>2, <2>4, <3>1, <3>2, SameProgram DEF Sound, KindsRight, types
  <2>6. Listed'
    <3>1. \A i \in DOMAIN aggregates : i \in DOMAIN aggregates' /\ aggregates'[i] = aggregates[i]
      BY <2>3
    <3>2. Len(aggregates) + 1 \in DOMAIN aggregates'
      BY <2>3
    <3>3. \A x \in Sym : x # s => (status'[x] = "resolved" <=> status[x] = "resolved")
      BY <1>1, <2>1
    <3> QED  BY <1>1, <2>1, <2>3, <2>4, <3>1, <3>2, <3>3, SameProgram DEF Sound, Listed
  <2>7. Covered'
    <3>1. Touched' = Touched \cup {Symbol(s)}
      BY <1>1, <2>2 DEF Touched, types
    <3>2. ASSUME NEW xs \in SUBSET Things, Closed(Begun', Aggregates, xs), Touched \subseteq xs
          PROVE  Touched' \subseteq xs
      BY <2>2, <3>1, <3>2
    <3> QED  BY <1>1, <2>2, <3>2, CoveredStays DEF Sound
  <2>8. OrderBehind' /\ AssertsBehind' /\ BodiesBehind' /\ TypesBehind'
    BY <1>1, <2>1, PassStays DEF Extends, types
  <2> QED  BY <1>1, <2>1, <2>5, <2>6, <2>7, <2>8 DEF Sound
<1>3. CASE ~IsAggregate(prog, s)
  <2> DEFINE e == Entry("symbol", s, prog.uses[s], {})
  <2>1. /\ status' = [status EXCEPT ![s] = "resolving"] /\ Call("symbol", s, prog.uses[s], {})
        /\ UNCHANGED <<typeOf, lists>>
    BY <1>3 DEF Demand
  <2>2. prog.uses[s] \in Seq(Use) /\ mod \in Modules
    BY ProgramTypes DEF IInv, TypeOK
  <2>3. e \in Frame /\ e.task = "symbol" /\ e.sym = s /\ stack' = Append(stack, e)
    BY <2>1, <2>2 DEF Entry, Frame, Tasks, Call, Enter
  <2> HIDE DEF e
  <2>4. CallsNeeded(prog, stack') /\ \A k, x : Open(stack', k, x) <=> Open(stack, k, x) \/ (e.task = k /\ e.sym = x)
    <3>1. ThingOf(e) = Symbol(s)
      BY <2>3 DEF ThingOf, Symbol
    <3> QED  BY <1>1, <2>3, <3>1, Pushed DEF Sound
  <2>5. Begun' = Begun
    BY <1>1, <2>3, <2>4 DEF Begun
  <2>6. \A x \in Sym : status'[x] = "resolved" <=> status[x] = "resolved"
    BY <1>1, <2>1
  <2>7. KindsRight' /\ Listed' /\ Settled' = Settled
    <3>1. completing' \subseteq Aggregates /\ Begun' \subseteq Procedures
      BY <1>1, <2>5 DEF Sound, KindsRight, types
    <3> QED  BY <1>1, <2>1, <2>6, <3>1, ListsStay DEF types
  <2>8. Covered'
    <3>1. Resolving' = Resolving \cup {s}
      BY <1>1, <2>1 DEF Resolving
    <3>2. Touched' = Touched \cup {Symbol(s)}
      BY <1>1, <2>5, <2>7, <3>1 DEF Touched, types
    <3>3. ASSUME NEW xs \in SUBSET Things, Closed(Begun', Aggregates, xs), Touched \subseteq xs
          PROVE  Touched' \subseteq xs
      BY <2>5, <3>2, <3>3
    <3> QED  BY <1>1, <2>5, <3>3, CoveredStays DEF Sound
  <2>9. OrderBehind' /\ AssertsBehind' /\ BodiesBehind' /\ TypesBehind'
    BY <1>1, <2>1, <2>3, <2>4, <2>6, PassStays DEF Extends, types, lists
  <2> QED  BY <1>1, <2>4, <2>7, <2>8, <2>9 DEF Sound
<1> QED  BY <1>2, <1>3

(* A size is asked for that the call, or the last pass, is right to ask for. *)
LEMMA CompleteSound ==
  ASSUME IInv, Sound, phase \in Passes, NEW a \in Aggregates, Complete(a),
         \A xs \in SUBSET Things : Closed(Begun, Aggregates, xs) => Type(a) \in xs,
         stack # <<>> => Top.rest # <<>> /\ Type(a) \in NeedsNow(prog, Top)
  PROVE  Met' => Sound'
<1> DEFINE e == Entry("type", a, prog.uses[a], {})
<1>1. /\ UNCHANGED <<prog, phase, pos, status, typeOf, complete, lists, checked>>
      /\ completing' = completing \cup {a} /\ Call("type", a, prog.uses[a], {})
      /\ stack \in Seq(Frame) /\ a \in Sym
  BY DEF Complete, IInv, TypeOK, Aggregates
<1>2. prog.uses[a] \in Seq(Use) /\ mod \in Modules
  BY <1>1, ProgramTypes DEF IInv, TypeOK
<1>3. e \in Frame /\ e.task = "type" /\ e.sym = a /\ stack' = Append(stack, e)
  BY <1>1, <1>2 DEF Entry, Frame, Tasks, Call, Enter
<1> HIDE DEF e
<1>4. CallsNeeded(prog, stack') /\ \A k, x : Open(stack', k, x) <=> Open(stack, k, x) \/ (e.task = k /\ e.sym = x)
  <2>1. ThingOf(e) = Type(a)
    BY <1>3 DEF ThingOf, Type
  <2> QED  BY <1>1, <1>3, <2>1, Pushed DEF Sound
<1>5. Begun' = Begun
  BY <1>1, <1>3, <1>4 DEF Begun
<1>6. KindsRight' /\ Listed' /\ Settled' = Settled
  <2>1. completing' \subseteq Aggregates /\ Begun' \subseteq Procedures
    BY <1>1, <1>5 DEF Sound, KindsRight
  <2> QED  BY <1>1, <2>1, ListsStay
<1>7. Covered'
  <2>1. Touched' = Touched \cup {Type(a)}
    BY <1>1, <1>5, <1>6 DEF Touched, Resolving
  <2>2. ASSUME NEW xs \in SUBSET Things, Closed(Begun', Aggregates, xs), Touched \subseteq xs
        PROVE  Touched' \subseteq xs
    BY <1>5, <2>1, <2>2
  <2> QED  BY <1>1, <1>5, <2>2, CoveredStays DEF Sound
<1>8. OrderBehind' /\ AssertsBehind' /\ BodiesBehind' /\ TypesBehind'
  BY <1>1, <1>3, <1>4, PassStays DEF Extends, lists
<1> QED  BY <1>1, <1>4, <1>6, <1>7, <1>8 DEF Sound

(* A call that returns: its calls below are as needed as they were. *)
LEMMA ReturnFacts ==
  ASSUME IInv, Sound, NEW task, Returning(task), Leave(Top)
  PROVE  /\ phase \in Passes /\ Top.task = task /\ stack # <<>> /\ CallsNeeded(prog, stack')
         /\ \A k, x : Open(stack', k, x) <=> Open(stack, k, x) /\ ~(task = k /\ Top.sym = x)
         /\ Open(stack, task, Top.sym)
         /\ task # "asserts" => Top.sym \in Sym
<1>1. /\ phase \in Passes /\ stack # <<>> /\ Top.task = task /\ Open(stack, task, Top.sym)
      /\ task # "asserts" => Top.sym \in Sym
  BY CallIsMet
<1>2. stack \in Seq(Frame) /\ NoTwice(stack) /\ stack' = Below
  BY <1>1, MarksForm DEF IInv, TypeOK, Marks, Leave
<1> QED  BY <1>1, <1>2, Popped DEF Sound

LEMMA FinishSymbolSound ==
  ASSUME IInv, Sound, FinishSymbol
  PROVE  Met' => Sound'
<1> DEFINE s == Top.sym
<1>1. /\ Returning("symbol") /\ UNCHANGED <<prog, phase, pos, types, checked>>
      /\ status' = [status EXCEPT ![s] = "resolved"] /\ Record(s) /\ Leave(Top)
  BY DEF FinishSymbol
<1>2. /\ phase \in Passes /\ s \in Sym /\ CallsNeeded(prog, stack') /\ Open(stack, "symbol", s)
      /\ \A k, x : Open(stack', k, x) <=> Open(stack, k, x) /\ ~("symbol" = k /\ s = x)
  BY <1>1, ReturnFacts
<1>3. s \notin Aggregates
  BY <1>1, CallIsMet DEF FrameOK, Aggregates
<1> HIDE DEF s
<1>4. /\ status[s] = "resolving" /\ status \in [Sym -> {"unresolved", "resolving", "resolved"}]
      /\ procs \in Seq(Sym) /\ aggregates \in Seq(Sym)
  BY <1>2, MarksForm DEF IInv, TypeOK, Marks
<1>5. /\ Extends(procs, procs') /\ aggregates' = aggregates
      /\ s \in Procedures => procs' = Append(procs, s)
      /\ s \notin Procedures => procs' = procs
  BY <1>1, <1>2 DEF Record, Extends, Procedures
<1>6. \A x \in Sym : status'[x] = "resolved" <=> status[x] = "resolved" \/ x = s
  BY <1>1, <1>2, <1>4
<1>7. Begun' = Begun
  BY <1>1, <1>2 DEF Begun
<1>8. Touched' \subseteq Touched
  <2>1. Resolving' = Resolving \ {s} /\ s \in Resolving
    BY <1>1, <1>2, <1>4 DEF Resolving
  <2>2. Settled' = Settled \cup {Symbol(s)}
    BY <1>1, <1>2, <1>6 DEF Settled, types
  <2> QED  BY <1>1, <1>7, <2>1, <2>2 DEF Touched, types
<1>9. KindsRight'
  <2>1. \A i \in DOMAIN procs' : procs'[i] = s \/ (i \in DOMAIN procs /\ procs'[i] = procs[i])
    <3>1. CASE procs' = procs
      BY <3>1
    <3>2. CASE procs' = Append(procs, s)
      BY <1>2, <1>4, <3>2, PushSeq, LenProperties
    <3> QED  BY <1>5, <3>1, <3>2
  <2>2. \A i \in DOMAIN procs' : procs'[i] \in Procedures
    BY <1>5, <2>1 DEF Sound, KindsRight
  <2>3. \A i \in DOMAIN aggregates : aggregates[i] \in Sym
    BY <1>4
  <2> QED  BY <1>1, <1>5, <1>6, <1>7, <2>2, <2>3, SameProgram DEF Sound, KindsRight, types
<1>10. Listed'
  <2>1. ASSUME NEW x \in Procedures, status'[x] = "resolved"
        PROVE  \E i \in DOMAIN procs' : procs'[i] = x
    <3>1. x \in Sym
      BY DEF Procedures
    <3>2. CASE x = s
      <4>1. Len(procs) + 1 \in DOMAIN procs' /\ procs'[Len(procs) + 1] = s
        BY <1>2, <1>4, <1>5, <2>1, <3>2, PushSeq, LenProperties
      <4> QED  BY <3>2, <4>1
    <3>3. CASE x # s
      <4>1. PICK i \in DOMAIN procs : procs[i] = x
        BY <1>6, <2>1, <3>1, <3>3 DEF Sound, Listed
      <4>2. i \in DOMAIN procs' /\ procs'[i] = procs[i]
        <5>1. CASE procs' = procs
          BY <5>1
        <5>2. CASE procs' = Append(procs, s)
          BY <1>2, <1>4, <5>2, PushSeq, LenProperties
        <5> QED  BY <1>5, <5>1, <5>2
      <4> QED  BY <4>1, <4>2
    <3> QED  BY <3>2, <3>3
  <2>2. ASSUME NEW x \in Aggregates, status'[x] = "resolved"
        PROVE  \E i \in DOMAIN aggregates' : aggregates'[i] = x
    BY <1>3, <1>5, <1>6, <2>2 DEF Sound, Listed, Aggregates
  <2> QED  BY <1>1, <2>1, <2>2, SameProgram DEF Listed
<1>11. Covered'
  BY <1>1, <1>7, <1>8, CoveredStays DEF Sound
<1>12. OrderBehind' /\ AssertsBehind' /\ BodiesBehind' /\ TypesBehind'
  BY <1>1, <1>2, <1>5, <1>6, PassStays DEF Extends, types
<1> QED  BY <1>1, <1>2, <1>9, <1>10, <1>11, <1>12 DEF Sound

LEMMA FinishTypeSound ==
  ASSUME IInv, Sound, FinishType
  PROVE  Met' => Sound'
<1> DEFINE a == Top.sym
<1>1. /\ Returning("type") /\ UNCHANGED <<prog, phase, pos, status, typeOf, lists, checked>>
      /\ complete' = complete \cup {a} /\ completing' = completing \ {a} /\ Leave(Top)
  BY DEF FinishType
<1>2. /\ phase \in Passes /\ a \in Sym /\ CallsNeeded(prog, stack') /\ Open(stack, "type", a)
      /\ \A k, x : Open(stack', k, x) <=> Open(stack, k, x) /\ ~("type" = k /\ a = x)
  BY <1>1, ReturnFacts
<1> HIDE DEF a
<1>3. a \in completing
  BY <1>2, MarksForm DEF IInv, Marks
<1>4. Begun' = Begun
  BY <1>1, <1>2 DEF Begun
<1>5. Touched' \subseteq Touched
  <2>1. Settled' = Settled \cup {Type(a)} /\ Resolving' = Resolving
    BY <1>1 DEF Settled, Resolving
  <2> QED  BY <1>1, <1>3, <1>4, <2>1 DEF Touched
<1>6. KindsRight' /\ Listed'
  BY <1>1, <1>3, <1>4, SameProgram DEF Sound, KindsRight, Listed, lists
<1>7. Covered'
  BY <1>1, <1>4, <1>5, CoveredStays DEF Sound
<1>8. OrderBehind' /\ AssertsBehind' /\ BodiesBehind' /\ TypesBehind'
  BY <1>1, <1>2, PassStays DEF Extends, lists
<1> QED  BY <1>1, <1>2, <1>6, <1>7, <1>8 DEF Sound

LEMMA FinishBodySound ==
  ASSUME IInv, Sound, FinishBody
  PROVE  Met' => Sound'
<1> DEFINE s == Top.sym
<1>1. /\ Returning("body") /\ UNCHANGED <<prog, phase, pos, status, typeOf, types, lists>>
      /\ checked' = checked \cup {s} /\ Leave(Top)
  BY DEF FinishBody
<1>2. /\ phase \in Passes /\ s \in Sym /\ CallsNeeded(prog, stack') /\ Open(stack, "body", s)
      /\ \A k, x : Open(stack', k, x) <=> Open(stack, k, x) /\ ~("body" = k /\ s = x)
  BY <1>1, ReturnFacts
<1> HIDE DEF s
<1>3. Begun' = Begun /\ s \in Begun
  BY <1>1, <1>2 DEF Begun
<1>4. Touched' \subseteq Touched
  <2>1. Settled' = Settled \cup {Body(s)} /\ Resolving' = Resolving
    BY <1>1 DEF Settled, Resolving, types
  <2> QED  BY <1>1, <1>3, <2>1 DEF Touched, types
<1>5. KindsRight' /\ Listed'
  BY <1>1, <1>3, SameProgram DEF Sound, KindsRight, Listed, lists, types
<1>6. Covered'
  BY <1>1, <1>3, <1>4, CoveredStays DEF Sound
<1>7. OrderBehind' /\ AssertsBehind' /\ BodiesBehind' /\ TypesBehind'
  BY <1>1, <1>2, PassStays DEF Extends, lists, types
<1> QED  BY <1>1, <1>2, <1>5, <1>6, <1>7 DEF Sound

(* The #static_assert statements begin and end, and a body begins. *)
LEMMA AssertsSound ==
  ASSUME IInv, Sound, Asserts
  PROVE  Met' => Sound'
<1> DEFINE e == Entry("asserts", None, prog.asserts, {})
<1>1. /\ UNCHANGED <<prog, phase, status, typeOf, types, lists, checked>>
      /\ Call("asserts", None, prog.asserts, {}) /\ phase = "asserts" /\ stack = <<>>
      /\ stack \in Seq(Frame)
  BY DEF Asserts, At, IInv, TypeOK
<1>2. prog.asserts \in Seq(Use) /\ mod \in Modules
  BY ProgramTypes DEF IInv, TypeOK
<1>3. e \in Frame /\ e.task = "asserts" /\ e.sym = None /\ stack' = Append(stack, e)
  BY <1>1, <1>2 DEF Entry, Frame, Tasks, Call, Enter
<1> HIDE DEF e
<1>4. CallsNeeded(prog, stack') /\ \A k, x : Open(stack', k, x) <=> Open(stack, k, x) \/ (e.task = k /\ e.sym = x)
  BY <1>1, <1>3, Pushed DEF Sound
<1>5. Begun' = Begun
  BY <1>1, <1>3, <1>4 DEF Begun
<1>6. KindsRight' /\ Listed' /\ Settled' = Settled
  <2>1. completing' \subseteq Aggregates /\ Begun' \subseteq Procedures
    BY <1>1, <1>5 DEF Sound, KindsRight, types
  <2> QED  BY <1>1, <2>1, ListsStay DEF types
<1>7. Covered'
  <2>1. Touched' = Touched
    BY <1>1, <1>5, <1>6 DEF Touched, Resolving, types
  <2> QED  BY <1>1, <1>5, <2>1, CoveredStays DEF Sound
<1>8. OrderBehind' /\ AssertsBehind' /\ BodiesBehind' /\ TypesBehind'
  BY <1>1 DEF Sound, OrderBehind, AssertsBehind, BodiesBehind, TypesBehind
<1> QED  BY <1>1, <1>4, <1>6, <1>7, <1>8 DEF Sound

LEMMA FinishAssertsSound ==
  ASSUME IInv, Sound, FinishAsserts
  PROVE  Met' => Sound'
<1>1. /\ Returning("asserts") /\ UNCHANGED <<prog, status, typeOf, types, lists, checked>>
      /\ Leave(Top) /\ phase' = "bodies" /\ pos' = 1
  BY DEF FinishAsserts
<1>2. /\ CallsNeeded(prog, stack') /\ Open(stack, "asserts", Top.sym)
      /\ \A k, x : Open(stack', k, x) <=> Open(stack, k, x) /\ ~("asserts" = k /\ Top.sym = x)
  BY <1>1, ReturnFacts
<1>3. /\ Top.sym = None /\ Top \in Frame /\ FrameOK(prog, Settled, Top)
      /\ \A i \in DOMAIN prog.asserts : NeedsAt(prog, Main, prog.asserts, i, {}) \subseteq Settled
  <2>1. Top.task = "asserts" /\ FrameOK(prog, Settled, Top) /\ Top \in Frame /\ mod = ModFor(prog, Top.sym)
        /\ \A i \in DOMAIN Source(prog, Top) :
             NeedsAt(prog, mod, Source(prog, Top), i, Known(prog, Top)) \subseteq Settled
    BY <1>1, CallIsMet
  <2>2. Top.sym = None /\ mod = Main
    BY <2>1 DEF FrameOK, ModFor
  <2> QED  BY <2>1, <2>2 DEF Source, Known
<1>4. Begun' = Begun
  BY <1>1, <1>2 DEF Begun
<1>5. KindsRight' /\ Listed' /\ Settled' = Settled
  <2>1. completing' \subseteq Aggregates /\ Begun' \subseteq Procedures
    BY <1>1, <1>4 DEF Sound, KindsRight, types
  <2> QED  BY <1>1, <2>1, ListsStay DEF types
<1>6. Covered'
  <2>1. Touched' = Touched
    BY <1>1, <1>4, <1>5 DEF Touched, Resolving, types
  <2> QED  BY <1>1, <1>4, <2>1, CoveredStays DEF Sound
<1>7. OrderBehind'
  BY <1>1, <1>2 DEF Sound, OrderBehind, AssertsBehind
<1>8. AssertsBehind'
  <2>1. \A x : Open(stack, "asserts", x) => x = None
    <3> SUFFICES ASSUME NEW i \in DOMAIN stack, stack[i].task = "asserts"  PROVE stack[i].sym = None
      BY DEF Open
    <3> QED  BY DEF IInv, FramesOK, FramesRight, FrameOK
  <2>2. \A x : ~Open(stack', "asserts", x)
    BY <1>2, <1>3, <2>1
  <2>3. NeedsOf(prog, Main, prog.asserts, {}) \subseteq Settled'
    BY <1>3, <1>5 DEF NeedsOf
  <2> QED  BY <1>1, <2>2, <2>3 DEF AssertsBehind
<1>9. BodiesBehind' /\ TypesBehind'
  <2>1. Len(procs) \in Nat /\ DOMAIN procs = 1..Len(procs)
    BY LenProperties DEF IInv, TypeOK
  <2> QED  BY <1>1, <2>1 DEF BodiesBehind, TypesBehind, lists
<1> QED  BY <1>1, <1>2, <1>5, <1>6, <1>7, <1>8, <1>9 DEF Sound

LEMMA BodySound ==
  ASSUME IInv, Sound, phase \in Passes, stack = <<>>, NEW i \in DOMAIN procs,
         Call("body", procs[i], prog.body[procs[i]], Params(prog, procs[i])),
         UNCHANGED <<prog, phase, pos, status, typeOf, types, lists, checked>>
  PROVE  Met' => Sound'
<1> DEFINE s == procs[i]  e == Entry("body", s, prog.body[s], Params(prog, s))
<1>1. s \in Sym /\ s \in Procedures /\ stack \in Seq(Frame)
  BY DEF IInv, TypeOK, Sound, KindsRight
<1>2. prog.body[s] \in Seq(Use) /\ prog.uses[s] \in Seq(Use) /\ mod \in Modules
  BY <1>1, ProgramTypes DEF IInv, TypeOK
<1>3. Params(prog, s) \in SUBSET Names
  <2>1. \A k \in DOMAIN prog.uses[s] : prog.uses[s][k] \in Use
    BY <1>2
  <2> QED  BY <2>1 DEF Params, Use
<1>4. e \in Frame /\ e.task = "body" /\ e.sym = s /\ stack' = Append(stack, e)
  BY <1>1, <1>2, <1>3 DEF Entry, Frame, Tasks, Call, Enter
<1> HIDE DEF e, s
<1>5. CallsNeeded(prog, stack') /\ \A k, x : Open(stack', k, x) <=> Open(stack, k, x) \/ (e.task = k /\ e.sym = x)
  BY <1>1, <1>4, Pushed DEF Sound
<1>6. Begun' = Begun \cup {s}
  BY <1>1, <1>4, <1>5 DEF Begun
<1>7. KindsRight' /\ Listed' /\ Settled' = Settled
  <2>1. completing' \subseteq Aggregates /\ Begun' \subseteq Procedures
    BY <1>1, <1>6 DEF Sound, KindsRight, types
  <2> QED  BY <2>1, ListsStay DEF types
<1>8. Covered'
  <2>1. Touched' = Touched \cup {Body(s)}
    BY <1>6, <1>7 DEF Touched, Resolving, types
  <2>2. Symbol(s) \in Settled
    BY DEF IInv, ProcsResolved, s
  <2>3. ASSUME NEW xs \in SUBSET Things, Closed(Begun', Aggregates, xs), Touched \subseteq xs
        PROVE  Touched' \subseteq xs
    <3>1. Symbol(s) \in xs /\ Symbol(s).of = s
      BY <2>2, <2>3 DEF Touched, Symbol
    <3>2. Body(s) \in Leads(Begun', Aggregates, Symbol(s))
      BY <1>6, <3>1 DEF Leads
    <3> QED  BY <2>1, <2>3, <3>1, <3>2 DEF Closed
  <2> QED  BY <1>6, <2>3, CoveredStays DEF Sound
<1>9. OrderBehind' /\ AssertsBehind' /\ BodiesBehind' /\ TypesBehind'
  BY <1>4, <1>5, PassStays DEF Extends, lists, types
<1> QED  BY <1>5, <1>7, <1>8, <1>9 DEF Sound

(* Going on to the next position, or the next pass, settles nothing. *)
LEMMA PassFacts ==
  ASSUME IInv, Sound, stack = <<>>, UNCHANGED <<prog, mod, stack, status, typeOf, types, lists, checked>>
  PROVE  /\ KindsRight' /\ Listed' /\ CallsNeeded(prog', stack') /\ Covered'
         /\ Settled' = Settled /\ \A k, x : ~Open(stack', k, x)
<1>1. Begun' = Begun
  BY DEF Begun
<1>2. KindsRight' /\ Listed' /\ Settled' = Settled
  <2>1. completing' \subseteq Aggregates /\ Begun' \subseteq Procedures
    BY <1>1 DEF Sound, KindsRight, types
  <2> QED  BY <2>1, ListsStay DEF types
<1>3. Covered'
  <2>1. Touched' = Touched
    BY <1>1, <1>2 DEF Touched, Resolving, types
  <2> QED  BY <1>1, <2>1, CoveredStays DEF Sound
<1>4. DOMAIN stack = {}
  OBVIOUS
<1> QED  BY <1>2, <1>3, <1>4 DEF CallsNeeded, Open

(* Once the bodies are done, all is settled that is reached otherwise than
   through an aggregate's fields. *)
LEMMA BodiesDone ==
  ASSUME IInv, Sound, phase = "bodies", pos > Len(procs)
  PROVE  Closed(Procedures, {}, Settled)
<1>1. /\ procs \in Seq(Sym) /\ Len(procs) \in Nat /\ DOMAIN procs = 1..Len(procs) /\ pos \in Nat
      /\ prog.order \in Seq(Sym)
  BY LenProperties, ProgramTypes DEF IInv, TypeOK
<1>2. \A i \in DOMAIN procs : procs[i] \in checked
  BY <1>1 DEF Sound, BodiesBehind
<1>3. Roots \subseteq Settled
  <2>1. \A i \in DOMAIN prog.order : status[prog.order[i]] = "resolved" /\ prog.order[i] \in Sym
    BY <1>1 DEF Sound, OrderBehind
  <2>2. NeedsOf(prog, Main, prog.asserts, {}) \subseteq Settled
    BY DEF Sound, AssertsBehind
  <2> QED  BY <2>1, <2>2 DEF Roots, Settled
<1>4. ASSUME NEW x \in Settled, NEW s \in {x.of} \cap Procedures
      PROVE  Body(s) \in Settled
  <2>1. s \in Sym /\ s = x.of /\ s \notin Aggregates
    BY DEF Procedures, Aggregates, IsAggregate
  <2>2. CASE \E t \in Sym : x = Symbol(t) /\ status[t] = "resolved"
    <3>1. status[s] = "resolved"
      BY <2>1, <2>2 DEF Symbol
    <3>2. PICK i \in DOMAIN procs : procs[i] = s
      BY <2>1, <3>1 DEF Sound, Listed
    <3> QED  BY <1>2, <3>2 DEF Settled
  <2>3. CASE \E a \in complete : x = Type(a)
    <3>1. s \in complete
      BY <2>1, <2>3 DEF Type
    <3> QED  BY <2>1, <3>1 DEF Sound, KindsRight
  <2>4. CASE \E t \in checked : x = Body(t)
    BY <2>1, <2>4 DEF Body
  <2> QED  BY <2>2, <2>3, <2>4 DEF Settled
<1> QED  BY <1>3, <1>4 DEF Closed, Leads, Sound, Met

-----------------------------------------------------------------------------
(*                         Every step of the resolver                      *)

LEMMA UseNameSound ==
  ASSUME IInv, Sound, UseName
  PROVE  IF phase' \in Passes THEN Met' => Sound' ELSE phase' # "done" /\ Refused
<1>1. Using /\ phase \in Passes /\ stack # <<>> /\ Top.rest # <<>> /\ phase # "done"
  BY DEF UseName, Declare, UseLocal, UsingGlobal, LookupFails, Lookup, UseType, CyclicType, ZeroSize,
         Used, Resolved, Using, Passes
<1>2. use.name \in Names /\ Top.locals \in SUBSET Names /\ Found(use.name) \in Sym \cup {None}
  BY <1>1, TopFacts, StackFacts DEF Frame, IInv
<1>3. phase' # "done"
  BY <1>1 DEF UseName, Declare, UseLocal, LookupFails, Lookup, UseType, CyclicType, ZeroSize, Used,
              Proceed, Demand, Complete, Fail, Abort
<1>4. phase' \notin Passes => Refused
  BY FailingRefuses
<1>5. ASSUME phase' \in Passes  PROVE Met' => Sound'
  <2>1. CASE Lookup
    <3>1. Found(use.name) \in Sym /\ Demand(Found(use.name)) /\ Symbol(Found(use.name)) \in NeedsNow(prog, Top)
      BY <1>1, <1>2, <2>1, UseNeeds DEF Lookup
    <3>2. \A xs \in SUBSET Things : Closed(Begun, Aggregates, xs) => Symbol(Found(use.name)) \in xs
      BY <1>1, <3>1, NextUseReached DEF Sound
    <3> QED  BY <1>1, <3>1, <3>2, DemandSound
  <2>2. CASE UseType
    <3>1. TypeUsed \in Aggregates /\ Complete(TypeUsed) /\ Type(TypeUsed) \in NeedsNow(prog, Top)
      BY <1>1, <2>2, UseNeeds DEF UseType
    <3>2. \A xs \in SUBSET Things : Closed(Begun, Aggregates, xs) => Type(TypeUsed) \in xs
      BY <1>1, <3>1, NextUseReached DEF Sound
    <3> QED  BY <1>1, <3>1, <3>2, CompleteSound
  <2>3. CASE Declare \/ UseLocal \/ Used
    <3>1. Proceed(Top.locals) \/ Proceed(Top.locals \cup {use.name})
      BY <1>5, <2>3 DEF Declare, UseLocal, Used, Abort, Fail, Passes
    <3> QED  BY <1>1, <1>2, <3>1, ProceedSound
  <2>4. CASE LookupFails \/ CyclicType \/ ZeroSize
    BY <1>5, <2>4 DEF LookupFails, CyclicType, ZeroSize, Fail, Passes
  <2> QED  BY <2>1, <2>2, <2>3, <2>4 DEF UseName
<1> QED  BY <1>3, <1>4, <1>5

LEMMA PassSound ==
  ASSUME IInv, Sound, Pass
  PROVE  phase' \in Passes \cup {"done"} /\ (Met' => Sound')
<1>1. phase \in Passes /\ stack = <<>> /\ pos \in Nat \ {0}
  BY DEF Pass, Headers, Asserts, Bodies, Completions, At, Passes, IInv, TypeOK
<1>2. /\ procs \in Seq(Sym) /\ Len(procs) \in Nat /\ DOMAIN procs = 1..Len(procs)
      /\ aggregates \in Seq(Sym) /\ Len(aggregates) \in Nat /\ DOMAIN aggregates = 1..Len(aggregates)
      /\ prog.order \in Seq(Sym) /\ Len(prog.order) \in Nat /\ DOMAIN prog.order = 1..Len(prog.order)
  BY LenProperties, ProgramTypes DEF IInv, TypeOK
<1>3. CASE Headers
  <2>1. phase = "headers"
    BY <1>3 DEF Headers, At
  <2>2. CASE pos > Len(prog.order)
    <3>1. Begin("asserts")
      BY <1>3, <2>2 DEF Headers
    <3>2. /\ phase' = "asserts" /\ UNCHANGED <<prog, mod, stack, status, typeOf, types, lists, checked>>
      BY <3>1 DEF Begin
    <3>3. \A i \in DOMAIN prog.order : status[prog.order[i]] = "resolved"
      BY <1>1, <1>2, <2>2 DEF Sound, OrderBehind
    <3>4. OrderBehind' /\ AssertsBehind' /\ BodiesBehind' /\ TypesBehind'
      BY <1>1, <3>2, <3>3, PassFacts DEF OrderBehind, AssertsBehind, BodiesBehind, TypesBehind
    <3> QED  BY <1>1, <3>2, <3>4, PassFacts DEF Sound, Passes
  <2>3. CASE ~(pos > Len(prog.order)) /\ status[prog.order[pos]] = "resolved"
    <3>1. pos' = pos + 1 /\ UNCHANGED <<prog, phase, mod, stack, status, typeOf, types, lists, checked>>
      BY <1>3, <2>3 DEF Headers, Advance
    <3>2. \A i \in DOMAIN prog.order : i < pos + 1 => i < pos \/ i = pos
      BY <1>1, <1>2
    <3>3. OrderBehind'
      BY <2>1, <2>3, <3>1, <3>2 DEF Sound, OrderBehind
    <3>4. AssertsBehind' /\ BodiesBehind' /\ TypesBehind'
      BY <1>1, <2>1, <3>1, PassFacts DEF AssertsBehind, BodiesBehind, TypesBehind
    <3> QED  BY <1>1, <3>1, <3>3, <3>4, PassFacts DEF Sound
  <2>4. CASE ~(pos > Len(prog.order)) /\ status[prog.order[pos]] # "resolved"
    <3>1. Demand(prog.order[pos]) /\ pos \in DOMAIN prog.order /\ prog.order[pos] \in Sym
      BY <1>1, <1>2, <1>3, <2>4 DEF Headers
    <3>2. Symbol(prog.order[pos]) \in Roots
      BY <3>1 DEF Roots
    <3>3. phase' = phase
      BY <3>1 DEF Demand
    <3> QED  BY <1>1, <3>1, <3>2, <3>3, DemandSound DEF Closed
  <2> QED  BY <2>2, <2>3, <2>4
<1>4. CASE Asserts
  BY <1>1, <1>4, AssertsSound DEF Asserts
<1>5. CASE Bodies
  <2>1. phase = "bodies"
    BY <1>5 DEF Bodies, At
  <2>2. CASE pos > Len(procs)
    <3>1. Begin("types")
      BY <1>5, <2>2 DEF Bodies
    <3>2. /\ phase' = "types" /\ pos' = 1 /\ UNCHANGED <<prog, mod, stack, status, typeOf, types, lists, checked>>
      BY <3>1 DEF Begin
    <3>3. ReachSettled'
      <4>1. Closed(Procedures, {}, Settled) /\ Settled' = Settled
        BY <1>1, <2>1, <2>2, <3>2, BodiesDone, PassFacts
      <4>2. Closed(Procedures, {}, Settled)'
        BY <3>2, <4>1, SameProgram DEF Closed, Leads
      <4> QED  BY <4>2 DEF ReachSettled
    <3>4. OrderBehind' /\ AssertsBehind' /\ TypesBehind'
      BY <1>1, <1>2, <2>1, <3>2, PassFacts DEF Sound, OrderBehind, AssertsBehind, TypesBehind, lists
    <3>5. BodiesBehind'
      BY <3>2, <3>3 DEF BodiesBehind
    <3> QED  BY <1>1, <3>2, <3>4, <3>5, PassFacts DEF Sound, Passes
  <2>3. CASE ~(pos > Len(procs)) /\ procs[pos] \in checked
    <3>1. pos' = pos + 1 /\ UNCHANGED <<prog, phase, mod, stack, status, typeOf, types, lists, checked>>
      BY <1>5, <2>3 DEF Bodies, Advance
    <3>2. pos + 1 <= Len(procs) + 1 /\ \A i \in DOMAIN procs : i < pos + 1 => i < pos \/ i = pos
      BY <1>1, <1>2, <2>3
    <3>3. BodiesBehind'
      BY <2>1, <2>3, <3>1, <3>2 DEF Sound, BodiesBehind, lists
    <3>4. OrderBehind' /\ AssertsBehind' /\ TypesBehind'
      BY <1>1, <2>1, <3>1, PassFacts DEF Sound, OrderBehind, AssertsBehind, TypesBehind
    <3> QED  BY <1>1, <3>1, <3>3, <3>4, PassFacts DEF Sound
  <2>4. CASE ~(pos > Len(procs)) /\ procs[pos] \notin checked
    <3>1. /\ pos \in DOMAIN procs /\ Call("body", procs[pos], prog.body[procs[pos]], Params(prog, procs[pos]))
          /\ UNCHANGED <<prog, phase, pos, status, typeOf, types, lists, checked>>
      BY <1>1, <1>2, <1>5, <2>4 DEF Bodies
    <3> QED  BY <1>1, <3>1, BodySound
  <2> QED  BY <2>2, <2>3, <2>4
<1>6. CASE Completions
  <2>1. phase = "types"
    BY <1>6 DEF Completions, At
  <2>2. CASE pos > Len(aggregates)
    <3>1. Begin("done")
      BY <1>6, <2>2 DEF Completions
    <3>2. /\ phase' = "done" /\ UNCHANGED <<prog, mod, stack, status, typeOf, types, lists, checked>>
      BY <3>1 DEF Begin
    <3>3. \A i \in DOMAIN aggregates : aggregates[i] \in complete
      BY <1>1, <1>2, <2>1, <2>2 DEF Sound, TypesBehind
    <3>4. TypesBehind'
      BY <1>1, <3>2, <3>3 DEF TypesBehind, types, lists
    <3>5. ReachSettled'
      <4>1. PICK xs \in SUBSET Settled : Closed(Procedures, {}, xs)
        BY <2>1 DEF Sound, BodiesBehind, ReachSettled
      <4>2. Closed(Procedures, {}, xs)' /\ Settled' = Settled
        BY <1>1, <3>2, <4>1, SameProgram, PassFacts DEF Closed, Leads
      <4> QED  BY <4>2 DEF ReachSettled
    <3>6. OrderBehind' /\ AssertsBehind' /\ BodiesBehind'
      BY <1>1, <2>1, <3>2, <3>5, PassFacts DEF Sound, OrderBehind, AssertsBehind, BodiesBehind
    <3> QED  BY <1>1, <3>2, <3>4, <3>6, PassFacts DEF Sound
  <2>3. CASE ~(pos > Len(aggregates)) /\ aggregates[pos] \in complete
    <3>1. pos' = pos + 1 /\ UNCHANGED <<prog, phase, mod, stack, status, typeOf, types, lists, checked>>
      BY <1>6, <2>3 DEF Completions, Advance
    <3>2. pos + 1 <= Len(aggregates) + 1 /\ \A i \in DOMAIN aggregates : i < pos + 1 => i < pos \/ i = pos
      BY <1>1, <1>2, <2>3
    <3>3. TypesBehind'
      BY <2>1, <2>3, <3>1, <3>2 DEF Sound, TypesBehind, lists, types
    <3>4. ReachSettled'
      <4>1. PICK xs \in SUBSET Settled : Closed(Procedures, {}, xs)
        BY <2>1 DEF Sound, BodiesBehind, ReachSettled
      <4>2. Closed(Procedures, {}, xs)' /\ Settled' = Settled
        BY <1>1, <3>1, <4>1, SameProgram, PassFacts DEF Closed, Leads
      <4> QED  BY <4>2 DEF ReachSettled
    <3>5. OrderBehind' /\ AssertsBehind' /\ BodiesBehind'
      BY <1>1, <2>1, <3>1, <3>4, PassFacts DEF Sound, OrderBehind, AssertsBehind, BodiesBehind
    <3> QED  BY <1>1, <3>1, <3>3, <3>5, PassFacts DEF Sound
  <2>4. CASE ~(pos > Len(aggregates)) /\ aggregates[pos] \notin complete
    <3>1. Complete(aggregates[pos]) /\ pos \in DOMAIN aggregates /\ phase' = phase
      BY <1>1, <1>2, <1>6, <2>4 DEF Completions, Complete
    <3>2. aggregates[pos] \in Aggregates /\ Symbol(aggregates[pos]) \in Settled
      <4>1. aggregates[pos] \in Sym
        BY <1>2, <3>1
      <4> QED  BY <3>1, <4>1 DEF Sound, KindsRight, Settled
    <3>3. ASSUME NEW xs \in SUBSET Things, Closed(Begun, Aggregates, xs)
          PROVE  Type(aggregates[pos]) \in xs
      <4>1. Symbol(aggregates[pos]) \in xs
        BY <3>2, <3>3 DEF Sound, Covered, Touched
      <4>2. Symbol(aggregates[pos]).of = aggregates[pos]
        BY DEF Symbol
      <4> QED  BY <3>2, <3>3, <4>1, <4>2 DEF Closed, Leads
    <3> QED  BY <1>1, <3>1, <3>2, <3>3, CompleteSound
  <2> QED  BY <2>2, <2>3, <2>4
<1> QED  BY <1>3, <1>4, <1>5, <1>6 DEF Pass

LEMMA RefusedStays == prog' = prog /\ Refused => Refused'
<1> SUFFICES ASSUME prog' = prog, Refused, NEW xs \in SUBSET Things, Closed(Procedures, Aggregates, xs)'
             PROVE  (\/ \E core \in SUBSET xs : core # {} /\ \A x \in core : Needs[x] \cap core # {}
                     \/ ReadsResultSize(prog.asserts)
                     \/ \E x \in xs : x.of # None /\ ReadsResultSize(UsesOf(x)))'
  BY DEF Refused
<1>1. Closed(Procedures, Aggregates, xs)
  BY SameProgram DEF Closed, Leads
<1> QED  BY <1>1, SameProgram DEF Refused, UsesOf

LEMMA ReachSteps ==
  ASSUME IInv, ReachInv, [Next]_vars
  PROVE  ReachInv'
<1>1. prog' = prog /\ (Met => Met')
  BY ProgStays, MetStays
<1>2. CASE UseName
  <2>1. phase \in Passes
    BY <1>2 DEF UseName, Declare, UseLocal, UsingGlobal, LookupFails, Lookup, UseType, CyclicType, ZeroSize,
                Used, Resolved, Using
  <2>2. Sound /\ Met'
    BY <1>1, <2>1 DEF ReachInv, Live, Sound
  <2>3. CASE phase' \in Passes
    BY <1>2, <2>2, <2>3, UseNameSound DEF ReachInv, Live
  <2>4. CASE phase' \notin Passes
    BY <1>1, <1>2, <2>2, <2>4, UseNameSound, RefusedStays DEF ReachInv, Live
  <2> QED  BY <2>3, <2>4
<1>3. CASE Return
  <2>1. phase \in Passes /\ phase' \in Passes
    BY <1>3 DEF Return, FinishSymbol, FinishType, FinishBody, FinishAsserts, Returning, Passes
  <2>2. Sound /\ Met'
    BY <1>1, <2>1 DEF ReachInv, Live, Sound
  <2> QED  BY <1>3, <2>1, <2>2, FinishSymbolSound, FinishTypeSound, FinishBodySound, FinishAssertsSound
           DEF Return, ReachInv, Live
<1>4. CASE Unwind
  <2>1. phase = "failing" /\ phase' \in {"failing", "crashed", "aborted", "error"}
    BY <1>4 DEF Unwind, UnwindSymbol, UnwindType, UnwindRest, ReportErrors, Abort
  <2> QED  BY <1>1, <2>1, RefusedStays DEF ReachInv, Live, Passes
<1>5. CASE Pass
  <2>1. phase \in Passes
    BY <1>5 DEF Pass, Headers, Asserts, Bodies, Completions, At, Passes
  <2>2. Sound /\ Met'
    BY <1>1, <2>1 DEF ReachInv, Live, Sound
  <2> QED  BY <1>5, <2>2, PassSound DEF ReachInv, Live
<1>6. CASE UNCHANGED vars
  <2>1. CASE Live
    <3>1. /\ UNCHANGED <<prog, phase, pos, stack, status, types, lists, checked>> /\ Sound /\ Met'
          /\ UNCHANGED <<completing, complete, procs, foreign, globals, aggregates>>
      BY <1>1, <1>6, <2>1 DEF ReachInv, vars, types, lists, Sound
    <3>2. Begun' = Begun /\ Settled' = Settled /\ Resolving' = Resolving /\ CallsNeeded(prog', stack')
      BY <3>1 DEF Begun, Settled, Resolving, Sound
    <3>3. Touched' = Touched
      BY <3>1, <3>2 DEF Touched
    <3>4. KindsRight' /\ Listed'
      BY <3>1, <3>2, SameProgram DEF Sound, KindsRight, Listed
    <3>5. Covered'
      BY <3>1, <3>2, <3>3, CoveredStays DEF Sound
    <3>6. OrderBehind' /\ AssertsBehind' /\ TypesBehind'
      BY <3>1, <3>2 DEF Sound, OrderBehind, AssertsBehind, TypesBehind
    <3>7. BodiesBehind'
      BY <3>1, <3>2, SameProgram DEF Sound, BodiesBehind, ReachSettled, Closed, Leads
    <3>8. Sound'
      BY <3>1, <3>2, <3>4, <3>5, <3>6, <3>7 DEF Sound
    <3> QED  BY <1>6, <2>1, <3>8 DEF ReachInv, Live, vars
  <2>2. CASE ~Live
    BY <1>1, <1>6, <2>2, RefusedStays DEF ReachInv, Live, vars
  <2> QED  BY <2>1, <2>2
<1> QED  BY <1>2, <1>3, <1>4, <1>5, <1>6 DEF Next, Step, Stopped

LEMMA ReachInit == Init => ReachInv
<1> SUFFICES ASSUME Init  PROVE Sound /\ Live
  BY DEF ReachInv
<1>1. /\ phase = "headers" /\ pos = 1 /\ DOMAIN stack = {} /\ DOMAIN procs = {} /\ DOMAIN aggregates = {}
      /\ checked = {} /\ complete = {} /\ completing = {} /\ \A s \in Sym : status[s] = "unresolved"
  BY DEF Init
<1>2. Settled = {} /\ Begun = {} /\ Resolving = {} /\ Touched = {}
  BY <1>1 DEF Settled, Begun, Open, Resolving, Touched
<1>3. KindsRight /\ Listed /\ Met /\ CallsNeeded(prog, stack) /\ Covered
  BY <1>1, <1>2 DEF KindsRight, Listed, Met, CallsNeeded, Covered
<1>4. OrderBehind
  <2>1. \A i \in DOMAIN prog.order : ~(i < 1)
    BY ProgramTypes, LenProperties DEF Init
  <2> QED  BY <1>1, <2>1 DEF OrderBehind
<1>5. AssertsBehind /\ BodiesBehind /\ TypesBehind
  BY <1>1 DEF AssertsBehind, BodiesBehind, TypesBehind, Open
<1> QED  BY <1>1, <1>3, <1>4, <1>5 DEF Sound, Live, Passes

(* In every reachable state what is settled and on the way is right, or the
   program deserves to be refused. *)
THEOREM ReachInvariance == Spec => []ReachInv
<1>1. IInv /\ ReachInv /\ [Next]_vars => ReachInv'
  BY ReachSteps
<1> QED  BY <1>1, ReachInit, Invariance, PTL DEF Spec

(* A program that resolves has settled all that it reaches, the bodies of
   the procedures that only the last pass met apart, and nothing that it
   does not reach: no declaration is resolved, no size computed and no body
   checked, generated and emitted for nothing, or forgotten
   (module.c:37-69). *)
THEOREM SettlesExactly == Spec => []SettlesWhatItReaches
<1>1. IInv /\ ReachInv => SettlesWhatItReaches
  <2> SUFFICES ASSUME IInv, ReachInv, phase = "done"
               PROVE  /\ Closed(checked, Aggregates, Settled)
                      /\ \A xs \in SUBSET (Settled \ Roots) :
                           Closed(checked, Aggregates, Roots \cup xs) => Settled = Roots \cup xs
                      /\ \E xs \in SUBSET (Settled \ Roots) : Closed(Procedures, {}, Roots \cup xs)
    BY DEF SettlesWhatItReaches
  <2>1. Sound /\ stack = <<>> /\ \A i \in DOMAIN aggregates : aggregates[i] \in complete
    BY DEF ReachInv, Live, Sound, TypesBehind
  <2>2. Begun = checked
    BY <2>1 DEF Begun, Open
  <2>3. PICK ys \in SUBSET Settled : Closed(Procedures, {}, ys)
    BY <2>1 DEF Sound, BodiesBehind, ReachSettled
  <2>4. Roots \subseteq Settled
    BY <2>3 DEF Closed
  <2>5. ASSUME NEW x \in Settled, NEW s \in {x.of} \cap Aggregates
        PROVE  Type(s) \in Settled
    <3>1. s \in Sym /\ s = x.of /\ s \notin Procedures
      BY DEF Procedures, Aggregates, IsAggregate
    <3>2. CASE \E t \in Sym : x = Symbol(t) /\ status[t] = "resolved"
      <4>1. status[s] = "resolved"
        BY <3>1, <3>2 DEF Symbol
      <4>2. PICK i \in DOMAIN aggregates : aggregates[i] = s
        BY <2>1, <3>1, <4>1 DEF Sound, Listed
      <4> QED  BY <2>1, <4>2 DEF Settled
    <3>3. CASE \E a \in complete : x = Type(a)
      BY <3>1, <3>3 DEF Type
    <3>4. CASE \E t \in checked : x = Body(t)
      <4>1. s \in checked
        BY <3>1, <3>4 DEF Body
      <4> QED  BY <2>1, <2>2, <3>1, <4>1 DEF Sound, KindsRight
    <3> QED  BY <3>2, <3>3, <3>4 DEF Settled
  <2>6. Closed(checked, Aggregates, Settled)
    BY <2>1, <2>4, <2>5 DEF Closed, Leads, Sound, Met, Settled
  <2>7. ASSUME NEW xs \in SUBSET (Settled \ Roots), Closed(checked, Aggregates, Roots \cup xs)
        PROVE  Settled = Roots \cup xs
    <3>1. Settled \subseteq Things
      BY DEF Settled, Things, Symbol, Type, Body, IInv, TypeOK
    <3>2. Roots \cup xs \in SUBSET Things
      BY <2>4, <3>1
    <3>3. Touched \subseteq Roots \cup xs
      BY <2>1, <2>2, <2>7, <3>2 DEF Sound, Covered
    <3> QED  BY <2>4, <3>3 DEF Touched
  <2>8. ys \ Roots \in SUBSET (Settled \ Roots) /\ Roots \cup (ys \ Roots) = ys
    BY <2>3 DEF Closed
  <2> QED  BY <2>3, <2>6, <2>7, <2>8
<1> QED  BY <1>1, Invariance, ReachInvariance, PTL

(* A program that is refused deserves it: whatever set holds all that it
   reaches, some of it needs itself, so that no order could settle it, or
   needs a name that nobody declares (`lost', which needs itself); procedure
   types apart, which read the size of their result as it happens to be
   (common.c:91-163, typespecs.c:293-312). *)
THEOREM RefusesCycles == Spec => [](phase \in Failure => Refused)
<1>1. ReachInv => (phase \in Failure => Refused)
  BY DEF ReachInv, Live, Failure, Passes
<1> QED  BY <1>1, ReachInvariance, PTL

=============================================================================

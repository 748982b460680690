------------------------ MODULE SymbolResolverProofs ------------------------
(***************************************************************************)
(* Theorems about SymbolResolver, for every program: any modules, symbols, *)
(* names, and any declarations and bodies that use them.                   *)
(***************************************************************************)
EXTENDS SymbolResolver, SequenceTheorems, TLAPS

(* The names a call goes through, those it knows from the start, and how
   many it has been through. *)
Source(p, f) ==
  IF f.task = "body" THEN p.body[f.sym]
  ELSE IF f.task = "asserts" THEN p.asserts ELSE p.uses[f.sym]
Known(p, f) == IF f.task = "body" THEN Params(p, f.sym) ELSE {}
Behind(p, f) == Len(Source(p, f)) - Len(f.rest)

(* The module whose names it looks up, as HomeOf has it, and what its next
   use needs. *)
ModFor(p, s) == IF s = None THEN Main ELSE p.home[s]
NeedsNow(p, f) == NeedsAt(p, ModFor(p, f.sym), Source(p, f), Behind(p, f) + 1, Known(p, f))

(***************************************************************************)
(* The inductive invariant.  A call has what remains of its declaration    *)
(* ahead of it, knows the names declared so far, and all that the uses     *)
(* behind it need is settled: that is what makes it right to settle the    *)
(* call's own symbol, size or body when nothing is left ahead.             *)
(***************************************************************************)
UsesSettled(p, done, f, n) ==
  \A i \in 1..n : NeedsAt(p, ModFor(p, f.sym), Source(p, f), i, Known(p, f)) \subseteq done

FrameOK(p, done, f) ==
  /\ f.task = "asserts" <=> f.sym = None
  /\ f.task = "body" => Symbol(f.sym) \in done
  /\ f.task = "symbol" => ~IsAggregate(p, f.sym)
  /\ Behind(p, f) \in Nat
  /\ \A i \in 1..Len(f.rest) : f.rest[i] = Source(p, f)[Behind(p, f) + i]
  /\ f.locals = Known(p, f) \cup DeclaredBefore(Source(p, f), Behind(p, f) + 1)
  /\ UsesSettled(p, done, f, Behind(p, f))

(* A call returns to the module of the call below it. *)
SavedAt(p, s, i) == IF i = 1 \/ s[i - 1].sym = None THEN Main ELSE p.home[s[i - 1].sym]

FramesRight(p, done, s) == \A i \in DOMAIN s : FrameOK(p, done, s[i]) /\ s[i].saved = SavedAt(p, s, i)
FramesOK == FramesRight(prog, Settled, stack)

(* The type of a resolved symbol is the one its name stands for. *)
TypesTrue == \A s \in Sym : status[s] = "resolved" => typeOf[s] = prog.means[s]

(* The procedures whose bodies come next have been resolved. *)
ProcsResolved == phase \in Passes => \A i \in DOMAIN procs : Symbol(procs[i]) \in Settled

IInv == prog \in Programs /\ TypeOK /\ MarksMatchCalls /\ FramesOK /\ TypesTrue /\ ProcsResolved

(* MarksMatchCalls, of a stack and a program that are parameters. *)
Open(s, task, x) == \E i \in DOMAIN s : s[i].task = task /\ s[i].sym = x
NoTwice(s) == \A i, j \in DOMAIN s : s[i].task = s[j].task /\ s[i].sym = s[j].sym => i = j
ModOf(p, s) == IF s = <<>> \/ s[Len(s)].sym = None THEN Main ELSE p.home[s[Len(s)].sym]

-----------------------------------------------------------------------------
(*                         Sequences used as stacks                        *)

LEMMA PopSeq ==
  ASSUME NEW S, NEW s \in Seq(S), s # <<>>
  PROVE  /\ Len(s) \in Nat \ {0} /\ s[Len(s)] \in S
         /\ SubSeq(s, 1, Len(s) - 1) \in Seq(S)
         /\ Len(SubSeq(s, 1, Len(s) - 1)) = Len(s) - 1
         /\ \A i \in 1..(Len(s) - 1) : SubSeq(s, 1, Len(s) - 1)[i] = s[i]
<1>1. Len(s) \in Nat \ {0} /\ \A i \in 1..Len(s) : s[i] \in S
  BY EmptySeq, ElementOfSeq
<1>2. \A i \in 1..(Len(s) - 1) : s[i] \in S
  BY <1>1
<1>3. /\ SubSeq(s, 1, Len(s) - 1) \in Seq(S)
      /\ Len(SubSeq(s, 1, Len(s) - 1)) = IF 1 <= Len(s) - 1 THEN Len(s) - 1 - 1 + 1 ELSE 0
      /\ \A i \in 1..(Len(s) - 1 - 1 + 1) : SubSeq(s, 1, Len(s) - 1)[i] = s[1 + i - 1]
  <2>1. 1 \in Int /\ Len(s) - 1 \in Int
    BY <1>1
  <2> QED  BY ONLY <1>2, <2>1, SubSeqProperties
<1>4. \A i \in 1..(Len(s) - 1) : SubSeq(s, 1, Len(s) - 1)[i] = s[i]
  BY <1>1, <1>3
<1>5. Len(SubSeq(s, 1, Len(s) - 1)) = Len(s) - 1
  <2>1. Len(s) - 1 \in Nat
    BY <1>1
  <2>2. \A n \in Nat : (IF 1 <= n THEN n - 1 + 1 ELSE 0) = n
    OBVIOUS
  <2> QED  BY ONLY <1>3, <2>1, <2>2, Zenon
<1>6. s[Len(s)] \in S
  BY <1>1
<1> QED  BY <1>1, <1>3, <1>4, <1>5, <1>6, Zenon

LEMMA PushSeq ==
  ASSUME NEW S, NEW s \in Seq(S), NEW e \in S
  PROVE  /\ Append(s, e) \in Seq(S) /\ Len(Append(s, e)) = Len(s) + 1 /\ Append(s, e) # <<>>
         /\ DOMAIN Append(s, e) = 1..(Len(s) + 1)
         /\ Append(s, e)[Len(s) + 1] = e
         /\ \A i \in 1..Len(s) : Append(s, e)[i] = s[i]
  OBVIOUS

LEMMA TailSeq ==
  ASSUME NEW S, NEW s \in Seq(S), s # <<>>
  PROVE  /\ Head(s) = s[1] /\ Head(s) \in S /\ Tail(s) \in Seq(S) /\ Len(Tail(s)) = Len(s) - 1
         /\ \A i \in 1..(Len(s) - 1) : Tail(s)[i] = s[i + 1]
  OBVIOUS

-----------------------------------------------------------------------------
(*                      Programs and what things need                      *)

(* What the assumption on the programs says of one. *)
LEMMA ProgramTypes ==
  ASSUME prog \in Programs
  PROVE  /\ prog \in Program
         /\ prog.kind \in [Sym -> Kinds] /\ prog.home \in [Sym -> Modules]
         /\ prog.order \in Seq(Sym) /\ prog.scope \in [Modules -> [Names -> Sym \cup {None}]]
         /\ prog.uses \in [Sym -> Seq(Use)] /\ prog.body \in [Sym -> Seq(Use)]
         /\ prog.asserts \in Seq(Use) /\ prog.means \in [Sym -> Sym \cup {None}]
  BY ResolverAssumption DEF Program

LEMMA LostIsNot == lost \notin Settled
<1>1. \A s \in Sym : lost # Symbol(s)
  BY ResolverAssumption DEF lost, Symbol
<1>2. \A s : lost # Type(s) /\ lost # Body(s)
  BY DEF lost, Symbol, Type, Body
<1> QED  BY <1>1, <1>2 DEF Settled

(* One use needs at most the symbol it finds and the aggregate that stands
   for; nothing when it finds a local. *)
LEMMA NeedsOfUse ==
  ASSUME NEW m \in Modules, NEW q, NEW i, NEW known,
         NEW t, t = prog.scope[m][q[i].name]
  PROVE  /\ q[i].mode = "decl" /\ t = None /\ q[i].name \notin known \cup DeclaredBefore(q, i) =>
              NeedsAt(prog, m, q, i, known) = {}
         /\ q[i].mode # "decl" /\ q[i].name \in known \cup DeclaredBefore(q, i) =>
              NeedsAt(prog, m, q, i, known) = {}
         /\ q[i].mode # "decl" /\ q[i].name \notin known \cup DeclaredBefore(q, i) /\ t # None =>
              NeedsAt(prog, m, q, i, known) =
                {Symbol(t)} \cup {Type(a) : a \in {b \in Sym : q[i].mode \in {"size", "elem", "ret"} /\ b = prog.means[t]}}
         /\ q[i].mode # "decl" /\ q[i].name \notin known \cup DeclaredBefore(q, i) /\ t = None =>
              NeedsAt(prog, m, q, i, known) = {lost}
  BY DEF NeedsAt

-----------------------------------------------------------------------------
(*                       What the invariant gives                          *)

(* The stack, its innermost call and the use that comes next. *)
LEMMA StackFacts ==
  ASSUME TypeOK, stack # <<>>
  PROVE  /\ Len(stack) \in Nat \ {0} /\ DOMAIN stack = 1..Len(stack)
         /\ Top \in Frame /\ Below \in Seq(Frame)
         /\ Len(Below) = Len(stack) - 1 /\ DOMAIN Below = 1..(Len(stack) - 1)
         /\ \A i \in 1..(Len(stack) - 1) : Below[i] = stack[i]
<1>1. stack \in Seq(Frame)
  BY DEF TypeOK
<1>2. /\ Len(stack) \in Nat \ {0} /\ stack[Len(stack)] \in Frame
      /\ SubSeq(stack, 1, Len(stack) - 1) \in Seq(Frame)
      /\ Len(SubSeq(stack, 1, Len(stack) - 1)) = Len(stack) - 1
      /\ \A i \in 1..(Len(stack) - 1) : SubSeq(stack, 1, Len(stack) - 1)[i] = stack[i]
  BY ONLY <1>1, PopSeq, stack # <<>>
<1>3. DOMAIN stack = 1..Len(stack) /\ DOMAIN Below = 1..Len(Below)
  BY <1>1, <1>2, LenProperties DEF Below
<1> QED  BY <1>2, <1>3 DEF Top, Below

LEMMA TopFacts ==
  ASSUME IInv, stack # <<>>, Top.rest # <<>>
  PROVE  /\ use \in Use /\ use.mode \in {"name", "alias", "size", "elem", "ret", "decl"}
         /\ use.name \in Names /\ Found(use.name) \in Sym \cup {None}
         /\ Top.rest \in Seq(Use) /\ Tail(Top.rest) \in Seq(Use) /\ Len(Tail(Top.rest)) = Len(Top.rest) - 1
         /\ use = Top.rest[1]
         /\ \A i \in 1..(Len(Top.rest) - 1) : Tail(Top.rest)[i] = Top.rest[i + 1]
         /\ Len(Top.rest) \in Nat \ {0}
<1>1. Top.rest \in Seq(Use)
  BY StackFacts DEF Frame, IInv
<1>2. /\ Head(Top.rest) = Top.rest[1] /\ Head(Top.rest) \in Use
      /\ Tail(Top.rest) \in Seq(Use) /\ Len(Tail(Top.rest)) = Len(Top.rest) - 1
      /\ \A i \in 1..(Len(Top.rest) - 1) : Tail(Top.rest)[i] = Top.rest[i + 1]
  BY ONLY <1>1, TailSeq, Top.rest # <<>>
<1>3. Len(Top.rest) \in Nat \ {0}
  BY <1>1, EmptySeq
<1>4. use \in Use /\ use.name \in Names /\ use.mode \in {"name", "alias", "size", "elem", "ret", "decl"}
  BY <1>2 DEF use, Use
<1>5. Found(use.name) \in Sym \cup {None}
  BY <1>4, ProgramTypes DEF Found, IInv, TypeOK
<1> QED  BY <1>1, <1>2, <1>3, <1>4, <1>5 DEF use

(* What a call goes through. *)
LEMMA SourceTypes ==
  ASSUME prog \in Programs, NEW f \in Frame, f.task # "asserts" => f.sym # None
  PROVE  /\ Source(prog, f) \in Seq(Use) /\ Len(Source(prog, f)) \in Nat
         /\ DOMAIN Source(prog, f) = 1..Len(Source(prog, f))
         /\ f.task # "asserts" => f.sym \in Sym
         /\ Len(f.rest) \in Nat
<1>1. f.task # "asserts" => f.sym \in Sym
  BY DEF Frame
<1>2. Source(prog, f) \in Seq(Use)
  BY <1>1, ProgramTypes DEF Source, Frame, Tasks
<1>3. f.rest \in Seq(Use)
  BY DEF Frame
<1> QED  BY <1>1, <1>2, <1>3, LenProperties

-----------------------------------------------------------------------------
(*                    Changing the stack keeps the frames                  *)

(* A frame stays right when more is settled. *)
LEMMA FrameMono ==
  ASSUME NEW p, NEW done, NEW more, NEW f, FrameOK(p, done, f), done \subseteq more
  PROVE  FrameOK(p, more, f)
  BY DEF FrameOK, UsesSettled

(* The frame of a call that begins. *)
LEMMA FrameBegins ==
  ASSUME prog \in Programs, NEW done, NEW f \in Frame,
         f.task = "asserts" <=> f.sym = None,
         f.task = "body" => Symbol(f.sym) \in done,
         f.task = "symbol" => ~IsAggregate(prog, f.sym),
         f.rest = Source(prog, f), f.locals = Known(prog, f)
  PROVE  FrameOK(prog, done, f)
<1>1. Len(f.rest) \in Nat /\ Behind(prog, f) = 0
  BY SourceTypes DEF Behind
<1>2. DeclaredBefore(Source(prog, f), Behind(prog, f) + 1) = {}
  BY <1>1 DEF DeclaredBefore
<1>3. UsesSettled(prog, done, f, Behind(prog, f))
  BY <1>1 DEF UsesSettled
<1> QED  BY <1>1, <1>2, <1>3 DEF FrameOK

LEMMA DeclaredGrows ==
  ASSUME NEW q, NEW n \in Nat
  PROVE  DeclaredBefore(q, n + 1 + 1) =
           DeclaredBefore(q, n + 1) \cup (IF q[n + 1].mode = "decl" THEN {q[n + 1].name} ELSE {})
<1> DEFINE J(k) == {j \in 1..k : q[j].mode = "decl"}
<1>1. J(n + 1) = J(n) \cup (IF q[n + 1].mode = "decl" THEN {n + 1} ELSE {})
  <2>1. 1..(n + 1) = (1..n) \cup {n + 1}
    OBVIOUS
  <2>2. \A j : j \in J(n + 1) <=> (j \in 1..n \/ j = n + 1) /\ q[j].mode = "decl"
    BY <2>1
  <2>3. \A j : j \in J(n) <=> j \in 1..n /\ q[j].mode = "decl"
    OBVIOUS
  <2> HIDE DEF J
  <2> QED  BY ONLY <2>2, <2>3, Zenon
<1>2. DeclaredBefore(q, n + 1 + 1) = {q[k].name : k \in J(n + 1)} /\ DeclaredBefore(q, n + 1) = {q[k].name : k \in J(n)}
  <2>1. n + 1 + 1 - 1 = n + 1 /\ n + 1 - 1 = n
    OBVIOUS
  <2>2. \A k : DeclaredBefore(q, k) = {q[j].name : j \in J(k - 1)}
    BY DEF DeclaredBefore
  <2> HIDE DEF J
  <2> QED  BY <2>1, <2>2
<1> HIDE DEF J
<1> QED  BY ONLY <1>1, <1>2, Zenon

(* The frame of a call that has been through one more use. *)
LEMMA FrameProceeds ==
  ASSUME prog \in Programs, NEW done, NEW f \in Frame, NEW g \in Frame,
         FrameOK(prog, done, f), f.rest # <<>>,
         g.task = f.task, g.sym = f.sym, g.rest = Tail(f.rest),
         g.locals = f.locals \cup (IF Head(f.rest).mode = "decl" THEN {Head(f.rest).name} ELSE {}),
         NeedsNow(prog, f) \subseteq done
  PROVE  FrameOK(prog, done, g)
<1> DEFINE q == Source(prog, f)  n == Behind(prog, f)
<1>1. f.rest \in Seq(Use)
  BY DEF Frame
<1>2. /\ Head(f.rest) = f.rest[1] /\ Len(Tail(f.rest)) = Len(f.rest) - 1
      /\ \A i \in 1..(Len(f.rest) - 1) : Tail(f.rest)[i] = f.rest[i + 1]
      /\ Len(f.rest) \in Nat \ {0}
  <2>1. Head(f.rest) = f.rest[1] /\ Len(Tail(f.rest)) = Len(f.rest) - 1
        /\ \A i \in 1..(Len(f.rest) - 1) : Tail(f.rest)[i] = f.rest[i + 1]
    BY ONLY <1>1, TailSeq, f.rest # <<>>
  <2> QED  BY <2>1, <1>1, EmptySeq
<1>3. Source(prog, g) = q /\ Known(prog, g) = Known(prog, f)
  BY DEF Source, Known
<1>4. n \in Nat /\ Behind(prog, g) = n + 1
  <2>1. Len(q) \in Nat
    BY SourceTypes DEF FrameOK
  <2>2. n \in Nat
    BY DEF FrameOK
  <2>3. Behind(prog, g) = Len(q) - Len(g.rest)
    BY <1>3 DEF Behind
  <2>4. n = Len(q) - Len(f.rest)
    BY DEF Behind
  <2>5. Len(g.rest) = Len(f.rest) - 1
    BY <1>2
  <2> QED  BY ONLY <1>2, <2>1, <2>2, <2>3, <2>4, <2>5
<1>5. Head(f.rest) = q[n + 1]
  BY <1>2 DEF FrameOK
<1>6. \A i \in 1..Len(g.rest) : g.rest[i] = q[n + 1 + i]
  BY <1>2, <1>4 DEF FrameOK
<1>7. g.locals = Known(prog, f) \cup DeclaredBefore(q, n + 1 + 1)
  <2>1. DeclaredBefore(q, n + 1 + 1) =
          DeclaredBefore(q, n + 1) \cup (IF q[n + 1].mode = "decl" THEN {q[n + 1].name} ELSE {})
    <3> HIDE DEF q, n
    <3> QED  BY <1>4, DeclaredGrows
  <2> QED  BY <2>1, <1>5 DEF FrameOK
<1>8. UsesSettled(prog, done, g, n + 1)
  <2>1. 1..(n + 1) = (1..n) \cup {n + 1}
    BY <1>4
  <2> QED  BY <2>1, <1>3 DEF FrameOK, UsesSettled, NeedsNow
<1> QED  BY <1>3, <1>4, <1>6, <1>7, <1>8 DEF FrameOK

(* A call begins, on top of the others. *)
LEMMA Push ==
  ASSUME NEW p, NEW done, NEW s \in Seq(Frame), NEW e \in Frame
  PROVE  /\ Append(s, e) \in Seq(Frame)
         /\ \A k, x : Open(Append(s, e), k, x) <=> Open(s, k, x) \/ (e.task = k /\ e.sym = x)
         /\ NoTwice(s) /\ ~Open(s, e.task, e.sym) => NoTwice(Append(s, e))
         /\ ModOf(p, Append(s, e)) = IF e.sym = None THEN Main ELSE p.home[e.sym]
         /\ FramesRight(p, done, s) /\ FrameOK(p, done, e) /\ e.saved = ModOf(p, s) =>
              FramesRight(p, done, Append(s, e))
<1> DEFINE t == Append(s, e)  n == Len(s)
<1>1. /\ t \in Seq(Frame) /\ Len(t) = n + 1 /\ t # <<>> /\ DOMAIN t = 1..(n + 1) /\ t[n + 1] = e
      /\ \A i \in 1..n : t[i] = s[i]
  BY PushSeq
<1>2. n \in Nat /\ DOMAIN s = 1..n /\ (s = <<>> <=> n = 0)
  BY EmptySeq, LenProperties
<1>3. 1..(n + 1) = (1..n) \cup {n + 1} /\ n + 1 \notin 1..n
  BY <1>2
<1> HIDE DEF t, n
<1>4. \A k, x : Open(t, k, x) <=> Open(s, k, x) \/ (e.task = k /\ e.sym = x)
  BY <1>1, <1>2, <1>3, Zenon DEF Open
<1>5. NoTwice(s) /\ ~Open(s, e.task, e.sym) => NoTwice(t)
  BY <1>1, <1>2, <1>3 DEF NoTwice, Open
<1>6. ModOf(p, t) = IF e.sym = None THEN Main ELSE p.home[e.sym]
  BY <1>1 DEF ModOf
<1>7. ASSUME FramesRight(p, done, s), FrameOK(p, done, e), e.saved = ModOf(p, s)
      PROVE  FramesRight(p, done, t)
  <2>1. ASSUME NEW i \in 1..n  PROVE FrameOK(p, done, t[i]) /\ t[i].saved = SavedAt(p, t, i)
    <3>1. t[i] = s[i] /\ (i # 1 => t[i - 1] = s[i - 1])
      BY <1>1, <1>2
    <3> QED  BY <1>2, <1>7, <3>1 DEF FramesRight, SavedAt
  <2>2. e.saved = SavedAt(p, t, n + 1)
    <3>1. n + 1 - 1 = n /\ (n + 1 = 1 <=> n = 0) /\ (n # 0 => n \in 1..n)
      BY <1>2
    <3> QED  BY <1>1, <1>2, <1>7, <3>1 DEF SavedAt, ModOf, n
  <2> QED  BY <1>1, <1>3, <1>7, <2>1, <2>2 DEF FramesRight
<1> QED  BY <1>1, <1>4, <1>5, <1>6, <1>7 DEF t

(* The innermost call returns. *)
LastOf(s) == s[Len(s)]
FrontOf(s) == SubSeq(s, 1, Len(s) - 1)

LEMMA Pop ==
  ASSUME NEW p, NEW done, NEW s \in Seq(Frame), s # <<>>
  PROVE  /\ FrontOf(s) \in Seq(Frame)
         /\ NoTwice(s) =>
              /\ NoTwice(FrontOf(s)) /\ ~Open(FrontOf(s), LastOf(s).task, LastOf(s).sym)
              /\ \A k, x : Open(FrontOf(s), k, x) <=>
                              Open(s, k, x) /\ ~(LastOf(s).task = k /\ LastOf(s).sym = x)
         /\ FramesRight(p, done, s) =>
              /\ FramesRight(p, done, FrontOf(s)) /\ FrameOK(p, done, LastOf(s))
              /\ LastOf(s).saved = ModOf(p, FrontOf(s))
<1> DEFINE n == Len(s)  b == FrontOf(s)  e == LastOf(s)
<1>1. /\ n \in Nat \ {0} /\ b \in Seq(Frame) /\ Len(b) = n - 1 /\ \A i \in 1..(n - 1) : b[i] = s[i]
  BY PopSeq DEF FrontOf
<1>2. DOMAIN s = 1..n /\ DOMAIN b = 1..(n - 1) /\ (b = <<>> <=> n - 1 = 0)
  BY <1>1, EmptySeq, LenProperties
<1>3. 1..n = (1..(n - 1)) \cup {n} /\ n \notin 1..(n - 1)
  BY <1>1
<1>4. e = s[n]
  BY DEF LastOf
<1> HIDE DEF n, b, e
<1>5. NoTwice(s) => NoTwice(b) /\ ~Open(b, e.task, e.sym)
  BY <1>1, <1>2, <1>3, <1>4 DEF NoTwice, Open
<1>6. NoTwice(s) => \A k, x : Open(b, k, x) <=> Open(s, k, x) /\ ~(e.task = k /\ e.sym = x)
  <2>1. \A k, x : Open(s, k, x) <=> Open(b, k, x) \/ (e.task = k /\ e.sym = x)
    BY <1>1, <1>2, <1>3, <1>4, Zenon DEF Open
  <2> QED  BY <1>5, <2>1
<1>7. ASSUME FramesRight(p, done, s)
      PROVE  FramesRight(p, done, b) /\ FrameOK(p, done, e) /\ e.saved = ModOf(p, b)
  <2>1. ASSUME NEW i \in 1..(n - 1)  PROVE FrameOK(p, done, b[i]) /\ b[i].saved = SavedAt(p, b, i)
    <3>1. b[i] = s[i] /\ (i # 1 => b[i - 1] = s[i - 1])
      BY <1>1
    <3>2. i \in DOMAIN s
      BY <1>2, <1>3
    <3> QED  BY <1>7, <3>1, <3>2 DEF FramesRight, SavedAt
  <2>2. FrameOK(p, done, e) /\ e.saved = SavedAt(p, s, n)
    BY <1>2, <1>3, <1>4, <1>7 DEF FramesRight
  <2>3. SavedAt(p, s, n) = ModOf(p, b)
    <3>1. n = 1 <=> n - 1 = 0
      BY <1>1
    <3>2. n # 1 => s[n - 1] = b[n - 1]
      BY <1>1
    <3> QED  BY <1>1, <1>2, <3>1, <3>2 DEF SavedAt, ModOf
  <2> QED  BY <1>2, <2>1, <2>2, <2>3 DEF FramesRight
<1> QED  BY <1>1, <1>5, <1>6, <1>7 DEF b, e

-----------------------------------------------------------------------------
(*                 Calls that begin, go on, and return                     *)

Marks(p, ph, m, s, st, cs) ==
  ph \in Passes =>
    /\ \A x \in Sym : st[x] = "resolving" <=> Open(s, "symbol", x)
    /\ \A x \in Sym : x \in cs <=> Open(s, "type", x)
    /\ NoTwice(s) /\ m = ModOf(p, s)

LEMMA MarksForm ==
  /\ MarksMatchCalls <=> Marks(prog, phase, mod, stack, status, completing)
  /\ MarksMatchCalls' <=> Marks(prog', phase', mod', stack', status', completing')
BY DEF MarksMatchCalls, Marks, Open, NoTwice, ModOf, HomeOf, Top

(* More can only be settled. *)
LEMMA SettledGrows ==
  ASSUME \A s \in Sym : status[s] = "resolved" => status'[s] = "resolved",
         complete \subseteq complete', checked \subseteq checked'
  PROVE  Settled \subseteq Settled'
BY DEF Settled

Entry(task, s, rest, locals) ==
  [task |-> task, sym |-> s, rest |-> rest, locals |-> locals, saved |-> mod]

LEMMA CallBegins ==
  ASSUME IInv, phase \in Passes, prog' = prog, Settled \subseteq Settled',
         NEW task \in Tasks, NEW s \in Sym \cup {None}, NEW rest \in Seq(Use), NEW locals \in SUBSET Names,
         Call(task, s, rest, locals), ~Open(stack, task, s),
         FrameOK(prog, Settled, Entry(task, s, rest, locals)), s = None => mod = Main
  PROVE  /\ stack' \in Seq(Frame) /\ mod' \in Modules /\ FramesOK'
         /\ NoTwice(stack') /\ mod' = ModOf(prog, stack')
         /\ \A k, x : Open(stack', k, x) <=> Open(stack, k, x) \/ (k = task /\ x = s)
<1> DEFINE e == Entry(task, s, rest, locals)
<1>1. e \in Frame /\ e.task = task /\ e.sym = s /\ e.saved = mod
  BY DEF Frame, IInv, TypeOK, Entry
<1>2. stack \in Seq(Frame) /\ NoTwice(stack) /\ mod = ModOf(prog, stack) /\ mod \in Modules
  BY MarksForm DEF IInv, TypeOK, Marks
<1>3. stack' = Append(stack, e) /\ mod' = IF s = None THEN mod ELSE prog.home[s]
  BY DEF Call, Enter, Entry
<1>4. FramesRight(prog, Settled', stack) /\ FrameOK(prog, Settled', e)
  BY FrameMono DEF IInv, FramesOK, FramesRight
<1> HIDE DEF e
<1>5. /\ stack' \in Seq(Frame)
      /\ \A k, x : Open(stack', k, x) <=> Open(stack, k, x) \/ (e.task = k /\ e.sym = x)
      /\ NoTwice(stack) /\ ~Open(stack, e.task, e.sym) => NoTwice(stack')
      /\ ModOf(prog, stack') = IF e.sym = None THEN Main ELSE prog.home[e.sym]
      /\ FramesRight(prog, Settled', stack) /\ FrameOK(prog, Settled', e) /\ e.saved = ModOf(prog, stack) =>
           FramesRight(prog, Settled', stack')
  BY ONLY <1>1, <1>2, <1>3, Push
<1>6. mod' \in Modules
  BY <1>2, <1>3, ProgramTypes DEF IInv
<1>7. FramesOK'
  BY <1>1, <1>2, <1>4, <1>5 DEF FramesOK
<1> QED  BY <1>1, <1>2, <1>3, <1>5, <1>6, <1>7

LEMMA CallReturns ==
  ASSUME IInv, stack # <<>>, prog' = prog, Settled \subseteq Settled', Leave(Top)
  PROVE  /\ stack' \in Seq(Frame) /\ mod' \in Modules /\ FramesOK'
         /\ Top \in Frame /\ FrameOK(prog, Settled, Top)
         /\ phase \in Passes =>
              /\ NoTwice(stack') /\ mod' = ModOf(prog, stack')
              /\ \A k, x : Open(stack', k, x) <=> Open(stack, k, x) /\ ~(k = Top.task /\ x = Top.sym)
<1>1. stack \in Seq(Frame) /\ Top \in Frame
  BY StackFacts DEF IInv, TypeOK
<1>2. stack' = FrontOf(stack) /\ mod' = Top.saved /\ Top = LastOf(stack)
  BY DEF Leave, Below, Top, FrontOf, LastOf
<1>3. FramesRight(prog, Settled', stack) /\ FramesRight(prog, Settled, stack)
  BY FrameMono DEF IInv, FramesOK, FramesRight
<1>4. stack # <<>>
  OBVIOUS
<1>5. ASSUME NEW done
      PROVE  /\ stack' \in Seq(Frame)
             /\ NoTwice(stack) => NoTwice(stack')
             /\ NoTwice(stack) => \A k, x : Open(stack', k, x) <=> Open(stack, k, x) /\ ~(Top.task = k /\ Top.sym = x)
             /\ FramesRight(prog, done, stack) =>
                  FramesRight(prog, done, stack') /\ FrameOK(prog, done, Top) /\ Top.saved = ModOf(prog, stack')
  BY ONLY <1>1, <1>2, <1>4, Pop
<1>6. FramesRight(prog, Settled', stack') /\ FrameOK(prog, Settled, Top) /\ Top.saved = ModOf(prog, stack')
  BY ONLY <1>3, <1>5
<1>7. mod' \in Modules
  BY <1>1, <1>2 DEF Frame
<1>8. phase \in Passes => NoTwice(stack)
  BY MarksForm DEF IInv, Marks
<1>9. FramesOK'
  BY <1>6 DEF FramesOK
<1>10. NoTwice(stack) => \A k, x : Open(stack', k, x) <=> Open(stack, k, x) /\ ~(k = Top.task /\ x = Top.sym)
  BY <1>5
<1> QED  BY <1>1, <1>2, <1>5, <1>6, <1>7, <1>8, <1>9, <1>10

LEMMA CallProceeds ==
  ASSUME IInv, stack # <<>>, Top.rest # <<>>, prog' = prog, Settled \subseteq Settled', mod' = mod,
         NEW locals \in SUBSET Names,
         locals = Top.locals \cup (IF use.mode = "decl" THEN {use.name} ELSE {}),
         stack' = Append(Below, [Top EXCEPT !.rest = Tail(@), !.locals = locals]),
         NeedsNow(prog, Top) \subseteq Settled
  PROVE  /\ stack' \in Seq(Frame) /\ FramesOK'
         /\ phase \in Passes =>
              /\ NoTwice(stack') /\ mod' = ModOf(prog, stack')
              /\ \A k, x : Open(stack', k, x) <=> Open(stack, k, x)
<1> DEFINE e == [Top EXCEPT !.rest = Tail(@), !.locals = locals]
<1>1. stack \in Seq(Frame) /\ Top \in Frame /\ Tail(Top.rest) \in Seq(Use)
  BY StackFacts, TopFacts DEF IInv, TypeOK
<1>2. e \in Frame /\ e.task = Top.task /\ e.sym = Top.sym /\ e.rest = Tail(Top.rest) /\ e.locals = locals /\ e.saved = Top.saved
  BY <1>1 DEF Frame
<1> HIDE DEF e
<1>3. Below = FrontOf(stack) /\ Top = LastOf(stack) /\ stack' = Append(Below, e) /\ stack # <<>>
  BY DEF Below, Top, FrontOf, LastOf, e
<1>4. FramesRight(prog, Settled', stack) /\ FramesRight(prog, Settled, stack)
  BY FrameMono DEF IInv, FramesOK, FramesRight
<1>5. /\ Below \in Seq(Frame)
      /\ NoTwice(stack) =>
           /\ NoTwice(Below) /\ ~Open(Below, Top.task, Top.sym)
           /\ \A k, x : Open(Below, k, x) <=> Open(stack, k, x) /\ ~(Top.task = k /\ Top.sym = x)
      /\ FramesRight(prog, Settled', Below) /\ FrameOK(prog, Settled', Top) /\ Top.saved = ModOf(prog, Below)
  BY ONLY <1>1, <1>3, <1>4, Pop
<1>6. FrameOK(prog, Settled, Top)
  BY ONLY <1>1, <1>3, <1>4, Pop
<1>7. FrameOK(prog, Settled, e)
  BY <1>1, <1>2, <1>6, FrameProceeds DEF use, IInv
<1>8. FrameOK(prog, Settled', e)
  BY <1>7, FrameMono
<1>9. /\ stack' \in Seq(Frame)
      /\ \A k, x : Open(stack', k, x) <=> Open(Below, k, x) \/ (e.task = k /\ e.sym = x)
      /\ NoTwice(Below) /\ ~Open(Below, e.task, e.sym) => NoTwice(stack')
      /\ ModOf(prog, stack') = IF e.sym = None THEN Main ELSE prog.home[e.sym]
      /\ FramesRight(prog, Settled', stack')
  BY ONLY <1>2, <1>3, <1>5, <1>8, Push
<1>10. FramesOK'
  BY <1>9 DEF FramesOK
<1>11. ASSUME phase \in Passes
       PROVE  NoTwice(stack) /\ mod = ModOf(prog, stack)
  BY <1>11, MarksForm DEF IInv, Marks
<1>12. ModOf(prog, stack) = ModOf(prog, stack')
  BY <1>2, <1>9 DEF ModOf, Top
<1>13. Open(stack, Top.task, Top.sym)
  BY StackFacts DEF Open, Top, IInv
<1>14. NoTwice(stack) => \A k, x : Open(stack', k, x) <=> Open(stack, k, x)
  BY <1>2, <1>5, <1>9, <1>13
<1> QED  BY <1>2, <1>5, <1>9, <1>10, <1>11, <1>12, <1>14

(* The innermost call's next use, seen from its declaration. *)
LEMMA NextUse ==
  ASSUME IInv, phase \in Passes, stack # <<>>, Top.rest # <<>>
  PROVE  /\ FrameOK(prog, Settled, Top) /\ Behind(prog, Top) \in Nat
         /\ use = Source(prog, Top)[Behind(prog, Top) + 1]
         /\ Top.locals = Known(prog, Top) \cup DeclaredBefore(Source(prog, Top), Behind(prog, Top) + 1)
         /\ mod = ModFor(prog, Top.sym) /\ mod \in Modules
<1>1. Top \in Frame /\ Len(stack) \in DOMAIN stack
  BY StackFacts DEF IInv
<1>2. FrameOK(prog, Settled, Top)
  BY <1>1 DEF IInv, FramesOK, FramesRight, Top
<1>3. use = Top.rest[1] /\ 1 \in 1..Len(Top.rest)
  BY TopFacts
<1>4. mod = ModOf(prog, stack)
  BY MarksForm DEF IInv, Marks
<1>5. Top.sym \in Sym \cup {None} /\ mod \in Modules
  BY <1>1 DEF Frame, IInv, TypeOK
<1> QED  BY <1>2, <1>3, <1>4, <1>5 DEF FrameOK, ModOf, ModFor, Top

LEMMA UseIsMet ==
  ASSUME IInv, Using,
         \/ use.mode = "decl" /\ Found(use.name) = None /\ use.name \notin Top.locals
         \/ use.mode # "decl" /\ use.name \in Top.locals
         \/ Used
  PROVE  NeedsNow(prog, Top) \subseteq Settled
<1> DEFINE q == Source(prog, Top)  i == Behind(prog, Top) + 1  t == Found(use.name)
           N == NeedsAt(prog, ModFor(prog, Top.sym), q, i, Known(prog, Top))
<1>1. phase \in Passes /\ stack # <<>> /\ Top.rest # <<>>
  BY DEF Using
<1>2. /\ use = q[i] /\ mod = ModFor(prog, Top.sym) /\ mod \in Modules
      /\ Top.locals = Known(prog, Top) \cup DeclaredBefore(q, i)
  BY <1>1, NextUse
<1>3. t = prog.scope[mod][q[i].name]
  BY <1>2 DEF Found
<1> HIDE DEF q, i, t
<1>4. /\ q[i].mode = "decl" /\ t = None /\ q[i].name \notin Top.locals => N = {}
      /\ q[i].mode # "decl" /\ q[i].name \in Top.locals => N = {}
      /\ q[i].mode # "decl" /\ q[i].name \notin Top.locals /\ t # None =>
           N = {Symbol(t)} \cup {Type(a) : a \in {b \in Sym : q[i].mode \in {"size", "elem", "ret"} /\ b = prog.means[t]}}
  BY ONLY <1>2, <1>3, NeedsOfUse
<1>5. ASSUME Used  PROVE N \subseteq Settled
  <2>1. /\ use.mode # "decl" /\ use.name \notin Top.locals /\ t # None /\ status[t] = "resolved"
        /\ use.mode \in {"size", "elem", "ret"} => typeOf[t] = None \/ typeOf[t] \in complete
    BY <1>5 DEF Used, Resolved, UsingGlobal, SizeUnknown, TypeUsed, NeedsSize, t
  <2>2. t \in Sym
    BY <1>1, <2>1, TopFacts DEF t
  <2>3. Symbol(t) \in Settled
    BY <2>1, <2>2 DEF Settled
  <2>4. typeOf[t] = prog.means[t]
    BY <2>1, <2>2 DEF IInv, TypesTrue
  <2>5. ASSUME NEW a \in Sym, q[i].mode \in {"size", "elem", "ret"}, a = prog.means[t]
        PROVE  Type(a) \in Settled
    BY <1>2, <2>1, <2>4, <2>5, ResolverAssumption DEF Settled
  <2> HIDE DEF N
  <2>6. N = {Symbol(t)} \cup {Type(a) : a \in {b \in Sym : q[i].mode \in {"size", "elem", "ret"} /\ b = prog.means[t]}}
    BY <1>2, <1>4, <2>1
  <2> QED  BY <2>3, <2>5, <2>6
<1> HIDE DEF N
<1>6. N \subseteq Settled
  BY <1>2, <1>4, <1>5 DEF t
<1> QED  BY <1>6 DEF N, q, i, NeedsNow

-----------------------------------------------------------------------------
(*                     One lemma for each kind of step                     *)

(* One thing is settled, after all it needs, or none. *)
Settles ==
  \/ Settled' = Settled
  \/ \E x \in Things \ Settled : Needs[x] \subseteq Settled /\ Settled' = Settled \cup {x}

(* Failing, aborting, and going from one pass or position to the next. *)
LEMMA PhaseSteps ==
  ASSUME IInv, UNCHANGED <<prog, mod, stack, status, typeOf, types, lists, checked>>,
         phase' \in Passes \cup Terminal \cup {"failing"}, phase' \in Passes => phase \in Passes,
         pos' \in Nat \ {0}
  PROVE  IInv' /\ Settles
<1>1. Settled' = Settled
  BY DEF Settled, types
<1>2. TypeOK' /\ prog' \in Programs
  BY DEF IInv, TypeOK, types, lists
<1>3. MarksMatchCalls'
  BY MarksForm DEF IInv, Marks, types
<1>4. FramesOK' /\ TypesTrue' /\ ProcsResolved'
  BY <1>1 DEF IInv, FramesOK, TypesTrue, ProcsResolved, lists
<1> QED  BY <1>1, <1>2, <1>3, <1>4 DEF IInv, Settles

(* A call goes on to its next use. *)
LEMMA ProceedSteps ==
  ASSUME IInv, Using, NEW locals \in SUBSET Names, Proceed(locals),
         locals = Top.locals \cup (IF use.mode = "decl" THEN {use.name} ELSE {}),
         \/ use.mode = "decl" /\ Found(use.name) = None /\ use.name \notin Top.locals
         \/ use.mode # "decl" /\ use.name \in Top.locals
         \/ Used
  PROVE  IInv' /\ Settles
<1>1. phase \in Passes /\ stack # <<>> /\ Top.rest # <<>>
  BY DEF Using
<1>2. UNCHANGED <<prog, phase, pos, mod, status, typeOf, types, lists, checked>>
  BY DEF Proceed
<1>3. Settled' = Settled
  BY <1>2 DEF Settled, types
<1>4. NeedsNow(prog, Top) \subseteq Settled
  BY UseIsMet
<1>5. /\ stack' \in Seq(Frame) /\ FramesOK'
      /\ NoTwice(stack') /\ mod' = ModOf(prog, stack')
      /\ \A k, x : Open(stack', k, x) <=> Open(stack, k, x)
  BY <1>1, <1>2, <1>3, <1>4, CallProceeds DEF Proceed
<1>6. TypeOK' /\ prog' \in Programs
  BY <1>2, <1>5 DEF IInv, TypeOK, types, lists
<1>7. MarksMatchCalls'
  BY <1>1, <1>2, <1>5, MarksForm DEF IInv, Marks, types
<1>8. TypesTrue' /\ ProcsResolved'
  BY <1>2, <1>3 DEF IInv, TypesTrue, ProcsResolved, lists
<1> QED  BY <1>3, <1>5, <1>6, <1>7, <1>8 DEF IInv, Settles

(* A size is asked for. *)
LEMMA CompleteSteps ==
  ASSUME IInv, phase \in Passes, NEW a \in Sym, Complete(a)
  PROVE  IInv' /\ Settles
<1> DEFINE e == Entry("type", a, prog.uses[a], {})
<1>1. /\ UNCHANGED <<prog, phase, pos, status, typeOf, complete, lists, checked>>
      /\ a \notin complete \cup completing /\ completing' = completing \cup {a}
      /\ Call("type", a, prog.uses[a], {})
  BY DEF Complete
<1>2. Settled' = Settled
  BY <1>1 DEF Settled
<1>3. ~Open(stack, "type", a) /\ a # None /\ prog.uses[a] \in Seq(Use) /\ mod \in Modules
  BY <1>1, MarksForm, ProgramTypes, ResolverAssumption DEF IInv, Marks, TypeOK
<1>4. e \in Frame /\ e.rest = Source(prog, e) /\ e.locals = Known(prog, e) /\ e.task = "type" /\ e.sym = a
  BY <1>3 DEF Entry, Frame, Tasks, Source, Known
<1>5. FrameOK(prog, Settled, e)
  <2> HIDE DEF e
  <2> QED  BY <1>3, <1>4, FrameBegins DEF IInv
<1>6. /\ stack' \in Seq(Frame) /\ mod' \in Modules /\ FramesOK'
      /\ NoTwice(stack') /\ mod' = ModOf(prog, stack')
      /\ \A k, x : Open(stack', k, x) <=> Open(stack, k, x) \/ (k = "type" /\ x = a)
  BY <1>1, <1>2, <1>3, <1>5, CallBegins DEF Tasks
<1>7. TypeOK' /\ prog' \in Programs
  BY <1>1, <1>6 DEF IInv, TypeOK, lists
<1>8. MarksMatchCalls'
  BY <1>1, <1>6, MarksForm DEF IInv, Marks
<1>9. TypesTrue' /\ ProcsResolved'
  BY <1>1, <1>2 DEF IInv, TypesTrue, ProcsResolved, lists
<1> QED  BY <1>2, <1>6, <1>7, <1>8, <1>9 DEF IInv, Settles

(* A symbol is asked for: an aggregate is resolved at once, the declaration
   of any other begins. *)
LEMMA DemandSteps ==
  ASSUME IInv, phase \in Passes, NEW s \in Sym, Demand(s)
  PROVE  IInv' /\ Settles
<1>1. /\ status[s] = "unresolved" /\ UNCHANGED <<prog, phase, pos, types, checked>>
      /\ s # None /\ status \in [Sym -> {"unresolved", "resolving", "resolved"}]
      /\ typeOf \in [Sym -> Sym \cup {None}] /\ prog.kind \in [Sym -> Kinds]
  BY ProgramTypes, ResolverAssumption DEF Demand, IInv, TypeOK
<1>2. CASE IsAggregate(prog, s)
  <2>1. /\ status' = [status EXCEPT ![s] = "resolved"] /\ typeOf' = [typeOf EXCEPT ![s] = s]
        /\ aggregates' = Append(aggregates, s)
        /\ UNCHANGED <<mod, stack, procs, foreign, globals>>
    BY <1>2 DEF Demand
  <2>2. Settled' = Settled \cup {Symbol(s)}
    BY <1>1, <2>1 DEF Settled, types
  <2>3. Symbol(s) \in Things \ Settled /\ Needs[Symbol(s)] = {}
    <3>1. Symbol(s) \notin Settled
      BY <1>1 DEF Settled, Symbol, Type, Body
    <3> QED  BY <1>1, <1>2, <3>1 DEF Needs, Things, Symbol
  <2>4. TypeOK' /\ prog' \in Programs
    BY <1>1, <2>1 DEF IInv, TypeOK, types
  <2>5. MarksMatchCalls'
    BY <1>1, <2>1, MarksForm DEF IInv, Marks, types
  <2>6. FramesOK'
    BY <1>1, <2>1, <2>2, FrameMono DEF IInv, FramesOK, FramesRight
  <2>7. TypesTrue'
    BY <1>1, <1>2, <2>1, ResolverAssumption DEF IInv, TypesTrue
  <2>8. ProcsResolved'
    BY <1>1, <2>1, <2>2 DEF IInv, ProcsResolved
  <2> QED  BY <2>2, <2>3, <2>4, <2>5, <2>6, <2>7, <2>8 DEF IInv, Settles
<1>3. CASE ~IsAggregate(prog, s)
  <2> DEFINE e == Entry("symbol", s, prog.uses[s], {})
  <2>1. /\ status' = [status EXCEPT ![s] = "resolving"] /\ Call("symbol", s, prog.uses[s], {})
        /\ UNCHANGED <<typeOf, lists>>
    BY <1>3 DEF Demand
  <2>2. Settled' = Settled
    BY <1>1, <2>1 DEF Settled, types
  <2>3. ~Open(stack, "symbol", s) /\ prog.uses[s] \in Seq(Use) /\ mod \in Modules
    BY <1>1, MarksForm, ProgramTypes DEF IInv, Marks, TypeOK
  <2>4. e \in Frame /\ e.rest = Source(prog, e) /\ e.locals = Known(prog, e) /\ e.task = "symbol" /\ e.sym = s
    BY <2>3 DEF Entry, Frame, Tasks, Source, Known
  <2>5. FrameOK(prog, Settled, e)
    <3> HIDE DEF e
    <3> QED  BY <1>1, <1>3, <2>4, FrameBegins DEF IInv
  <2>6. /\ stack' \in Seq(Frame) /\ mod' \in Modules /\ FramesOK'
        /\ NoTwice(stack') /\ mod' = ModOf(prog, stack')
        /\ \A k, x : Open(stack', k, x) <=> Open(stack, k, x) \/ (k = "symbol" /\ x = s)
    BY <1>1, <2>1, <2>2, <2>3, <2>5, CallBegins DEF Tasks
  <2>7. TypeOK' /\ prog' \in Programs
    BY <1>1, <2>1, <2>6 DEF IInv, TypeOK, lists, types
  <2>8. MarksMatchCalls'
    BY <1>1, <2>1, <2>6, MarksForm DEF IInv, Marks, types
  <2>9. TypesTrue' /\ ProcsResolved'
    BY <1>1, <2>1, <2>2 DEF IInv, TypesTrue, ProcsResolved, lists
  <2> QED  BY <2>2, <2>6, <2>7, <2>8, <2>9 DEF IInv, Settles
<1> QED  BY <1>2, <1>3

(* The #static_assert statements, and the body of a procedure, begin. *)
LEMMA AssertsSteps ==
  ASSUME IInv, Asserts
  PROVE  IInv' /\ Settles
<1> DEFINE e == Entry("asserts", None, prog.asserts, {})
<1>1. /\ UNCHANGED <<prog, phase, status, typeOf, types, lists, checked>> /\ pos' = 2
      /\ Call("asserts", None, prog.asserts, {}) /\ phase \in Passes /\ stack = <<>>
  BY DEF Asserts, At, Passes
<1>2. Settled' = Settled
  BY <1>1 DEF Settled, types
<1>3. ~Open(stack, "asserts", None) /\ prog.asserts \in Seq(Use) /\ mod \in Modules /\ mod = Main
  BY <1>1, MarksForm, ProgramTypes DEF IInv, Marks, TypeOK, Open, ModOf
<1>4. e \in Frame /\ e.rest = Source(prog, e) /\ e.locals = Known(prog, e)
      /\ e.task = "asserts" /\ e.sym = None
  BY <1>3 DEF Entry, Frame, Tasks, Source, Known
<1>5. FrameOK(prog, Settled, e)
  <2> HIDE DEF e
  <2> QED  BY <1>4, FrameBegins DEF IInv
<1>6. /\ stack' \in Seq(Frame) /\ mod' \in Modules /\ FramesOK'
      /\ NoTwice(stack') /\ mod' = ModOf(prog, stack')
      /\ \A k, x : Open(stack', k, x) <=> Open(stack, k, x) \/ (k = "asserts" /\ x = None)
  BY <1>1, <1>2, <1>3, <1>5, CallBegins DEF Tasks
<1>7. TypeOK' /\ prog' \in Programs
  BY <1>1, <1>6 DEF IInv, TypeOK, lists, types
<1>8. MarksMatchCalls'
  BY <1>1, <1>6, MarksForm DEF IInv, Marks, types
<1>9. TypesTrue' /\ ProcsResolved'
  BY <1>1, <1>2 DEF IInv, TypesTrue, ProcsResolved, lists
<1> QED  BY <1>2, <1>6, <1>7, <1>8, <1>9 DEF IInv, Settles

LEMMA BodySteps ==
  ASSUME IInv, phase \in Passes, stack = <<>>, NEW s \in Sym, Symbol(s) \in Settled,
         Call("body", s, prog.body[s], Params(prog, s)),
         UNCHANGED <<prog, phase, pos, status, typeOf, types, lists, checked>>
  PROVE  IInv' /\ Settles
<1> DEFINE e == Entry("body", s, prog.body[s], Params(prog, s))
<1>1. Settled' = Settled
  BY DEF Settled, types
<1>2. ~Open(stack, "body", s) /\ prog.body[s] \in Seq(Use) /\ mod \in Modules /\ s # None
  BY ProgramTypes, ResolverAssumption DEF IInv, TypeOK, Open
<1>3. Params(prog, s) \in SUBSET Names
  <2>1. \A i \in DOMAIN prog.uses[s] : prog.uses[s][i].name \in Names
    <3>1. prog.uses[s] \in Seq(Use)
      BY ProgramTypes DEF IInv
    <3>2. \A i \in DOMAIN prog.uses[s] : prog.uses[s][i] \in Use
      BY <3>1
    <3> QED  BY <3>2 DEF Use
  <2> QED  BY <2>1 DEF Params
<1>4. e \in Frame /\ e.rest = Source(prog, e) /\ e.locals = Known(prog, e) /\ e.task = "body" /\ e.sym = s
  BY <1>2, <1>3 DEF Entry, Frame, Tasks, Source, Known
<1>5. FrameOK(prog, Settled, e)
  <2> HIDE DEF e
  <2> QED  BY <1>2, <1>4, FrameBegins DEF IInv
<1>6. /\ stack' \in Seq(Frame) /\ mod' \in Modules /\ FramesOK'
      /\ NoTwice(stack') /\ mod' = ModOf(prog, stack')
      /\ \A k, x : Open(stack', k, x) <=> Open(stack, k, x) \/ (k = "body" /\ x = s)
  BY <1>1, <1>2, <1>3, <1>5, CallBegins DEF Tasks
<1>7. TypeOK' /\ prog' \in Programs
  BY <1>6 DEF IInv, TypeOK, lists, types
<1>8. MarksMatchCalls'
  BY <1>6, MarksForm DEF IInv, Marks, types
<1>9. TypesTrue' /\ ProcsResolved'
  BY <1>1 DEF IInv, TypesTrue, ProcsResolved, lists
<1> QED  BY <1>1, <1>6, <1>7, <1>8, <1>9 DEF IInv, Settles

(* A call that has been through all its uses has what it needs. *)
LEMMA CallIsMet ==
  ASSUME IInv, NEW task, Returning(task)
  PROVE  /\ phase \in Passes /\ stack # <<>> /\ Top.task = task /\ Top \in Frame
         /\ FrameOK(prog, Settled, Top) /\ Open(stack, task, Top.sym)
         /\ mod = ModFor(prog, Top.sym) /\ mod \in Modules
         /\ task # "asserts" => Top.sym \in Sym /\ mod = prog.home[Top.sym]
         /\ \A i \in DOMAIN Source(prog, Top) :
              NeedsAt(prog, mod, Source(prog, Top), i, Known(prog, Top)) \subseteq Settled
<1>1. phase \in Passes /\ stack # <<>> /\ Top.task = task /\ Top.rest = <<>>
  BY DEF Returning
<1>2. Top \in Frame /\ Len(stack) \in DOMAIN stack
  BY <1>1, StackFacts DEF IInv
<1>3. FrameOK(prog, Settled, Top) /\ Open(stack, task, Top.sym)
  BY <1>1, <1>2 DEF IInv, FramesOK, FramesRight, Open, Top
<1>4. mod = ModFor(prog, Top.sym) /\ mod \in Modules
  <2>1. mod = ModOf(prog, stack)
    BY <1>1, MarksForm DEF IInv, Marks
  <2> QED  BY <1>1, <2>1 DEF ModOf, ModFor, Top, IInv, TypeOK
<1>7. task # "asserts" => Top.sym \in Sym /\ mod = prog.home[Top.sym]
  BY <1>1, <1>2, <1>3, <1>4, ResolverAssumption DEF FrameOK, Frame, ModFor
<1>5. /\ DOMAIN Source(prog, Top) = 1..Len(Source(prog, Top)) /\ Len(Source(prog, Top)) \in Nat
  BY <1>2, <1>3, SourceTypes DEF IInv, FrameOK
<1>6. Behind(prog, Top) = Len(Source(prog, Top))
  BY <1>1, <1>5 DEF Behind
<1> QED  BY <1>1, <1>2, <1>3, <1>4, <1>5, <1>6, <1>7 DEF FrameOK, UsesSettled

(* The type a typedef takes over is that of the symbol it names. *)
LEMMA TypeGivenTrue ==
  ASSUME IInv, Returning("symbol")
  PROVE  TypeGiven(Top.sym) = prog.means[Top.sym]
<1> DEFINE s == Top.sym  q == prog.uses[s]  t == Found(q[1].name)
<1>1. /\ s \in Sym /\ mod = prog.home[s] /\ mod \in Modules /\ ~IsAggregate(prog, s)
      /\ \A i \in DOMAIN q : NeedsAt(prog, mod, q, i, {}) \subseteq Settled
  BY CallIsMet DEF FrameOK, Source, Known
<1>2. CASE Aliases(prog, s)
  <2>1. /\ Len(q) = 1 /\ q[1].mode = "alias" /\ 1 \in DOMAIN q /\ q \in Seq(Use)
        /\ \A x \in Sym : x = prog.scope[prog.home[s]][q[1].name] => prog.means[s] = prog.means[x]
    <3>1. q \in Seq(Use)
      BY <1>1, ProgramTypes DEF IInv
    <3>2. PICK i \in DOMAIN q : q[i].mode = "alias"
      BY <1>2 DEF Aliases
    <3>3. /\ Len(q) = 1
          /\ \A x \in Sym : x = prog.scope[prog.home[s]][q[i].name] => prog.means[s] = prog.means[x]
      BY SMTT(20), <1>1, <3>2, ResolverAssumption DEF IInv
    <3>4. i = 1
      BY <3>1, <3>2, <3>3, LenProperties
    <3> QED  BY <3>1, <3>2, <3>3, <3>4
  <2>2. t = prog.scope[mod][q[1].name] /\ t \in Sym \cup {None}
    <3>1. q[1].name \in Names
      <4>1. q[1] \in Use
        <5> HIDE DEF q
        <5> QED  BY <2>1
      <4> QED  BY <4>1 DEF Use
    <3> QED  BY <1>1, <3>1, ProgramTypes DEF Found, IInv
  <2>3. q[1].name \notin {} \cup DeclaredBefore(q, 1) /\ NeedsAt(prog, mod, q, 1, {}) \subseteq Settled
    BY <1>1, <2>1 DEF DeclaredBefore
  <2> HIDE DEF s, q, t
  <2>4. /\ t = None => NeedsAt(prog, mod, q, 1, {}) = {lost}
        /\ t # None => Symbol(t) \in NeedsAt(prog, mod, q, 1, {})
    <3>1. /\ q[1].mode # "decl" /\ q[1].name \notin {} \cup DeclaredBefore(q, 1) /\ t # None =>
                NeedsAt(prog, mod, q, 1, {}) =
                  {Symbol(t)} \cup {Type(a) : a \in {b \in Sym : q[1].mode \in {"size", "elem", "ret"} /\ b = prog.means[t]}}
          /\ q[1].mode # "decl" /\ q[1].name \notin {} \cup DeclaredBefore(q, 1) /\ t = None =>
                NeedsAt(prog, mod, q, 1, {}) = {lost}
      BY ONLY <1>1, <2>2, NeedsOfUse
    <3> QED  BY <2>1, <2>3, <3>1
  <2>5. t \in Sym /\ Symbol(t) \in Settled
    BY <2>2, <2>3, <2>4, LostIsNot
  <2>6. status[t] = "resolved"
    BY <2>5 DEF Settled, Symbol, Type, Body
  <2>7. typeOf[t] = prog.means[t] /\ prog.means[s] = prog.means[t]
    BY <1>1, <2>1, <2>2, <2>5, <2>6 DEF IInv, TypesTrue
  <2> QED  BY <1>2, <2>7 DEF TypeGiven, s, q, t
<1>3. CASE ~Aliases(prog, s)
  BY <1>1, <1>3, ResolverAssumption DEF TypeGiven, IInv
<1> QED  BY <1>2, <1>3

LEMMA FinishSymbolStep ==
  ASSUME IInv, FinishSymbol
  PROVE  IInv' /\ Settles
<1> DEFINE s == Top.sym
<1>1. /\ Returning("symbol") /\ UNCHANGED <<prog, phase, pos, types, checked>>
      /\ status' = [status EXCEPT ![s] = "resolved"] /\ typeOf' = [typeOf EXCEPT ![s] = TypeGiven(s)]
      /\ Record(s) /\ Leave(Top)
  BY DEF FinishSymbol
<1>2. /\ phase \in Passes /\ stack # <<>> /\ Top.task = "symbol" /\ s \in Sym /\ ~IsAggregate(prog, s)
      /\ Open(stack, "symbol", s) /\ mod = prog.home[s]
      /\ \A i \in DOMAIN prog.uses[s] : NeedsAt(prog, mod, prog.uses[s], i, {}) \subseteq Settled
  BY <1>1, CallIsMet DEF FrameOK, Source, Known
<1>3. TypeGiven(s) = prog.means[s] /\ prog.means[s] \in Sym \cup {None}
  BY <1>1, <1>2, TypeGivenTrue, ProgramTypes DEF IInv
<1> HIDE DEF s
<1>4. /\ status[s] = "resolving" /\ status \in [Sym -> {"unresolved", "resolving", "resolved"}]
      /\ typeOf \in [Sym -> Sym \cup {None}]
  BY <1>2, MarksForm DEF IInv, TypeOK, Marks
<1>5. Settled' = Settled \cup {Symbol(s)}
  BY <1>1, <1>2, <1>4 DEF Settled, types
<1>6. Symbol(s) \in Things \ Settled /\ Needs[Symbol(s)] \subseteq Settled
  <2>1. Symbol(s) \notin Settled
    BY <1>4 DEF Settled, Symbol, Type, Body
  <2>2. NeedsOf(prog, prog.home[s], prog.uses[s], {}) \subseteq Settled
    BY <1>2 DEF NeedsOf
  <2>3. Symbol(s) \in Things /\ Symbol(s).of = s /\ Symbol(s).what = "symbol" /\ s # None
    BY <1>2, ResolverAssumption DEF Symbol, Things
  <2>4. Needs[Symbol(s)] = NeedsOf(prog, prog.home[s], prog.uses[s], {})
    BY <1>2, <2>3 DEF Needs
  <2> QED  BY <2>1, <2>2, <2>3, <2>4
<1>7. /\ stack' \in Seq(Frame) /\ mod' \in Modules /\ FramesOK'
      /\ NoTwice(stack') /\ mod' = ModOf(prog, stack')
      /\ \A k, x : Open(stack', k, x) <=> Open(stack, k, x) /\ ~(k = "symbol" /\ x = s)
  BY <1>1, <1>2, <1>5, CallReturns DEF s
<1>8. procs' \in Seq(Sym) /\ foreign' \in Seq(Sym) /\ globals' \in Seq(Sym) /\ aggregates' \in Seq(Sym)
  BY <1>1, <1>2 DEF Record, IInv, TypeOK
<1>9. TypeOK' /\ prog' \in Programs
  BY <1>1, <1>2, <1>3, <1>4, <1>7, <1>8 DEF IInv, TypeOK, types
<1>10. MarksMatchCalls'
  BY <1>1, <1>2, <1>4, <1>7, MarksForm DEF IInv, Marks, types
<1>11. TypesTrue'
  BY <1>1, <1>2, <1>3, <1>4 DEF IInv, TypesTrue
<1>12. ProcsResolved'
  <2>1. procs' = procs \/ procs' = Append(procs, s)
    BY <1>1 DEF Record
  <2>2. \A i \in DOMAIN procs' : (i \in DOMAIN procs /\ procs'[i] = procs[i]) \/ procs'[i] = s
    <3>1. procs \in Seq(Sym)
      BY DEF IInv, TypeOK
    <3>2. \A i \in DOMAIN Append(procs, s) :
            (i \in DOMAIN procs /\ Append(procs, s)[i] = procs[i]) \/ Append(procs, s)[i] = s
      BY ONLY <1>2, <3>1
    <3> QED  BY <2>1, <3>2
  <2> QED  BY <1>1, <1>5, <2>2 DEF IInv, ProcsResolved
<1> QED  BY <1>5, <1>6, <1>7, <1>9, <1>10, <1>11, <1>12 DEF IInv, Settles

LEMMA FinishTypeStep ==
  ASSUME IInv, FinishType
  PROVE  IInv' /\ Settles
<1> DEFINE a == Top.sym
<1>1. /\ Returning("type") /\ UNCHANGED <<prog, phase, pos, status, typeOf, lists, checked>>
      /\ complete' = complete \cup {a} /\ completing' = completing \ {a} /\ Leave(Top)
  BY DEF FinishType
<1>2. /\ phase \in Passes /\ stack # <<>> /\ Top.task = "type" /\ a \in Sym
      /\ Open(stack, "type", a) /\ mod = prog.home[a]
      /\ \A i \in DOMAIN prog.uses[a] : NeedsAt(prog, mod, prog.uses[a], i, {}) \subseteq Settled
  BY <1>1, CallIsMet DEF Source, Known
<1> HIDE DEF a
<1>3. Settled' = Settled \cup {Type(a)}
  BY <1>1 DEF Settled
<1>4. Type(a) \in Things /\ Needs[Type(a)] \subseteq Settled
  <2>1. NeedsOf(prog, prog.home[a], prog.uses[a], {}) \subseteq Settled
    BY <1>2 DEF NeedsOf
  <2>2. Type(a) \in Things /\ Type(a).of = a /\ Type(a).what = "type" /\ a # None
    BY <1>2, ResolverAssumption DEF Type, Things
  <2>3. Needs[Type(a)] = NeedsOf(prog, prog.home[a], prog.uses[a], {})
    BY <2>2 DEF Needs
  <2> QED  BY <2>1, <2>2, <2>3
<1>5. /\ stack' \in Seq(Frame) /\ mod' \in Modules /\ FramesOK'
      /\ NoTwice(stack') /\ mod' = ModOf(prog, stack')
      /\ \A k, x : Open(stack', k, x) <=> Open(stack, k, x) /\ ~(k = "type" /\ x = a)
  BY <1>1, <1>2, <1>3, CallReturns DEF a
<1>6. TypeOK' /\ prog' \in Programs
  BY <1>1, <1>2, <1>5 DEF IInv, TypeOK, lists
<1>7. MarksMatchCalls'
  BY <1>1, <1>2, <1>5, MarksForm DEF IInv, Marks
<1>8. TypesTrue' /\ ProcsResolved'
  BY <1>1, <1>3 DEF IInv, TypesTrue, ProcsResolved, lists
<1> QED  BY <1>3, <1>4, <1>5, <1>6, <1>7, <1>8 DEF IInv, Settles

LEMMA FinishBodyStep ==
  ASSUME IInv, FinishBody
  PROVE  IInv' /\ Settles
<1> DEFINE s == Top.sym
<1>1. /\ Returning("body") /\ UNCHANGED <<prog, phase, pos, status, typeOf, types, lists>>
      /\ checked' = checked \cup {s} /\ Leave(Top)
  BY DEF FinishBody
<1>2. /\ phase \in Passes /\ stack # <<>> /\ Top.task = "body" /\ s \in Sym
      /\ mod = prog.home[s] /\ Symbol(s) \in Settled
      /\ \A i \in DOMAIN prog.body[s] : NeedsAt(prog, mod, prog.body[s], i, Params(prog, s)) \subseteq Settled
  BY <1>1, CallIsMet DEF FrameOK, Source, Known
<1> HIDE DEF s
<1>3. Settled' = Settled \cup {Body(s)}
  BY <1>1 DEF Settled, types
<1>4. Body(s) \in Things /\ Needs[Body(s)] \subseteq Settled
  <2>1. NeedsOf(prog, prog.home[s], prog.body[s], Params(prog, s)) \subseteq Settled
    BY <1>2 DEF NeedsOf
  <2>2. Body(s) \in Things /\ Body(s).of = s /\ Body(s).what = "body" /\ s # None
    BY <1>2, ResolverAssumption DEF Body, Things
  <2>3. Needs[Body(s)] = {Symbol(s)} \cup NeedsOf(prog, prog.home[s], prog.body[s], Params(prog, s))
    BY <2>2 DEF Needs
  <2> QED  BY <1>2, <2>1, <2>2, <2>3
<1>5. /\ stack' \in Seq(Frame) /\ mod' \in Modules /\ FramesOK'
      /\ NoTwice(stack') /\ mod' = ModOf(prog, stack')
      /\ \A k, x : Open(stack', k, x) <=> Open(stack, k, x) /\ ~(k = "body" /\ x = s)
  BY <1>1, <1>2, <1>3, CallReturns DEF s
<1>6. TypeOK' /\ prog' \in Programs
  BY <1>1, <1>2, <1>5 DEF IInv, TypeOK, lists, types
<1>7. MarksMatchCalls'
  BY <1>1, <1>2, <1>5, MarksForm DEF IInv, Marks, types
<1>8. TypesTrue' /\ ProcsResolved'
  BY <1>1, <1>3 DEF IInv, TypesTrue, ProcsResolved, lists
<1> QED  BY <1>3, <1>4, <1>5, <1>6, <1>7, <1>8 DEF IInv, Settles

LEMMA FinishAssertsStep ==
  ASSUME IInv, FinishAsserts
  PROVE  IInv' /\ Settles
<1>1. /\ Returning("asserts") /\ UNCHANGED <<prog, status, typeOf, types, lists, checked>>
      /\ Leave(Top) /\ phase' = "bodies" /\ pos' = 1
  BY DEF FinishAsserts
<1>2. phase \in Passes /\ stack # <<>> /\ Top.task = "asserts"
  BY <1>1, CallIsMet
<1>3. Settled' = Settled
  BY <1>1 DEF Settled, types
<1>4. /\ stack' \in Seq(Frame) /\ mod' \in Modules /\ FramesOK'
      /\ NoTwice(stack') /\ mod' = ModOf(prog, stack')
      /\ \A k, x : Open(stack', k, x) <=> Open(stack, k, x) /\ ~(k = "asserts" /\ x = Top.sym)
  BY <1>1, <1>2, <1>3, CallReturns
<1>5. TypeOK' /\ prog' \in Programs
  BY <1>1, <1>4 DEF IInv, TypeOK, lists, types, Passes
<1>6. MarksMatchCalls'
  BY <1>1, <1>2, <1>4, MarksForm DEF IInv, Marks, types
<1>7. TypesTrue' /\ ProcsResolved'
  BY <1>1, <1>2, <1>3 DEF IInv, TypesTrue, ProcsResolved, lists
<1> QED  BY <1>3, <1>4, <1>5, <1>6, <1>7 DEF IInv, Settles

(* After a failure the calls return with nothing settled. *)
LEMMA UnwindSteps ==
  ASSUME IInv, UnwindSymbol \/ UnwindType \/ UnwindRest
  PROVE  IInv' /\ Settles
<1>1. /\ phase = "failing" /\ stack # <<>> /\ phase' \in {"failing", "crashed", "aborted"} /\ Leave(Top)
      /\ UNCHANGED <<prog, pos, status, typeOf, types, checked>>
  BY DEF UnwindSymbol, UnwindType, UnwindRest
<1>2. Settled' = Settled
  BY <1>1 DEF Settled, types
<1>3. /\ stack' \in Seq(Frame) /\ mod' \in Modules /\ FramesOK' /\ Top \in Frame
      /\ FrameOK(prog, Settled, Top)
  BY <1>1, <1>2, CallReturns
<1>4. procs' \in Seq(Sym) /\ foreign' \in Seq(Sym) /\ globals' \in Seq(Sym) /\ aggregates' \in Seq(Sym)
  <2>1. procs \in Seq(Sym) /\ foreign \in Seq(Sym) /\ globals \in Seq(Sym) /\ aggregates \in Seq(Sym)
    BY DEF IInv, TypeOK
  <2>2. CASE UnwindSymbol
    <3>1. Top.sym \in Sym /\ Record(Top.sym)
      BY <1>3, <2>2 DEF UnwindSymbol, FrameOK, Frame
    <3> QED  BY <2>1, <3>1 DEF Record
  <2>3. CASE UnwindType \/ UnwindRest
    BY <2>1, <2>3 DEF UnwindType, UnwindRest, lists
  <2> QED  BY <2>2, <2>3
<1>5. TypeOK' /\ prog' \in Programs
  BY <1>1, <1>3, <1>4 DEF IInv, TypeOK, types, Terminal, Failure
<1>6. phase' \notin Passes
  BY <1>1 DEF Passes
<1>7. MarksMatchCalls' /\ ProcsResolved'
  BY <1>6 DEF MarksMatchCalls, ProcsResolved
<1>8. TypesTrue'
  BY <1>1 DEF IInv, TypesTrue
<1> QED  BY <1>2, <1>3, <1>5, <1>7, <1>8 DEF IInv, Settles

-----------------------------------------------------------------------------
(*                         Every step of the resolver                      *)

LEMMA UseNameSteps ==
  ASSUME IInv, UseName
  PROVE  IInv' /\ Settles
<1>1. Using /\ phase \in Passes /\ stack # <<>> /\ Top.rest # <<>> /\ pos \in Nat \ {0}
  BY DEF UseName, Declare, UseLocal, UsingGlobal, LookupFails, Lookup, UseType, CyclicType, ZeroSize,
         Used, Resolved, Using, IInv, TypeOK
<1>2. use.name \in Names /\ Found(use.name) \in Sym \cup {None} /\ Top.locals \in SUBSET Names
  BY <1>1, TopFacts, StackFacts DEF Frame, IInv
<1>3. ASSUME Fail \/ Abort("aborted")  PROVE IInv' /\ Settles
  BY <1>1, <1>3, PhaseSteps DEF Fail, Abort, Passes, Terminal, Failure
<1>4. CASE Declare
  <2>1. CASE use.name \in Top.locals \/ Found(use.name) # None
    BY <1>3, <1>4, <2>1 DEF Declare
  <2>2. CASE ~(use.name \in Top.locals \/ Found(use.name) # None)
    <3>1. Proceed(Top.locals \cup {use.name}) /\ use.mode = "decl"
      BY <1>4, <2>2 DEF Declare
    <3> QED  BY <1>1, <1>2, <2>2, <3>1, ProceedSteps
  <2> QED  BY <2>1, <2>2
<1>5. CASE UseLocal
  <2>1. Proceed(Top.locals) /\ use.mode # "decl" /\ use.name \in Top.locals
    BY <1>5 DEF UseLocal
  <2> QED  BY <1>1, <1>2, <2>1, ProceedSteps
<1>6. CASE LookupFails \/ CyclicType \/ ZeroSize
  BY <1>3, <1>6 DEF LookupFails, CyclicType, ZeroSize
<1>7. CASE Lookup
  BY <1>1, <1>2, <1>7, DemandSteps DEF Lookup
<1>8. CASE UseType
  <2>1. TypeUsed \in Sym
    BY <1>2, <1>8 DEF UseType, Resolved, SizeUnknown, TypeUsed, IInv, TypeOK
  <2> QED  BY <1>1, <1>8, <2>1, CompleteSteps DEF UseType
<1>9. CASE Used
  <2>1. Proceed(Top.locals) /\ use.mode # "decl"
    BY <1>9 DEF Used, Resolved, UsingGlobal
  <2> QED  BY <1>1, <1>2, <1>9, <2>1, ProceedSteps
<1> QED  BY <1>4, <1>5, <1>6, <1>7, <1>8, <1>9 DEF UseName

LEMMA PassSteps ==
  ASSUME IInv, Pass
  PROVE  IInv' /\ Settles
<1>1. phase \in Passes /\ stack = <<>> /\ pos \in Nat \ {0}
  BY DEF Pass, Headers, Asserts, Bodies, Completions, At, Passes, IInv, TypeOK
<1>2. ASSUME NEW p \in Passes \cup {"done"}, Advance \/ Begin(p)  PROVE IInv' /\ Settles
  BY <1>1, <1>2, PhaseSteps DEF Advance, Begin, Passes, Terminal
<1>3. CASE Headers
  <2>1. CASE pos > Len(prog.order)
    BY <1>2, <1>3, <2>1 DEF Headers, Passes
  <2>2. CASE ~(pos > Len(prog.order)) /\ status[prog.order[pos]] = "resolved"
    BY <1>2, <1>3, <2>2 DEF Headers, Passes
  <2>3. CASE ~(pos > Len(prog.order)) /\ status[prog.order[pos]] # "resolved"
    <3>1. prog.order \in Seq(Sym)
      BY ProgramTypes DEF IInv
    <3>2. prog.order[pos] \in Sym
      BY <1>1, <2>3, <3>1, LenProperties
    <3> QED  BY <1>1, <1>3, <2>3, <3>2, DemandSteps DEF Headers
  <2> QED  BY <2>1, <2>2, <2>3
<1>4. CASE Asserts
  BY <1>4, AssertsSteps
<1>5. CASE Bodies
  <2>1. CASE pos > Len(procs)
    BY <1>2, <1>5, <2>1 DEF Bodies, Passes
  <2>2. CASE ~(pos > Len(procs)) /\ procs[pos] \in checked
    BY <1>2, <1>5, <2>2 DEF Bodies, Passes
  <2>3. CASE ~(pos > Len(procs)) /\ procs[pos] \notin checked
    <3>1. procs \in Seq(Sym)
      BY DEF IInv, TypeOK
    <3>2. pos \in DOMAIN procs /\ procs[pos] \in Sym
      BY <1>1, <2>3, <3>1, LenProperties
    <3>3. Symbol(procs[pos]) \in Settled
      BY <1>1, <3>2 DEF IInv, ProcsResolved
    <3> QED  BY <1>1, <1>5, <2>3, <3>2, <3>3, BodySteps DEF Bodies
  <2> QED  BY <2>1, <2>2, <2>3
<1>6. CASE Completions
  <2>1. CASE pos > Len(aggregates)
    BY <1>2, <1>6, <2>1 DEF Completions, Passes
  <2>2. CASE ~(pos > Len(aggregates)) /\ aggregates[pos] \in complete
    BY <1>2, <1>6, <2>2 DEF Completions, Passes
  <2>3. CASE ~(pos > Len(aggregates)) /\ aggregates[pos] \notin complete
    <3>1. aggregates \in Seq(Sym)
      BY DEF IInv, TypeOK
    <3>2. aggregates[pos] \in Sym
      BY <1>1, <2>3, <3>1, LenProperties
    <3> QED  BY <1>1, <1>6, <2>3, <3>2, CompleteSteps DEF Completions
  <2> QED  BY <2>1, <2>2, <2>3
<1> QED  BY <1>3, <1>4, <1>5, <1>6 DEF Pass

(* The invariant and what a step settles, for every step and stutter. *)
LEMMA NextSteps ==
  ASSUME IInv, [Next]_vars
  PROVE  IInv' /\ Settles
<1>1. CASE UseName
  BY <1>1, UseNameSteps
<1>2. CASE Return
  BY <1>2, FinishSymbolStep, FinishTypeStep, FinishBodyStep, FinishAssertsStep DEF Return
<1>3. CASE UnwindSymbol \/ UnwindType \/ UnwindRest
  BY <1>3, UnwindSteps
<1>4. pos \in Nat \ {0} /\ phase \in Passes \cup Terminal \cup {"failing"}
  BY DEF IInv, TypeOK
<1>5. CASE ReportErrors
  BY <1>4, <1>5, PhaseSteps DEF ReportErrors, Abort, Passes, Terminal, Failure
<1>6. CASE Pass
  BY <1>6, PassSteps
<1>7. CASE UNCHANGED vars
  BY <1>4, <1>7, PhaseSteps DEF vars
<1> QED  BY <1>1, <1>2, <1>3, <1>5, <1>6, <1>7 DEF Next, Step, Stopped, Unwind

LEMMA InitInvariant == Init => IInv
<1> SUFFICES ASSUME Init  PROVE IInv
  OBVIOUS
<1>1. prog \in Programs /\ stack = <<>> /\ DOMAIN stack = {} /\ DOMAIN procs = {}
  BY DEF Init
<1>2. TypeOK
  BY <1>1, ProgramTypes, ResolverAssumption DEF Init, TypeOK, Passes
<1>3. MarksMatchCalls
  BY <1>1 DEF Init, MarksMatchCalls
<1>4. FramesOK /\ TypesTrue /\ ProcsResolved
  BY <1>1 DEF Init, FramesOK, FramesRight, TypesTrue, ProcsResolved
<1> QED  BY <1>1, <1>2, <1>3, <1>4 DEF IInv

(* Every reachable state satisfies the inductive invariant. *)
THEOREM Invariance == Spec => []IInv
<1>1. IInv /\ [Next]_vars => IInv'
  BY NextSteps
<1> QED  BY <1>1, InitInvariant, PTL DEF Spec

(* Every variable keeps its type, whatever the program. *)
THEOREM TypeCorrect == Spec => []TypeOK
<1>1. IInv => TypeOK
  BY DEF IInv
<1> QED  BY <1>1, Invariance, PTL

(* The marks that detect cycles, `resolving' and `is_completing', are those
   of the calls in progress, and names are looked up in the module of the
   innermost call's symbol (common.c:91-163, typespecs.c:7-33). *)
THEOREM MarksTrue == Spec => []MarksMatchCalls
<1>1. IInv => MarksMatchCalls
  BY DEF IInv
<1> QED  BY <1>1, Invariance, PTL

-----------------------------------------------------------------------------
(*                 The resolver implements DependencyOrder                 *)

LEMMA NeedsTypes == prog \in Programs => Needs \in [Things -> SUBSET Things]
<1> SUFFICES ASSUME prog \in Programs, NEW x \in Things
             PROVE  Needs[x] \subseteq Things /\ Needs = [y \in Things |-> Needs[y]]
  BY DEF Needs
<1>1. lost \in Things
  BY DEF lost, Symbol, Things
<1>2. ASSUME NEW m \in Modules, NEW q \in Seq(Use), NEW known
      PROVE  NeedsOf(prog, m, q, known) \subseteq Things
  <2>1. ASSUME NEW i \in DOMAIN q  PROVE NeedsAt(prog, m, q, i, known) \subseteq Things
    <3> DEFINE t == prog.scope[m][q[i].name]
    <3>1. t \in Sym \cup {None}
      <4>1. q[i] \in Use
        OBVIOUS
      <4> QED  BY <4>1, ProgramTypes DEF Use
    <3>2. \A a \in Sym \cup {None} : Symbol(a) \in Things /\ Type(a) \in Things
      BY DEF Symbol, Type, Things
    <3> QED  BY <1>1, <3>1, <3>2 DEF NeedsAt
  <2> QED  BY <2>1 DEF NeedsOf
<1>3. x.what \in {"symbol", "type", "body"} /\ x.of \in Sym \cup {None}
  BY DEF Things
<1>4. ASSUME x.of # None
      PROVE  /\ NeedsOf(prog, prog.home[x.of], prog.uses[x.of], {}) \subseteq Things
             /\ NeedsOf(prog, prog.home[x.of], prog.body[x.of], Params(prog, x.of)) \subseteq Things
             /\ Symbol(x.of) \in Things
  <2>1. /\ prog.home[x.of] \in Modules /\ prog.uses[x.of] \in Seq(Use) /\ prog.body[x.of] \in Seq(Use)
        /\ x.of \in Sym
    BY <1>3, <1>4, ProgramTypes
  <2> QED  BY <1>2, <2>1 DEF Symbol, Things
<1> QED  BY <1>1, <1>3, <1>4 DEF Needs

(* Nothing is resolved, completed or checked before all it needs: a struct's
   size is known only after its fields' sizes, a symbol is resolved only
   after what its declaration uses, a body is checked only after its
   procedure and what it uses, one at a time and never undone; so nothing
   on a cycle of needs is ever settled (common.c, decls.c, typespecs.c). *)
THEOREM OrderImplemented == Spec => ImplementsOrder
<1>1. Init => Order!Init
  BY NeedsTypes DEF Init, Order!Init, Settled
<1>2. IInv /\ [Next]_vars => [Order!Next]_<<Needs, Settled>>
  <2> SUFFICES ASSUME IInv, [Next]_vars  PROVE [Order!Next]_<<Needs, Settled>>
    OBVIOUS
  <2>1. prog' = prog
    BY DEF Next, Step, Stopped, vars, UseName, Declare, UseLocal, LookupFails, Lookup, Demand, UseType,
           CyclicType, ZeroSize, Used, Proceed, Fail, Abort, Complete, Return, FinishSymbol, FinishType,
           FinishBody, FinishAsserts, Unwind, UnwindSymbol, UnwindType, UnwindRest, ReportErrors, Pass,
           Headers, Asserts, Bodies, Completions, Begin, Advance
  <2>2. Needs' = Needs
    BY <2>1 DEF Needs
  <2> QED  BY <2>2, NextSteps DEF Settles, Order!Next, Order!Settle
<1> QED  BY <1>1, <1>2, Invariance, PTL DEF Spec, ImplementsOrder, Order!Spec
=============================================================================

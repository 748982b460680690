-------------------------- MODULE RegAllocColoring --------------------------
(***************************************************************************)
(* RegAlloc implements RegColoring, and what it reports is complete: the   *)
(* callee-saved registers in use, the registers forced later, and the      *)
(* registers to save at each call; and it spills instead of failing.  For  *)
(* every procedure and register file.                                      *)
(***************************************************************************)
EXTENDS RegAllocProofs, FiniteSetTheorems

H == Range(handled)

(***************************************************************************)
(* The inductive invariant, beside IInv.  A value is nowhere, in a         *)
(* register that its constraint and its class allow, or in a slot below    *)
(* the locals; slots do not overlap.  The lists hold the roots between     *)
(* them, those without a place apart from those with one, each in its      *)
(* order.                                                                  *)
(***************************************************************************)
InItsRegister(x) ==
  \E r \in PRegs : loc[x] = InReg(r) /\ r \in MayUse(x) /\ ClassOf[r] = Iv(x).class

InASlot(x) == \E n \in (InitOffset + X64_MAX_INT_REG_SIZE)..stackOff : loc[x] = OnStack(n)

Places == \A x \in LRegs : loc[x] = Unassigned \/ InItsRegister(x) \/ InASlot(x)

Apart(m, n) == m - n >= X64_MAX_INT_REG_SIZE \/ n - m >= X64_MAX_INT_REG_SIZE
SlotsApart ==
  /\ InitOffset <= stackOff
  /\ \A x, y \in LRegs : (x # y /\ loc[x].kind = "stack" /\ loc[y].kind = "stack")
       => Apart(loc[x].off, loc[y].off)

Orders == SortedBy(EndOf, active) /\ SortedBy(StartOf, handled)

Members ==
  /\ \A x \in LRegs : (x \in A \cup H) <=> loc[x].kind # "unassigned"
  /\ \A x \in prog.roots : x \in Pending \cup A \cup H \/ (phase = "build" /\ x < nxt)
  /\ Pending \cup A \cup H \subseteq prog.roots

(* What is placed started no later than what is pending. *)
Started == \A x \in A \cup H, y \in Pending : Iv(x).start <= Iv(y).start

(* An unconstrained value stays out of the registers that pending values are
   forced into before it ends, whether they overlap or only touch. *)
KeptClear ==
  \A x \in A, y \in Pending :
    (Iv(x).kind \in Free /\ Iv(y).kind = ForceReg /\ Iv(y).start < Iv(x).end)
      => RegOf(x) # Iv(y).preg

(* While something is pending, the owner of a register is active and in it.
   (Draining `active' leaves the owners behind.) *)
OwnersActive ==
  (phase = "build" \/ (phase = "scan" /\ Pending # {})) =>
    \A r \in PRegs : rmap[r] # None => rmap[r] \in A /\ loc[rmap[r]].reg = r

(* What a call at instruction ino has to save. *)
LiveRegs(ino) ==
  {RegOf(x) : x \in {y \in LRegs : /\ Iv(y).start < ino /\ ino < Iv(y).end
                                  /\ RegOf(y) \in CallerSaved}}

(* The call sites up to `site' save what is live across them, and what is in
   `handled' before `it' is live across none of the rest. *)
CallsSoFar ==
  /\ phase \in {"build", "scan"} => site = 1 /\ it = 1 /\ saveMask = <<>>
  /\ phase \in {"calls", "done"} =>
       /\ active = <<>>
       /\ site \in 1..(Len(prog.sites) + 1) /\ Len(saveMask) = site - 1
       /\ it \in 1..(Len(handled) + 1)
       /\ \A j \in 1..(it - 1), s \in site..Len(prog.sites) : ~LiveAcross(j, prog.sites[s])
       /\ \A s \in 1..(site - 1) : saveMask[s] = LiveRegs(prog.sites[s])
  /\ phase = "done" => site = Len(prog.sites) + 1

CInv == IInv /\ prog \in Programs /\ Places /\ SlotsApart /\ Orders /\ Members /\ Started
          /\ CalleeSavedReported /\ KeptClear /\ OwnersActive /\ CallsSoFar

-----------------------------------------------------------------------------
USE DEF ForceReg, ForceAnyReg, RegOrSpill, HintLIR, HintPhys, NoControl

(* The places that are given. *)
LEMMA PlaceFields ==
  /\ Unassigned.kind = "unassigned" /\ Unassigned.reg = None
  /\ \A r : InReg(r).kind = "reg" /\ InReg(r).reg = r
  /\ \A n : OnStack(n).kind = "stack" /\ OnStack(n).reg = None /\ OnStack(n).off = -n
  BY DEF Unassigned, InReg, OnStack

(* What the invariant says of the data, in one place. *)
LEMMA Typed ==
  ASSUME CInv
  PROVE  /\ prog \in Program /\ WellFormed(prog)
         /\ unhandled \in Seq(LRegs) /\ active \in Seq(LRegs) /\ handled \in Seq(LRegs)
         /\ U \subseteq LRegs /\ A \subseteq LRegs /\ H \subseteq LRegs
         /\ Pending \subseteq LRegs /\ cur \in LRegs \cup {None} /\ None \notin LRegs
         /\ StartOf \in [LRegs -> Int] /\ EndOf \in [LRegs -> Int]
         /\ \A x \in LRegs : /\ StartOf[x] = Iv(x).start /\ EndOf[x] = Iv(x).end
                             /\ Iv(x).start \in Int /\ Iv(x).end \in Int
                             /\ Iv(x).preg \in PRegs /\ Iv(x).class \in Classes
                             /\ Iv(x).kind \in Kinds /\ Iv(x).hint \in LRegs
                             /\ Iv(x).mask \subseteq PRegs
         /\ loc \in [LRegs -> Locations] /\ rmap \in [PRegs -> LRegs \cup {None}]
         /\ None \notin PRegs /\ stackOff \in Nat /\ InitOffset \in Nat
<1>1. TypeOK /\ prog \in Program /\ WellFormed(prog)
  BY ProgramAssumption DEF CInv, IInv, TypeOK
<1>2. U \subseteq LRegs /\ A \subseteq LRegs /\ H \subseteq LRegs /\ Pending \subseteq LRegs
  BY <1>1, RangeMembers DEF TypeOK, U, A, H, Pending
<1>3. \A x \in LRegs : /\ Iv(x).preg \in PRegs /\ Iv(x).class \in Classes
                       /\ Iv(x).kind \in Kinds /\ Iv(x).hint \in LRegs /\ Iv(x).mask \subseteq PRegs
  BY <1>1 DEF Program, Interval, Iv
<1> QED  BY <1>1, <1>2, <1>3, ProgramTypes, AllocAssumption DEF TypeOK

(* The register X64_next_reg returns is of the class that was asked for,
   is not banned, and nobody's. *)
LEMMA NextReg ==
  ASSUME NEW c \in Classes, NEW banned, NEW hint, NEW r \in PRegs, IsNextReg(c, banned, hint, r),
         hint \in PRegs => ClassOf[hint] = c
  PROVE  ClassOf[r] = c /\ r \notin banned /\ rmap[r] = None
BY ScratchAssumption, AllocAssumption DEF IsNextReg, HintUsable, Available

(* The hint of an unconstrained interval is of its class. *)
LEMMA HintOfClass ==
  ASSUME CInv, cur \in LRegs, Iv(cur).kind \in Free, Hint \in PRegs
  PROVE  ClassOf[Hint] = Iv(cur).class
<1>1. CASE Iv(cur).kind = HintPhys
  <2>1. Hint = Iv(cur).preg
    BY <1>1 DEF Hint
  <2> QED  BY <1>1, <2>1, Typed DEF WellFormed, Iv
<1>2. CASE Iv(cur).kind = HintLIR
  <2> DEFINE h == Iv(cur).hint
  <2>1. Hint = loc[h].reg /\ h \in LRegs /\ Iv(h).class = Iv(cur).class
    BY <1>2, Typed DEF Hint, WellFormed, Iv
  <2> HIDE DEF h
  <2>2. loc[h] # Unassigned /\ ~InASlot(h)
    BY <2>1, PlaceFields, AllocAssumption DEF InASlot
  <2>3. PICK r \in PRegs : loc[h] = InReg(r) /\ ClassOf[r] = Iv(h).class
    BY <2>1, <2>2 DEF CInv, Places, InItsRegister
  <2> QED  BY <2>1, <2>3, PlaceFields
<1>3. CASE Iv(cur).kind = NoControl
  BY <1>3, AllocAssumption DEF Hint
<1> QED  BY <1>1, <1>2, <1>3 DEF Free

(* The look-ahead finds every register a later interval is forced into before
   the current one ends: the list is sorted by start. *)
LEMMA AheadBans ==
  ASSUME CInv, cur \in LRegs, NEW y \in U, Iv(y).kind = ForceReg, Iv(y).start < Iv(cur).end
  PROVE  Iv(y).preg \in Banned
<1>1. PICK k \in 1..Len(unhandled) : unhandled[k] = y
  <2>1. unhandled \in Seq(LRegs)
    BY Typed
  <2> QED  BY ONLY <2>1, y \in U, RangeMembers DEF U
<1>2. \A j \in 1..k : unhandled[j] \in LRegs /\ StartOf[unhandled[j]] <= StartOf[y]
  <2>1. StartOf[y] \in Int /\ \A j \in 1..Len(unhandled) : unhandled[j] \in LRegs
    BY <1>1, Typed
  <2>2. SortedBy(StartOf, unhandled)
    BY DEF CInv, IInv, InOrder
  <2> QED  BY <1>1, <2>1, <2>2 DEF SortedBy
<1>3. k \in Ahead
  <2>1. \A j \in 1..k : Iv(unhandled[j]).start < Iv(cur).end
    BY SMTT(30), <1>1, <1>2, Typed
  <2> QED  BY <1>1, <2>1, Typed DEF Ahead
<1> QED  BY <1>1, <1>3 DEF Banned

(* A placed value is in one of the lists, where nothing pending is. *)
LEMMA Separate ==
  ASSUME CInv
  PROVE  /\ Pending \cap (A \cup H) = {}
         /\ \A x \in A : loc[x].kind = "reg" /\ loc[x].reg \in PRegs
         /\ \A x \in LRegs : loc[x].kind = "unassigned" => loc[x] = Unassigned
         /\ \A x \in Pending : loc[x] = Unassigned
<1>1. \A x \in LRegs : loc[x].kind = "unassigned" => loc[x] = Unassigned
  BY PlaceFields DEF CInv, Places, InItsRegister, InASlot
<1>2. \A x \in A : loc[x].kind = "reg" /\ loc[x].reg \in PRegs
  BY Typed DEF CInv, IInv, ActiveOwns, Shape
<1>3. \A x \in Pending : loc[x].kind = "unassigned"
  BY DEF CInv, IInv, UnplacedPending
<1> QED  BY <1>1, <1>2, <1>3, Typed DEF CInv, Members

-----------------------------------------------------------------------------
(*                     What each step does to the lists                    *)

LEMMA OccupyEffects ==
  ASSUME CInv, phase = "scan", cur # None, NEW r \in PRegs, Occupy(r)
  PROVE  /\ cur \in LRegs /\ cur \in Pending /\ cur \notin A \cup H \cup U
         /\ A' = A \cup {cur} /\ H' = H /\ U' = U /\ Pending' = U /\ Pending = U \cup {cur}
         /\ loc[cur] = Unassigned /\ loc'[cur] = InReg(r)
         /\ \A x \in LRegs : x # cur => loc'[x] = loc[x]
         /\ rmap'[r] = cur /\ \A q \in PRegs : q # r => rmap'[q] = rmap[q]
         /\ prog' = prog /\ phase' = phase /\ stackOff' = stackOff /\ cur' = None
         /\ SortedBy(EndOf, active') /\ handled' = handled
<1>1. /\ cur \in LRegs /\ cur \in Pending /\ cur \notin U /\ U' = U /\ H' = H
      /\ Pending = U \cup {cur} /\ Pending' = U /\ AddBy(EndOf, active, cur, active')
      /\ prog' = prog /\ phase' = phase /\ stackOff' = stackOff /\ cur' = None
      /\ handled' = handled
  BY Typed DEF Occupy, Pending, U, H, CInv, IInv, Shape
<1>2. cur \notin A \cup H /\ loc[cur] = Unassigned
  BY <1>1, Separate
<1>3. /\ rmap' = [rmap EXCEPT ![r] = cur] /\ loc' = [loc EXCEPT ![cur] = InReg(r)]
      /\ rmap \in [PRegs -> LRegs \cup {None}] /\ loc \in [LRegs -> Locations]
  BY Typed DEF Occupy, Owned
<1>4. A' = A \cup {cur} /\ SortedBy(EndOf, active')
  <2>1. active \in Seq(LRegs) /\ EndOf \in [LRegs -> Int] /\ SortedBy(EndOf, active)
    BY Typed DEF CInv, Orders
  <2> QED  BY ONLY <1>1, <2>1, AddByKeeps DEF A
<1> QED  BY <1>1, <1>2, <1>3, <1>4

LEMMA SpillEffects ==
  ASSUME CInv, phase = "scan", cur # None, SpillCurrent
  PROVE  /\ cur \in LRegs /\ cur \in Pending /\ cur \notin A \cup H \cup U
         /\ A' = A /\ H' = H \cup {cur} /\ U' = U /\ Pending' = U /\ Pending = U \cup {cur}
         /\ loc[cur] = Unassigned /\ loc'[cur] = OnStack(stackOff')
         /\ \A x \in LRegs : x # cur => loc'[x] = loc[x]
         /\ prog' = prog /\ phase' = phase /\ stackOff' = NewSlot /\ cur' = None
         /\ SortedBy(StartOf, handled') /\ active' = active /\ rmap' = rmap
<1>1. /\ cur \in LRegs /\ cur \in Pending /\ cur \notin U /\ U' = U /\ A' = A
      /\ Pending = U \cup {cur} /\ Pending' = U /\ AddBy(StartOf, handled, cur, handled')
      /\ prog' = prog /\ phase' = phase /\ stackOff' = NewSlot /\ cur' = None
      /\ active' = active /\ rmap' = rmap
  BY Typed DEF SpillCurrent, Pending, U, A, CInv, IInv, Shape
<1>2. cur \notin A \cup H /\ loc[cur] = Unassigned
  BY <1>1, Separate
<1>3. loc' = [loc EXCEPT ![cur] = OnStack(stackOff')] /\ loc \in [LRegs -> Locations]
  BY Typed DEF SpillCurrent
<1>4. H' = H \cup {cur} /\ SortedBy(StartOf, handled')
  <2>1. handled \in Seq(LRegs) /\ StartOf \in [LRegs -> Int] /\ SortedBy(StartOf, handled)
    BY Typed DEF CInv, Orders
  <2> QED  BY ONLY <1>1, <2>1, AddByKeeps DEF H
<1> QED  BY <1>1, <1>2, <1>3, <1>4

(* The value `from' that is stolen from, and what changes with it. *)
Steals(from) ==
  /\ from \in A /\ Stealable(from) /\ Iv(from).end > Iv(cur).end
  /\ rmap' = Owned(loc[from].reg)
  /\ stackOff' = NewSlot
  /\ loc' = [loc EXCEPT ![cur] = InReg(loc[from].reg), ![from] = OnStack(stackOff')]
  /\ \A x : x \in A' <=> (x \in A /\ x # from) \/ x = cur
  /\ SortedBy(EndOf, active')
  /\ H' = H \cup {from} /\ SortedBy(StartOf, handled')

LEMMA StealStep ==
  ASSUME CInv, StealReg
  PROVE  \E from \in LRegs : Steals(from)
<1>1. PICK k \in DOMAIN active :
        LET from == active[k] IN
        /\ IsVictim(k) /\ Iv(from).end > Iv(cur).end
        /\ rmap' = Owned(loc[from].reg)
        /\ stackOff' = NewSlot
        /\ loc' = [loc EXCEPT ![cur] = InReg(loc[from].reg), ![from] = OnStack(stackOff')]
        /\ AddBy(EndOf, RemoveAt(active, k), cur, active')
        /\ AddBy(StartOf, handled, from, handled')
  BY DEF StealReg
<1> DEFINE from == active[k]
           rest == RemoveAt(active, k)
<1>2. k \in 1..Len(active) /\ from \in LRegs /\ from \in A /\ cur \in LRegs
  <2>1. active \in Seq(LRegs)
    BY Typed
  <2>2. k \in 1..Len(active)
    BY ONLY <1>1, <2>1
  <2>3. from \in LRegs
    BY ONLY <2>1, <2>2
  <2>4. from \in A
    BY ONLY <2>1, <2>2, RangeMembers DEF A
  <2>5. cur \in LRegs
    BY Typed DEF StealReg, Placing
  <2> QED  BY ONLY <2>2, <2>3, <2>4, <2>5
<1>3. /\ rest \in Seq(LRegs) /\ Range(active) = Range(rest) \cup {from} /\ from \notin Range(rest)
      /\ SortedBy(EndOf, rest)
  <2>1. /\ active \in Seq(LRegs) /\ EndOf \in [LRegs -> Int] /\ SortedBy(EndOf, active)
        /\ Distinct(active)
    BY Typed DEF CInv, Orders, IInv, Shape
  <2> QED  BY ONLY <1>2, <2>1, RemoveAtKeeps
<1>4. AddBy(EndOf, rest, cur, active') /\ AddBy(StartOf, handled, from, handled')
  BY <1>1
<1>5. Steals(from)
  <2>1. /\ from \in A /\ Stealable(from) /\ Iv(from).end > Iv(cur).end
        /\ rmap' = Owned(loc[from].reg)
        /\ stackOff' = NewSlot
        /\ loc' = [loc EXCEPT ![cur] = InReg(loc[from].reg), ![from] = OnStack(stackOff')]
    BY <1>1, <1>2 DEF IsVictim
  <2> HIDE DEF from, rest
  <2>2. /\ \A x : x \in Range(active') <=> (x \in Range(rest) \/ x = cur)
        /\ SortedBy(EndOf, active')
    <3>1. EndOf \in [LRegs -> Int]
      BY Typed
    <3> QED  BY ONLY <1>2, <1>3, <1>4, <3>1, AddByKeeps
  <2>3. H' = H \cup {from} /\ SortedBy(StartOf, handled')
    <3>1. handled \in Seq(LRegs) /\ StartOf \in [LRegs -> Int] /\ SortedBy(StartOf, handled)
      BY Typed DEF CInv, Orders
    <3> QED  BY ONLY <1>2, <1>4, <3>1, AddByKeeps DEF H
  <2> QED  BY <1>3, <2>1, <2>2, <2>3 DEF Steals, A
<1> QED  BY <1>2, <1>5

LEMMA StealEffects ==
  ASSUME CInv, StealReg, NEW from \in LRegs, Steals(from)
  PROVE  /\ cur \in LRegs /\ cur \in Pending /\ cur \notin A \cup H \cup U /\ cur # from
         /\ phase = "scan" /\ Iv(cur).kind \in Free
         /\ A' = (A \ {from}) \cup {cur} /\ H' = H \cup {from} /\ from \in A
         /\ U' = U /\ Pending' = U /\ Pending = U \cup {cur}
         /\ loc[cur] = Unassigned /\ InItsRegister(from)
         /\ loc'[cur] = InReg(loc[from].reg) /\ loc'[from] = OnStack(stackOff')
         /\ \A x \in LRegs : x # cur /\ x # from => loc'[x] = loc[x]
         /\ rmap'[loc[from].reg] = cur
         /\ \A q \in PRegs : q # loc[from].reg => rmap'[q] = rmap[q]
         /\ prog' = prog /\ phase' = phase /\ stackOff' = NewSlot /\ cur' = None
         /\ usedCallee' = usedCallee /\ Stealable(from)
<1>1. /\ cur \in LRegs /\ cur \in Pending /\ cur \notin U /\ U' = U
      /\ phase = "scan" /\ Iv(cur).kind \in Free
      /\ Pending = U \cup {cur} /\ Pending' = U /\ cur' = None
      /\ prog' = prog /\ phase' = phase /\ usedCallee' = usedCallee
  BY Typed DEF StealReg, Placing, Pending, U, CInv, IInv, Shape
<1>2. cur \notin A \cup H /\ loc[cur] = Unassigned /\ from \in A /\ loc[from].reg \in PRegs
  BY <1>1, Separate DEF Steals
<1>3. A' = (A \ {from}) \cup {cur} /\ H' = H \cup {from}
  BY <1>2 DEF Steals
<1>4. /\ rmap' = [rmap EXCEPT ![loc[from].reg] = cur]
      /\ loc' = [loc EXCEPT ![cur] = InReg(loc[from].reg), ![from] = OnStack(stackOff')]
      /\ rmap \in [PRegs -> LRegs \cup {None}] /\ loc \in [LRegs -> Locations]
  BY Typed DEF Steals, Owned
<1>5. InItsRegister(from)
  <2>1. loc[from].kind = "reg"
    BY <1>2, Separate
  <2>2. loc[from] # Unassigned /\ ~InASlot(from)
    BY <2>1, PlaceFields DEF InASlot
  <2> QED  BY <2>2 DEF CInv, Places
<1>6. cur # from
  BY <1>2
<1>7. /\ loc'[cur] = InReg(loc[from].reg) /\ loc'[from] = OnStack(stackOff')
      /\ \A x \in LRegs : x # cur /\ x # from => loc'[x] = loc[x]
      /\ rmap'[loc[from].reg] = cur
      /\ \A q \in PRegs : q # loc[from].reg => rmap'[q] = rmap[q]
  BY <1>1, <1>2, <1>4, <1>6
<1> QED  BY <1>1, <1>2, <1>3, <1>5, <1>6, <1>7 DEF Steals

-----------------------------------------------------------------------------
(*                         The invariant is kept                           *)

(* The current interval takes a free register that its constraint and class
   allow, and that is not banned for it. *)
LEMMA OccupyColors ==
  ASSUME CInv, phase = "scan", cur # None, NEW r \in PRegs, rmap[r] = None, Occupy(r),
         r \in MayUse(cur), ClassOf[r] = Iv(cur).class, Iv(cur).kind \in Free => r \notin Banned
  PROVE  CInv'
<1>0. IInv' /\ prog' \in Programs
  BY OccupyKeeps, OccupyEffects DEF CInv
<1>1. /\ cur \in LRegs /\ cur \in Pending /\ cur \notin A \cup H \cup U
      /\ A' = A \cup {cur} /\ H' = H /\ U' = U /\ Pending' = U /\ Pending = U \cup {cur}
      /\ loc[cur] = Unassigned /\ loc'[cur] = InReg(r)
      /\ \A x \in LRegs : x # cur => loc'[x] = loc[x]
      /\ rmap'[r] = cur /\ \A q \in PRegs : q # r => rmap'[q] = rmap[q]
      /\ prog' = prog /\ phase' = phase /\ stackOff' = stackOff /\ cur' = None
      /\ SortedBy(EndOf, active') /\ handled' = handled
  BY OccupyEffects
<1>2. A \subseteq LRegs /\ H \subseteq LRegs /\ U \subseteq LRegs /\ None \notin PRegs
  BY Typed
<1>3. Places'
  <2>1. \A x \in LRegs : MayUse(x)' = MayUse(x) /\ Iv(x)' = Iv(x)
    BY <1>1 DEF MayUse, Iv
  <2>2. \A x \in LRegs : x = cur => InItsRegister(x)'
    BY <1>1, <2>1 DEF InItsRegister
  <2>3. \A x \in LRegs : x # cur => loc'[x] = Unassigned \/ InItsRegister(x)' \/ InASlot(x)'
    BY <1>1, <2>1 DEF CInv, Places, InItsRegister, InASlot
  <2> QED  BY <2>2, <2>3 DEF Places
<1>4. SlotsApart'
  BY <1>1, PlaceFields DEF CInv, SlotsApart
<1>5. Orders'
  BY <1>1 DEF CInv, Orders, StartOf, EndOf, Iv
<1>6. Members'
  BY <1>1, <1>2, PlaceFields DEF CInv, Members
<1>7. Started'
  <2>1. \A y \in U : Iv(cur).start <= Iv(y).start
    BY <1>1, AllocAssumption DEF CInv, IInv, InOrder
  <2> QED  BY <1>1, <2>1 DEF CInv, Started, Iv
<1>8. CalleeSavedReported'
  <2>1. usedCallee' = Recorded(r)
    BY DEF Occupy
  <2> QED  BY <1>1, <2>1, PlaceFields DEF CInv, CalleeSavedReported, RegOf, Recorded
<1>9. KeptClear'
  <2>1. ASSUME NEW x \in A', NEW y \in Pending', Iv(x).kind \in Free, Iv(y).kind = ForceReg,
               Iv(y).start < Iv(x).end
        PROVE  loc'[x].reg # Iv(y).preg
    <3>1. CASE x = cur
      BY <1>1, <2>1, <3>1, AheadBans, PlaceFields
    <3>2. CASE x # cur
      BY <1>1, <1>2, <2>1, <3>2 DEF CInv, KeptClear, RegOf
    <3> QED  BY <3>1, <3>2
  <2> QED  BY <1>1, <2>1 DEF KeptClear, RegOf, Iv
<1>10. OwnersActive'
  <2>1. \A q \in PRegs : rmap[q] # None => rmap[q] \in A /\ loc[rmap[q]].reg = q
    BY <1>1 DEF CInv, OwnersActive
  <2> QED  BY <1>1, <1>2, <2>1, PlaceFields DEF OwnersActive
<1>11. CallsSoFar'
  BY <1>1 DEF CInv, CallsSoFar, Occupy, calls
<1> QED  BY <1>0, <1>3, <1>4, <1>5, <1>6, <1>7, <1>8, <1>9, <1>10, <1>11 DEF CInv

(* What lives on the stack is in a slot in use, so the next slot is apart. *)
LEMMA NextSlotApart ==
  ASSUME CInv
  PROVE  /\ NewSlot \in Nat /\ stackOff <= NewSlot /\ InitOffset <= NewSlot
         /\ NewSlot \in (InitOffset + X64_MAX_INT_REG_SIZE)..NewSlot
         /\ \A n \in (InitOffset + X64_MAX_INT_REG_SIZE)..stackOff :
              n \in (InitOffset + X64_MAX_INT_REG_SIZE)..NewSlot
         /\ \A x \in LRegs : loc[x].kind = "stack" =>
              Apart(loc[x].off, -NewSlot) /\ Apart(-NewSlot, loc[x].off)
<1>1. stackOff \in Nat /\ InitOffset \in Nat /\ InitOffset <= stackOff
  BY Typed DEF CInv, SlotsApart
<1>2. ASSUME NEW x \in LRegs, loc[x].kind = "stack"
      PROVE  \E n \in 0..stackOff : loc[x].off = -n
  <2>1. InASlot(x)
    BY <1>2, PlaceFields DEF CInv, Places, InItsRegister
  <2> QED  BY <1>1, <2>1, PlaceFields DEF InASlot, X64_MAX_INT_REG_SIZE
<1>3. NewSlot = stackOff + 8
  BY DEF NewSlot, X64_MAX_INT_REG_SIZE
<1> QED  BY <1>1, <1>2, <1>3 DEF Apart, X64_MAX_INT_REG_SIZE

LEMMA SpillColors ==
  ASSUME CInv, phase = "scan", cur # None, SpillCurrent
  PROVE  CInv'
<1>0. IInv' /\ prog' \in Programs
  BY SpillKeeps, SpillEffects DEF CInv
<1>1. /\ cur \in LRegs /\ cur \in Pending /\ cur \notin A \cup H \cup U
      /\ A' = A /\ H' = H \cup {cur} /\ U' = U /\ Pending' = U /\ Pending = U \cup {cur}
      /\ loc[cur] = Unassigned /\ loc'[cur] = OnStack(stackOff')
      /\ \A x \in LRegs : x # cur => loc'[x] = loc[x]
      /\ prog' = prog /\ phase' = phase /\ stackOff' = NewSlot /\ cur' = None
      /\ SortedBy(StartOf, handled') /\ active' = active /\ rmap' = rmap
  BY SpillEffects
<1>2. A \subseteq LRegs /\ H \subseteq LRegs /\ U \subseteq LRegs /\ None \notin PRegs
  BY Typed
<1>3. Places'
  <2>1. \A x \in LRegs : MayUse(x)' = MayUse(x) /\ Iv(x)' = Iv(x)
    BY <1>1 DEF MayUse, Iv
  <2>2. \A x \in LRegs : x = cur => InASlot(x)'
    BY <1>1, NextSlotApart DEF InASlot
  <2>3. ASSUME NEW x \in LRegs, x # cur
        PROVE  loc'[x] = Unassigned \/ InItsRegister(x)' \/ InASlot(x)'
    <3>1. InASlot(x) => InASlot(x)'
      BY <1>1, <2>3, NextSlotApart DEF InASlot
    <3>2. InItsRegister(x) => InItsRegister(x)'
      BY <1>1, <2>1, <2>3 DEF InItsRegister
    <3> QED  BY <1>1, <2>3, <3>1, <3>2 DEF CInv, Places
  <2> QED  BY <2>2, <2>3 DEF Places
<1>4. SlotsApart'
  <2>1. \A x, y \in LRegs : (x # y /\ loc'[x].kind = "stack" /\ loc'[y].kind = "stack")
          => Apart(loc'[x].off, loc'[y].off)
    BY <1>1, PlaceFields, NextSlotApart DEF CInv, SlotsApart
  <2> QED  BY <1>1, <2>1, NextSlotApart DEF SlotsApart, Apart
<1>5. Orders'
  BY <1>1 DEF CInv, Orders, StartOf, EndOf, Iv
<1>6. Members'
  BY <1>1, <1>2, PlaceFields DEF CInv, Members
<1>7. Started'
  <2>1. \A y \in U : Iv(cur).start <= Iv(y).start
    BY <1>1, AllocAssumption DEF CInv, IInv, InOrder
  <2> QED  BY <1>1, <2>1 DEF CInv, Started, Iv
<1>8. CalleeSavedReported'
  <2>1. usedCallee' = usedCallee
    BY DEF SpillCurrent
  <2> QED  BY <1>1, <1>2, <2>1, PlaceFields DEF CInv, CalleeSavedReported, RegOf
<1>9. KeptClear'
  BY <1>1, <1>2 DEF CInv, KeptClear, RegOf, Iv
<1>10. OwnersActive'
  <2>1. \A q \in PRegs : rmap[q] # None => rmap[q] \in A /\ loc[rmap[q]].reg = q
    BY <1>1 DEF CInv, OwnersActive
  <2> QED  BY <1>1, <1>2, <2>1 DEF OwnersActive
<1>11. CallsSoFar'
  BY <1>1 DEF CInv, CallsSoFar, SpillCurrent, calls
<1> QED  BY <1>0, <1>3, <1>4, <1>5, <1>6, <1>7, <1>8, <1>9, <1>10, <1>11 DEF CInv

LEMMA StealColors == CInv /\ StealReg => CInv'
<1> SUFFICES ASSUME CInv, StealReg  PROVE CInv'
  OBVIOUS
<1>a. PICK from \in LRegs : Steals(from)
  BY StealStep
<1>0. IInv' /\ prog' \in Programs
  BY <1>a, StealRegKeeps, StealEffects DEF CInv
<1>1. /\ cur \in LRegs /\ cur \in Pending /\ cur \notin A \cup H \cup U /\ cur # from
      /\ phase = "scan" /\ Iv(cur).kind \in Free
      /\ A' = (A \ {from}) \cup {cur} /\ H' = H \cup {from} /\ from \in A
      /\ U' = U /\ Pending' = U /\ Pending = U \cup {cur}
      /\ loc[cur] = Unassigned /\ InItsRegister(from)
      /\ loc'[cur] = InReg(loc[from].reg) /\ loc'[from] = OnStack(stackOff')
      /\ \A x \in LRegs : x # cur /\ x # from => loc'[x] = loc[x]
      /\ rmap'[loc[from].reg] = cur
      /\ \A q \in PRegs : q # loc[from].reg => rmap'[q] = rmap[q]
      /\ prog' = prog /\ phase' = phase /\ stackOff' = NewSlot /\ cur' = None
      /\ usedCallee' = usedCallee /\ Stealable(from)
  BY <1>a, StealEffects
<1>2. A \subseteq LRegs /\ H \subseteq LRegs /\ U \subseteq LRegs /\ None \notin PRegs
  BY Typed
<1>3. Places'
  <2>1. \A x \in LRegs : MayUse(x)' = MayUse(x) /\ Iv(x)' = Iv(x)
    BY <1>1 DEF MayUse, Iv
  <2>2. \A x \in LRegs : x = from => InASlot(x)'
    BY <1>1, NextSlotApart DEF InASlot
  <2>3. ASSUME NEW x \in LRegs, x # cur, x # from
        PROVE  loc'[x] = Unassigned \/ InItsRegister(x)' \/ InASlot(x)'
    <3>1. InASlot(x) => InASlot(x)'
      BY <1>1, <2>3, NextSlotApart DEF InASlot
    <3>2. InItsRegister(x) => InItsRegister(x)'
      BY <1>1, <2>1, <2>3 DEF InItsRegister
    <3> QED  BY <1>1, <2>3, <3>1, <3>2 DEF CInv, Places
  <2>4. \A x \in LRegs : x = cur => InItsRegister(x)'
    <3>1. PICK r \in PRegs : loc[from] = InReg(r) /\ ClassOf[r] = Iv(from).class
      BY <1>1 DEF InItsRegister
    <3>2. loc'[cur] = InReg(r) /\ ClassOf[r] = Iv(cur).class
      BY <1>1, <3>1, PlaceFields DEF Stealable
    <3>3. r \in MayUse(cur)
      BY <1>1, <3>2 DEF MayUse, Free
    <3>4. cur \in LRegs
      BY <1>1
    <3> QED  BY ONLY <2>1, <3>2, <3>3, <3>4 DEF InItsRegister
  <2> QED  BY <2>2, <2>3, <2>4 DEF Places
<1>4. SlotsApart'
  <2>1. \A x, y \in LRegs : (x # y /\ loc'[x].kind = "stack" /\ loc'[y].kind = "stack")
          => Apart(loc'[x].off, loc'[y].off)
    BY <1>1, PlaceFields, NextSlotApart DEF CInv, SlotsApart
  <2> QED  BY <1>1, <2>1, NextSlotApart DEF SlotsApart, Apart
<1>5. Orders'
  BY <1>1, <1>a DEF CInv, Steals, Orders, StartOf, EndOf, Iv
<1>6. Members'
  BY <1>1, <1>2, PlaceFields, Separate DEF CInv, Members
<1>7. Started'
  <2>1. \A y \in U : Iv(cur).start <= Iv(y).start
    BY <1>1, AllocAssumption DEF CInv, IInv, InOrder
  <2> QED  BY <1>1, <2>1 DEF CInv, Started, Iv
<1>8. CalleeSavedReported'
  BY <1>1, <1>2, PlaceFields DEF CInv, CalleeSavedReported, RegOf, InItsRegister
<1>9. KeptClear'
  <2>1. ASSUME NEW x \in A', NEW y \in Pending', Iv(x).kind \in Free, Iv(y).kind = ForceReg,
               Iv(y).start < Iv(x).end
        PROVE  loc'[x].reg # Iv(y).preg
    <3>1. CASE x = cur
      <4>1. Iv(y).preg \in Banned
        BY <1>1, <2>1, <3>1, AheadBans
      <4>2. loc[from].reg \notin Banned
        BY <1>1, Separate DEF Stealable
      <4> QED  BY <1>1, <3>1, <4>1, <4>2, PlaceFields
    <3>2. CASE x # cur
      BY <1>1, <1>2, <2>1, <3>2 DEF CInv, KeptClear, RegOf
    <3> QED  BY <3>1, <3>2
  <2> QED  BY <1>1, <2>1 DEF KeptClear, RegOf, Iv
<1>10. OwnersActive'
  <2>1. \A q \in PRegs : rmap[q] # None => rmap[q] \in A /\ loc[rmap[q]].reg = q
    BY <1>1 DEF CInv, OwnersActive
  <2> QED  BY <1>1, <1>2, <2>1, PlaceFields DEF OwnersActive
<1>11. CallsSoFar'
  BY <1>1 DEF CInv, CallsSoFar, StealReg, calls
<1> QED  BY <1>0, <1>3, <1>4, <1>5, <1>6, <1>7, <1>8, <1>9, <1>10, <1>11 DEF CInv

LEMMA TakeNextColors == CInv /\ TakeNext => CInv'
<1> SUFFICES ASSUME CInv, TakeNext  PROVE CInv'
  OBVIOUS
<1>0. IInv'
  BY TakeNextKeeps DEF CInv
<1>1. /\ phase = "scan" /\ phase' = phase /\ cur = None /\ cur' = Head(unhandled)
      /\ unhandled' = Tail(unhandled) /\ unhandled # <<>> /\ unhandled \in Seq(LRegs)
      /\ prog' = prog /\ rmap' = rmap /\ loc' = loc /\ active' = active /\ handled' = handled
      /\ stackOff' = stackOff /\ usedCallee' = usedCallee
      /\ site' = site /\ it' = it /\ saveMask' = saveMask
  BY Typed DEF TakeNext, results, calls
<1>2. A' = A /\ H' = H /\ Pending' = Pending
  <2>1. cur' \in LRegs /\ Range(unhandled) = Range(unhandled') \cup {cur'}
    BY ONLY <1>1, HeadTail
  <2> QED  BY <1>1, <2>1, Typed DEF A, H, Pending, U
<1>3. Places' /\ SlotsApart'
  BY <1>1 DEF CInv, Places, InItsRegister, InASlot, MayUse, Iv, SlotsApart
<1>4. Orders' /\ Members' /\ Started'
  BY <1>1, <1>2 DEF CInv, Orders, StartOf, EndOf, Iv, Members, Started
<1>5. CalleeSavedReported' /\ KeptClear' /\ OwnersActive' /\ CallsSoFar'
  BY <1>1, <1>2 DEF CInv, CalleeSavedReported, RegOf, KeptClear, Iv, OwnersActive, CallsSoFar
<1> QED  BY <1>0, <1>1, <1>3, <1>4, <1>5 DEF CInv

(* The first active interval leaves for `handled': it expires, or the scan is
   over. *)
LEMMA RetireEffects ==
  ASSUME CInv, active # <<>>, active' = Tail(active), AddBy(StartOf, handled, Head(active), handled')
  PROVE  \E a \in A : /\ a = Head(active) /\ A' = A \ {a} /\ H' = H \cup {a}
                      /\ SortedBy(EndOf, active') /\ SortedBy(StartOf, handled')
<1> DEFINE a == Head(active)
<1>1. /\ active \in Seq(LRegs) /\ EndOf \in [LRegs -> Int] /\ SortedBy(EndOf, active)
      /\ handled \in Seq(LRegs) /\ StartOf \in [LRegs -> Int] /\ SortedBy(StartOf, handled)
      /\ Distinct(active)
  BY Typed DEF CInv, Orders, IInv, Shape
<1>2. /\ a \in LRegs /\ Range(active) = Range(active') \cup {a}
      /\ a \notin Range(active') /\ SortedBy(EndOf, active')
  BY ONLY <1>1, active # <<>>, active' = Tail(active), HeadTail
<1>3. /\ \A y : y \in Range(handled') <=> (y \in Range(handled) \/ y = a)
      /\ SortedBy(StartOf, handled')
  <2> HIDE DEF a
  <2>1. AddBy(StartOf, handled, a, handled')
    BY DEF a
  <2> QED  BY ONLY <1>1, <1>2, <2>1, AddByKeeps
<1> QED  BY <1>2, <1>3 DEF A, H

LEMMA ExpireOldColors == CInv /\ ExpireOld => CInv'
<1> SUFFICES ASSUME CInv, ExpireOld  PROVE CInv'
  OBVIOUS
<1>0. IInv'
  BY ExpireOldKeeps DEF CInv
<1>1. PICK a \in A : /\ a = Head(active) /\ A' = A \ {a} /\ H' = H \cup {a}
                     /\ SortedBy(EndOf, active') /\ SortedBy(StartOf, handled')
  BY RetireEffects DEF ExpireOld
<1>2. /\ phase = "scan" /\ phase' = phase /\ cur # None /\ cur' = cur /\ unhandled' = unhandled
      /\ prog' = prog /\ rmap' = [rmap EXCEPT ![loc[a].reg] = None] /\ loc' = loc
      /\ stackOff' = stackOff /\ usedCallee' = usedCallee
      /\ site' = site /\ it' = it /\ saveMask' = saveMask
  BY <1>1 DEF ExpireOld, calls
<1>3. Pending' = Pending /\ cur \in Pending
  BY <1>2, Typed DEF Pending, U
<1>4. Places' /\ SlotsApart'
  BY <1>2 DEF CInv, Places, InItsRegister, InASlot, MayUse, Iv, SlotsApart
<1>5. Orders' /\ Members' /\ Started'
  BY <1>1, <1>2, <1>3 DEF CInv, Orders, StartOf, EndOf, Iv, Members, Started
<1>6. CalleeSavedReported' /\ KeptClear' /\ CallsSoFar'
  BY <1>1, <1>2, <1>3 DEF CInv, CalleeSavedReported, RegOf, KeptClear, Iv, CallsSoFar
<1>7. OwnersActive'
  <2>1. rmap \in [PRegs -> LRegs \cup {None}]
    BY Typed
  <2>2. \A r \in PRegs : rmap[r] # None => rmap[r] \in A /\ loc[rmap[r]].reg = r
    BY <1>2, <1>3 DEF CInv, OwnersActive
  <2>3. \A r \in PRegs : rmap'[r] # None => rmap'[r] = rmap[r] /\ rmap[r] # a
    BY <1>2, <2>1, <2>2
  <2> QED  BY <1>1, <1>2, <2>2, <2>3 DEF OwnersActive
<1> QED  BY <1>0, <1>2, <1>4, <1>5, <1>6, <1>7 DEF CInv

LEMMA DrainActiveColors == CInv /\ DrainActive => CInv'
<1> SUFFICES ASSUME CInv, DrainActive  PROVE CInv'
  OBVIOUS
<1>0. IInv'
  BY DrainActiveKeeps DEF CInv
<1>1. PICK a \in A : /\ a = Head(active) /\ A' = A \ {a} /\ H' = H \cup {a}
                     /\ SortedBy(EndOf, active') /\ SortedBy(StartOf, handled')
  BY RetireEffects DEF DrainActive
<1>2. /\ phase = "scan" /\ phase' = phase /\ cur = None /\ cur' = cur /\ unhandled' = unhandled
      /\ unhandled = <<>> /\ prog' = prog /\ rmap' = rmap /\ loc' = loc
      /\ stackOff' = stackOff /\ usedCallee' = usedCallee
      /\ site' = site /\ it' = it /\ saveMask' = saveMask
  BY DEF DrainActive, results, calls
<1>3. Pending' = Pending /\ Pending = {}
  BY <1>2, Typed DEF Pending, U, Range
<1>4. Places' /\ SlotsApart'
  BY <1>2 DEF CInv, Places, InItsRegister, InASlot, MayUse, Iv, SlotsApart
<1>5. Orders' /\ Members' /\ Started'
  BY <1>1, <1>2, <1>3 DEF CInv, Orders, StartOf, EndOf, Iv, Members, Started
<1>6. CalleeSavedReported' /\ KeptClear' /\ OwnersActive' /\ CallsSoFar'
  BY <1>1, <1>2, <1>3 DEF CInv, CalleeSavedReported, RegOf, KeptClear, OwnersActive, CallsSoFar
<1> QED  BY <1>0, <1>2, <1>4, <1>5, <1>6 DEF CInv

LEMMA BuildColors == CInv /\ Build => CInv'
<1> SUFFICES ASSUME CInv, Build  PROVE CInv'
  OBVIOUS
<1>0. IInv'
  BY BuildKeeps DEF CInv
<1>1. /\ phase = "build" /\ phase' = (IF nxt = 1 THEN "scan" ELSE "build") /\ nxt' = nxt - 1
      /\ prog' = prog /\ rmap' = rmap /\ loc' = loc /\ active' = active /\ handled' = handled
      /\ stackOff' = stackOff /\ usedCallee' = usedCallee /\ cur' = cur
      /\ site' = site /\ it' = it /\ saveMask' = saveMask
      /\ cur = None /\ \A x \in LRegs : loc[x].kind = "unassigned" /\ loc[x].reg = None
  BY DEF Build, results, calls, CInv, IInv, Shape, Building
<1>2. nxt \in 1..NumLRegs /\ nxt - 1 \in LRegs
  BY <1>1, AllocAssumption DEF CInv, IInv, TypeOK, Shape, LRegs
<1>3. /\ A' = A /\ H' = H /\ A = {} /\ H = {} /\ Pending = U /\ Pending' = U'
      /\ prog.roots \subseteq LRegs
  <2>1. A' = A /\ H' = H
    BY <1>1 DEF A, H
  <2>2. Pending = U /\ Pending' = U'
    BY <1>1, Typed DEF Pending
  <2>3. A = {} /\ H = {}
    BY <1>1, Typed DEF CInv, Members
  <2>4. prog.roots \subseteq LRegs
    BY Typed, ProgramTypes
  <2> QED  BY <2>1, <2>2, <2>3, <2>4
<1>4. \A x : x \in U' <=> (x \in U \/ (x = nxt - 1 /\ x \in prog.roots))
  <2>1. CASE IsRoot(nxt - 1)
    <3>1. AddBy(StartOf, unhandled, nxt - 1, unhandled')
      BY <2>1 DEF Build
    <3>2. unhandled \in Seq(LRegs) /\ StartOf \in [LRegs -> Int]
      BY Typed
    <3>3. \A y : y \in Range(unhandled') <=> (y \in Range(unhandled) \/ y = nxt - 1)
      BY ONLY <1>2, <3>1, <3>2, AddByKeeps
    <3> QED  BY <2>1, <3>3 DEF U, IsRoot
  <2>2. CASE ~IsRoot(nxt - 1)
    BY <2>2 DEF Build, U, IsRoot
  <2> QED  BY <2>1, <2>2
<1>5. Places' /\ SlotsApart'
  BY <1>1 DEF CInv, Places, InItsRegister, InASlot, MayUse, Iv, SlotsApart
<1>6. Orders'
  BY <1>1 DEF CInv, Orders, StartOf, EndOf, Iv
<1>7. Members'
  <2>1. \A x \in prog.roots : x < nxt => x = nxt - 1 \/ (x < nxt - 1 /\ nxt # 1)
    BY <1>2, <1>3 DEF LRegs
  <2>2. \A x \in prog.roots : x \in U \/ x < nxt
    BY <1>1, <1>3 DEF CInv, Members
  <2>3. \A x \in prog.roots : x \in U' \/ (phase' = "build" /\ x < nxt')
    BY <1>1, <1>4, <2>1, <2>2
  <2>4. U' \subseteq prog.roots
    BY <1>3, <1>4 DEF CInv, Members
  <2> QED  BY <1>1, <1>3, <2>3, <2>4 DEF Members
<1>8. Started' /\ CalleeSavedReported' /\ KeptClear' /\ CallsSoFar'
  BY <1>1, <1>3 DEF CInv, Started, CalleeSavedReported, RegOf, KeptClear, CallsSoFar
<1>9. OwnersActive'
  BY <1>1, <1>3 DEF CInv, OwnersActive
<1> QED  BY <1>0, <1>1, <1>5, <1>6, <1>7, <1>8, <1>9 DEF CInv

(* Steps that place nothing and move nothing between the lists. *)
LEMMA QuietColors ==
  ASSUME CInv, IInv', CallsSoFar',
         UNCHANGED <<prog, unhandled, active, handled, cur, rmap, loc, usedCallee>>,
         stackOff' \in Nat /\ stackOff <= stackOff',
         \/ phase' = phase /\ nxt' = nxt
         \/ phase # "build" /\ phase' \in {"calls", "done"}
         \/ phase \in {"scan", "calls"} /\ phase' \in {"failed", "aborted"}
  PROVE  CInv'
<1>1. A' = A /\ H' = H /\ Pending' = Pending
  BY DEF A, H, Pending, U
<1>2. Places'
  <2>1. stackOff \in Nat /\ InitOffset \in Nat
    BY Typed
  <2>2. \A x \in LRegs : InASlot(x) => InASlot(x)'
    BY <2>1, AllocAssumption DEF InASlot, X64_MAX_INT_REG_SIZE
  <2>3. \A x \in LRegs : InItsRegister(x) => InItsRegister(x)'
    BY DEF InItsRegister, MayUse, Iv
  <2> QED  BY <2>2, <2>3 DEF CInv, Places
<1>3. SlotsApart'
  BY Typed DEF CInv, SlotsApart
<1>4. Orders' /\ Members' /\ Started'
  BY <1>1 DEF CInv, Orders, StartOf, EndOf, Iv, Members, Started
<1>5. CalleeSavedReported' /\ KeptClear' /\ OwnersActive'
  BY <1>1 DEF CInv, CalleeSavedReported, RegOf, KeptClear, Iv, OwnersActive
<1> QED  BY <1>2, <1>3, <1>4, <1>5 DEF CInv

(* What is saved around a call: the scan from the shared position finds all
   that is live there, since `handled' is in order of start and the sites are
   in order too. *)
LEMMA SavesLive ==
  ASSUME CInv, phase = "calls", site \in 1..Len(prog.sites), NEW k \in it..(Len(handled) + 1),
         \A j \in it..(k - 1) : ~LiveAcross(j, prog.sites[site])
  PROVE  {loc[handled[m]].reg : m \in
            {n \in k..Len(handled) : /\ \A j \in k..n : StartsBefore(j, prog.sites[site])
                                     /\ LiveAcross(n, prog.sites[site])}} = LiveRegs(prog.sites[site])
<1> DEFINE ino == prog.sites[site]
           found == {n \in k..Len(handled) : /\ \A j \in k..n : StartsBefore(j, ino)
                                             /\ LiveAcross(n, ino)}
<1>1. /\ it \in 1..(Len(handled) + 1) /\ active = <<>>
      /\ \A j \in 1..(it - 1) : ~LiveAcross(j, ino)
  BY SMTT(30) DEF CInv, CallsSoFar
<1>2. /\ ino \in Int /\ handled \in Seq(LRegs) /\ Len(handled) \in Nat
      /\ \A n \in 1..Len(handled) : handled[n] \in LRegs
      /\ \A x \in LRegs : Iv(x).start \in Int /\ StartOf[x] = Iv(x).start
      /\ k \in 1..(Len(handled) + 1) /\ SortedBy(StartOf, handled)
  <2>1. ino \in Int
    <3>1. prog.sites \in Seq(Int)
      BY Typed DEF Program
    <3> QED  BY ONLY <3>1, site \in 1..Len(prog.sites)
  <2>2. /\ handled \in Seq(LRegs) /\ SortedBy(StartOf, handled)
        /\ \A x \in LRegs : Iv(x).start \in Int /\ StartOf[x] = Iv(x).start
    BY Typed DEF CInv, Orders
  <2>3. Len(handled) \in Nat /\ \A n \in 1..Len(handled) : handled[n] \in LRegs
    BY ONLY <2>2
  <2>4. k \in 1..(Len(handled) + 1)
    BY ONLY <1>1, <2>3, k \in it..(Len(handled) + 1)
  <2> QED  BY ONLY <2>1, <2>2, <2>3, <2>4
<1> HIDE DEF ino
<1>3. ASSUME NEW m \in found  PROVE loc[handled[m]].reg \in LiveRegs(ino)
  <2>1. m \in 1..Len(handled) /\ LiveAcross(m, ino)
    BY <1>2, <1>3
  <2> QED  BY <1>2, <2>1 DEF LiveAcross, LiveRegs, RegOf
<1>4. ASSUME NEW y \in LRegs, Iv(y).start < ino, ino < Iv(y).end, RegOf(y) \in CallerSaved
      PROVE  \E m \in found : loc[handled[m]].reg = RegOf(y)
  <2>1. loc[y].kind = "reg"
    BY <1>4, AllocAssumption DEF CInv, IInv, Shape, RegOf
  <2>2. y \in H
    BY <1>1, <2>1, Typed DEF CInv, Members, A, Range
  <2>3. PICK m \in 1..Len(handled) : handled[m] = y
    BY <1>2, <2>2, RangeMembers DEF H
  <2>4. LiveAcross(m, ino)
    BY <1>4, <2>1, <2>3 DEF LiveAcross, RegOf
  <2>5. m >= k
    BY <1>1, <1>2, <2>3, <2>4 DEF ino
  <2>6. ASSUME NEW j \in k..m  PROVE StartsBefore(j, ino)
    <3>1. j \in 1..Len(handled) /\ m \in 1..Len(handled) /\ (j < m \/ j = m)
      BY <1>2, <2>3, <2>6
    <3>2. StartOf[handled[j]] <= StartOf[handled[m]]
      BY <1>2, <3>1 DEF SortedBy
    <3> QED  BY <1>2, <1>4, <2>3, <3>1, <3>2 DEF StartsBefore
  <2> QED  BY <2>3, <2>4, <2>5, <2>6, <1>2 DEF RegOf
<1>5. {loc[handled[m]].reg : m \in found} = LiveRegs(ino)
  <2> HIDE DEF found
  <2> QED  BY <1>3, <1>4 DEF LiveRegs
<1> QED  BY <1>5 DEF ino

LEMMA CallSiteColors == CInv /\ CallSite => CInv'
<1> SUFFICES ASSUME CInv, CallSite  PROVE CInv'
  OBVIOUS
<1> DEFINE ino == prog.sites[site]
           N == Len(prog.sites)
<1>0. IInv'
  BY NextKeeps DEF CInv, Next, Step
<1>1. PICK k \in it..(Len(handled) + 1) :
        /\ \A j \in it..(k - 1) : StartsBefore(j, ino) /\ ~LiveAcross(j, ino)
        /\ it' = k
        /\ saveMask' = Append(saveMask,
             {loc[handled[m]].reg : m \in
                {n \in k..Len(handled) : /\ \A j \in k..n : StartsBefore(j, ino)
                                         /\ LiveAcross(n, ino)}})
  BY DEF CallSite
<1>2. /\ phase = "calls" /\ phase' = phase /\ nxt' = nxt /\ site <= N /\ site' = site + 1
      /\ UNCHANGED <<prog, unhandled, active, handled, cur, rmap, loc, usedCallee, stackOff>>
  BY DEF CallSite, lists, results
<1>3. /\ active = <<>> /\ site \in 1..N /\ Len(saveMask) = site - 1 /\ it \in 1..(Len(handled) + 1)
      /\ \A j \in 1..(it - 1), s \in site..N : ~LiveAcross(j, prog.sites[s])
      /\ \A s \in 1..(site - 1) : saveMask[s] = LiveRegs(prog.sites[s])
  BY <1>2 DEF CInv, CallsSoFar
<1>4. saveMask' = Append(saveMask, LiveRegs(ino))
  <2>1. \A j \in it..(k - 1) : ~LiveAcross(j, prog.sites[site])
    BY <1>1
  <2> QED  BY <1>1, <1>2, <1>3, <2>1, SavesLive
<1>5. /\ prog.sites \in Seq(Int) /\ N \in Nat /\ saveMask \in Seq(SUBSET PRegs)
      /\ Len(handled) \in Nat /\ stackOff \in Nat /\ k \in 1..(Len(handled) + 1)
      /\ \A n \in 1..Len(handled) : handled[n] \in LRegs
      /\ \A x \in LRegs : Iv(x).start \in Int /\ Iv(x).end \in Int
      /\ \A i, j \in 1..N : i < j => prog.sites[i] <= prog.sites[j]
  <2>1. prog.sites \in Seq(Int)
    BY Typed DEF Program
  <2>2. N \in Nat
    BY ONLY <2>1
  <2>3. saveMask \in Seq(SUBSET PRegs)
    BY DEF CInv, IInv, TypeOK
  <2>4. Len(handled) \in Nat /\ \A n \in 1..Len(handled) : handled[n] \in LRegs
    <3>1. handled \in Seq(LRegs)
      BY Typed
    <3> QED  BY ONLY <3>1
  <2>5. k \in 1..(Len(handled) + 1)
    BY ONLY <1>3, <2>4, k \in it..(Len(handled) + 1)
  <2>6. stackOff \in Nat /\ \A x \in LRegs : Iv(x).start \in Int /\ Iv(x).end \in Int
    BY Typed
  <2>7. \A i, j \in 1..N : i < j => prog.sites[i] <= prog.sites[j]
    <3>1. \A i, j \in DOMAIN prog.sites : i < j => prog.sites[i] <= prog.sites[j]
      BY Typed DEF WellFormed
    <3>2. DOMAIN prog.sites = 1..N
      BY ONLY <2>1
    <3> QED  BY ONLY <3>1, <3>2
  <2> QED  BY ONLY <2>1, <2>2, <2>3, <2>4, <2>5, <2>6, <2>7
<1>6. \A j \in 1..(k - 1), s \in (site + 1)..N : ~LiveAcross(j, prog.sites[s])
  <2> SUFFICES ASSUME NEW j \in 1..(k - 1), NEW s \in (site + 1)..N, LiveAcross(j, prog.sites[s])
               PROVE  FALSE
    OBVIOUS
  <2>1. s \in 1..N /\ site < s /\ s \in site..N
    BY <1>3
  <2>2. j \in it..(k - 1)
    BY <1>3, <1>5, <2>1
  <2>3. StartsBefore(j, ino) /\ ~LiveAcross(j, ino)
    BY <1>1, <2>2
  <2>4. ino \in Int /\ prog.sites[s] \in Int
    <3>1. \A i \in 1..N : prog.sites[i] \in Int
      <4>1. prog.sites \in Seq(Int)
        BY <1>5
      <4> QED  BY ONLY <4>1
    <3> QED  BY ONLY <1>3, <2>1, <3>1
  <2>5. ino <= prog.sites[s]
    BY ONLY <1>3, <1>5, <2>1
  <2>6. handled[j] \in LRegs /\ Iv(handled[j]).start \in Int /\ Iv(handled[j]).end \in Int
    <3>1. j \in 1..Len(handled)
      BY ONLY <1>5, j \in 1..(k - 1)
    <3>2. \A n \in 1..Len(handled) : handled[n] \in LRegs
      BY <1>5
    <3>3. handled[j] \in LRegs
      BY ONLY <3>1, <3>2
    <3> QED  BY ONLY <1>5, <3>3
  <2>7. LiveAcross(j, prog.sites[s])
    OBVIOUS
  <2> HIDE DEF ino
  <2> QED  BY ONLY <2>3, <2>4, <2>5, <2>6, <2>7 DEF LiveAcross, StartsBefore
<1>7. CallsSoFar'
  <2>1. Len(saveMask') = site /\ \A s \in 1..site :
          saveMask'[s] = IF s = site THEN LiveRegs(ino) ELSE saveMask[s]
    <3> HIDE DEF ino
    <3>1. LiveRegs(ino) \in SUBSET PRegs
      BY AllocAssumption DEF LiveRegs
    <3> QED  BY <1>3, <1>4, <1>5, <3>1
  <2>2. \A s \in 1..site : saveMask'[s] = LiveRegs(prog.sites[s])
    BY <1>3, <1>5, <2>1
  <2>3. \A n : LiveRegs(n)' = LiveRegs(n)
    BY <1>2 DEF LiveRegs, RegOf, Iv
  <2>4. \A j, n : LiveAcross(j, n)' = LiveAcross(j, n)
    BY <1>2 DEF LiveAcross, Iv
  <2>5. site' - 1 = site /\ site' \in 1..(N + 1)
    BY <1>2, <1>3, <1>5
  <2> QED  BY <1>1, <1>2, <1>3, <1>5, <1>6, <2>1, <2>2, <2>3, <2>4, <2>5 DEF CallsSoFar
<1> QED  BY <1>0, <1>2, <1>5, <1>7, QuietColors

-----------------------------------------------------------------------------
(*                      Every step keeps the invariant                     *)

(* Five of the six ways to place an interval come down to two: taking a
   register that is free, that the constraint and the class allow and that is
   not banned, or spilling an interval that may be. *)
Occupies(r) ==
  /\ phase = "scan" /\ cur # None
  /\ rmap[r] = None /\ r \in MayUse(cur) /\ ClassOf[r] = Iv(cur).class
  /\ Iv(cur).kind \in Free => r \notin Banned
  /\ Occupy(r)

Spills ==
  /\ phase = "scan" /\ cur # None
  /\ Iv(cur).kind \notin {ForceReg, ForceAnyReg}
  /\ SpillCurrent

LEMMA PlaceForms ==
  ASSUME CInv, Place
  PROVE  (\E r \in PRegs : Occupies(r)) \/ Spills \/ StealReg
<1>1. phase = "scan" /\ cur \in LRegs /\ cur # None
  BY Typed DEF Place, PlaceForced, PlaceForcedAny, PlaceRegOrSpill, PlaceInFreeReg, SpillLongest,
               StealReg, Placing
<1>2. Iv(cur).class \in Classes /\ None \notin PRegs
  BY <1>1, Typed
<1>3. CASE PlaceForced
  <2>1. Iv(cur).kind = ForceReg /\ rmap[Iv(cur).preg] = None /\ Occupy(Iv(cur).preg)
    BY <1>3 DEF PlaceForced, Placing
  <2>2. Iv(cur).preg \in PRegs /\ ClassOf[Iv(cur).preg] = Iv(cur).class
    BY <1>1, <2>1, Typed DEF WellFormed, Iv
  <2> QED  BY <1>1, <2>1, <2>2 DEF Occupies, MayUse, Free
<1>4. ASSUME Iv(cur).kind \in {ForceAnyReg, RegOrSpill}, NEW r \in PRegs, Occupy(r),
             IsNextReg(Iv(cur).class, NotIn(Iv(cur).mask), None, r)
      PROVE  Occupies(r)
  <2>1. ClassOf[r] = Iv(cur).class /\ r \notin NotIn(Iv(cur).mask) /\ rmap[r] = None
    BY <1>2, <1>4, NextReg
  <2> QED  BY <1>1, <1>4, <2>1 DEF Occupies, MayUse, Free, NotIn
<1>5. CASE PlaceForcedAny
  BY <1>4, <1>5 DEF PlaceForcedAny, Placing
<1>6. CASE PlaceRegOrSpill
  BY <1>1, <1>4, <1>6 DEF PlaceRegOrSpill, Placing, Spills
<1>7. CASE PlaceInFreeReg
  <2>1. PICK r \in PRegs : IsNextReg(Iv(cur).class, Banned, Hint, r) /\ Occupy(r)
    BY <1>7 DEF PlaceInFreeReg
  <2>2. Iv(cur).kind \in Free
    BY <1>7 DEF PlaceInFreeReg, Placing
  <2>3. ClassOf[r] = Iv(cur).class /\ r \notin Banned /\ rmap[r] = None
    BY <1>1, <1>2, <2>1, <2>2, NextReg, HintOfClass
  <2> QED  BY <1>1, <2>1, <2>2, <2>3 DEF Occupies, MayUse, Free
<1>8. CASE SpillLongest
  BY <1>1, <1>8 DEF SpillLongest, Placing, Spills, Free
<1> QED  BY <1>3, <1>5, <1>6, <1>7, <1>8 DEF Place

LEMMA PlaceColors == CInv /\ Place => CInv'
  BY PlaceForms, OccupyColors, SpillColors, StealColors DEF Occupies, Spills

LEMMA GiveUpColors == CInv /\ GiveUp => CInv'
<1> SUFFICES ASSUME CInv, GiveUp  PROVE CInv'
  OBVIOUS
<1>1. IInv'
  BY NextKeeps DEF CInv, Next, Step
<1>2. PICK how \in {"failed", "aborted"} : Stop(how)
  BY DEF GiveUp, AssertForcedFree, AssertAnyRegFound, AssertCountInBudget, FailNoReg
<1>3. phase = "scan"
  BY DEF GiveUp, AssertForcedFree, AssertAnyRegFound, AssertCountInBudget, FailNoReg, Placing
<1>4. /\ UNCHANGED <<prog, unhandled, active, handled, cur, rmap, loc, usedCallee>>
      /\ stackOff' = stackOff /\ phase' = how
  BY <1>2 DEF Stop, lists, results
<1>5. CallsSoFar' /\ stackOff \in Nat
  BY <1>4, Typed DEF CallsSoFar
<1> QED  BY <1>1, <1>3, <1>4, <1>5, QuietColors

LEMMA StartCallSitesColors == CInv /\ StartCallSites => CInv'
<1> SUFFICES ASSUME CInv, StartCallSites  PROVE CInv'
  OBVIOUS
<1>1. IInv'
  BY NextKeeps DEF CInv, Next, Step, Scan
<1>2. /\ UNCHANGED <<prog, unhandled, active, handled, cur, rmap, loc, usedCallee>>
      /\ stackOff' = stackOff /\ phase = "scan" /\ phase' = "calls" /\ active = <<>>
      /\ site' = site /\ it' = it /\ saveMask' = saveMask
  BY DEF StartCallSites, lists, results, calls
<1>3. site = 1 /\ it = 1 /\ saveMask = <<>>
  BY <1>2 DEF CInv, CallsSoFar
<1>4. Len(prog.sites) \in Nat /\ Len(handled) \in Nat /\ stackOff \in Nat
  BY Typed DEF Program
<1>5. CallsSoFar'
  BY <1>2, <1>3, <1>4 DEF CallsSoFar
<1> QED  BY <1>1, <1>2, <1>4, <1>5, QuietColors

LEMMA FinishColors == CInv /\ Finish => CInv'
<1> SUFFICES ASSUME CInv, Finish  PROVE CInv'
  OBVIOUS
<1>1. IInv'
  BY NextKeeps DEF CInv, Next, Step
<1>2. /\ UNCHANGED <<prog, unhandled, active, handled, cur, rmap, loc, usedCallee>>
      /\ stackOff' = AlignUp(stackOff, X64_STACK_ALIGN) /\ phase = "calls" /\ phase' = "done"
      /\ site' = site /\ it' = it /\ saveMask' = saveMask /\ site > Len(prog.sites)
  BY DEF Finish, lists, calls
<1>3. stackOff \in Nat /\ stackOff' \in Nat /\ stackOff <= stackOff'
  BY <1>2, Typed DEF AlignUp, X64_STACK_ALIGN
<1>4. CallsSoFar'
  <2>1. Len(prog.sites) \in Nat /\ site \in 1..(Len(prog.sites) + 1)
    BY <1>2, Typed DEF Program, CInv, CallsSoFar
  <2>2. site = Len(prog.sites) + 1
    BY ONLY <1>2, <2>1
  <2>3. \A j, n : LiveAcross(j, n)' = LiveAcross(j, n)
    BY <1>2 DEF LiveAcross, Iv
  <2>4. \A n : LiveRegs(n)' = LiveRegs(n)
    BY <1>2 DEF LiveRegs, RegOf, Iv
  <2> QED  BY <1>2, <2>2, <2>3, <2>4 DEF CInv, CallsSoFar
<1> QED  BY <1>1, <1>2, <1>3, <1>4, QuietColors

LEMMA StutterColors == CInv /\ UNCHANGED vars => CInv'
<1> SUFFICES ASSUME CInv, UNCHANGED vars  PROVE CInv'
  OBVIOUS
<1>1. IInv'
  BY NextKeeps DEF CInv
<1>2. /\ UNCHANGED <<prog, phase, nxt, unhandled, active, handled, cur, rmap, loc, usedCallee>>
      /\ UNCHANGED <<stackOff, site, it, saveMask>>
  BY DEF vars, lists, results, calls
<1>3. CallsSoFar'
  <2>1. \A j, n : LiveAcross(j, n)' = LiveAcross(j, n)
    BY <1>2 DEF LiveAcross, Iv
  <2>2. \A n : LiveRegs(n)' = LiveRegs(n)
    BY <1>2 DEF LiveRegs, RegOf, Iv
  <2> QED  BY <1>2, <2>1, <2>2 DEF CInv, CallsSoFar
<1> QED  BY <1>1, <1>2, <1>3, Typed, QuietColors

LEMMA NextColors == CInv /\ [Next]_vars => CInv'
  BY BuildColors, TakeNextColors, ExpireOldColors, DrainActiveColors, StartCallSitesColors,
     PlaceColors, GiveUpColors, CallSiteColors, FinishColors, StutterColors
  DEF Next, Step, Scan, Returned

LEMMA InitColors == Init => CInv
<1> SUFFICES ASSUME Init  PROVE CInv
  OBVIOUS
<1>1. IInv
  BY InitIInv
<1>2. /\ prog \in Programs /\ prog \in Program /\ phase = "build" /\ nxt = NumLRegs /\ cur = None
      /\ unhandled = <<>> /\ active = <<>> /\ handled = <<>>
      /\ rmap = [r \in PRegs |-> None] /\ loc = [x \in LRegs |-> Unassigned]
      /\ stackOff = InitOffset /\ site = 1 /\ it = 1 /\ saveMask = <<>>
      /\ NumLRegs \in Nat /\ InitOffset \in Nat /\ None \notin PRegs /\ None \notin LRegs
  BY AllocAssumption DEF Init
<1>3. A = {} /\ H = {} /\ U = {} /\ Pending = {}
  BY <1>2 DEF A, H, U, Pending, Range
<1>4. Places /\ SlotsApart /\ Orders
  BY <1>2, PlaceFields DEF Places, SlotsApart, Orders, SortedBy
<1>5. Members
  <2>1. \A x \in prog.roots : x \in 0..(NumLRegs - 1)
    BY <1>2, ProgramTypes DEF LRegs
  <2> QED  BY <1>2, <1>3, <2>1, PlaceFields DEF Members
<1>6. Started /\ CalleeSavedReported /\ KeptClear /\ OwnersActive /\ CallsSoFar
  BY <1>2, <1>3, PlaceFields DEF Started, CalleeSavedReported, RegOf, KeptClear, OwnersActive, CallsSoFar
<1> QED  BY <1>1, <1>2, <1>4, <1>5, <1>6 DEF CInv

(* Every reachable state satisfies the invariant. *)
THEOREM ColorsInvariant == Spec => []CInv
  BY InitColors, NextColors, PTL DEF Spec

(* Every callee-saved register in use is reported to the prologue. *)
THEOREM CalleeSaved == Spec => []CalleeSavedReported
<1>1. CInv => CalleeSavedReported
  BY DEF CInv
<1> QED  BY <1>1, ColorsInvariant, PTL

(* No unconstrained value sits in a register that a value it overlaps is
   forced into later: the look-ahead of X64_linear_scan_reg_alloc is enough,
   and a steal does not undo it. *)
THEOREM ForcedKeptClear == Spec => []ForcedRegsKeptClear
<1>1. CInv => ForcedRegsKeptClear
  <2> SUFFICES ASSUME CInv, NEW k \in DOMAIN active, NEW j \in DOMAIN unhandled,
                      Iv(active[k]).kind \in Free, Iv(unhandled[j]).kind = ForceReg,
                      Intersect(active[k], unhandled[j])
               PROVE  RegOf(active[k]) # Iv(unhandled[j]).preg
    BY DEF ForcedRegsKeptClear
  <2>1. active[k] \in A /\ unhandled[j] \in Pending
    BY DEF A, Pending, U, Range
  <2> QED  BY <2>1 DEF CInv, KeptClear, Intersect
<1> QED  BY <1>1, ColorsInvariant, PTL

(* When the allocator succeeds every root interval has a place and every
   call saves exactly the caller-saved registers that are live across it. *)
THEOREM CallSitesSave == Spec => []CallSitesSaveLive
<1>1. CInv => CallSitesSaveLive
  <2> SUFFICES ASSUME CInv, phase = "done"  PROVE CallSitesSaveLive
    BY DEF CallSitesSaveLive
  <2>1. \A x \in prog.roots : loc[x].kind # "unassigned"
    BY ProgramTypes, Typed DEF CInv, IInv, Shape, Members
  <2>2. DOMAIN prog.sites = 1..(site - 1)
    <3>1. prog.sites \in Seq(Int)
      BY Typed DEF Program
    <3>2. site - 1 = Len(prog.sites)
      <4>1. Len(prog.sites) \in Nat
        BY <3>1
      <4> QED  BY <4>1 DEF CInv, CallsSoFar
    <3> QED  BY <3>1, <3>2
  <2> QED  BY <2>1, <2>2 DEF CallSitesSaveLive, CInv, CallsSoFar, LiveRegs
<1> QED  BY <1>1, ColorsInvariant, PTL

-----------------------------------------------------------------------------
(*                  The allocator implements RegColoring                   *)

(* A value that does not overlap w may hold w's register. *)
LEMMA Holds ==
  ASSUME NEW v \in LRegs, NEW r \in PRegs, NEW except, r \in MayUse(v),
         \A w \in LRegs \ (except \cup {v}) : RegOf(w) = r => ~Intersect(v, w)
  PROVE  Coloring!CanHold(r, v, except)
  BY DEF Coloring!CanHold, Coloring!In, RegOf

LEMMA FreshNextSlot == CInv => Coloring!FreshSlot(-NewSlot)
<1> SUFFICES ASSUME CInv  PROVE Coloring!FreshSlot(-NewSlot)
  OBVIOUS
<1>1. -NewSlot <= -(InitOffset + X64_MAX_INT_REG_SIZE)
  BY NextSlotApart, Typed DEF X64_MAX_INT_REG_SIZE
<1> QED  BY <1>1, NextSlotApart DEF Coloring!FreshSlot, Apart

LEMMA SamePlaces ==
  /\ Unassigned = Coloring!Nowhere
  /\ \A r : InReg(r) = Coloring!In(r)
  /\ \A n : OnStack(n) = Coloring!At(-n)
  BY DEF Unassigned, InReg, OnStack, Coloring!Nowhere, Coloring!In, Coloring!At

LEMMA OccupyAssigns ==
  ASSUME CInv, NEW r \in PRegs, Occupies(r)
  PROVE  Coloring!Assign(cur, r)
<1>1. NoSharedRegister'
  BY OccupyKeeps DEF CInv, IInv, Occupies
<1>2. /\ cur \in LRegs /\ loc[cur] = Unassigned /\ loc'[cur] = InReg(r) /\ prog' = prog
      /\ \A x \in LRegs : x # cur => loc'[x] = loc[x]
  BY OccupyEffects DEF Occupies
<1>3. loc' = [loc EXCEPT ![cur] = InReg(r)] /\ r \in MayUse(cur)
  BY DEF Occupies, Occupy
<1>4. \A w \in LRegs \ ({} \cup {cur}) : RegOf(w) = r => ~Intersect(cur, w)
  <2>1. ASSUME NEW v \in LRegs, v = cur, NEW w \in LRegs, w # v, RegOf(w) = r
        PROVE  ~Intersect(v, w)
    <3>1. RegOf(v)' = r /\ RegOf(w)' = r /\ r # None
      BY <1>2, <2>1, PlaceFields, AllocAssumption DEF RegOf
    <3>2. ~Intersect(v, w)'
      BY <1>1, <2>1, <3>1 DEF NoSharedRegister
    <3> QED  BY <1>2, <3>2 DEF Intersect, Iv
  <2> QED  BY <1>2, <2>1
<1>5. Coloring!CanHold(r, cur, {})
  BY <1>2, <1>3, <1>4, Holds
<1> QED  BY <1>2, <1>3, <1>5, SamePlaces DEF Coloring!Assign

LEMMA StealEvicts ==
  ASSUME CInv, StealReg
  PROVE  \E w \in LRegs : Coloring!Evict(cur, w, loc'[w].off)
<1>a. PICK from \in LRegs : Steals(from)
  BY StealStep
<1> DEFINE r == loc[from].reg
<1>1. NoSharedRegister' /\ r \in PRegs /\ loc[from].kind = "reg" /\ r # None
  BY <1>a, StealRegKeeps, Separate, Typed DEF CInv, IInv, Steals
<1>2. /\ cur \in LRegs /\ cur # from /\ loc[cur] = Unassigned /\ Iv(cur).kind \in Free
      /\ loc'[cur] = InReg(r) /\ loc'[from] = OnStack(NewSlot) /\ prog' = prog
      /\ \A x \in LRegs : x # cur /\ x # from => loc'[x] = loc[x]
      /\ InItsRegister(from) /\ Stealable(from)
  BY <1>a, StealEffects
<1>3. loc' = [loc EXCEPT ![cur] = InReg(r), ![from] = OnStack(NewSlot)]
  BY <1>a DEF Steals
<1>4. loc[from] = InReg(r) /\ r \in MayUse(cur)
  <2>1. PICK q \in PRegs : loc[from] = InReg(q) /\ ClassOf[q] = Iv(from).class
    BY <1>2 DEF InItsRegister
  <2>2. q = r /\ ClassOf[r] = Iv(cur).class
    BY <1>2, <2>1, PlaceFields DEF Stealable
  <2> QED  BY <1>1, <1>2, <2>1, <2>2 DEF MayUse, Free
<1>5. \A w \in LRegs \ ({from} \cup {cur}) : RegOf(w) = r => ~Intersect(cur, w)
  <2>1. ASSUME NEW v \in LRegs, v = cur, NEW w \in LRegs, w # v, w # from, RegOf(w) = r
        PROVE  ~Intersect(v, w)
    <3>1. RegOf(v)' = r /\ RegOf(w)' = r
      BY <1>2, <2>1, PlaceFields DEF RegOf
    <3>2. ~Intersect(v, w)'
      BY <1>1, <2>1, <3>1 DEF NoSharedRegister
    <3> QED  BY <1>2, <3>2 DEF Intersect, Iv
  <2> QED  BY <1>2, <2>1
<1>6. Coloring!CanHold(r, cur, {from})
  BY <1>1, <1>2, <1>4, <1>5, Holds
<1>7. loc'[from].off = -NewSlot /\ Coloring!FreshSlot(-NewSlot)
  BY <1>2, PlaceFields, FreshNextSlot
<1>8. Coloring!Evict(cur, from, -NewSlot)
  BY <1>1, <1>2, <1>3, <1>4, <1>6, <1>7, SamePlaces DEF Coloring!Evict, Stealable
<1> QED  BY <1>7, <1>8

LEMMA SpillSpills ==
  ASSUME CInv, Spills
  PROVE  Coloring!Spill(cur, loc'[cur].off)
<1>1. /\ cur \in LRegs /\ loc[cur] = Unassigned /\ loc'[cur] = OnStack(NewSlot)
      /\ loc' = [loc EXCEPT ![cur] = OnStack(NewSlot)]
  BY SpillEffects DEF Spills, SpillCurrent
<1>2. loc'[cur].off = -NewSlot /\ Coloring!FreshSlot(-NewSlot)
  BY <1>1, PlaceFields, FreshNextSlot
<1>3. Coloring!Spill(cur, -NewSlot)
  BY <1>1, <1>2, SamePlaces DEF Coloring!Spill, Spills
<1> QED  BY <1>2, <1>3

LEMMA PlaceImplements == CInv /\ Place => Coloring!Place
<1> SUFFICES ASSUME CInv, Place  PROVE Coloring!Place
  OBVIOUS
<1>1. phase = "scan" /\ phase' = phase /\ prog' = prog /\ cur \in LRegs
  <2>1. phase = "scan" /\ cur \in LRegs
    BY Typed DEF Place, PlaceForced, PlaceForcedAny, PlaceRegOrSpill, PlaceInFreeReg, SpillLongest,
                 StealReg, Placing
  <2> QED  BY <2>1, PlaceForms DEF Occupies, Occupy, Spills, SpillCurrent, StealReg
<1>2. \/ \E r \in PRegs : Coloring!Assign(cur, r)
      \/ Coloring!Spill(cur, loc'[cur].off)
      \/ \E w \in LRegs : Coloring!Evict(cur, w, loc'[w].off)
  BY PlaceForms, OccupyAssigns, SpillSpills, StealEvicts
<1>3. UNCHANGED <<Coloring!problem, Outcome>> /\ Outcome = "running"
  BY <1>1 DEF Coloring!problem, Intersect, MayUse, Iv, Outcome
<1> QED  BY <1>1, <1>2, <1>3 DEF Coloring!Place

(* A step of the allocator that places nothing is a stutter, or decides how
   the allocation ends. *)
LEMMA OtherImplements ==
  ASSUME CInv, UNCHANGED <<prog, loc>>,
         \/ phase' = phase
         \/ phase \in {"build", "scan", "calls"} /\ phase' \in {"build", "scan", "calls"}
         \/ phase = "scan" /\ phase' \in {"failed", "aborted"}
         \/ phase = "calls" /\ phase' = "done"
  PROVE  [Coloring!Next]_<<Coloring!problem, loc, Outcome>>
<1>1. UNCHANGED Coloring!problem
  BY DEF Coloring!problem, Intersect, MayUse, Iv
<1>2. CASE Outcome' = Outcome
  BY <1>1, <1>2
<1>3. CASE phase = "scan" /\ phase' \in {"failed", "aborted"}
  <2>1. Outcome = "running" /\ Outcome' = "gave_up"
    BY <1>3 DEF Outcome
  <2> QED  BY <1>1, <2>1 DEF Coloring!Next, Coloring!GiveUp
<1>4. CASE phase = "calls" /\ phase' = "done"
  <2>1. Outcome = "running" /\ Outcome' = "placed"
    BY <1>4 DEF Outcome
  <2>2. \A x \in prog.roots : loc[x] # Coloring!Nowhere
    <3>1. \A x \in prog.roots : x \in A \cup H /\ x \in LRegs
      BY <1>4, Typed, ProgramTypes DEF CInv, IInv, Shape, Members
    <3> QED  BY <3>1, PlaceFields, SamePlaces DEF CInv, Members
  <2> QED  BY <1>1, <2>1, <2>2 DEF Coloring!Next, Coloring!Succeed
<1>5. Outcome' = Outcome \/ (phase = "scan" /\ phase' \in {"failed", "aborted"})
        \/ (phase = "calls" /\ phase' = "done")
  BY DEF Outcome
<1> QED  BY <1>2, <1>3, <1>4, <1>5

LEMMA InitImplements == Init => Coloring!Init
<1> SUFFICES ASSUME Init  PROVE Coloring!Init
  OBVIOUS
<1>1. prog \in Program /\ phase = "build" /\ loc = [x \in LRegs |-> Unassigned]
  BY AllocAssumption DEF Init
<1>2. \A x \in LRegs : MayUse(x) \subseteq PRegs
  <2>1. \A x \in LRegs : Iv(x).preg \in PRegs /\ Iv(x).mask \subseteq PRegs
    BY <1>1 DEF Program, Interval, Iv
  <2> QED  BY <2>1 DEF MayUse
<1>3. Outcome = "running" /\ prog.roots \subseteq LRegs
  BY <1>1, ProgramTypes DEF Outcome
<1> QED  BY <1>1, <1>2, <1>3, SamePlaces DEF Coloring!Init

LEMMA StepImplements ==
  ASSUME CInv, [Next]_vars
  PROVE  [Coloring!Next]_<<Coloring!problem, loc, Outcome>>
<1>1. CASE Place
  BY <1>1, PlaceImplements DEF Coloring!Next
<1>2. CASE GiveUp
  <2>1. phase = "scan" /\ \E how \in {"failed", "aborted"} : Stop(how)
    BY <1>2 DEF GiveUp, AssertForcedFree, AssertAnyRegFound, AssertCountInBudget, FailNoReg, Placing
  <2> QED  BY <2>1, OtherImplements DEF Stop, results
<1>3. CASE Build \/ Scan \/ CallSite
  BY <1>3, OtherImplements
  DEF Build, Scan, TakeNext, ExpireOld, DrainActive, StartCallSites, CallSite, results
<1>4. CASE Finish
  BY <1>4, OtherImplements DEF Finish
<1>5. CASE UNCHANGED vars
  BY <1>5, OtherImplements DEF vars, results
<1> QED  BY <1>1, <1>2, <1>3, <1>4, <1>5 DEF Next, Step, Returned

(* The allocator implements the abstract colouring, whatever the procedure
   and the registers: every placement assigns a register that nothing
   overlapping holds, spills to a slot nobody had, or evicts an unforced
   value; nothing else moves a value, and success comes only with every root
   interval placed (reg_alloc.c). *)
THEOREM ColoringImplemented == Spec => ImplementsColoring
<1>1. Init => Coloring!Init
  BY InitImplements
<1>2. CInv /\ [Next]_vars => [Coloring!Next]_<<Coloring!problem, loc, Outcome>>
  BY StepImplements
<1> QED  BY <1>1, <1>2, ColorsInvariant, PTL DEF Spec, ImplementsColoring, Coloring!Spec

-----------------------------------------------------------------------------
(***************************************************************************)
(* RegAlloc spills instead of failing.  The active intervals of a class    *)
(* are counted against the scratch registers of the class, and while       *)
(* something is pending the count stays within them.                       *)
(***************************************************************************)
ActiveIn(c) == {x \in A : Iv(x).class = c}

WithinBudget ==
  (phase = "build" \/ (phase = "scan" /\ Pending # {})) =>
    \A c \in Classes : UsedCount(c) <= Len(Scratch[c])

SInv == CInv /\ (ForcedOutsideScratch => phase \notin {"failed", "aborted"} /\ WithinBudget)

LEMMA FiniteInterval ==
  ASSUME NEW a \in Int, NEW b \in Int
  PROVE  \A S \in SUBSET (a..b) : IsFiniteSet(S)
<1>1. IsFiniteSet(a..b)
  BY FS_Interval, Zenon
<1> QED  BY <1>1, FS_Subset, Zenon

LEMMA CountUpTo == ASSUME NEW n \in Nat  PROVE Cardinality(1..n) = n
<1>1. 1 \in Int /\ n \in Int
  OBVIOUS
<1>2. Cardinality(1..n) = IF 1 > n THEN 0 ELSE n - 1 + 1
  BY ONLY <1>1, FS_Interval, Zenon
<1> QED  BY <1>2

LEMMA FiniteLRegs == \A S \in SUBSET LRegs : IsFiniteSet(S)
<1>1. 0 \in Int /\ NumLRegs - 1 \in Int
  BY AllocAssumption
<1> QED  BY ONLY <1>1, FiniteInterval DEF LRegs

(* The count of reg_alloc.c is that of the active values of the class: no
   value is in the list twice. *)
LEMMA CountActive ==
  ASSUME CInv, NEW c
  PROVE  /\ IsFiniteSet(ActiveIn(c)) /\ UsedCount(c) = Cardinality(ActiveIn(c))
         /\ UsedCount(c) \in Nat
<1> DEFINE K == {k \in DOMAIN active : Iv(active[k]).class = c}
           f == [k \in K |-> active[k]]
<1>1. /\ active \in Seq(LRegs) /\ Distinct(active) /\ K \subseteq 1..Len(active)
      /\ IsFiniteSet(ActiveIn(c)) /\ DOMAIN active = 1..Len(active)
  BY Typed, FiniteLRegs DEF CInv, IInv, Shape, ActiveIn
<1>2. \A k \in K : active[k] \in ActiveIn(c)
  BY <1>1, RangeMembers DEF ActiveIn, A
<1>3. \A x \in ActiveIn(c) : \E k \in K : active[k] = x
  BY <1>1, RangeMembers DEF ActiveIn, A
<1>4. \A j, k \in K : active[j] = active[k] => j = k
  BY <1>1 DEF Distinct
<1> HIDE DEF K
<1>5. f \in Bijection(K, ActiveIn(c))
  BY <1>2, <1>3, <1>4 DEF Bijection, Injection, Surjection, IsInjective
<1>6. IsFiniteSet(K)
  <2>1. 1 \in Int /\ Len(active) \in Int
    BY <1>1
  <2> QED  BY <1>1, <2>1, FiniteInterval
<1>7. Cardinality(ActiveIn(c)) = Cardinality(K)
  BY <1>5, <1>6, FS_Bijection DEF ExistsBijection
<1>8. Cardinality(K) \in Nat
  BY <1>6, FS_CardinalityType
<1> QED  BY <1>1, <1>7, <1>8 DEF UsedCount, K

(* The same of the next state. *)
Counted ==
  \A c : /\ IsFiniteSet(ActiveIn(c)) /\ UsedCount(c) = Cardinality(ActiveIn(c))
         /\ UsedCount(c) \in Nat

LEMMA CountNext == CInv' => Counted'
<1>1. CInv => Counted
  BY CountActive DEF Counted
<1> QED  BY <1>1, PTL

(* While the count is below the number of scratch registers one of them is
   free: those taken are held by different active values of the class. *)
LEMMA ScratchLeft ==
  ASSUME CInv, phase = "scan", Pending # {}, NEW c \in Classes, UsedCount(c) < Len(Scratch[c])
  PROVE  \E k \in DOMAIN Scratch[c] : rmap[Scratch[c][k]] = None
<1> SUFFICES ASSUME \A k \in DOMAIN Scratch[c] : rmap[Scratch[c][k]] # None  PROVE FALSE
  OBVIOUS
<1> DEFINE q == Scratch[c]
           f == [k \in 1..Len(q) |-> rmap[q[k]]]
<1>1. q \in Seq(PRegs) /\ Len(q) \in Nat /\ DOMAIN q = 1..Len(q)
  BY AllocAssumption
<1>2. \A k \in 1..Len(q) : q[k] \in PRegs /\ ClassOf[q[k]] = c
  BY <1>1, ScratchAssumption
<1>3. \A j, k \in 1..Len(q) : j # k => q[j] # q[k]
  BY <1>1, ScratchAssumption
<1>4. \A k \in 1..Len(q) : rmap[q[k]] \in A /\ loc[rmap[q[k]]].reg = q[k]
  BY <1>1, <1>2 DEF CInv, OwnersActive
<1> HIDE DEF q
<1>5. ASSUME NEW k \in 1..Len(q)  PROVE rmap[q[k]] \in ActiveIn(c)
  <2> DEFINE x == rmap[q[k]]
  <2>1. x \in A /\ x \in LRegs /\ loc[x].reg = q[k] /\ q[k] # None
    BY <1>2, <1>4, Typed
  <2> HIDE DEF x
  <2>2. InItsRegister(x)
    BY <2>1, Separate, PlaceFields DEF CInv, Places, InASlot
  <2>3. Iv(x).class = c
    BY <1>2, <2>1, <2>2, PlaceFields DEF InItsRegister
  <2> QED  BY <2>1, <2>3 DEF ActiveIn, x
<1>6. f \in Injection(1..Len(q), ActiveIn(c))
  BY <1>3, <1>4, <1>5 DEF Injection, IsInjective
<1>7. Cardinality(1..Len(q)) <= Cardinality(ActiveIn(c))
  BY <1>6, CountActive, FS_Injection
<1>8. Cardinality(1..Len(q)) = Len(q)
  BY <1>1, CountUpTo
<1> QED  BY <1>1, <1>7, <1>8, CountActive DEF q

(* When the expiry loop has stopped, every active interval goes on. *)
LEMMA NotExpired ==
  ASSUME CInv, cur \in LRegs, active # <<>> => ~Expired(Head(active)), NEW x \in A
  PROVE  Iv(cur).start < Iv(x).end
<1>1. active \in Seq(LRegs) /\ EndOf \in [LRegs -> Int] /\ SortedBy(EndOf, active) /\ active # <<>>
  BY Typed DEF CInv, Orders, A, Range
<1>2. /\ Head(active) \in LRegs
      /\ x = Head(active) \/ EndOf[Head(active)] <= EndOf[x]
  BY ONLY <1>1, x \in A, HeadTail DEF A
<1> QED  BY <1>1, <1>2, Typed DEF Expired

(* The register an interval is forced into is free: no unconstrained value is
   kept in it, and another one forced into it has ended. *)
LEMMA ForcedFree ==
  ASSUME CInv, cur \in LRegs, phase = "scan", Iv(cur).kind = ForceReg,
         ForcedOutsideScratch, active # <<>> => ~Expired(Head(active))
  PROVE  rmap[Iv(cur).preg] = None
<1> SUFFICES ASSUME rmap[Iv(cur).preg] # None  PROVE FALSE
  OBVIOUS
<1> DEFINE r == Iv(cur).preg
           x == rmap[r]
<1>1. r \in PRegs /\ cur \in Pending /\ Pending # {}
  BY Typed DEF Pending
<1>2. x \in A /\ x \in LRegs /\ loc[x].reg = r /\ x # cur /\ x \in prog.roots
  <2>1. x \in A /\ loc[x].reg = r
    BY <1>1 DEF CInv, OwnersActive
  <2> HIDE DEF x
  <2> QED  BY <1>1, <2>1, Typed, Separate DEF CInv, Members
<1> HIDE DEF x
<1>3. Iv(cur).start < Iv(x).end /\ Iv(x).start <= Iv(cur).start
  BY <1>1, <1>2, NotExpired DEF CInv, Started
<1>4. CASE Iv(x).kind \in Free
  BY <1>1, <1>2, <1>3, <1>4 DEF CInv, KeptClear, RegOf
<1>5. CASE Iv(x).kind = ForceReg
  <2>1. loc[x] # Unassigned /\ ~InASlot(x)
    BY SMTT(20), <1>1, <1>2, PlaceFields, Typed DEF InASlot
  <2>2. InItsRegister(x)
    BY <1>2, <2>1 DEF CInv, Places
  <2>3. Iv(x).preg = r
    BY <1>2, <1>5, <2>2, PlaceFields DEF InItsRegister, MayUse
  <2>4. /\ Iv(x).start # Iv(cur).start
        /\ Iv(x).end <= Iv(cur).start \/ Iv(cur).end <= Iv(x).start
        /\ Iv(cur).start <= Iv(cur).end
    BY <1>2, <1>5, <2>3, Typed DEF WellFormed, Iv
  <2> QED  BY <1>2, <1>3, <2>4, Typed
<1> QED  BY <1>2, <1>4, <1>5 DEF ForcedOutsideScratch

(* A forced interval is only counted where there is room for it. *)
LEMMA RoomForForced ==
  ASSUME CInv, cur \in LRegs, phase = "scan", Iv(cur).kind = ForceReg,
         ForcedOutsideScratch, active # <<>> => ~Expired(Head(active)), U # {}
  PROVE  UsedCount(Iv(cur).class) < Len(Scratch[Iv(cur).class])
<1> DEFINE c == Iv(cur).class
<1>1. cur \in Pending /\ cur \in prog.roots /\ cur \notin A
  BY Typed, Separate DEF Pending, CInv, Members
<1>2. CountHasRoom(cur)
  BY <1>1 DEF ForcedOutsideScratch, Free
<1>3. ~\A y \in prog.roots \ {cur} : Iv(y).start < Iv(cur).start
  <2>1. PICK y \in U : TRUE
    OBVIOUS
  <2>2. y \in prog.roots /\ y # cur /\ Iv(cur).start <= Iv(y).start /\ y \in LRegs
    BY <2>1, Typed DEF CInv, Members, Pending, IInv, Shape, InOrder
  <2> QED  BY <2>2, Typed
<1>4. Cardinality(LiveWhereBegins(cur)) < Len(Scratch[c])
  BY <1>2, <1>3 DEF CountHasRoom
<1>5. ActiveIn(c) \subseteq LiveWhereBegins(cur)
  <2> SUFFICES ASSUME NEW x \in A, Iv(x).class = c  PROVE x \in LiveWhereBegins(cur)
    BY DEF ActiveIn
  <2>1. x \in prog.roots /\ x # cur /\ Iv(x).start <= Iv(cur).start /\ Iv(cur).start < Iv(x).end
    BY <1>1, NotExpired DEF CInv, Members, Started
  <2> QED  BY <2>1 DEF LiveWhereBegins
<1>6. IsFiniteSet(LiveWhereBegins(cur))
  <2>1. LiveWhereBegins(cur) \subseteq LRegs
    BY Typed, ProgramTypes DEF LiveWhereBegins
  <2> QED  BY <2>1, FiniteLRegs
<1>7. Cardinality(ActiveIn(c)) <= Cardinality(LiveWhereBegins(cur))
  BY <1>5, <1>6, FS_Subset
<1>8. /\ Cardinality(LiveWhereBegins(cur)) \in Nat /\ UsedCount(c) = Cardinality(ActiveIn(c))
      /\ UsedCount(c) \in Nat
  BY <1>6, FS_CardinalityType, CountActive
<1>9. Len(Scratch[c]) \in Nat
  BY Typed, AllocAssumption
<1> QED  BY ONLY <1>4, <1>7, <1>8, <1>9

-----------------------------------------------------------------------------
(*                        No step gives up                                 *)

LEMMA NeverGivesUp ==
  ASSUME CInv, WithinBudget, ForcedOutsideScratch
  PROVE  ~GiveUp
<1> SUFFICES ASSUME GiveUp  PROVE FALSE
  OBVIOUS
<1>1. /\ phase = "scan" /\ cur \in LRegs /\ cur \in Pending /\ cur \in prog.roots
      /\ active # <<>> => ~Expired(Head(active))
      /\ Iv(cur).class \in Classes
  <2>1. phase = "scan" /\ cur # None /\ (active # <<>> => ~Expired(Head(active)))
    BY DEF GiveUp, AssertForcedFree, AssertAnyRegFound, AssertCountInBudget, FailNoReg, Placing
  <2> QED  BY <2>1, Typed DEF Pending, CInv, Members
<1>2. Iv(cur).kind \in Free \cup {ForceReg}
  BY <1>1 DEF ForcedOutsideScratch
<1>3. UsedCount(Iv(cur).class) <= Len(Scratch[Iv(cur).class])
  BY <1>1 DEF WithinBudget
<1>4. UsedCount(Iv(cur).class) \in Nat /\ Len(Scratch[Iv(cur).class]) \in Nat
  BY <1>1, CountActive, AllocAssumption
<1>5. CASE AssertForcedFree
  BY <1>1, <1>5, ForcedFree DEF AssertForcedFree, Placing
<1>6. CASE AssertAnyRegFound
  BY <1>2, <1>6 DEF AssertAnyRegFound, Placing, Free
<1>7. CASE AssertCountInBudget
  BY <1>3, <1>4, <1>7 DEF AssertCountInBudget, OverBudget
<1>8. CASE FailNoReg
  <2>1. UsedCount(Iv(cur).class) < Len(Scratch[Iv(cur).class])
    BY <1>3, <1>4, <1>8 DEF FailNoReg, OutOfRegs
  <2>2. PICK k \in DOMAIN Scratch[Iv(cur).class] : rmap[Scratch[Iv(cur).class][k]] = None
    BY <1>1, <2>1, ScratchLeft
  <2>3. Scratch[Iv(cur).class][k] \in Banned
    BY <1>8, <2>2 DEF FailNoReg, NoNextReg, Available
  <2>4. PICK j \in DOMAIN unhandled : Iv(unhandled[j]).kind = ForceReg
                                      /\ Iv(unhandled[j]).preg = Scratch[Iv(cur).class][k]
    BY <2>3 DEF Banned, Ahead
  <2>5. unhandled[j] \in prog.roots
    BY <2>4, Typed DEF CInv, Members, Pending, U, Range
  <2>6. Iv(unhandled[j]).preg \notin Range(Scratch[Iv(cur).class])
    BY <1>1, <2>4, <2>5 DEF ForcedOutsideScratch, Free
  <2> QED  BY <2>2, <2>4, <2>6 DEF Range
<1> QED  BY <1>5, <1>6, <1>7, <1>8 DEF GiveUp

-----------------------------------------------------------------------------
(*                     The count stays within the budget                   *)

LEMMA InitBudget == Init => WithinBudget
<1> SUFFICES ASSUME Init  PROVE \A c \in Classes : UsedCount(c) <= Len(Scratch[c])
  BY DEF WithinBudget
<1>1. CInv /\ A = {}
  BY InitColors DEF Init, A, Range
<1> SUFFICES ASSUME NEW c \in Classes  PROVE UsedCount(c) <= Len(Scratch[c])
  OBVIOUS
<1>2. UsedCount(c) = 0
  BY <1>1, CountActive, FS_EmptySet DEF ActiveIn
<1>3. Len(Scratch[c]) \in Nat
  BY AllocAssumption
<1> QED  BY <1>2, <1>3

(* Steps after which the active values are among those there were before. *)
LEMMA FewerActive ==
  ASSUME CInv, CInv', WithinBudget, prog' = prog, A' \subseteq A,
         (phase' = "build" \/ (phase' = "scan" /\ Pending' # {}))
           => (phase = "build" \/ (phase = "scan" /\ Pending # {}))
  PROVE  WithinBudget'
<1>1. \A c : ActiveIn(c)' \subseteq ActiveIn(c)
  BY DEF ActiveIn, Iv
<1>2. \A c : Cardinality(ActiveIn(c)') <= Cardinality(ActiveIn(c))
  BY <1>1, CountActive, FS_Subset
<1>3. \A c : /\ UsedCount(c) \in Nat /\ UsedCount(c) = Cardinality(ActiveIn(c))
             /\ UsedCount(c)' \in Nat /\ UsedCount(c)' = Cardinality(ActiveIn(c)')
  BY CountActive, CountNext DEF Counted
<1>4. \A c \in Classes : Len(Scratch[c]) \in Nat
  BY AllocAssumption
<1> QED  BY <1>2, <1>3, <1>4 DEF WithinBudget

LEMMA OccupyBudget ==
  ASSUME CInv, CInv', WithinBudget, NEW r \in PRegs, Occupies(r),
         U # {} => UsedCount(Iv(cur).class) < Len(Scratch[Iv(cur).class])
  PROVE  WithinBudget'
<1>1. /\ cur \in LRegs /\ cur \in Pending /\ cur \notin A /\ A' = A \cup {cur} /\ Pending' = U
      /\ prog' = prog /\ phase = "scan" /\ phase' = "scan"
  BY OccupyEffects DEF Occupies
<1> SUFFICES ASSUME U # {}, NEW c \in Classes  PROVE UsedCount(c)' <= Len(Scratch[c])
  BY <1>1 DEF WithinBudget
<1>2. /\ UsedCount(c) \in Nat /\ UsedCount(c) = Cardinality(ActiveIn(c)) /\ IsFiniteSet(ActiveIn(c))
      /\ UsedCount(c)' \in Nat /\ UsedCount(c)' = Cardinality(ActiveIn(c)')
      /\ Len(Scratch[c]) \in Nat /\ UsedCount(c) <= Len(Scratch[c])
  BY <1>1, CountActive, CountNext, AllocAssumption DEF WithinBudget, Counted
<1>3. CASE c = Iv(cur).class
  <2>1. ActiveIn(c)' = ActiveIn(c) \cup {cur}
    BY <1>1, <1>3 DEF ActiveIn, Iv
  <2>2. Cardinality(ActiveIn(c) \cup {cur}) <= Cardinality(ActiveIn(c)) + 1
    <3>1. Cardinality(ActiveIn(c) \cup {cur})
            = IF cur \in ActiveIn(c) THEN Cardinality(ActiveIn(c)) ELSE Cardinality(ActiveIn(c)) + 1
      BY ONLY <1>2, FS_AddElement
    <3> QED  BY <1>2, <3>1
  <2>3. UsedCount(c) < Len(Scratch[c])
    BY <1>3
  <2> QED  BY <1>2, <2>1, <2>2, <2>3
<1>4. CASE c # Iv(cur).class
  <2>1. ActiveIn(c)' = ActiveIn(c)
    BY <1>1, <1>4 DEF ActiveIn, Iv
  <2> QED  BY <1>2, <2>1
<1> QED  BY <1>3, <1>4

LEMMA StealBudget ==
  ASSUME CInv, CInv', WithinBudget, StealReg
  PROVE  WithinBudget'
<1>a. PICK from \in LRegs : Steals(from)
  BY StealStep
<1>1. /\ cur \in Pending /\ cur \notin A /\ from \in A /\ A' = (A \ {from}) \cup {cur}
      /\ prog' = prog /\ phase = "scan" /\ Iv(from).class = Iv(cur).class
  BY <1>a, StealEffects DEF Stealable
<1> SUFFICES ASSUME NEW c \in Classes  PROVE UsedCount(c)' <= Len(Scratch[c])
  BY DEF WithinBudget
<1>2. /\ UsedCount(c) \in Nat /\ UsedCount(c) = Cardinality(ActiveIn(c)) /\ IsFiniteSet(ActiveIn(c))
      /\ UsedCount(c)' \in Nat /\ UsedCount(c)' = Cardinality(ActiveIn(c)')
      /\ UsedCount(c) <= Len(Scratch[c])
  BY <1>1, CountActive, CountNext DEF WithinBudget, Counted
<1>3. CASE c = Iv(cur).class
  <2> DEFINE rest == ActiveIn(c) \ {from}
  <2>1. from \in ActiveIn(c) /\ cur \notin rest /\ ActiveIn(c)' = rest \cup {cur}
    BY <1>1, <1>3 DEF ActiveIn, Iv
  <2>2. IsFiniteSet(rest) /\ Cardinality(rest) = Cardinality(ActiveIn(c)) - 1
    BY <1>2, <2>1, FS_RemoveElement
  <2> HIDE DEF rest
  <2>3. Cardinality(rest \cup {cur}) = Cardinality(rest) + 1
    BY <2>1, <2>2, FS_AddElement
  <2> QED  BY <1>2, <2>1, <2>2, <2>3
<1>4. CASE c # Iv(cur).class
  <2>1. ActiveIn(c)' = ActiveIn(c)
    BY <1>1, <1>4 DEF ActiveIn, Iv
  <2> QED  BY <1>2, <2>1
<1> QED  BY <1>3, <1>4

LEMMA PlaceBudget ==
  ASSUME CInv, CInv', WithinBudget, ForcedOutsideScratch, Place
  PROVE  WithinBudget'
<1>1. /\ phase = "scan" /\ cur \in LRegs /\ cur \in prog.roots /\ cur \in Pending
      /\ active # <<>> => ~Expired(Head(active))
      /\ Iv(cur).class \in Classes
  <2>1. phase = "scan" /\ cur # None /\ (active # <<>> => ~Expired(Head(active)))
    BY DEF Place, PlaceForced, PlaceForcedAny, PlaceRegOrSpill, PlaceInFreeReg, SpillLongest,
           StealReg, Placing
  <2> QED  BY <2>1, Typed DEF Pending, CInv, Members
<1>2. CASE StealReg
  BY <1>2, StealBudget
<1>3. CASE Spills
  BY <1>1, <1>3, SpillEffects, FewerActive DEF Spills
<1>4. ASSUME NEW r \in PRegs, Occupies(r), ~StealReg, ~Spills
      PROVE  WithinBudget'
  <2>1. CASE Iv(cur).kind = ForceReg
    BY <1>1, <1>4, <2>1, RoomForForced, OccupyBudget
  <2>2. CASE Iv(cur).kind \in Free
    <3>1. PlaceInFreeReg
      BY <1>1, <1>4, <2>2 DEF Place, PlaceForced, PlaceForcedAny, PlaceRegOrSpill, SpillLongest,
                              Placing, Free, Spills
    <3>2. UsedCount(Iv(cur).class) < Len(Scratch[Iv(cur).class])
      <4>1. UsedCount(Iv(cur).class) \in Nat /\ Len(Scratch[Iv(cur).class]) \in Nat
        BY <1>1, CountActive, AllocAssumption
      <4> QED  BY <3>1, <4>1 DEF PlaceInFreeReg, OutOfRegs, OverBudget
    <3> QED  BY <1>4, <3>2, OccupyBudget
  <2> QED  BY <1>1, <2>1, <2>2 DEF ForcedOutsideScratch
<1> QED  BY <1>2, <1>3, <1>4, PlaceForms

LEMMA NextSpills == SInv /\ [Next]_vars => SInv'
<1> SUFFICES ASSUME SInv, [Next]_vars  PROVE SInv'
  OBVIOUS
<1>1. CInv /\ CInv' /\ prog' = prog
  BY NextColors DEF SInv, vars, Next, Step, Returned, Build, Scan, TakeNext, ExpireOld, DrainActive,
     StartCallSites, Place, PlaceForced, PlaceForcedAny, PlaceRegOrSpill, PlaceInFreeReg, SpillLongest,
     StealReg, Occupy, SpillCurrent, GiveUp, AssertForcedFree, AssertAnyRegFound, AssertCountInBudget,
     FailNoReg, Stop, CallSite, Finish
<1>2. ForcedOutsideScratch' => ForcedOutsideScratch
  BY <1>1 DEF ForcedOutsideScratch, CountHasRoom, LiveWhereBegins, Iv
<1> SUFFICES ASSUME ForcedOutsideScratch
             PROVE  phase' \notin {"failed", "aborted"} /\ WithinBudget'
  BY <1>1, <1>2 DEF SInv
<1>3. phase \notin {"failed", "aborted"} /\ WithinBudget
  BY DEF SInv
<1>4. CASE Place
  <2>1. phase' = "scan"
    BY <1>4 DEF Place, PlaceForced, PlaceForcedAny, PlaceRegOrSpill, PlaceInFreeReg, SpillLongest,
                StealReg, Placing, Occupy, SpillCurrent
  <2> QED  BY <1>1, <1>3, <1>4, <2>1, PlaceBudget
<1>5. CASE GiveUp
  BY <1>1, <1>3, <1>5, NeverGivesUp
<1>6. CASE TakeNext \/ ExpireOld \/ DrainActive \/ Build
  <2>1. phase = "build" \/ phase = "scan"
    BY <1>6 DEF TakeNext, ExpireOld, DrainActive, Build
  <2>2. phase' \in {"build", "scan"}
    BY <1>6 DEF TakeNext, ExpireOld, DrainActive, Build
  <2>3. A' \subseteq A
    BY <1>1, <1>6, RetireEffects DEF TakeNext, ExpireOld, DrainActive, Build, A
  <2>4. phase = "scan" => phase' = "scan" /\ Pending' = Pending
    <3>1. CASE TakeNext
      <4>1. unhandled \in Seq(LRegs) /\ unhandled # <<>> /\ unhandled' = Tail(unhandled)
            /\ cur' = Head(unhandled) /\ cur = None /\ phase' = phase
        BY <1>1, <3>1, Typed DEF TakeNext
      <4>2. cur' \in LRegs /\ Range(unhandled) = Range(unhandled') \cup {cur'}
        BY ONLY <4>1, HeadTail
      <4> QED  BY <1>1, <4>1, <4>2, Typed DEF Pending, U
    <3>2. CASE ExpireOld \/ DrainActive
      BY <3>2 DEF ExpireOld, DrainActive, Pending, U
    <3>3. CASE Build
      BY <3>3 DEF Build
    <3> QED  BY <1>6, <3>1, <3>2, <3>3
  <2> QED  BY <1>1, <1>3, <2>1, <2>2, <2>3, <2>4, FewerActive
<1>7. CASE StartCallSites \/ CallSite \/ Finish
  <2>1. phase' \in {"calls", "done"}
    BY <1>7 DEF StartCallSites, CallSite, Finish
  <2> QED  BY <2>1 DEF WithinBudget
<1>8. CASE UNCHANGED vars
  <2>1. /\ phase' = phase /\ A' = A /\ Pending' = Pending
    BY <1>8 DEF vars, lists, A, Pending, U
  <2> QED  BY <1>1, <1>3, <2>1, FewerActive
<1> QED  BY <1>4, <1>5, <1>6, <1>7, <1>8 DEF Next, Step, Scan, Returned

(* When the only forced registers are outside the scratch set and are counted
   where there is room, the allocator neither runs out of registers nor trips
   an assert, however many values are live: it spills. *)
THEOREM SpillsNotFails == Spec => []SpillsInsteadOfFailing
<1>1. Init => SInv
  BY InitColors, InitBudget DEF SInv, Init
<1>2. SInv => SpillsInsteadOfFailing
  BY DEF SInv, SpillsInsteadOfFailing
<1> QED  BY <1>1, <1>2, NextSpills, PTL DEF Spec

=============================================================================

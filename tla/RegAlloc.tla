------------------------------ MODULE RegAlloc ------------------------------
(***************************************************************************)
(* The linear-scan register allocator of the x64 backend                   *)
(* (X64_linear_scan_reg_alloc in src/x64_gen/reg_alloc.c).  It gives every *)
(* virtual (LIR) register of one procedure a physical register or a stack  *)
(* slot for the whole of its live interval, then computes the registers    *)
(* each call site must save.                                               *)
(*                                                                         *)
(* The procedure is sequential: an action is one iteration of one of its   *)
(* loops, and `phase' says which loop it is in.  A failed assert() aborts  *)
(* the compiler (the builds of build_linux.sh and README.md keep asserts). *)
(***************************************************************************)
EXTENDS Integers, Sequences, FiniteSets, IntervalList

CONSTANTS
  NumLRegs,    (* number of virtual registers, builder->num_regs           *)
  PRegs,       (* physical registers                                       *)
  Classes,     (* register classes: integer and float                      *)
  ClassOf,     (* x64_reg_classes: the class of a physical register        *)
  Scratch,     (* scratch_regs: per class, the registers to allocate from,
                  in order of preference                                   *)
  CallerSaved, (* the registers a call may clobber                         *)
  Programs,    (* the procedures to allocate for                           *)
  InitOffset,  (* bytes of the frame already taken by locals               *)
  None         (* no register / no owner                                   *)

LRegs == 0..(NumLRegs - 1)

(***************************************************************************)
(* ra_ctrl_kind: how an interval is constrained.                           *)
(***************************************************************************)
ForceReg    == "force_reg"          (* the register `preg'                 *)
ForceAnyReg == "force_any_reg"      (* some register of `mask'             *)
RegOrSpill  == "force_reg_or_spill" (* a register of `mask', or the stack  *)
HintLIR     == "hint_lir_reg"       (* preferably where `hint' is          *)
HintPhys    == "hint_phys_reg"      (* preferably `preg'                   *)
NoControl   == "none"

Kinds == {ForceReg, ForceAnyReg, RegOrSpill, HintLIR, HintPhys, NoControl}
Free  == {HintLIR, HintPhys, NoControl}  (* the kinds that force nothing   *)

Interval == [start : Int, end : Int, class : Classes, kind : Kinds,
             preg : PRegs, mask : SUBSET PRegs, hint : LRegs]

(***************************************************************************)
(* What liveness analysis hands over: an interval per virtual register,    *)
(* the registers that are the root of their alias class (only those are    *)
(* allocated), and the instruction numbers of the call sites.              *)
(***************************************************************************)
Program == [iv : [LRegs -> Interval], roots : SUBSET LRegs, sites : Seq(Int)]

ASSUME AllocAssumption ==
  /\ NumLRegs \in Nat \ {0}
  /\ None \notin PRegs /\ None \notin LRegs
  /\ ClassOf \in [PRegs -> Classes]
  /\ Scratch \in [Classes -> Seq(PRegs)]
  /\ CallerSaved \subseteq PRegs
  /\ InitOffset \in Nat
  /\ Programs \subseteq Program

(***************************************************************************)
(* regs.c lists each register once, under its class: the assert at         *)
(* reg_alloc.c:73.                                                         *)
(***************************************************************************)
ASSUME ScratchAssumption ==
  \A c \in Classes : \A j, k \in DOMAIN Scratch[c] :
    /\ ClassOf[Scratch[c][k]] = c
    /\ j # k => Scratch[c][j] # Scratch[c][k]

(***************************************************************************)
(* What ir_to_xir.c and livevar.c see to.  An interval does not end before *)
(* it starts.  A register an interval is forced into is of its class       *)
(* (XIR_def_phys_reg), a hint leads to one (the assert at reg_alloc.c:51), *)
(* two forced uses of one register neither overlap nor start together (the *)
(* value is copied out of it in between: ForcedApart of IrToXir), and the  *)
(* call sites are in the order of the instructions.                        *)
(***************************************************************************)
WellFormed(p) ==
  /\ \A x \in LRegs :
       /\ p.iv[x].start <= p.iv[x].end
       /\ p.iv[x].kind \in {ForceReg, HintPhys} => ClassOf[p.iv[x].preg] = p.iv[x].class
       /\ p.iv[x].kind = HintLIR => p.iv[p.iv[x].hint].class = p.iv[x].class
  /\ \A x, y \in LRegs :
       (x # y /\ p.iv[x].kind = ForceReg /\ p.iv[y].kind = ForceReg /\ p.iv[x].preg = p.iv[y].preg)
         => /\ p.iv[x].start # p.iv[y].start
            /\ p.iv[x].end <= p.iv[y].start \/ p.iv[y].end <= p.iv[x].start
  /\ \A i, j \in DOMAIN p.sites : i < j => p.sites[i] <= p.sites[j]

ASSUME ProgramAssumption == \A p \in Programs : WellFormed(p)

VARIABLES
  prog,       (* the procedure being allocated                             *)
  phase,      (* build, scan, calls, or how it ended                       *)
  nxt,        (* registers still to be put in `unhandled'                  *)
  unhandled,  (* list sorted by start                                      *)
  active,     (* list sorted by end: intervals holding a register          *)
  handled,    (* list sorted by start: expired and spilled intervals       *)
  cur,        (* the interval being placed, or None                        *)
  rmap,       (* the virtual register in each physical one, or None        *)
  loc,        (* the location given to each virtual register               *)
  stackOff,   (* bytes of stack frame in use                               *)
  usedCallee, (* callee-saved registers the procedure will have to save    *)
  site,       (* index of the next call site                               *)
  it,         (* position of the call-site scan in `handled'               *)
  saveMask    (* per processed call site, the registers to save            *)

lists   == <<unhandled, active, handled>>
results == <<rmap, loc, stackOff, usedCallee>>
calls   == <<site, it, saveMask>>
vars == <<prog, phase, nxt, lists, cur, results, calls>>

-----------------------------------------------------------------------------
X64_MAX_INT_REG_SIZE == 8
X64_STACK_ALIGN == 16

AlignUp(n, a) == ((n + a - 1) \div a) * a

Iv(x)   == prog.iv[x]
StartOf == [x \in LRegs |-> Iv(x).start]
EndOf   == [x \in LRegs |-> Iv(x).end]

Unassigned == [kind |-> "unassigned", reg |-> None, off |-> 0]
InReg(r)   == [kind |-> "reg", reg |-> r, off |-> 0]
OnStack(n) == [kind |-> "stack", reg |-> None, off |-> -n]

Locations == [kind : {"unassigned", "reg", "stack"},
              reg : PRegs \cup {None}, off : Int]

Terminal == {"done", "failed", "aborted"}

(* x64_out_of_regs's count of the active intervals of a class. *)
UsedCount(c) == Cardinality({k \in DOMAIN active : Iv(active[k]).class = c})

(* Where the next stack slot ends, in bytes below the frame pointer. *)
NewSlot_HalfSize == stackOff + X64_MAX_INT_REG_SIZE \div 2
NewSlot == stackOff + X64_MAX_INT_REG_SIZE

Init ==
  /\ prog \in Programs
  /\ phase = "build"
  /\ nxt = NumLRegs
  /\ unhandled = <<>> /\ active = <<>> /\ handled = <<>>
  /\ cur = None
  /\ rmap = [r \in PRegs |-> None]
  /\ loc = [x \in LRegs |-> Unassigned]
  /\ stackOff = InitOffset
  /\ usedCallee = {}
  /\ site = 1 /\ it = 1 /\ saveMask = <<>>

-----------------------------------------------------------------------------
IsRoot(x) == x \in prog.roots

(* The loop that fills `unhandled', from the last register to the first,
   skipping registers that are aliased to another. *)
Build ==
  /\ phase = "build"
  /\ nxt' = nxt - 1
  /\ phase' = IF nxt = 1 THEN "scan" ELSE "build"
  /\ IF IsRoot(nxt - 1)
     THEN AddBy(StartOf, unhandled, nxt - 1, unhandled')
     ELSE UNCHANGED unhandled
  /\ UNCHANGED <<prog, active, handled, cur, results, calls>>

(* The head of the scan loop: take the interval that starts first. *)
TakeNext ==
  /\ phase = "scan" /\ cur = None
  /\ unhandled # <<>>
  /\ cur' = Head(unhandled)
  /\ unhandled' = Tail(unhandled)
  /\ UNCHANGED <<prog, phase, nxt, active, handled, results, calls>>

Expired_WhileCurrentLives(a) == Iv(a).end <= Iv(cur).end
Expired(a) == Iv(a).end <= Iv(cur).start

(* An active interval that ended at or before the current one's start
   gives its register back. *)
ExpireOld ==
  /\ phase = "scan" /\ cur # None
  /\ active # <<>>
  /\ LET a == Head(active) IN
       /\ Expired(a)
       /\ rmap' = [rmap EXCEPT ![loc[a].reg] = None]
       /\ AddBy(StartOf, handled, a, handled')
  /\ active' = Tail(active)
  /\ UNCHANGED <<prog, phase, nxt, unhandled, cur, loc, stackOff, usedCallee, calls>>

(* The expiry loop has stopped: the current interval is to be placed. *)
Placing(kinds) ==
  /\ phase = "scan" /\ cur # None
  /\ active # <<>> => ~Expired(Head(active))
  /\ Iv(cur).kind \in kinds

-----------------------------------------------------------------------------
(* Registers of class c that X64_next_reg may pick, as indices of the
   scratch array. *)
Available(c, banned) ==
  {k \in DOMAIN Scratch[c] : rmap[Scratch[c][k]] = None /\ Scratch[c][k] \notin banned}

HintUsable(hint, banned) ==
  hint # None /\ hint \notin banned /\ rmap[hint] = None

(* X64_next_reg returns r: the hint when it can be used, else the first
   available scratch register. *)
IsNextReg(c, banned, hint, r) ==
  \/ HintUsable(hint, banned) /\ r = hint
  \/ /\ ~HintUsable(hint, banned)
     /\ \E k \in Available(c, banned) :
          /\ \A j \in Available(c, banned) : k <= j
          /\ r = Scratch[c][k]

(* X64_next_reg returns X64_REG_COUNT. *)
NoNextReg(c, banned, hint) ==
  ~HintUsable(hint, banned) /\ Available(c, banned) = {}

(* X64_alloc_reg notes a callee-saved register for the prologue. *)
Recorded_CallerSaved(r) == IF r \in CallerSaved THEN usedCallee \cup {r} ELSE usedCallee
Recorded(r) == IF r \in CallerSaved THEN usedCallee ELSE usedCallee \cup {r}

Owned(r) == [rmap EXCEPT ![r] = cur]

(* The current interval takes register r and becomes active. *)
Occupy(r) ==
  /\ rmap' = Owned(r)
  /\ usedCallee' = Recorded(r)
  /\ loc' = [loc EXCEPT ![cur] = InReg(r)]
  /\ AddBy(EndOf, active, cur, active')
  /\ cur' = None
  /\ UNCHANGED <<prog, phase, nxt, unhandled, handled, stackOff, calls>>

(* The current interval lives in a fresh stack slot. *)
SpillCurrent ==
  /\ stackOff' = NewSlot
  /\ loc' = [loc EXCEPT ![cur] = OnStack(stackOff')]
  /\ AddBy(StartOf, handled, cur, handled')
  /\ cur' = None
  /\ UNCHANGED <<prog, phase, nxt, unhandled, active, rmap, usedCallee, calls>>

Stop(how) ==
  /\ phase' = how
  /\ UNCHANGED <<prog, nxt, lists, cur, results, calls>>

NotIn(mask) == PRegs \ mask

(* FORCE_REG: the register must be free, or the assert fails. *)
PlaceForced ==
  /\ Placing({ForceReg})
  /\ rmap[Iv(cur).preg] = None
  /\ Occupy(Iv(cur).preg)

AssertForcedFree ==
  /\ Placing({ForceReg})
  /\ rmap[Iv(cur).preg] # None
  /\ Stop("aborted")

(* FORCE_ANY_REG: some register of the mask must be free, or the assert
   fails. *)
PlaceForcedAny ==
  /\ Placing({ForceAnyReg})
  /\ \E r \in PRegs : IsNextReg(Iv(cur).class, NotIn(Iv(cur).mask), None, r) /\ Occupy(r)

AssertAnyRegFound ==
  /\ Placing({ForceAnyReg})
  /\ NoNextReg(Iv(cur).class, NotIn(Iv(cur).mask), None)
  /\ Stop("aborted")

(* FORCE_REG_OR_SPILL: a register of the mask when one is free, else the
   stack. *)
PlaceRegOrSpill ==
  /\ Placing({RegOrSpill})
  /\ \/ \E r \in PRegs :
          IsNextReg(Iv(cur).class, NotIn(Iv(cur).mask), None, r) /\ Occupy(r)
     \/ /\ NoNextReg(Iv(cur).class, NotIn(Iv(cur).mask), None)
        /\ SpillCurrent

-----------------------------------------------------------------------------
(* The unhandled intervals scanned for forced registers: up to the first
   that starts at or after the end of the current one. *)
Ahead == {k \in DOMAIN unhandled : \A j \in 1..k : Iv(unhandled[j]).start < Iv(cur).end}

(* Registers that intervals ahead are forced into. *)
Banned == {Iv(unhandled[k]).preg : k \in {j \in Ahead : Iv(unhandled[j]).kind = ForceReg}}

OutOfRegs_Late == UsedCount(Iv(cur).class) = Len(Scratch[Iv(cur).class]) + 1
OutOfRegs  == UsedCount(Iv(cur).class) = Len(Scratch[Iv(cur).class])
OverBudget == UsedCount(Iv(cur).class) > Len(Scratch[Iv(cur).class])

(* The register hint of the current interval. *)
Hint ==
  CASE Iv(cur).kind = HintPhys -> Iv(cur).preg
    [] Iv(cur).kind = HintLIR  -> loc[Iv(cur).hint].reg
    [] OTHER -> None

(* assert(num_used_regs <= num_total_regs) in X64_out_of_regs. *)
AssertCountInBudget ==
  /\ Placing(Free)
  /\ OverBudget
  /\ Stop("aborted")

PlaceInFreeReg ==
  /\ Placing(Free)
  /\ ~OutOfRegs /\ ~OverBudget
  /\ \E r \in PRegs : IsNextReg(Iv(cur).class, Banned, Hint, r) /\ Occupy(r)

(* Every register that is not banned is taken: allocation fails. *)
FailNoReg ==
  /\ Placing(Free)
  /\ ~OutOfRegs /\ ~OverBudget
  /\ NoNextReg(Iv(cur).class, Banned, Hint)
  /\ Stop("failed")

(* Active intervals whose register could go to the current one. *)
Stealable_Banned(a) ==
  Iv(a).kind \notin {ForceReg, ForceAnyReg} /\ Iv(a).class = Iv(cur).class

Stealable(a) ==
  /\ Iv(a).kind \notin {ForceReg, ForceAnyReg}
  /\ Iv(a).class = Iv(cur).class
  /\ ~(loc[a].kind = "reg" /\ loc[a].reg \in Banned)

(* k is the position of the last (latest-ending) stealable interval. *)
IsVictim(k) ==
  /\ Stealable(active[k])
  /\ \A j \in (k + 1)..Len(active) : ~Stealable(active[j])

(* Out of registers and every active interval must stay where it is, or
   none ends later than the current one: spill the current one. *)
SpillLongest ==
  /\ Placing(Free)
  /\ OutOfRegs
  /\ \A k \in DOMAIN active : IsVictim(k) => Iv(active[k]).end <= Iv(cur).end
  /\ SpillCurrent

(* Out of registers and the victim ends later: it goes to the stack for
   the whole of its interval and the current one takes its register. *)
StealReg ==
  /\ Placing(Free)
  /\ OutOfRegs
  /\ \E k \in DOMAIN active :
       LET from == active[k] IN
       /\ IsVictim(k)
       /\ Iv(from).end > Iv(cur).end
       /\ rmap' = Owned(loc[from].reg)
       /\ stackOff' = NewSlot
       /\ loc' = [loc EXCEPT ![cur] = InReg(loc[from].reg), ![from] = OnStack(stackOff')]
       /\ AddBy(EndOf, RemoveAt(active, k), cur, active')
       /\ AddBy(StartOf, handled, from, handled')
  /\ cur' = None
  /\ UNCHANGED <<prog, phase, nxt, unhandled, usedCallee, calls>>

-----------------------------------------------------------------------------
(* After the scan the intervals still active join `handled'. *)
DrainActive ==
  /\ phase = "scan" /\ cur = None
  /\ unhandled = <<>> /\ active # <<>>
  /\ AddBy(StartOf, handled, Head(active), handled')
  /\ active' = Tail(active)
  /\ UNCHANGED <<prog, phase, nxt, unhandled, cur, results, calls>>

StartCallSites ==
  /\ phase = "scan" /\ cur = None
  /\ unhandled = <<>> /\ active = <<>>
  /\ phase' = "calls"
  /\ UNCHANGED <<prog, nxt, lists, cur, results, calls>>

(* handled[k] is live across instruction ino in a caller-saved register. *)
LiveAcross_EndingThere(k, ino) ==
  LET x == handled[k] IN
  Iv(x).start < ino /\ ino <= Iv(x).end /\ loc[x].reg \in CallerSaved

LiveAcross(k, ino) ==
  LET x == handled[k] IN
  /\ Iv(x).start < ino /\ ino < Iv(x).end
  /\ loc[x].kind = "reg" /\ loc[x].reg \in CallerSaved

StartsBefore(k, ino) == k <= Len(handled) /\ Iv(handled[k]).start < ino

(* One call site: move the shared position to the first interval that is
   live across it (or that starts after it), then collect from there. *)
CallSite ==
  /\ phase = "calls"
  /\ site <= Len(prog.sites)
  /\ LET ino == prog.sites[site] IN
     \E k \in it..(Len(handled) + 1) :
       /\ \A j \in it..(k - 1) : StartsBefore(j, ino) /\ ~LiveAcross(j, ino)
       /\ StartsBefore(k, ino) => LiveAcross(k, ino)
       /\ it' = k
       /\ saveMask' = Append(saveMask,
            {loc[handled[m]].reg : m \in
               {n \in k..Len(handled) : /\ \A j \in k..n : StartsBefore(j, ino)
                                        /\ LiveAcross(n, ino)}})
  /\ site' = site + 1
  /\ UNCHANGED <<prog, phase, nxt, lists, cur, results>>

Finish ==
  /\ phase = "calls"
  /\ site > Len(prog.sites)
  /\ stackOff' = AlignUp(stackOff, X64_STACK_ALIGN)
  /\ phase' = "done"
  /\ UNCHANGED <<prog, nxt, lists, cur, rmap, loc, usedCallee, calls>>

(* The allocator has returned, or the compiler has exited. *)
Returned == phase \in Terminal /\ UNCHANGED vars

Scan_NoDrain == TakeNext \/ ExpireOld \/ StartCallSites
Scan == TakeNext \/ ExpireOld \/ DrainActive \/ StartCallSites
Place == PlaceForced \/ PlaceForcedAny \/ PlaceRegOrSpill \/ PlaceInFreeReg
           \/ SpillLongest \/ StealReg
GiveUp == AssertForcedFree \/ AssertAnyRegFound \/ AssertCountInBudget \/ FailNoReg

Step == Build \/ Scan \/ Place \/ GiveUp \/ CallSite \/ Finish
Next == Step \/ Returned

Spec == Init /\ [][Next]_vars
(* The procedure is one thread of straight-line loops: it keeps running. *)
FairSpec == Spec /\ WF_vars(Step)

-----------------------------------------------------------------------------
(***************************************************************************)
(*                              Properties                                 *)
(***************************************************************************)

TypeOK ==
  /\ prog \in Program
  /\ phase \in {"build", "scan", "calls"} \cup Terminal
  /\ nxt \in 0..NumLRegs
  /\ unhandled \in Seq(LRegs) /\ active \in Seq(LRegs) /\ handled \in Seq(LRegs)
  /\ cur \in LRegs \cup {None}
  /\ rmap \in [PRegs -> LRegs \cup {None}]
  /\ loc \in [LRegs -> Locations]
  /\ stackOff \in Nat
  /\ usedCallee \in SUBSET PRegs
  /\ site \in Nat /\ it \in Nat
  /\ saveMask \in Seq(SUBSET PRegs)

(* Two intervals overlap when some instruction needs both values. *)
Intersect(x, y) == Iv(x).start < Iv(y).end /\ Iv(y).start < Iv(x).end

RegOf(x) == loc[x].reg   (* None unless x lives in a register *)

(* Two registers whose intervals overlap are never given the same physical
   register, although a register changes hands when an interval expires
   (reg_alloc.c:213) and when it is stolen (reg_alloc.c:153). *)
NoSharedRegister ==
  \A x, y \in LRegs :
    (x # y /\ RegOf(x) # None /\ RegOf(x) = RegOf(y)) => ~Intersect(x, y)

(* An unconstrained interval that is placed never sits in a register that an
   overlapping interval still to be handled is forced into: the comment at
   reg_alloc.c:291, also when the register was stolen. *)
ForcedRegsKeptClear ==
  phase = "scan" =>
    \A k \in DOMAIN active, j \in DOMAIN unhandled :
      LET x == active[k]  y == unhandled[j] IN
      (Iv(x).kind \in Free /\ Iv(y).kind = ForceReg /\ Intersect(x, y))
        => RegOf(x) # Iv(y).preg

(* When the allocator succeeds, every root interval has a location and every
   call site saves exactly the caller-saved registers that hold a value live
   across it, although one scan position is shared by all the call sites
   (reg_alloc.c:423). *)
CallSitesSaveLive ==
  phase = "done" =>
    /\ \A x \in prog.roots : loc[x].kind # "unassigned"
    /\ \A s \in DOMAIN prog.sites :
         saveMask[s] = {RegOf(x) : x \in {y \in LRegs :
                          /\ Iv(y).start < prog.sites[s] /\ prog.sites[s] < Iv(y).end
                          /\ RegOf(y) \in CallerSaved}}

(* Every callee-saved register that some interval uses is reported, so that
   the prologue saves it: also one that only reached its user by a steal,
   which does not go through X64_alloc_reg (reg_alloc.c:35, :164). *)
CalleeSavedReported ==
  \A x \in LRegs : RegOf(x) \in (PRegs \ CallerSaved) => RegOf(x) \in usedCallee

(* The values of its class that are live where x begins. *)
LiveWhereBegins(x) ==
  {y \in prog.roots \ {x} : /\ Iv(y).class = Iv(x).class
                            /\ Iv(y).start <= Iv(x).start /\ Iv(x).start < Iv(y).end}

(* A forced interval, which is counted among the used registers though its
   own (the frame pointer) is not one to allocate from, begins where the
   count has room for it, or after all others. *)
CountHasRoom(x) ==
  \/ Cardinality(LiveWhereBegins(x)) < Len(Scratch[Iv(x).class])
  \/ \A y \in prog.roots \ {x} : Iv(y).start < Iv(x).start

(* The only forced registers are outside the scratch set, and the count of
   used registers has room for them. *)
ForcedOutsideScratch ==
  \A x \in prog.roots :
    \/ Iv(x).kind \in Free
    \/ /\ Iv(x).kind = ForceReg
       /\ \A c \in Classes : Iv(x).preg \notin Range(Scratch[c])
       /\ CountHasRoom(x)

(* The allocator then spills: it neither runs out of registers
   (reg_alloc.c:388) nor trips an assert.  (Without room the assert at
   reg_alloc.c:96 does fail.) *)
SpillsInsteadOfFailing == ForcedOutsideScratch => phase \notin {"failed", "aborted"}

(***************************************************************************)
(* The allocator implements RegColoring: a value is placed once, only      *)
(* where its constraint allows and no overlapping value is, an eviction    *)
(* (reg_alloc.c:153) moves only a live, unforced value to a slot no other  *)
(* value ever had, and success means that every root interval is placed.   *)
(***************************************************************************)
MayUse(x) ==
  CASE Iv(x).kind = ForceReg -> {Iv(x).preg}
    [] Iv(x).kind \in {ForceAnyReg, RegOrSpill} -> Iv(x).mask
    [] OTHER -> {r \in PRegs : ClassOf[r] = Iv(x).class}

Outcome ==
  CASE phase = "done" -> "placed"
    [] phase \in {"failed", "aborted"} -> "gave_up"
    [] OTHER -> "running"

Coloring == INSTANCE RegColoring WITH
  Values <- LRegs, Registers <- PRegs, NoRegister <- None,
  SlotSize <- X64_MAX_INT_REG_SIZE, LocalsEnd <- InitOffset,
  conflict <- {p \in LRegs \X LRegs : Intersect(p[1], p[2])},
  allowed <- [x \in LRegs |-> MayUse(x)],
  spillable <- {x \in LRegs : Iv(x).kind \notin {ForceReg, ForceAnyReg}},
  needed <- prog.roots,
  where <- loc,
  outcome <- Outcome

ImplementsColoring == Coloring!Spec

(* The allocator returns or aborts: the scan consumes `unhandled', and the
   expiry and call-site loops do not stall. *)
Terminates == <>(phase \in Terminal)

(* assert(state.rmap[forced_reg] == (u32)-1), reg_alloc.c:250: the register
   an interval is forced into is free when its turn comes. *)
ForcedRegisterIsFree ==
  Placing({ForceReg}) => rmap[Iv(cur).preg] = None

=============================================================================

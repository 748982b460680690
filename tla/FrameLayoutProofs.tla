------------------------- MODULE FrameLayoutProofs -------------------------
(***************************************************************************)
(* In the stack frame of any procedure, with any parameters and any nesting *)
(* of scopes, variables that can be in use at once are apart.              *)
(***************************************************************************)
EXTENDS FrameLayout, SequenceTheorems, WellFoundedInduction, TLAPS

Vars == [off : Int, type : Type, within : SUBSET Nat]
Activations == [within : SUBSET Nat, base : Nat, size : Nat, own : Seq(Type),
                kids : Seq(1..Len(proc.scopes))]

TypeOK ==
    /\ proc \in Procs
    /\ spillSize \in Nat /\ frameSize \in Nat /\ opened \in Nat
    /\ stackArg \in Nat /\ stackArg % 8 = 0 /\ stackArg >= 16
    /\ placed \in Seq(Vars)
    /\ active \in Seq(Activations)

\* Where the frame of the procedure itself starts.
Hidden == IF IsLarge(proc.ret) THEN 8 ELSE 0

\* What holds of each variable alone: at most the stack arguments above arg,
\* and no scope after the first ones.
Fits(v, hidden, arg, ids) ==
    /\ v.off % v.type.align = 0
    /\ \/ v.off >= 16 /\ v.off + v.type.size <= arg
       \/ v.off + v.type.size <= -hidden
    /\ \A x \in v.within : x < ids
EachFits == \A i \in DOMAIN placed : Fits(placed[i], Hidden, stackArg, opened)

Apart(v, w) == v.off + v.type.size <= w.off \/ w.off + w.type.size <= v.off
AllApart ==
    \A i, j \in DOMAIN placed :
        i < j /\ Together(placed[i], placed[j]) => Apart(placed[i], placed[j])

\* While parameters are placed, everything is within spillSize.
Spilling ==
    opened = 0 => /\ active = <<>> /\ Hidden <= spillSize
                  /\ \A i \in DOMAIN placed : -placed[i].off <= spillSize /\ placed[i].within = {}

\* Each activation is of a scope inside the one before.
Nested ==
    /\ \A k \in DOMAIN active : \A x \in active[k].within : x < opened
    /\ \A j, k \in DOMAIN active :
          j < k => active[j].within \subseteq active[k].within /\ active[j].within # active[k].within

\* What the scope of an activation and its enclosing ones have placed ends
\* where its children start.  Only the last activation still has variables of
\* its own to place, and then nothing of its children is placed.
Covered ==
    \A k \in DOMAIN active :
        /\ Hidden <= active[k].base /\ active[k].base <= active[k].size
        /\ \A i \in DOMAIN placed :
              placed[i].within \subseteq active[k].within => -placed[i].off <= active[k].base
OwnFirst ==
    \A k \in DOMAIN active :
        active[k].own # <<>> =>
            /\ k = Len(active) /\ active[k].base = active[k].size
            /\ \A i \in DOMAIN placed :
                  active[k].within \subseteq placed[i].within => placed[i].within = active[k].within

\* No variable is below the frame.
Reached ==
    /\ active # <<>> =>
          \A i \in DOMAIN placed : \E k \in DOMAIN active : -placed[i].off <= active[k].size
    /\ LaidOut => \A i \in DOMAIN placed : -placed[i].off <= frameSize

IInv == TypeOK /\ EachFits /\ AllApart /\ Spilling /\ Nested /\ Covered /\ OwnFirst /\ Reached

---------------------------------------------------------------------------
(* Numbers and sequences *)

LEMMA AlignUpFacts ==
  ASSUME NEW n \in Nat, NEW a \in {1, 2, 4, 8, 16}
  PROVE  /\ AlignUp(n, a) \in Nat /\ AlignUp(n, a) >= n
         /\ AlignUp(n, a) % a = 0 /\ (-AlignUp(n, a)) % a = 0
<1>1. CASE a = 1
  BY <1>1 DEF AlignUp
<1>2. CASE a = 2
  BY <1>2 DEF AlignUp
<1>3. CASE a = 4
  BY <1>3 DEF AlignUp
<1>4. CASE a = 8
  BY <1>4 DEF AlignUp
<1>5. CASE a = 16
  BY <1>5 DEF AlignUp
<1> QED  BY <1>1, <1>2, <1>3, <1>4, <1>5

LEMMA ProcFacts ==
  ASSUME NEW p \in Procs
  PROVE  /\ p.params \in Seq(Type)
         /\ p.scopes \in Seq(Scopes(Len(p.scopes))) /\ Len(p.scopes) \in Nat \ {0}
BY ProcsAssumption

LEMMA OwnType ==
  ASSUME proc \in Procs, NEW s \in 1..Len(proc.scopes)
  PROVE  Own(s) \in Seq(Type) /\ proc.scopes[s].children \in Seq(1..Len(proc.scopes))
<1>1. /\ proc.scopes[s] \in Scopes(Len(proc.scopes)) /\ proc.tmps \in Seq(Type)
  BY ProcsAssumption
<1>2. /\ proc.scopes[s].vars \in Seq(Type) /\ proc.scopes[s].objs \in Seq(Type)
      /\ proc.scopes[s].children \in Seq(1..Len(proc.scopes))
  BY <1>1 DEF Scopes
<1>3. (IF s = 1 THEN proc.tmps ELSE <<>>) \in Seq(Type)
  BY <1>1
<1> QED  BY <1>2, <1>3, ConcatProperties DEF Own

LEMMA Appended ==
  ASSUME NEW S, NEW s \in Seq(S), NEW e \in S
  PROVE  /\ Append(s, e) \in Seq(S) /\ Len(Append(s, e)) = Len(s) + 1 /\ Len(s) \in Nat
         /\ DOMAIN s = 1..Len(s) /\ DOMAIN Append(s, e) = 1..(Len(s) + 1)
         /\ Append(s, e)[Len(s) + 1] = e
         /\ \A i \in DOMAIN s : i \in DOMAIN Append(s, e) /\ Append(s, e)[i] = s[i]
         /\ \A i \in DOMAIN Append(s, e) : i \in DOMAIN s \/ i = Len(s) + 1
OBVIOUS

---------------------------------------------------------------------------
(* A variable more: it fits, and what it can be used with is above it or     *)
(* in the caller's frame.                                                  *)

LEMMA VarFacts ==
  ASSUME IInv, NEW i \in DOMAIN placed
  PROVE  /\ placed[i] \in Vars /\ placed[i].off \in Int /\ placed[i].type \in Type
         /\ placed[i].type.size \in Nat /\ placed[i].within \in SUBSET Nat
<1>1. placed[i] \in Vars
  BY DEF IInv, TypeOK
<1> QED  BY <1>1 DEF Vars, Type

LEMMA BelowFacts ==
  ASSUME NEW used \in Nat, NEW size \in Nat, NEW t \in Type
  PROVE  /\ Below(used, size, t.align) \in Nat /\ Below(used, size, t.align) >= used + size
         /\ (-Below(used, size, t.align)) % t.align = 0
<1>1. t.align \in {1, 2, 4, 8, 16} /\ used + size \in Nat
  BY DEF Type
<1> QED  BY <1>1, AlignUpFacts DEF Below

LEMMA OneMore ==
  ASSUME IInv, NEW v \in Vars, placed' = Append(placed, v),
         proc' = proc, opened' = opened, stackArg' \in Nat, stackArg' >= stackArg,
         Fits(v, Hidden, stackArg', opened),
         \A i \in DOMAIN placed : Together(placed[i], v) => Apart(placed[i], v)
  PROVE  /\ placed' \in Seq(Vars) /\ EachFits' /\ AllApart'
<1>1. /\ placed \in Seq(Vars) /\ stackArg \in Nat
  BY DEF IInv, TypeOK
<1>2. /\ placed' \in Seq(Vars) /\ Len(placed) \in Nat
      /\ DOMAIN placed = 1..Len(placed) /\ DOMAIN placed' = 1..(Len(placed) + 1)
      /\ placed'[Len(placed) + 1] = v
      /\ \A i \in DOMAIN placed : i \in DOMAIN placed' /\ placed'[i] = placed[i]
      /\ \A i \in DOMAIN placed' : i \in DOMAIN placed \/ i = Len(placed) + 1
  BY <1>1, Appended
<1>3. Hidden' = Hidden
  BY DEF Hidden
<1>4. EachFits'
  <2> SUFFICES ASSUME NEW i \in DOMAIN placed'
               PROVE  Fits(placed'[i], Hidden, stackArg', opened)
    BY <1>3 DEF EachFits
  <2>1. CASE i \in DOMAIN placed
    <3>1. Fits(placed[i], Hidden, stackArg, opened) /\ placed'[i] = placed[i]
      BY <1>2, <2>1 DEF IInv, EachFits
    <3>2. placed[i].off \in Int /\ placed[i].type.size \in Nat
      BY <2>1, VarFacts
    <3>3. Fits(placed[i], Hidden, stackArg', opened)
      BY <1>1, <3>1, <3>2 DEF Fits
    <3> QED  BY <3>1, <3>3
  <2>2. CASE i = Len(placed) + 1
    BY <1>2, <2>2
  <2> QED  BY <1>2, <2>1, <2>2
<1>5. AllApart'
  <2> SUFFICES ASSUME NEW i \in DOMAIN placed', NEW j \in DOMAIN placed', i < j,
                      Together(placed'[i], placed'[j])
               PROVE  Apart(placed'[i], placed'[j])
    BY DEF AllApart, Together, Apart
  <2>1. i \in DOMAIN placed /\ (j \in DOMAIN placed \/ j = Len(placed) + 1)
    BY <1>2
  <2> QED  BY <1>2, <2>1 DEF IInv, AllApart
<1> QED  BY <1>2, <1>4, <1>5

---------------------------------------------------------------------------
(* Parameters *)

LEMMA ParamType ==
  ASSUME IInv, TakesParam  PROVE Param \in Type /\ Param.size \in Nat
<1>1. proc.params \in Seq(Type) /\ Len(placed) \in Nat
  BY ProcFacts DEF IInv, TypeOK
<1>2. Param \in Type
  BY <1>1 DEF TakesParam, Param
<1> QED  BY <1>2 DEF Type

LEMMA SpillKeeps ==
  ASSUME IInv, TakesParam, NEW off \in Int, NEW regs, NEW saves, SpillTo(off, regs, saves),
         -off >= spillSize + Param.size, off % Param.align = 0
  PROVE  IInv'
<1> DEFINE v == Placed(off, Param, {})
<1>1. /\ placed \in Seq(Vars) /\ spillSize \in Nat /\ Param \in Type /\ Param.size \in Nat
      /\ opened = 0 /\ active = <<>> /\ Hidden <= spillSize /\ Hidden \in {0, 8}
      /\ \A i \in DOMAIN placed : -placed[i].off <= spillSize /\ placed[i].within = {}
  BY ParamType DEF IInv, TypeOK, TakesParam, Spilling, Hidden
<1>2. /\ placed' = Append(placed, v) /\ spillSize' = -off
      /\ proc' = proc /\ opened' = opened /\ active' = active /\ stackArg' = stackArg
      /\ frameSize' = frameSize /\ Hidden' = Hidden
  BY DEF SpillTo, Hidden
<1>3. v \in Vars /\ v.off = off /\ v.type = Param /\ v.within = {}
  BY <1>1 DEF Vars, Placed
<1> HIDE DEF v
<1>4. Fits(v, Hidden, stackArg', opened)
  BY <1>1, <1>2, <1>3 DEF Fits
<1>5. \A i \in DOMAIN placed : Apart(placed[i], v)
  <2> SUFFICES ASSUME NEW i \in DOMAIN placed  PROVE v.off + v.type.size <= placed[i].off
    BY DEF Apart
  <2>1. placed[i].off \in Int
    BY VarFacts
  <2> QED  BY <1>1, <1>3, <2>1
<1>6. placed' \in Seq(Vars) /\ EachFits' /\ AllApart'
  <2>1. stackArg' \in Nat /\ stackArg' >= stackArg
    BY <1>2 DEF IInv, TypeOK
  <2> QED  BY <1>2, <1>3, <1>4, <1>5, <2>1, OneMore
<1>7. TypeOK'
  BY <1>1, <1>2, <1>6 DEF IInv, TypeOK, Activations
<1>8. Spilling'
  <2> SUFFICES ASSUME NEW i \in DOMAIN placed'
               PROVE  -placed'[i].off <= -off /\ placed'[i].within = {}
    BY <1>1, <1>2 DEF Spilling
  <2>1. CASE i \in DOMAIN placed
    <3>1. placed'[i] = placed[i]
      BY <1>1, <1>2, <1>3, <2>1, Appended
    <3>2. placed[i].off \in Int
      BY <2>1, VarFacts
    <3> QED  BY <1>1, <2>1, <3>1, <3>2
  <2>2. CASE i = Len(placed) + 1
    <3>1. placed'[i] = v
      BY <1>1, <1>2, <1>3, <2>2, Appended
    <3> QED  BY <1>3, <3>1
  <2> QED  BY <1>1, <1>2, <1>3, <2>1, <2>2, Appended
<1>9. Nested' /\ Covered' /\ OwnFirst' /\ Reached'
  BY <1>1, <1>2 DEF Nested, Covered, OwnFirst, Reached, LaidOut
<1> QED  BY <1>6, <1>7, <1>8, <1>9 DEF IInv

LEMMA SpillOneKeeps == IInv /\ SpillOne => IInv'
<1> SUFFICES ASSUME IInv, SpillOne  PROVE IInv'
  OBVIOUS
<1> DEFINE size == IF IsObj(Param) THEN 8 ELSE Param.size
           below == Below(spillSize, size, Param.align)
<1>1. /\ TakesParam /\ Param \in Type /\ spillSize \in Nat /\ size \in Nat /\ size >= Param.size
      /\ Param.size \in Nat
  BY ParamType DEF SpillOne, FitsOne, IInv, TypeOK
<1>2. SpillTo(-below, 1, <<[reg |-> NextArgReg(1), size |-> size, off |-> -below]>>)
  BY DEF SpillOne
<1> HIDE DEF size
<1>3. below \in Nat /\ below >= spillSize + size /\ (-below) % Param.align = 0
  BY <1>1, BelowFacts
<1> HIDE DEF below
<1>4. -below \in Int /\ -(-below) >= spillSize + Param.size
  BY <1>1, <1>3
<1> QED  BY <1>1, <1>2, <1>3, <1>4, SpillKeeps

LEMMA SpillPairKeeps == IInv /\ SpillPair => IInv'
<1> SUFFICES ASSUME IInv, SpillPair  PROVE IInv'
  OBVIOUS
<1> DEFINE high == Below(spillSize, 8, Param.align)
           low  == Below(high, 8, Param.align)
<1>1. /\ TakesParam /\ Param \in Type /\ spillSize \in Nat /\ Param.size \in 0..16
  BY ParamType DEF SpillPair, FitsPair, IInv, TypeOK
<1>2. high \in Nat /\ high >= spillSize + 8
  BY <1>1, BelowFacts
<1>3. SpillTo(-low, 2, PairSaves(-high, -low))
  <2>1. -(-high) = high
    BY <1>2
  <2> QED  BY <2>1 DEF SpillPair
<1> HIDE DEF high
<1>4. low \in Nat /\ low >= high + 8 /\ (-low) % Param.align = 0
  BY <1>1, <1>2, BelowFacts
<1> HIDE DEF low
<1>5. -low \in Int /\ -(-low) >= spillSize + Param.size
  BY <1>1, <1>2, <1>4
<1> QED  BY <1>1, <1>3, <1>4, <1>5, SpillKeeps

LEMMA TakeStackArgKeeps == IInv /\ TakeStackArg => IInv'
<1> SUFFICES ASSUME IInv, TakeStackArg  PROVE IInv'
  OBVIOUS
<1> DEFINE v == Placed(stackArg, Param, {})
           up == AlignUp(stackArg + Param.size, Param.align)
<1>1. /\ placed \in Seq(Vars) /\ spillSize \in Nat /\ Param \in Type /\ Param.size \in Nat
      /\ opened = 0 /\ active = <<>> /\ Hidden <= spillSize /\ Hidden \in {0, 8}
      /\ stackArg \in Nat /\ stackArg % 8 = 0 /\ stackArg >= 16 /\ TakesParam
      /\ \A i \in DOMAIN placed : -placed[i].off <= spillSize /\ placed[i].within = {}
  BY ParamType DEF IInv, TypeOK, TakeStackArg, TakesParam, Spilling, Hidden
<1>2. /\ placed' = Append(placed, v) /\ stackArg' = AlignUp(up, 8)
      /\ proc' = proc /\ opened' = opened /\ active' = active /\ spillSize' = spillSize
      /\ frameSize' = frameSize /\ Hidden' = Hidden
  BY DEF TakeStackArg, Hidden
<1>3. up \in Nat /\ up >= stackArg + Param.size
  <2>1. Param.align \in {1, 2, 4, 8, 16} /\ stackArg + Param.size \in Nat
    BY <1>1 DEF Type
  <2> QED  BY <1>1, <2>1, AlignUpFacts
<1> HIDE DEF up
<1>4. stackArg' \in Nat /\ stackArg' >= stackArg + Param.size /\ stackArg' % 8 = 0
  <2>1. AlignUp(up, 8) \in Nat /\ AlignUp(up, 8) >= up /\ AlignUp(up, 8) % 8 = 0
    BY <1>3, AlignUpFacts
  <2> QED  BY <1>1, <1>2, <1>3, <2>1
<1>5. v \in Vars /\ v.off = stackArg /\ v.type = Param /\ v.within = {}
  BY <1>1 DEF Vars, Placed
<1> HIDE DEF v
<1>6. stackArg % Param.align = 0
  <2>1. Param.align \in {1, 2, 4, 8}
    BY <1>1 DEF Type
  <2>2. \A m \in Nat : m % 8 = 0 => m % 2 = 0 /\ m % 4 = 0 /\ m % 1 = 0
    OBVIOUS
  <2> QED  BY <1>1, <2>1, <2>2
<1>7. Fits(v, Hidden, stackArg', opened)
  BY <1>1, <1>4, <1>5, <1>6 DEF Fits
<1>8. \A i \in DOMAIN placed : Apart(placed[i], v)
  <2> SUFFICES ASSUME NEW i \in DOMAIN placed
               PROVE  placed[i].off + placed[i].type.size <= v.off
    BY DEF Apart
  <2>1. placed[i].off \in Int /\ placed[i].type.size \in Nat
    BY VarFacts
  <2>2. Fits(placed[i], Hidden, stackArg, opened)
    BY DEF IInv, EachFits
  <2> QED  BY <1>1, <1>5, <2>1, <2>2 DEF Fits
<1>9. placed' \in Seq(Vars) /\ EachFits' /\ AllApart'
  <2>1. stackArg' >= stackArg
    BY <1>1, <1>4
  <2> QED  BY <1>2, <1>4, <1>5, <1>7, <1>8, <2>1, OneMore
<1>10. TypeOK'
  <2>1. stackArg' >= 16
    BY <1>1, <1>4
  <2> QED  BY <1>1, <1>2, <1>4, <1>9, <2>1 DEF IInv, TypeOK, Activations
<1>11. Spilling'
  <2> SUFFICES ASSUME NEW i \in DOMAIN placed'
               PROVE  -placed'[i].off <= spillSize /\ placed'[i].within = {}
    BY <1>1, <1>2 DEF Spilling
  <2>1. CASE i \in DOMAIN placed
    <3>1. placed'[i] = placed[i]
      BY <1>1, <1>2, <1>5, <2>1, Appended
    <3> QED  BY <1>1, <2>1, <3>1
  <2>2. CASE i = Len(placed) + 1
    <3>1. placed'[i] = v
      BY <1>1, <1>2, <1>5, <2>2, Appended
    <3> QED  BY <1>1, <1>5, <3>1
  <2> QED  BY <1>1, <1>2, <1>5, <2>1, <2>2, Appended
<1>12. Nested' /\ Covered' /\ OwnFirst' /\ Reached'
  BY <1>1, <1>2 DEF Nested, Covered, OwnFirst, Reached, LaidOut
<1> QED  BY <1>9, <1>10, <1>11, <1>12 DEF IInv

---------------------------------------------------------------------------
(* Scopes *)

LEMMA ActiveFacts ==
  ASSUME IInv, NEW k \in DOMAIN active
  PROVE  /\ active[k] \in Activations /\ active[k].within \in SUBSET Nat
         /\ active[k].base \in Nat /\ active[k].size \in Nat
         /\ active[k].own \in Seq(Type) /\ active[k].kids \in Seq(1..Len(proc.scopes))
         /\ DOMAIN active = 1..Len(active) /\ Len(active) \in Nat
<1>1. active[k] \in Activations /\ DOMAIN active = 1..Len(active) /\ Len(active) \in Nat
  BY DEF IInv, TypeOK
<1> QED  BY <1>1 DEF Activations

LEMMA TopFacts ==
  ASSUME IInv, active # <<>>
  PROVE  /\ Len(active) \in DOMAIN active /\ Len(active) \in Nat \ {0}
         /\ DOMAIN active = 1..Len(active) /\ active \in Seq(Activations)
         /\ Top \in Activations /\ Top.within \in SUBSET Nat /\ Top.base \in Nat
         /\ Top.size \in Nat /\ Top.own \in Seq(Type) /\ Top.kids \in Seq(1..Len(proc.scopes))
         /\ Top = active[Len(active)]
<1>1. /\ active \in Seq(Activations) /\ DOMAIN active = 1..Len(active)
      /\ Len(active) \in Nat \ {0}
  BY DEF IInv, TypeOK
<1>2. Len(active) \in DOMAIN active
  BY <1>1
<1> QED  BY <1>1, <1>2, ActiveFacts DEF Top

LEMMA OpenProcKeeps == IInv /\ OpenProc => IInv'
<1> SUFFICES ASSUME IInv, OpenProc  PROVE IInv'
  OBVIOUS
<1> DEFINE a == Activation({}, spillSize, Own(1), proc.scopes[1].children)
<1>1. /\ proc \in Procs /\ placed \in Seq(Vars) /\ spillSize \in Nat /\ opened = 0
      /\ Hidden <= spillSize
      /\ \A i \in DOMAIN placed : -placed[i].off <= spillSize /\ placed[i].within = {}
  BY DEF IInv, TypeOK, OpenProc, Spilling
<1>2. /\ active' = <<a>> /\ opened' = 1 /\ Hidden' = Hidden
      /\ UNCHANGED <<proc, placed, spillSize, stackArg, frameSize>>
  BY DEF OpenProc, Hidden
<1>3. Own(1) \in Seq(Type) /\ proc.scopes[1].children \in Seq(1..Len(proc.scopes))
  <2>1. 1 \in 1..Len(proc.scopes)
    BY <1>1, ProcFacts
  <2> QED  BY <1>1, <2>1, OwnType
<1>4. /\ a \in Activations /\ a.within = {} /\ a.base = spillSize /\ a.size = spillSize
  BY <1>1, <1>3 DEF Activation, Activations
<1> HIDE DEF a
<1>5. active' \in Seq(Activations) /\ DOMAIN active' = {1} /\ active'[1] = a /\ Len(active') = 1
  BY <1>2, <1>4
<1>6. TypeOK'
  BY <1>1, <1>2, <1>5 DEF IInv, TypeOK, Activations
<1>7. EachFits'
  <2> SUFFICES ASSUME NEW i \in DOMAIN placed  PROVE Fits(placed[i], Hidden, stackArg, 1)
    BY <1>2 DEF EachFits
  <2> QED  BY <1>1 DEF IInv, EachFits, Fits
<1>8. AllApart' /\ Spilling'
  BY <1>2 DEF IInv, AllApart, Spilling
<1>9. Nested' /\ Covered' /\ OwnFirst'
  <2>1. Nested'
    BY <1>2, <1>4, <1>5 DEF Nested
  <2>2. Covered'
    BY <1>1, <1>2, <1>4, <1>5 DEF Covered
  <2>3. OwnFirst'
    BY <1>1, <1>2, <1>4, <1>5 DEF OwnFirst
  <2> QED  BY <2>1, <2>2, <2>3
<1>10. Reached'
  BY <1>1, <1>2, <1>4, <1>5 DEF Reached, LaidOut
<1> QED  BY <1>6, <1>7, <1>8, <1>9, <1>10 DEF IInv

LEMMA PlaceVarKeeps == IInv /\ PlaceVar => IInv'
<1> SUFFICES ASSUME IInv, PlaceVar  PROVE IInv'
  OBVIOUS
<1> DEFINE t == Head(Top.own)
           n == Below(Top.size, t.size, t.align)
           v == Placed(-n, t, Top.within)
           a == [Top EXCEPT !.size = n, !.base = n, !.own = Tail(Top.own)]
           last == Len(active)
<1>1. /\ placed \in Seq(Vars) /\ active # <<>> /\ Top.own # <<>>
      /\ last \in DOMAIN active /\ last \in Nat \ {0} /\ DOMAIN active = 1..last
      /\ active \in Seq(Activations) /\ Top \in Activations /\ Top.within \in SUBSET Nat
      /\ Top.base \in Nat /\ Top.size \in Nat /\ Top.own \in Seq(Type) /\ Top = active[last]
      /\ opened # 0
  <2>1. active # <<>> /\ Top.own # <<>>
    BY DEF PlaceVar
  <2> QED  BY <2>1, TopFacts DEF IInv, TypeOK, Spilling
<1>2. t \in Type /\ t.size \in Nat /\ Tail(Top.own) \in Seq(Type)
  <2>1. t \in Type /\ Tail(Top.own) \in Seq(Type)
    BY <1>1, HeadTailProperties
  <2> QED  BY <2>1 DEF Type
<1>3. /\ placed' = Append(placed, v) /\ active' = [active EXCEPT ![last] = a]
      /\ Hidden' = Hidden
      /\ UNCHANGED <<proc, spillSize, stackArg, opened, frameSize>>
  <2>1. placed' = Append(placed, v)
    BY DEF PlaceVar
  <2>2. active' = [active EXCEPT ![last] = a]
    BY DEF PlaceVar
  <2>3. Hidden' = Hidden /\ UNCHANGED <<proc, spillSize, stackArg, opened, frameSize>>
    BY DEF PlaceVar, Hidden
  <2> QED  BY <2>1, <2>2, <2>3
<1> HIDE DEF t
<1>4. n \in Nat /\ n >= Top.size + t.size /\ (-n) % t.align = 0
  BY <1>1, <1>2, BelowFacts
<1> HIDE DEF n
<1>5. v \in Vars /\ v.off = -n /\ v.type = t /\ v.within = Top.within
  BY <1>1, <1>2, <1>4 DEF Vars, Placed
<1> HIDE DEF v
<1>6. /\ a \in Activations /\ a.within = Top.within /\ a.base = n /\ a.size = n
  BY <1>1, <1>2, <1>4 DEF Activations
<1> HIDE DEF a
<1>7. /\ active' \in Seq(Activations) /\ DOMAIN active' = DOMAIN active /\ Len(active') = last
      /\ active'[last] = a /\ \A k \in DOMAIN active : k # last => active'[k] = active[k]
      /\ \A k \in DOMAIN active : active'[k].within = active[k].within
  BY <1>1, <1>3, <1>6
\* What can be in use with the new variable is of this scope or of those around.
<1>8. \A i \in DOMAIN placed : Together(placed[i], v) => -placed[i].off <= Top.size
  <2> SUFFICES ASSUME NEW i \in DOMAIN placed, Together(placed[i], v)
               PROVE  -placed[i].off <= Top.size
    OBVIOUS
  <2>1. placed[i].within \subseteq Top.within
    BY <1>1, <1>5 DEF Together, IInv, OwnFirst
  <2>2. -placed[i].off <= Top.base /\ Top.base = Top.size
    BY <1>1, <2>1 DEF IInv, Covered, OwnFirst
  <2> QED  BY <2>2
<1>9. placed' \in Seq(Vars) /\ EachFits' /\ AllApart'
  <2>1. \A i \in DOMAIN placed : Together(placed[i], v) => Apart(placed[i], v)
    <3> SUFFICES ASSUME NEW i \in DOMAIN placed, Together(placed[i], v)
                 PROVE  v.off + v.type.size <= placed[i].off
      BY DEF Apart
    <3>1. placed[i].off \in Int /\ -placed[i].off <= Top.size
      BY <1>8, VarFacts
    <3> QED  BY <1>1, <1>2, <1>4, <1>5, <3>1
  <2>2. Fits(v, Hidden, stackArg', opened)
    <3>1. Hidden <= Top.size /\ Hidden \in {0, 8}
      BY <1>1 DEF IInv, Covered, Hidden
    <3>2. \A x \in Top.within : x < opened
      BY <1>1 DEF IInv, Nested
    <3>3. v.off % v.type.align = 0
      BY <1>4, <1>5
    <3>4. v.off + v.type.size <= -Hidden
      BY <1>1, <1>2, <1>4, <1>5, <3>1
    <3> QED  BY <1>5, <3>2, <3>3, <3>4 DEF Fits
  <2>3. stackArg' \in Nat /\ stackArg' >= stackArg
    BY <1>3 DEF IInv, TypeOK
  <2> QED  BY <1>3, <1>5, <2>1, <2>2, <2>3, OneMore
<1>10. /\ DOMAIN placed' = DOMAIN placed \cup {Len(placed) + 1} /\ placed'[Len(placed) + 1] = v
       /\ \A i \in DOMAIN placed : placed'[i] = placed[i]
  BY <1>1, <1>3, <1>5, Appended
<1>11. TypeOK' /\ Spilling'
  BY <1>1, <1>3, <1>7, <1>9 DEF IInv, TypeOK, Spilling, Activations
<1>12. Nested'
  BY <1>3, <1>7 DEF IInv, Nested
<1>13. Covered'
  <2> SUFFICES ASSUME NEW k \in DOMAIN active
               PROVE  /\ Hidden <= active'[k].base /\ active'[k].base <= active'[k].size
                      /\ \A i \in DOMAIN placed' :
                            placed'[i].within \subseteq active[k].within
                              => -placed'[i].off <= active'[k].base
    BY <1>3, <1>7 DEF Covered
  <2>1. CASE k = last
    <3>1. Hidden \in {0, 8} /\ Hidden <= Top.size
      BY <1>1 DEF Hidden, IInv, Covered
    <3>2. ASSUME NEW i \in DOMAIN placed, placed[i].within \subseteq Top.within
          PROVE  -placed[i].off <= n
      <4>1. placed[i].off \in Int /\ -placed[i].off <= Top.base /\ Top.base <= Top.size
        BY <1>1, <3>2, VarFacts DEF IInv, Covered
      <4> QED  BY <1>1, <1>2, <1>4, <4>1
    <3>3. -v.off <= n
      BY <1>4, <1>5
    <3>4. Hidden <= n
      BY <1>1, <1>2, <1>4, <3>1
    <3>5. \A i \in DOMAIN placed' :
             placed'[i].within \subseteq active[k].within => -placed'[i].off <= n
      BY <1>1, <1>10, <2>1, <3>2, <3>3
    <3>6. active'[k].base = n /\ active'[k].size = n
      BY <1>6, <1>7, <2>1
    <3> QED  BY <1>4, <3>4, <3>5, <3>6
  <2>2. CASE k # last
    <3>1. k < last /\ active'[k] = active[k]
      BY <1>1, <1>7, <2>2
    <3>2. ~(Top.within \subseteq active[k].within)
      <4>1. active[k].within \subseteq active[last].within /\ active[k].within # active[last].within
        BY <1>1, <3>1 DEF IInv, Nested
      <4>2. active[last] = Top
        BY <1>1
      <4> QED  BY <4>1, <4>2
    <3>3. /\ Hidden <= active[k].base /\ active[k].base <= active[k].size
          /\ \A i \in DOMAIN placed :
                placed[i].within \subseteq active[k].within => -placed[i].off <= active[k].base
      BY DEF IInv, Covered
    <3>4. \A i \in DOMAIN placed' :
             placed'[i].within \subseteq active[k].within => -placed'[i].off <= active[k].base
      BY <1>5, <1>10, <3>2, <3>3
    <3> QED  BY <3>1, <3>3, <3>4
  <2> QED  BY <2>1, <2>2
<1>14. OwnFirst'
  <2> SUFFICES ASSUME NEW k \in DOMAIN active, active'[k].own # <<>>
               PROVE  /\ k = last /\ active'[k].base = active'[k].size
                      /\ \A i \in DOMAIN placed' :
                            active[k].within \subseteq placed'[i].within
                              => placed'[i].within = active[k].within
    BY <1>7 DEF OwnFirst
  <2>1. k = last
    BY <1>1, <1>7 DEF IInv, OwnFirst
  <2> QED  BY <1>1, <1>5, <1>6, <1>7, <1>10, <2>1 DEF IInv, OwnFirst
<1>15. Reached'
  <2>1. active' # <<>> /\ ~LaidOut'
    BY <1>1, <1>7 DEF LaidOut
  <2>2. ASSUME NEW i \in DOMAIN placed
        PROVE  \E k \in DOMAIN active : -placed[i].off <= active'[k].size
    <3>1. PICK k \in DOMAIN active : -placed[i].off <= active[k].size
      BY <1>1 DEF IInv, Reached
    <3>2. CASE k = last
      <4>1. placed[i].off \in Int
        BY VarFacts
      <4>2. -placed[i].off <= active'[last].size
        BY <1>1, <1>2, <1>4, <1>6, <1>7, <3>1, <3>2, <4>1
      <4> QED  BY <1>1, <4>2
    <3>3. CASE k # last
      BY <1>7, <3>1, <3>3
    <3> QED  BY <3>2, <3>3
  <2>3. -v.off <= active'[last].size
    BY <1>4, <1>5, <1>6, <1>7
  <2> QED  BY <1>1, <1>7, <1>10, <2>1, <2>2, <2>3 DEF Reached
<1> QED  BY <1>9, <1>11, <1>12, <1>13, <1>14, <1>15 DEF IInv

LEMMA EnterScopeKeeps == IInv /\ EnterScope => IInv'
<1> SUFFICES ASSUME IInv, EnterScope  PROVE IInv'
  OBVIOUS
<1> DEFINE s == Head(Top.kids)
           p == [Top EXCEPT !.kids = Tail(Top.kids)]
           a == Activation(Top.within \cup {opened}, Top.base, Own(s), proc.scopes[s].children)
           n == Len(active)
<1>1. /\ n = Len(active) /\ placed \in Seq(Vars) /\ active # <<>> /\ Top.own = <<>> /\ Top.kids # <<>>
      /\ n \in DOMAIN active /\ n \in Nat \ {0} /\ DOMAIN active = 1..n
      /\ active \in Seq(Activations) /\ Top \in Activations /\ Top.within \in SUBSET Nat
      /\ Top.base \in Nat /\ Top.size \in Nat /\ Top.kids \in Seq(1..Len(proc.scopes))
      /\ Top = active[n] /\ opened \in Nat \ {0} /\ proc \in Procs
  <2>1. active # <<>> /\ Top.own = <<>> /\ Top.kids # <<>>
    BY DEF EnterScope
  <2> QED  BY <2>1, TopFacts DEF IInv, TypeOK, Spilling
<1>2. /\ s \in 1..Len(proc.scopes) /\ Tail(Top.kids) \in Seq(1..Len(proc.scopes))
      /\ Own(s) \in Seq(Type) /\ proc.scopes[s].children \in Seq(1..Len(proc.scopes))
  <2>1. /\ s \in 1..Len(proc.scopes) /\ Tail(Top.kids) \in Seq(1..Len(proc.scopes))
    BY <1>1, HeadTailProperties
  <2> QED  BY <1>1, <2>1, OwnType
<1>3. /\ active' = Append([active EXCEPT ![n] = p], a) /\ opened' = opened + 1
      /\ Hidden' = Hidden
      /\ UNCHANGED <<proc, placed, spillSize, stackArg, frameSize>>
  BY DEF EnterScope, Hidden
<1>4. /\ p \in Activations /\ p.within = Top.within /\ p.base = Top.base /\ p.size = Top.size
      /\ p.own = Top.own
  BY <1>1, <1>2 DEF Activations
<1>5. /\ a \in Activations /\ a.within = Top.within \cup {opened}
      /\ a.base = Top.base /\ a.size = Top.base
  BY <1>1, <1>2 DEF Activation, Activations
<1> HIDE DEF s, p, a, n
<1>6. /\ active' \in Seq(Activations) /\ DOMAIN active' = 1..(n + 1) /\ Len(active') = n + 1
      /\ active'[n + 1] = a /\ active'[n] = p
      /\ \A k \in 1..n : k # n => active'[k] = active[k]
  <2> DEFINE rest == [active EXCEPT ![n] = p]
  <2>1. /\ rest \in Seq(Activations) /\ Len(rest) = n /\ rest[n] = p
        /\ \A k \in 1..n : k # n => rest[k] = active[k]
    BY <1>1, <1>4
  <2> HIDE DEF rest
  <2>2. active' = Append(rest, a)
    BY <1>3 DEF rest
  <2> QED  BY <1>1, <1>5, <2>1, <2>2, Appended
<1>7. \A k \in 1..n : /\ active'[k].within = active[k].within /\ active'[k].base = active[k].base
                      /\ active'[k].size = active[k].size /\ active'[k].own = active[k].own
  BY <1>1, <1>4, <1>6
<1>8. \A i \in DOMAIN placed : opened \notin placed[i].within
  <2> SUFFICES ASSUME NEW i \in DOMAIN placed, opened \in placed[i].within  PROVE FALSE
    OBVIOUS
  <2>1. opened < opened
    BY DEF IInv, EachFits, Fits
  <2> QED  BY <1>1, <2>1
<1>9. \A k \in 1..n : opened \notin active[k].within
  <2> SUFFICES ASSUME NEW k \in 1..n, opened \in active[k].within  PROVE FALSE
    OBVIOUS
  <2>1. opened < opened
    BY <1>1 DEF IInv, Nested
  <2> QED  BY <1>1, <2>1
<1>10. TypeOK'
  <2>1. opened' \in Nat
    BY <1>1, <1>3
  <2>2. active' \in Seq(Activations)'
    BY <1>3, <1>6 DEF Activations
  <2> QED  BY <1>3, <2>1, <2>2 DEF IInv, TypeOK
<1>11. EachFits'
  <2> SUFFICES ASSUME NEW i \in DOMAIN placed  PROVE Fits(placed[i], Hidden, stackArg, opened + 1)
    BY <1>3 DEF EachFits
  <2>1. Fits(placed[i], Hidden, stackArg, opened) /\ placed[i].within \in SUBSET Nat
    BY VarFacts DEF IInv, EachFits
  <2>2. \A x \in placed[i].within : x < opened + 1
    BY <1>1, <2>1 DEF Fits
  <2> QED  BY <2>1, <2>2 DEF Fits
<1>12. AllApart' /\ Spilling'
  BY <1>1, <1>3 DEF IInv, AllApart, Spilling
<1>13. Nested'
  <2>1. ASSUME NEW k \in 1..(n + 1)  PROVE \A x \in active'[k].within : x < opened + 1
    <3>1. ASSUME NEW j \in 1..n  PROVE \A x \in active[j].within : x < opened + 1
      <4> SUFFICES ASSUME NEW x \in active[j].within  PROVE x < opened + 1
        OBVIOUS
      <4>1. j \in DOMAIN active /\ x \in Nat
        BY <1>1, ActiveFacts
      <4>2. x < opened
        BY <4>1 DEF IInv, Nested
      <4> QED  BY <1>1, <4>1, <4>2
    <3>2. CASE k \in 1..n
      BY <1>7, <3>1, <3>2
    <3>3. CASE k = n + 1
      <4>1. \A x \in Top.within : x < opened + 1
        BY <1>1, <3>1
      <4> QED  BY <1>1, <1>5, <1>6, <3>3, <4>1
    <3> QED  BY <1>1, <3>2, <3>3
  <2>2. ASSUME NEW j \in 1..(n + 1), NEW k \in 1..(n + 1), j < k
        PROVE  active'[j].within \subseteq active'[k].within /\ active'[j].within # active'[k].within
    <3>1. j \in 1..n /\ active'[j].within = active[j].within
      BY <1>1, <1>7, <2>2
    <3>2. CASE k \in 1..n
      BY <1>1, <1>7, <2>2, <3>1, <3>2 DEF IInv, Nested
    <3>3. CASE k = n + 1
      <4>1. active'[k].within = Top.within \cup {opened}
        BY <1>5, <1>6, <3>3
      <4>2. active[j].within \subseteq Top.within
        <5>1. CASE j = n
          BY <1>1, <5>1
        <5>2. CASE j # n
          <6>1. j < n
            BY <1>1, <3>1, <5>2
          <6> QED  BY <1>1, <3>1, <6>1 DEF IInv, Nested
        <5> QED  BY <5>1, <5>2
      <4> QED  BY <1>9, <3>1, <4>1, <4>2
    <3> QED  BY <1>1, <3>2, <3>3
  <2> QED  BY <1>3, <1>6, <2>1, <2>2 DEF Nested
<1>14. Covered'
  <2> SUFFICES ASSUME NEW k \in 1..(n + 1)
               PROVE  /\ Hidden <= active'[k].base /\ active'[k].base <= active'[k].size
                      /\ \A i \in DOMAIN placed :
                            placed[i].within \subseteq active'[k].within
                              => -placed[i].off <= active'[k].base
    BY <1>3, <1>6 DEF Covered
  <2>1. CASE k \in 1..n
    BY <1>1, <1>7, <2>1 DEF IInv, Covered
  <2>2. CASE k = n + 1
    <3>1. Hidden <= Top.base /\ Top.base <= Top.base
      BY <1>1 DEF IInv, Covered
    <3>2. ASSUME NEW i \in DOMAIN placed, placed[i].within \subseteq Top.within \cup {opened}
          PROVE  -placed[i].off <= Top.base
      <4>1. placed[i].within \subseteq Top.within
        BY <1>8, <3>2
      <4> QED  BY <1>1, <4>1 DEF IInv, Covered
    <3>3. active'[k].within = Top.within \cup {opened} /\ active'[k].base = Top.base
          /\ active'[k].size = Top.base
      BY <1>5, <1>6, <2>2
    <3> QED  BY <3>1, <3>2, <3>3
  <2>3. k \in 1..n \/ k = n + 1
    BY <1>1
  <2> QED  BY <2>1, <2>2, <2>3
<1>15. OwnFirst'
  <2> SUFFICES ASSUME NEW k \in 1..(n + 1), active'[k].own # <<>>
               PROVE  /\ k = n + 1 /\ active'[k].base = active'[k].size
                      /\ \A i \in DOMAIN placed : ~(active'[k].within \subseteq placed[i].within)
    BY <1>3, <1>6 DEF OwnFirst
  <2>1. k = n + 1
    <3> SUFFICES ASSUME k \in 1..n  PROVE FALSE
      BY <1>1
    <3> QED  BY <1>1, <1>7 DEF IInv, OwnFirst
  <2> QED  BY <1>5, <1>6, <1>8, <2>1
<1>16. Reached'
  <2>1. active' # <<>> /\ ~LaidOut'
    BY <1>1, <1>6 DEF LaidOut
  <2>2. ASSUME NEW i \in DOMAIN placed
        PROVE  \E k \in 1..(n + 1) : -placed[i].off <= active'[k].size
    <3>1. PICK k \in 1..n : -placed[i].off <= active[k].size
      BY <1>1 DEF IInv, Reached
    <3>2. k \in 1..(n + 1) /\ active'[k].size = active[k].size
      BY <1>1, <1>7
    <3> QED  BY <3>1, <3>2
  <2> QED  BY <1>3, <1>6, <2>1, <2>2 DEF Reached
<1> QED  BY <1>10, <1>11, <1>12, <1>13, <1>14, <1>15, <1>16 DEF IInv

LEMMA LeaveScopeKeeps == IInv /\ LeaveScope => IInv'
<1> SUFFICES ASSUME IInv, LeaveScope  PROVE IInv'
  OBVIOUS
<1> DEFINE n  == Len(active)
           up == Enclosing(Parent.size, AlignUp(Top.size, 16))
           p  == [Parent EXCEPT !.size = up]
<1>1. /\ n = Len(active) /\ active # <<>> /\ n \in Nat /\ n > 1 /\ DOMAIN active = 1..n /\ n \in DOMAIN active
      /\ active \in Seq(Activations) /\ Top \in Activations /\ Top.size \in Nat
      /\ Top = active[n] /\ Top.own = <<>>
  <2>1. active # <<>> /\ n > 1 /\ Top.own = <<>>
    BY DEF LeaveScope, IInv, TypeOK
  <2> QED  BY <2>1, TopFacts
<1>2. /\ n - 1 \in DOMAIN active /\ Parent = active[n - 1] /\ Parent \in Activations
      /\ Parent.size \in Nat /\ Parent.base \in Nat
  <2>1. n - 1 \in DOMAIN active
    BY <1>1
  <2> QED  BY <2>1, ActiveFacts DEF Parent
<1>3. /\ active' = [SubSeq(active, 1, n - 1) EXCEPT ![n - 1] = p] /\ Hidden' = Hidden
      /\ UNCHANGED <<proc, placed, spillSize, stackArg, frameSize, opened>>
  BY DEF LeaveScope, Hidden
<1>4. up \in Nat /\ up >= Top.size /\ up >= Parent.size
  <2>1. AlignUp(Top.size, 16) \in Nat /\ AlignUp(Top.size, 16) >= Top.size
    BY <1>1, AlignUpFacts
  <2> QED  BY <1>1, <1>2, <2>1 DEF Enclosing
<1> HIDE DEF up
<1>5. /\ p \in Activations /\ p.within = Parent.within /\ p.base = Parent.base
      /\ p.own = Parent.own /\ p.size \in Nat /\ p.size >= Parent.size /\ p.size >= Top.size
  BY <1>2, <1>4 DEF Activations
<1> HIDE DEF p, n
<1>6. /\ active' \in Seq(Activations) /\ DOMAIN active' = 1..(n - 1) /\ Len(active') = n - 1
      /\ active'[n - 1] = p
      /\ \A k \in 1..(n - 1) : k \in DOMAIN active /\ (k # n - 1 => active'[k] = active[k])
  <2> DEFINE rest == SubSeq(active, 1, n - 1)
  <2>1. /\ rest \in Seq(Activations) /\ Len(rest) = n - 1
        /\ \A k \in 1..(n - 1) : rest[k] = active[k]
    BY <1>1, SubSeqProperties
  <2> HIDE DEF rest
  <2>2. active' = [rest EXCEPT ![n - 1] = p]
    BY <1>3 DEF rest
  <2> QED  BY <1>1, <1>5, <2>1, <2>2
<1>7. \A k \in 1..(n - 1) : /\ active'[k].within = active[k].within /\ active'[k].base = active[k].base
                            /\ active'[k].size >= active[k].size /\ active'[k].own = active[k].own
                            /\ active'[k].size \in Nat /\ active[k].size \in Nat
                            /\ active[k].base \in Nat
  <2> SUFFICES ASSUME NEW k \in 1..(n - 1)
               PROVE  /\ active'[k].within = active[k].within /\ active'[k].base = active[k].base
                      /\ active'[k].size >= active[k].size /\ active'[k].own = active[k].own
                      /\ active'[k].size \in Nat /\ active[k].size \in Nat
                      /\ active[k].base \in Nat
    OBVIOUS
  <2>1. k \in DOMAIN active /\ active[k].size \in Nat /\ active[k].base \in Nat
    BY <1>6, ActiveFacts
  <2> QED  BY <1>2, <1>5, <1>6, <2>1
<1>8. TypeOK'
  BY <1>1, <1>3, <1>6 DEF IInv, TypeOK, Activations
<1>9. EachFits' /\ AllApart'
  BY <1>3 DEF IInv, EachFits, AllApart
<1>10. Spilling'
  BY <1>1, <1>3 DEF IInv, Spilling
<1>11. Nested'
  BY <1>3, <1>6, <1>7 DEF IInv, Nested
<1>12. Covered'
  <2> SUFFICES ASSUME NEW k \in 1..(n - 1)
               PROVE  /\ Hidden <= active[k].base /\ active[k].base <= active'[k].size
                      /\ \A i \in DOMAIN placed :
                            placed[i].within \subseteq active[k].within
                              => -placed[i].off <= active[k].base
    BY <1>3, <1>6, <1>7 DEF Covered
  <2>1. /\ Hidden <= active[k].base /\ active[k].base <= active[k].size
        /\ \A i \in DOMAIN placed :
              placed[i].within \subseteq active[k].within => -placed[i].off <= active[k].base
    BY <1>6 DEF IInv, Covered
  <2> QED  BY <1>7, <2>1
<1>13. OwnFirst'
  <2> SUFFICES ASSUME NEW k \in 1..(n - 1), active'[k].own # <<>>  PROVE FALSE
    BY <1>6 DEF OwnFirst
  <2>1. k = n
    BY <1>1, <1>6, <1>7 DEF IInv, OwnFirst
  <2> QED  BY <1>1, <2>1
<1>14. Reached'
  <2>1. active' # <<>> /\ ~LaidOut'
    BY <1>1, <1>6 DEF LaidOut
  <2>2. ASSUME NEW i \in DOMAIN placed
        PROVE  \E k \in 1..(n - 1) : -placed[i].off <= active'[k].size
    <3>1. placed[i].off \in Int
      BY VarFacts
    <3>2. PICK k \in 1..n : -placed[i].off <= active[k].size
      BY <1>1 DEF IInv, Reached
    <3>3. CASE k \in 1..(n - 1)
      BY <1>7, <3>1, <3>2, <3>3
    <3>4. CASE k = n
      <4>1. -placed[i].off <= p.size
        BY <1>1, <1>5, <3>1, <3>2, <3>4
      <4>2. n - 1 \in 1..(n - 1)
        BY <1>1
      <4> QED  BY <1>6, <4>1, <4>2
    <3> QED  BY <1>1, <3>3, <3>4
  <2> QED  BY <1>3, <1>6, <2>1, <2>2 DEF Reached
<1> QED  BY <1>8, <1>9, <1>10, <1>11, <1>12, <1>13, <1>14 DEF IInv

LEMMA CloseProcKeeps == IInv /\ CloseProc => IInv'
<1> SUFFICES ASSUME IInv, CloseProc  PROVE IInv'
  OBVIOUS
<1>1. /\ active # <<>> /\ Len(active) = 1 /\ DOMAIN active = {1} /\ Top = active[1]
      /\ Top.size \in Nat
  <2>1. active # <<>> /\ Len(active) = 1
    <3>1. Len(active) = 1 /\ active \in Seq(Activations)
      BY DEF CloseProc, IInv, TypeOK
    <3> QED  BY <3>1
  <2> QED  BY <2>1, TopFacts
<1>2. /\ active' = <<>> /\ frameSize' = AlignUp(Top.size, 16) /\ Hidden' = Hidden
      /\ UNCHANGED <<proc, placed, spillSize, stackArg, opened>>
  BY DEF CloseProc, Hidden
<1>3. frameSize' \in Nat /\ frameSize' >= Top.size
  BY <1>1, <1>2, AlignUpFacts
<1>4. TypeOK'
  BY <1>2, <1>3 DEF IInv, TypeOK, Activations
<1>5. EachFits' /\ AllApart'
  BY <1>2 DEF IInv, EachFits, AllApart
<1>6. Spilling' /\ Nested' /\ Covered' /\ OwnFirst'
  BY <1>1, <1>2 DEF IInv, Spilling, Nested, Covered, OwnFirst
<1>7. Reached'
  <2> SUFFICES ASSUME NEW i \in DOMAIN placed  PROVE -placed[i].off <= frameSize'
    BY <1>2 DEF Reached
  <2>1. placed[i].off \in Int
    BY VarFacts
  <2>2. -placed[i].off <= Top.size
    BY <1>1 DEF IInv, Reached
  <2> QED  BY <1>1, <1>3, <2>1, <2>2
<1> QED  BY <1>4, <1>5, <1>6, <1>7 DEF IInv

---------------------------------------------------------------------------
(* The theorems *)

LEMMA InitKept == InitLayout => IInv
<1> SUFFICES ASSUME InitLayout  PROVE IInv
  OBVIOUS
<1>1. /\ proc \in Procs /\ spillSize = Hidden /\ stackArg = 16 /\ placed = <<>> /\ opened = 0
      /\ active = <<>> /\ frameSize = 0
  BY DEF InitLayout, Hidden
<1>2. Hidden \in Nat
  BY DEF Hidden
<1>3. TypeOK
  BY <1>1, <1>2 DEF TypeOK
<1>4. Spilling /\ Reached
  BY <1>1, <1>2 DEF Spilling, Reached, LaidOut
<1>5. DOMAIN placed = {} /\ DOMAIN active = {}
  BY <1>1
<1>6. EachFits /\ AllApart /\ Nested /\ Covered /\ OwnFirst
  BY <1>5 DEF EachFits, AllApart, Nested, Covered, OwnFirst
<1> QED  BY <1>3, <1>4, <1>6 DEF IInv

LEMMA NextKept == IInv /\ [NextLayout]_layoutVars => IInv'
<1> SUFFICES ASSUME IInv, [NextLayout]_layoutVars  PROVE IInv'
  OBVIOUS
<1>1. CASE UNCHANGED layoutVars
  <2>1. /\ proc' = proc /\ spillSize' = spillSize /\ stackArg' = stackArg /\ placed' = placed
        /\ opened' = opened /\ active' = active /\ frameSize' = frameSize
    BY <1>1 DEF layoutVars
  <2>2. Hidden' = Hidden /\ Activations' = Activations
    BY <2>1 DEF Hidden, Activations
  <2>3. TypeOK'
    BY <2>1, <2>2 DEF IInv, TypeOK
  <2>4. EachFits' /\ AllApart'
    BY <2>1, <2>2 DEF IInv, EachFits, AllApart
  <2>5. Spilling' /\ Nested'
    BY <2>1, <2>2 DEF IInv, Spilling, Nested
  <2>6. Covered' /\ OwnFirst'
    BY <2>1, <2>2 DEF IInv, Covered, OwnFirst
  <2>7. Reached'
    BY <2>1 DEF IInv, Reached, LaidOut
  <2> QED  BY <2>3, <2>4, <2>5, <2>6, <2>7 DEF IInv
<1> QED  BY <1>1, SpillOneKeeps, SpillPairKeeps, TakeStackArgKeeps, OpenProcKeeps, PlaceVarKeeps,
            EnterScopeKeeps, LeaveScopeKeeps, CloseProcKeeps DEF NextLayout

(* In every reachable state the invariant holds. *)
THEOREM Invariance == LayoutSpec => []IInv
BY InitKept, NextKept, PTL DEF LayoutSpec

(* In the frame of every procedure, variables that can be in use at once share
   no byte and nothing the frame keeps for itself is overwritten
   (X64_assign_proc_stack_offsets and what it calls). *)
THEOREM FramesAreDisjoint == LayoutSpec => []FrameDisjoint
<1>1. ASSUME IInv  PROVE FrameDisjoint
  <2>1. ASSUME NEW i \in DOMAIN placed
        PROVE  /\ BytesOf(placed[i]) \cap 0..15 = {}
               /\ IsLarge(proc.ret) => BytesOf(placed[i]) \cap -8..-1 = {}
               /\ LaidOut => placed[i].off >= -frameSize
               /\ placed[i].off % placed[i].type.align = 0
    <3>1. placed[i].off \in Int /\ placed[i].type.size \in Nat /\ frameSize \in Nat
      BY <1>1, VarFacts DEF IInv, TypeOK
    <3>2. Fits(placed[i], Hidden, stackArg, opened)
      BY <1>1 DEF IInv, EachFits
    <3>3. /\ placed[i].off >= 16 \/ placed[i].off + placed[i].type.size <= -Hidden
          /\ placed[i].off % placed[i].type.align = 0
      BY <3>2 DEF Fits
    <3>4. LaidOut => -placed[i].off <= frameSize
      BY <1>1 DEF IInv, Reached
    <3> QED  BY <3>1, <3>3, <3>4 DEF BytesOf, Hidden
  <2>2. ASSUME NEW i \in DOMAIN placed, NEW j \in DOMAIN placed, i < j,
               Together(placed[i], placed[j])
        PROVE  BytesOf(placed[i]) \cap BytesOf(placed[j]) = {}
    <3>1. Apart(placed[i], placed[j])
      BY <1>1, <2>2 DEF IInv, AllApart
    <3>2. /\ placed[i].off \in Int /\ placed[i].type.size \in Nat
          /\ placed[j].off \in Int /\ placed[j].type.size \in Nat
      BY <1>1, VarFacts
    <3> QED  BY <3>1, <3>2 DEF Apart, BytesOf
  <2> QED  BY <2>1, <2>2 DEF FrameDisjoint
<1> QED  BY <1>1, Invariance, PTL

---------------------------------------------------------------------------
(* Caller and callee *)

\* The caller and the callee each assign registers and stack words to the
\* parameter list on their own (XIR_convert_call_args,
\* X64_assign_proc_param_offsets).  They agree: every parameter is spilled from
\* the registers its argument is in, its words in order, or it is where the
\* caller stored it, above the return address.
Spilled(saves, r, size, off) ==
    \E j \in DOMAIN saves : saves[j] = [reg |-> r, size |-> size, off |-> off]
FoundAt(v, saves, t, slot) ==
    /\ v.type = t
    /\ slot.regs = <<>> => v.off = 16 + slot.sp
    /\ \A k \in DOMAIN slot.regs :
          Spilled(saves, slot.regs[k], IF IsObj(t) THEN 8 ELSE t.size, v.off + 8 * (k - 1))
FoundByCallee(i) ==
    FoundAt(placed[i], saved, proc.params[i],
            ArgSlot(Taken(proc.ret, proc.params)[i - 1], proc.params[i]))
ArgumentsAgree == LaidOut => \A i \in DOMAIN proc.params : FoundByCallee(i)

\* The callee is where the caller was after as many arguments.
InStep ==
    /\ saved \in Seq([reg : Int, size : Nat, off : Int])
    /\ opened = 0 =>
          /\ Len(placed) <= Len(proc.params)
          /\ nextReg = Taken(proc.ret, proc.params)[Len(placed)].next
          /\ stackArg = 16 + Taken(proc.ret, proc.params)[Len(placed)].size
    /\ opened > 0 => Len(placed) >= Len(proc.params)
    /\ \A i \in DOMAIN proc.params : i <= Len(placed) => FoundByCallee(i)

Counts == [next : [{"int", "flt"} -> Nat], size : Nat]
Available(s) == \A c \in {"int", "flt"} : s.next[c] <= Len(ArgRegs(c))

LEMMA ArgRegsFacts ==
  ASSUME NEW c \in {"int", "flt"}
  PROVE  ArgRegs(c) \in Seq(Int) /\ Len(ArgRegs(c)) \in {6, 8}
<1>1. CASE c = "int"
  BY <1>1 DEF ArgRegs, RDI, RSI, RDX, RCX, R8, R9
<1>2. CASE c = "flt"
  BY <1>2 DEF ArgRegs, XMM0
<1> QED  BY <1>1, <1>2

LEMMA ArgNumRegsFacts ==
  ASSUME NEW s \in Counts, Available(s), NEW t \in Type
  PROVE  /\ ArgNumRegs(s, t) \in 0..2
         /\ s.next[Class(t)] + ArgNumRegs(s, t) <= Len(ArgRegs(Class(t)))
         /\ AfterArg(s, t) \in Counts /\ Available(AfterArg(s, t))
         /\ Class(t) \in {"int", "flt"}
<1>1. /\ Class(t) \in {"int", "flt"} /\ s.next \in [{"int", "flt"} -> Nat] /\ s.size \in Nat
      /\ t.size \in Nat
  BY DEF Class, Counts, Type
<1>2. s.next[Class(t)] \in Nat /\ Len(ArgRegs(Class(t))) \in {6, 8}
      /\ s.next[Class(t)] <= Len(ArgRegs(Class(t)))
  BY <1>1, ArgRegsFacts DEF Available
<1>3. /\ ArgNumRegs(s, t) \in 0..2
      /\ s.next[Class(t)] + ArgNumRegs(s, t) <= Len(ArgRegs(Class(t)))
  BY <1>2 DEF ArgNumRegs, PlacePrimArg, PlaceObjArg, Left
<1> DEFINE n == ArgNumRegs(s, t)   c == Class(t)
<1> HIDE DEF n, c
<1>4. n \in 0..2 /\ c \in {"int", "flt"} /\ AlignUp(t.size, 8) \in Nat
      /\ s.next[c] + n <= Len(ArgRegs(c))
  BY <1>1, <1>3, AlignUpFacts DEF n, c
<1>5. [s.next EXCEPT ![c] = @ + n] \in [{"int", "flt"} -> Nat]
  BY <1>1, <1>4
<1>6. s.size + (IF n = 0 THEN AlignUp(t.size, 8) ELSE 0) \in Nat
  BY <1>1, <1>4
<1>7. AfterArg(s, t) \in Counts
  BY <1>5, <1>6 DEF AfterArg, Counts, n, c
<1>8. \A d \in {"int", "flt"} : [s.next EXCEPT ![c] = @ + n][d] <= Len(ArgRegs(d))
  BY <1>1, <1>4 DEF Available
<1>9. Available(AfterArg(s, t))
  BY <1>8 DEF AfterArg, Available, n, c
<1> QED  BY <1>1, <1>3, <1>7, <1>9

\* The slot of an argument, by the number of registers it takes.
LEMMA SlotFacts ==
  ASSUME NEW s \in Counts, Available(s), NEW t \in Type
  PROVE  LET n == ArgNumRegs(s, t)   slot == ArgSlot(s, t) IN
         /\ slot.regs \in Seq(Int) /\ Len(slot.regs) = n
         /\ \A k \in 1..n : slot.regs[k] = ArgRegs(Class(t))[s.next[Class(t)] + k]
         /\ n = 0 => slot.sp = s.size
<1> DEFINE n == ArgNumRegs(s, t)   regs == ArgRegs(Class(t))   from == s.next[Class(t)]
<1>1. /\ n \in 0..2 /\ from + n <= Len(regs) /\ Class(t) \in {"int", "flt"}
      /\ regs \in Seq(Int) /\ Len(regs) \in Nat
  BY ArgNumRegsFacts, ArgRegsFacts
<1>2. from \in Nat
  BY <1>1 DEF Counts
<1>3. ArgSlot(s, t) = [regs |-> SubSeq(regs, from + 1, from + n), sp |-> IF n = 0 THEN s.size ELSE 0]
  BY DEF ArgSlot
<1> HIDE DEF n, regs, from
<1>4. from + 1 \in 1..(Len(regs) + 1) /\ from + n \in ((from + 1) - 1)..Len(regs)
  BY <1>1, <1>2
<1>5. /\ SubSeq(regs, from + 1, from + n) \in Seq(Int)
      /\ Len(SubSeq(regs, from + 1, from + n)) = n
      /\ \A k \in 1..n : SubSeq(regs, from + 1, from + n)[k] = regs[from + k]
  <2> DEFINE lo == from + 1   hi == from + n
  <2>1. lo \in Int /\ hi \in Int /\ n \in Nat /\ \A i \in lo..hi : regs[i] \in Int
    BY <1>1, <1>2
  <2> HIDE DEF lo, hi
  <2>2. /\ SubSeq(regs, lo, hi) \in Seq(Int)
        /\ Len(SubSeq(regs, lo, hi)) = IF lo <= hi THEN hi - lo + 1 ELSE 0
        /\ \A i \in 1..(hi - lo + 1) : SubSeq(regs, lo, hi)[i] = regs[lo + i - 1]
    BY <2>1, SubSeqProperties
  <2>3. hi - lo + 1 = n /\ (lo <= hi <=> n > 0) /\ \A k \in 1..n : lo + k - 1 = from + k
    BY <1>1, <1>2 DEF lo, hi
  <2>4. Len(SubSeq(regs, lo, hi)) = n
    BY <2>1, <2>2, <2>3
  <2>5. \A k \in 1..n : SubSeq(regs, lo, hi)[k] = regs[from + k]
    BY <2>2, <2>3
  <2> QED  BY <2>2, <2>4, <2>5 DEF lo, hi
<1> QED  BY <1>3, <1>5 DEF n, regs, from

(* Induction over a set of numbers. *)
LEMMA Counting ==
  ASSUME NEW S, 0 \in S, \A n \in Nat : n \in S => n + 1 \in S
  PROVE  \A n \in Nat : n \in S
<1> SUFFICES ASSUME NEW n \in Nat, n \notin S  PROVE FALSE
  OBVIOUS
<1> DEFINE T == {k \in Nat : k \notin S}
<1>1. T # {} /\ T \subseteq Nat
  OBVIOUS
<1>2. PICK m \in T : \A k \in T : ~ (<<k, m>> \in OpToRel(<, Nat))
  BY ONLY <1>1, WFMin, NatLessThanWellFounded
<1>3. \A k \in T : ~ (k < m)
  BY <1>1, <1>2 DEF OpToRel
<1>4. m \in Nat /\ m # 0
  OBVIOUS
<1>5. m - 1 \in Nat /\ m - 1 < m /\ (m - 1) + 1 = m
  BY ONLY <1>4
<1>6. m - 1 \in S
  BY <1>3, <1>5
<1> QED  BY <1>5, <1>6

IsTaken(f, ret, args) ==
  f = [n \in 0..Len(args) |-> IF n = 0 THEN [next |-> FirstArg(ret), size |-> 0]
                                       ELSE AfterArg(f[n - 1], args[n])]

LEMMA TakenExists ==
  ASSUME NEW ret, NEW args, Len(args) \in Nat
  PROVE  IsTaken(Taken(ret, args), ret, args)
<1> DEFINE first == [next |-> FirstArg(ret), size |-> 0]
           Part(f, k) == f = [n \in 0..k |-> IF n = 0 THEN first ELSE AfterArg(f[n - 1], args[n])]
           S == {k \in Nat : \E f : Part(f, k)}
<1>0. Taken(ret, args) = CHOOSE h : IsTaken(h, ret, args)
  BY DEF Taken, IsTaken
<1>0a. \A f : Part(f, Len(args)) => IsTaken(f, ret, args)
  BY DEF IsTaken
<1> HIDE DEF first
<1>1. 0 \in S
  <2>1. Part([n \in 0..0 |-> first], 0)
    OBVIOUS
  <2> QED  BY <2>1
<1>2. ASSUME NEW k \in Nat, k \in S  PROVE k + 1 \in S
  <2>1. PICK f : Part(f, k)
    BY <1>2
  <2> DEFINE g == [n \in 0..(k + 1) |-> IF n = 0 THEN first ELSE AfterArg(f[n - 1], args[n])]
  <2>2. \A n \in 0..k : g[n] = f[n]
    BY <2>1
  <2>3. \A n \in 0..(k + 1) : n = 0 \/ n - 1 \in 0..k
    OBVIOUS
  <2>4. \A n \in 0..(k + 1) : g[n] = IF n = 0 THEN first ELSE AfterArg(g[n - 1], args[n])
    BY <2>2, <2>3
  <2>5. g = [n \in 0..(k + 1) |-> g[n]]
    OBVIOUS
  <2> HIDE DEF g
  <2>6. Part(g, k + 1)
    BY <2>4, <2>5
  <2> QED  BY <2>6
<1> HIDE DEF S
<1>3. \A k \in Nat : k \in S
  BY ONLY <1>1, <1>2, Counting
<1>4. PICK f : Part(f, Len(args))
  BY <1>3 DEF S
<1> HIDE DEF Part
<1> QED  BY <1>0, <1>0a, <1>4

LEMMA TakenIs ==
  ASSUME NEW ret, NEW args \in Seq(Type)
  PROVE  /\ Taken(ret, args)[0] = [next |-> FirstArg(ret), size |-> 0]
         /\ \A k \in 1..Len(args) :
              Taken(ret, args)[k] = AfterArg(Taken(ret, args)[k - 1], args[k])
<1>1. Len(args) \in Nat
  OBVIOUS
<1>2. IsTaken(Taken(ret, args), ret, args)
  BY <1>1, TakenExists
<1> DEFINE u == Taken(ret, args)
<1> HIDE DEF u
<1>3. u = [k \in 0..Len(args) |-> IF k = 0 THEN [next |-> FirstArg(ret), size |-> 0]
                                           ELSE AfterArg(u[k - 1], args[k])]
  BY <1>2 DEF IsTaken, u
<1>4. /\ u[0] = [next |-> FirstArg(ret), size |-> 0]
      /\ \A k \in 1..Len(args) : u[k] = AfterArg(u[k - 1], args[k])
  BY <1>1, <1>3
<1> QED  BY <1>4 DEF u

LEMMA TakenType ==
  ASSUME NEW ret, NEW args \in Seq(Type)
  PROVE  \A k \in 0..Len(args) : Taken(ret, args)[k] \in Counts /\ Available(Taken(ret, args)[k])
<1> DEFINE S == {k \in Nat : k <= Len(args) =>
                   Taken(ret, args)[k] \in Counts /\ Available(Taken(ret, args)[k])}
<1>1. 0 \in S
  <2>1. FirstArg(ret) \in [{"int", "flt"} -> {0, 1}]
    BY DEF FirstArg
  <2>2. [next |-> FirstArg(ret), size |-> 0] \in Counts
    BY <2>1 DEF Counts
  <2>3. \A c \in {"int", "flt"} : FirstArg(ret)[c] <= Len(ArgRegs(c))
    <3> SUFFICES ASSUME NEW c \in {"int", "flt"}  PROVE FirstArg(ret)[c] <= Len(ArgRegs(c))
      OBVIOUS
    <3>1. Len(ArgRegs(c)) \in {6, 8} /\ FirstArg(ret)[c] \in {0, 1}
      BY <2>1, ArgRegsFacts
    <3>2. \A x, y : x \in {6, 8} /\ y \in {0, 1} => y <= x
      OBVIOUS
    <3> QED  BY ONLY <3>1, <3>2
  <2>4. Available([next |-> FirstArg(ret), size |-> 0])
    BY <2>3 DEF Available
  <2> QED  BY <2>2, <2>4, TakenIs
<1>2. ASSUME NEW k \in Nat, k \in S  PROVE k + 1 \in S
  <2> SUFFICES ASSUME k + 1 <= Len(args)
               PROVE  Taken(ret, args)[k + 1] \in Counts /\ Available(Taken(ret, args)[k + 1])
    OBVIOUS
  <2>1. k + 1 \in 1..Len(args) /\ (k + 1) - 1 = k /\ k <= Len(args) /\ args[k + 1] \in Type
    OBVIOUS
  <2>2. Taken(ret, args)[k + 1] = AfterArg(Taken(ret, args)[k], args[k + 1])
    BY <2>1, TakenIs
  <2>3. Taken(ret, args)[k] \in Counts /\ Available(Taken(ret, args)[k])
    BY <1>2, <2>1
  <2> QED  BY <2>1, <2>2, <2>3, ArgNumRegsFacts
<1> HIDE DEF S
<1>3. \A k \in Nat : k \in S
  BY ONLY <1>1, <1>2, Counting
<1> QED  BY <1>3 DEF S

Saves == [reg : Int, size : Nat, off : Int]
Here  == Taken(proc.ret, proc.params)[Len(placed)]

LEMMA HereFacts ==
  ASSUME IInv, InStep, TakesParam
  PROVE  /\ Len(placed) \in Nat /\ Len(placed) + 1 \in DOMAIN proc.params
         /\ DOMAIN proc.params = 1..Len(proc.params)
         /\ Param = proc.params[Len(placed) + 1] /\ Param \in Type
         /\ Here \in Counts /\ Available(Here)
         /\ nextReg = Here.next /\ stackArg = 16 + Here.size
         /\ Taken(proc.ret, proc.params)[Len(placed) + 1] = AfterArg(Here, Param)
<1>1. proc.params \in Seq(Type) /\ Len(placed) \in Nat
  BY ProcFacts DEF IInv, TypeOK
<1>2. /\ Len(placed) + 1 \in 1..Len(proc.params) /\ Len(placed) \in 0..Len(proc.params)
      /\ DOMAIN proc.params = 1..Len(proc.params) /\ (Len(placed) + 1) - 1 = Len(placed)
  BY <1>1 DEF TakesParam
<1>3. Here \in Counts /\ Available(Here)
  BY <1>1, <1>2, TakenType DEF Here
<1>4. Taken(proc.ret, proc.params)[Len(placed) + 1] = AfterArg(Here, Param)
  BY <1>1, <1>2, TakenIs DEF Here, Param
<1>5. nextReg = Here.next /\ stackArg = 16 + Here.size
  BY DEF InStep, TakesParam, Here
<1> QED  BY <1>1, <1>2, <1>3, <1>4, <1>5, ParamType DEF Param

\* What is spilled stays so.
LEMMA SpilledStays ==
  ASSUME saved \in Seq(Saves), NEW saves \in Seq(Saves), saved' = saved \o saves
  PROVE  /\ saved' \in Seq(Saves)
         /\ \A r, size, off : Spilled(saved, r, size, off) => Spilled(saved', r, size, off)
         /\ \A r, size, off : Spilled(saves, r, size, off)
                                 => Spilled(saved', r, size, off)
<1>1. /\ saved' \in Seq(Saves) /\ Len(saved') = Len(saved) + Len(saves)
      /\ \A j \in 1..Len(saved) : saved'[j] = saved[j]
      /\ \A j \in 1..Len(saves) : saved'[Len(saved) + j] = saves[j]
      /\ Len(saved) \in Nat /\ Len(saves) \in Nat
      /\ DOMAIN saved = 1..Len(saved) /\ DOMAIN saves = 1..Len(saves) /\ DOMAIN saved' = 1..Len(saved')
  BY ConcatProperties
<1>2. ASSUME NEW r, NEW size, NEW off, Spilled(saved, r, size, off)  PROVE Spilled(saved', r, size, off)
  <2>1. PICK j \in DOMAIN saved : saved[j] = [reg |-> r, size |-> size, off |-> off]
    BY <1>2 DEF Spilled
  <2>2. j \in DOMAIN saved' /\ saved'[j] = [reg |-> r, size |-> size, off |-> off]
    BY <1>1, <2>1
  <2> QED  BY <2>2 DEF Spilled
<1>3. ASSUME NEW r, NEW size, NEW off, Spilled(saves, r, size, off)
      PROVE  Spilled(saved', r, size, off)
  <2>0. PICK j \in DOMAIN saves : saves[j] = [reg |-> r, size |-> size, off |-> off]
    BY <1>3 DEF Spilled
  <2>1. /\ Len(saved) + j \in DOMAIN saved'
        /\ saved'[Len(saved) + j] = [reg |-> r, size |-> size, off |-> off]
    BY <1>1, <2>0
  <2> QED  BY <2>1 DEF Spilled
<1> QED  BY <1>1, <1>2, <1>3

LEMMA OneParamMore ==
  ASSUME IInv, InStep, TakesParam, NEW v \in Vars, v.type = Param, placed' = Append(placed, v),
         proc' = proc, opened' = opened,
         NEW saves \in Seq(Saves), saved' = saved \o saves,
         nextReg' = AfterArg(Here, Param).next, stackArg' = 16 + AfterArg(Here, Param).size,
         FoundAt(v, saves, Param, ArgSlot(Here, Param))
  PROVE  InStep'
<1>0. PICK n : n = Len(placed)
  OBVIOUS
<1>1. /\ placed \in Seq(Vars) /\ opened = 0 /\ saved \in Seq(Saves)
  BY DEF IInv, TypeOK, TakesParam, InStep, Saves
<1>2. /\ n \in Nat /\ n + 1 \in DOMAIN proc.params /\ DOMAIN proc.params = 1..Len(proc.params)
      /\ Param = proc.params[n + 1] /\ Param \in Type
      /\ Taken(proc.ret, proc.params)[n + 1] = AfterArg(Here, Param)
  BY <1>0, HereFacts
<1>3. /\ Len(placed') = n + 1 /\ placed'[n + 1] = v
      /\ \A i \in 1..n : placed'[i] = placed[i]
  BY <1>0, <1>1, Appended
<1>4. /\ saved' \in Seq(Saves)
      /\ \A r, size, off : Spilled(saved, r, size, off) => Spilled(saved', r, size, off)
      /\ \A r, size, off : Spilled(saves, r, size, off)
                             => Spilled(saved', r, size, off)
  BY <1>1, SpilledStays
<1>5. ASSUME NEW i \in 1..n, FoundByCallee(i)  PROVE FoundByCallee(i)'
  <2> DEFINE slot == ArgSlot(Taken(proc.ret, proc.params)[i - 1], proc.params[i])
  <2>1. placed'[i] = placed[i]
    BY <1>3
  <2>2. FoundAt(placed[i], saved, proc.params[i], slot)
    BY <1>5 DEF FoundByCallee
  <2>3. FoundAt(placed[i], saved', proc.params[i], slot)
    <3> HIDE DEF slot
    <3> QED  BY <1>4, <2>2 DEF FoundAt
  <2>4. FoundAt(placed'[i], saved', proc'.params[i],
                ArgSlot(Taken(proc'.ret, proc'.params)[i - 1], proc'.params[i]))
    BY <2>1, <2>3
  <2> QED  BY <2>4 DEF FoundByCallee
<1>6. FoundByCallee(n + 1)'
  <2>1. FoundAt(v, saved', Param, ArgSlot(Here, Param))
    BY <1>4 DEF FoundAt
  <2>2. Here = Taken(proc.ret, proc.params)[(n + 1) - 1]
    BY <1>0, <1>2 DEF Here
  <2>3. FoundAt(placed'[n + 1], saved', proc'.params[n + 1],
                ArgSlot(Taken(proc'.ret, proc'.params)[(n + 1) - 1], proc'.params[n + 1]))
    BY <1>2, <1>3, <2>1, <2>2
  <2> QED  BY <2>3 DEF FoundByCallee
<1>7. \A i \in DOMAIN proc.params : i <= n + 1 => FoundByCallee(i)'
  <2> SUFFICES ASSUME NEW i \in DOMAIN proc.params, i <= n + 1  PROVE FoundByCallee(i)'
    OBVIOUS
  <2>1. i \in 1..n \/ i = n + 1
    BY <1>2
  <2>2. CASE i \in 1..n
    <3>1. FoundByCallee(i)
      BY <1>0, <1>2, <2>2 DEF InStep
    <3> QED  BY <1>5, <2>2, <3>1
  <2> QED  BY <1>6, <2>1, <2>2
<1>8. n + 1 <= Len(proc.params)
  BY <1>2
<1> QED  BY <1>0, <1>1, <1>2, <1>3, <1>4, <1>7, <1>8 DEF InStep, Saves

\* The caller's choice for the next parameter is the callee's.
LEMMA SameChoice ==
  ASSUME IInv, InStep, TakesParam
  PROVE  /\ ArgNumRegs(Here, Param) = IF FitsOne THEN 1 ELSE IF FitsPair THEN 2 ELSE 0
         /\ Class(Param) \in {"int", "flt"} /\ nextReg \in [{"int", "flt"} -> Nat]
         /\ AfterArg(Here, Param).next
               = [nextReg EXCEPT ![Class(Param)] = @ + ArgNumRegs(Here, Param)]
         /\ 16 + AfterArg(Here, Param).size
               = stackArg + (IF ArgNumRegs(Here, Param) = 0 THEN AlignUp(Param.size, 8) ELSE 0)
         /\ ArgSlot(Here, Param).regs \in Seq(Int)
         /\ Len(ArgSlot(Here, Param).regs) = ArgNumRegs(Here, Param)
         /\ \A k \in 1..ArgNumRegs(Here, Param) : /\ ArgSlot(Here, Param).regs[k] = NextArgReg(k)
                                                /\ NextArgReg(k) \in Int
         /\ ArgNumRegs(Here, Param) = 0 => stackArg = 16 + ArgSlot(Here, Param).sp
<1>1. /\ Here \in Counts /\ Available(Here) /\ nextReg = Here.next /\ stackArg = 16 + Here.size
      /\ Param \in Type
  BY HereFacts
<1>2. /\ Class(Param) \in {"int", "flt"} /\ nextReg \in [{"int", "flt"} -> Nat]
      /\ Here.size \in Nat /\ Param.size \in Nat
  BY <1>1 DEF Class, Counts, Type
<1>3. /\ nextReg[Class(Param)] \in Nat /\ Len(ArgRegs(Class(Param))) \in {6, 8}
  BY <1>2, ArgRegsFacts
<1>4. ArgNumRegs(Here, Param) = IF FitsOne THEN 1 ELSE IF FitsPair THEN 2 ELSE 0
  <2>1. \A n \in {1, 2} : HasRegs(n) <=> Left(Here, Param) >= n
    BY <1>1, <1>3 DEF HasRegs, Left
  <2> QED  BY <1>2, <2>1 DEF FitsOne, FitsPair, ArgNumRegs, PlacePrimArg, PlaceObjArg
<1> DEFINE n == ArgNumRegs(Here, Param)
<1>5. AfterArg(Here, Param).next = [nextReg EXCEPT ![Class(Param)] = @ + n]
  BY <1>1 DEF AfterArg
<1>6. 16 + AfterArg(Here, Param).size = stackArg + (IF n = 0 THEN AlignUp(Param.size, 8) ELSE 0)
  <2>1. AlignUp(Param.size, 8) \in Nat
    BY <1>2, AlignUpFacts
  <2>2. AfterArg(Here, Param).size = Here.size + (IF n = 0 THEN AlignUp(Param.size, 8) ELSE 0)
    BY DEF AfterArg
  <2> HIDE DEF n
  <2> QED  BY <1>1, <1>2, <2>1, <2>2
<1>7. /\ ArgSlot(Here, Param).regs \in Seq(Int) /\ Len(ArgSlot(Here, Param).regs) = n
      /\ \A k \in 1..n : ArgSlot(Here, Param).regs[k] = ArgRegs(Class(Param))[nextReg[Class(Param)] + k]
      /\ n = 0 => ArgSlot(Here, Param).sp = Here.size
  BY <1>1, SlotFacts
<1>8. \A k \in 1..n : ArgSlot(Here, Param).regs[k] \in Int
  BY <1>7
<1> QED  BY <1>1, <1>2, <1>4, <1>5, <1>6, <1>7, <1>8 DEF NextArgReg

\* A multiple of the alignment needs no padding after a word more.
LEMMA WordAligned ==
  ASSUME NEW n \in Nat, NEW a \in {1, 2, 4, 8}, (-n) % a = 0
  PROVE  AlignUp(n + 8, a) = n + 8
<1>1. CASE a = 1
  BY <1>1 DEF AlignUp
<1>2. CASE a = 2
  BY <1>2 DEF AlignUp
<1>3. CASE a = 4
  BY <1>3 DEF AlignUp
<1>4. CASE a = 8
  BY <1>4 DEF AlignUp
<1> QED  BY <1>1, <1>2, <1>3, <1>4

\* The callee's two roundings of a stack argument are the caller's one.
LEMMA StackWords ==
  ASSUME NEW n \in Nat, n % 8 = 0, NEW size \in Nat, NEW a \in {1, 2, 4, 8}
  PROVE  AlignUp(AlignUp(n + size, a), 8) = n + AlignUp(size, 8)
<1>1. CASE a = 1
  BY <1>1 DEF AlignUp
<1>2. CASE a = 2
  BY <1>2 DEF AlignUp
<1>3. CASE a = 4
  BY <1>3 DEF AlignUp
<1>4. CASE a = 8
  BY <1>4 DEF AlignUp
<1> QED  BY <1>1, <1>2, <1>3, <1>4

LEMMA SpillOneInStep == IInv /\ InStep /\ SpillOne => InStep'
<1> SUFFICES ASSUME IInv, InStep, SpillOne  PROVE InStep'
  OBVIOUS
<1>1. PICK size, off : /\ size = (IF IsObj(Param) THEN 8 ELSE Param.size)
                       /\ off = -Below(spillSize, size, Param.align)
                       /\ SpillTo(off, 1, <<[reg |-> NextArgReg(1), size |-> size, off |-> off]>>)
  BY DEF SpillOne
<1>2. TakesParam /\ FitsOne /\ Param \in Type /\ Param.size \in Nat /\ spillSize \in Nat
  BY ParamType DEF SpillOne, IInv, TypeOK
<1>3. size \in Nat /\ off \in Int
  <2>1. size \in Nat
    BY <1>1, <1>2
  <2>2. Below(spillSize, size, Param.align) \in Nat
    BY <1>2, <2>1, BelowFacts
  <2> QED  BY <1>1, <2>1, <2>2
<1> DEFINE v == Placed(off, Param, {})
           saves == <<[reg |-> NextArgReg(1), size |-> size, off |-> off]>>
           slot == ArgSlot(Here, Param)
<1>4. /\ ArgNumRegs(Here, Param) = 1 /\ Class(Param) \in {"int", "flt"}
      /\ AfterArg(Here, Param).next = [nextReg EXCEPT ![Class(Param)] = @ + 1]
      /\ 16 + AfterArg(Here, Param).size = stackArg + 0
      /\ slot.regs \in Seq(Int) /\ Len(slot.regs) = 1
      /\ slot.regs[1] = NextArgReg(1) /\ NextArgReg(1) \in Int
  BY <1>2, SameChoice
<1>5. v \in Vars /\ v.off = off /\ v.type = Param
  BY <1>2, <1>3 DEF Placed, Vars
<1>6. saves \in Seq(Saves) /\ DOMAIN saves = {1}
      /\ saves[1] = [reg |-> NextArgReg(1), size |-> size, off |-> off]
  BY <1>3, <1>4 DEF Saves
<1>7. FoundAt(v, saves, Param, slot)
  <2>1. DOMAIN slot.regs = {1} /\ slot.regs # <<>>
    <3> HIDE DEF slot
    <3> QED  BY <1>4
  <2>2. Spilled(saves, slot.regs[1], size, off)
    BY <1>4, <1>6 DEF Spilled
  <2>3. off + 8 * (1 - 1) = off
    BY <1>3
  <2> HIDE DEF slot, saves, v
  <2> QED  BY <1>1, <1>5, <2>1, <2>2, <2>3 DEF FoundAt
<1>8. /\ placed' = Append(placed, v) /\ proc' = proc /\ opened' = opened /\ saved' = saved \o saves
      /\ nextReg' = [nextReg EXCEPT ![Class(Param)] = @ + 1] /\ stackArg' = stackArg
      /\ stackArg \in Nat
  BY <1>1 DEF SpillTo, IInv, TypeOK
<1>9. nextReg' = AfterArg(Here, Param).next /\ stackArg' = 16 + AfterArg(Here, Param).size
  BY <1>4, <1>8
<1> HIDE DEF v, saves
<1> QED  BY <1>2, <1>5, <1>6, <1>7, <1>8, <1>9, OneParamMore

LEMMA SpillPairInStep == IInv /\ InStep /\ SpillPair => InStep'
<1> SUFFICES ASSUME IInv, InStep, SpillPair  PROVE InStep'
  OBVIOUS
<1>1. PICK high, low : /\ high = -Below(spillSize, 8, Param.align)
                       /\ low = -Below(-high, 8, Param.align)
                       /\ SpillTo(low, 2, PairSaves(high, low))
  BY DEF SpillPair
<1>2. /\ TakesParam /\ ~FitsOne /\ FitsPair /\ IsObj(Param) /\ Param \in Type /\ spillSize \in Nat
      /\ Param.align \in {1, 2, 4, 8}
  <2>1. TakesParam /\ FitsPair /\ Param \in Type /\ Param.size \in Nat /\ spillSize \in Nat
    BY ParamType DEF SpillPair, IInv, TypeOK
  <2> QED  BY <2>1 DEF FitsOne, FitsPair, Type
<1>3. high \in Int /\ low \in Int /\ high = low + 8
  <2>0. /\ Below(spillSize, 8, Param.align) \in Nat
        /\ (-Below(spillSize, 8, Param.align)) % Param.align = 0
    BY <1>2, BelowFacts
  <2>1. -high \in Nat /\ high % Param.align = 0 /\ high \in Int
    BY <1>1, <2>0
  <2>2. PICK n \in Nat : n = -high
    BY <2>1
  <2>3. AlignUp(n + 8, Param.align) = n + 8
    <3>1. -n = high
      BY <2>1, <2>2
    <3> QED  BY <1>2, <2>1, <2>2, <3>1, WordAligned
  <2> QED  BY <1>1, <2>1, <2>2, <2>3 DEF Below
<1> DEFINE v == Placed(low, Param, {})
           saves == PairSaves(high, low)
           slot == ArgSlot(Here, Param)
<1>4. /\ ArgNumRegs(Here, Param) = 2 /\ Class(Param) \in {"int", "flt"}
      /\ AfterArg(Here, Param).next = [nextReg EXCEPT ![Class(Param)] = @ + 2]
      /\ 16 + AfterArg(Here, Param).size = stackArg + 0
      /\ slot.regs \in Seq(Int) /\ Len(slot.regs) = 2
      /\ slot.regs[1] = NextArgReg(1) /\ NextArgReg(1) \in Int
      /\ slot.regs[2] = NextArgReg(2) /\ NextArgReg(2) \in Int
  BY <1>2, SameChoice
<1>5. v \in Vars /\ v.off = low /\ v.type = Param
  BY <1>2, <1>3 DEF Placed, Vars
<1>6. /\ saves \in Seq(Saves) /\ DOMAIN saves = {1, 2}
      /\ saves[1] = [reg |-> NextArgReg(2), size |-> 8, off |-> high]
      /\ saves[2] = [reg |-> NextArgReg(1), size |-> 8, off |-> low]
  BY <1>3, <1>4 DEF Saves, PairSaves
<1>7. FoundAt(v, saves, Param, slot)
  <2>1. DOMAIN slot.regs = {1, 2} /\ slot.regs # <<>>
    <3> HIDE DEF slot
    <3> QED  BY <1>4
  <2>2. Spilled(saves, slot.regs[1], 8, low) /\ Spilled(saves, slot.regs[2], 8, high)
    BY <1>4, <1>6 DEF Spilled
  <2>3. low + 8 * (1 - 1) = low /\ low + 8 * (2 - 1) = high
    BY <1>3
  <2> HIDE DEF slot, saves, v
  <2> QED  BY <1>2, <1>5, <2>1, <2>2, <2>3 DEF FoundAt
<1>8. /\ placed' = Append(placed, v) /\ proc' = proc /\ opened' = opened /\ saved' = saved \o saves
      /\ nextReg' = [nextReg EXCEPT ![Class(Param)] = @ + 2] /\ stackArg' = stackArg
      /\ stackArg \in Nat
  BY <1>1 DEF SpillTo, IInv, TypeOK
<1>9. nextReg' = AfterArg(Here, Param).next /\ stackArg' = 16 + AfterArg(Here, Param).size
  BY <1>4, <1>8
<1> HIDE DEF v, saves
<1> QED  BY <1>2, <1>5, <1>6, <1>7, <1>8, <1>9, OneParamMore

LEMMA TakeStackArgInStep == IInv /\ InStep /\ TakeStackArg => InStep'
<1> SUFFICES ASSUME IInv, InStep, TakeStackArg  PROVE InStep'
  OBVIOUS
<1>1. /\ TakesParam /\ ~FitsOne /\ ~FitsPair /\ Param \in Type /\ Param.size \in Nat
      /\ Param.align \in {1, 2, 4, 8} /\ stackArg \in Nat /\ stackArg % 8 = 0
  <2>1. TakesParam /\ Param \in Type /\ Param.size \in Nat
    BY ParamType DEF TakeStackArg
  <2> QED  BY <2>1 DEF TakeStackArg, Type, IInv, TypeOK
<1> DEFINE v == Placed(stackArg, Param, {})
           slot == ArgSlot(Here, Param)
<1>2. /\ ArgNumRegs(Here, Param) = 0 /\ Class(Param) \in {"int", "flt"}
      /\ nextReg \in [{"int", "flt"} -> Nat]
      /\ AfterArg(Here, Param).next = [nextReg EXCEPT ![Class(Param)] = @ + 0]
      /\ 16 + AfterArg(Here, Param).size = stackArg + AlignUp(Param.size, 8)
      /\ slot.regs \in Seq(Int) /\ Len(slot.regs) = 0
      /\ stackArg = 16 + slot.sp
  BY <1>1, SameChoice
<1>3. v \in Vars /\ v.off = stackArg /\ v.type = Param
  BY <1>1 DEF Placed, Vars
<1>4. FoundAt(v, <<>>, Param, slot)
  <2>1. DOMAIN slot.regs = {}
    <3> HIDE DEF slot
    <3> QED  BY <1>2
  <2> HIDE DEF slot, v
  <2> QED  BY <1>2, <1>3, <2>1 DEF FoundAt
<1>5. /\ placed' = Append(placed, v) /\ proc' = proc /\ opened' = opened /\ saved' = saved
      /\ nextReg' = nextReg /\ stackArg' = AlignUp(AlignUp(stackArg + Param.size, Param.align), 8)
  BY DEF TakeStackArg
<1>6. saved' = saved \o <<>> /\ <<>> \in Seq(Saves)
  <2>1. saved \in Seq(Saves)
    BY DEF InStep, Saves
  <2> QED  BY <1>5, <2>1, ConcatEmptySeq
<1>7. nextReg' = AfterArg(Here, Param).next
  <2>1. \A f \in [{"int", "flt"} -> Nat] : \A c \in {"int", "flt"} : f[c] + 0 = f[c]
    OBVIOUS
  <2>2. [nextReg EXCEPT ![Class(Param)] = @ + 0] = nextReg
    BY <1>2, <2>1
  <2> QED  BY <1>2, <1>5, <2>2
<1>8. stackArg' = 16 + AfterArg(Here, Param).size
  BY <1>1, <1>2, <1>5, StackWords
<1> HIDE DEF v
<1> QED  BY <1>1, <1>3, <1>4, <1>5, <1>6, <1>7, <1>8, OneParamMore

\* After the parameters, only variables are placed.
LEMMA LaterInStep ==
  ASSUME IInv, InStep, proc' = proc, saved' = saved, opened' > 0,
         Len(placed) >= Len(proc.params),
         placed' = placed \/ \E v \in Vars : placed' = Append(placed, v)
  PROVE  InStep'
<1>1. /\ placed \in Seq(Vars) /\ Len(placed) \in Nat /\ DOMAIN proc.params = 1..Len(proc.params)
      /\ Len(proc.params) \in Nat
  BY ProcFacts DEF IInv, TypeOK
<1>2. Len(placed') >= Len(proc.params) /\ \A i \in DOMAIN proc.params : placed'[i] = placed[i]
  <2>1. CASE placed' = placed
    BY <2>1
  <2>2. ASSUME NEW v \in Vars, placed' = Append(placed, v)
        PROVE  Len(placed') >= Len(proc.params) /\ \A i \in DOMAIN proc.params : placed'[i] = placed[i]
    BY <1>1, <2>2, Appended
  <2> QED  BY <2>1, <2>2
<1>3. ASSUME NEW i \in DOMAIN proc.params  PROVE FoundByCallee(i)'
  <2>1. FoundByCallee(i)
    BY <1>1 DEF InStep
  <2>2. FoundAt(placed'[i], saved', proc'.params[i],
                ArgSlot(Taken(proc'.ret, proc'.params)[i - 1], proc'.params[i]))
    BY <1>2, <2>1 DEF FoundByCallee
  <2> QED  BY <2>2 DEF FoundByCallee
<1>4. opened' # 0
  BY DEF IInv, TypeOK
<1> QED  BY <1>2, <1>3, <1>4 DEF InStep

LEMMA NextInStep == IInv /\ InStep /\ [NextLayout]_layoutVars => InStep'
<1> SUFFICES ASSUME IInv, InStep, [NextLayout]_layoutVars  PROVE InStep'
  OBVIOUS
<1>1. opened \in Nat /\ (active # <<>> => opened > 0)
  BY DEF IInv, TypeOK, Spilling
<1>2. opened > 0 => Len(placed) >= Len(proc.params)
  BY DEF InStep
<1>3. CASE UNCHANGED layoutVars
  BY <1>3 DEF layoutVars, InStep, FoundByCallee
<1>4. CASE OpenProc
  <2>1. Len(placed) >= Len(proc.params)
    BY <1>4, ProcFacts DEF OpenProc, IInv, TypeOK
  <2> QED  BY <1>4, <2>1, LaterInStep DEF OpenProc
<1>5. CASE PlaceVar
  <2>1. PICK n : placed' = Append(placed, Placed(-n, Head(Top.own), Top.within))
                 /\ n = Below(Top.size, Head(Top.own).size, Head(Top.own).align)
    BY <1>5 DEF PlaceVar
  <2>2. active # <<>> /\ Top.own # <<>> /\ proc' = proc /\ saved' = saved /\ opened' = opened
    BY <1>5 DEF PlaceVar
  <2>3. Placed(-n, Head(Top.own), Top.within) \in Vars
    <3>1. Top.own \in Seq(Type) /\ Top.size \in Nat /\ Top.within \in SUBSET Nat
      BY <2>2, TopFacts DEF Activations
    <3>2. Head(Top.own) \in Type
      BY <2>2, <3>1
    <3>3. Head(Top.own).size \in Nat
      BY <3>2 DEF Type
    <3>4. n \in Nat
      BY <2>1, <3>1, <3>2, <3>3, BelowFacts
    <3>5. -n \in Int
      BY <3>4
    <3> QED  BY <3>1, <3>2, <3>5 DEF Placed, Vars
  <2> QED  BY <1>1, <1>2, <2>1, <2>2, <2>3, LaterInStep
<1>6. CASE EnterScope \/ LeaveScope \/ CloseProc
  <2>1. active # <<>> /\ proc' = proc /\ saved' = saved /\ placed' = placed
        /\ (opened' = opened \/ opened' = opened + 1)
    BY <1>6 DEF EnterScope, LeaveScope, CloseProc
  <2>2. opened' > 0
    BY <1>1, <2>1
  <2> QED  BY <1>1, <1>2, <2>1, <2>2, LaterInStep
<1> QED  BY <1>3, <1>4, <1>5, <1>6, SpillOneInStep, SpillPairInStep, TakeStackArgInStep DEF NextLayout

LEMMA InitInStep == InitLayout => InStep
<1> SUFFICES ASSUME InitLayout  PROVE InStep
  OBVIOUS
<1>1. /\ proc \in Procs /\ placed = <<>> /\ opened = 0 /\ stackArg = 16 /\ nextReg = FirstArg(proc.ret)
      /\ saved = (IF IsLarge(proc.ret) THEN <<[reg |-> RDI, size |-> 8, off |-> -8]>> ELSE <<>>)
  BY DEF InitLayout
<1>2. proc.params \in Seq(Type) /\ Len(proc.params) \in Nat /\ DOMAIN proc.params = 1..Len(proc.params)
  BY <1>1, ProcFacts
<1>3. saved \in Seq([reg : Int, size : Nat, off : Int])
  <2>1. [reg |-> RDI, size |-> 8, off |-> -8] \in [reg : Int, size : Nat, off : Int]
    BY DEF RDI
  <2>2. \A S, e : e \in S => <<e>> \in Seq(S)
    OBVIOUS
  <2>3. \A S : <<>> \in Seq(S)
    OBVIOUS
  <2>4. CASE IsLarge(proc.ret)
    <3>1. saved = <<[reg |-> RDI, size |-> 8, off |-> -8]>>
      BY <1>1, <2>4
    <3> QED  BY <2>1, <2>2, <3>1
  <2>5. CASE ~IsLarge(proc.ret)
    BY <1>1, <2>3, <2>5
  <2> QED  BY <2>4, <2>5
<1>4. Taken(proc.ret, proc.params)[0] = [next |-> FirstArg(proc.ret), size |-> 0]
  BY <1>2, TakenIs
<1> QED  BY <1>1, <1>2, <1>3, <1>4 DEF InStep

(* Every procedure finds each of its parameters where a caller has put the
   argument, for any parameter list (X64_assign_proc_param_offsets with
   XIR_convert_call_args). *)
THEOREM ArgumentsAgreed == LayoutSpec => []ArgumentsAgree
<1>1. ASSUME InStep, IInv  PROVE ArgumentsAgree
  <2> SUFFICES ASSUME LaidOut, NEW i \in DOMAIN proc.params  PROVE FoundByCallee(i)
    BY DEF ArgumentsAgree
  <2>1. /\ opened > 0 /\ Len(placed) \in Nat /\ DOMAIN proc.params = 1..Len(proc.params)
        /\ Len(proc.params) \in Nat
    BY <1>1, ProcFacts DEF LaidOut, IInv, TypeOK
  <2> QED  BY <1>1, <2>1 DEF InStep
<1>2. LayoutSpec => []InStep
  BY InitInStep, NextInStep, Invariance, PTL DEF LayoutSpec
<1> QED  BY <1>1, <1>2, Invariance, PTL
=============================================================================

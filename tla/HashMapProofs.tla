---------------------------- MODULE HashMapProofs ----------------------------
(***************************************************************************)
(* For any keys, any hash function and tables of any size: a table stays   *)
(* sparse enough for every probe to end, keeps every key where it can be   *)
(* found, and is a dictionary.                                             *)
(***************************************************************************)
EXTENDS HashMap, FiniteSetTheorems, TLAPS

Range0 == 0..(cap - 1)
Growing == pc \in {"move", "place"}

(***************************************************************************)
(* The inductive invariant: what belongs to each place in the program; no  *)
(* key is in two slots, the slots that have yet to move included; `len'    *)
(* counts the slots in use, and is low enough for what is still to come;   *)
(* a probe has passed nothing but other keys.                              *)
(***************************************************************************)
Placed ==
  /\ pc # "idle" => call.op = (IF pc = "look" THEN "get" ELSE "put")
  /\ pc \notin {"idle", "look"} => cap > 0
  /\ pc \in {"probe", "place", "look"} /\ cap > 0 => at \in Range0
  /\ ~Growing => next = 0
  /\ Growing => cap = 2 * OldCap /\ next <= OldCap
  /\ pc = "place" => next < OldCap /\ Held(old[next])

InOld == {j \in DOMAIN old : j >= next /\ Held(old[j])}
Apart ==
  /\ \A i, j \in Range0 : Held(entries[i]) /\ entries[i].key = entries[j].key => i = j
  /\ \A i, j \in InOld : old[i].key = old[j].key => i = j
  /\ \A i \in Range0, j \in InOld : entries[i].key # old[j].key

InUse == {i \in Range0 : Held(entries[i])}
Counted ==
  /\ len = Cardinality(InUse)
  /\ cap > 0 => 10 * len < 6 * cap
  /\ pc = "probe" => HasRoom
  /\ Growing => 10 * (len + Cardinality(InOld)) < 6 * OldCap

Passed ==
  pc \in {"probe", "place", "look"} /\ cap > 0 =>
    \A j \in Between(Home(Item.key), at) : entries[j].key \notin {NoKey, Item.key}

IInv == TypeOK /\ Placed /\ Apart /\ Reachable /\ Counted /\ Passed

---------------------------------------------------------------------------
(* Slots and positions *)

LEMMA SlotFacts ==
  ASSUME NEW e \in Slots
  PROVE  /\ Held(e) => e.key \in Keys /\ e.value \in Values
         /\ ~Held(e) => e = Empty
         /\ e.key \in Keys \cup {NoKey}
         /\ e.key \in Keys => Held(e) /\ e.value \in Values
BY HashAssumption DEF Slots, Held, Empty

LEMMA EmptySlot == Empty \in Slots /\ ~Held(Empty) /\ Empty.key = NoKey
BY DEF Slots, Held, Empty

LEMMA HomeIn ==
  ASSUME NEW k \in Keys, cap \in Nat, cap > 0
  PROVE  Home(k) \in Range0
<1>1. Hash[k] \in Nat
  BY HashAssumption
<1> QED  BY <1>1 DEF Home, Range0

LEMMA SuccIn ==
  ASSUME NEW i \in Range0, cap \in Nat
  PROVE  Succ(i) \in Range0
BY DEF Succ, Range0

(* Going round the table: what lies between two slots, one slot further, and
   that of two slots one is passed on the way to the other. *)
LEMMA RoundTheTable ==
  ASSUME cap \in Nat, NEW h \in Range0, NEW i \in Range0
  PROVE  /\ Between(h, i) \subseteq Range0
         /\ Between(h, Succ(i)) \subseteq Between(h, i) \cup {i}
         /\ Between(h, h) = {}
         /\ \A m \in Range0 : m = i \/ m \in Between(h, i) \/ i \in Between(h, m)
BY DEF Between, Range0, Succ

LEMMA OldSlots ==
  ASSUME TypeOK
  PROVE  /\ OldCap \in Nat
         /\ DOMAIN old = IF Growing THEN 0..(OldCap - 1) ELSE {}
         /\ \A j \in DOMAIN old : old[j] \in Slots
<1>1. OldCap \in Nat
  BY DEF TypeOK, OldCap
<1> HIDE DEF OldCap
<1> QED  BY <1>1 DEF TypeOK, Growing

(* The counted sets are finite; a sparse table has an empty slot. *)
LEMMA Finite ==
  ASSUME TypeOK
  PROVE  /\ IsFiniteSet(InUse) /\ Cardinality(InUse) \in Nat
         /\ IsFiniteSet(InOld) /\ Cardinality(InOld) \in Nat
         /\ Cardinality(Range0) = cap /\ IsFiniteSet(Range0) /\ InUse \subseteq Range0
<1>1. IsFiniteSet(Range0) /\ Cardinality(Range0) = cap
  BY FS_Interval DEF Range0, TypeOK
<1>2. InUse \subseteq Range0
  BY DEF InUse
<1>3. IsFiniteSet(InUse) /\ Cardinality(InUse) \in Nat
  BY ONLY <1>1, <1>2, FS_Subset, FS_CardinalityType
<1>4. IsFiniteSet(DOMAIN old)
  <2>1. DOMAIN old = 0..(OldCap - 1) \/ DOMAIN old = {}
    BY OldSlots
  <2>2. IsFiniteSet(0..(OldCap - 1))
    BY OldSlots, FS_Interval
  <2> QED  BY ONLY <2>1, <2>2, FS_EmptySet
<1>5. InOld \subseteq DOMAIN old
  BY DEF InOld
<1>6. IsFiniteSet(InOld) /\ Cardinality(InOld) \in Nat
  BY ONLY <1>4, <1>5, FS_Subset, FS_CardinalityType
<1> QED  BY <1>1, <1>2, <1>3, <1>6

(* Some slot is always empty, and an entry that moves finds room. *)
LEMMA StaysSparse == IInv => SparseEnough
<1> SUFFICES ASSUME IInv  PROVE SparseEnough
  OBVIOUS
<1>1. ASSUME cap > 0  PROVE \E i \in 0..(cap - 1) : ~Held(entries[i])
  <2> SUFFICES ASSUME \A i \in 0..(cap - 1) : Held(entries[i])  PROVE FALSE
    OBVIOUS
  <2>1. InUse = Range0
    BY DEF InUse, Range0
  <2>2. len = cap /\ cap \in Nat /\ 10 * len < 6 * cap
    BY <1>1, <2>1, Finite DEF IInv, Counted, TypeOK
  <2> QED  BY ONLY <1>1, <2>2
<1>2. ASSUME pc = "move", next < OldCap, Held(old[next])  PROVE HasRoom
  <2>1. next \in InOld
    BY <1>2, OldSlots DEF InOld, IInv, TypeOK, Growing
  <2>2. Cardinality(InOld) \in Nat /\ Cardinality(InOld) # 0
    BY <2>1, Finite, FS_EmptySet DEF IInv
  <2>3. /\ 10 * (len + Cardinality(InOld)) < 6 * OldCap /\ cap = 2 * OldCap
        /\ len \in Nat /\ OldCap \in Nat
    BY <1>2 DEF IInv, Counted, Placed, Growing, TypeOK, OldCap
  <2> QED  BY ONLY <2>2, <2>3 DEF HasRoom
<1> QED  BY <1>1, <1>2 DEF SparseEnough

---------------------------------------------------------------------------
(* Each step keeps the invariant *)

LEMMA InitKept == Init => IInv
<1> SUFFICES ASSUME Init  PROVE IInv
  OBVIOUS
<1>1. cap \in Nat /\ \A i \in Range0 : entries[i] = Empty
  BY HashAssumption DEF Init, Cleared, Range0
<1>2. TypeOK
  BY <1>1, EmptySlot, HashAssumption DEF Init, TypeOK, Cleared, Calls, Idle
<1>3. InUse = {} /\ InOld = {} /\ Reachable /\ Apart
  BY <1>1, EmptySlot DEF InUse, InOld, Reachable, Apart, Init, Cleared, Range0
<1>4. Counted
  <2>1. Cardinality(InUse) = 0
    BY <1>3, FS_EmptySet
  <2> QED  BY <1>1, <2>1 DEF Counted, Init, Growing
<1>5. Placed /\ Passed
  BY DEF Placed, Passed, Init, Growing
<1> QED  BY <1>2, <1>3, <1>4, <1>5 DEF IInv

(* Steps that leave the table as it is. *)
LEMMA TableKept ==
  ASSUME IInv, UNCHANGED <<entries, cap, len>>
  PROVE  /\ Reachable' /\ InUse' = InUse /\ Range0' = Range0 /\ OldCap' = OldCap
         /\ HasRoom' = HasRoom
         /\ \A k : Home(k)' = Home(k)
         /\ \A i, j : Between(i, j)' = Between(i, j)
BY DEF IInv, Reachable, InUse, Range0, OldCap, HasRoom, Home, Between

(* A probe that starts has passed nothing. *)
LEMMA NothingPassed ==
  ASSUME Home(Item.key)' = at', at' \in Int
  PROVE  Between(Home(Item.key), at)' = {}
<1>1. Between(at, at)' = {}
  BY DEF Between
<1> QED  BY <1>1 DEF Between

LEMMA PutKeeps == IInv /\ Put => IInv'
<1> SUFFICES ASSUME IInv, Put  PROVE IInv'
  OBVIOUS
<1> USE DEF Put
<1>1. pc = "idle" /\ pc' = "room" /\ call' \in Calls /\ call'.op = "put" /\ cap > 0
      /\ UNCHANGED <<answer, entries, cap, len, at, old, next>>
  OBVIOUS
<1>2. call' # Idle
  BY <1>1 DEF Idle
<1>3. TypeOK'
  BY <1>1, <1>2, TableKept DEF IInv, TypeOK
<1>4. InOld' = InOld /\ ~Growing /\ ~Growing'
  BY <1>1 DEF InOld, Growing
<1> QED  BY <1>1, <1>3, <1>4, TableKept DEF IInv, Placed, Apart, Counted, Passed

LEMMA GetKeeps == IInv /\ Get => IInv'
<1> SUFFICES ASSUME IInv, Get  PROVE IInv'
  OBVIOUS
<1>1. /\ pc = "idle" /\ pc' = "look" /\ call' \in Calls /\ call'.op = "get" /\ call'.key \in Keys
      /\ at' = IF cap > 0 THEN Home(call'.key) ELSE at
      /\ UNCHANGED <<answer, entries, cap, len, old, next>>
  BY DEF Get, Calls
<1>2. call' # Idle
  BY <1>1 DEF Idle
<1>3. cap > 0 => at' \in Range0 /\ at' = Home(call'.key)
  BY <1>1, HomeIn DEF IInv, TypeOK
<1>4. TypeOK'
  <2>1. at' \in Nat
    BY <1>1, <1>3 DEF IInv, TypeOK, Range0
  <2> QED  BY <1>1, <1>2, <2>1, TableKept DEF IInv, TypeOK
<1>5. InOld' = InOld /\ ~Growing /\ ~Growing'
  BY <1>1 DEF InOld, Growing
<1>6. Passed'
  <2> SUFFICES ASSUME cap > 0  PROVE \A j \in Between(Home(Item.key), at)' : FALSE
    BY <1>1 DEF Passed
  <2>1. Item.key' = call'.key
    BY <1>1 DEF Item
  <2>2. Home(Item.key)' = at'
    BY <1>1, <1>3, <2>1, TableKept DEF Home
  <2> QED  BY <1>3, <2>2, NothingPassed DEF Range0, IInv, TypeOK
<1> QED  BY <1>1, <1>3, <1>4, <1>5, <1>6, TableKept DEF IInv, Placed, Apart, Counted

LEMMA FindsRoomKeeps == IInv /\ FindsRoom => IInv'
<1> SUFFICES ASSUME IInv, FindsRoom  PROVE IInv'
  OBVIOUS
<1>1. /\ pc = "room" /\ pc' = "probe" /\ HasRoom /\ at' = Home(call.key)
      /\ UNCHANGED <<call, answer, entries, cap, len, old, next>>
  BY DEF FindsRoom
<1>2. call \in Calls /\ call.op = "put" /\ call.key \in Keys /\ cap > 0
  BY <1>1, HashAssumption DEF IInv, TypeOK, Placed, Calls, Idle
<1>3. at' \in Range0 /\ at' \in Nat
  BY <1>1, <1>2, HomeIn DEF IInv, TypeOK, Range0
<1>4. TypeOK'
  BY <1>1, <1>3, TableKept DEF IInv, TypeOK, Range0
<1>5. InOld' = InOld /\ ~Growing /\ ~Growing'
  BY <1>1 DEF InOld, Growing
<1>6. Passed'
  <2>1. Home(Item.key)' = at'
    BY <1>1, TableKept DEF Home, Item
  <2> QED  BY <1>3, <2>1, NothingPassed DEF Passed
<1> QED  BY <1>1, <1>2, <1>3, <1>4, <1>5, <1>6, TableKept DEF IInv, Placed, Apart, Counted

LEMMA NoMemoryKeeps == IInv /\ NoMemory => IInv'
<1> SUFFICES ASSUME IInv, NoMemory  PROVE IInv'
  OBVIOUS
<1>1. /\ pc = "room" /\ pc' = "idle" /\ call' = Idle /\ answer' = Absent
      /\ UNCHANGED <<entries, cap, len, at, old, next>>
  BY DEF NoMemory, Return
<1>2. InOld' = InOld /\ ~Growing /\ ~Growing'
  BY <1>1 DEF InOld, Growing
<1>3. TypeOK'
  BY <1>1, TableKept DEF IInv, TypeOK
<1> QED  BY <1>1, <1>2, <1>3, TableKept DEF IInv, Placed, Apart, Counted, Passed

(* What a put puts has a key. *)
LEMMA ItemFacts ==
  ASSUME IInv, pc \in {"probe", "place"}
  PROVE  /\ Item \in Slots /\ Held(Item) /\ Item.key \in Keys /\ cap > 0 /\ at \in Range0
         /\ pc = "place" => Item = old[next] /\ next \in InOld
         /\ pc = "probe" => Item.key = call.key /\ Item.value = call.value
                            /\ call.key \in Keys /\ call.value \in Values
<1>1. cap > 0 /\ at \in Range0 /\ call.op = "put" /\ call # Idle
  BY DEF IInv, Placed, TypeOK
<1>2. call.key \in Keys /\ call.value \in Values
  BY <1>1 DEF IInv, TypeOK, Calls
<1>3. CASE pc = "place"
  <2>1. next \in InOld /\ Item = old[next] /\ Held(old[next])
    BY <1>3, OldSlots DEF IInv, Placed, InOld, Growing, TypeOK, Item
  <2>2. old[next] \in Slots
    BY <2>1, OldSlots DEF InOld, IInv
  <2> QED  BY <1>1, <1>3, <2>1, <2>2, SlotFacts
<1>4. CASE pc = "probe"
  BY <1>1, <1>2, <1>4, HashAssumption DEF Item, Slots, Held
<1> QED  BY <1>3, <1>4

LEMMA ProbeOnKeeps == IInv /\ ProbeOn => IInv'
<1> SUFFICES ASSUME IInv, ProbeOn  PROVE IInv'
  OBVIOUS
<1>1. /\ pc \in {"probe", "place"} /\ entries[at].key \notin {NoKey, Item.key} /\ at' = Succ(at)
      /\ UNCHANGED <<pc, call, answer, entries, cap, len, old, next>>
  BY DEF ProbeOn
<1>2. at \in Range0 /\ Item.key \in Keys /\ cap > 0 /\ cap \in Nat
  BY <1>1, ItemFacts DEF IInv, TypeOK
<1>3. at' \in Range0 /\ at' \in Nat
  BY <1>1, <1>2, SuccIn DEF IInv, TypeOK, Range0
<1>4. TypeOK'
  BY <1>1, <1>3, TableKept DEF IInv, TypeOK, Range0
<1>5. InOld' = InOld /\ Growing' = Growing
  BY <1>1 DEF InOld, Growing
<1>6. Passed'
  <2>1. Home(Item.key)' = Home(Item.key) /\ Item' = Item
    BY <1>1 DEF Home, Item
  <2>2. Home(Item.key) \in Range0
    BY <1>2, HomeIn
  <2>3. Between(Home(Item.key), at)' = Between(Home(Item.key), Succ(at))
    BY <1>1, <2>1 DEF Between
  <2>4. Between(Home(Item.key), Succ(at)) \subseteq Between(Home(Item.key), at) \cup {at}
    BY ONLY <1>2, <2>2, RoundTheTable
  <2> QED  BY <1>1, <1>2, <2>1, <2>3, <2>4 DEF Passed, IInv
<1> QED  BY <1>1, <1>2, <1>3, <1>4, <1>5, <1>6, TableKept DEF IInv, Placed, Apart, Counted

LEMMA LookKeeps == IInv /\ Look => IInv'
<1> SUFFICES ASSUME IInv, Look  PROVE IInv'
  OBVIOUS
<1>1. pc = "look" /\ UNCHANGED <<entries, cap, len, old, next>>
  BY DEF Look
<1>2. call.key \in Keys /\ call.op = "get" /\ cap \in Nat
  BY <1>1 DEF IInv, TypeOK, Placed, Calls, Idle
<1>3. CASE cap > 0 /\ entries[at].key \notin {NoKey, call.key}
  <2>1. at' = Succ(at) /\ UNCHANGED <<pc, call, answer>>
    BY <1>3 DEF Look
  <2>2. at \in Range0
    BY <1>1, <1>3 DEF IInv, Placed
  <2>3. at' \in Range0 /\ at' \in Nat
    BY <1>2, <2>1, <2>2, SuccIn DEF Range0
  <2>4. TypeOK'
    BY <1>1, <2>1, <2>3, TableKept DEF IInv, TypeOK
  <2>5. InOld' = InOld /\ Growing' = Growing
    BY <1>1, <2>1 DEF InOld, Growing
  <2>6. Passed'
    <3>1. Home(Item.key)' = Home(Item.key) /\ Item' = Item /\ Item.key = call.key
      BY <1>1, <2>1 DEF Home, Item
    <3>2. Home(Item.key) \in Range0
      BY <1>2, <1>3, <3>1, HomeIn
    <3>3. Between(Home(Item.key), at)' = Between(Home(Item.key), Succ(at))
      BY <1>1, <2>1, <3>1 DEF Between
    <3>4. Between(Home(Item.key), Succ(at)) \subseteq Between(Home(Item.key), at) \cup {at}
      BY ONLY <1>2, <2>2, <3>2, RoundTheTable
    <3> QED  BY <1>1, <1>3, <2>1, <3>1, <3>3, <3>4 DEF Passed, IInv
  <2> QED  BY <1>1, <2>1, <2>3, <2>4, <2>5, <2>6, TableKept DEF IInv, Placed, Apart, Counted
<1>4. CASE ~(cap > 0 /\ entries[at].key \notin {NoKey, call.key})
  <2>1. /\ pc' = "idle" /\ call' = Idle /\ UNCHANGED at
        /\ answer' = IF cap > 0 /\ Held(entries[at]) THEN entries[at].value ELSE Absent
    BY <1>4 DEF Look, Return
  <2>2. answer' \in Values \cup {Absent}
    <3>1. ASSUME cap > 0  PROVE entries[at] \in Slots
      BY <1>1, <3>1 DEF IInv, TypeOK, Placed, Range0
    <3> QED  BY <2>1, <3>1, SlotFacts
  <2>3. TypeOK'
    BY <1>1, <2>1, <2>2, TableKept DEF IInv, TypeOK
  <2>4. InOld' = InOld /\ ~Growing /\ ~Growing'
    BY <1>1, <2>1 DEF InOld, Growing
  <2> QED  BY <1>1, <2>1, <2>3, <2>4, TableKept DEF IInv, Placed, Apart, Counted, Passed
<1> QED  BY <1>3, <1>4

LEMMA MoveNoneKeeps == IInv /\ MoveNone => IInv'
<1> SUFFICES ASSUME IInv, MoveNone  PROVE IInv'
  OBVIOUS
<1>1. /\ pc = "move" /\ next < OldCap /\ ~Held(old[next]) /\ next' = next + 1
      /\ UNCHANGED <<pc, call, answer, entries, cap, len, at, old>>
  BY DEF MoveNone
<1>2. Growing /\ Growing' /\ next \in Nat /\ OldCap \in Nat
  BY <1>1, OldSlots DEF Growing, IInv, TypeOK
<1>3. InOld' = InOld
  <2>1. DOMAIN old \subseteq Int
    BY <1>2, OldSlots DEF IInv
  <2> QED  BY <1>1, <1>2, <2>1 DEF InOld
<1>4. TypeOK'
  BY <1>1, <1>2, TableKept DEF IInv, TypeOK
<1>5. Placed'
  BY <1>1, <1>2, TableKept DEF IInv, Placed
<1> QED  BY <1>1, <1>2, <1>3, <1>4, <1>5, TableKept DEF IInv, Apart, Counted, Passed

LEMMA MoveEntryKeeps == IInv /\ MoveEntry => IInv'
<1> SUFFICES ASSUME IInv, MoveEntry  PROVE IInv'
  OBVIOUS
<1>1. /\ pc = "move" /\ pc' = "place" /\ next < OldCap /\ Held(old[next])
      /\ at' = Home(old[next].key)
      /\ UNCHANGED <<call, answer, entries, cap, len, old, next>>
  BY DEF MoveEntry
<1>2. Growing /\ Growing' /\ cap \in Nat /\ cap > 0 /\ next \in Nat
  BY <1>1 DEF Growing, IInv, TypeOK, Placed
<1>3. old[next] \in Slots
  BY <1>1, <1>2, OldSlots DEF IInv
<1>4. at' \in Range0 /\ at' \in Nat
  BY <1>1, <1>2, <1>3, SlotFacts, HomeIn DEF Range0
<1>5. TypeOK'
  BY <1>1, <1>4, TableKept DEF IInv, TypeOK, Range0
<1>6. Passed'
  <2>1. Home(Item.key)' = at'
    BY <1>1, TableKept DEF Item, Home
  <2> QED  BY <1>4, <2>1, NothingPassed DEF Passed
<1>7. InOld' = InOld
  BY <1>1 DEF InOld
<1> QED  BY <1>1, <1>2, <1>4, <1>5, <1>6, <1>7, TableKept DEF IInv, Placed, Apart, Counted

LEMMA AllMovedKeeps == IInv /\ AllMoved => IInv'
<1> SUFFICES ASSUME IInv, AllMoved  PROVE IInv'
  OBVIOUS
<1>1. /\ pc = "move" /\ pc' = "probe" /\ next >= OldCap /\ next' = 0 /\ old' = Cleared(0)
      /\ at' = Home(call.key)
      /\ UNCHANGED <<call, answer, entries, cap, len>>
  BY DEF AllMoved
<1>2. /\ Growing /\ ~Growing' /\ cap \in Nat /\ cap > 0 /\ next \in Nat /\ OldCap \in Nat
      /\ cap = 2 * OldCap /\ call.op = "put" /\ len \in Nat
  BY <1>1, OldSlots DEF Growing, IInv, TypeOK, Placed
<1>3. call \in Calls /\ call.key \in Keys
  BY <1>1, <1>2, HashAssumption DEF IInv, TypeOK, Calls, Idle
<1>4. at' \in Range0 /\ at' \in Nat
  BY <1>1, <1>2, <1>3, HomeIn DEF Range0
<1>5. InOld = {} /\ InOld' = {} /\ DOMAIN old' = {} /\ old' \in [0..(0 - 1) -> Slots]
  BY <1>1, <1>2, OldSlots DEF InOld, IInv, Cleared
<1>6. TypeOK'
  BY <1>1, <1>4, <1>5, TableKept DEF IInv, TypeOK, Range0
<1>7. Passed'
  <2>1. Home(Item.key)' = at'
    BY <1>1, TableKept DEF Item, Home
  <2> QED  BY <1>4, <2>1, NothingPassed DEF Passed
<1>8. Counted'
  <2>1. 10 * (len + 0) < 6 * OldCap
    BY <1>2, <1>5, FS_EmptySet DEF IInv, Counted
  <2>2. HasRoom
    BY <1>2, <2>1 DEF HasRoom
  <2> QED  BY <1>1, <1>2, <2>2, TableKept DEF IInv, Counted
<1> QED  BY <1>1, <1>2, <1>4, <1>5, <1>6, <1>7, <1>8, TableKept DEF IInv, Placed, Apart

LEMMA ExpandKeeps == IInv /\ Expand => IInv'
<1> SUFFICES ASSUME IInv, Expand  PROVE IInv'
  OBVIOUS
<1>1. /\ pc = "room" /\ pc' = "move" /\ old' = entries /\ entries' = Cleared(2 * cap)
      /\ cap' = 2 * cap /\ len' = 0 /\ next' = 0 /\ UNCHANGED <<call, answer, at>>
  BY DEF Expand
<1>2. cap \in Nat /\ cap > 0 /\ call.op = "put" /\ ~Growing /\ Growing'
  BY <1>1 DEF IInv, TypeOK, Placed, Growing
<1>3. OldCap' = cap /\ cap' \in Nat
  BY <1>1, <1>2 DEF OldCap
<1>4. /\ DOMAIN entries = 0..(cap - 1)
      /\ \A i \in 0..(cap' - 1) : entries'[i] = Empty
      /\ entries' \in [0..(cap' - 1) -> Slots]
  BY <1>1, <1>2, EmptySlot DEF Cleared, IInv, TypeOK
<1>5. TypeOK'
  BY <1>1, <1>2, <1>3, <1>4 DEF IInv, TypeOK
<1>6. InUse' = {}
  BY <1>4, EmptySlot DEF InUse, Range0
<1>7. InOld' = InUse
  BY <1>1, <1>4 DEF InOld, InUse, Range0
<1>8. Reachable'
  BY <1>4, EmptySlot DEF Reachable
<1>9. Apart'
  <2>1. \A i, j \in InUse : entries[i].key = entries[j].key => i = j
    BY DEF IInv, Apart, InUse
  <2>2. \A j \in InUse : entries[j].key # NoKey
    BY DEF InUse, Held
  <2> QED  BY <1>1, <1>4, <1>7, <2>1, <2>2, EmptySlot DEF Apart, Range0
<1>10. Counted'
  <2>1. Cardinality(InUse') = 0
    BY <1>6, FS_EmptySet
  <2>2. len = Cardinality(InUse) /\ 10 * len < 6 * cap /\ len \in Nat
    BY <1>2 DEF IInv, Counted, TypeOK
  <2> QED  BY <1>1, <1>2, <1>3, <1>7, <2>1, <2>2 DEF Counted
<1> QED  BY <1>1, <1>2, <1>3, <1>5, <1>8, <1>9, <1>10 DEF IInv, Placed, Passed

(* A probe that has come to its end: the key is there or nowhere. *)
LEMMA ProbeDecides ==
  ASSUME IInv, NEW k \in Keys, cap > 0, at \in Range0, entries[at].key \in {NoKey, k},
         \A j \in Between(Home(k), at) : entries[j].key \notin {NoKey, k},
         NEW i \in Range0, entries[i].key = k
  PROVE  i = at
<1>1. cap \in Nat /\ Home(k) \in Range0 /\ k # NoKey
  BY HomeIn, HashAssumption DEF IInv, TypeOK
<1>2. i = at \/ i \in Between(Home(k), at) \/ at \in Between(Home(k), i)
  BY <1>1, RoundTheTable
<1>3. ASSUME at \in Between(Home(k), i)  PROVE i = at
  <2>1. Held(entries[i])
    BY <1>1 DEF Held
  <2>2. Held(entries[at])
    BY <1>3, <2>1 DEF IInv, Reachable, Range0
  <2>3. entries[at].key = k
    BY <2>2 DEF Held
  <2> QED  BY <2>1, <2>3 DEF IInv, Apart
<1> QED  BY <1>2, <1>3

LEMMA StoreFacts ==
  ASSUME IInv, Store
  PROVE  /\ pc \in {"probe", "place"} /\ entries[at].key \in {NoKey, Item.key}
         /\ entries' = [entries EXCEPT ![at] = Item] /\ DOMAIN entries = Range0
         /\ UNCHANGED <<cap, at, old>>
         /\ pc = "probe" => pc' = "idle" /\ call' = Idle /\ answer' = call.value /\ next' = next
         /\ pc = "place" => pc' = "move" /\ next' = next + 1 /\ UNCHANGED <<call, answer>>
         /\ entries'[at] = Item
         /\ \A i \in Range0 : entries'[i] = IF i = at THEN Item ELSE entries[i]
         /\ \A i \in Range0 : entries[i].key = Item.key => i = at
<1>1. /\ pc \in {"probe", "place"} /\ entries[at].key \in {NoKey, Item.key}
      /\ entries' = [entries EXCEPT ![at] = Item] /\ DOMAIN entries = Range0
      /\ UNCHANGED <<cap, at, old>>
  BY DEF Store, IInv, TypeOK, Range0
<1>2. /\ pc = "probe" => pc' = "idle" /\ call' = Idle /\ answer' = call.value /\ next' = next
      /\ pc = "place" => pc' = "move" /\ next' = next + 1 /\ UNCHANGED <<call, answer>>
  BY DEF Store, Return
<1>3. Item.key \in Keys /\ cap > 0 /\ at \in Range0
  BY <1>1, ItemFacts
<1>4. \A i \in Range0 : entries'[i] = IF i = at THEN Item ELSE entries[i]
  BY ONLY <1>1, <1>3
<1>5. \A j \in Between(Home(Item.key), at) : entries[j].key \notin {NoKey, Item.key}
  BY <1>1, <1>3 DEF IInv, Passed
<1>6. \A i \in Range0 : entries[i].key = Item.key => i = at
  BY <1>1, <1>3, <1>5, ProbeDecides
<1> QED  BY <1>1, <1>2, <1>3, <1>4, <1>6

LEMMA LoadMoves ==
  ASSUME NEW l \in Nat, NEW m \in Nat, NEW c \in Nat, NEW d \in Nat, NEW o \in Nat,
         m <= l + 1, d = c - 1, 10 * (l + c) < 6 * o
  PROVE  10 * (m + d) < 6 * o /\ 10 * m < 6 * (2 * o)
OBVIOUS

LEMMA StoreKeeps == IInv /\ Store => IInv'
<1> SUFFICES ASSUME IInv, Store  PROVE IInv'
  OBVIOUS
<1>1. /\ Item \in Slots /\ Held(Item) /\ Item.key \in Keys /\ cap > 0 /\ at \in Range0
      /\ pc = "place" => Item = old[next] /\ next \in InOld
      /\ pc = "probe" => call.value \in Values
  BY StoreFacts, ItemFacts
<1>2. /\ pc \in {"probe", "place"} /\ entries[at].key \in {NoKey, Item.key}
      /\ UNCHANGED <<cap, at, old>>
      /\ pc = "probe" => pc' = "idle" /\ call' = Idle /\ answer' = call.value /\ next' = next
      /\ pc = "place" => pc' = "move" /\ next' = next + 1 /\ UNCHANGED <<call, answer>>
      /\ \A i \in Range0 : entries'[i] = IF i = at THEN Item ELSE entries[i]
      /\ \A i \in Range0 : entries[i].key = Item.key => i = at
  BY StoreFacts
<1>3. /\ Range0' = Range0 /\ OldCap' = OldCap /\ (\A k : Home(k)' = Home(k))
      /\ (\A i, j : Between(i, j)' = Between(i, j)) /\ Growing' = Growing
  BY <1>2 DEF Range0, OldCap, Home, Between, Growing
<1>4. cap \in Nat /\ len \in Nat /\ next \in Nat /\ at \in Nat /\ OldCap \in Nat
      /\ (cap > 0 => at < cap)
  BY OldSlots DEF IInv, TypeOK
<1>5. len' = (IF Held(entries[at]) THEN len ELSE len + 1)
  BY DEF Store
<1>6. \A i \in Range0 : Held(entries[i]) => Held(entries'[i])
  BY <1>1, <1>2
<1>7. Reachable'
  <2> SUFFICES ASSUME NEW i \in Range0, Held(entries'[i]),
                      NEW j \in Between(Home(entries'[i].key), i)
               PROVE  Held(entries'[j])
    BY <1>3 DEF Reachable, Range0
  <2>1. CASE i = at
    <3>1. j \in Between(Home(Item.key), at)
      BY <1>2, <2>1
    <3>2. j \in Range0
      BY <1>1, <1>4, <3>1, HomeIn, RoundTheTable
    <3>3. Held(entries[j])
      BY <1>1, <1>2, <3>1 DEF IInv, Passed, Held
    <3> QED  BY <1>6, <3>2, <3>3
  <2>2. CASE i # at
    <3>1. entries'[i] = entries[i] /\ Held(entries[i])
      BY <1>2, <2>2
    <3>2. Held(entries[j])
      BY <3>1 DEF IInv, Reachable, Range0
    <3>3. entries[i] \in Slots
      BY DEF IInv, TypeOK, Range0
    <3>4. Home(entries[i].key) \in Range0
      BY <1>1, <1>4, <3>1, <3>3, SlotFacts, HomeIn
    <3>5. j \in Between(Home(entries[i].key), i)
      BY <3>1
    <3>6. j \in Range0
      BY ONLY <1>4, <3>4, <3>5, i \in Range0, RoundTheTable
    <3> QED  BY <1>6, <3>2, <3>6
  <2> QED  BY <2>1, <2>2
<1>8. InOld' = IF pc = "place" THEN InOld \ {next} ELSE InOld
  <2>1. DOMAIN old \subseteq Int
    BY OldSlots, <1>4 DEF IInv
  <2> QED  BY <1>2, <1>4, <2>1 DEF InOld
<1>9. Apart'
  <2>1. \A i, j \in Range0 : Held(entries'[i]) /\ entries'[i].key = entries'[j].key => i = j
    BY <1>2 DEF IInv, Apart
  <2>2. \A i, j \in InOld' : old[i].key = old[j].key => i = j
    BY <1>8 DEF IInv, Apart
  <2>3. ASSUME NEW i \in Range0, NEW j \in InOld'  PROVE entries'[i].key # old[j].key
    <3>1. j \in InOld
      BY <1>8
    <3>2. CASE i # at
      BY <1>2, <3>1, <3>2 DEF IInv, Apart
    <3>3. CASE i = at /\ pc = "place"
      BY <1>1, <1>2, <1>8, <3>1, <3>3 DEF IInv, Apart
    <3>4. CASE i = at /\ pc = "probe"
      BY <3>1, <3>4, OldSlots DEF InOld, Growing, IInv
    <3> QED  BY <1>2, <3>2, <3>3, <3>4
  <2> QED  BY <1>2, <1>3, <2>1, <2>2, <2>3 DEF Apart
<1>10. TypeOK'
  <2>1. entries' \in [0..(cap' - 1) -> Slots]
    <3>1. entries \in [Range0 -> Slots]
      BY DEF IInv, TypeOK, Range0
    <3>2. entries' \in [Range0 -> Slots]
      BY <1>1, <3>1, StoreFacts
    <3> QED  BY <1>2, <3>2 DEF Range0
  <2>2. len' \in Nat /\ next' \in Nat
    BY <1>2, <1>4, <1>5
  <2>3. pc' \in {"idle", "move"} /\ call' \in Calls \cup {Idle} /\ (pc' = "idle" <=> call' = Idle)
        /\ answer' \in Values \cup {Absent}
    BY <1>1, <1>2 DEF IInv, TypeOK
  <2>4. old' \in [0..((IF pc' \in {"move", "place"} THEN OldCap' ELSE 0) - 1) -> Slots]
    BY <1>2, <1>3 DEF IInv, TypeOK
  <2> QED  BY <1>2, <1>4, <2>1, <2>2, <2>3, <2>4 DEF TypeOK, Range0
<1>11. Placed'
  BY <1>2, <1>3, <1>4 DEF IInv, Placed, Growing
<1>12. InUse' = InUse \cup {at}
  BY <1>1, <1>2, <1>3 DEF InUse
<1>13. Counted'
  <2>1. Cardinality(InUse') = len' /\ len' <= len + 1
    <3>1. Cardinality(InUse \cup {at}) =
            IF at \in InUse THEN Cardinality(InUse) ELSE Cardinality(InUse) + 1
      BY FS_AddElement, Finite DEF IInv
    <3>2. at \in InUse <=> Held(entries[at])
      BY <1>1 DEF InUse
    <3> QED  BY <1>4, <1>5, <1>12, <3>1, <3>2 DEF IInv, Counted
  <2>2. CASE pc = "probe"
    BY <1>2, <1>4, <1>5, <2>1, <2>2 DEF IInv, Counted, HasRoom, Growing
  <2>3. CASE pc = "place"
    <3>1. Cardinality(InOld') = Cardinality(InOld) - 1 /\ Cardinality(InOld') \in Nat
      BY <1>1, <1>8, <2>3, FS_RemoveElement, FS_CardinalityType, Finite DEF IInv
    <3>2. /\ 10 * (len + Cardinality(InOld)) < 6 * OldCap /\ cap = 2 * OldCap
          /\ Cardinality(InOld) \in Nat
      BY <2>3, Finite DEF IInv, Counted, Placed, Growing
    <3>3. 10 * (len' + Cardinality(InOld')) < 6 * OldCap' /\ 10 * len' < 6 * cap'
      <4>1. len' \in Nat
        BY <1>4, <1>5
      <4> QED  BY ONLY <1>2, <1>3, <1>4, <2>1, <3>1, <3>2, <4>1, LoadMoves
    <3> QED  BY <1>2, <2>1, <2>3, <3>3 DEF Counted
  <2> QED  BY <1>2, <2>2, <2>3
<1> QED  BY <1>2, <1>7, <1>9, <1>10, <1>11, <1>13 DEF IInv, Passed

LEMMA NextKept == IInv /\ [Next]_vars => IInv'
<1> SUFFICES ASSUME IInv, [Next]_vars  PROVE IInv'
  OBVIOUS
<1>1. CASE UNCHANGED vars
  <2>1. UNCHANGED <<pc, call, answer, entries, cap, len, at, old, next>>
    BY <1>1 DEF vars
  <2>2. InOld' = InOld /\ Growing' = Growing /\ Home(Item.key)' = Home(Item.key)
        /\ Item' = Item
    BY <2>1 DEF InOld, Growing, Home, Item
  <2> QED  BY <2>1, <2>2, TableKept DEF IInv, TypeOK, Placed, Apart, Counted, Passed
<1>2. CASE Next
  BY <1>2, PutKeeps, GetKeeps, FindsRoomKeeps, NoMemoryKeeps, ProbeOnKeeps, StoreKeeps,
     ExpandKeeps, MoveNoneKeeps, MoveEntryKeeps, AllMovedKeeps, LookKeeps DEF Next, Work
<1> QED  BY <1>1, <1>2

(* In every reachable state the invariant holds. *)
THEOREM Invariance == Spec => []IInv
BY InitKept, NextKept, PTL DEF Spec

(* No probe of a table, whatever the hash function, goes on for ever for want
   of an empty slot, and no entry that moves makes the new table grow
   (hmap_put, hmap_expand). *)
THEOREM ProbesEnd == Spec => []SparseEnough
BY Invariance, StaysSparse, PTL

(* Every key is found on the way from its home, before any empty slot: growing
   a table loses none (hmap_expand, hmap_get). *)
THEOREM KeysAreReached == Spec => []Reachable
<1>1. IInv => Reachable
  BY DEF IInv
<1> QED  BY <1>1, Invariance, PTL

(* The state keeps its type (hash_map.h). *)
THEOREM TypeCorrect == Spec => []TypeOK
<1>1. IInv => TypeOK
  BY DEF IInv
<1> QED  BY <1>1, Invariance, PTL

---------------------------------------------------------------------------
(* The refinement *)

(* What a table holds, the entries that have yet to move included. *)
Has(k, v) ==
  \/ \E i \in Range0 : entries[i].key = k /\ entries[i].value = v
  \/ \E j \in InOld : old[j].key = k /\ old[j].value = v

LEMMA ContentsAre ==
  IInv => \A k \in Keys : /\ \A v : Has(k, v) => Contents[k] = v
                          /\ (\A v : ~Has(k, v)) => Contents[k] = Absent
<1> SUFFICES ASSUME IInv, NEW k \in Keys
             PROVE  /\ \A v : Has(k, v) => Contents[k] = v
                    /\ (\A v : ~Has(k, v)) => Contents[k] = Absent
  OBVIOUS
<1>1. k # NoKey
  BY HashAssumption
<1>2. InTable(k) = {i \in Range0 : entries[i].key = k} /\ Behind(k) = {j \in InOld : old[j].key = k}
  BY <1>1 DEF InTable, Behind, Range0, InOld, Held
<1>3. \A i, j \in InTable(k) : i = j
  BY <1>1, <1>2 DEF IInv, Apart, Held
<1>4. \A i, j \in Behind(k) : i = j
  BY <1>2 DEF IInv, Apart
<1>5. InTable(k) = {} \/ Behind(k) = {}
  BY <1>2 DEF IInv, Apart
<1>6. Contents[k] = IF InTable(k) # {} THEN entries[CHOOSE i \in InTable(k) : TRUE].value
                    ELSE IF Behind(k) # {} THEN old[CHOOSE i \in Behind(k) : TRUE].value
                    ELSE Absent
  BY DEF Contents
<1>7. \A i \in InTable(k) : Contents[k] = entries[i].value
  BY <1>3, <1>6
<1>8. \A j \in Behind(k) : Contents[k] = old[j].value
  BY <1>4, <1>5, <1>6
<1>9. InTable(k) = {} /\ Behind(k) = {} => Contents[k] = Absent
  BY <1>6
<1> QED  BY <1>2, <1>7, <1>8, <1>9 DEF Has

ContentsHold == \A k \in Keys : /\ \A v : Has(k, v) => Contents[k] = v
                                /\ (\A v : ~Has(k, v)) => Contents[k] = Absent

LEMMA ContentsNext ==
  IInv' => \A k \in Keys : /\ \A v : Has(k, v)' => Contents'[k] = v
                           /\ (\A v : ~Has(k, v)') => Contents'[k] = Absent
<1>1. IInv => ContentsHold
  BY ContentsAre DEF ContentsHold
<1>2. IInv' => ContentsHold'
  BY <1>1, PTL
<1> QED  BY <1>2 DEF ContentsHold

LEMMA ContentsKept ==
  ASSUME IInv, IInv', \A k \in Keys : \A v : Has(k, v)' <=> Has(k, v)
  PROVE  Contents' = Contents
<1>1. \A k \in Keys : Contents'[k] = Contents[k]
  BY ContentsAre, ContentsNext
<1> QED  BY <1>1 DEF Contents

LEMMA ContentsSame ==
  ASSUME UNCHANGED <<entries, cap, old, next>>
  PROVE  Contents' = Contents
BY DEF Contents, InTable, Behind

LEMMA MovingKeeps == IInv /\ (Expand \/ MoveNone \/ AllMoved) => Contents' = Contents
<1> SUFFICES ASSUME IInv, Expand \/ MoveNone \/ AllMoved  PROVE Contents' = Contents
  OBVIOUS
<1>0. IInv'
  BY NextKept DEF Next, Work
<1>1. CASE Expand
  <2>1. /\ old' = entries /\ next' = 0 /\ cap' = 2 * cap /\ cap \in Nat
        /\ entries' = Cleared(2 * cap) /\ pc = "room"
    BY <1>1 DEF Expand, IInv, TypeOK
  <2>2. InOld = {} /\ DOMAIN entries = Range0
    BY <2>1, OldSlots DEF InOld, Growing, IInv, TypeOK, Range0
  <2>3. InOld' = InUse
    BY <2>1, <2>2 DEF InOld, InUse, Range0
  <2>4. \A i \in Range0' : entries'[i] = Empty
    BY <2>1 DEF Cleared, Range0
  <2> HIDE DEF Range0
  <2>5. \A k \in Keys : \A v : Has(k, v)' <=> Has(k, v)
    BY <2>1, <2>2, <2>3, <2>4, EmptySlot, HashAssumption DEF Has, InUse, Held
  <2> QED  BY <1>0, <2>5, ContentsKept
<1>2. CASE MoveNone
  <2>1. InOld' = InOld
    <3>1. DOMAIN old \subseteq Int /\ next \in Nat
      BY OldSlots DEF IInv, TypeOK
    <3> QED  BY <1>2, <3>1 DEF InOld, MoveNone
  <2>2. \A k, v : Has(k, v)' <=> Has(k, v)
    BY <1>2, <2>1 DEF Has, MoveNone, Range0
  <2> QED  BY <1>0, <2>2, ContentsKept
<1>3. CASE AllMoved
  <2>1. InOld = {}
    <3>1. next \in Nat /\ OldCap \in Nat /\ next >= OldCap
          /\ DOMAIN old = IF Growing THEN 0..(OldCap - 1) ELSE {}
      BY <1>3, OldSlots DEF AllMoved, IInv, TypeOK
    <3> QED  BY ONLY <3>1 DEF InOld
  <2>2. InOld' = {}
    BY <1>3 DEF InOld, AllMoved, Cleared
  <2>3. \A k, v : Has(k, v)' <=> Has(k, v)
    BY <1>3, <2>1, <2>2 DEF Has, AllMoved, Range0
  <2> QED  BY <1>0, <2>3, ContentsKept
<1> QED  BY <1>1, <1>2, <1>3

(* A put that ends changes what the table holds under its key; an entry that
   has moved is still held. *)
LEMMA StoringPuts ==
  ASSUME IInv, Store
  PROVE  /\ pc = "probe" => Contents' = [Contents EXCEPT ![call.key] = call.value]
         /\ pc = "place" => Contents' = Contents
<1>0. IInv'
  BY NextKept DEF Next, Work
<1>1. /\ Held(Item) /\ Item.key \in Keys /\ at \in Range0
      /\ pc = "place" => Item = old[next] /\ next \in InOld
      /\ pc = "probe" => Item.key = call.key /\ Item.value = call.value
  BY StoreFacts, ItemFacts
<1>2. /\ pc \in {"probe", "place"}
      /\ pc = "probe" => next' = next
      /\ pc = "place" => next' = next + 1
      /\ \A i \in Range0 : entries'[i] = IF i = at THEN Item ELSE entries[i]
      /\ \A i \in Range0 : entries[i].key = Item.key => i = at
      /\ entries[at].key \in {NoKey, Item.key}
      /\ old' = old /\ Range0' = Range0
  BY StoreFacts DEF Range0
<1>3. InOld' = IF pc = "place" THEN InOld \ {next} ELSE InOld
  <2>1. DOMAIN old \subseteq Int /\ next \in Nat
    BY OldSlots DEF IInv, TypeOK
  <2> QED  BY <1>2, <2>1 DEF InOld
<1>4. ASSUME NEW k \in Keys, k # Item.key  PROVE \A v : Has(k, v)' <=> Has(k, v)
  <2>1. k # NoKey
    BY HashAssumption
  <2>2. \A v : (\E i \in Range0 : entries'[i].key = k /\ entries'[i].value = v)
               <=> (\E i \in Range0 : entries[i].key = k /\ entries[i].value = v)
    BY <1>2, <1>4, <2>1
  <2>3. \A v : (\E j \in InOld' : old'[j].key = k /\ old'[j].value = v)
               <=> (\E j \in InOld : old[j].key = k /\ old[j].value = v)
    BY <1>1, <1>2, <1>3, <1>4
  <2> QED  BY <1>2, <2>2, <2>3 DEF Has
<1>5. ASSUME NEW k, NEW v, k = Item.key, v = Item.value  PROVE Has(k, v)'
  <2>1. at \in Range0' /\ entries'[at] = Item
    BY <1>1, <1>2
  <2> QED  BY <1>5, <2>1 DEF Has
<1>6. \A k \in Keys : k # Item.key => Contents'[k] = Contents[k]
  BY <1>0, <1>4, ContentsAre, ContentsNext
<1>7. Contents'[Item.key] = Item.value
  <2>1. \A k, v : k = Item.key /\ v = Item.value => Has(k, v)'
    BY <1>5
  <2>2. \A k \in Keys : \A v : k = Item.key /\ v = Item.value => Contents'[k] = v
    BY <1>0, <2>1, ContentsNext
  <2> QED  BY <1>1, <2>2
<1>8. ASSUME pc = "probe"  PROVE Contents' = [Contents EXCEPT ![call.key] = call.value]
  <2>1. DOMAIN Contents = Keys /\ DOMAIN Contents' = Keys
    BY DEF Contents
  <2>2. Contents = [k \in Keys |-> Contents[k]] /\ Contents' = [k \in Keys |-> Contents'[k]]
    BY DEF Contents
  <2>3. \A k \in Keys : Contents'[k] = IF k = call.key THEN call.value ELSE Contents[k]
    BY <1>1, <1>6, <1>7, <1>8
  <2> QED  BY ONLY <2>1, <2>2, <2>3
<1>9. ASSUME pc = "place"  PROVE Contents' = Contents
  <2>1. Has(Item.key, Item.value)
    BY <1>1, <1>9 DEF Has
  <2>2. Contents[Item.key] = Item.value
    BY <1>1, <2>1, ContentsAre
  <2> QED  BY <1>6, <1>7, <1>9, <2>2 DEF Contents
<1> QED  BY <1>2, <1>8, <1>9

(* A lookup that has come to its end returns what the table holds. *)
LEMMA LookFinds ==
  ASSUME IInv, Look, call' = Idle
  PROVE  call.op = "get" /\ answer' = Contents[call.key]
<1>1. pc = "look" /\ call.op = "get" /\ call.key \in Keys
  BY DEF Look, IInv, Placed, TypeOK, Calls, Idle
<1>2. /\ ~(cap > 0 /\ entries[at].key \notin {NoKey, call.key})
      /\ answer' = IF cap > 0 /\ Held(entries[at]) THEN entries[at].value ELSE Absent
  <2>1. call # Idle
    BY <1>1 DEF IInv, TypeOK
  <2> QED  BY <2>1 DEF Look, Return
<1>3. InOld = {} /\ call.key # NoKey
  BY <1>1, OldSlots, HashAssumption DEF InOld, Growing, IInv
<1>4. CASE cap > 0 /\ Held(entries[at])
  <2>1. at \in Range0 /\ entries[at].key = call.key
    BY <1>1, <1>2, <1>4 DEF IInv, Placed, Held
  <2>2. Has(call.key, entries[at].value)
    BY <2>1 DEF Has
  <2> QED  BY <1>1, <1>2, <1>4, <2>2, ContentsAre
<1>5. CASE cap > 0 /\ ~Held(entries[at])
  <2>1. /\ at \in Range0 /\ entries[at].key = NoKey
        /\ \A j \in Between(Home(call.key), at) : entries[j].key \notin {NoKey, call.key}
    BY <1>1, <1>5 DEF IInv, Placed, Held, Passed, Item
  <2>2. \A i \in Range0 : entries[i].key # call.key
    BY <1>1, <1>3, <1>5, <2>1, ProbeDecides
  <2>3. \A v : ~Has(call.key, v)
    BY <1>3, <2>2 DEF Has
  <2> QED  BY <1>1, <1>2, <1>5, <2>3, ContentsAre
<1>6. CASE ~(cap > 0)
  <2>1. Range0 = {}
    BY <1>6 DEF IInv, TypeOK, Range0
  <2>2. \A v : ~Has(call.key, v)
    BY <1>3, <2>1 DEF Has
  <2> QED  BY <1>1, <1>2, <1>6, <2>2, ContentsAre
<1> QED  BY <1>1, <1>4, <1>5, <1>6

LEMMA InitRefines == Init => Table!Init
<1> SUFFICES ASSUME Init  PROVE Table!Init
  OBVIOUS
<1>1. \A k \in Keys : InTable(k) = {} /\ Behind(k) = {}
  <2>1. \A i \in 0..(cap - 1) : entries[i].key = NoKey
    BY EmptySlot DEF Init, Cleared
  <2>2. DOMAIN old = {}
    BY DEF Init, Cleared
  <2> QED  BY <2>1, <2>2, HashAssumption DEF InTable, Behind
<1> QED  BY <1>1 DEF Init, Table!Init, Table!Idle, Idle, Contents

LEMMA StepRefines == IInv /\ [Next]_vars => [Table!Next]_Table!vars
<1> SUFFICES ASSUME IInv, [Next]_vars  PROVE [Table!Next]_Table!vars
  OBVIOUS
<1> USE DEF Table!vars
<1>1. ASSUME UNCHANGED <<entries, cap, old, next, call, answer>>  PROVE UNCHANGED Table!vars
  BY <1>1, ContentsSame
<1>2. CASE UNCHANGED vars
  BY <1>1, <1>2 DEF vars
<1>3. CASE Put \/ Get
  <2>1. call = Idle /\ call' \in Calls /\ UNCHANGED <<entries, cap, old, next, answer>>
    BY <1>3 DEF Put, Get, IInv, TypeOK
  <2>2. Contents' = Contents
    BY <2>1, ContentsSame
  <2> QED  BY <2>1, <2>2 DEF Table!Next, Table!Begin, Table!Idle, Table!Calls, Idle, Calls
<1>4. CASE FindsRoom \/ ProbeOn \/ MoveEntry
  BY <1>1, <1>4 DEF FindsRoom, ProbeOn, MoveEntry
<1>5. CASE Expand \/ MoveNone \/ AllMoved
  <2>1. UNCHANGED <<call, answer>>
    BY <1>5 DEF Expand, MoveNone, AllMoved
  <2> QED  BY <1>5, <2>1, MovingKeeps
<1>6. CASE NoMemory
  <2>1. call.op = "put" /\ call' = Idle /\ answer' = Absent /\ UNCHANGED <<entries, cap, old, next>>
    BY <1>6 DEF NoMemory, Return, IInv, Placed
  <2>2. Contents' = Contents
    BY <2>1, ContentsSame
  <2> QED  BY <2>1, <2>2 DEF Table!Next, Table!PutFails, Table!Return, Table!Idle, Idle
<1>7. CASE Store
  <2>1. CASE pc = "probe"
    <3>1. call.op = "put" /\ call' = Idle /\ answer' = call.value
      BY <1>7, <2>1, StoreFacts DEF IInv, Placed
    <3>2. Contents' = [Contents EXCEPT ![call.key] = call.value]
      BY <1>7, <2>1, StoringPuts
    <3> QED  BY <3>1, <3>2 DEF Table!Next, Table!Put, Table!Return, Table!Idle, Idle
  <2>2. CASE pc = "place"
    BY <1>7, <2>2, StoreFacts, StoringPuts
  <2> QED  BY <1>7, <2>1, <2>2 DEF Store
<1>8. CASE Look
  <2>1. Contents' = Contents
    BY <1>8, ContentsSame DEF Look
  <2>2. UNCHANGED <<call, answer>> \/ call' = Idle
    BY <1>8 DEF Look, Return
  <2>3. CASE call' = Idle
    <3>1. call.op = "get" /\ answer' = Contents[call.key]
      BY <1>8, <2>3, LookFinds
    <3> QED  BY <2>1, <2>3, <3>1 DEF Table!Next, Table!Get, Table!Return, Table!Idle, Idle
  <2> QED  BY <2>1, <2>2, <2>3
<1> QED  BY <1>2, <1>3, <1>4, <1>5, <1>6, <1>7, <1>8 DEF Next, Work

(* A table is a dictionary: what hmap_get returns is what hmap_put last put
   under that key, however often the table grew in between. *)
THEOREM DictionaryImplemented == Spec => ImplementsDictionary
BY InitRefines, StepRefines, Invariance, PTL DEF Spec, ImplementsDictionary, Table!Spec

=============================================================================

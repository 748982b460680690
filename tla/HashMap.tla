------------------------------ MODULE HashMap ------------------------------
(***************************************************************************)
(* The hash table behind every table of names, types and literals of the   *)
(* compiler (src/hash_map.c): open addressing, linear probing, doubled     *)
(* when it is about to be 60% full, nothing ever removed.  One action is   *)
(* one turn of a loop.                                                     *)
(*                                                                         *)
(* The capacity is a power of two: i & mask is i % cap.  The nested call   *)
(* of hmap_put, for each entry that moves to a larger table, has its own   *)
(* place in the program; it finds room, or `SparseEnough' fails.           *)
(***************************************************************************)
EXTENDS Integers, FiniteSets

CONSTANTS
  Keys,      (* those in use; HASH_MAP_NULL_KEY is not one                 *)
  Values,
  NoKey,     (* HASH_MAP_NULL_KEY, the key of an empty slot                *)
  Absent,    (* NULL                                                       *)
  Hash,      (* hash_uint64                                                *)
  Caps       (* the capacities that tables are created with                *)

ASSUME HashAssumption ==
  /\ NoKey \notin Keys /\ Absent \notin Values /\ Absent \notin Keys
  /\ Hash \in [Keys -> Nat]
  /\ Caps \subseteq Nat

VARIABLES
  pc,        (* idle, room, move, place, probe or look                     *)
  call,      (* the call in progress                                       *)
  answer,    (* what the last call returned                                *)
  entries, cap, len,
  at,        (* the slot a probe is at                                     *)
  old, next  (* hmap_expand: old_entries and the position in them          *)

vars == <<pc, call, answer, entries, cap, len, at, old, next>>

Idle  == [op |-> "none", key |-> Absent, value |-> Absent]
Calls == [op : {"put"}, key : Keys, value : Values]
           \cup [op : {"get"}, key : Keys, value : {Absent}]

Empty == [key |-> NoKey, value |-> Absent]
Slots == [key : Keys, value : Values] \cup {Empty}
Cleared(n) == [i \in 0..(n - 1) |-> Empty]
Held(e) == e.key # NoKey

Home(k) == Hash[k] % cap
Succ(i) == IF i + 1 = cap THEN 0 ELSE i + 1

\* Mutant: the table may fill up.
HasRoom_ForOne == len + 1 <= cap
HasRoom == 10 * (len + 1) < 6 * cap

\* What a put puts: the caller's pair, or the entry that moves.
Item == IF pc = "place" THEN old[next] ELSE [key |-> call.key, value |-> call.value]

Return(x) == call' = Idle /\ answer' = x /\ pc' = "idle"

---------------------------------------------------------------------------
(* hmap_put *)

Put ==
  /\ pc = "idle"
  /\ cap > 0
  /\ call' \in {c \in Calls : c.op = "put"}
  /\ pc' = "room"
  /\ UNCHANGED <<answer, entries, cap, len, at, old, next>>

FindsRoom ==
  /\ pc = "room" /\ HasRoom
  /\ at' = Home(call.key)
  /\ pc' = "probe"
  /\ UNCHANGED <<call, answer, entries, cap, len, old, next>>

\* alloc_array returned NULL.
NoMemory ==
  /\ pc = "room" /\ ~HasRoom
  /\ Return(Absent)
  /\ UNCHANGED <<entries, cap, len, at, old, next>>

\* A slot of another key is passed.
ProbeOn ==
  /\ pc \in {"probe", "place"}
  /\ entries[at].key \notin {NoKey, Item.key}
  /\ at' = Succ(at)
  /\ UNCHANGED <<pc, call, answer, entries, cap, len, old, next>>

Store ==
  /\ pc \in {"probe", "place"}
  /\ entries[at].key \in {NoKey, Item.key}
  /\ entries' = [entries EXCEPT ![at] = Item]
  /\ len' = IF Held(entries[at]) THEN len ELSE len + 1
  /\ IF pc = "probe"
     THEN Return(call.value) /\ UNCHANGED next
     ELSE pc' = "move" /\ next' = next + 1 /\ UNCHANGED <<call, answer>>
  /\ UNCHANGED <<cap, at, old>>

---------------------------------------------------------------------------
(* hmap_expand *)

Expand ==
  /\ pc = "room" /\ ~HasRoom
  /\ old' = entries
  /\ entries' = Cleared(2 * cap)
  /\ cap' = 2 * cap
  /\ len' = 0
  /\ next' = 0
  /\ pc' = "move"
  /\ UNCHANGED <<call, answer, at>>

\* Mutant: the last slot is forgotten.
OldCap_LessOne == (cap \div 2) - 1
OldCap == cap \div 2

MoveNone ==
  /\ pc = "move" /\ next < OldCap /\ ~Held(old[next])
  /\ next' = next + 1
  /\ UNCHANGED <<pc, call, answer, entries, cap, len, at, old>>

MoveEntry ==
  /\ pc = "move" /\ next < OldCap /\ Held(old[next])
  /\ HasRoom
  /\ at' = Home(old[next].key)
  /\ pc' = "place"
  /\ UNCHANGED <<call, answer, entries, cap, len, old, next>>

\* The put that needed the room goes on, without looking at the load again.
AllMoved ==
  /\ pc = "move" /\ next >= OldCap
  /\ old' = Cleared(0)
  /\ next' = 0
  /\ at' = Home(call.key)
  /\ pc' = "probe"
  /\ UNCHANGED <<call, answer, entries, cap, len>>

---------------------------------------------------------------------------
(* hmap_get *)

\* A table that was never created holds nothing.
Get ==
  /\ pc = "idle"
  /\ call' \in {c \in Calls : c.op = "get"}
  /\ at' = IF cap > 0 THEN Home(call'.key) ELSE at
  /\ pc' = "look"
  /\ UNCHANGED <<answer, entries, cap, len, old, next>>

Look ==
  /\ pc = "look"
  /\ IF cap > 0 /\ entries[at].key \notin {NoKey, call.key}
     THEN at' = Succ(at) /\ UNCHANGED <<pc, call, answer>>
     ELSE /\ Return(IF cap > 0 /\ Held(entries[at]) THEN entries[at].value ELSE Absent)
          /\ UNCHANGED at
  /\ UNCHANGED <<entries, cap, len, old, next>>

---------------------------------------------------------------------------

Init ==
  /\ pc = "idle"
  /\ call = Idle
  /\ answer = Absent
  /\ cap \in Caps
  /\ entries = Cleared(cap)
  /\ len = 0
  /\ at = 0
  /\ old = Cleared(0)
  /\ next = 0

Work == \/ FindsRoom \/ NoMemory \/ ProbeOn \/ Store
        \/ Expand \/ MoveNone \/ MoveEntry \/ AllMoved \/ Look
Next == Put \/ Get \/ Work

\* A call of these functions runs until it returns.
Spec == Init /\ [][Next]_vars /\ WF_vars(Work)

---------------------------------------------------------------------------
(* Properties *)

TypeOK ==
  /\ pc \in {"idle", "room", "move", "place", "probe", "look"}
  /\ call \in Calls \cup {Idle}
  /\ (pc = "idle") <=> (call = Idle)
  /\ answer \in Values \cup {Absent}
  /\ cap \in Nat /\ len \in Nat /\ at \in Nat /\ next \in Nat
  /\ cap > 0 => at < cap
  /\ entries \in [0..(cap - 1) -> Slots]
  /\ old \in [0..((IF pc \in {"move", "place"} THEN OldCap ELSE 0) - 1) -> Slots]

\* Every key can be found where it is: no slot between its home and its own is
\* empty, round the end of the table too (what hmap_get relies on to stop at the
\* first empty slot, and hmap_expand has to bring about anew).
Between(i, j) == IF i <= j THEN i..(j - 1) ELSE (i..(cap - 1)) \cup (0..(j - 1))
Reachable ==
  \A i \in 0..(cap - 1) : Held(entries[i]) =>
    \A j \in Between(Home(entries[i].key), i) : Held(entries[j])

\* A probe always ends: some slot is empty; and an entry that moves to the new
\* table finds room there, so that hmap_expand is never entered again from
\* within, where it would replace the table that is being filled.
SparseEnough ==
  /\ cap > 0 => \E i \in 0..(cap - 1) : ~Held(entries[i])
  /\ pc = "move" /\ next < OldCap /\ Held(old[next]) => HasRoom

\* What a lookup returns is what was last put under the key, through growth and
\* failures to grow.  The entries that have yet to move count as being there.
InTable(k) == {i \in 0..(cap - 1) : entries[i].key = k}
Behind(k)  == {i \in DOMAIN old : i >= next /\ old[i].key = k}
Contents ==
  [k \in Keys |->
     IF InTable(k) # {} THEN entries[CHOOSE i \in InTable(k) : TRUE].value
     ELSE IF Behind(k) # {} THEN old[CHOOSE i \in Behind(k) : TRUE].value
     ELSE Absent]
Table == INSTANCE Dictionary WITH table <- Contents
ImplementsDictionary == Table!Spec

\* Every call returns.
CallsReturn == call # Idle ~> call = Idle
=============================================================================

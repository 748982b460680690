---------------------------- MODULE IntervalList ----------------------------
(***************************************************************************)
(* The sorted intrusive lists of src/x64_gen/reg_alloc.c                   *)
(* (X64_IntervalList): a list of virtual registers kept in increasing      *)
(* order of one end of their live interval.  A list is the sequence of its *)
(* members, front first; `key' maps a member to the bound it is sorted on. *)
(***************************************************************************)
EXTENDS Integers, Sequences, SequencesExt

(* The list is in non-decreasing order of its key. *)
SortedBy(key, s) ==
  \A i, j \in 1..Len(s) : i < j => key[s[i]] <= key[s[j]]

(***************************************************************************)
(* Where DEF_X64_LREG_INTERVAL_ADD_FUNC links a new member: at the end     *)
(* when its key is at least the last one's, else in front of the first     *)
(* member (from the head) whose key is larger.                             *)
(***************************************************************************)
IsInsertPos(key, s, x, p) ==
  IF s # <<>> /\ key[x] >= key[s[Len(s)]]
  THEN p = Len(s) + 1
  ELSE /\ \A q \in 1..(p - 1) : key[x] >= key[s[q]]
       /\ p <= Len(s) => key[x] < key[s[p]]

(* `t' is the list `s' with `x' added in the order of `key'. *)
AddBy(key, s, x, t) ==
  \E p \in 1..(Len(s) + 1) : IsInsertPos(key, s, x, p) /\ t = InsertAt(s, p, x)

=============================================================================

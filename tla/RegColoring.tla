---------------------------- MODULE RegColoring -----------------------------
(***************************************************************************)
(* What a register allocator promises, whatever its strategy: values are   *)
(* placed one at a time, each in a register it may use and that no         *)
(* conflicting value holds, or in a stack slot of its own.  A value may    *)
(* later be evicted to the stack, never moved otherwise.  The allocation   *)
(* succeeds only when every value that needs a place has one.              *)
(***************************************************************************)
EXTENDS Integers

CONSTANTS
  Values,     (* what is placed                                            *)
  Registers,
  NoRegister,
  SlotSize,   (* bytes of a stack slot                                     *)
  LocalsEnd   (* bytes of the frame below which slots are                  *)

VARIABLES
  conflict,   (* pairs of values that may not share a register             *)
  allowed,    (* the registers each value may use                          *)
  spillable,  (* the values that may live on the stack                     *)
  needed,     (* the values that must have a place in the end              *)
  where,      (* the place of each value                                   *)
  outcome     (* running, placed or gave_up                                *)

problem == <<conflict, allowed, spillable, needed>>

Nowhere == [kind |-> "unassigned", reg |-> NoRegister, off |-> 0]
In(r)   == [kind |-> "reg", reg |-> r, off |-> 0]
At(o)   == [kind |-> "stack", reg |-> NoRegister, off |-> o]

Init ==
  /\ conflict \in SUBSET (Values \X Values)
  /\ allowed \in [Values -> SUBSET Registers]
  /\ spillable \in SUBSET Values
  /\ needed \in SUBSET Values
  /\ where = [v \in Values |-> Nowhere]
  /\ outcome = "running"

(* No value other than those in `except' keeps v out of r. *)
CanHold(r, v, except) ==
  /\ r \in allowed[v]
  /\ \A w \in Values \ (except \cup {v}) : where[w] = In(r) => <<v, w>> \notin conflict

FreshSlot(o) ==
  /\ o <= -(LocalsEnd + SlotSize)
  /\ \A w \in Values : where[w].kind = "stack" =>
       o - where[w].off >= SlotSize \/ where[w].off - o >= SlotSize

Assign(v, r) ==
  /\ where[v] = Nowhere
  /\ CanHold(r, v, {})
  /\ where' = [where EXCEPT ![v] = In(r)]

Spill(v, o) ==
  /\ where[v] = Nowhere /\ v \in spillable
  /\ FreshSlot(o)
  /\ where' = [where EXCEPT ![v] = At(o)]

(* v takes the register of w, which moves to the stack. *)
Evict(v, w, o) ==
  /\ where[v] = Nowhere /\ where[w].kind = "reg" /\ w \in spillable
  /\ CanHold(where[w].reg, v, {w})
  /\ FreshSlot(o)
  /\ where' = [where EXCEPT ![v] = where[w], ![w] = At(o)]

(* The places are chosen by looking at where': every other slot is fresh. *)
Place ==
  /\ outcome = "running"
  /\ \E v \in Values :
       \/ \E r \in Registers : Assign(v, r)
       \/ Spill(v, where'[v].off)
       \/ \E w \in Values : Evict(v, w, where'[w].off)
  /\ UNCHANGED <<problem, outcome>>

Succeed ==
  /\ outcome = "running"
  /\ \A v \in needed : where[v] # Nowhere
  /\ outcome' = "placed"
  /\ UNCHANGED <<problem, where>>

GiveUp ==
  /\ outcome = "running"
  /\ outcome' = "gave_up"
  /\ UNCHANGED <<problem, where>>

Next == Place \/ Succeed \/ GiveUp

Spec == Init /\ [][Next]_<<problem, where, outcome>>

=============================================================================

-------------------------- MODULE DependencyOrder --------------------------
(***************************************************************************)
(* What demand-driven resolution promises, whatever the order it meets     *)
(* things in: something is settled only after everything it needs, one     *)
(* thing at a time, and never unsettled.  In particular nothing on a       *)
(* cycle of needs is ever settled.                                         *)
(***************************************************************************)
CONSTANT Things

VARIABLES
  needs,   (* what each thing needs, fixed                                 *)
  settled

Init ==
  /\ needs \in [Things -> SUBSET Things]
  /\ settled = {}

Settle(x) ==
  /\ x \in Things \ settled
  /\ needs[x] \subseteq settled
  /\ settled' = settled \cup {x}
  /\ UNCHANGED needs

Next == \E x \in Things : Settle(x)

Spec == Init /\ [][Next]_<<needs, settled>>
=============================================================================

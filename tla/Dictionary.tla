----------------------------- MODULE Dictionary -----------------------------
(***************************************************************************)
(* What a table of keys promises the one caller it has: looking a key up   *)
(* returns the value that was last put under it, and a put that reports    *)
(* failure, for want of memory, has changed nothing.                       *)
(***************************************************************************)
CONSTANTS
  Keys,
  Values,
  Absent   (* what is returned where there is no value                     *)

VARIABLES
  table,   (* the value under each key                                     *)
  call,    (* the call in progress, or Idle                                *)
  answer   (* what the last call returned                                  *)

vars == <<table, call, answer>>

Idle  == [op |-> "none", key |-> Absent, value |-> Absent]
Calls == [op : {"put"}, key : Keys, value : Values]
           \cup [op : {"get"}, key : Keys, value : {Absent}]

Init ==
  /\ table = [k \in Keys |-> Absent]
  /\ call = Idle
  /\ answer = Absent

Begin == /\ call = Idle
         /\ call' \in Calls
         /\ UNCHANGED <<table, answer>>

Return(x) == call' = Idle /\ answer' = x

Put == /\ call.op = "put"
       /\ table' = [table EXCEPT ![call.key] = call.value]
       /\ Return(call.value)

PutFails == /\ call.op = "put"
            /\ UNCHANGED table
            /\ Return(Absent)

Get == /\ call.op = "get"
       /\ UNCHANGED table
       /\ Return(table[call.key])

Next == Begin \/ Put \/ PutFails \/ Get
Spec == Init /\ [][Next]_vars
=============================================================================

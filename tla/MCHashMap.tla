----------------------------- MODULE MCHashMap -----------------------------
(* Keys that collide in tables of every size, one pair at the last slot so   *)
(* that probes go round the end.                                             *)
EXTENDS HashMap

MCKeys == {1, 2, 3, 4}
MCHash == <<7, 15, 3, 8>>
MCCaps == {0, 1, 4}
=============================================================================

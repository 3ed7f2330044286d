----------------------------- MODULE MCCaveWorld -----------------------------
(* Bounds for TLC: connection numbers and ids are small numbers, because the *)
(* order of the keys and the count of the elements decide what happens.      *)
EXTENDS CaveWorldCalls

MCConnections == 0 .. 2
MCIds == 0 .. 1
MCMessages == {[type |-> "vehicle"], [type |-> "dsrc"]}
=============================================================================

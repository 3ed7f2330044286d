---------------------------- MODULE MCChronoClient ----------------------------
(* Bounds for TLC: connections are numbers, in the order of the accepts.     *)
EXTENDS ChronoClient

MCConnections == 0 .. 1

(* The second client is one of the repository's programs: it never fills in *)
(* connectionNumber, a required field (MessageConversions.cpp).  The first  *)
(* is free to.                                                              *)
MCCompleteness == [n \in MCConnections |-> IF n = 0 THEN BOOLEAN ELSE {FALSE}]
=============================================================================

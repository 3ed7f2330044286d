--------------------------- MODULE MCChronoServer ---------------------------
(* Bounds for TLC: connections are numbers, in the order of the accepts.     *)
EXTENDS ChronoServer

MCConnections == 0 .. 1

(* The first client is one of the repository's: it never fills in           *)
(* connectionNumber, a required field (MessageConversions.cpp).  The second  *)
(* is free to.                                                              *)
MCCompleteness == [n \in MCConnections |-> IF n = 0 THEN {FALSE} ELSE BOOLEAN]
=============================================================================

---------------------------- MODULE MCCaveServer ----------------------------
(* Bounds for TLC: two clients with one vehicle each.  Lossy, duplicating    *)
(* datagrams and a queue of two are enough for the worker to be an iteration *)
(* ahead of the closure that the main thread runs.                           *)
EXTENDS CaveServer

MCConnections == 0 .. 1
MCIds == {0}
MCMessages == [type : {"vehicle"}, cn : MCConnections, id : MCIds]
=============================================================================

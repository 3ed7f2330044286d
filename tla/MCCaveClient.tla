----------------------------- MODULE MCCaveClient -----------------------------
(* The two parts of the CAVE client, a behaviour being one of either: the    *)
(* agents of a process, and the simulation on top of its handler.  Bounds    *)
(* for TLC: the places of the unit test (dsrc-tests.cpp), of which the       *)
(* second is in range of the first and the third of neither, and two         *)
(* messages of an agent, so that one can wait behind another; the program's  *)
(* vehicle and another, each in two places, and two messages or packets on   *)
(* their way, so that one can overtake the other.                            *)
EXTENDS DsrcAgent, CaveClient

MCTrio == 0 .. 2
MCTrioMessages == [a \in MCTrio |-> IF a = 0 THEN 2 ELSE 1]

MCNear == {<<"loc1", "loc1">>, <<"loc2", "loc2">>, <<"loc3", "loc3">>,
           <<"loc1", "loc2">>, <<"loc2", "loc1">>}

MCVehicles == <<1, 2>>

VARIABLE half

MCInit == /\ half \in {"agents", "simulation"}
          /\ Init /\ (half = "simulation" => \A a \in Agents : place[a] = "loc1")
          /\ SimInit

NextAgents == half = "agents" /\ Next /\ UNCHANGED <<half, simVars>>
NextSim == half = "simulation" /\ SimNext /\ UNCHANGED <<half, vars>>
MCNext == NextAgents \/ NextSim

mcVars == <<half, vars, simVars>>

(* The simulation's thread runs; nobody owes it anything.                    *)
MCSpec == MCInit /\ [][MCNext]_mcVars /\ WF_mcVars(NextSim /\ Simulation)
=============================================================================

------------------------------ MODULE CaveClient ------------------------------
(***************************************************************************)
(* A program of the CAVE client (chrono-sim/sim-tests.cpp) on top of its    *)
(* handler: in every step of the simulation it sends its vehicle, and makes *)
(* or moves the vehicles of the messages that have come.  The listener of   *)
(* the handler takes the server's packets apart into the queue between the  *)
(* two.  The server, which is CaveServer, is here a world of versions that  *)
(* answers a message with a packet of all vehicles; the network loses,      *)
(* repeats and reorders.                                                    *)
(***************************************************************************)
EXTENDS Naturals, SequencesExt

CONSTANTS
    Vehicles,      \* all vehicles, in the order of <<connectionNumber, idNumber>>
    Own,           \* the program's
    MaxVersion,    \* bound: states of a vehicle
    MaxInFlight,   \* bound: messages and packets on their way
    MaxDisorder    \* bound: messages or packets that are overtaken or repeated

ASSUME ClientAssumption ==
    /\ Vehicles \in Seq(ToSet(Vehicles)) /\ Own \in ToSet(Vehicles)
    /\ MaxVersion \in Nat /\ MaxInFlight \in Nat /\ MaxDisorder \in Nat

Parts == {"chassis", "back left", "back right", "front left", "front right"}

VARIABLES
    main,            \* where the simulation's loop is
    world,           \* the version of each vehicle in the server's world; 0: none
    requests,        \* how many messages are on their way to the server
    packets,         \* packets on their way back, oldest first
    incoming,        \* what the listener has still to enqueue of a packet
    simUpdateQueue,  \* ChClientHandler::simUpdateQueue
    otherVehicles,   \* where the bodies of each vehicle are; <<>>: not made
    disorder         \* how often something was overtaken or repeated on its way

networkVars == <<world, requests, packets, disorder>>
simVars == <<main, networkVars, incoming, simUpdateQueue, otherVehicles>>

SimInit ==
    /\ main = "push"
    /\ world = [v \in ToSet(Vehicles) |-> 0]
    /\ requests = 0 /\ disorder = 0
    /\ packets = <<>> /\ incoming = <<>> /\ simUpdateQueue = <<>>
    /\ otherVehicles = [v \in ToSet(Vehicles) |-> <<>>]

-----------------------------------------------------------------------------
(* What is sent of a vehicle, and what is made of it                        *)

(* generateVehicleMessageFromWheeledVehicle: <<p, n>> is where part p is in *)
(* version n.                                                               *)
VehicleMessage(v, n) == [vehicle |-> v, at |-> [p \in Parts |-> <<p, n>>]]

Wheels == <<"back left", "back right", "front left", "front right">>

(* ServerVehicle::update                                                    *)
Update(m) ==
    [chassis |-> m.at["chassis"], hitbox |-> m.at["chassis"],
     wheels |-> [i \in DOMAIN Wheels |-> m.at[Wheels[i]]]]

-----------------------------------------------------------------------------
(* The server and the network                                               *)

(* A vehicle comes or moves, or an earlier message of it arrives late.      *)
Change(v) ==
    /\ \/ world[v] < MaxVersion /\ world' = [world EXCEPT ![v] = @ + 1] /\ UNCHANGED disorder
       \/ /\ world[v] > 1 /\ disorder < MaxDisorder
          /\ world' = [world EXCEPT ![v] = @ - 1]
          /\ disorder' = disorder + 1
    /\ UNCHANGED <<main, requests, packets, incoming, simUpdateQueue, otherVehicles>>

Packet ==
    LET PacketTo[i \in 0 .. Len(Vehicles)] ==
            IF i = 0 THEN <<>>
            ELSE IF world[Vehicles[i]] = 0 THEN PacketTo[i - 1]
            ELSE Append(PacketTo[i - 1], VehicleMessage(Vehicles[i], world[Vehicles[i]]))
    IN  PacketTo[Len(Vehicles)]

(* Of each message there is a packet, unless one of the two is lost.        *)
Serve ==
    /\ requests > 0
    /\ requests' = requests - 1
    /\ packets' \in {packets, Append(packets, Packet)}
    /\ UNCHANGED <<main, world, incoming, simUpdateQueue, otherVehicles, disorder>>

-----------------------------------------------------------------------------
(* The listener: beginListen                                                *)

(* receiveMessage: the oldest packet, or one out of turn, or one that will  *)
(* come again                                                               *)
Receive ==
    /\ incoming = <<>>
    /\ \E i \in DOMAIN packets :
          /\ incoming' = packets[i]
          /\ \/ i = 1 /\ packets' = Tail(packets) /\ UNCHANGED disorder
             \/ /\ disorder < MaxDisorder /\ disorder' = disorder + 1
                /\ packets' \in {packets, RemoveAt(packets, i)}
    /\ UNCHANGED <<main, world, requests, simUpdateQueue, otherVehicles>>

(* Mutant: a message goes in front of those that wait.                      *)
EnqueueInFront ==
    /\ incoming # <<>>
    /\ simUpdateQueue' = <<Head(incoming)>> \o simUpdateQueue
    /\ incoming' = Tail(incoming)
    /\ UNCHANGED <<main, networkVars, otherVehicles>>

Enqueue ==
    /\ incoming # <<>>
    /\ simUpdateQueue' = Append(simUpdateQueue, Head(incoming))
    /\ incoming' = Tail(incoming)
    /\ UNCHANGED <<main, networkVars, otherVehicles>>

-----------------------------------------------------------------------------
(* The simulation                                                           *)

Go(from, to) == main = from /\ main' = to

(* A message may be lost, and is with MaxInFlight on their way.             *)
Request == requests' \in requests .. Min({requests + 1, MaxInFlight - Len(packets)})

Push ==
    /\ Go("push", "drain")
    /\ Request
    /\ UNCHANGED <<world, packets, disorder, incoming, simUpdateQueue, otherVehicles>>

(* while (handler.waitingMessages() > 0); when none waits, the simulation   *)
(* advances.                                                                *)
Drain ==
    /\ Go("drain", IF simUpdateQueue = <<>> THEN "push" ELSE "pop")
    /\ UNCHANGED <<networkVars, incoming, simUpdateQueue, otherVehicles>>

(* Mutant: every message is answered with the state it leaves.              *)
PopAndPush ==
    /\ simUpdateQueue # <<>> /\ Go("pop", "drain")
    /\ LET m == Head(simUpdateQueue)
       IN  otherVehicles' = IF m.vehicle = Own THEN otherVehicles
                            ELSE [otherVehicles EXCEPT ![m.vehicle] = Update(m)]
    /\ simUpdateQueue' = Tail(simUpdateQueue)
    /\ Request
    /\ UNCHANGED <<world, packets, disorder, incoming>>

(* popSimMessage, which would block if nothing were there                   *)
Pop ==
    /\ simUpdateQueue # <<>> /\ Go("pop", "drain")
    /\ LET m == Head(simUpdateQueue)
       IN  otherVehicles' = IF m.vehicle = Own THEN otherVehicles
                            ELSE [otherVehicles EXCEPT ![m.vehicle] = Update(m)]
    /\ simUpdateQueue' = Tail(simUpdateQueue)
    /\ UNCHANGED <<networkVars, incoming>>

-----------------------------------------------------------------------------
Simulation == Push \/ Drain \/ Pop
SimNext == \/ Simulation \/ Receive \/ Enqueue \/ Serve
           \/ \E v \in ToSet(Vehicles) : Change(v)

SimSpec == SimInit /\ [][SimNext]_simVars

-----------------------------------------------------------------------------
(* A vehicle is moved back to where it was before only if a message or a    *)
(* packet was overtaken or repeated on its way: no message has a number     *)
(* that the server or the program would look at.                            *)
Shown(v) == IF otherVehicles[v] = <<>> THEN 0 ELSE otherVehicles[v].chassis[2]
BackOnlyByDisorder ==
    [][\A v \in ToSet(Vehicles) : Shown(v)' < Shown(v) => disorder > 0]_simVars

(* The program gets out of the loop over what has come, however fast the    *)
(* listener fills the queue: the server answers what was sent, and inside   *)
(* the loop nothing is sent.  Nor does popSimMessage block in it: a message *)
(* that waited is still there, the simulation being the only one to pop.    *)
DrainEnds == main = "drain" ~> main = "push"
=============================================================================

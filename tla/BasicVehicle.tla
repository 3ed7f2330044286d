----------------------------- MODULE BasicVehicle -----------------------------
(***************************************************************************)
(* The third pair: BasicVehicleClient sends one vehicle message by udp and  *)
(* ends; BasicVehicleServer (udp_server) listens for endpoints with a       *)
(* buffer of one byte, greets those that say 'p', and starts a thread that  *)
(* receives vehicles when it hears of an endpoint again.  The listener and  *)
(* the threads receive from the same socket, each of them from anybody.     *)
(* io_service.run is behind the listener's endless loop, so no completion   *)
(* handler ever runs: that of async_send_to would start a receiver as well. *)
(***************************************************************************)
EXTENDS Sequences, Naturals, Functions

CONSTANTS
    Endpoints,     \* of the clients; a program may get one that was used before
    MaxSends,      \* bound: datagrams sent from an endpoint
    MaxWaiting     \* bound: datagrams waiting in the server's socket

ASSUME VehicleAssumption == MaxSends \in Nat /\ MaxWaiting \in Nat

VARIABLES
    sends,         \* endpoint -> datagrams sent
    socket,        \* the datagrams that wait in socket_
    endpoints,     \* udp_server::endpoints
    greeted,       \* the endpoints that were sent a greeting
    threads,       \* how many threads receive vehicles
    heard,         \* history: whose datagrams the listener took, in order
    shown          \* history: vehicles that were parsed and shown

vehicleVars == <<sends, socket, endpoints, greeted, threads, heard, shown>>

Contents == {"vehicle", "p"}

VehicleInit ==
    /\ sends = [e \in Endpoints |-> 0]
    /\ socket = <<>>
    /\ endpoints = <<>>
    /\ greeted = {}
    /\ threads = 0
    /\ heard = <<>>
    /\ shown = 0

(* A client's datagram, which may be lost                                   *)
Send(e) ==
    /\ sends[e] < MaxSends /\ Len(socket) < MaxWaiting
    /\ sends' = [sends EXCEPT ![e] = @ + 1]
    /\ \/ \E content \in Contents : socket' = Append(socket, [from |-> e, content |-> content])
       \/ UNCHANGED socket
    /\ UNCHANGED <<endpoints, greeted, threads, heard, shown>>

Recognized(e) == e \in Range(endpoints)

(* Mutant: the thread is started for a new endpoint as well.                *)
StartReceiveAtOnce ==
    /\ socket # <<>>
    /\ socket' = Tail(socket)
    /\ LET e == Head(socket).from
       IN  /\ threads' = threads + 1
           /\ heard' = Append(heard, e)
           /\ endpoints' = IF Recognized(e) THEN endpoints ELSE Append(endpoints, e)
           /\ greeted' = IF ~Recognized(e) /\ Head(socket).content = "p"
                           THEN greeted \cup {e} ELSE greeted
    /\ UNCHANGED <<sends, shown>>

(* start_receive: the first byte of a datagram, whose rest is gone          *)
StartReceive ==
    /\ socket # <<>>
    /\ socket' = Tail(socket)
    /\ LET e == Head(socket).from
       IN  /\ heard' = Append(heard, e)
           /\ IF Recognized(e)
                THEN threads' = threads + 1 /\ UNCHANGED <<endpoints, greeted>>
                ELSE /\ endpoints' = Append(endpoints, e)
                     /\ greeted' = IF Head(socket).content = "p" THEN greeted \cup {e}
                                                                 ELSE greeted
                     /\ UNCHANGED threads
    /\ UNCHANGED <<sends, shown>>

(* receiveVehicle, in one of the threads                                    *)
ReceiveVehicle ==
    /\ threads > 0 /\ socket # <<>>
    /\ socket' = Tail(socket)
    /\ shown' = IF Head(socket).content = "vehicle" THEN shown + 1 ELSE shown
    /\ UNCHANGED <<sends, endpoints, greeted, threads, heard>>

VehicleNext == StartReceive \/ ReceiveVehicle \/ \E e \in Endpoints : Send(e)

VehicleSpec == VehicleInit /\ [][VehicleNext]_vehicleVars

-----------------------------------------------------------------------------
VehicleTypeOK ==
    /\ sends \in [Endpoints -> 0 .. MaxSends]
    /\ socket \in Seq([from : Endpoints, content : Contents])
    /\ endpoints \in Seq(Endpoints)
    /\ greeted \subseteq Endpoints
    /\ threads \in Nat /\ shown \in Nat
    /\ heard \in Seq(Endpoints)

(* The variables keep their types, and every datagram the listener takes    *)
(* makes an endpoint known or starts a thread that never ends: there are as *)
(* many threads as it took datagrams too many.  The vehicles it took are    *)
(* lost, so one is shown only after two datagrams of one endpoint were; a   *)
(* client that sends a single message from an endpoint of its own, as the   *)
(* repository's does, is never shown, however many of them there are.       *)
ShownOnlyAfterAReturn ==
    /\ VehicleTypeOK
    /\ threads = Len(heard) - Len(endpoints)
    /\ shown > 0 => \E i, j \in DOMAIN heard : i < j /\ heard[i] = heard[j]
=============================================================================

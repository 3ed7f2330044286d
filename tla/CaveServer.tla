------------------------------ MODULE CaveServer ------------------------------
(***************************************************************************)
(* The CAVE server (CAVE-server/CAVE-Server.cpp) with the threads its       *)
(* ChServerHandler starts:                                                  *)
(*                                                                          *)
(*   clients --tcp--> acceptor ------------------+                          *)
(*   clients --udp--> listener -> receiveQueue   |                          *)
(*                       worker (processMessages)+-> worldQueue             *)
(*                         |                           main thread -> World *)
(*                         +-> sendQueue -> sender --udp--> clients         *)
(*                                                                          *)
(* The closures that the worker enqueues capture its loop variables by      *)
(* reference, all but the message.  The main thread runs a closure while    *)
(* the worker is already busy with a later message, so a closure reads the  *)
(* variables of whatever iteration the worker is in: frame is that memory.  *)
(***************************************************************************)
EXTENDS CaveWorld, Sequences, Integers

CONSTANTS
    Clients,      \* client processes, each with its own udp endpoint
    NoProfile,    \* a null endpointProfile*
    NoNumber,     \* what a client has before the handshake
    NoMessage,    \* a null shared_ptr to a message
    MaxQueue,     \* bound: datagrams waiting in receiveQueue
    MaxCalls,     \* bound: closures waiting in worldQueue when the worker pops
    MaxReplies    \* bound: packets waiting in sendQueue when the worker pops

ASSUME ServerAssumption ==
    /\ Addresses = Clients
    /\ Messages = [type : {"vehicle"}, cn : Connections, id : Ids]
    /\ NoProfile \notin Connections /\ NoNumber \notin Connections
    /\ NoMessage \notin Messages
    /\ MaxQueue \in Nat /\ MaxCalls \in Nat /\ MaxReplies \in Nat

VARIABLES
    number,            \* each client's m_connectionNumber
    connectionCount,   \* ChServerHandler::connectionCount
    acceptor,          \* where the acceptor thread is
    network,           \* the datagrams on their way to the server
    receiveQueue,      \* ChServerHandler::receiveQueue
    worker,            \* where the worker thread is
    message,           \* the worker's message: the closures copy this one
    frame,             \* the worker's endpoint, connectionNumber, idNumber, profile
    worldQueue,        \* the closures waiting for the main thread
    main,              \* where the main thread is in the closure it runs
    closure,           \* the message that closure captured
    sendQueue          \* ChServerHandler::sendQueue: where the packets go

netVars == <<number, connectionCount, acceptor, network>>
workerVars == <<receiveQueue, worker, message, sendQueue>>
serverVars == <<worldVars, netVars, workerVars, frame, worldQueue, main, closure>>

Init ==
    /\ WorldInit
    /\ number = [c \in Clients |-> NoNumber]
    /\ connectionCount = 0
    /\ acceptor = "accept"
    /\ network = {}
    /\ receiveQueue = <<>>
    /\ worker = "pop"
    /\ message = NoMessage
    /\ frame = [endpoint |-> NoProfile, cn |-> 0, id |-> 0, profile |-> NoProfile]
    /\ worldQueue = <<>>
    /\ main = "idle"
    /\ closure = NoMessage
    /\ sendQueue = <<>>

Push(call) == worldQueue' = Append(worldQueue, call)

-----------------------------------------------------------------------------
(* The acceptor: the client has its number before the closure that makes    *)
(* the number known to the world is in the queue.                           *)

AcceptorSend(c) ==
    /\ acceptor = "accept"
    /\ number[c] = NoNumber /\ connectionCount \in Connections
    /\ number' = [number EXCEPT ![c] = connectionCount]
    /\ acceptor' = "enqueue"
    /\ UNCHANGED <<worldVars, connectionCount, network, workerVars, frame, worldQueue, main, closure>>

(* Mutant: the number is not counted up.                                    *)
AcceptorEnqueueSameNumber ==
    /\ acceptor = "enqueue"
    /\ Push([call |-> "number", cn |-> connectionCount])
    /\ acceptor' = "accept"
    /\ UNCHANGED <<worldVars, number, connectionCount, network, workerVars, frame, main, closure>>

(* Mutant: the number is counted up before the closure captures it.         *)
AcceptorEnqueueNextNumber ==
    /\ acceptor = "enqueue"
    /\ Push([call |-> "number", cn |-> connectionCount + 1])
    /\ connectionCount' = connectionCount + 1
    /\ acceptor' = "accept"
    /\ UNCHANGED <<worldVars, number, network, workerVars, frame, main, closure>>

AcceptorEnqueue ==
    /\ acceptor = "enqueue"
    /\ Push([call |-> "number", cn |-> connectionCount])
    /\ connectionCount' = connectionCount + 1
    /\ acceptor' = "accept"
    /\ UNCHANGED <<worldVars, number, network, workerVars, frame, main, closure>>

-----------------------------------------------------------------------------
(* udp: datagrams are lost, duplicated and overtaken                        *)

ClientSend(c, id) ==
    /\ number[c] # NoNumber
    /\ network' = network \cup
          {[endpoint |-> c, message |-> [type |-> "vehicle", cn |-> number[c], id |-> id]]}
    /\ UNCHANGED <<worldVars, number, connectionCount, acceptor, workerVars, frame,
                   worldQueue, main, closure>>

Lose(d) ==
    /\ network' = network \ {d}
    /\ UNCHANGED <<worldVars, number, connectionCount, acceptor, workerVars, frame,
                   worldQueue, main, closure>>

(* the listener: receiveMessage, then receiveQueue.enqueue                  *)
Listen(d) ==
    /\ Len(receiveQueue) < MaxQueue
    /\ receiveQueue' = Append(receiveQueue, d)
    /\ network' \in {network, network \ {d}}
    /\ UNCHANGED <<worldVars, number, connectionCount, acceptor, worker, message, sendQueue,
                   frame, worldQueue, main, closure>>

-----------------------------------------------------------------------------
(* The worker, processMessages                                              *)

WorkerPop ==
    /\ worker = "pop" /\ receiveQueue # <<>>
    /\ Len(worldQueue) < MaxCalls /\ Len(sendQueue) < MaxReplies
    /\ message' = Head(receiveQueue).message
    /\ frame' = [frame EXCEPT !.endpoint = Head(receiveQueue).endpoint]
    /\ receiveQueue' = Tail(receiveQueue)
    /\ worker' = "read"
    /\ UNCHANGED <<worldVars, netVars, sendQueue, worldQueue, main, closure>>

(* connectionNumber and idNumber, by reflection                             *)
WorkerRead ==
    /\ worker = "read"
    /\ frame' = [frame EXCEPT !.cn = message.cn, !.id = message.id]
    /\ worker' = "verify"
    /\ UNCHANGED <<worldVars, netVars, receiveQueue, message, sendQueue, worldQueue, main, closure>>

Profile == IF VerifyConnection(frame.cn, frame.endpoint) THEN frame.cn ELSE NoProfile

(* Mutant: a profile that was found is not looked up again.                 *)
WorkerVerifyOnce ==
    /\ worker = "verify"
    /\ frame' = [frame EXCEPT !.profile = IF @ = NoProfile THEN Profile ELSE @]
    /\ worker' = "dispatch"
    /\ UNCHANGED <<worldVars, netVars, receiveQueue, message, sendQueue, worldQueue, main, closure>>

WorkerVerify ==
    /\ worker = "verify"
    /\ frame' = [frame EXCEPT !.profile = Profile]
    /\ worker' = "dispatch"
    /\ UNCHANGED <<worldVars, netVars, receiveQueue, message, sendQueue, worldQueue, main, closure>>

WorkerDispatch ==
    /\ worker = "dispatch"
    /\ Push([call |-> IF frame.profile = NoProfile THEN "handshake" ELSE "update",
             message |-> message])
    /\ worker' = "reply"
    /\ UNCHANGED <<worldVars, netVars, receiveQueue, message, sendQueue, frame, main, closure>>

(* if (profile != NULL) handler.pushMessage(endpoint, the whole world)      *)
WorkerReply ==
    /\ worker = "reply"
    /\ sendQueue' = IF frame.profile = NoProfile THEN sendQueue
                                                 ELSE Append(sendQueue, frame.endpoint)
    /\ worker' = "pop"
    /\ UNCHANGED <<worldVars, netVars, receiveQueue, message, frame, worldQueue, main, closure>>

(* the sender: sendQueue.dequeue, then sendMessage                          *)
Sender ==
    /\ sendQueue # <<>>
    /\ sendQueue' = Tail(sendQueue)
    /\ UNCHANGED <<worldVars, netVars, receiveQueue, worker, message, frame, worldQueue, main,
                   closure>>

-----------------------------------------------------------------------------
(* The main thread: worldQueue.dequeue()()                                  *)

MainNumber ==
    /\ main = "idle" /\ worldQueue # <<>> /\ Head(worldQueue).call = "number"
    /\ RegisterConnectionNumber(Head(worldQueue).cn)
    /\ worldQueue' = Tail(worldQueue)
    /\ UNCHANGED <<netVars, workerVars, frame, main, closure>>

MainHandshake ==
    /\ main = "idle" /\ worldQueue # <<>> /\ Head(worldQueue).call = "handshake"
    /\ RegisterEndpoint(frame.endpoint, frame.cn)
    /\ main' = IF CanRegisterEndpoint(frame.cn) THEN "verify" ELSE "idle"
    /\ closure' = Head(worldQueue).message
    /\ worldQueue' = Tail(worldQueue)
    /\ UNCHANGED <<netVars, workerVars, frame>>

(* profile = world.verifyConnection(connectionNumber, endpoint), which      *)
(* writes the worker's variable                                             *)
MainVerify ==
    /\ main = "verify"
    /\ frame' = [frame EXCEPT !.profile = Profile]
    /\ main' = IF Profile = NoProfile THEN "idle" ELSE "update"
    /\ UNCHANGED <<worldVars, netVars, workerVars, worldQueue, closure>>

(* updateElement through the worker's profile pointer, null or not          *)
UpdateThroughFrame(m) ==
    IF frame.profile = NoProfile
      THEN status' = "undefined" /\ UNCHANGED <<registered, endpoints, elements>>
      ELSE UpdateElement(m, frame.profile, frame.id)

MainHandshakeUpdate ==
    /\ main = "update"
    /\ UpdateThroughFrame(closure)
    /\ main' = "idle"
    /\ UNCHANGED <<netVars, workerVars, frame, worldQueue, closure>>

MainUpdate ==
    /\ main = "idle" /\ worldQueue # <<>> /\ Head(worldQueue).call = "update"
    /\ UpdateThroughFrame(Head(worldQueue).message)
    /\ worldQueue' = Tail(worldQueue)
    /\ UNCHANGED <<netVars, workerVars, frame, main, closure>>

-----------------------------------------------------------------------------
Acceptor == (\E c \in Clients : AcceptorSend(c)) \/ AcceptorEnqueue
Network == (\E c \in Clients, id \in Ids : ClientSend(c, id)) \/ \E d \in network : Lose(d)
Listener == \E d \in network : Listen(d)
Worker == WorkerPop \/ WorkerRead \/ WorkerVerify \/ WorkerDispatch \/ WorkerReply
Main == MainNumber \/ MainHandshake \/ MainVerify \/ MainHandshakeUpdate \/ MainUpdate

(* A null dereference ends the process; a main thread that loops forever is *)
(* not followed any further.                                                *)
Next == status = "running" /\ (Acceptor \/ Network \/ Listener \/ Worker \/ Sender \/ Main)

Running == status = "running"
Fairness == WF_serverVars(Running /\ Main) /\ WF_serverVars(Running /\ AcceptorEnqueue)

Spec == Init /\ [][Next]_serverVars /\ Fairness

-----------------------------------------------------------------------------
Datagrams == [endpoint : Clients, message : Messages]

TypeOK ==
    /\ WorldTypeOK
    /\ number \in [Clients -> Connections \cup {NoNumber}]
    /\ connectionCount \in Nat
    /\ acceptor \in {"accept", "enqueue"}
    /\ network \subseteq Datagrams
    /\ receiveQueue \in Seq(Datagrams)
    /\ worker \in {"pop", "read", "verify", "dispatch", "reply"}
    /\ message \in Messages \cup {NoMessage}
    /\ frame \in [endpoint : Clients \cup {NoProfile}, cn : Nat, id : Nat,
                  profile : Connections \cup {NoProfile}]
    /\ worldQueue \in Seq([call : {"number"}, cn : Connections]
                           \cup [call : {"handshake", "update"}, message : Messages])
    /\ main \in {"idle", "verify", "update"}
    /\ closure \in Messages \cup {NoMessage}
    /\ sendQueue \in Seq(Clients)

Queued(n) == {i \in DOMAIN worldQueue : worldQueue[i].call = "number" /\ worldQueue[i].cn = n}

(* The variables keep their types, and a number is given to one client and  *)
(* is in exactly one place on its way from the acceptor to the world: to be *)
(* enqueued, in a closure, known, or bound to an endpoint -- three threads  *)
(* hand it on.                                                              *)
NumberHandedOnOnce ==
    /\ TypeOK
    /\ \A a, b \in Clients : number[a] = number[b] /\ number[a] # NoNumber => a = b
    /\ \A n \in Connections :
          LET issued == n < connectionCount
              places == Cardinality(Queued(n)) + (IF n \in registered THEN 1 ELSE 0)
                          + (IF n \in DOMAIN endpoints THEN 1 ELSE 0)
          IN  places = IF issued THEN 1 ELSE 0

(* The number a client was given becomes known to the world, unless the     *)
(* main thread is stopped by a loop that hangs or by undefined behaviour.   *)
NumberBecomesKnown ==
    \A c \in Clients :
        number[c] # NoNumber
            ~> (number[c] \in registered \cup DOMAIN endpoints \/ status # "running")

(* A closure stores its message under the number and the id in the worker's *)
(* variables.  They are another connection's only if the worker has taken   *)
(* up a datagram since: it is reading it, or has another message by now.    *)
ForeignOnlyFromAnIterationAhead ==
    [][\A k \in DOMAIN elements' :
          /\ k \notin DOMAIN elements \/ elements'[k] # elements[k]
          /\ elements'[k].cn # k[1]
          => worker \in {"read", "verify"} \/ message # elements'[k]]_serverVars
=============================================================================

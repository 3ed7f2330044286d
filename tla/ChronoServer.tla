----------------------------- MODULE ChronoServer -----------------------------
(***************************************************************************)
(* The tcp server (ChronoServer/main.cpp and ChronoServer/World.cpp).  One   *)
(* thread per connection (processConnection) talks to its client and queues *)
(* the changes of the world; the main thread alone executes them, holding   *)
(* queueMutex.  The connection threads read the world with no lock: they    *)
(* spin until their vehicle is there, and then walk the map to send it.     *)
(*                                                                          *)
(* A connection is its number, which is also the id of its vehicle.         *)
(* ChronoServer-test is the same program, but for a process that ends when  *)
(* a leaving client finds no vehicle counted: variant says which it is.     *)
(***************************************************************************)
EXTENDS Integers, Sequences, FiniteSets

CONSTANTS
    Variants,      \* of {"server", "test"}, the programs looked at
    Connections,   \* the numbers of the connections that clients make
    Completeness,  \* of each client: may its messages lack a required field
    MaxInbox,      \* bound: messages of a client the server has not read
    MaxOutbox,     \* bound: what the server sent that the client has not read
    MaxCalls       \* bound: closures waiting when one more update is queued

ASSUME ConnectionAssumption == Connections \subseteq Nat
ASSUME CompletenessAssumption == Completeness \in [Connections -> SUBSET BOOLEAN]
ASSUME BoundAssumption == MaxInbox \in Nat /\ MaxOutbox \in Nat /\ MaxCalls \in Nat

VARIABLES
    variant,       \* the program
    pc,            \* where the thread of each connection is
    gone,          \* the connections whose client has closed its socket
    inbox,         \* client to server, in order
    outbox,        \* server to client, in order
    cursor,        \* the iterator of each thread over the section
    section,       \* World::sectionGrid[0][0]: id -> is the message initialized
    numVehicles,   \* World::numVehicles_
    worldQueue,    \* the closures waiting for the main thread
    status         \* "running", or how the process ended

vars == <<variant, pc, gone, inbox, outbox, cursor, section, numVehicles, worldQueue, status>>
worldVars == <<variant, section, numVehicles, status>>

AtEnd == -1    \* section.end()

(* What client n sends: a vehicle message that names a vehicle, and may     *)
(* lack required fields, or a disconnect.                                   *)
VehicleMessages(n) == [code : {"vehicle"}, id : Connections, complete : Completeness[n]]
Disconnect == [code |-> "disconnect"]
ClientMessages == (UNION {VehicleMessages(n) : n \in Connections}) \cup {Disconnect}

(* What the server sends: a whole vehicle, an id, or the end of a group.    *)
VehicleId(id) == [code |-> "id", id |-> id]
WholeVehicle(id) == [code |-> "vehicle", id |-> id]
EndOfGroup == [code |-> "end"]
ServerMessages == [code : {"vehicle"}, id : Connections] \cup {VehicleId(0), EndOfGroup}

Calls == [op : {"add", "update", "remove"}, id : Connections, complete : BOOLEAN]

Call(op, id, complete) == [op |-> op, id |-> id, complete |-> complete]

Init ==
    /\ variant \in Variants
    /\ pc = [n \in Connections |-> "none"]
    /\ gone = {}
    /\ inbox = [n \in Connections |-> <<>>]
    /\ outbox = [n \in Connections |-> <<>>]
    /\ cursor = [n \in Connections |-> AtEnd]
    /\ section = [n \in {} |-> FALSE]
    /\ numVehicles = 0
    /\ worldQueue = <<>>
    /\ status = "running"

Goto(n, l) == pc' = [pc EXCEPT ![n] = l]

Push(call) == worldQueue' = Append(worldQueue, call)

Receive(n) == inbox[n] # <<>> /\ inbox' = [inbox EXCEPT ![n] = Tail(@)]

(* socket->close(): what has not been read is lost, and the thread goes on  *)
(* to its end                                                               *)
CloseAndGoto(n, l) == Goto(n, l) /\ inbox' = [inbox EXCEPT ![n] = <<>>]

Close(n) == CloseAndGoto(n, "closed")

(* A send arrives, or goes nowhere when the peer has closed.                *)
Send(n, message) ==
    IF n \in gone THEN UNCHANGED outbox
    ELSE Len(outbox[n]) < MaxOutbox /\ outbox' = [outbox EXCEPT ![n] = Append(@, message)]

-----------------------------------------------------------------------------
(* The clients                                                              *)

(* A client sends nothing after a disconnect.                               *)
ClientSend(n, message) ==
    /\ pc[n] \notin {"none", "closed", "lost"} /\ n \notin gone /\ Len(inbox[n]) < MaxInbox
    /\ \A i \in DOMAIN inbox[n] : inbox[n][i] # Disconnect
    /\ inbox' = [inbox EXCEPT ![n] = Append(@, message)]
    /\ UNCHANGED <<pc, gone, outbox, cursor, worldVars, worldQueue>>

ClientRead(n) ==
    /\ outbox[n] # <<>> /\ n \notin gone
    /\ outbox' = [outbox EXCEPT ![n] = Tail(@)]
    /\ UNCHANGED <<pc, gone, inbox, cursor, worldVars, worldQueue>>

ClientClose(n) ==
    /\ pc[n] # "none" /\ n \notin gone
    /\ gone' = gone \cup {n}
    /\ outbox' = [outbox EXCEPT ![n] = <<>>]
    /\ UNCHANGED <<pc, inbox, cursor, worldVars, worldQueue>>

-----------------------------------------------------------------------------
(* listenForConnection: numbers are given in the order of the accepts       *)
Accept(n) ==
    /\ pc[n] = "none" /\ \A m \in Connections : m < n => pc[m] # "none"
    /\ Goto(n, "hello")
    /\ UNCHANGED <<gone, inbox, outbox, cursor, worldVars, worldQueue>>

(* The first message: the code is not looked at.  A client that names its   *)
(* own vehicle gets it queued for the world; any other is cut off.  After a *)
(* disconnect the thread waits for a vehicle that never comes.              *)
Hello(n) ==
    /\ pc[n] = "hello" /\ inbox[n] # <<>> /\ Head(inbox[n]) # Disconnect
    /\ LET message == Head(inbox[n])
       IN  IF message.id = n
             THEN /\ Receive(n)
                  /\ Push(Call("add", n, message.complete))
                  /\ Goto(n, "await")
             ELSE Close(n) /\ UNCHANGED worldQueue
    /\ UNCHANGED <<gone, outbox, cursor, worldVars>>

(* while (section.find(connectionNumber) == section.end());                 *)
AwaitVehicle(n) ==
    /\ pc[n] = "await" /\ n \in DOMAIN section
    /\ Goto(n, "begin")
    /\ UNCHANGED <<gone, inbox, outbox, cursor, worldVars, worldQueue>>

-----------------------------------------------------------------------------
(* for (worldPair : section)                                                *)

FirstOf(S) == IF S = {} THEN AtEnd ELSE CHOOSE k \in S : \A j \in S : k <= j

BeginGroup(n) ==
    /\ pc[n] = "begin"
    /\ cursor' = [cursor EXCEPT ![n] = FirstOf(DOMAIN section)]
    /\ Goto(n, "walk")
    /\ UNCHANGED <<gone, inbox, outbox, worldVars, worldQueue>>

(* Send the vehicle under the iterator, if it is not the client's own.  An  *)
(* incomplete one is announced by an id: that of the thread's own fresh     *)
(* message, which is 0.                                                     *)
SendVehicle(n) ==
    /\ pc[n] = "walk" /\ cursor[n] \in DOMAIN section
    /\ IF cursor[n] = n THEN UNCHANGED outbox
       ELSE Send(n, IF section[cursor[n]] THEN WholeVehicle(cursor[n]) ELSE VehicleId(0))
    /\ Goto(n, "step")
    /\ UNCHANGED <<gone, inbox, cursor, worldVars, worldQueue>>

(* ++it                                                                     *)
StepCursor(n) ==
    /\ pc[n] = "step" /\ cursor[n] \in DOMAIN section
    /\ cursor' = [cursor EXCEPT ![n] = FirstOf({k \in DOMAIN section : cursor[n] < k})]
    /\ Goto(n, "walk")
    /\ UNCHANGED <<gone, inbox, outbox, worldVars, worldQueue>>

(* The main thread erased the node the iterator is at.  The freed memory    *)
(* may still read as it was, and the vehicle is sent once more; may lead to *)
(* the end or to any other node; or be a fault that ends the process.       *)
UseErased(n) ==
    /\ pc[n] \in {"walk", "step"} /\ cursor[n] \notin DOMAIN section \cup {AtEnd}
    /\ \/ /\ pc[n] = "walk"
          /\ \E message \in {WholeVehicle(cursor[n]), VehicleId(0)} : Send(n, message)
          /\ Goto(n, "step")
          /\ UNCHANGED <<cursor, status>>
       \/ /\ cursor' \in {[cursor EXCEPT ![n] = k] : k \in DOMAIN section \cup {AtEnd}}
          /\ Goto(n, "walk")
          /\ UNCHANGED <<outbox, status>>
       \/ /\ status' = "fault"
          /\ UNCHANGED <<pc, outbox, cursor>>
    /\ UNCHANGED <<variant, gone, inbox, section, numVehicles, worldQueue>>

EndGroup(n) ==
    /\ pc[n] = "walk" /\ cursor[n] = AtEnd
    /\ Send(n, EndOfGroup)
    /\ Goto(n, "receive")
    /\ UNCHANGED <<gone, inbox, cursor, worldVars, worldQueue>>

-----------------------------------------------------------------------------
(* An update is passed on if it is about the client's own vehicle.          *)
ReceiveUpdate(n) ==
    /\ pc[n] = "receive"
    /\ Receive(n)
    /\ Head(inbox[n]).code = "vehicle"
    /\ LET message == Head(inbox[n])
       IN  IF message.id = n
             THEN Len(worldQueue) < MaxCalls /\ Push(Call("update", n, message.complete))
             ELSE UNCHANGED worldQueue
    /\ Goto(n, "begin")
    /\ UNCHANGED <<gone, outbox, cursor, worldVars>>

(* Mutant: the socket stays open after a disconnect.                        *)
ReceiveDisconnectStaysOpen(n) ==
    /\ pc[n] = "receive"
    /\ Receive(n)
    /\ Head(inbox[n]).code = "disconnect"
    /\ Push(Call("remove", n, FALSE))
    /\ Goto(n, "begin")
    /\ UNCHANGED <<gone, outbox, cursor, worldVars>>

ReceiveDisconnect(n) ==
    /\ pc[n] = "receive" /\ inbox[n] # <<>>
    /\ Head(inbox[n]).code = "disconnect"
    /\ Push(Call("remove", n, FALSE))
    /\ CloseAndGoto(n, IF variant = "test" THEN "leaving" ELSE "closed")
    /\ UNCHANGED <<gone, outbox, cursor, worldVars>>

(* if (world.numVehicles() == 0) exit(0);                                   *)
ExitIfEmpty == status' = IF variant = "test" /\ numVehicles = 0 THEN "exited" ELSE status

(* The test variant, with no lock: the removal just queued may be executed  *)
(* by now, or not.                                                          *)
CountOnLeaving(n) ==
    /\ pc[n] = "leaving"
    /\ ExitIfEmpty
    /\ Goto(n, "closed")
    /\ UNCHANGED <<variant, gone, inbox, outbox, cursor, section, numVehicles, worldQueue>>

(* Mutant: the handler of the exception only closes the socket.             *)
ConnectionLostOnlyCloses(n) ==
    /\ n \in gone /\ pc[n] \in {"hello", "walk", "receive"}
    /\ Close(n)
    /\ UNCHANGED <<gone, outbox, cursor, worldVars, worldQueue>>

(* catch (std::exception&): a socket call failed, in the handshake or later. *)
(* What the client had sent may still be read before, or be lost.  The test *)
(* variant counts while it holds queueMutex, before the removal is run.     *)
ConnectionLost(n) ==
    /\ n \in gone /\ pc[n] \in {"hello", "walk", "receive"}
    /\ Push(Call("remove", n, FALSE))
    /\ CloseAndGoto(n, IF pc[n] = "hello" THEN "lost" ELSE "closed")
    /\ ExitIfEmpty
    /\ UNCHANGED <<variant, gone, outbox, cursor, section, numVehicles>>

-----------------------------------------------------------------------------
(* The main thread: worldQueue.front()(); worldQueue.pop()                  *)

(* Mutant: addVehicle ignores incomplete messages, as updateVehicle does.   *)
AddCompleteVehicle(id, complete) ==
    /\ numVehicles' = numVehicles + 1
    /\ section' = IF id \in DOMAIN section \/ ~complete THEN section
                  ELSE [k \in DOMAIN section \cup {id} |-> IF k = id THEN complete ELSE section[k]]
    /\ UNCHANGED <<variant, status>>

AddVehicle(id, complete) ==
    /\ numVehicles' = numVehicles + 1
    /\ section' = IF id \in DOMAIN section THEN section
                  ELSE [k \in DOMAIN section \cup {id} |-> IF k = id THEN complete ELSE section[k]]
    /\ UNCHANGED <<variant, status>>

(* an incomplete message is ignored; section[id] is null if id is not there *)
UpdateVehicle(id, complete) ==
    /\ IF ~complete THEN UNCHANGED <<section, status>>
       ELSE IF id \in DOMAIN section
              THEN section' = [section EXCEPT ![id] = TRUE] /\ UNCHANGED status
              ELSE status' = "null" /\ UNCHANGED section
    /\ UNCHANGED <<variant, numVehicles>>

(* Mutant: removeVehicle counts the vehicle out and leaves it in the map.   *)
RemoveVehicleFromCount(id) ==
    /\ numVehicles' = numVehicles - 1
    /\ UNCHANGED <<variant, section, status>>

RemoveVehicle(id) ==
    /\ section' = [k \in DOMAIN section \ {id} |-> section[k]]
    /\ numVehicles' = numVehicles - 1
    /\ UNCHANGED <<variant, status>>

Execute ==
    /\ worldQueue # <<>>
    /\ LET call == Head(worldQueue)
       IN  \/ call.op = "add" /\ AddVehicle(call.id, call.complete)
           \/ call.op = "update" /\ UpdateVehicle(call.id, call.complete)
           \/ call.op = "remove" /\ RemoveVehicle(call.id)
    /\ worldQueue' = Tail(worldQueue)
    /\ UNCHANGED <<pc, gone, inbox, outbox, cursor>>

-----------------------------------------------------------------------------
Client(n) ==
    \/ \E message \in VehicleMessages(n) : ClientSend(n, message)
    \/ ClientSend(n, Disconnect) \/ ClientRead(n) \/ ClientClose(n)

Walk(n) == BeginGroup(n) \/ SendVehicle(n) \/ StepCursor(n) \/ UseErased(n) \/ EndGroup(n)

Thread(n) ==
    \/ Hello(n) \/ AwaitVehicle(n) \/ Walk(n)
    \/ ReceiveUpdate(n) \/ ReceiveDisconnect(n) \/ CountOnLeaving(n) \/ ConnectionLost(n)

Running == status = "running"

Server == Running /\ (Execute \/ \E n \in Connections : Accept(n) \/ Thread(n))

Next == Server \/ (Running /\ \E n \in Connections : Client(n))

(* The main thread and every connection thread are scheduled.               *)
Fairness ==
    /\ WF_vars(Running /\ Execute)
    /\ \A n \in Connections : WF_vars(Running /\ Thread(n))

Spec == Init /\ [][Next]_vars /\ Fairness

-----------------------------------------------------------------------------
TypeOK ==
    /\ variant \in Variants
    /\ pc \in [Connections -> {"none", "hello", "await", "begin", "walk", "step",
                               "receive", "leaving", "closed", "lost"}]
    /\ gone \subseteq Connections
    /\ inbox \in [Connections -> Seq(ClientMessages)]
    /\ outbox \in [Connections -> Seq(ServerMessages)]
    /\ cursor \in [Connections -> Connections \cup {AtEnd}]
    /\ DOMAIN section \subseteq Connections
    /\ \A n \in DOMAIN section : section[n] \in BOOLEAN
    /\ numVehicles \in Int
    /\ worldQueue \in Seq(Calls)
    /\ status \in {"running", "fault", "null", "exited"}

(* The variables keep their types, and updateVehicle never dereferences the *)
(* null pointer that operator[] leaves for a vehicle that is not in the     *)
(* section: the thread that queues updates has seen its vehicle there, and  *)
(* nothing else removes it -- the queue keeps the order.                    *)
UpdatesFindTheirVehicle == TypeOK /\ status # "null"

(* Once a connection is closed and the changes it queued are executed, its  *)
(* vehicle is out of the world, whatever way the connection ended.          *)
ClosedLeavesNothing ==
    \A n \in DOMAIN section :
        pc[n] \in {"leaving", "closed"} => \E i \in DOMAIN worldQueue : worldQueue[i].id = n
                                                          /\ worldQueue[i].op = "remove"

(* Connections that were lost before their vehicle was added; the removal   *)
(* they queue all the same has been run.                                    *)
LostAndCountedOut == {n \in Connections :
    pc[n] = "lost" /\ \A i \in DOMAIN worldQueue : worldQueue[i].id # n}

(* numVehicles_ counts the vehicles in the world, less one for every        *)
(* connection that was lost in its handshake: its vehicle is counted out    *)
(* and was never counted in.  So the test variant, which ends when the      *)
(* count is 0, ends with vehicles left only if as many clients were lost.   *)
CountShortByTheLost ==
    /\ numVehicles = Cardinality(DOMAIN section) - Cardinality(LostAndCountedOut)
    /\ status = "exited" => Cardinality(DOMAIN section) = Cardinality(LostAndCountedOut)

(* Clients that close their socket, however late they do, leave the world.  *)
GoneClientLeaves ==
    gone \cap DOMAIN section # {} ~> (gone \cap DOMAIN section = {} \/ status # "running")
=============================================================================

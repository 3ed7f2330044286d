---------------------------- MODULE ChronoProofs ----------------------------
(***************************************************************************)
(* The theorems about the tcp server, about the programs that are its       *)
(* clients, and about the driver of one of them.                            *)
(*                                                                          *)
(* What the server guarantees for any number of connections, whatever       *)
(* their clients send and whenever they go: the invariants that the run of  *)
(* ChronoServer checks for two.  They all follow from one description of    *)
(* the closures a connection has in the queue, CallsOfConnection, and from  *)
(* the order in which the queue keeps them.                                 *)
(*                                                                          *)
(* What the programs at the tcp server can rely on, for any number of them  *)
(* and of other clients.  The heart of it is that every group the server    *)
(* sends names every vehicle that it has sent before, as long as no vehicle *)
(* leaves: then the listener drops nothing, the main loop destroys nothing, *)
(* and the driver's target stays.                                           *)
(*                                                                          *)
(* What the autonomous program's lidar and driver do, for any rays, ranges, *)
(* steps and outputs of the controller: LidarInv says that the rays show    *)
(* the last scan, and what the last two outputs have left of the pedals.    *)
(***************************************************************************)
EXTENDS ChronoClient, LidarFollower, FiniteSetTheorems, NaturalsInduction, WellFoundedInduction, TLAPS

-----------------------------------------------------------------------------
(* The server: the connections' closures in the queue.                      *)

(* The connections whose vehicle is known to be in the world                *)
InGroups == {"begin", "walk", "step", "receive"}

(* The calls that connection n has in the queue                             *)
NoCall(n) == \A i \in DOMAIN worldQueue : worldQueue[i].id # n

OneCall(n, op) ==
    \E i \in DOMAIN worldQueue :
        /\ worldQueue[i].id = n /\ worldQueue[i].op = op
        /\ \A j \in DOMAIN worldQueue : worldQueue[j].id = n => j = i

OnlyUpdates(n) ==
    \A i \in DOMAIN worldQueue : worldQueue[i].id = n => worldQueue[i].op = "update"

UpdatesThenRemove(n) ==
    \E i \in DOMAIN worldQueue :
        /\ worldQueue[i].id = n /\ worldQueue[i].op = "remove"
        /\ \A j \in DOMAIN worldQueue :
              worldQueue[j].id = n => j = i \/ (j < i /\ worldQueue[j].op = "update")

(* A vehicle is added once, updated while it is in the world, and removed   *)
(* once, after all its updates.  A connection that was lost in its          *)
(* handshake has the removal without the vehicle.                           *)
CallsOfConnection(n) ==
    /\ pc[n] \in {"none", "hello"} => n \notin DOMAIN section /\ NoCall(n)
    /\ pc[n] = "await" => \/ n \notin DOMAIN section /\ OneCall(n, "add")
                          \/ n \in DOMAIN section /\ NoCall(n)
    /\ pc[n] \in InGroups => n \in DOMAIN section /\ OnlyUpdates(n)
    /\ pc[n] \in {"leaving", "closed"} => \/ n \notin DOMAIN section /\ NoCall(n)
                                          \/ n \in DOMAIN section /\ UpdatesThenRemove(n)
    /\ pc[n] = "lost" => n \notin DOMAIN section /\ (NoCall(n) \/ OneCall(n, "remove"))

(* What is counted is finite, however many connections there can be.        *)
Accepted == {n \in Connections : pc[n] # "none"}
FinitelyMany == IsFiniteSet(Accepted) /\ IsFiniteSet(DOMAIN section)

CallsInv == \A n \in Connections : CallsOfConnection(n)

IInv == TypeOK /\ CallsInv /\ FinitelyMany /\ status # "null" /\ CountShortByTheLost

-----------------------------------------------------------------------------
(* FirstOf finds an element of every set of connections.                    *)
LEMMA FirstOfSet ==
  ASSUME NEW S \in SUBSET Connections, S # {}
  PROVE  FirstOf(S) \in S /\ \A k \in S : FirstOf(S) <= k
  <1> DEFINE R == {ss \in Nat \X Nat : ss[1] < ss[2]}
  <1>1. IsWellFoundedOn(R, Nat)
    BY NatLessThanWellFounded, Zenon DEF OpToRel
  <1>2. \A x, y \in Nat : y < x => <<y, x>> \in R
    OBVIOUS
  <1>3. S \subseteq Nat
    BY ConnectionAssumption
  <1> HIDE DEF R
  <1>4. PICK m \in S : \A j \in S : ~ (<<j, m>> \in R)
    BY <1>1, <1>3, WFMin
  <1>5. \A j \in S : ~ (j < m)
    BY <1>2, <1>3, <1>4
  <1>6. \A j \in S : m <= j
    BY <1>3, <1>5
  <1>7. FirstOf(S) = CHOOSE k \in S : \A j \in S : k <= j
    BY DEF FirstOf
  <1>8. QED
    BY <1>6, <1>7

(* What FirstOf returns is a place for an iterator.                         *)
LEMMA FirstOfType ==
  ASSUME NEW S \in SUBSET Connections
  PROVE  FirstOf(S) \in Connections \cup {AtEnd}
  <1>1. CASE S = {}
    BY <1>1 DEF FirstOf
  <1>2. CASE S # {}
    BY <1>2, FirstOfSet
  <1>3. QED
    BY <1>1, <1>2

(* A call that is pushed comes behind all others.                           *)
LEMMA PushFacts ==
  ASSUME TypeOK, NEW c \in Calls, Push(c)
  PROVE  /\ worldQueue' \in Seq(Calls)
         /\ DOMAIN worldQueue = 1 .. Len(worldQueue) /\ Len(worldQueue) \in Nat
         /\ DOMAIN worldQueue' = 1 .. (Len(worldQueue) + 1)
         /\ \A i \in DOMAIN worldQueue : worldQueue'[i] = worldQueue[i]
         /\ worldQueue'[Len(worldQueue) + 1] = c
  BY DEF TypeOK, Push

(* When the first call is run every other one moves up.                     *)
LEMMA PopFacts ==
  ASSUME TypeOK, worldQueue # <<>>, worldQueue' = Tail(worldQueue)
  PROVE  /\ worldQueue' \in Seq(Calls) /\ Head(worldQueue) \in Calls
         /\ Len(worldQueue) \in Nat \ {0} /\ DOMAIN worldQueue = 1 .. Len(worldQueue)
         /\ DOMAIN worldQueue' = 1 .. (Len(worldQueue) - 1)
         /\ Head(worldQueue) = worldQueue[1]
         /\ \A i \in DOMAIN worldQueue' : worldQueue'[i] = worldQueue[i + 1]
  BY DEF TypeOK

-----------------------------------------------------------------------------
(* The variables have their types in the initial states.                    *)
LEMMA InitType == Init => TypeOK
  BY DEF Init, TypeOK, AtEnd, ClientMessages, ServerMessages

(* No step of a client takes a variable out of its type.                    *)
LEMMA ClientType ==
  ASSUME TypeOK, NEW n \in Connections, Client(n)
  PROVE  TypeOK'
  <1> USE DEF TypeOK, worldVars
  <1>1. ASSUME NEW message \in VehicleMessages(n) \cup {Disconnect}, ClientSend(n, message)
        PROVE  TypeOK'
    <2>1. message \in ClientMessages
      BY <1>1 DEF ClientMessages
    <2>2. inbox' \in [Connections -> Seq(ClientMessages)]
      BY <1>1, <2>1 DEF ClientSend
    <2>3. QED
      BY <1>1, <2>2 DEF ClientSend
  <1>2. CASE ClientRead(n)
    <2>1. Tail(outbox[n]) \in Seq(ServerMessages)
      BY <1>2 DEF ClientRead
    <2>2. QED
      BY <1>2, <2>1 DEF ClientRead
  <1>3. CASE ClientClose(n)
    BY <1>3 DEF ClientClose
  <1>4. QED
    BY <1>1, <1>2, <1>3 DEF Client

(* Nor does a step of a connection's thread.                                *)
LEMMA ThreadType ==
  ASSUME TypeOK, NEW n \in Connections, Thread(n)
  PROVE  TypeOK'
  <1> USE DEF TypeOK, worldVars, Goto, CloseAndGoto, Close, Receive
  <1>1. ASSUME inbox[n] # <<>>
        PROVE  Head(inbox[n]) \in ClientMessages /\ Tail(inbox[n]) \in Seq(ClientMessages)
    BY <1>1
  <1>2. ASSUME NEW message \in ServerMessages, Send(n, message)
        PROVE  outbox' \in [Connections -> Seq(ServerMessages)]
    <2>1. Append(outbox[n], message) \in Seq(ServerMessages)
      OBVIOUS
    <2>2. QED
      BY <1>2, <2>1 DEF Send
  <1>3. ASSUME NEW op \in {"add", "update", "remove"}, NEW complete \in BOOLEAN,
               Push(Call(op, n, complete))
        PROVE  worldQueue' \in Seq(Calls)
    BY <1>3 DEF Push, Call, Calls
  <1>4. ASSUME Head(inbox[n]) \in ClientMessages, Head(inbox[n]) # Disconnect
        PROVE  Head(inbox[n]).complete \in BOOLEAN
    BY <1>4, CompletenessAssumption DEF ClientMessages, VehicleMessages
  <1>5. CASE Hello(n)
    <2>1. inbox' \in [Connections -> Seq(ClientMessages)]
      <3>1. \/ inbox' = [inbox EXCEPT ![n] = Tail(@)]
            \/ inbox' = [inbox EXCEPT ![n] = <<>>]
        BY <1>5 DEF Hello
      <3>2. Tail(inbox[n]) \in Seq(ClientMessages) /\ <<>> \in Seq(ClientMessages)
        BY <1>1, <1>5 DEF Hello
      <3>3. QED
        BY <3>1, <3>2
    <2>2. worldQueue' \in Seq(Calls)
      BY <1>1, <1>3, <1>4, <1>5 DEF Hello
    <2>3. pc' \in [Connections -> {"none", "hello", "await", "begin", "walk", "step",
                                   "receive", "leaving", "closed", "lost"}]
      BY <1>5 DEF Hello
    <2>4. QED
      BY <1>5, <2>1, <2>2, <2>3 DEF Hello
  <1>6. CASE AwaitVehicle(n)
    BY <1>6 DEF AwaitVehicle
  <1>7. CASE Walk(n)
    <2>1. CASE BeginGroup(n)
      <3>1. FirstOf(DOMAIN section) \in Connections \cup {AtEnd}
        BY FirstOfType
      <3>2. QED
        BY <2>1, <3>1 DEF BeginGroup
    <2>2. CASE SendVehicle(n)
      <3>1. cursor[n] \in Connections
        BY <2>2 DEF SendVehicle
      <3>2. WholeVehicle(cursor[n]) \in ServerMessages /\ VehicleId(0) \in ServerMessages
        BY <3>1 DEF WholeVehicle, VehicleId, ServerMessages
      <3>3. outbox' \in [Connections -> Seq(ServerMessages)]
        BY <1>2, <2>2, <3>2 DEF SendVehicle
      <3>4. QED
        BY <2>2, <3>3 DEF SendVehicle
    <2>3. CASE StepCursor(n)
      <3>1. FirstOf({k \in DOMAIN section : cursor[n] < k}) \in Connections \cup {AtEnd}
        BY FirstOfType
      <3>2. QED
        BY <2>3, <3>1 DEF StepCursor
    <2>4. CASE UseErased(n)
      <3>1. cursor[n] \in Connections
        BY <2>4 DEF UseErased
      <3>2. WholeVehicle(cursor[n]) \in ServerMessages /\ VehicleId(0) \in ServerMessages
        BY <3>1 DEF WholeVehicle, VehicleId, ServerMessages
      <3>3. outbox' \in [Connections -> Seq(ServerMessages)]
        BY <1>2, <2>4, <3>2 DEF UseErased
      <3>4. cursor' \in [Connections -> Connections \cup {AtEnd}]
        <4>1. \/ UNCHANGED cursor
              \/ \E k \in DOMAIN section \cup {AtEnd} : cursor' = [cursor EXCEPT ![n] = k]
          BY <2>4 DEF UseErased
        <4>2. QED
          BY <4>1
      <3>5. QED
        BY <2>4, <3>3, <3>4 DEF UseErased
    <2>5. CASE EndGroup(n)
      <3>1. outbox' \in [Connections -> Seq(ServerMessages)]
        BY <1>2, <2>5 DEF EndGroup, ServerMessages
      <3>2. QED
        BY <2>5, <3>1 DEF EndGroup
    <2>6. QED
      BY <1>7, <2>1, <2>2, <2>3, <2>4, <2>5 DEF Walk
  <1>8. CASE ReceiveUpdate(n)
    <2>1. Head(inbox[n]) # Disconnect /\ inbox[n] # <<>>
      BY <1>8 DEF ReceiveUpdate, Disconnect
    <2>2. worldQueue' \in Seq(Calls)
      BY <1>1, <1>3, <1>4, <1>8, <2>1 DEF ReceiveUpdate
    <2>3. QED
      BY <1>1, <1>8, <2>1, <2>2 DEF ReceiveUpdate
  <1>9. CASE ReceiveDisconnect(n)
    <2>1. worldQueue' \in Seq(Calls)
      BY <1>3, <1>9 DEF ReceiveDisconnect
    <2>2. pc' \in [Connections -> {"none", "hello", "await", "begin", "walk", "step",
                                   "receive", "leaving", "closed", "lost"}]
      BY <1>9 DEF ReceiveDisconnect
    <2>3. QED
      BY <1>9, <2>1, <2>2 DEF ReceiveDisconnect
  <1>10. CASE CountOnLeaving(n)
    BY <1>10 DEF CountOnLeaving, ExitIfEmpty
  <1>11. CASE ConnectionLost(n)
    <2>1. worldQueue' \in Seq(Calls)
      BY <1>3, <1>11 DEF ConnectionLost
    <2>2. pc' \in [Connections -> {"none", "hello", "await", "begin", "walk", "step",
                                   "receive", "leaving", "closed", "lost"}]
      BY <1>11 DEF ConnectionLost
    <2>3. QED
      BY <1>11, <2>1, <2>2 DEF ConnectionLost, ExitIfEmpty
  <1>12. QED
    BY <1>5, <1>6, <1>7, <1>8, <1>9, <1>10, <1>11 DEF Thread

(* Nor does a step of the main thread.                                      *)
LEMMA ExecuteType ==
  ASSUME TypeOK, Execute
  PROVE  TypeOK'
  <1> DEFINE call == Head(worldQueue)
  <1>1. call \in Calls /\ worldQueue' \in Seq(Calls)
    BY PopFacts DEF Execute
  <1>2. call.id \in Connections /\ call.complete \in BOOLEAN
    BY <1>1 DEF Calls
  <1> HIDE DEF call
  <1>3. CASE AddVehicle(call.id, call.complete)
    BY <1>1, <1>2, <1>3 DEF AddVehicle, TypeOK, Execute
  <1>4. CASE UpdateVehicle(call.id, call.complete)
    BY <1>1, <1>2, <1>4 DEF UpdateVehicle, TypeOK, Execute
  <1>5. CASE RemoveVehicle(call.id)
    BY <1>1, <1>2, <1>5 DEF RemoveVehicle, TypeOK, Execute
  <1>6. QED
    BY <1>3, <1>4, <1>5 DEF Execute, call

(* The variables keep their types.                                          *)
LEMMA TypeStep == TypeOK /\ [Next]_vars => TypeOK'
  <1> SUFFICES ASSUME TypeOK, [Next]_vars PROVE TypeOK'
    OBVIOUS
  <1>1. ASSUME NEW n \in Connections, Accept(n) PROVE TypeOK'
    BY <1>1 DEF Accept, TypeOK, Goto, worldVars
  <1>2. CASE UNCHANGED vars
    BY <1>2 DEF TypeOK, vars
  <1>3. QED
    BY <1>1, <1>2, ClientType, ThreadType, ExecuteType DEF Next, Server

-----------------------------------------------------------------------------
(* The calls of a connection stay what they are when another one's call is  *)
(* queued.                                                                  *)
LEMMA PushOfAnother ==
  ASSUME TypeOK, NEW c \in Calls, Push(c), NEW n \in Connections, c.id # n
  PROVE  /\ NoCall(n) => NoCall(n)'
         /\ \A op : OneCall(n, op) => OneCall(n, op)'
         /\ OnlyUpdates(n) => OnlyUpdates(n)'
         /\ UpdatesThenRemove(n) => UpdatesThenRemove(n)'
  <1>1. /\ DOMAIN worldQueue \subseteq DOMAIN worldQueue' /\ DOMAIN worldQueue' \subseteq Nat
        /\ \A i \in DOMAIN worldQueue : worldQueue'[i] = worldQueue[i]
        /\ \A i \in DOMAIN worldQueue' : worldQueue'[i].id = n => i \in DOMAIN worldQueue
    BY PushFacts
  <1>2. NoCall(n) => NoCall(n)'
    BY <1>1 DEF NoCall
  <1>3. ASSUME NEW op, OneCall(n, op) PROVE OneCall(n, op)'
    BY <1>1, <1>3 DEF OneCall
  <1>4. OnlyUpdates(n) => OnlyUpdates(n)'
    BY <1>1 DEF OnlyUpdates
  <1>5. UpdatesThenRemove(n) => UpdatesThenRemove(n)'
    BY <1>1 DEF UpdatesThenRemove
  <1>6. QED
    BY <1>2, <1>3, <1>4, <1>5

(* They do as well when another one's call is run.                          *)
LEMMA PopOfAnother ==
  ASSUME TypeOK, worldQueue # <<>>, worldQueue' = Tail(worldQueue),
         NEW n \in Connections, Head(worldQueue).id # n
  PROVE  /\ NoCall(n) => NoCall(n)'
         /\ \A op : OneCall(n, op) => OneCall(n, op)'
         /\ OnlyUpdates(n) => OnlyUpdates(n)'
         /\ UpdatesThenRemove(n) => UpdatesThenRemove(n)'
  <1>1. /\ \A i \in DOMAIN worldQueue' : i \in Nat /\ i + 1 \in DOMAIN worldQueue
        /\ \A i \in DOMAIN worldQueue' : worldQueue'[i] = worldQueue[i + 1]
    BY PopFacts
  <1>2. \A i \in DOMAIN worldQueue :
           worldQueue[i].id = n => i \in Int /\ i - 1 \in DOMAIN worldQueue' /\ i = (i - 1) + 1
    BY PopFacts
  <1>3. NoCall(n) => NoCall(n)'
    BY <1>1 DEF NoCall
  <1>4. ASSUME NEW op, OneCall(n, op) PROVE OneCall(n, op)'
    <2>1. PICK i \in DOMAIN worldQueue :
             /\ worldQueue[i].id = n /\ worldQueue[i].op = op
             /\ \A j \in DOMAIN worldQueue : worldQueue[j].id = n => j = i
      BY <1>4 DEF OneCall
    <2>2. i - 1 \in DOMAIN worldQueue' /\ worldQueue'[i - 1] = worldQueue[i] /\ i \in Int
      BY <1>1, <1>2, <2>1
    <2>3. \A j \in DOMAIN worldQueue' : worldQueue'[j].id = n => j = i - 1
      BY <1>1, <2>1, <2>2
    <2>4. QED
      BY <2>1, <2>2, <2>3 DEF OneCall
  <1>5. OnlyUpdates(n) => OnlyUpdates(n)'
    BY <1>1 DEF OnlyUpdates
  <1>6. ASSUME UpdatesThenRemove(n) PROVE UpdatesThenRemove(n)'
    <2>1. PICK i \in DOMAIN worldQueue :
             /\ worldQueue[i].id = n /\ worldQueue[i].op = "remove"
             /\ \A j \in DOMAIN worldQueue :
                   worldQueue[j].id = n => j = i \/ (j < i /\ worldQueue[j].op = "update")
      BY <1>6 DEF UpdatesThenRemove
    <2>2. i - 1 \in DOMAIN worldQueue' /\ worldQueue'[i - 1] = worldQueue[i] /\ i \in Int
      BY <1>1, <1>2, <2>1
    <2>3. \A j \in DOMAIN worldQueue' : worldQueue'[j].id = n =>
             j = i - 1 \/ (j < i - 1 /\ worldQueue'[j].op = "update")
      BY <1>1, <2>1, <2>2
    <2>4. QED
      BY <2>1, <2>2, <2>3 DEF UpdatesThenRemove
  <1>7. QED
    BY <1>3, <1>4, <1>5, <1>6

(* What a connection's own call adds to the calls it has queued.            *)
LEMMA PushOfItsOwn ==
  ASSUME TypeOK, NEW c \in Calls, Push(c), NEW n \in Connections, c.id = n
  PROVE  /\ NoCall(n) => OneCall(n, c.op)'
         /\ OnlyUpdates(n) /\ c.op = "update" => OnlyUpdates(n)'
         /\ OnlyUpdates(n) /\ c.op = "remove" => UpdatesThenRemove(n)'
  <1> DEFINE last == Len(worldQueue) + 1
  <1>1. /\ last \in DOMAIN worldQueue' /\ worldQueue'[last] = c
        /\ \A i \in DOMAIN worldQueue : worldQueue'[i] = worldQueue[i]
        /\ \A i \in DOMAIN worldQueue' : i = last \/ (i < last /\ i \in DOMAIN worldQueue)
    BY PushFacts
  <1> HIDE DEF last
  <1>2. NoCall(n) => OneCall(n, c.op)'
    BY <1>1 DEF NoCall, OneCall
  <1>3. OnlyUpdates(n) /\ c.op = "update" => OnlyUpdates(n)'
    BY <1>1 DEF OnlyUpdates
  <1>4. OnlyUpdates(n) /\ c.op = "remove" => UpdatesThenRemove(n)'
    BY <1>1 DEF OnlyUpdates, UpdatesThenRemove
  <1>5. QED
    BY <1>2, <1>3, <1>4

(* What is left of a connection's calls when one of them is run.            *)
LEMMA PopOfItsOwn ==
  ASSUME TypeOK, worldQueue # <<>>, worldQueue' = Tail(worldQueue),
         NEW n \in Connections, Head(worldQueue).id = n
  PROVE  /\ ~ NoCall(n)
         /\ \A op : OneCall(n, op) => Head(worldQueue).op = op /\ NoCall(n)'
         /\ OnlyUpdates(n) => Head(worldQueue).op = "update" /\ OnlyUpdates(n)'
         /\ UpdatesThenRemove(n) => \/ Head(worldQueue).op = "update" /\ UpdatesThenRemove(n)'
                                    \/ Head(worldQueue).op = "remove" /\ NoCall(n)'
  <1>1. /\ \A i \in DOMAIN worldQueue' : i \in Nat \ {0} /\ i + 1 \in DOMAIN worldQueue
        /\ \A i \in DOMAIN worldQueue' : worldQueue'[i] = worldQueue[i + 1]
        /\ 1 \in DOMAIN worldQueue /\ worldQueue[1] = Head(worldQueue)
        /\ \A i \in DOMAIN worldQueue : i \in Nat \ {0} /\ (i = 1 \/ i - 1 \in DOMAIN worldQueue')
    BY PopFacts
  <1>2. ~ NoCall(n)
    BY <1>1 DEF NoCall
  <1>3. ASSUME NEW op, OneCall(n, op) PROVE Head(worldQueue).op = op /\ NoCall(n)'
    <2>1. worldQueue[1].op = op /\ \A j \in DOMAIN worldQueue : worldQueue[j].id = n => j = 1
      BY <1>1, <1>3 DEF OneCall
    <2>2. \A j \in DOMAIN worldQueue' : worldQueue'[j].id # n
      BY <1>1, <2>1
    <2>3. QED
      BY <1>1, <2>1, <2>2 DEF NoCall
  <1>4. OnlyUpdates(n) => Head(worldQueue).op = "update" /\ OnlyUpdates(n)'
    BY <1>1 DEF OnlyUpdates
  <1>5. ASSUME UpdatesThenRemove(n)
        PROVE  \/ Head(worldQueue).op = "update" /\ UpdatesThenRemove(n)'
               \/ Head(worldQueue).op = "remove" /\ NoCall(n)'
    <2>1. PICK i \in DOMAIN worldQueue :
             /\ worldQueue[i].id = n /\ worldQueue[i].op = "remove"
             /\ \A j \in DOMAIN worldQueue :
                   worldQueue[j].id = n => j = i \/ (j < i /\ worldQueue[j].op = "update")
      BY <1>5 DEF UpdatesThenRemove
    <2>2. CASE i = 1
      <3>1. \A j \in DOMAIN worldQueue' : worldQueue'[j].id # n
        BY <1>1, <2>1, <2>2
      <3>2. QED
        BY <1>1, <2>1, <2>2, <3>1 DEF NoCall
    <2>3. CASE i # 1
      <3>1. i - 1 \in DOMAIN worldQueue' /\ worldQueue'[i - 1] = worldQueue[i] /\ i \in Nat
        <4>1. i - 1 \in DOMAIN worldQueue' /\ i \in Nat /\ (i - 1) + 1 = i
          BY <1>1, <2>3
        <4>2. QED
          BY <1>1, <4>1
      <3>2. \A j \in DOMAIN worldQueue' : worldQueue'[j].id = n =>
               j = i - 1 \/ (j < i - 1 /\ worldQueue'[j].op = "update")
        BY <1>1, <2>1, <3>1
      <3>3. Head(worldQueue).op = "update"
        BY <1>1, <2>1, <2>3
      <3>4. QED
        BY <2>1, <3>1, <3>2, <3>3 DEF UpdatesThenRemove
    <2>4. QED
      BY <2>2, <2>3
  <1>6. QED
    BY <1>2, <1>3, <1>4, <1>5

-----------------------------------------------------------------------------
(* A connection's calls go on fitting its thread when neither changes.      *)
LEMMA CallsUnchanged ==
  ASSUME NEW n \in Connections, CallsOfConnection(n),
         pc'[n] = pc[n], n \in DOMAIN section' <=> n \in DOMAIN section,
         NoCall(n) => NoCall(n)', \A op : OneCall(n, op) => OneCall(n, op)',
         OnlyUpdates(n) => OnlyUpdates(n)', UpdatesThenRemove(n) => UpdatesThenRemove(n)'
  PROVE  CallsOfConnection(n)'
  BY DEF CallsOfConnection

(* The queue is left as it is.                                              *)
LEMMA QueueUnchanged ==
  ASSUME UNCHANGED worldQueue, NEW n
  PROVE  /\ NoCall(n) => NoCall(n)'
         /\ \A op : OneCall(n, op) => OneCall(n, op)'
         /\ OnlyUpdates(n) => OnlyUpdates(n)'
         /\ UpdatesThenRemove(n) => UpdatesThenRemove(n)'
  BY DEF NoCall, OneCall, OnlyUpdates, UpdatesThenRemove

(* What a thread does changes nothing for the other connections.            *)
LEMMA CallsOfTheOthers ==
  ASSUME TypeOK, NEW n \in Connections, UNCHANGED section,
         \A m \in Connections : m # n => pc'[m] = pc[m],
         UNCHANGED worldQueue \/ \E c \in Calls : c.id = n /\ Push(c),
         NEW m \in Connections, m # n, CallsOfConnection(m)
  PROVE  CallsOfConnection(m)'
  <1>1. CASE UNCHANGED worldQueue
    BY <1>1, QueueUnchanged, CallsUnchanged
  <1>2. ASSUME NEW c \in Calls, c.id = n, Push(c) PROVE CallsOfConnection(m)'
    BY <1>2, PushOfAnother, CallsUnchanged
  <1>3. QED
    BY <1>1, <1>2

(* What the protobuf flag of a vehicle message says is a Boolean.           *)
LEMMA CompleteIsBoolean ==
  ASSUME TypeOK, NEW n \in Connections, inbox[n] # <<>>, Head(inbox[n]) # Disconnect
  PROVE  Head(inbox[n]).complete \in BOOLEAN
  <1>1. Head(inbox[n]) \in ClientMessages
    BY DEF TypeOK
  <1>2. QED
    BY <1>1, CompletenessAssumption DEF ClientMessages, VehicleMessages

(* The calls of every connection fit its thread after a thread's step.      *)
LEMMA ThreadCalls ==
  ASSUME TypeOK, CallsInv, NEW n \in Connections, Accept(n) \/ Thread(n)
  PROVE  CallsInv'
  <1> USE DEF Goto, CloseAndGoto, Close, worldVars, InGroups
  <1>1. CallsOfConnection(n)
    BY DEF CallsInv
  <1>2. ASSUME NEW op \in {"add", "update", "remove"}, NEW complete \in BOOLEAN
        PROVE  Call(op, n, complete) \in Calls /\ Call(op, n, complete).id = n
               /\ Call(op, n, complete).op = op
    BY DEF Call, Calls
  <1>3. SUFFICES CallsOfConnection(n)' /\ UNCHANGED section
                 /\ (\A m \in Connections : m # n => pc'[m] = pc[m])
                 /\ (UNCHANGED worldQueue \/ \E c \in Calls : c.id = n /\ Push(c))
    <2> SUFFICES ASSUME NEW m \in Connections PROVE CallsOfConnection(m)'
      BY DEF CallsInv
    <2>1. CASE m = n
      BY <1>3, <2>1
    <2>2. CASE m # n
      BY <1>3, <2>2, CallsOfTheOthers DEF CallsInv
    <2>3. QED
      BY <2>1, <2>2
  <1>4. ASSUME UNCHANGED worldQueue PROVE NoCall(n) => NoCall(n)'
    BY <1>4, QueueUnchanged
  <1>5. ASSUME UNCHANGED worldQueue PROVE OnlyUpdates(n) => OnlyUpdates(n)'
    BY <1>5, QueueUnchanged
  <1>6. ASSUME UNCHANGED worldQueue PROVE UpdatesThenRemove(n) => UpdatesThenRemove(n)'
    BY <1>6, QueueUnchanged
  <1>7. NoCall(n) => OnlyUpdates(n)
    BY DEF NoCall, OnlyUpdates
  <1>8. CASE Accept(n)
    BY <1>1, <1>4, <1>8 DEF Accept, TypeOK, CallsOfConnection
  <1>9. CASE Hello(n)
    <2>1. pc[n] = "hello" /\ n \notin DOMAIN section /\ NoCall(n)
      BY <1>1, <1>9 DEF Hello, CallsOfConnection
    <2>2. CASE Head(inbox[n]).id = n
      <3>1. Head(inbox[n]).complete \in BOOLEAN
        BY <1>9, CompleteIsBoolean DEF Hello
      <3>2. PICK c \in Calls : c.id = n /\ c.op = "add" /\ Push(c)
        BY <1>2, <1>9, <2>2, <3>1 DEF Hello
      <3>3. OneCall(n, "add")'
        BY <2>1, <3>2, PushOfItsOwn
      <3>4. pc' = [pc EXCEPT ![n] = "await"] /\ UNCHANGED section
        BY <1>9, <2>2 DEF Hello
      <3>5. QED
        BY <2>1, <3>2, <3>3, <3>4 DEF TypeOK, CallsOfConnection
    <2>3. CASE Head(inbox[n]).id # n
      BY <1>4, <1>9, <2>1, <2>3 DEF Hello, TypeOK, CallsOfConnection
    <2>4. QED
      BY <2>2, <2>3
  <1>10. CASE AwaitVehicle(n)
    BY <1>1, <1>5, <1>7, <1>10 DEF AwaitVehicle, TypeOK, CallsOfConnection
  <1>11. CASE Walk(n)
    <2>1. /\ pc[n] \in InGroups /\ pc' \in {pc, [pc EXCEPT ![n] = pc'[n]]} /\ pc'[n] \in InGroups
          /\ UNCHANGED <<section, worldQueue>>
      BY <1>11 DEF Walk, BeginGroup, SendVehicle, StepCursor, UseErased, EndGroup, TypeOK
    <2>2. QED
      BY <1>1, <1>5, <2>1 DEF TypeOK, CallsOfConnection
  <1>12. CASE ReceiveUpdate(n)
    <2>1. pc[n] = "receive" /\ n \in DOMAIN section /\ OnlyUpdates(n)
      BY <1>1, <1>12 DEF ReceiveUpdate, CallsOfConnection
    <2>2. CASE Head(inbox[n]).id = n
      <3>1. Head(inbox[n]).complete \in BOOLEAN
        BY <1>12, CompleteIsBoolean DEF ReceiveUpdate, Receive, Disconnect
      <3>2. PICK c \in Calls : c.id = n /\ c.op = "update" /\ Push(c)
        BY <1>2, <1>12, <2>2, <3>1 DEF ReceiveUpdate
      <3>3. OnlyUpdates(n)'
        BY <2>1, <3>2, PushOfItsOwn
      <3>4. QED
        BY <1>12, <2>1, <3>2, <3>3 DEF ReceiveUpdate, TypeOK, CallsOfConnection
    <2>3. CASE Head(inbox[n]).id # n
      BY <1>5, <1>12, <2>1, <2>3 DEF ReceiveUpdate, TypeOK, CallsOfConnection
    <2>4. QED
      BY <2>2, <2>3
  <1>13. CASE ReceiveDisconnect(n)
    <2>1. pc[n] = "receive" /\ n \in DOMAIN section /\ OnlyUpdates(n)
      BY <1>1, <1>13 DEF ReceiveDisconnect, CallsOfConnection
    <2>2. PICK c \in Calls : c.id = n /\ c.op = "remove" /\ Push(c)
      BY <1>2, <1>13 DEF ReceiveDisconnect
    <2>3. UpdatesThenRemove(n)'
      BY <2>1, <2>2, PushOfItsOwn
    <2>4. UNCHANGED section /\ pc' = [pc EXCEPT ![n] = pc'[n]] /\ pc'[n] \in {"leaving", "closed"}
      BY <1>13 DEF ReceiveDisconnect, TypeOK
    <2>5. QED
      BY <2>1, <2>2, <2>3, <2>4 DEF TypeOK, CallsOfConnection
  <1>14. CASE CountOnLeaving(n)
    BY <1>1, <1>4, <1>6, <1>14 DEF CountOnLeaving, TypeOK, CallsOfConnection
  <1>15. CASE ConnectionLost(n)
    <2>1. PICK c \in Calls : c.id = n /\ c.op = "remove" /\ Push(c)
      BY <1>2, <1>15 DEF ConnectionLost
    <2>2. CASE pc[n] = "hello"
      <3>1. n \notin DOMAIN section /\ NoCall(n)
        BY <1>1, <2>2 DEF CallsOfConnection
      <3>2. OneCall(n, "remove")'
        BY <2>1, <3>1, PushOfItsOwn
      <3>3. QED
        BY <1>15, <2>1, <2>2, <3>1, <3>2 DEF ConnectionLost, TypeOK, CallsOfConnection
    <2>3. CASE pc[n] # "hello"
      <3>1. n \in DOMAIN section /\ OnlyUpdates(n)
        BY <1>1, <1>15, <2>3 DEF ConnectionLost, CallsOfConnection
      <3>2. UpdatesThenRemove(n)'
        BY <2>1, <3>1, PushOfItsOwn
      <3>3. QED
        BY <1>15, <2>1, <2>3, <3>1, <3>2 DEF ConnectionLost, TypeOK, CallsOfConnection
    <2>4. QED
      BY <2>2, <2>3
  <1>16. QED
    BY <1>8, <1>9, <1>10, <1>11, <1>12, <1>13, <1>14, <1>15 DEF Thread

(* What the main thread finds at the head of the queue, by the thread of    *)
(* the connection it is about.                                              *)
LEMMA HeadOfTheQueue ==
  ASSUME TypeOK, CallsInv, Execute, NEW n \in Connections, Head(worldQueue).id = n
  PROVE  \/ /\ pc[n] = "await" /\ Head(worldQueue).op = "add"
            /\ n \notin DOMAIN section /\ NoCall(n)'
         \/ /\ pc[n] \in InGroups /\ Head(worldQueue).op = "update"
            /\ n \in DOMAIN section /\ OnlyUpdates(n)'
         \/ /\ pc[n] \in {"leaving", "closed"} /\ Head(worldQueue).op = "update"
            /\ n \in DOMAIN section /\ UpdatesThenRemove(n)'
         \/ /\ pc[n] \in {"leaving", "closed"} /\ Head(worldQueue).op = "remove"
            /\ n \in DOMAIN section /\ NoCall(n)'
         \/ /\ pc[n] = "lost" /\ Head(worldQueue).op = "remove"
            /\ n \notin DOMAIN section /\ NoCall(n)'
  <1>1. CallsOfConnection(n)
    BY DEF CallsInv
  <1>2. worldQueue # <<>> /\ worldQueue' = Tail(worldQueue)
    BY DEF Execute
  <1>3. pc[n] \in {"none", "hello", "await", "begin", "walk", "step",
                   "receive", "leaving", "closed", "lost"}
    BY DEF TypeOK
  <1>4. QED
    BY <1>1, <1>2, <1>3, PopOfItsOwn DEF CallsOfConnection, InGroups

(* The calls of every connection fit its thread after one is executed.      *)
LEMMA ExecuteCalls ==
  ASSUME TypeOK, CallsInv, Execute
  PROVE  CallsInv'
  <1>0. PICK call \in Calls, n \in Connections : call = Head(worldQueue) /\ n = call.id
    BY PopFacts DEF Execute, Calls
  <1>1. /\ worldQueue # <<>> /\ worldQueue' = Tail(worldQueue) /\ Head(worldQueue).id = n
        /\ call.op \in {"add", "update", "remove"}
    BY <1>0 DEF Execute, Calls
  <1>2. /\ call.op = "add" => DOMAIN section' = DOMAIN section \cup {n}
        /\ call.op = "update" => DOMAIN section' = DOMAIN section
        /\ call.op = "remove" => DOMAIN section' = DOMAIN section \ {n}
        /\ UNCHANGED pc
    BY <1>0 DEF Execute, AddVehicle, UpdateVehicle, RemoveVehicle
  <1>3. ASSUME NEW m \in Connections, m # n PROVE CallsOfConnection(m)'
    <2>1. CallsOfConnection(m)
      BY DEF CallsInv
    <2>2. m \in DOMAIN section' <=> m \in DOMAIN section
      BY <1>1, <1>2, <1>3
    <2>3. QED
      BY <1>1, <1>2, <1>3, <2>1, <2>2, PopOfAnother, CallsUnchanged
  <1>4. CallsOfConnection(n)'
    BY <1>0, <1>1, <1>2, HeadOfTheQueue DEF CallsOfConnection, InGroups
  <1>5. QED
    BY <1>3, <1>4 DEF CallsInv

(* The calls of every connection fit its thread, after every step.          *)
LEMMA CallsStep == TypeOK /\ CallsInv /\ [Next]_vars => CallsInv'
  <1> SUFFICES ASSUME TypeOK, CallsInv, [Next]_vars PROVE CallsInv'
    OBVIOUS
  <1>1. ASSUME UNCHANGED <<pc, section, worldQueue>> PROVE CallsInv'
    BY <1>1, QueueUnchanged, CallsUnchanged DEF CallsInv
  <1>2. ASSUME NEW n \in Connections, Client(n) PROVE CallsInv'
    BY <1>1, <1>2 DEF Client, ClientSend, ClientRead, ClientClose, worldVars
  <1>3. CASE UNCHANGED vars
    BY <1>1, <1>3 DEF vars
  <1>4. QED
    BY <1>2, <1>3, ThreadCalls, ExecuteCalls DEF Next, Server

-----------------------------------------------------------------------------
(* There are finitely many connections and vehicles after every step.       *)
LEMMA FiniteStep == TypeOK /\ FinitelyMany /\ [Next]_vars => FinitelyMany'
  <1> SUFFICES ASSUME TypeOK, FinitelyMany, [Next]_vars PROVE FinitelyMany'
    OBVIOUS
  <1>1. IsFiniteSet(DOMAIN section')
    <2>1. ASSUME NEW call \in Calls,
                 \/ AddVehicle(call.id, call.complete)
                 \/ UpdateVehicle(call.id, call.complete)
                 \/ RemoveVehicle(call.id)
          PROVE  IsFiniteSet(DOMAIN section')
      <3>1. \/ DOMAIN section' \subseteq DOMAIN section
            \/ DOMAIN section' = DOMAIN section \cup {call.id}
        BY <2>1 DEF AddVehicle, UpdateVehicle, RemoveVehicle
      <3>2. QED
        BY <3>1, FS_Subset, FS_AddElement DEF FinitelyMany
    <2>2. ASSUME Execute PROVE IsFiniteSet(DOMAIN section')
      BY <2>1, <2>2, PopFacts DEF Execute
    <2>3. ASSUME NEW n \in Connections, Accept(n) \/ Thread(n) \/ Client(n)
          PROVE  UNCHANGED section
      BY <2>3 DEF Accept, Thread, Client, worldVars, ClientSend, ClientRead, ClientClose,
                  Hello, AwaitVehicle, Walk, BeginGroup, SendVehicle, StepCursor, UseErased,
                  EndGroup, ReceiveUpdate, ReceiveDisconnect, CountOnLeaving, ConnectionLost
    <2>4. CASE UNCHANGED vars
      BY <2>4 DEF FinitelyMany, vars
    <2>5. QED
      BY <2>2, <2>3, <2>4 DEF Next, Server, FinitelyMany
  <1>2. IsFiniteSet(Accepted')
    <2>1. ASSUME NEW n \in Connections, Accept(n) \/ Thread(n) \/ Client(n)
          PROVE  \A m \in Connections : m # n => pc'[m] = pc[m]
      BY <2>1 DEF Accept, Thread, Client, worldVars, ClientSend, ClientRead, ClientClose,
                  Hello, AwaitVehicle, Walk, BeginGroup, SendVehicle, StepCursor, UseErased,
                  EndGroup, ReceiveUpdate, ReceiveDisconnect, CountOnLeaving, ConnectionLost,
                  Goto, CloseAndGoto, Close, TypeOK
    <2>2. ASSUME NEW n \in Connections, Accept(n) \/ Thread(n) \/ Client(n)
          PROVE  Accepted' \subseteq Accepted \cup {n}
      BY <2>1, <2>2 DEF Accepted
    <2>3. ASSUME Execute \/ UNCHANGED vars PROVE Accepted' = Accepted
      BY <2>3 DEF Accepted, Execute, vars
    <2>4. ASSUME NEW n PROVE IsFiniteSet(Accepted \cup {n})
      BY FS_AddElement DEF FinitelyMany
    <2>5. QED
      BY <2>2, <2>3, <2>4, FS_Subset DEF Next, Server, FinitelyMany
  <1>3. QED
    BY <1>1, <1>2 DEF FinitelyMany

(* The sets that are counted are finite.                                    *)
LEMMA CountedAreFinite ==
  ASSUME FinitelyMany
  PROVE  /\ IsFiniteSet(DOMAIN section) /\ IsFiniteSet(LostAndCountedOut)
         /\ Cardinality(DOMAIN section) \in Nat /\ Cardinality(LostAndCountedOut) \in Nat
  <1>1. LostAndCountedOut \subseteq Accepted
    BY DEF LostAndCountedOut, Accepted
  <1>2. QED
    BY <1>1, FS_Subset, FS_CardinalityType DEF FinitelyMany

(* A thread's step counts nobody out: a connection that is lost has its     *)
(* removal queued first.                                                    *)
LEMMA ThreadLost ==
  ASSUME TypeOK, CallsInv, NEW n \in Connections, Accept(n) \/ Thread(n)
  PROVE  LostAndCountedOut' = LostAndCountedOut
  <1> USE DEF Goto, CloseAndGoto, Close, worldVars
  <1>1. CallsInv' /\ TypeOK'
    BY ThreadCalls, ThreadType DEF Accept, TypeOK
  <1>2. \/ /\ \A m \in Connections : pc'[m] = "lost" <=> pc[m] = "lost"
           /\ pc[n] # "lost" /\ pc'[n] # "lost"
        \/ ConnectionLost(n) /\ pc[n] = "hello"
    BY DEF Accept, Thread, Hello, AwaitVehicle, Walk, BeginGroup, SendVehicle, StepCursor,
           UseErased, EndGroup, ReceiveUpdate, ReceiveDisconnect, CountOnLeaving, ConnectionLost,
           TypeOK
  <1>3. UNCHANGED worldQueue \/ \E c \in Calls : c.id = n /\ Push(c)
    <2>1. ASSUME NEW op \in {"add", "update", "remove"}, NEW complete \in BOOLEAN
          PROVE  Call(op, n, complete) \in Calls /\ Call(op, n, complete).id = n
      BY DEF Call, Calls
    <2>3. CASE Hello(n)
      BY <2>1, <2>3, CompleteIsBoolean DEF Hello
    <2>4. CASE ReceiveUpdate(n)
      <3>1. inbox[n] # <<>> /\ Head(inbox[n]) # Disconnect
        BY <2>4 DEF ReceiveUpdate, Receive, Disconnect
      <3>2. QED
        BY <2>1, <2>4, <3>1, CompleteIsBoolean DEF ReceiveUpdate
    <2>5. CASE ReceiveDisconnect(n) \/ ConnectionLost(n)
      BY <2>1, <2>5 DEF ReceiveDisconnect, ConnectionLost
    <2>6. CASE Accept(n) \/ AwaitVehicle(n) \/ Walk(n) \/ CountOnLeaving(n)
      BY <2>6 DEF Accept, AwaitVehicle, Walk, BeginGroup, SendVehicle, StepCursor, UseErased,
                  EndGroup, CountOnLeaving
    <2>7. QED
      BY <2>3, <2>4, <2>5, <2>6 DEF Thread
  <1>4. ASSUME NEW m \in Connections, m # n PROVE NoCall(m)' <=> NoCall(m)
    <2>1. CASE UNCHANGED worldQueue
      BY <2>1 DEF NoCall
    <2>2. ASSUME NEW c \in Calls, c.id = n, Push(c) PROVE NoCall(m)' <=> NoCall(m)
      BY <1>4, <2>2, PushFacts DEF NoCall
    <2>3. QED
      BY <1>3, <2>1, <2>2
  <1>5. LostAndCountedOut = {m \in Connections : pc[m] = "lost" /\ NoCall(m)}
        /\ LostAndCountedOut' = {m \in Connections : pc'[m] = "lost" /\ NoCall(m)'}
    BY DEF LostAndCountedOut, NoCall
  <1>6. CASE ConnectionLost(n) /\ pc[n] = "hello"
    <2>1. PICK c \in Calls : c.id = n /\ Push(c)
      BY <1>6 DEF ConnectionLost, Call, Calls
    <2>2. ~ NoCall(n)'
      BY <2>1, PushFacts DEF NoCall
    <2>3. \A m \in Connections : m # n => pc'[m] = pc[m]
      BY <1>6 DEF ConnectionLost, TypeOK
    <2>4. QED
      BY <1>4, <1>5, <1>6, <2>2, <2>3
  <1>7. QED
    BY <1>2, <1>4, <1>5, <1>6

(* A thread's step keeps the count right, and ends the process only when    *)
(* the count is 0.                                                          *)
LEMMA ThreadCount ==
  ASSUME IInv, Running, NEW n \in Connections, Accept(n) \/ Thread(n)
  PROVE  CountShortByTheLost' /\ status' # "null"
  <1>1. LostAndCountedOut' = LostAndCountedOut
    BY ThreadLost DEF IInv
  <1>2. /\ UNCHANGED <<section, numVehicles>>
        /\ status' \in {"running", "fault"} \/ (status' = "exited" /\ numVehicles = 0)
    BY DEF Accept, Thread, Hello, AwaitVehicle, Walk, BeginGroup, SendVehicle, StepCursor,
           UseErased, EndGroup, ReceiveUpdate, ReceiveDisconnect, CountOnLeaving, ConnectionLost,
           ExitIfEmpty, Running, worldVars
  <1>3. CountShortByTheLost
    BY DEF IInv
  <1>4. QED
    BY <1>1, <1>2, <1>3, CountedAreFinite DEF IInv, CountShortByTheLost

(* Executing a call keeps the count right, and finds every vehicle that is  *)
(* updated.                                                                 *)
LEMMA ExecuteCount ==
  ASSUME IInv, Running, Execute
  PROVE  CountShortByTheLost' /\ status' # "null"
  <1> DEFINE L == LostAndCountedOut
  <1>0. PICK call \in Calls, n \in Connections : call = Head(worldQueue) /\ n = call.id
    BY PopFacts DEF Execute, Calls, IInv
  <1>1. /\ worldQueue # <<>> /\ worldQueue' = Tail(worldQueue) /\ Head(worldQueue).id = n
        /\ Head(worldQueue).op = call.op /\ TypeOK /\ CallsInv /\ UNCHANGED pc
    BY <1>0 DEF Execute, IInv
  <1>2. /\ L = {m \in Connections : pc[m] = "lost" /\ NoCall(m)}
        /\ L' = {m \in Connections : pc[m] = "lost" /\ NoCall(m)'}
    BY <1>1 DEF LostAndCountedOut, NoCall
  <1>3. ~ NoCall(n)
    BY <1>1, PopOfItsOwn
  <1>4. \A m \in Connections : m # n => (NoCall(m)' <=> NoCall(m))
    <2> SUFFICES ASSUME NEW m \in Connections, m # n PROVE NoCall(m)' <=> NoCall(m)
      OBVIOUS
    <2>1. NoCall(m) => NoCall(m)'
      BY <1>1, PopOfAnother
    <2>2. ASSUME NoCall(m)' PROVE NoCall(m)
      <3>1. \A i \in DOMAIN worldQueue : i \in Nat
                 /\ (i = 1 \/ (i - 1 \in DOMAIN worldQueue' /\ worldQueue'[i - 1] = worldQueue[i]))
        BY <1>1, PopFacts
      <3>2. QED
        BY <1>1, <2>2, <3>1, PopFacts DEF NoCall
    <2>3. QED
      BY <2>1, <2>2
  <1>5. /\ numVehicles = Cardinality(DOMAIN section) - Cardinality(L)
        /\ IsFiniteSet(DOMAIN section) /\ IsFiniteSet(L) /\ n \notin L
        /\ Cardinality(DOMAIN section) \in Nat /\ Cardinality(L) \in Nat
    BY <1>2, <1>3, CountedAreFinite DEF IInv, CountShortByTheLost
  <1>6. SUFFICES /\ numVehicles' = Cardinality(DOMAIN section') - Cardinality(L')
                 /\ status' = "running"
    BY DEF CountShortByTheLost
  <1>7. CASE call.op = "add"
    <2>1. n \notin DOMAIN section /\ pc[n] # "lost"
      BY <1>1, <1>7, HeadOfTheQueue
    <2>2. L' = L
      BY <1>2, <1>4, <2>1
    <2>3. DOMAIN section' = DOMAIN section \cup {n} /\ numVehicles' = numVehicles + 1
          /\ UNCHANGED status
      BY <1>0, <1>7, <2>1 DEF Execute, AddVehicle
    <2>4. Cardinality(DOMAIN section') = Cardinality(DOMAIN section) + 1
      BY <1>5, <2>1, <2>3, FS_AddElement
    <2>5. QED
      BY <1>5, <2>2, <2>3, <2>4 DEF Running
  <1>8. CASE call.op = "update"
    <2>1. n \in DOMAIN section /\ pc[n] # "lost"
      BY <1>1, <1>8, HeadOfTheQueue DEF InGroups
    <2>2. L' = L
      BY <1>2, <1>4, <2>1
    <2>3. DOMAIN section' = DOMAIN section /\ UNCHANGED <<numVehicles, status>>
      BY <1>0, <1>8, <2>1 DEF Execute, UpdateVehicle
    <2>4. QED
      BY <1>5, <2>2, <2>3 DEF Running
  <1>9. CASE call.op = "remove"
    <2>1. DOMAIN section' = DOMAIN section \ {n} /\ numVehicles' = numVehicles - 1
          /\ UNCHANGED status
      BY <1>0, <1>9 DEF Execute, RemoveVehicle
    <2>2. CASE pc[n] = "lost"
      <3>1. n \notin DOMAIN section /\ NoCall(n)'
        BY <1>1, <1>9, <2>2, HeadOfTheQueue DEF InGroups
      <3>2. L' = L \cup {n} /\ DOMAIN section' = DOMAIN section
        BY <1>1, <1>2, <1>4, <2>1, <2>2, <3>1
      <3>3. Cardinality(L') = Cardinality(L) + 1
        BY <1>5, <3>2, FS_AddElement
      <3>4. QED
        BY <1>5, <2>1, <3>2, <3>3 DEF Running
    <2>3. CASE pc[n] # "lost"
      <3>1. n \in DOMAIN section
        BY <1>1, <1>9, <2>3, HeadOfTheQueue
      <3>2. L' = L
        BY <1>2, <1>4, <2>3
      <3>3. Cardinality(DOMAIN section') = Cardinality(DOMAIN section) - 1
        BY <1>5, <2>1, <3>1, FS_RemoveElement
      <3>4. QED
        BY <1>5, <2>1, <3>2, <3>3 DEF Running
    <2>4. QED
      BY <2>2, <2>3
  <1>10. QED
    BY <1>0, <1>7, <1>8, <1>9 DEF Execute

-----------------------------------------------------------------------------
(* The invariant is inductive.                                              *)
LEMMA IInvInit == Init => IInv
  <1> SUFFICES ASSUME Init PROVE IInv
    OBVIOUS
  <1>1. CallsInv
    BY DEF Init, CallsInv, CallsOfConnection, NoCall, InGroups
  <1>2. DOMAIN section = {} /\ Accepted = {} /\ LostAndCountedOut = {}
    BY DEF Init, Accepted, LostAndCountedOut
  <1>3. FinitelyMany /\ CountShortByTheLost
    BY <1>2, FS_EmptySet DEF FinitelyMany, CountShortByTheLost, Init
  <1>4. QED
    BY <1>1, <1>3, InitType DEF IInv, Init

(* Every step keeps the invariant.                                         *)
LEMMA IInvStep == IInv /\ [Next]_vars => IInv'
  <1> SUFFICES ASSUME IInv, [Next]_vars PROVE IInv'
    OBVIOUS
  <1>1. TypeOK' /\ CallsInv' /\ FinitelyMany'
    BY TypeStep, CallsStep, FiniteStep DEF IInv
  <1>2. SUFFICES CountShortByTheLost' /\ status' # "null"
    BY <1>1 DEF IInv
  <1>3. ASSUME NEW n \in Connections, Client(n) PROVE CountShortByTheLost' /\ status' # "null"
    BY <1>3 DEF Client, ClientSend, ClientRead, ClientClose, worldVars, IInv,
                CountShortByTheLost, LostAndCountedOut
  <1>4. CASE UNCHANGED vars
    BY <1>4 DEF vars, IInv, CountShortByTheLost, LostAndCountedOut
  <1>5. QED
    BY <1>3, <1>4, ThreadCount, ExecuteCount DEF Next, Server

(* The invariant holds in every reachable state.                            *)
THEOREM Invariance == Spec => []IInv
  BY IInvInit, IInvStep, PTL DEF Spec

(* No update is executed for a vehicle that is not in the section, so that  *)
(* updateVehicle (World.cpp:24) never dereferences a null pointer; and      *)
(* every variable keeps its type.                                           *)
THEOREM UpdatesFind == Spec => []UpdatesFindTheirVehicle
  <1>1. IInv => UpdatesFindTheirVehicle
    BY DEF IInv, UpdatesFindTheirVehicle
  <1>2. QED
    BY <1>1, Invariance, PTL

(* However a connection ends, its vehicle is out of the world when its      *)
(* calls are executed: the removal is queued in processConnection and in    *)
(* its exception handler.                                                   *)
THEOREM ClosedLeaves == Spec => []ClosedLeavesNothing
  <1>1. IInv => ClosedLeavesNothing
    BY DEF IInv, TypeOK, CallsInv, CallsOfConnection, UpdatesThenRemove, ClosedLeavesNothing
  <1>2. QED
    BY <1>1, Invariance, PTL

(* numVehicles_ is short by the connections that were lost in their         *)
(* handshake, and by those alone; and the test variant exits with as many   *)
(* vehicles left as connections were lost so.                               *)
THEOREM CountShort == Spec => []CountShortByTheLost
  <1>1. IInv => CountShortByTheLost
    BY DEF IInv
  <1>2. QED
    BY <1>1, Invariance, PTL

-----------------------------------------------------------------------------
(* The programs: what a client has been told.                              *)

(* Of the messages o that are on their way to a client: message i is the    *)
(* whole vehicle k; vehicle k is known before message i is read, when W are *)
(* known now; and k will be noted in the group that message i ends or is    *)
(* in, when I are noted now.                                                *)
IsVehicle(o, i, k) == o[i].code = "vehicle" /\ o[i].id = k

Known(o, W, k, i) == k \in W \/ \E j \in DOMAIN o : j < i /\ IsVehicle(o, j, k)

NoEnd(o, i, j) == \A l \in DOMAIN o : i <= l /\ l < j => o[l].code # "end"

InGroup(o, I, k, i) ==
    \/ k \in I /\ NoEnd(o, 1, i)
    \/ \E j \in DOMAIN o : j < i /\ IsVehicle(o, j, k) /\ NoEnd(o, j, i)

(* Every group that is ended names all that is known before.                *)
Complete(o, W, I) ==
    \A i \in DOMAIN o : o[i].code = "end" =>
        \A k \in Connections : Known(o, W, k, i) => InGroup(o, I, k, i)

(* What client n knows, or will when it has read everything; and what it    *)
(* will have noted of the group that is not ended.                          *)
KnownTo(n, k) == Known(outbox[n], worldVehicles[n], k, Len(outbox[n]) + 1)
NotedBy(n, k) == InGroup(outbox[n], idnumbers[n], k, Len(outbox[n]) + 1)

(* What holds of the groups until another vehicle leaves.                   *)
GroupsInv(n) ==
    /\ \A k \in Connections : KnownTo(n, k) => k # n /\ k \in DOMAIN section /\ section[k]
    /\ Complete(outbox[n], worldVehicles[n], idnumbers[n])
    /\ pc[n] = "walk" =>
         /\ cursor[n] \in DOMAIN section \cup {AtEnd}
         /\ \A k \in Connections :
              KnownTo(n, k) /\ (k < cursor[n] \/ cursor[n] = AtEnd) => NotedBy(n, k)
    /\ pc[n] = "step" =>
         /\ cursor[n] \in DOMAIN section
         /\ \A k \in Connections : KnownTo(n, k) /\ k <= cursor[n] => NotedBy(n, k)

(* And of the main loop.                                                    *)
MainInv(n) ==
    /\ otherVehicles[n] \subseteq worldVehicles[n]
    /\ main[n] = "copy" => iterator[n] \in worldVehicles[n] \cup {AtEnd}
    /\ main[n] = "step" => iterator[n] \in worldVehicles[n]
    /\ main[n] = "drop" => iterator[n] \in otherVehicles[n] \cup {AtEnd}

TargetInv(n) == target[n] \in otherVehicles[n] \cup {Nobody}

ProgramInv(n) ==
    /\ main[n] \in Ended <=> n \in gone
    /\ ~ SomeoneLeft(n) => TargetInv(n) /\ (n \notin gone => GroupsInv(n) /\ MainInv(n))

ClientIInv == IInv /\ ClientTypeOK /\ \A n \in Programs : ProgramInv(n)

-----------------------------------------------------------------------------
(* A message that is appended changes nothing of what came before, and      *)
(* makes known the vehicle it carries.                                      *)
LEMMA AppendedMessage ==
  ASSUME NEW o \in Seq(ServerMessages), NEW message \in ServerMessages, NEW W, NEW I,
         NEW p, p = Append(o, message), Complete(o, W, I)
  PROVE  /\ Len(o) \in Nat /\ Len(p) = Len(o) + 1
         /\ message.code = "vehicle" =>
               \A k : Known(p, W, k, Len(p) + 1) <=> Known(o, W, k, Len(o) + 1) \/ message.id = k
         /\ message.code # "vehicle" =>
               \A k : Known(p, W, k, Len(p) + 1) <=> Known(o, W, k, Len(o) + 1)
         /\ message.code # "end" =>
               \A k : InGroup(o, I, k, Len(o) + 1) => InGroup(p, I, k, Len(p) + 1)
         /\ message.code # "end" =>
               \A k : IsVehicle(p, Len(p), k) => InGroup(p, I, k, Len(p) + 1)
         /\ IsVehicle(p, Len(p), message.id) <=> message.code = "vehicle"
         /\ message.code # "end" => Complete(p, W, I)
         /\ (\A k \in Connections : Known(o, W, k, Len(o) + 1) => InGroup(o, I, k, Len(o) + 1))
               => Complete(p, W, I)
  <1> DEFINE last == Len(o) + 1
  <1>1. /\ last \in Nat /\ Len(p) = last /\ p[last] = message /\ p \in Seq(ServerMessages)
        /\ DOMAIN o = 1 .. Len(o) /\ DOMAIN p = 1 .. last /\ Len(o) \in Nat
        /\ \A i \in DOMAIN o : p[i] = o[i]
    OBVIOUS
  <1>2. \A i \in DOMAIN p : i \in DOMAIN o \/ i = last
    BY <1>1
  <1>3. \A i \in DOMAIN o : i \in Nat /\ i \in DOMAIN p /\ i < last
    BY <1>1
  <1> HIDE DEF last
  <1>4. ASSUME NEW i \in DOMAIN p, NEW k PROVE Known(p, W, k, i) <=> Known(o, W, k, i)
    BY <1>1, <1>2, <1>3 DEF Known, IsVehicle
  <1>5. ASSUME NEW i \in DOMAIN p, NEW j PROVE NoEnd(p, j, i) <=> NoEnd(o, j, i)
    BY <1>1, <1>2, <1>3 DEF NoEnd
  <1>6. ASSUME NEW i \in DOMAIN p, NEW k PROVE InGroup(p, I, k, i) <=> InGroup(o, I, k, i)
    BY <1>1, <1>2, <1>3, <1>5 DEF InGroup, IsVehicle
  <1>7. ASSUME NEW k
        PROVE  Known(p, W, k, last + 1) <=>
                 Known(o, W, k, last) \/ (message.code = "vehicle" /\ message.id = k)
    BY <1>1, <1>2, <1>3 DEF Known, IsVehicle
  <1>8. ASSUME message.code # "end", NEW j, NoEnd(o, j, last) PROVE NoEnd(p, j, last + 1)
    BY <1>1, <1>2, <1>3, <1>8 DEF NoEnd
  <1>9. ASSUME message.code # "end", NEW k, InGroup(o, I, k, last) PROVE InGroup(p, I, k, last + 1)
    <2>1. CASE k \in I /\ NoEnd(o, 1, last)
      BY <1>8, <1>9, <2>1 DEF InGroup
    <2>2. CASE \E j \in DOMAIN o : j < last /\ IsVehicle(o, j, k) /\ NoEnd(o, j, last)
      <3>1. PICK j \in DOMAIN o : j < last /\ IsVehicle(o, j, k) /\ NoEnd(o, j, last)
        BY <2>2
      <3>2. j \in DOMAIN p /\ j < last + 1 /\ IsVehicle(p, j, k) /\ NoEnd(p, j, last + 1)
        BY <1>1, <1>3, <1>8, <1>9, <3>1 DEF IsVehicle
      <3>3. QED
        BY <3>2 DEF InGroup
    <2>3. QED
      BY <1>9, <2>1, <2>2 DEF InGroup
  <1>10. ASSUME message.code # "end", NEW k, IsVehicle(p, last, k) PROVE InGroup(p, I, k, last + 1)
    <2>1. NoEnd(p, last, last + 1)
      BY <1>1, <1>2, <1>3, <1>10 DEF NoEnd
    <2>2. QED
      BY <1>1, <1>10, <2>1 DEF InGroup
  <1>11. IsVehicle(p, last, message.id) <=> message.code = "vehicle"
    BY <1>1 DEF IsVehicle
  <1>12. ASSUME \/ message.code # "end"
                \/ \A k \in Connections : Known(o, W, k, last) => InGroup(o, I, k, last)
         PROVE  Complete(p, W, I)
    BY <1>1, <1>2, <1>4, <1>6, <1>12 DEF Complete
  <1>13. QED
    BY <1>1, <1>7, <1>9, <1>10, <1>11, <1>12 DEF last

(* What is known and what is noted stay what they are when the first        *)
(* message is read: a vehicle's goes into both sets, the end of a group     *)
(* finds that nothing is missing from it.                                   *)
LEMMA ReadMessage ==
  ASSUME NEW o \in Seq(ServerMessages), o # <<>>, NEW p, p = Tail(o),
         NEW W, NEW I, NEW X, NEW J, Complete(o, W, I), W \subseteq Connections,
         LET m == Head(o)
         IN  \/ m.code = "vehicle" /\ X = W \cup {m.id} /\ J = I \cup {m.id}
             \/ m.code = "id" /\ X = W /\ J = I \cup {m.id}
             \/ m.code = "end" /\ X = W \cap I /\ J = {}
  PROVE  /\ W \subseteq X /\ Complete(p, X, J)
         /\ Len(p) \in Nat /\ Len(o) = Len(p) + 1
         /\ \A k : Known(p, X, k, Len(p) + 1) => Known(o, W, k, Len(o) + 1)
         /\ \A k : Known(o, W, k, Len(o) + 1) => Known(p, X, k, Len(p) + 1)
         /\ \A k : InGroup(o, I, k, Len(o) + 1) => InGroup(p, J, k, Len(p) + 1)
  <1> DEFINE m == Head(o)
  <1>1. /\ Len(o) \in Nat \ {0} /\ Len(p) = Len(o) - 1 /\ p \in Seq(ServerMessages)
        /\ DOMAIN o = 1 .. Len(o) /\ DOMAIN p = 1 .. Len(p) /\ m = o[1] /\ 1 \in DOMAIN o
        /\ m \in ServerMessages /\ \A i \in DOMAIN p : p[i] = o[i + 1]
    OBVIOUS
  <1>2. /\ \A i \in DOMAIN p : i \in Nat /\ i + 1 \in DOMAIN o /\ i # 0
        /\ \A i \in DOMAIN o : i \in Nat /\ (i = 1 \/ (i - 1 \in DOMAIN p /\ o[i] = p[i - 1] /\ 1 < i))
    BY <1>1
  <1> HIDE DEF m
  <1>3. W \subseteq X
    <2>1. CASE m.code = "end"
      <3>1. \A k \in W : InGroup(o, I, k, 1)
        BY <1>1, <2>1 DEF Complete, Known
      <3>2. \A k \in W : k \in I
        BY <1>2, <3>1 DEF InGroup
      <3>3. QED
        BY <2>1, <3>2 DEF m
    <2>2. QED
      BY <2>1 DEF m
  <1>4. ASSUME NEW k, NEW i \in Nat, i # 0
        PROVE  Known(p, X, k, i) <=> Known(o, W, k, i + 1)
    <2>1. ASSUME Known(p, X, k, i) PROVE Known(o, W, k, i + 1)
      <3>1. CASE k \in X
        <4>1. k \in W \/ (IsVehicle(o, 1, k) /\ 1 < i + 1)
          BY <1>1, <1>4, <3>1 DEF m, IsVehicle
        <4>2. QED
          BY <1>1, <4>1 DEF Known
      <3>2. CASE \E j \in DOMAIN p : j < i /\ IsVehicle(p, j, k)
        <4>1. PICK j \in DOMAIN p : j < i /\ IsVehicle(p, j, k)
          BY <3>2
        <4>2. j + 1 \in DOMAIN o /\ j + 1 < i + 1 /\ IsVehicle(o, j + 1, k)
          BY <1>1, <1>2, <4>1 DEF IsVehicle
        <4>3. QED
          BY <4>2 DEF Known
      <3>3. QED
        BY <2>1, <3>1, <3>2 DEF Known
    <2>2. ASSUME Known(o, W, k, i + 1) PROVE Known(p, X, k, i)
      <3>1. CASE k \in W
        BY <1>3, <3>1 DEF Known
      <3>2. CASE \E j \in DOMAIN o : j < i + 1 /\ IsVehicle(o, j, k)
        <4>1. PICK j \in DOMAIN o : j < i + 1 /\ IsVehicle(o, j, k)
          BY <3>2
        <4>2. CASE j = 1
          BY <1>1, <4>1, <4>2 DEF Known, IsVehicle, m
        <4>3. CASE j # 1
          <5>1. j - 1 \in DOMAIN p /\ j - 1 < i /\ IsVehicle(p, j - 1, k)
            BY <1>2, <4>1, <4>3 DEF IsVehicle
          <5>2. QED
            BY <5>1 DEF Known
        <4>4. QED
          BY <4>2, <4>3
      <3>3. QED
        BY <2>2, <3>1, <3>2 DEF Known
    <2>3. QED
      BY <2>1, <2>2
  <1>5. ASSUME NEW i \in Nat, NEW j \in Nat, j # 0, NoEnd(o, j + 1, i + 1) PROVE NoEnd(p, j, i)
    <2>1. \A l \in DOMAIN p : j <= l /\ l < i =>
             l + 1 \in DOMAIN o /\ j + 1 <= l + 1 /\ l + 1 < i + 1 /\ p[l] = o[l + 1]
      BY <1>1, <1>2
    <2>2. QED
      BY <1>5, <2>1 DEF NoEnd
  <1>6. ASSUME NEW k, NEW i \in Nat, i # 0, InGroup(o, I, k, i + 1)
        PROVE  InGroup(p, J, k, i)
    <2>1. ASSUME NoEnd(o, 1, i + 1) PROVE NoEnd(p, 1, i) /\ m.code # "end"
      <3>1. NoEnd(o, 2, i + 1)
        BY <1>2, <2>1 DEF NoEnd
      <3>2. 1 <= 1 /\ 1 < i + 1
        BY <1>6
      <3>3. QED
        BY <1>1, <1>5, <2>1, <3>1, <3>2 DEF NoEnd
    <2>2. CASE k \in I /\ NoEnd(o, 1, i + 1)
      BY <2>1, <2>2 DEF InGroup, m
    <2>3. CASE \E j \in DOMAIN o : j < i + 1 /\ IsVehicle(o, j, k) /\ NoEnd(o, j, i + 1)
      <3>1. PICK j \in DOMAIN o : j < i + 1 /\ IsVehicle(o, j, k) /\ NoEnd(o, j, i + 1)
        BY <2>3
      <3>2. CASE j = 1
        BY <1>1, <2>1, <3>1, <3>2 DEF InGroup, IsVehicle, m
      <3>3. CASE j # 1
        <4>1. /\ j - 1 \in DOMAIN p /\ j - 1 \in Nat \ {0} /\ (j - 1) + 1 = j
              /\ j - 1 < i /\ IsVehicle(p, j - 1, k)
          BY <1>2, <3>1, <3>3 DEF IsVehicle
        <4>2. NoEnd(p, j - 1, i)
          BY <1>5, <3>1, <4>1
        <4>3. QED
          BY <4>1, <4>2 DEF InGroup
      <3>4. QED
        BY <3>2, <3>3
    <2>4. QED
      BY <1>6, <2>2, <2>3 DEF InGroup
  <1>7. Complete(p, X, J)
    <2> SUFFICES ASSUME NEW i \in DOMAIN p, p[i].code = "end",
                        NEW k \in Connections, Known(p, X, k, i)
                 PROVE  InGroup(p, J, k, i)
      BY DEF Complete
    <2>1. i \in Nat /\ i # 0 /\ i + 1 \in DOMAIN o /\ o[i + 1].code = "end"
      BY <1>1, <1>2
    <2>2. Known(o, W, k, i + 1)
      BY <1>4, <2>1
    <2>3. InGroup(o, I, k, i + 1)
      BY <2>1, <2>2 DEF Complete
    <2>4. QED
      BY <1>6, <2>1, <2>3
  <1>8. Len(p) + 1 \in Nat /\ Len(p) + 1 # 0 /\ Len(o) = Len(p) + 1 /\ Len(p) \in Nat
    BY <1>1
  <1>9. QED
    BY <1>3, <1>4, <1>6, <1>7, <1>8

-----------------------------------------------------------------------------
(* A step of a program is a step of a client or none for the server.        *)
LEMMA ProgramsAreClients == ClientNext => [Next]_vars
  <1> SUFFICES ASSUME ClientNext PROVE [Next]_vars
    OBVIOUS
  <1>1. ASSUME NEW n \in Programs, Listener(n) \/ MainLoop(n) \/ Kill(n)
        PROVE  Client(n) \/ UNCHANGED vars
    BY <1>1 DEF Listener, ListenVehicle, ListenEnd, ListenId, Listening, MainLoop, Kill, Client,
                SendOwn, BeginFollow, CopyVehicle, StepFollow, UseErasedVehicle, BeginDrop,
                DropVehicle, Advance, Leave, Destroy, serverVars
  <1>2. Programs \subseteq Connections
    BY ProgramAssumption
  <1>3. QED
    BY <1>1, <1>2 DEF ClientNext, AnyClient, Program, Next

(* A vehicle that has left does not come back: no second message adds it.   *)
LEMMA LeftForGood ==
  ASSUME IInv, [Next]_vars, NEW n, SomeoneLeft(n)
  PROVE  SomeoneLeft(n)'
  <1>1. PICK m \in Connections \ {n} : pc[m] \in {"leaving", "closed"} /\ m \notin DOMAIN section
    BY DEF SomeoneLeft
  <1>2. SUFFICES pc'[m] \in {"leaving", "closed"} /\ m \notin DOMAIN section'
    BY <1>1 DEF SomeoneLeft
  <1>3. ASSUME NEW l \in Connections, Accept(l) \/ Thread(l) \/ Client(l)
        PROVE  pc'[m] \in {"leaving", "closed"} /\ UNCHANGED section
    BY <1>1, <1>3 DEF Accept, Thread, Hello, AwaitVehicle, Walk, BeginGroup, SendVehicle,
         StepCursor, UseErased, EndGroup, ReceiveUpdate, ReceiveDisconnect, CountOnLeaving,
         ConnectionLost, Client, ClientSend, ClientRead, ClientClose, Goto, CloseAndGoto, Close,
         worldVars, IInv, TypeOK
  <1>4. CASE Execute
    <2>1. PICK call \in Calls, l \in Connections : call = Head(worldQueue) /\ l = call.id
      BY <1>4, PopFacts DEF Execute, Calls, IInv
    <2>2. CASE l = m
      <3>1. call.op # "add"
        BY <1>1, <1>4, <2>1, <2>2, HeadOfTheQueue DEF IInv
      <3>2. QED
        BY <1>1, <1>4, <2>1, <2>2, <3>1 DEF Execute, UpdateVehicle, RemoveVehicle
    <2>3. CASE l # m
      BY <1>1, <1>4, <2>1, <2>3 DEF Execute, AddVehicle, UpdateVehicle, RemoveVehicle
    <2>4. QED
      BY <2>2, <2>3
  <1>5. CASE UNCHANGED vars
    BY <1>1, <1>5 DEF vars
  <1>6. QED
    BY <1>1, <1>3, <1>4, <1>5 DEF Next, Server

(* Until another vehicle leaves the main thread only adds vehicles, and     *)
(* only marks them initialized; the program's own goes after its groups.    *)
LEMMA ExecuteKeeps ==
  ASSUME IInv, Execute, NEW n \in Connections, ~ SomeoneLeft(n)'
  PROVE  /\ \A k \in DOMAIN section : k # n => k \in DOMAIN section' /\ (section[k] => section'[k])
         /\ pc[n] \in InGroups => n \in DOMAIN section'
  <1>1. PICK call \in Calls, l \in Connections : call = Head(worldQueue) /\ l = call.id
    BY PopFacts DEF Execute, Calls, IInv
  <1>2. CASE call.op = "add"
    <2>1. /\ \A k \in DOMAIN section : k \in DOMAIN section' /\ section'[k] = section[k]
      BY <1>1, <1>2 DEF Execute, AddVehicle
    <2>2. pc[n] \in InGroups => n \in DOMAIN section
      BY DEF IInv, CallsInv, CallsOfConnection
    <2>3. QED
      BY <2>1, <2>2
  <1>3. CASE call.op = "update"
    <2>1. /\ \A k \in DOMAIN section : k \in DOMAIN section' /\ (section[k] => section'[k])
      BY <1>1, <1>3 DEF Execute, UpdateVehicle, IInv, TypeOK
    <2>2. pc[n] \in InGroups => n \in DOMAIN section
      BY DEF IInv, CallsInv, CallsOfConnection
    <2>3. QED
      BY <2>1, <2>2
  <1>4. CASE call.op = "remove"
    <2>1. /\ DOMAIN section' = DOMAIN section \ {l} /\ UNCHANGED pc
          /\ \A k \in DOMAIN section' : section'[k] = section[k]
      BY <1>1, <1>4 DEF Execute, RemoveVehicle
    <2>2. pc[l] \in {"leaving", "closed"} \/ l \notin DOMAIN section
      BY <1>1, <1>4, HeadOfTheQueue DEF IInv
    <2>3. l = n \/ l \notin DOMAIN section
      BY <2>1, <2>2 DEF SomeoneLeft
    <2>4. pc[n] \in InGroups => n \in DOMAIN section /\ pc[n] \notin {"leaving", "closed"}
      BY DEF IInv, CallsInv, CallsOfConnection, InGroups
    <2>5. QED
      BY <2>1, <2>2, <2>3, <2>4
  <1>5. QED
    BY <1>1, <1>2, <1>3, <1>4 DEF Execute

(* The groups are as good as they were when nothing is sent or read and     *)
(* the walk is where it was, or over.                                       *)
LEMMA GroupsUnchanged ==
  ASSUME NEW n \in Programs, GroupsInv(n),
         UNCHANGED <<outbox[n], worldVehicles[n], idnumbers[n], cursor[n]>>,
         \A k \in DOMAIN section : k # n => k \in DOMAIN section' /\ (section[k] => section'[k]),
         pc[n] \in {"walk", "step"} /\ n \in DOMAIN section => n \in DOMAIN section',
         pc'[n] = pc[n] \/ pc'[n] \notin {"walk", "step"}
  PROVE  GroupsInv(n)'
  <1>1. \A k : (KnownTo(n, k)' <=> KnownTo(n, k)) /\ (NotedBy(n, k)' <=> NotedBy(n, k))
    BY DEF KnownTo, NotedBy
  <1>2. QED
    BY <1>1 DEF GroupsInv

(* What the server does keeps the groups of a program in order.             *)
LEMMA WalkGroups ==
  ASSUME IInv, NEW n \in Programs, Walk(n), GroupsInv(n), n \notin gone,
         UNCHANGED <<worldVehicles[n], idnumbers[n]>>
  PROVE  GroupsInv(n)'
  <1> DEFINE o == outbox[n]
             W == worldVehicles[n]
             I == idnumbers[n]
  <1>1. /\ n \in Connections /\ o \in Seq(ServerMessages) /\ Len(o) \in Nat
        /\ DOMAIN section \in SUBSET Connections /\ Connections \subseteq Nat
        /\ pc \in [Connections -> {"none", "hello", "await", "begin", "walk", "step",
                                   "receive", "leaving", "closed", "lost"}]
        /\ cursor \in [Connections -> Connections \cup {AtEnd}]
        /\ outbox \in [Connections -> Seq(ServerMessages)]
        /\ \A k \in DOMAIN section : section[k] \in BOOLEAN
    BY ProgramAssumption, ConnectionAssumption DEF IInv, TypeOK
  <1>2. /\ \A k \in Connections : KnownTo(n, k) => k # n /\ k \in DOMAIN section /\ section[k]
        /\ Complete(o, W, I)
    BY DEF GroupsInv
  <1>3. ASSUME UNCHANGED outbox
        PROVE  \A k : (KnownTo(n, k)' <=> KnownTo(n, k)) /\ (NotedBy(n, k)' <=> NotedBy(n, k))
    BY <1>3 DEF KnownTo, NotedBy
  <1>4. CASE BeginGroup(n)
    <2>1. pc'[n] = "walk" /\ cursor'[n] = FirstOf(DOMAIN section) /\ UNCHANGED <<outbox, section>>
      BY <1>1, <1>4 DEF BeginGroup, Goto, worldVars
    <2>2. CASE DOMAIN section = {}
      BY <1>2, <1>3, <2>1, <2>2 DEF GroupsInv, FirstOf
    <2>3. CASE DOMAIN section # {}
      <3>1. /\ cursor'[n] \in DOMAIN section /\ cursor'[n] # AtEnd
            /\ \A k \in DOMAIN section : ~ (k < cursor'[n])
        <4>1. /\ FirstOf(DOMAIN section) \in DOMAIN section
              /\ \A k \in DOMAIN section : FirstOf(DOMAIN section) <= k
          BY <1>1, <2>3, FirstOfSet
        <4>2. QED
          BY <1>1, <2>1, <4>1 DEF AtEnd
      <3>2. QED
        BY <1>2, <1>3, <2>1, <3>1 DEF GroupsInv
    <2>4. QED
      BY <2>2, <2>3
  <1>5. CASE SendVehicle(n)
    <2>1. /\ pc[n] = "walk" /\ pc'[n] = "step" /\ UNCHANGED <<cursor, section>>
          /\ cursor[n] \in DOMAIN section
      BY <1>1, <1>5 DEF SendVehicle, Goto, worldVars
    <2>a. cursor[n] \in Nat /\ cursor[n] # AtEnd
      BY <1>1, <2>1 DEF AtEnd
    <2>2. \A k \in Connections : KnownTo(n, k) /\ k < cursor[n] => NotedBy(n, k)
      BY <2>1 DEF GroupsInv
    <2>3. CASE cursor[n] = n
      <3>1. UNCHANGED outbox
        BY <1>5, <2>3 DEF SendVehicle
      <3>2. \A k \in Connections : KnownTo(n, k) /\ k <= cursor[n] => NotedBy(n, k)
        <4>1. \A k \in Connections : k <= cursor[n] /\ k # n => k < cursor[n]
          BY <1>1, <2>a, <2>3
        <4>2. QED
          BY <1>2, <2>2, <4>1
      <3>3. QED
        BY <1>2, <1>3, <2>1, <3>1, <3>2 DEF GroupsInv
    <2>4. CASE cursor[n] # n
      <3>1. PICK message \in ServerMessages :
              /\ message = (IF section[cursor[n]] THEN WholeVehicle(cursor[n]) ELSE VehicleId(0))
              /\ outbox'[n] = Append(o, message)
        <4>1. WholeVehicle(cursor[n]) \in ServerMessages /\ VehicleId(0) \in ServerMessages
          BY <1>1, <2>1 DEF ServerMessages, WholeVehicle
        <4>2. QED
          BY <1>1, <1>5, <2>4, <4>1 DEF SendVehicle, Send
      <3>2. /\ message.code # "end" /\ (message.code = "vehicle" <=> section[cursor[n]])
            /\ section[cursor[n]] => message.id = cursor[n]
        BY <1>1, <2>1, <3>1 DEF WholeVehicle, VehicleId
      <3>3. /\ Complete(outbox'[n], W, I)
            /\ \A k : KnownTo(n, k)' <=> KnownTo(n, k) \/ (section[k] /\ k = cursor[n])
            /\ \A k : NotedBy(n, k) => NotedBy(n, k)'
            /\ \A k : section[k] /\ k = cursor[n] => NotedBy(n, k)'
        <4> DEFINE p == outbox'[n]
        <4> HIDE DEF o, W, I, p
        <4>1. /\ Len(o) \in Nat /\ Len(p) = Len(o) + 1 /\ Complete(p, W, I)
              /\ \A k : Known(p, W, k, Len(p) + 1) <=>
                          Known(o, W, k, Len(o) + 1) \/ (message.code = "vehicle" /\ message.id = k)
              /\ \A k : InGroup(o, I, k, Len(o) + 1) => InGroup(p, I, k, Len(p) + 1)
              /\ IsVehicle(p, Len(p), message.id) <=> message.code = "vehicle"
              /\ \A k : IsVehicle(p, Len(p), k) => InGroup(p, I, k, Len(p) + 1)
          <5>1. p = Append(o, message)
            BY <3>1 DEF o, p
          <5>2. message.code # "end"
            BY <3>2
          <5>3. o \in Seq(ServerMessages) /\ Complete(o, W, I)
            BY <1>1, <1>2
          <5>4. Len(o) \in Nat /\ Len(p) = Len(o) + 1 /\ Complete(p, W, I)
            BY <5>1, <5>2, <5>3, AppendedMessage
          <5>5. \A k : Known(p, W, k, Len(p) + 1) <=>
                         Known(o, W, k, Len(o) + 1) \/ (message.code = "vehicle" /\ message.id = k)
            <6>1. CASE message.code = "vehicle"
              BY <5>1, <5>3, <6>1, AppendedMessage
            <6>2. CASE message.code # "vehicle"
              BY <5>1, <5>3, <6>2, AppendedMessage
            <6>3. QED
              BY <6>1, <6>2
          <5>6. \A k : InGroup(o, I, k, Len(o) + 1) => InGroup(p, I, k, Len(p) + 1)
            BY <5>1, <5>2, <5>3, AppendedMessage
          <5>7. IsVehicle(p, Len(p), message.id) <=> message.code = "vehicle"
            BY <5>1, <5>3, AppendedMessage
          <5>8. \A k : IsVehicle(p, Len(p), k) => InGroup(p, I, k, Len(p) + 1)
            BY <5>1, <5>2, <5>3, AppendedMessage
          <5>9. QED
            BY <5>4, <5>5, <5>6, <5>7, <5>8
        <4>2. \A k : section[k] /\ k = cursor[n] => InGroup(p, I, k, Len(p) + 1)
          BY <3>2, <4>1
        <4>3. \A k : Known(p, W, k, Len(p) + 1) <=>
                        Known(o, W, k, Len(o) + 1) \/ (section[k] /\ k = cursor[n])
          BY <3>2, <4>1
        <4>4. /\ \A k : (KnownTo(n, k)' <=> Known(p, W, k, Len(p) + 1))
              /\ \A k : (NotedBy(n, k)' <=> InGroup(p, I, k, Len(p) + 1))
              /\ \A k : (KnownTo(n, k) <=> Known(o, W, k, Len(o) + 1))
              /\ \A k : (NotedBy(n, k) <=> InGroup(o, I, k, Len(o) + 1))
          BY DEF KnownTo, NotedBy, o, W, I, p
        <4>5. Complete(outbox'[n], worldVehicles[n], idnumbers[n])
          BY <4>1 DEF W, I, p
        <4> HIDE DEF KnownTo, NotedBy
        <4>6. QED
          BY <4>1, <4>2, <4>3, <4>4, <4>5 DEF W, I
      <3>4. ASSUME NEW k \in Connections, KnownTo(n, k)', k <= cursor[n]
            PROVE  NotedBy(n, k)'
        <4>1. k < cursor[n] \/ k = cursor[n]
          BY <1>1, <2>a, <3>4
        <4>2. CASE k = cursor[n]
          <5>1. section[k]
            BY <1>2, <3>3, <3>4
          <5>2. QED
            BY <3>3, <4>2, <5>1
        <4>3. CASE k < cursor[n]
          <5>1. KnownTo(n, k)
            BY <1>1, <2>a, <3>3, <3>4, <4>3
          <5>2. QED
            BY <2>2, <3>3, <4>3, <5>1
        <4>4. QED
          BY <4>1, <4>2, <4>3
      <3>5. \A k \in Connections : KnownTo(n, k)' => k # n /\ k \in DOMAIN section /\ section[k]
        BY <1>2, <2>1, <2>4, <3>3
      <3>6. QED
        BY <2>1, <3>3, <3>4, <3>5 DEF GroupsInv
    <2>5. QED
      BY <2>3, <2>4
  <1>6. CASE StepCursor(n)
    <2> DEFINE S == {k \in DOMAIN section : cursor[n] < k}
    <2>a. S \in SUBSET Connections
      BY <1>1
    <2>1. /\ pc[n] = "step" /\ pc'[n] = "walk" /\ cursor'[n] = FirstOf(S)
          /\ UNCHANGED <<outbox, section>> /\ cursor[n] \in Nat
      BY <1>1, <1>6 DEF StepCursor, Goto, worldVars
    <2>2. \A k \in Connections : KnownTo(n, k) /\ k <= cursor[n] => NotedBy(n, k)
      BY <2>1 DEF GroupsInv
    <2>3. CASE S = {}
      <3>1. \A k \in Connections : KnownTo(n, k) => k <= cursor[n]
        BY <1>1, <1>2, <2>1, <2>3
      <3>2. QED
        BY <1>2, <1>3, <2>1, <2>2, <2>3, <3>1 DEF GroupsInv, FirstOf
    <2>4. CASE S # {}
      <3>1. cursor'[n] \in S /\ \A k \in S : cursor'[n] <= k
        <4> HIDE DEF S
        <4>1. QED
          BY <2>a, <2>1, <2>4, FirstOfSet
      <3>2. \A k \in DOMAIN section : k < cursor'[n] => k <= cursor[n]
        <4>1. ASSUME NEW k \in DOMAIN section, k < cursor'[n], ~ (k <= cursor[n]) PROVE FALSE
          <5>1. k \in Nat /\ cursor'[n] \in Nat
            BY <1>1, <2>a, <3>1
          <5>2. cursor[n] < k /\ cursor'[n] <= k
            BY <2>1, <3>1, <4>1, <5>1
          <5>3. QED
            BY <4>1, <5>1, <5>2
        <4>2. QED
          BY <4>1
      <3>3. cursor'[n] \in DOMAIN section /\ cursor'[n] # AtEnd
        BY <1>1, <3>1 DEF AtEnd
      <3>4. QED
        BY <1>2, <1>3, <2>1, <2>2, <3>2, <3>3 DEF GroupsInv
    <2>5. QED
      BY <2>3, <2>4
  <1>7. CASE UseErased(n)
    BY <1>7 DEF UseErased, GroupsInv
  <1>8. CASE EndGroup(n)
    <2>1. pc[n] = "walk" /\ pc'[n] = "receive" /\ cursor[n] = AtEnd /\ UNCHANGED section
      BY <1>1, <1>8 DEF EndGroup, Goto, worldVars
    <2>2. \A k \in Connections : KnownTo(n, k) => NotedBy(n, k)
      BY <2>1 DEF GroupsInv
    <2>3. outbox'[n] = Append(o, EndOfGroup) /\ EndOfGroup \in ServerMessages
          /\ EndOfGroup.code = "end"
      BY <1>1, <1>8 DEF EndGroup, Send, ServerMessages, EndOfGroup
    <2>4. Complete(outbox'[n], W, I) /\ \A k : KnownTo(n, k)' <=> KnownTo(n, k)
      <3> DEFINE p == outbox'[n]
      <3>1. \A k \in Connections : Known(o, W, k, Len(o) + 1) => InGroup(o, I, k, Len(o) + 1)
        BY <2>2 DEF KnownTo, NotedBy
      <3> HIDE DEF o, W, I, p
      <3>2. p = Append(o, EndOfGroup)
        BY <2>3 DEF o, p
      <3>3. /\ Complete(p, W, I)
            /\ \A k : Known(p, W, k, Len(p) + 1) <=> Known(o, W, k, Len(o) + 1)
        <4>1. Complete(p, W, I)
          BY <1>1, <1>2, <2>3, <3>1, <3>2, AppendedMessage
        <4>2. EndOfGroup.code # "vehicle"
          BY <2>3
        <4>3. \A k : Known(p, W, k, Len(p) + 1) <=> Known(o, W, k, Len(o) + 1)
          BY <1>1, <1>2, <2>3, <3>2, <4>2, AppendedMessage
        <4>4. QED
          BY <4>1, <4>3
      <3>4. QED
        BY <3>3 DEF KnownTo, o, W, I, p
    <2>5. QED
      BY <1>2, <2>1, <2>4 DEF GroupsInv
  <1>9. QED
    BY <1>4, <1>5, <1>6, <1>7, <1>8 DEF Walk

(* A program's groups are as good as before after any step that is not of   *)
(* the program itself.                                                      *)
LEMMA ServerGroups ==
  ASSUME IInv, NEW n \in Programs, Server \/ \E l \in Connections \ {n} : Client(l),
         UNCHANGED <<worldVehicles[n], idnumbers[n]>>,
         GroupsInv(n), n \notin gone, ~ SomeoneLeft(n)'
  PROVE  GroupsInv(n)'
  <1>1. /\ n \in Connections
        /\ pc \in [Connections -> {"none", "hello", "await", "begin", "walk", "step",
                                   "receive", "leaving", "closed", "lost"}]
        /\ cursor \in [Connections -> Connections \cup {AtEnd}]
        /\ outbox \in [Connections -> Seq(ServerMessages)]
    BY ProgramAssumption DEF IInv, TypeOK
  <1>2. ASSUME NEW l \in Connections \ {n}, Accept(l) \/ Thread(l) \/ Client(l)
        PROVE  GroupsInv(n)'
    <2>1. UNCHANGED <<outbox[n], cursor[n], pc[n], section>>
      <3> USE DEF Goto, CloseAndGoto, Close, Send, worldVars
      <3>1. CASE Client(l)
        BY <1>1, <1>2, <3>1 DEF Client, ClientSend, ClientRead, ClientClose
      <3>2. CASE Walk(l)
        <4>1. UNCHANGED <<pc[n], section>>
          BY <1>1, <1>2, <3>2
             DEF Walk, BeginGroup, SendVehicle, StepCursor, UseErased, EndGroup
        <4>2. UNCHANGED outbox[n]
          BY <1>1, <1>2, <3>2
             DEF Walk, BeginGroup, SendVehicle, StepCursor, UseErased, EndGroup
        <4>3. UNCHANGED cursor[n]
          BY <1>1, <1>2, <3>2
             DEF Walk, BeginGroup, SendVehicle, StepCursor, UseErased, EndGroup
        <4>4. QED
          BY <4>1, <4>2, <4>3
      <3>3. CASE Accept(l) \/ (Thread(l) /\ ~ Walk(l))
        BY <1>1, <1>2, <3>3 DEF Accept, Thread, Hello, AwaitVehicle, ReceiveUpdate,
           ReceiveDisconnect, CountOnLeaving, ConnectionLost
      <3>4. QED
        BY <1>2, <3>1, <3>2, <3>3
    <2>2. QED
      BY <2>1, GroupsUnchanged
  <1>3. CASE Accept(n) \/ (Thread(n) /\ ~ Walk(n))
    <2>1. /\ UNCHANGED <<outbox[n], cursor[n], section>>
          /\ pc'[n] = pc[n] \/ pc'[n] \notin {"walk", "step"}
      BY <1>1, <1>3 DEF Accept, Thread, Hello, AwaitVehicle, ReceiveUpdate, ReceiveDisconnect,
         CountOnLeaving, ConnectionLost, Goto, CloseAndGoto, Close, worldVars
    <2>2. QED
      BY <2>1, GroupsUnchanged
  <1>4. CASE Walk(n)
    BY <1>4, WalkGroups
  <1>5. CASE Execute
    <2>1. UNCHANGED <<outbox[n], cursor[n], pc[n]>>
      BY <1>5 DEF Execute
    <2>2. /\ \A k \in DOMAIN section : k # n => k \in DOMAIN section' /\ (section[k] => section'[k])
          /\ pc[n] \in {"walk", "step"} => n \in DOMAIN section'
      BY <1>1, <1>5, ExecuteKeeps DEF InGroups
    <2>3. QED
      BY <2>1, <2>2, GroupsUnchanged
  <1>6. QED
    BY <1>1, <1>2, <1>3, <1>4, <1>5 DEF Server

(* A program is as good as before after a step of anyone else.              *)
LEMMA OthersKeepProgram ==
  ASSUME ClientIInv, NEW n \in Programs, [Next]_vars,
         (Server \/ \E l \in Connections \ {n} : Client(l)) \/ UNCHANGED vars,
         UNCHANGED <<main[n], worldVehicles[n], idnumbers[n], otherVehicles[n],
                     iterator[n], target[n]>>
  PROVE  ProgramInv(n)'
  <1>1. IInv /\ ProgramInv(n) /\ n \in Connections
    BY ProgramAssumption DEF ClientIInv
  <1>2. n \in gone' <=> n \in gone
    BY DEF Server, Execute, Accept, Thread, Hello, AwaitVehicle, Walk, BeginGroup, SendVehicle,
         StepCursor, UseErased, EndGroup, ReceiveUpdate, ReceiveDisconnect, CountOnLeaving,
         ConnectionLost, Client, ClientSend, ClientRead, ClientClose, vars
  <1>3. ~ SomeoneLeft(n)' => ~ SomeoneLeft(n)
    BY <1>1, LeftForGood
  <1>4. ASSUME ~ SomeoneLeft(n)', n \notin gone, GroupsInv(n) PROVE GroupsInv(n)'
    <2>1. CASE UNCHANGED vars
      BY <1>4, <2>1, GroupsUnchanged DEF vars
    <2>2. CASE Server \/ \E l \in Connections \ {n} : Client(l)
      BY <1>1, <1>4, <2>2, ServerGroups
    <2>3. QED
      BY <2>1, <2>2
  <1>5. MainInv(n) => MainInv(n)'
    BY DEF MainInv
  <1>6. TargetInv(n) => TargetInv(n)'
    BY DEF TargetInv
  <1>7. (main[n] \in Ended)' <=> main[n] \in Ended
    OBVIOUS
  <1>8. QED
    BY <1>1, <1>2, <1>3, <1>4, <1>5, <1>6, <1>7 DEF ProgramInv

-----------------------------------------------------------------------------
(* What the maps' iterators get.                                            *)
LEMMA FirstOfIn ==
  ASSUME NEW S \in SUBSET Connections
  PROVE  FirstOf(S) \in S \cup {AtEnd} /\ \A k : NextOf(k, S) \in S \cup {AtEnd}
  <1>1. ASSUME NEW T \in SUBSET Connections PROVE FirstOf(T) \in T \cup {AtEnd}
    <2>1. CASE T = {}
      BY <2>1 DEF FirstOf
    <2>2. CASE T # {}
      BY <2>2, FirstOfSet
    <2>3. QED
      BY <2>1, <2>2
  <1>2. ASSUME NEW k PROVE NextOf(k, S) \in S \cup {AtEnd}
    <2>1. NextOf(k, S) \in {j \in S : k < j} \cup {AtEnd}
      BY <1>1 DEF NextOf
    <2>2. QED
      BY <2>1
  <1>3. QED
    BY <1>1, <1>2

(* The variables of the programs have their types in the initial states,    *)
(* and in every other.                                                      *)
LEMMA ClientInitType == ClientInit => ClientTypeOK
  <1> SUFFICES ASSUME ClientInit PROVE ClientTypeOK
    OBVIOUS
  <1>1. TypeOK
    BY InitType DEF ClientInit
  <1>2. QED
    BY <1>1 DEF ClientInit, ClientTypeOK, AtEnd, Nobody

(* Every step keeps the types of the programs' variables.                  *)
LEMMA ClientTypeStep ==
  ASSUME ClientTypeOK, ClientNext, TypeOK'
  PROVE  ClientTypeOK'
  <1> USE DEF MainAt, MoveTo, Ended, clientVars
  <1>1. CASE UNCHANGED clientVars
    BY <1>1 DEF ClientTypeOK
  <1>2. ASSUME NEW n \in Programs, Listener(n) PROVE ClientTypeOK'
    <2>1. /\ outbox[n] \in Seq(ServerMessages) /\ outbox[n] # <<>>
          /\ worldVehicles[n] \subseteq Connections /\ idnumbers[n] \subseteq Connections \cup {0}
      BY <1>2, ProgramAssumption
         DEF Listener, ListenVehicle, ListenEnd, ListenId, Listening, ClientRead, ClientTypeOK, TypeOK
    <2>2. Head(outbox[n]) \in ServerMessages
      BY <2>1
    <2>3. /\ Head(outbox[n]).code = "vehicle" => Head(outbox[n]).id \in Connections
          /\ Head(outbox[n]).code = "id" => Head(outbox[n]).id = 0
      BY <2>2 DEF ServerMessages, VehicleId, EndOfGroup
    <2>4. \E W \in SUBSET Connections : worldVehicles' = [worldVehicles EXCEPT ![n] = W]
      <3>1. CASE ListenVehicle(n)
        <4>1. worldVehicles[n] \cup {Head(outbox[n]).id} \in SUBSET Connections
          BY <2>1, <2>3, <3>1 DEF ListenVehicle
        <4>2. QED
          BY <3>1, <4>1 DEF ListenVehicle
      <3>2. CASE ListenEnd(n)
        <4>1. worldVehicles[n] \cap idnumbers[n] \in SUBSET Connections
          BY <2>1
        <4>2. QED
          BY <3>2, <4>1 DEF ListenEnd
      <3>3. CASE ListenId(n)
        <4>1. worldVehicles' = [worldVehicles EXCEPT ![n] = worldVehicles[n]]
          BY <3>3 DEF ListenId, ClientTypeOK
        <4>2. QED
          BY <2>1, <4>1
      <3>4. QED
        BY <1>2, <3>1, <3>2, <3>3 DEF Listener
    <2>5. idnumbers' \in [Programs -> SUBSET (Connections \cup {0})]
      <3>1. \E I \in SUBSET (Connections \cup {0}) : idnumbers' = [idnumbers EXCEPT ![n] = I]
        <4>1. \/ idnumbers' = [idnumbers EXCEPT ![n] = {}]
              \/ \E k \in Connections \cup {0} :
                    idnumbers' = [idnumbers EXCEPT ![n] = idnumbers[n] \cup {k}]
          BY <1>2, <2>3 DEF Listener, ListenVehicle, ListenEnd, ListenId
        <4>2. QED
          BY <2>1, <4>1
      <3>2. QED
        BY <3>1 DEF ClientTypeOK
    <2>6. UNCHANGED <<main, otherVehicles, iterator, target>>
      BY <1>2 DEF Listener, ListenVehicle, ListenEnd, ListenId, Listening
    <2>7. worldVehicles' \in [Programs -> SUBSET Connections]
      BY <2>4 DEF ClientTypeOK
    <2>8. QED
      BY <2>5, <2>6, <2>7 DEF ClientTypeOK
  <1>3. ASSUME NEW n \in Programs, MainLoop(n) \/ Kill(n) PROVE ClientTypeOK'
    <2>1. /\ worldVehicles[n] \in SUBSET Connections /\ otherVehicles[n] \in SUBSET Connections
          /\ iterator[n] \in Connections \cup {AtEnd} /\ UNCHANGED <<worldVehicles, idnumbers>>
      BY <1>3 DEF ClientTypeOK, MainLoop, SendOwn, BeginFollow, CopyVehicle, StepFollow,
         UseErasedVehicle, BeginDrop, DropVehicle, Advance, Leave, Destroy, Kill
    <2>2. main' \in [Programs -> {"send", "follow", "copy", "step", "drop", "leave"} \cup Ended]
      <3>1. \E l \in {"send", "follow", "copy", "step", "drop", "leave"} \cup Ended :
               main' = [main EXCEPT ![n] = l]
        BY <1>3 DEF MainLoop, SendOwn, BeginFollow, CopyVehicle, StepFollow, UseErasedVehicle,
                    BeginDrop, DropVehicle, Advance, Leave, Destroy, Kill
      <3>2. QED
        BY <3>1 DEF ClientTypeOK
    <2>3. iterator' \in [Programs -> Connections \cup {AtEnd}]
      <3>1. UNCHANGED iterator \/ \E k \in Connections \cup {AtEnd} : MoveTo(n, k)
        BY <1>3, <2>1, FirstOfIn
           DEF MainLoop, SendOwn, BeginFollow, CopyVehicle, StepFollow, UseErasedVehicle,
               BeginDrop, DropVehicle, Advance, Leave, Destroy, Kill
      <3>2. QED
        BY <3>1 DEF ClientTypeOK
    <2>4. UNCHANGED <<otherVehicles, target>>
          \/ (iterator[n] \in Connections /\ MakeVehicle(n, iterator[n]))
          \/ (DropVehicle(n) /\ UNCHANGED target)
      BY <1>3, <2>1 DEF MainLoop, SendOwn, BeginFollow, CopyVehicle, StepFollow, UseErasedVehicle,
               BeginDrop, DropVehicle, Advance, Leave, Destroy, Kill
    <2>5. /\ otherVehicles' \in [Programs -> SUBSET Connections]
          /\ target' \in [Programs -> Connections \cup {Nobody}]
      <3>1. CASE UNCHANGED <<otherVehicles, target>>
        BY <3>1 DEF ClientTypeOK
      <3>2. CASE iterator[n] \in Connections /\ MakeVehicle(n, iterator[n])
        <4>1. otherVehicles[n] \cup {iterator[n]} \in SUBSET Connections
          BY <2>1, <3>2
        <4>2. QED
          BY <3>2, <4>1 DEF MakeVehicle, ClientTypeOK
      <3>3. CASE DropVehicle(n) /\ UNCHANGED target
        <4>1. \E S \in SUBSET Connections : otherVehicles' = [otherVehicles EXCEPT ![n] = S]
          <5>1. otherVehicles[n] \ {iterator[n]} \in SUBSET Connections
            BY <2>1
          <5>2. QED
            BY <2>1, <3>3, <5>1 DEF DropVehicle
        <4>2. QED
          BY <3>3, <4>1 DEF ClientTypeOK
      <3>4. QED
        BY <2>4, <3>1, <3>2, <3>3
    <2>6. QED
      BY <2>1, <2>2, <2>3, <2>5 DEF ClientTypeOK
  <1>4. QED
    BY <1>1, <1>2, <1>3 DEF ClientNext, Program

-----------------------------------------------------------------------------
(* The listener drops nothing until another vehicle leaves, and what it     *)
(* reads keeps the program's state in order.                                *)
LEMMA ListenerKeeps ==
  ASSUME ClientIInv, NEW n \in Programs, Listener(n), ~ SomeoneLeft(n)'
  PROVE  worldVehicles[n] \subseteq worldVehicles'[n] /\ ProgramInv(n)'
  <1> DEFINE o == outbox[n]
             W == worldVehicles[n]
             I == idnumbers[n]
  <1>1. ClientRead(n) /\ UNCHANGED <<main, otherVehicles, iterator, target>>
    BY DEF Listener, ListenVehicle, ListenEnd, ListenId, Listening
  <1>2. /\ o \in Seq(ServerMessages) /\ o # <<>> /\ W \subseteq Connections /\ n \notin gone
        /\ outbox'[n] = Tail(o) /\ UNCHANGED <<pc, gone, cursor, section>>
    BY <1>1, ProgramAssumption DEF ClientRead, worldVars, ClientIInv, ClientTypeOK, TypeOK
  <1>3. ~ SomeoneLeft(n) /\ ProgramInv(n)
    BY <1>2 DEF SomeoneLeft, ClientIInv
  <1>4. GroupsInv(n) /\ MainInv(n) /\ TargetInv(n) /\ Complete(o, W, I)
    BY <1>2, <1>3 DEF ProgramInv, GroupsInv
  <1>5. LET m == Head(o)
        IN  \/ /\ m.code = "vehicle" /\ worldVehicles'[n] = W \cup {m.id}
               /\ idnumbers'[n] = I \cup {m.id}
            \/ m.code = "id" /\ worldVehicles'[n] = W /\ idnumbers'[n] = I \cup {m.id}
            \/ m.code = "end" /\ worldVehicles'[n] = W \cap I /\ idnumbers'[n] = {}
    BY DEF Listener, ListenVehicle, ListenEnd, ListenId, ClientIInv, ClientTypeOK
  <1>6. /\ W \subseteq worldVehicles'[n]
        /\ Complete(outbox'[n], worldVehicles'[n], idnumbers'[n])
        /\ \A k : KnownTo(n, k)' <=> KnownTo(n, k)
        /\ \A k : NotedBy(n, k) => NotedBy(n, k)'
    <2> DEFINE p == outbox'[n]
               X == worldVehicles'[n]
               J == idnumbers'[n]
    <2>1. p = Tail(o) /\ o \in Seq(ServerMessages) /\ o # <<>> /\ Complete(o, W, I)
          /\ W \subseteq Connections
      BY <1>2, <1>4
    <2>2. LET m == Head(o)
          IN  \/ m.code = "vehicle" /\ X = W \cup {m.id} /\ J = I \cup {m.id}
              \/ m.code = "id" /\ X = W /\ J = I \cup {m.id}
              \/ m.code = "end" /\ X = W \cap I /\ J = {}
      BY <1>5
    <2> HIDE DEF o, W, I, p, X, J
    <2>3. /\ W \subseteq X /\ Complete(p, X, J)
          /\ \A k : Known(p, X, k, Len(p) + 1) <=> Known(o, W, k, Len(o) + 1)
          /\ \A k : InGroup(o, I, k, Len(o) + 1) => InGroup(p, J, k, Len(p) + 1)
      <3>1. W \subseteq X /\ Complete(p, X, J)
        BY <2>1, <2>2, ReadMessage
      <3>2. \A k : Known(p, X, k, Len(p) + 1) <=> Known(o, W, k, Len(o) + 1)
        <4>1. \A k : Known(p, X, k, Len(p) + 1) => Known(o, W, k, Len(o) + 1)
          BY <2>1, <2>2, ReadMessage
        <4>2. \A k : Known(o, W, k, Len(o) + 1) => Known(p, X, k, Len(p) + 1)
          BY <2>1, <2>2, ReadMessage
        <4>3. QED
          BY <4>1, <4>2
      <3>3. \A k : InGroup(o, I, k, Len(o) + 1) => InGroup(p, J, k, Len(p) + 1)
        BY <2>1, <2>2, ReadMessage
      <3>4. QED
        BY <3>1, <3>2, <3>3
    <2>4. QED
      BY <2>3 DEF KnownTo, NotedBy, o, W, I, p, X, J
  <1>7. GroupsInv(n)'
    BY <1>2, <1>4, <1>6 DEF GroupsInv
  <1>8. MainInv(n)' /\ TargetInv(n)'
    BY <1>1, <1>4, <1>6 DEF MainInv, TargetInv
  <1>9. QED
    BY <1>1, <1>2, <1>3, <1>6, <1>7, <1>8 DEF ProgramInv

(* The main loop keeps them in order too.                                   *)
LEMMA MainLoopKeeps ==
  ASSUME ClientIInv, NEW n \in Programs, MainLoop(n) \/ Kill(n)
  PROVE  ProgramInv(n)'
  <1> USE DEF MainAt, MoveTo, Ended, worldVars, serverVars, vars
  <1>1. /\ main \in [Programs -> {"send", "follow", "copy", "step", "drop", "leave"} \cup Ended]
        /\ worldVehicles[n] \in SUBSET Connections /\ otherVehicles[n] \in SUBSET Connections
        /\ otherVehicles \in [Programs -> SUBSET Connections]
        /\ iterator \in [Programs -> Connections \cup {AtEnd}]
        /\ target \in [Programs -> Connections \cup {Nobody}]
        /\ ProgramInv(n)
    BY DEF ClientIInv, ClientTypeOK
  <1>2. /\ UNCHANGED <<pc, section, cursor, worldVehicles, idnumbers>>
        /\ UNCHANGED outbox \/ (main'[n] \in Ended /\ n \in gone')
        /\ main[n] \notin Ended
    BY <1>1 DEF MainLoop, SendOwn, BeginFollow, CopyVehicle, StepFollow, UseErasedVehicle,
         BeginDrop, DropVehicle, Advance, Leave, Destroy, Kill, ClientSend, ClientClose
  <1>3. main'[n] \in Ended <=> n \in gone'
    <2>1. n \notin gone
      BY <1>1, <1>2 DEF ProgramInv
    <2>2. CASE ClientClose(n)
      BY <1>1, <2>2 DEF ClientClose, MainLoop, SendOwn, BeginFollow, CopyVehicle, StepFollow,
         UseErasedVehicle, BeginDrop, DropVehicle, Advance, Leave, Destroy, Kill, ClientSend
    <2>3. CASE ~ ClientClose(n)
      BY <1>1, <2>1, <2>3 DEF MainLoop, SendOwn, BeginFollow, CopyVehicle, StepFollow,
         UseErasedVehicle, BeginDrop, DropVehicle, Advance, Leave, Destroy, Kill, ClientSend
    <2>4. QED
      BY <2>2, <2>3
  <1>4. SUFFICES ASSUME ~ SomeoneLeft(n)
                 PROVE  TargetInv(n)' /\ (n \notin gone' => GroupsInv(n)' /\ MainInv(n)')
    BY <1>2, <1>3 DEF ProgramInv, SomeoneLeft
  <1>5. n \notin gone /\ GroupsInv(n) /\ MainInv(n) /\ TargetInv(n)
    BY <1>1, <1>2, <1>4 DEF ProgramInv
  <1>6. n \notin gone' => GroupsInv(n)'
    <2>1. UNCHANGED outbox => GroupsInv(n)'
      BY <1>2, <1>5, GroupsUnchanged
    <2>2. QED
      BY <1>2, <2>1
  <1>7. CASE SendOwn(n) \/ Leave(n) \/ Destroy(n) \/ Kill(n)
    BY <1>1, <1>5, <1>6, <1>7 DEF SendOwn, Leave, Destroy, Kill, MainInv, TargetInv
  <1>8. CASE BeginFollow(n)
    BY <1>1, <1>5, <1>6, <1>8, FirstOfIn DEF BeginFollow, MainInv, TargetInv
  <1>9. CASE CopyVehicle(n)
    <2>1. main'[n] = "step" /\ UNCHANGED <<iterator, worldVehicles>>
          /\ iterator[n] \in worldVehicles[n] /\ MakeVehicle(n, iterator[n])
      BY <1>1, <1>9 DEF CopyVehicle
    <2>2. otherVehicles'[n] = otherVehicles[n] \cup {iterator[n]}
          /\ target'[n] \in {target[n], iterator[n]}
      BY <1>1, <2>1 DEF MakeVehicle
    <2>3. QED
      BY <1>5, <1>6, <2>1, <2>2 DEF MainInv, TargetInv
  <1>10. CASE StepFollow(n)
    BY <1>1, <1>5, <1>6, <1>10, FirstOfIn DEF StepFollow, MainInv, TargetInv
  <1>11. CASE UseErasedVehicle(n)
    <2>1. main[n] \in {"copy", "step"} /\ iterator[n] \notin worldVehicles[n] \cup {AtEnd}
      BY <1>11 DEF UseErasedVehicle
    <2>2. QED
      BY <1>5, <2>1 DEF MainInv
  <1>12. CASE BeginDrop(n)
    BY <1>1, <1>5, <1>6, <1>12, FirstOfIn DEF BeginDrop, MainInv, TargetInv
  <1>13. CASE DropVehicle(n)
    <2>1. iterator[n] \in otherVehicles[n] /\ iterator[n] \in worldVehicles[n]
      BY <1>5, <1>13 DEF DropVehicle, MainInv
    <2>2. otherVehicles'[n] = otherVehicles[n] /\ main'[n] = "drop"
          /\ UNCHANGED <<worldVehicles, target>>
      BY <1>1, <1>13, <2>1 DEF DropVehicle
    <2>3. iterator'[n] \in otherVehicles[n] \cup {AtEnd}
      BY <1>1, <1>13, FirstOfIn DEF DropVehicle
    <2>4. QED
      BY <1>5, <1>6, <2>2, <2>3 DEF MainInv, TargetInv
  <1>14. CASE Advance(n)
    BY <1>1, <1>5, <1>6, <1>14 DEF Advance, MainInv, TargetInv
  <1>15. QED
    BY <1>7, <1>8, <1>9, <1>10, <1>11, <1>12, <1>13, <1>14 DEF MainLoop

-----------------------------------------------------------------------------
(* The invariant holds at first and is kept by every step.                  *)
LEMMA ClientIInvInit == ClientInit => ClientIInv
  <1> SUFFICES ASSUME ClientInit PROVE ClientIInv
    OBVIOUS
  <1>1. IInv /\ ClientTypeOK
    BY IInvInit, ClientInitType DEF ClientInit
  <1>2. ASSUME NEW n \in Programs PROVE ProgramInv(n)
    <2>1. n \in Connections /\ pc[n] = "none" /\ outbox[n] = <<>> /\ worldVehicles[n] = {}
          /\ otherVehicles[n] = {} /\ target[n] = Nobody /\ main[n] = "send" /\ gone = {}
      BY ProgramAssumption DEF ClientInit, Init
    <2>2. QED
      BY <2>1 DEF ProgramInv, Ended, TargetInv, GroupsInv, MainInv, KnownTo, Known, Complete
  <1>3. QED
    BY <1>1, <1>2 DEF ClientIInv

(* A step of one program changes nothing of the others'.                    *)
LEMMA ProgramsAreApart ==
  ASSUME ClientTypeOK, NEW n \in Programs, Listener(n) \/ MainLoop(n) \/ Kill(n),
         NEW m \in Programs, m # n
  PROVE  UNCHANGED <<main[m], worldVehicles[m], idnumbers[m], otherVehicles[m],
                     iterator[m], target[m]>>
  <1> USE DEF MainAt, MoveTo, clientVars, ClientTypeOK
  <1>1. CASE Listener(n)
    BY <1>1 DEF Listener, ListenVehicle, ListenEnd, ListenId, Listening
  <1>2. CASE Kill(n) \/ SendOwn(n) \/ Leave(n) \/ Destroy(n) \/ Advance(n)
    BY <1>2 DEF Kill, SendOwn, Leave, Destroy, Advance
  <1>3. CASE BeginFollow(n) \/ StepFollow(n) \/ BeginDrop(n)
    BY <1>3 DEF BeginFollow, StepFollow, BeginDrop
  <1>4. CASE CopyVehicle(n)
    BY <1>4 DEF CopyVehicle, MakeVehicle
  <1>5. CASE UseErasedVehicle(n)
    BY <1>5 DEF UseErasedVehicle, MakeVehicle
  <1>6. CASE DropVehicle(n)
    BY <1>6 DEF DropVehicle
  <1>7. QED
    BY <1>1, <1>2, <1>3, <1>4, <1>5, <1>6 DEF MainLoop

(* Every step of the server, of the programs and of the free clients keeps *)
(* the invariant.                                                          *)
LEMMA ClientIInvStep == ClientIInv /\ [ClientNext]_allVars => ClientIInv'
  <1> SUFFICES ASSUME ClientIInv, [ClientNext]_allVars PROVE ClientIInv'
    OBVIOUS
  <1>1. [Next]_vars
    BY ProgramsAreClients DEF allVars, serverVars
  <1>2. IInv'
    BY <1>1, IInvStep DEF ClientIInv
  <1>3. ClientTypeOK'
    <2>1. CASE UNCHANGED allVars
      BY <1>2, <2>1 DEF allVars, clientVars, ClientIInv, ClientTypeOK, IInv
    <2>2. CASE ClientNext
      BY <1>2, <2>2, ClientTypeStep DEF ClientIInv, IInv
    <2>3. QED
      BY <2>1, <2>2
  <1>4. ASSUME NEW m \in Programs PROVE ProgramInv(m)'
    <2>1. CASE UNCHANGED allVars
      BY <1>1, <2>1, OthersKeepProgram DEF allVars, serverVars, clientVars
    <2>2. CASE (Server \/ AnyClient) /\ UNCHANGED clientVars
      <3>1. Server \/ \E l \in Connections \ {m} : Client(l)
        BY <1>4, <2>2 DEF AnyClient
      <3>2. QED
        BY <1>1, <2>2, <3>1, OthersKeepProgram DEF clientVars
    <2>3. ASSUME NEW n \in Programs, Listener(n) \/ MainLoop(n) \/ Kill(n), n # m
          PROVE  ProgramInv(m)'
      <3>1. UNCHANGED <<main[m], worldVehicles[m], idnumbers[m], otherVehicles[m],
                        iterator[m], target[m]>>
        BY <2>3, ProgramsAreApart DEF ClientIInv
      <3>2. Client(n) \/ UNCHANGED vars
        BY <2>3 DEF Listener, ListenVehicle, ListenEnd, ListenId, Listening, MainLoop, Kill,
           Client, SendOwn, BeginFollow, CopyVehicle, StepFollow, UseErasedVehicle, BeginDrop,
           DropVehicle, Advance, Leave, Destroy, serverVars
      <3>3. n \in Connections \ {m}
        BY <2>3, ProgramAssumption
      <3>4. QED
        BY <1>1, <3>1, <3>2, <3>3, OthersKeepProgram
    <2>4. CASE Listener(m)
      <3>1. CASE ~ SomeoneLeft(m)'
        BY <2>4, <3>1, ListenerKeeps
      <3>2. CASE SomeoneLeft(m)'
        <4>1. UNCHANGED <<main, gone>>
          BY <2>4 DEF Listener, ListenVehicle, ListenEnd, ListenId, Listening, ClientRead
        <4>2. QED
          BY <3>2, <4>1 DEF ProgramInv, ClientIInv
      <3>3. QED
        BY <3>1, <3>2
    <2>5. CASE MainLoop(m) \/ Kill(m)
      BY <2>5, MainLoopKeeps
    <2>6. QED
      BY <2>1, <2>2, <2>3, <2>4, <2>5 DEF ClientNext, Program
  <1>5. QED
    BY <1>2, <1>3, <1>4 DEF ClientIInv

(* The invariant holds in every reachable state, of the programs and of the *)
(* server they are connected to.                                            *)
THEOREM ClientInvariance == ClientSpec => []ClientIInv
  BY ClientIInvInit, ClientIInvStep, PTL DEF ClientSpec

(* The chassis the driver keeps a bare reference to is that of a            *)
(* vehicle that is still there, unless a vehicle has left the world; and    *)
(* every variable keeps its type.                                           *)
THEOREM TargetStays == ClientSpec => []TargetGoesOnlyAfterLeaving
  <1>1. ClientIInv => TargetGoesOnlyAfterLeaving
    BY DEF ClientIInv, ProgramInv, TargetInv, TargetGoesOnlyAfterLeaving
  <1>2. QED
    BY <1>1, ClientInvariance, PTL

(* ChClient's listener erases no vehicle at the end of a group, unless a    *)
(* vehicle has left the world: the groups name all that was sent before.    *)
THEOREM DroppedAfterLeaving == ClientSpec => DroppedOnlyAfterLeaving
  <1>1. ASSUME ClientIInv, [ClientNext]_allVars, NEW n \in Programs
        PROVE  worldVehicles[n] \subseteq worldVehicles'[n] \/ SomeoneLeft(n)
    <2>1. CASE Listener(n)
      <3>1. SomeoneLeft(n)' => SomeoneLeft(n)
        BY <2>1 DEF Listener, ListenVehicle, ListenEnd, ListenId, Listening, ClientRead,
                    worldVars, SomeoneLeft
      <3>2. QED
        BY <1>1, <2>1, <3>1, ListenerKeeps
    <2>2. CASE ~ Listener(n)
      <3>1. UNCHANGED worldVehicles[n]
        <4>1. CASE UNCHANGED clientVars
          BY <4>1 DEF clientVars
        <4>2. ASSUME NEW m \in Programs, m # n, Listener(m) \/ MainLoop(m) \/ Kill(m)
              PROVE  UNCHANGED worldVehicles[n]
          BY <1>1, <4>2, ProgramsAreApart DEF ClientIInv
        <4>3. CASE MainLoop(n) \/ Kill(n)
          BY <4>3 DEF MainLoop, SendOwn, BeginFollow, CopyVehicle, StepFollow,
             UseErasedVehicle, BeginDrop, DropVehicle, Advance, Leave, Destroy, Kill
        <4>4. QED
          BY <1>1, <2>2, <4>1, <4>2, <4>3 DEF ClientNext, Program, allVars, clientVars
      <3>2. QED
        BY <3>1
    <2>3. QED
      BY <2>1, <2>2
  <1>2. ClientIInv /\ [ClientNext]_allVars
          => [\A n \in Programs :
                worldVehicles[n] \subseteq worldVehicles'[n] \/ SomeoneLeft(n)]_allVars
    BY <1>1
  <1>3. QED
    BY <1>2, ClientInvariance, PTL DEF ClientSpec, DroppedOnlyAfterLeaving

-----------------------------------------------------------------------------
(* The lidar and the driver of the autonomous client.                       *)

(* A scan follows the last step of the loop in time, and shows in the rays. *)
ScanIsFresh == stage = "advance" => age < Period
ScanIsRead == scene # NoScan =>
                 \A r \in Rays : rays[r].length = Min({scene[rays[r].bearing], FullRange})

(* A ray that has touched an obstacle has no length that would point.       *)
TouchedHasNoReach == \A r \in Rays : rays[r].length = 0 <=> rays[r].reach = 0

(* The first request to slow down shuts the throttle but for the rest, and  *)
(* the second brakes.                                                       *)
Strong(out) == out <= Threshold - Full
SlowsThenBrakes ==
    Strong(outputs[2]) =>
        /\ driver.throttle <= Threshold
        /\ Strong(outputs[1]) => driver.throttle = 0 /\ driver.braking = -outputs[2]

IsSynchronized ==
    stage # "inputs" => inputs = [throttle |-> driver.throttle, braking |-> driver.braking]

LidarInv == /\ LidarTypeOK
            /\ ScanIsFresh /\ ScanIsRead /\ TouchedHasNoReach
            /\ SlowsThenBrakes /\ IsSynchronized

-----------------------------------------------------------------------------
(* The least and the greatest                                               *)

(* The lesser of two numbers.                                              *)
LEMMA MinOfTwo ==
  ASSUME NEW a \in Int, NEW b \in Int
  PROVE  Min({a, b}) = IF a <= b THEN a ELSE b
  BY DEF Min

(* The greater of two numbers.                                             *)
LEMMA MaxOfTwo ==
  ASSUME NEW a \in Int, NEW b \in Int
  PROVE  Max({a, b}) = IF a <= b THEN b ELSE a
  BY DEF Max

(* A set of integers with a lower bound has a least one.                    *)
LEMMA MinOfBounded ==
  ASSUME NEW S \in SUBSET Int, S # {}, NEW b \in Int, \A n \in S : b <= n
  PROVE  Min(S) \in S
  <1> DEFINE N == {n - b : n \in S}
  <1>1. N \in SUBSET Nat /\ N # {}
    <2>1. \A n \in S : n - b \in Nat
      OBVIOUS
    <2>2. PICK n \in S : TRUE
      OBVIOUS
    <2>3. QED
      BY <2>1, <2>2
  <1>2. PICK k \in N : \A l \in N : k <= l
    <2> DEFINE R == {ss \in Nat \X Nat : ss[1] < ss[2]}
    <2>1. IsWellFoundedOn(R, Nat)
      BY NatLessThanWellFounded, Zenon DEF OpToRel
    <2>2. \A x, y \in Nat : y < x => <<y, x>> \in R
      OBVIOUS
    <2> HIDE DEF R, N
    <2>3. PICK k \in N : \A j \in N : ~ (<<j, k>> \in R)
      BY <1>1, <2>1, WFMin
    <2>4. \A j \in N : k \in Nat /\ j \in Nat /\ ~(j < k)
      BY <1>1, <2>2, <2>3
    <2>5. \A j \in N : k <= j
      BY <2>4
    <2>6. QED
      BY <2>5
  <1>3. PICK m \in S : k = m - b
    OBVIOUS
  <1>4. \A n \in S : m <= n
    <2> TAKE n \in S
    <2>1. n - b \in N
      OBVIOUS
    <2>2. m - b <= n - b /\ m \in Int /\ n \in Int
      BY <1>2, <1>3, <2>1
    <2> HIDE DEF N
    <2>3. QED
      BY <2>2
  <1>5. QED
    BY <1>4 DEF Min

(* There is a longest simulation step.                                     *)
LEMMA Longest ==
  Max(StepSizes) \in StepSizes /\ \A step \in StepSizes : step <= Max(StepSizes)
  <1>1. PICK longest \in StepSizes : \A step \in StepSizes : step <= longest
    BY LidarAssumption
  <1>2. StepSizes \subseteq Int
    BY LidarAssumption
  <1>3. QED
    BY <1>1, <1>2 DEF Max

(* The controller's output is held between full brake and full throttle.   *)
LEMMA ClampIs ==
  ASSUME NEW out \in Outputs
  PROVE  Clamp(out) \in (-Full .. Full)
  <1>1. out \in Int /\ Full \in Int /\ -Full \in Int /\ Full = 5
    BY LidarAssumption DEF Full
  <1>2. Min({out, Full}) \in Int /\ Min({out, Full}) <= Full
    BY <1>1, MinOfTwo
  <1>3. QED
    BY <1>1, <1>2, MaxOfTwo DEF Clamp

-----------------------------------------------------------------------------
(* The rays                                                                 *)
RayRecords == [length : -1 .. FullRange, reach : 0 .. FullRange, bearing : Bearings]

(* The range of the lidar is positive.                                     *)
LEMMA FullRangeIs == FullRange \in Nat \ {0}
  BY LidarAssumption DEF FullRange

(* The lidar has a ray.                                                    *)
LEMMA SomeRay == <<0, 0>> \in Rays
  BY LidarAssumption DEF Rays, Samples

(* What a scan of scene' makes of a ray                                     *)
LEMMA RayIs ==
  ASSUME NEW ray \in RayRecords, scene' \in Scenes
  PROVE  LET new == UpdateRay(SetLength(ray, FullRange)) IN
         /\ new \in RayRecords
         /\ new.bearing = IF ray.reach = 0 THEN Ahead ELSE ray.bearing
         /\ new.length = Min({scene'[new.bearing], FullRange})
         /\ new.length = new.reach
  <1> DEFINE b == IF ray.reach = 0 THEN Ahead ELSE ray.bearing
             full == SetLength(ray, FullRange)
             near == scene'[b]
  <1>1. b \in Bearings /\ near \in 0 .. FullRange + 1 /\ FullRange \in Nat \ {0}
    BY FullRangeIs DEF RayRecords, Bearings, Scenes
  <1>2. full = [length |-> FullRange, reach |-> FullRange, bearing |-> b]
    BY DEF SetLength
  <1> HIDE DEF full, b, near
  <1>3. Min({near, FullRange}) = IF near <= FullRange THEN near ELSE FullRange
    BY <1>1, MinOfTwo
  <1>4. CASE near <= FullRange
    <2>1. UpdateRay(full) = [length |-> near, reach |-> near, bearing |-> b]
      BY <1>1, <1>2, <1>4 DEF UpdateRay, Hit, SetLength, near
    <2>2. near \in 0 .. FullRange /\ near \in -1 .. FullRange
      BY <1>1, <1>4
    <2> DEFINE new == UpdateRay(full)
    <2>3. new.length = near /\ new.reach = near /\ new.bearing = b
      BY <2>1
    <2>4. new \in RayRecords
      BY <1>1, <2>1, <2>2 DEF RayRecords
    <2> HIDE DEF new
    <2>5. new.length = Min({scene'[new.bearing], FullRange})
      BY <1>3, <1>4, <2>3 DEF near
    <2>6. QED
      BY <2>3, <2>4, <2>5 DEF full, b, new
  <1>5. CASE ~(near <= FullRange)
    <2>1. UpdateRay(full) = full
      BY <1>2, <1>5 DEF UpdateRay, Hit, near
    <2> DEFINE new == UpdateRay(full)
    <2>2. new.length = FullRange /\ new.reach = FullRange /\ new.bearing = b
      BY <1>2, <2>1
    <2>3. new \in RayRecords
      <3>1. FullRange \in -1 .. FullRange /\ FullRange \in 0 .. FullRange
        BY <1>1
      <3>2. QED
        BY <1>1, <1>2, <2>1, <3>1 DEF RayRecords
    <2> HIDE DEF new
    <2>4. new.length = Min({scene'[new.bearing], FullRange})
      BY <1>3, <1>5, <2>2 DEF near
    <2>5. QED
      BY <2>2, <2>3, <2>4 DEF full, b, new
  <1>6. QED
    BY <1>4, <1>5

(* The driver is told a distance in range, or one less when nothing was     *)
(* scanned yet.                                                             *)
LEMMA DistanceIs ==
  ASSUME NEW rs \in [Rays -> RayRecords]
  PROVE  GetMinRange(rs) \in Min({MinRange - 1, 3}) .. Max({MaxRange, 3})
  <1> DEFINE S == {rs[r].length : r \in Rays}
  <1>1. \A r \in Rays : rs[r].length \in -1 .. FullRange
    BY DEF RayRecords
  <1>2. S \in SUBSET Int /\ S # {} /\ \A n \in S : -1 <= n /\ n <= FullRange
    BY <1>1, SomeRay, FullRangeIs
  <1> HIDE DEF S
  <1>3. Min(S) \in Int /\ -1 <= Min(S) /\ Min(S) <= FullRange
    <2>1. -1 \in Int /\ \A n \in S : -1 <= n
      BY <1>2
    <2>2. Min(S) \in S
      BY <1>2, <2>1, MinOfBounded
    <2>3. QED
      BY <1>2, <2>2
  <1>4. MinRange \in Int /\ MaxRange \in Int /\ FullRange = MaxRange - MinRange
    BY LidarAssumption DEF FullRange
  <1>5. GetMinRange(rs) = MinRange + Min(S)
    BY DEF GetMinRange, S
  <1>6. Max({MaxRange, 3}) \in Int /\ MaxRange <= Max({MaxRange, 3})
    BY <1>4, MaxOfTwo
  <1>7. Min({MinRange - 1, 3}) \in Int /\ Min({MinRange - 1, 3}) <= MinRange - 1
    BY <1>4, MinOfTwo
  <1>8. QED
    BY <1>3, <1>4, <1>5, <1>6, <1>7

-----------------------------------------------------------------------------
(* The steps                                                                *)

(* Before the first scan every ray is at full range.                       *)
LEMMA LidarInitHolds == LidarInit => LidarInv
  <1> SUFFICES ASSUME LidarInit PROVE LidarInv
    OBVIOUS
  <1>1. \A r \in Rays : rays[r] = [length |-> -1, reach |-> FullRange, bearing |-> r]
    BY DEF LidarInit, AddRay, SetPoints, NewRay
  <1>2. rays \in [Rays -> RayRecords]
    <2>1. ASSUME NEW r \in Rays PROVE rays[r] \in RayRecords
      <3>1. -1 \in -1 .. FullRange /\ FullRange \in 0 .. FullRange /\ r \in Bearings
        BY FullRangeIs DEF Bearings
      <3>2. [length |-> -1, reach |-> FullRange, bearing |-> r] \in RayRecords
        BY <3>1 DEF RayRecords
      <3>3. QED
        BY <1>1, <3>2
    <2>2. rays = [r \in Rays |-> rays[r]]
      BY DEF LidarInit
    <2>3. QED
      BY <2>1, <2>2
  <1>3. age \in 0 .. Period + Max(StepSizes) - 1
    <2>1. Max(StepSizes) \in Nat \ {0} /\ Period \in Nat \ {0}
      BY Longest, LidarAssumption
    <2>2. QED
      BY <2>1 DEF LidarInit
  <1>4. driver.currentDistance \in Min({MinRange - 1, 3}) .. Max({MaxRange, 3})
    <2>1. MinRange \in Int /\ MaxRange \in Int /\ MinRange < MaxRange
      BY LidarAssumption
    <2>2. Max({MaxRange, 3}) \in Int /\ MaxRange <= Max({MaxRange, 3}) /\ 3 <= Max({MaxRange, 3})
      BY <2>1, MaxOfTwo
    <2>3. Min({MinRange - 1, 3}) \in Int /\ Min({MinRange - 1, 3}) <= 3
      BY <2>1, MinOfTwo
    <2>4. QED
      BY <2>2, <2>3 DEF LidarInit
  <1>5. LidarTypeOK
    BY <1>2, <1>3, <1>4 DEF LidarInit, LidarTypeOK, RayRecords, Full
  <1>6. TouchedHasNoReach
    <2>1. FullRange # 0 /\ -1 # 0
      BY FullRangeIs
    <2>2. ASSUME NEW r \in Rays PROVE rays[r].length = -1 /\ rays[r].reach = FullRange
      <3>1. rays[r] = [length |-> -1, reach |-> FullRange, bearing |-> r]
        BY <1>1
      <3>2. QED
        BY <3>1
    <2>3. QED
      BY <2>1, <2>2 DEF TouchedHasNoReach
  <1>7. ScanIsFresh /\ ScanIsRead /\ SlowsThenBrakes /\ IsSynchronized
    BY DEF LidarInit, ScanIsFresh, ScanIsRead, SlowsThenBrakes, IsSynchronized, Strong, Threshold, Full
  <1>8. QED
    BY <1>5, <1>6, <1>7 DEF LidarInv

(* A scan, or none                                                          *)
LEMMA UpdateKeeps ==
  ASSUME LidarTypeOK, ScanIsRead, TouchedHasNoReach, Update
  PROVE  /\ rays' \in [Rays -> RayRecords] /\ scene' \in Scenes \cup {NoScan}
         /\ age' \in Nat /\ age' < Period
         /\ ScanIsRead' /\ TouchedHasNoReach'
  <1>1. rays \in [Rays -> RayRecords] /\ age \in Nat /\ Period \in Nat \ {0}
    <2>1. Max(StepSizes) \in Nat /\ Period \in Nat \ {0}
      BY Longest, LidarAssumption
    <2>2. QED
      BY <2>1 DEF LidarTypeOK, RayRecords
  <1>2. CASE age >= Period
    <2>1. scene' \in Scenes /\ rays' = Scan /\ age' = 0
      BY <1>2 DEF Update
    <2>2. \A r \in Rays : rays'[r] = UpdateRay(SetLength(rays[r], FullRange))
      BY <2>1 DEF Scan
    <2>3. \A r \in Rays : /\ rays'[r] \in RayRecords
                          /\ rays'[r].length = Min({scene'[rays'[r].bearing], FullRange})
                          /\ rays'[r].length = rays'[r].reach
      <3>1. ASSUME NEW r \in Rays
            PROVE  LET new == UpdateRay(SetLength(rays[r], FullRange)) IN
                   /\ new \in RayRecords
                   /\ new.length = Min({scene'[new.bearing], FullRange})
                   /\ new.length = new.reach
        <4>1. rays[r] \in RayRecords
          BY <1>1
        <4>2. QED
          BY <2>1, <4>1, RayIs
      <3>2. QED
        BY <2>2, <3>1
    <2>4. rays' \in [Rays -> RayRecords]
      <3>1. rays' = [r \in Rays |-> rays'[r]]
        BY <2>1 DEF Scan
      <3>2. QED
        BY <2>3, <3>1
    <2>5. ScanIsRead' /\ TouchedHasNoReach'
      BY <2>3 DEF ScanIsRead, TouchedHasNoReach
    <2>6. QED
      BY <1>1, <2>1, <2>4, <2>5
  <1>3. CASE ~(age >= Period)
    <2>1. UNCHANGED lidarVars
      BY <1>3 DEF Update
    <2>2. QED
      BY <1>1, <1>3, <2>1 DEF LidarTypeOK, lidarVars, ScanIsRead, TouchedHasNoReach
  <1>4. QED
    BY <1>2, <1>3

(* A scan is read whole, and a ray that meets something has its length.    *)
LEMMA SenseKeeps ==
  ASSUME LidarInv, Sense
  PROVE  LidarInv'
  <1>1. /\ rays' \in [Rays -> RayRecords] /\ scene' \in Scenes \cup {NoScan}
        /\ age' \in Nat /\ age' < Period /\ ScanIsRead' /\ TouchedHasNoReach'
    BY UpdateKeeps DEF LidarInv, Sense
  <1>2. age' \in 0 .. Period + Max(StepSizes) - 1
    <2>1. Max(StepSizes) \in Nat \ {0} /\ Period \in Nat \ {0}
      BY Longest, LidarAssumption
    <2>2. QED
      BY <1>1, <2>1
  <1> DEFINE d == GetMinRange(rays')
  <1>3. d \in Min({MinRange - 1, 3}) .. Max({MaxRange, 3})
    BY <1>1, DistanceIs
  <1>4. driver' = [driver EXCEPT !.currentDistance = d]
    BY DEF Sense
  <1> HIDE DEF d
  <1>5. /\ driver' \in [throttle : 0 .. Full, braking : 0 .. Full,
                        currentDistance : Min({MinRange - 1, 3}) .. Max({MaxRange, 3}),
                        lookAhead : Distances \cup {0}]
        /\ driver'.throttle = driver.throttle /\ driver'.braking = driver.braking
    BY <1>3, <1>4 DEF LidarInv, LidarTypeOK
  <1>6. LidarTypeOK'
    BY <1>1, <1>2, <1>5 DEF LidarInv, LidarTypeOK, Sense, Stage, RayRecords
  <1>7. ScanIsFresh'
    BY <1>1 DEF ScanIsFresh
  <1>8. SlowsThenBrakes' /\ IsSynchronized'
    BY <1>5 DEF LidarInv, SlowsThenBrakes, IsSynchronized, Sense, Stage
  <1>9. QED
    BY <1>1, <1>6, <1>7, <1>8 DEF LidarInv

(* The pedals for an output of the speed controller                         *)
LEMMA PedalsAre ==
  ASSUME NEW out \in -Full .. Full, driver.throttle \in 0 .. Full
  PROVE  /\ Pedals(out).throttle \in 0 .. Full /\ Pedals(out).braking \in 0 .. Full
         /\ Strong(out) => /\ Pedals(out).throttle <= Threshold
                           /\ driver.throttle <= Threshold =>
                                 Pedals(out).throttle = 0 /\ Pedals(out).braking = -out
  <1>1. Full = 5 /\ Threshold = 1
    BY DEF Full, Threshold
  <1>2. CASE out > 0
    BY <1>1, <1>2 DEF Pedals, Strong
  <1>3. CASE ~(out > 0) /\ driver.throttle > Threshold
    BY <1>1, <1>3 DEF Pedals, Strong
  <1>4. CASE ~(out > 0) /\ ~(driver.throttle > Threshold)
    BY <1>1, <1>4 DEF Pedals, Strong
  <1>5. QED
    BY <1>2, <1>3, <1>4

(* The driver reads the last scan, whatever it decides.                    *)
LEMMA AdvanceKeeps ==
  ASSUME LidarInv, AdvanceDriver
  PROVE  LidarInv'
  <1>1. PICK out \in Outputs, distance \in Distances, step \in StepSizes :
          /\ driver' = [driver EXCEPT !.throttle = Pedals(Clamp(out)).throttle,
                                      !.braking = Pedals(Clamp(out)).braking,
                                      !.lookAhead = distance]
          /\ outputs' = <<outputs[2], Clamp(out)>>
          /\ age' = age + step
    BY DEF AdvanceDriver
  <1> DEFINE c == Clamp(out)
             throttle == Pedals(c).throttle
             braking == Pedals(c).braking
  <1>2. c \in -Full .. Full
    BY ClampIs
  <1> HIDE DEF c
  <1>3. /\ throttle \in 0 .. Full /\ braking \in 0 .. Full
        /\ Strong(c) => /\ throttle <= Threshold
                        /\ driver.throttle <= Threshold => throttle = 0 /\ braking = -c
    <2>1. driver.throttle \in 0 .. Full
      BY DEF LidarInv, LidarTypeOK
    <2>2. QED
      BY <1>2, <2>1, PedalsAre
  <1>4. driver' = [driver EXCEPT !.throttle = throttle, !.braking = braking, !.lookAhead = distance]
    BY <1>1 DEF c
  <1> HIDE DEF throttle, braking
  <1>5. /\ driver' \in [throttle : 0 .. Full, braking : 0 .. Full,
                        currentDistance : Min({MinRange - 1, 3}) .. Max({MaxRange, 3}),
                        lookAhead : Distances \cup {0}]
        /\ driver'.throttle = throttle /\ driver'.braking = braking
    BY <1>3, <1>4 DEF LidarInv, LidarTypeOK
  <1>6. /\ outputs' \in (-Full .. Full) \X (-Full .. Full)
        /\ outputs'[1] = outputs[2] /\ outputs'[2] = c
    BY <1>1, <1>2 DEF LidarInv, LidarTypeOK, c
  <1>7. age' \in 0 .. Period + Max(StepSizes) - 1
    <2>1. age \in Nat /\ age < Period
      <3>1. Max(StepSizes) \in Nat /\ Period \in Nat
        BY Longest, LidarAssumption
      <3>2. QED
        BY <3>1 DEF LidarInv, LidarTypeOK, ScanIsFresh, AdvanceDriver, Stage
    <2>2. /\ step \in Nat \ {0} /\ Max(StepSizes) \in Nat /\ step <= Max(StepSizes) /\ Period \in Nat
      BY Longest, LidarAssumption
    <2>3. QED
      BY <1>1, <2>1, <2>2
  <1>8. LidarTypeOK'
    BY <1>5, <1>6, <1>7 DEF LidarInv, LidarTypeOK, AdvanceDriver, Stage
  <1>9. SlowsThenBrakes'
    BY <1>3, <1>5, <1>6 DEF LidarInv, SlowsThenBrakes
  <1>10. ScanIsFresh' /\ IsSynchronized' /\ ScanIsRead' /\ TouchedHasNoReach'
    BY DEF LidarInv, AdvanceDriver, Stage, ScanIsFresh, IsSynchronized, ScanIsRead, TouchedHasNoReach
  <1>11. QED
    BY <1>8, <1>9, <1>10 DEF LidarInv

(* Each step keeps the invariant.                                          *)
LEMMA LidarStep ==
  ASSUME LidarInv, [LidarNext]_followerVars
  PROVE  LidarInv'
  <1>1. CASE UNCHANGED followerVars
    BY <1>1 DEF followerVars, lidarVars, driverVars, LidarInv, LidarTypeOK, ScanIsFresh, ScanIsRead,
                TouchedHasNoReach, SlowsThenBrakes, IsSynchronized
  <1>2. CASE Synchronize
    <2>1. inputs' \in [throttle : 0 .. Full, braking : 0 .. Full]
      BY <1>2 DEF Synchronize, LidarInv, LidarTypeOK
    <2>2. LidarTypeOK'
      BY <1>2, <2>1 DEF Synchronize, Stage, lidarVars, driverVars, LidarInv, LidarTypeOK
    <2>3. QED
      BY <1>2, <2>2 DEF Synchronize, Stage, lidarVars, driverVars, LidarInv, ScanIsFresh, ScanIsRead,
                        TouchedHasNoReach, SlowsThenBrakes, IsSynchronized
  <1>3. CASE SetTarget
    <2>1. LidarTypeOK'
      BY <1>3 DEF SetTarget, Stage, lidarVars, LidarInv, LidarTypeOK
    <2>2. QED
      BY <1>3, <2>1 DEF SetTarget, Stage, lidarVars, LidarInv, ScanIsFresh, ScanIsRead,
                        TouchedHasNoReach, SlowsThenBrakes, IsSynchronized
  <1>4. QED
    BY <1>1, <1>2, <1>3, SenseKeeps, AdvanceKeeps DEF LidarNext

(* The inductive invariant of the lidar and the driver.                     *)
THEOREM LidarInvariance == LidarSpec => []LidarInv
  BY LidarInitHolds, LidarStep, PTL DEF LidarSpec

(* For rays, ranges and scenes of any number and size: when the driver      *)
(* advances, each ray reads the obstacle of the last scan, however near the *)
(* one before was.                                                          *)
THEOREM RaysReadTheLastScan == LidarSpec => []ReadsTheLastScan
  <1>1. LidarInv => ReadsTheLastScan
    BY DEF LidarInv, ReadsTheLastScan, ScanIsFresh, ScanIsRead
  <1>2. QED
    BY <1>1, LidarInvariance, PTL

(* The vehicle brakes when it is asked to slow down a second time.          *)
THEOREM TheSecondTimeBrakes == LidarSpec => []BrakesTheSecondTime
  <1>1. LidarInv => BrakesTheSecondTime
    BY DEF LidarInv, LidarTypeOK, BrakesTheSecondTime, SlowsThenBrakes, IsSynchronized, Strong
  <1>2. QED
    BY <1>1, LidarInvariance, PTL

(* A ray turns at the scan after a touch, and to the front.                 *)
THEOREM TouchTurnsAhead == LidarSpec => TurnsAheadAfterATouch
  <1> DEFINE Turns(r) ==
        /\ rays[r].bearing # rays'[r].bearing => rays[r].length = 0 /\ rays'[r].bearing = Ahead
        /\ rays[r].length = 0 /\ rays'[r] # rays[r] => rays'[r].bearing = Ahead
  <1>1. LidarInv /\ [LidarNext]_followerVars => [\A r \in Rays : Turns(r)]_followerVars
    <2> SUFFICES ASSUME LidarInv, [LidarNext]_followerVars, NEW r \in Rays
                 PROVE  Turns(r)
      OBVIOUS
    <2>1. CASE rays' = rays
      BY <2>1
    <2>2. CASE rays' # rays
      <3>1. Update
        BY <2>2 DEF LidarNext, Synchronize, SetTarget, Sense, AdvanceDriver, followerVars, lidarVars
      <3>2. scene' \in Scenes /\ rays' = Scan
        BY <2>2, <3>1 DEF Update, lidarVars
      <3>3. rays[r] \in RayRecords
        BY DEF LidarInv, LidarTypeOK, RayRecords
      <3>4. rays'[r] = UpdateRay(SetLength(rays[r], FullRange))
        BY <3>2 DEF Scan
      <3>5. rays'[r].bearing = IF rays[r].reach = 0 THEN Ahead ELSE rays[r].bearing
        BY <3>2, <3>3, <3>4, RayIs
      <3>6. rays[r].length = 0 <=> rays[r].reach = 0
        BY DEF LidarInv, TouchedHasNoReach
      <3>7. QED
        BY <3>5, <3>6
    <2>3. QED
      BY <2>1, <2>2
  <1>2. QED
    BY <1>1, LidarInvariance, PTL DEF LidarSpec, TurnsAheadAfterATouch
=============================================

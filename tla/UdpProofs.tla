------------------------------ MODULE UdpProofs ------------------------------
(***************************************************************************)
(* The programs that talk by udp.  What the network handlers keep, for any *)
(* number of messages and wherever the destructor overtakes the threads:   *)
(* what the listener hands on was received, unless the handler is being    *)
(* destroyed; the socket's mutex is held for one call only; a server's     *)
(* queue is dumped when it is empty.  And what the two example servers do  *)
(* to their clients, for any number of them.                               *)
(***************************************************************************)
EXTENDS NetworkHandler, BasicUdp, BasicVehicle, SequenceTheorems, TLAPS

(* The types, each thread's place spelled out.                             *)
Typed ==
    /\ kind \in {"server", "client"} /\ owner \in OwnerPcs
    /\ pc \in [Threads -> UNION {ThreadPcs[t] : t \in Threads}]
    /\ pc["acceptor"] \in {"none", "start", "asleep", "loop", "accept", "request", "done"}
    /\ pc["listener"] \in {"none", "test", "lock", "asleep", "receive", "enqueue", "done"}
    /\ pc["sender"] \in {"none", "test", "dequeue", "block", "blocked", "lock", "asleep",
                         "send", "done"}
    /\ socketMutex \in Threads \cup {NoThread}
    /\ open \in BOOLEAN /\ shutdown \in BOOLEAN /\ dump \in BOOLEAN /\ junk \in BOOLEAN
    /\ pushed \in Nat /\ taken \in Nat /\ sent \in Nat
    /\ sent <= taken /\ taken <= pushed /\ pushed <= MaxMessages
    /\ status \in {"running", "terminated", "undefined"}

(* What was passed on and not received tells of the destructor.            *)
Received == junk => owner \notin {"construct", "notify", "running"}

(* The socket is open from the constructor's end to the destructor's       *)
(* begin, and no thread but the acceptor has begun before.                 *)
OpenWhileAlive ==
    /\ owner \in {"notify", "running"} => open
    /\ owner \in {"construct", "notify", "running"} => ~shutdown
    /\ owner \in {"construct", "notify"} => pc["listener"] = "none"

(* A message the sender carries has been taken, and has not been sent.     *)
Carried == pc["sender"] \in {"lock", "asleep", "send"} => sent < taken

(* Who owns the mutex is inside receive_from, or inside send_to: every     *)
(* other step of every thread leaves it free.                              *)
HeldForOneCall ==
    /\ socketMutex = "listener" <=> pc["listener"] = "receive"
    /\ socketMutex = "sender" <=> pc["sender"] = "send"
    /\ socketMutex # "acceptor"

(* The server's destructor goes on to shutdown, and to dumpThreads, when   *)
(* every reply has been taken from the queue, and none is added.           *)
DumpedEmpty ==
    kind = "server" /\ owner \notin {"construct", "notify", "running", "close", "joinAcceptor", "drain"}
        => taken = pushed

IInv == /\ Typed /\ Received /\ OpenWhileAlive
        /\ Carried /\ HeldForOneCall /\ DumpedEmpty

-----------------------------------------------------------------------------
(* So spelled out, the types are those of TypeOK.                          *)
LEMMA TypedIsTypeOK == Typed => TypeOK
  BY DEF Typed, TypeOK, ThreadPcs, Threads

(* A handler before its constructor.                                       *)
LEMMA IInvInit == Init => IInv
  <1> SUFFICES ASSUME Init PROVE IInv
    OBVIOUS
  <1>1. open \in BOOLEAN /\ shutdown \in BOOLEAN /\ dump \in BOOLEAN /\ junk \in BOOLEAN
    BY DEF Init
  <1>2. pc \in [Threads -> UNION {ThreadPcs[t] : t \in Threads}]
    BY DEF Init, Threads, ThreadPcs
  <1>3. Typed
    BY <1>1, <1>2, KindAssumption, HandlerAssumption DEF Init, Typed, Threads, OwnerPcs
  <1>4. QED
    BY <1>3, KindAssumption, HandlerAssumption
    DEF Init, IInv, Received, OpenWhileAlive, Carried, HeldForOneCall, DumpedEmpty, Threads

USE HandlerAssumption

(* The constructor's steps.                                                *)
LEMMA ConstructorKeeps == IInv /\ Constructor => IInv'
  <1> USE DEF IInv, Typed, Received, OpenWhileAlive, Carried, HeldForOneCall,
          DumpedEmpty, Threads, OwnerPcs, ThreadPcs, OwnerStep, Goto, Step, socketVars, queueVars
  <1> SUFFICES ASSUME IInv, Constructor PROVE IInv'
    OBVIOUS
  <1>1. CASE Construct
    BY <1>1 DEF Construct
  <1>2. CASE ConstructFails
    BY <1>2 DEF ConstructFails
  <1>3. CASE NotifyInit
    BY <1>3 DEF NotifyInit
  <1>4. QED
    BY <1>1, <1>2, <1>3 DEF Constructor

(* What the program does.                                                  *)
LEMMA ProgramKeeps == IInv /\ Program => IInv'
  <1> USE DEF IInv, Typed, Received, OpenWhileAlive, Carried, HeldForOneCall,
          DumpedEmpty, Threads, OwnerPcs, ThreadPcs, OwnerStep, Goto, Step, socketVars, queueVars
  <1> SUFFICES ASSUME IInv, Program PROVE IInv'
    OBVIOUS
  <1>1. CASE BeginListen
    BY <1>1 DEF BeginListen
  <1>2. CASE BeginSend
    BY <1>2 DEF BeginSend
  <1>3. CASE PushMessage
    BY <1>3 DEF PushMessage
  <1>4. CASE Destroy
    BY <1>4 DEF Destroy
  <1>5. QED
    BY <1>1, <1>2, <1>3, <1>4 DEF Program

(* The destructors' steps.                                                 *)
LEMMA DestructorKeeps == IInv /\ Destructor => IInv'
  <1> USE DEF IInv, Typed, Received, OpenWhileAlive, Carried, HeldForOneCall,
          DumpedEmpty, Threads, OwnerPcs, ThreadPcs, OwnerStep, Goto, Step, socketVars, queueVars
  <1> SUFFICES ASSUME IInv, Destructor PROVE IInv'
    OBVIOUS
  <1>1. CASE CloseFirst
    <2>1. open' \in BOOLEAN /\ ~open'
      BY <1>1 DEF CloseFirst
    <2>2. QED
      BY <1>1, <2>1 DEF CloseFirst
  <1>2. CASE JoinAcceptor
    BY <1>2 DEF JoinAcceptor
  <1>3. CASE Drain
    BY <1>3 DEF Drain
  <1>4. CASE SetShutdown
    BY <1>4 DEF SetShutdown
  <1>5. CASE Dump
    BY <1>5 DEF Dump
  <1>6. CASE DumpNotify
    BY <1>6 DEF DumpNotify
  <1>7. CASE CloseAgain
    <2>1. open' \in BOOLEAN /\ ~open'
      BY <1>7 DEF CloseAgain
    <2>2. QED
      BY <1>7, <2>1 DEF CloseAgain
  <1>8. CASE DestroyMembers
    BY <1>8 DEF DestroyMembers
  <1>9. CASE DestroyBase
    <2>1. open' \in BOOLEAN /\ ~open' /\ shutdown' \in BOOLEAN
      BY <1>9 DEF DestroyBase
    <2>2. QED
      BY <1>9, <2>1 DEF DestroyBase
  <1>10. CASE JoinListener
    BY <1>10 DEF JoinListener
  <1>11. CASE JoinSender
    BY <1>11 DEF JoinSender
  <1>12. QED
    BY <1>1, <1>2, <1>3, <1>4, <1>5, <1>6, <1>7, <1>8, <1>9, <1>10, <1>11 DEF Destructor

(* The acceptor's.                                                         *)
LEMMA AcceptorKeeps ==
  IInv /\ (AcceptorStart \/ AcceptorLoop \/ InitSpurious("acceptor", "start")) => IInv'
  <1> USE DEF IInv, Typed, Received, OpenWhileAlive, Carried, HeldForOneCall,
          DumpedEmpty, Threads, OwnerPcs, ThreadPcs, OwnerStep, Goto, Step, socketVars, queueVars
  <1> SUFFICES ASSUME IInv, AcceptorStart \/ AcceptorLoop \/ InitSpurious("acceptor", "start")
               PROVE  IInv'
    OBVIOUS
  <1>1. CASE AcceptorStart
    BY <1>1 DEF AcceptorStart, AwaitOpen
  <1>2. CASE Loop("acceptor", "loop", "accept")
    BY <1>2 DEF Loop
  <1>3. CASE AcceptorAccept
    BY <1>3 DEF AcceptorAccept
  <1>4. CASE AcceptorRequest
    BY <1>4 DEF AcceptorRequest
  <1>5. CASE InitSpurious("acceptor", "start")
    BY <1>5 DEF InitSpurious
  <1>6. QED
    BY <1>1, <1>2, <1>3, <1>4, <1>5 DEF AcceptorLoop

(* The listener's.  It hands on what it has not received only if the       *)
(* socket is closed, or will be.                                           *)
LEMMA ListenerKeeps ==
  IInv /\ (ListenerLock \/ ListenerLoop \/ InitSpurious("listener", "lock")) => IInv'
  <1> USE DEF IInv, Typed, Received, OpenWhileAlive, Carried, HeldForOneCall,
          DumpedEmpty, Threads, OwnerPcs, ThreadPcs, OwnerStep, Goto, Step, socketVars, queueVars
  <1> SUFFICES ASSUME IInv, ListenerLock \/ ListenerLoop \/ InitSpurious("listener", "lock")
               PROVE  IInv'
    OBVIOUS
  <1>1. CASE ListenerLock
    BY <1>1 DEF ListenerLock, AwaitOpen
  <1>2. CASE Loop("listener", "test", "lock")
    BY <1>2 DEF Loop
  <1>3. CASE ListenerReceive
    <2>1. PICK result \in {"data", "would_block", "closed"} :
             /\ result = "closed" <=> ~open
             /\ IF result = "would_block" /\ open /\ ~shutdown
                  THEN Goto("listener", "lock") /\ UNCHANGED junk
                  ELSE Goto("listener", "enqueue") /\ junk' = (junk \/ result # "data")
      BY <1>3 DEF ListenerReceive
    <2>2. pc["listener"] = "receive" /\ socketMutex' = NoThread
          /\ UNCHANGED <<kind, owner, open, shutdown, dump, pushed, taken, sent, status>>
      BY <1>3 DEF ListenerReceive
    <2>3. CASE result = "would_block" /\ open /\ ~shutdown
      BY <2>1, <2>2, <2>3
    <2>4. CASE ~(result = "would_block" /\ open /\ ~shutdown)
      <3>1. junk' => junk \/ ~open \/ shutdown
        BY <2>1, <2>4
      <3>2. Goto("listener", "enqueue") /\ junk' \in BOOLEAN
        BY <2>1, <2>4
      <3>3. QED
        BY <2>2, <3>1, <3>2
    <2>5. QED
      BY <2>3, <2>4
  <1>4. CASE ListenerEnqueue
    BY <1>4 DEF ListenerEnqueue
  <1>5. CASE InitSpurious("listener", "lock")
    BY <1>5 DEF InitSpurious
  <1>6. QED
    BY <1>1, <1>2, <1>3, <1>4, <1>5 DEF ListenerLoop

(* The sender's.                                                           *)
LEMMA SenderKeeps ==
  IInv /\ (SenderLock \/ SenderLoop \/ InitSpurious("sender", "lock") \/ SenderSpurious) => IInv'
  <1> USE DEF IInv, Typed, Received, OpenWhileAlive, Carried, HeldForOneCall,
          DumpedEmpty, Threads, OwnerPcs, ThreadPcs, OwnerStep, Goto, Step, socketVars, queueVars
  <1> SUFFICES ASSUME IInv,
                      SenderLock \/ SenderLoop \/ InitSpurious("sender", "lock") \/ SenderSpurious
               PROVE  IInv'
    OBVIOUS
  <1>1. CASE SenderLock
    BY <1>1 DEF SenderLock, AwaitOpen
  <1>2. CASE Loop("sender", "test", "dequeue")
    BY <1>2 DEF Loop
  <1>3. CASE SenderDequeue
    BY <1>3 DEF SenderDequeue
  <1>4. CASE SenderBlock \/ SenderSpurious
    BY <1>4 DEF SenderBlock, SenderSpurious
  <1>5. CASE SenderSend
    BY <1>5 DEF SenderSend
  <1>6. CASE InitSpurious("sender", "lock")
    BY <1>6 DEF InitSpurious
  <1>7. QED
    BY <1>1, <1>2, <1>3, <1>4, <1>5, <1>6 DEF SenderLoop

(* So every step keeps the invariant.                                      *)
LEMMA IInvStep == IInv /\ [Next]_vars => IInv'
  <1> SUFFICES ASSUME IInv, [Next]_vars PROVE IInv'
    OBVIOUS
  <1>1. CASE UNCHANGED vars
    BY <1>1 DEF vars, IInv, Typed, Received, OpenWhileAlive, Carried,
                HeldForOneCall, DumpedEmpty
  <1>2. CASE Next
    BY <1>2, ConstructorKeeps, ProgramKeeps, DestructorKeeps, AcceptorKeeps, ListenerKeeps,
       SenderKeeps DEF Next, Spurious
  <1>3. QED
    BY <1>1, <1>2

(* The invariant of the handlers.                                          *)
LEMMA Invariance == Spec => []IInv
  BY IInvInit, IInvStep, PTL DEF Spec

(* Until the handler is destroyed, the program is given what was received, *)
(* and never a buffer that receive_from did not fill in.                   *)
THEOREM JunkAtTheEnd == Spec => []JunkOnlyAtTheEnd
  <1>1. IInv => JunkOnlyAtTheEnd
    BY TypedIsTypeOK DEF IInv, JunkOnlyAtTheEnd, Received
  <1>2. QED
    BY <1>1, Invariance, PTL

(* No thread keeps the socket's mutex beyond the call it needs it for, so  *)
(* none is kept from it for longer.                                        *)
THEOREM MutexForOneCall == Spec => []HeldForOneCall
  BY Invariance, PTL DEF IInv

(* ~ChServerHandler loses no reply to dumpThreads: when the queue is told  *)
(* to dump, the sender has taken all that was ever put into it.            *)
THEOREM NoReplyIsDumped == Spec => []DumpedEmpty
  BY Invariance, PTL DEF IInv

-----------------------------------------------------------------------------
(* The example that asks its operator                                      *)

(* The operator's input is untouched only until the first text is asked    *)
(* for: when the next one is, words of a person have been read from it.    *)
FreshForTheFirst == stage = "text" /\ cin = "empty" => texts = 0

AskInv == UdpTypeOK /\ texts <= 1 /\ FreshForTheFirst

(* A reply leaves the replies of their type.                               *)
LEMMA ReplyIsTyped ==
  ASSUME UdpTypeOK, remote # NoAsker, NEW reply \in {"text", "empty", "person"}, Reply(reply)
  PROVE  replies' \in [Askers -> SUBSET {"text", "empty", "person"}]
  BY DEF UdpTypeOK, Reply

(* Every step of the two programs keeps it.                                *)
LEMMA AskInvKept == AskInv /\ [UdpNext]_udpVars => AskInv'
  <1> SUFFICES ASSUME AskInv, [UdpNext]_udpVars PROVE AskInv'
    OBVIOUS
  <1> USE DEF AskInv, FreshForTheFirst
  <1>1. ASSUME NEW a \in Askers, Ask(a) PROVE AskInv'
    <2>1. requests' \in Seq(Askers)
      BY <1>1 DEF Ask, UdpTypeOK
    <2>2. QED
      BY <1>1, <2>1 DEF Ask, AskerStep, UdpTypeOK
  <1>2. ASSUME NEW a \in Askers, ReceiveReply(a) PROVE AskInv'
    <2>1. replies' \in [Askers -> SUBSET {"text", "empty", "person"}]
      BY <1>2 DEF ReceiveReply, UdpTypeOK
    <2>2. asker' \in [Askers -> {"send", "first", "second", "done"}]
      BY <1>2 DEF ReceiveReply, AskerStep, UdpTypeOK
    <2>3. QED
      BY <1>2, <2>1, <2>2 DEF ReceiveReply, UdpTypeOK
  <1>3. CASE ReceiveRequest
    <2>1. remote' \in Askers /\ requests' \in Seq(Askers)
      BY <1>3, HeadTailProperties DEF ReceiveRequest, UdpTypeOK
    <2>2. QED
      BY <1>3, <2>1 DEF ReceiveRequest, UdpTypeOK
  <1>4. CASE SendText
    <2>1. replies' \in [Askers -> SUBSET {"text", "empty", "person"}]
      BY <1>4, ReplyIsTyped DEF SendText
    <2>2. QED
      BY <1>4, <2>1 DEF SendText, UdpTypeOK
  <1>5. CASE SendPerson
    <2>1. replies' \in [Askers -> SUBSET {"text", "empty", "person"}]
      BY <1>5, ReplyIsTyped DEF SendPerson
    <2>2. QED
      BY <1>5, <2>1 DEF SendPerson, UdpTypeOK
  <1>6. CASE UNCHANGED udpVars
    BY <1>6 DEF udpVars, UdpTypeOK
  <1>7. QED
    BY <1>1, <1>2, <1>3, <1>4, <1>5, <1>6 DEF UdpNext, UdpServer

(* For any number of clients, and any datagrams lost or overtaken, no more *)
(* than one of them is sent a text that its operator typed.                *)
THEOREM TextsRunOut == UdpSpec => []OnlyTheFirstGetsAText
  <1>1. UdpInit => AskInv
    BY EmptySeq DEF UdpInit, AskInv, FreshForTheFirst, UdpTypeOK
  <1>2. AskInv => OnlyTheFirstGetsAText
    BY DEF AskInv, OnlyTheFirstGetsAText
  <1>3. QED
    BY <1>1, <1>2, AskInvKept, PTL DEF UdpSpec

-----------------------------------------------------------------------------
(* The example that starts a thread                                        *)

HeardTwice == \E i, j \in DOMAIN heard : i < j /\ heard[i] = heard[j]

(* An endpoint is known because a datagram of it was taken,                *)
KnownWasHeard == Range(endpoints) \subseteq Range(heard)

(* and no thread runs but for a second one.                                *)
ThreadInv ==
    /\ VehicleTypeOK /\ KnownWasHeard
    /\ threads = Len(heard) - Len(endpoints)
    /\ threads > 0 => HeardTwice
    /\ shown > 0 => threads > 0

(* What was appended is in the range, with all that was there.             *)
LEMMA AppendedRange ==
  ASSUME NEW S, NEW q \in Seq(S), NEW e \in S
  PROVE  Range(Append(q, e)) = Range(q) \cup {e}
  <1>1. /\ Len(q) \in Nat /\ DOMAIN q = 1 .. Len(q)
        /\ DOMAIN Append(q, e) = 1 .. Len(q) + 1 /\ Append(q, e)[Len(q) + 1] = e
        /\ \A i \in 1 .. Len(q) : Append(q, e)[i] = q[i]
    BY AppendProperties, LenProperties
  <1>2. 1 .. Len(q) + 1 = (1 .. Len(q)) \cup {Len(q) + 1}
    BY <1>1
  <1> DEFINE a == Append(q, e)
             n == Len(q)
  <1>3. {a[i] : i \in (1 .. n) \cup {n + 1}} = {a[i] : i \in 1 .. n} \cup {a[n + 1]}
    OBVIOUS
  <1>4. {a[i] : i \in 1 .. n} = {q[i] : i \in 1 .. n}
    BY <1>1
  <1>5. QED
    BY <1>1, <1>2, <1>3, <1>4 DEF Range

(* Who was heard twice has been, whoever is heard next.                    *)
LEMMA TwiceIsKept ==
  ASSUME VehicleTypeOK, NEW e \in Endpoints, heard' = Append(heard, e),
         HeardTwice \/ e \in Range(heard)
  PROVE  HeardTwice'
  <1>1. /\ heard \in Seq(Endpoints) /\ Len(heard) \in Nat
        /\ DOMAIN heard = 1 .. Len(heard) /\ DOMAIN heard' = 1 .. Len(heard) + 1
        /\ \A i \in 1 .. Len(heard) : heard'[i] = heard[i]
        /\ heard'[Len(heard) + 1] = e
    BY DEF VehicleTypeOK
  <1>2. CASE HeardTwice
    BY <1>1, <1>2 DEF HeardTwice
  <1>3. CASE e \in Range(heard)
    <2>1. PICK i \in DOMAIN heard : heard[i] = e
      BY <1>3 DEF Range
    <2>2. i \in DOMAIN heard' /\ Len(heard) + 1 \in DOMAIN heard' /\ i < Len(heard) + 1
      BY <1>1, <2>1
    <2>3. QED
      BY <1>1, <2>1, <2>2 DEF HeardTwice
  <1>4. QED
    BY <1>2, <1>3

(* Every step of the two programs keeps it.                                *)
LEMMA ThreadInvKept == ThreadInv /\ [VehicleNext]_vehicleVars => ThreadInv'
  <1> SUFFICES ASSUME ThreadInv, [VehicleNext]_vehicleVars PROVE ThreadInv'
    OBVIOUS
  <1> USE DEF ThreadInv
  <1>1. ASSUME socket # <<>>
        PROVE  /\ Tail(socket) \in Seq([from : Endpoints, content : Contents])
               /\ Head(socket) \in [from : Endpoints, content : Contents]
    BY <1>1, HeadTailProperties DEF VehicleTypeOK
  <1>2. CASE StartReceive
    <2> DEFINE e == Head(socket).from
    <2>1. e \in Endpoints /\ socket' \in Seq([from : Endpoints, content : Contents])
      BY <1>1, <1>2 DEF StartReceive
    <2>2. /\ heard' = Append(heard, e)
          /\ Recognized(e) => threads' = threads + 1 /\ UNCHANGED <<endpoints, greeted>>
          /\ ~Recognized(e) => /\ endpoints' = Append(endpoints, e)
                              /\ greeted' \in {greeted, greeted \cup {e}}
                              /\ UNCHANGED threads
          /\ UNCHANGED <<sends, shown>>
      BY <1>2 DEF StartReceive
    <2> HIDE DEF e
    <2>3. /\ heard \in Seq(Endpoints) /\ endpoints \in Seq(Endpoints)
          /\ Len(heard) \in Nat /\ Len(endpoints) \in Nat /\ threads \in Nat
          /\ heard' \in Seq(Endpoints) /\ Len(heard') = Len(heard) + 1
      BY <2>1, <2>2 DEF VehicleTypeOK
    <2>4. CASE Recognized(e)
      <3>1. VehicleTypeOK'
        BY <2>1, <2>2, <2>3, <2>4 DEF VehicleTypeOK
      <3>2. Range(heard') = Range(heard) \cup {e} /\ e \in Range(heard)
        BY <2>1, <2>2, <2>3, <2>4, AppendedRange DEF KnownWasHeard, Recognized
      <3>3. KnownWasHeard'
        BY <2>2, <2>4, <3>2 DEF KnownWasHeard
      <3>4. HeardTwice'
        BY <2>1, <2>2, <3>2, TwiceIsKept
      <3>5. threads' = Len(heard') - Len(endpoints') /\ threads' > 0
        BY <2>2, <2>3, <2>4
      <3>6. QED
        BY <3>1, <3>3, <3>4, <3>5
    <2>5. CASE ~Recognized(e)
      <3>1. endpoints' \in Seq(Endpoints) /\ Len(endpoints') = Len(endpoints) + 1
        <4>1. endpoints' = Append(endpoints, e)
          BY <2>2, <2>5
        <4>2. QED
          BY <2>1, <2>3, <4>1, AppendProperties
      <3>2. VehicleTypeOK'
        BY <2>1, <2>2, <2>3, <2>5, <3>1 DEF VehicleTypeOK
      <3>3. Range(heard') = Range(heard) \cup {e} /\ Range(endpoints') = Range(endpoints) \cup {e}
        <4>1. heard' = Append(heard, e) /\ endpoints' = Append(endpoints, e)
          BY <2>2, <2>5
        <4>2. QED
          BY <2>1, <2>3, <4>1, AppendedRange
      <3>4. KnownWasHeard'
        BY <3>3 DEF KnownWasHeard
      <3>5. threads' > 0 => HeardTwice'
        BY <2>1, <2>2, <2>5, TwiceIsKept
      <3>6. threads' = Len(heard') - Len(endpoints') /\ (shown' > 0 => threads' > 0)
        BY <2>2, <2>3, <2>5, <3>1
      <3>7. QED
        BY <3>2, <3>4, <3>5, <3>6
    <2>6. QED
      BY <2>4, <2>5
  <1>3. CASE ReceiveVehicle
    <2>1. VehicleTypeOK'
      BY <1>1, <1>3 DEF ReceiveVehicle, VehicleTypeOK
    <2>2. QED
      BY <1>3, <2>1 DEF ReceiveVehicle, KnownWasHeard, HeardTwice
  <1>4. ASSUME NEW e \in Endpoints, Send(e) PROVE ThreadInv'
    <2>1. socket' \in Seq([from : Endpoints, content : Contents])
      <3>1. ASSUME NEW content \in Contents
            PROVE  Append(socket, [from |-> e, content |-> content])
                       \in Seq([from : Endpoints, content : Contents])
        <4>1. [from |-> e, content |-> content] \in [from : Endpoints, content : Contents]
          OBVIOUS
        <4>2. QED
          BY <4>1, AppendProperties DEF VehicleTypeOK
      <3>2. QED
        BY <1>4, <3>1 DEF Send, VehicleTypeOK
    <2>2. sends' \in [Endpoints -> 0 .. MaxSends]
      BY <1>4, VehicleAssumption DEF Send, VehicleTypeOK
    <2>3. QED
      BY <1>4, <2>1, <2>2 DEF Send, VehicleTypeOK, KnownWasHeard, HeardTwice
  <1>5. CASE UNCHANGED vehicleVars
    BY <1>5 DEF vehicleVars, VehicleTypeOK, KnownWasHeard, HeardTwice
  <1>6. QED
    BY <1>2, <1>3, <1>4, <1>5 DEF VehicleNext

(* For any number of endpoints and datagrams, lost or not, each datagram   *)
(* the listener takes makes an endpoint known or starts a thread, and no   *)
(* vehicle is shown before one endpoint had two of its own taken.          *)
THEOREM NothingShownAtOnce == VehicleSpec => []ShownOnlyAfterAReturn
  <1>1. VehicleInit => ThreadInv
    BY EmptySeq, VehicleAssumption
    DEF VehicleInit, ThreadInv, VehicleTypeOK, KnownWasHeard, HeardTwice, Range
  <1>2. ThreadInv => ShownOnlyAfterAReturn
    BY DEF ThreadInv, ShownOnlyAfterAReturn, HeardTwice
  <1>3. QED
    BY <1>1, <1>2, ThreadInvKept, PTL DEF VehicleSpec
=============================================================================

---------------------------- MODULE NetworkHandler ----------------------------
(***************************************************************************)
(* The life of a ChServerHandler or a ChClientHandler (network-handler/     *)
(* ChNetworkHandler.cpp): the constructor that opens the udp socket, the    *)
(* threads it and beginListen and beginSend start, and the destructor that  *)
(* must end them.  What the messages say is left out; CaveServer has that.  *)
(*                                                                          *)
(* The sender's queue is a ChSafeQueue: of its steps (SafeQueue) those are  *)
(* kept between which the destructor can interfere.  Reading is_open of a   *)
(* socket whose io_service is deleted finds it closed, as the build does.   *)
(***************************************************************************)
EXTENDS Naturals

CONSTANTS
    Kinds,         \* the handlers to look at, of "server" and "client"
    NoThread,      \* the owner of a free mutex
    MaxMessages    \* bound: how many messages the program pushes

Threads == {"acceptor", "listener", "sender"}

ASSUME KindAssumption == Kinds \subseteq {"server", "client"}
ASSUME HandlerAssumption == NoThread \notin Threads /\ MaxMessages \in Nat

VARIABLES
    kind,          \* which of the two classes the handler is of
    owner,         \* where the thread is that makes, uses and destroys it
    pc,            \* where its threads are
    open,          \* socket.is_open()
    socketMutex,   \* the thread that owns it, or NoThread
    shutdown,      \* ChNetworkHandler::shutdown
    dump,          \* sendQueue.dump
    pushed,        \* messages enqueued in sendQueue
    taken,         \* messages dequeued from it
    sent,          \* messages that left through the open socket
    junk,          \* receiveQueue was given what receive did not fill in
    status         \* "running", "terminated" by an exception, or "undefined"

vars == <<kind, owner, pc, open, socketMutex, shutdown, dump, pushed, taken, sent, junk, status>>

socketVars == <<open, socketMutex, shutdown>>
queueVars == <<dump, pushed, taken>>

OwnerPcs == {"construct", "notify", "running", "close", "joinAcceptor", "drain", "shutdown",
             "dump", "dumpNotify", "closeAgain", "members", "base", "joinListener",
             "joinSender", "gone"}

ThreadPcs == [acceptor |-> {"none", "start", "asleep", "loop", "accept", "request", "done"},
              listener |-> {"none", "test", "lock", "asleep", "receive", "enqueue", "done"},
              sender |-> {"none", "test", "dequeue", "block", "blocked", "lock", "asleep",
                          "send", "done"}]

Init ==
    /\ kind \in Kinds
    /\ owner = "construct"
    /\ pc = [t \in Threads |-> IF t = "acceptor" /\ kind = "server" THEN "start" ELSE "none"]
    /\ open = FALSE
    /\ socketMutex = NoThread
    /\ shutdown = FALSE
    /\ dump = FALSE
    /\ pushed = 0 /\ taken = 0 /\ sent = 0
    /\ junk = FALSE
    /\ status = "running"

Goto(t, l) == pc' = [pc EXCEPT ![t] = l]

Step(t, from, to) == pc[t] = from /\ Goto(t, to)

OwnerStep(from, to) == owner = from /\ owner' = to

Alive == owner \notin {"base", "joinListener", "joinSender", "gone"}

-----------------------------------------------------------------------------
(* The constructor: open, bind, non_blocking under the mutex, then notify.  *)

Construct ==
    /\ OwnerStep("construct", "notify")
    /\ socketMutex = NoThread
    /\ open' = TRUE
    /\ UNCHANGED <<kind, pc, socketMutex, shutdown, queueVars, sent, junk, status>>

(* The tcp handshake failed: ConnectionException, and only the members and  *)
(* the base class are left to destroy.                                      *)
ConstructFails ==
    /\ kind = "client" /\ OwnerStep("construct", "members")
    /\ UNCHANGED <<kind, pc, socketVars, queueVars, sent, junk, status>>

(* Mutant: the constructor does not notify.                                 *)
ConstructedQuietly ==
    /\ OwnerStep("notify", "running")
    /\ UNCHANGED <<kind, pc, socketVars, queueVars, sent, junk, status>>

(* initVar.notify_one()                                                     *)
NotifyInit ==
    /\ OwnerStep("notify", "running")
    /\ IF pc["acceptor"] = "asleep" THEN Goto("acceptor", "start") ELSE UNCHANGED pc
    /\ UNCHANGED <<kind, socketVars, queueVars, sent, junk, status>>

-----------------------------------------------------------------------------
(* What the program does with the handler                                   *)

BeginListen ==
    /\ owner = "running" /\ Step("listener", "none", "test")
    /\ UNCHANGED <<kind, owner, socketVars, queueVars, sent, junk, status>>

BeginSend ==
    /\ owner = "running" /\ Step("sender", "none", "test")
    /\ UNCHANGED <<kind, owner, socketVars, queueVars, sent, junk, status>>

(* enqueue, which needs the queue's mutex and wakes the sender              *)
PushMessage ==
    /\ owner = "running" /\ pushed < MaxMessages /\ pc["sender"] # "block"
    /\ pushed' = pushed + 1
    /\ IF pc["sender"] = "blocked" THEN Goto("sender", "dequeue") ELSE UNCHANGED pc
    /\ UNCHANGED <<kind, owner, socketVars, dump, taken, sent, junk, status>>

-----------------------------------------------------------------------------
(* The destructors.  ~ChServerHandler: socket.close, acceptor.join, wait    *)
(* for sendQueue to be empty, shutdown, dumpThreads, socket.close.          *)
(* ~ChClientHandler: shutdown, dumpThreads, socket.close.  Then the members *)
(* go, and ~ChNetworkHandler joins the listener and the sender.             *)

Destroy ==
    /\ OwnerStep("running", IF kind = "server" THEN "close" ELSE "shutdown")
    /\ UNCHANGED <<kind, pc, socketVars, queueVars, sent, junk, status>>

(* Mutant: the destructor leaves the socket open until the queue is empty.  *)
CloseNothingYet ==
    /\ OwnerStep("close", "joinAcceptor")
    /\ UNCHANGED <<kind, pc, socketVars, queueVars, sent, junk, status>>

CloseFirst ==
    /\ OwnerStep("close", "joinAcceptor")
    /\ open' = FALSE
    /\ UNCHANGED <<kind, pc, socketMutex, shutdown, queueVars, sent, junk, status>>

JoinAcceptor ==
    /\ OwnerStep("joinAcceptor", "drain") /\ pc["acceptor"] = "done"
    /\ UNCHANGED <<kind, pc, socketVars, queueVars, sent, junk, status>>

(* while (!sendQueue.empty());                                              *)
Drain ==
    /\ OwnerStep("drain", "shutdown") /\ pushed = taken
    /\ UNCHANGED <<kind, pc, socketVars, queueVars, sent, junk, status>>

SetShutdown ==
    /\ OwnerStep("shutdown", "dump")
    /\ shutdown' = TRUE
    /\ UNCHANGED <<kind, pc, open, socketMutex, queueVars, sent, junk, status>>

Dump ==
    /\ OwnerStep("dump", "dumpNotify")
    /\ dump' = TRUE
    /\ UNCHANGED <<kind, pc, socketVars, pushed, taken, sent, junk, status>>

DumpNotify ==
    /\ OwnerStep("dumpNotify", "closeAgain")
    /\ IF pc["sender"] = "blocked" THEN Goto("sender", "dequeue") ELSE UNCHANGED pc
    /\ UNCHANGED <<kind, socketVars, queueVars, sent, junk, status>>

CloseAgain ==
    /\ OwnerStep("closeAgain", "members")
    /\ open' = FALSE
    /\ UNCHANGED <<kind, pc, socketMutex, shutdown, queueVars, sent, junk, status>>

(* The queues are destroyed: a sender that is inside dequeue is lost.       *)
DestroyMembers ==
    /\ OwnerStep("members", "base")
    /\ status' = IF pc["sender"] \in {"block", "blocked"} THEN "undefined" ELSE status
    /\ UNCHANGED <<kind, pc, socketVars, queueVars, sent, junk>>

(* socket.close, shutdown, delete of the io_service                         *)
DestroyBase ==
    /\ OwnerStep("base", "joinListener")
    /\ open' = FALSE /\ shutdown' = TRUE
    /\ UNCHANGED <<kind, pc, socketMutex, queueVars, sent, junk, status>>

JoinListener ==
    /\ OwnerStep("joinListener", "joinSender") /\ pc["listener"] \in {"none", "done"}
    /\ UNCHANGED <<kind, pc, socketVars, queueVars, sent, junk, status>>

JoinSender ==
    /\ OwnerStep("joinSender", "gone") /\ pc["sender"] \in {"none", "done"}
    /\ UNCHANGED <<kind, pc, socketVars, queueVars, sent, junk, status>>

-----------------------------------------------------------------------------
(* initVar.wait(lock, is_open): with the mutex the thread goes on if the    *)
(* socket is open, and else sleeps until it is notified.  Nobody opens the  *)
(* socket while the thread holds the mutex, so test and sleep are one step. *)
AwaitOpen(t, from, to, Kept) ==
    /\ pc[t] = from /\ socketMutex = NoThread
    /\ IF open THEN Goto(t, to) /\ Kept ELSE Goto(t, "asleep") /\ UNCHANGED socketMutex
    /\ UNCHANGED <<kind, owner, open, shutdown, queueVars, sent, junk, status>>

(* a wakeup of initVar that nobody asked for                                *)
InitSpurious(t, to) ==
    /\ Step(t, "asleep", to)
    /\ UNCHANGED <<kind, owner, socketVars, queueVars, sent, junk, status>>

(* while (socket.is_open() && !shutdown)                                    *)
Loop(t, from, to) ==
    /\ Step(t, from, IF open /\ ~shutdown THEN to ELSE "done")
    /\ UNCHANGED <<kind, owner, socketVars, queueVars, sent, junk, status>>

-----------------------------------------------------------------------------
(* The acceptor sets up its socket and leaves the mutex.                    *)
AcceptorStart == AwaitOpen("acceptor", "start", "loop", UNCHANGED socketMutex)

AcceptorAccept ==
    /\ \E next \in {"loop", "request"} : Step("acceptor", "accept", next)
    /\ UNCHANGED <<kind, owner, socketVars, queueVars, sent, junk, status>>

(* The peer's request is answered, or receive and send throw because the    *)
(* peer is gone, and no handler is there to catch.                          *)
AcceptorRequest ==
    /\ Step("acceptor", "request", "loop")
    /\ status' \in {"running", "terminated"}
    /\ UNCHANGED <<kind, owner, socketVars, queueVars, sent, junk>>

-----------------------------------------------------------------------------
(* The listener: receiveMessage holds the mutex for one attempt at a time.  *)
ListenerLock == AwaitOpen("listener", "lock", "receive", socketMutex' = "listener")

(* Mutant: an attempt that would block is not repeated.                     *)
ListenerReceiveOnce ==
    /\ pc["listener"] = "receive"
    /\ socketMutex' = NoThread
    /\ \E result \in IF open THEN {"data", "would_block"} ELSE {"closed"} :
          Goto("listener", "enqueue") /\ junk' = (junk \/ result # "data")
    /\ UNCHANGED <<kind, owner, open, shutdown, queueVars, sent, status>>

(* One attempt.  It is repeated when it would block, while the socket is    *)
(* open; any other way the loop ends, what was received or not is passed on.*)
ListenerReceive ==
    /\ pc["listener"] = "receive"
    /\ socketMutex' = NoThread
    /\ \E result \in IF open THEN {"data", "would_block"} ELSE {"closed"} :
          IF result = "would_block" /\ open /\ ~shutdown
            THEN Goto("listener", "lock") /\ UNCHANGED junk
            ELSE Goto("listener", "enqueue") /\ junk' = (junk \/ result # "data")
    /\ UNCHANGED <<kind, owner, open, shutdown, queueVars, sent, status>>

(* receiveQueue.enqueue, or the client's queues by the type of message      *)
ListenerEnqueue ==
    /\ Step("listener", "enqueue", "test")
    /\ status' = IF Alive THEN status ELSE "undefined"
    /\ UNCHANGED <<kind, owner, socketVars, queueVars, sent, junk>>

-----------------------------------------------------------------------------
(* The sender: sendQueue.dequeue, then sendMessage.                         *)

SenderDequeue ==
    /\ pc["sender"] = "dequeue"
    /\ IF ~Alive THEN status' = "undefined" /\ UNCHANGED <<pc, taken>>
       ELSE /\ UNCHANGED status
            /\ IF dump THEN Goto("sender", "done") /\ UNCHANGED taken
               ELSE IF pushed = taken THEN Goto("sender", "block") /\ UNCHANGED taken
               ELSE Goto("sender", "lock") /\ taken' = taken + 1
    /\ UNCHANGED <<kind, owner, socketVars, dump, pushed, sent, junk>>

(* it blocks, or its wait ends for no reason                                *)
SenderBlock ==
    /\ Step("sender", "block", "blocked")
    /\ UNCHANGED <<kind, owner, socketVars, queueVars, sent, junk, status>>

SenderSpurious ==
    /\ Step("sender", "blocked", "dequeue")
    /\ UNCHANGED <<kind, owner, socketVars, queueVars, sent, junk, status>>

SenderLock == AwaitOpen("sender", "lock", "send", socketMutex' = "sender")

(* Mutant: the mutex is not released after send_to.                         *)
SenderSendAndKeep ==
    /\ Step("sender", "send", "test")
    /\ sent' = IF open THEN sent + 1 ELSE sent
    /\ UNCHANGED <<kind, owner, socketVars, queueVars, junk, status>>

(* send_to, whose errors are ignored                                        *)
SenderSend ==
    /\ Step("sender", "send", "test")
    /\ socketMutex' = NoThread
    /\ sent' = IF open THEN sent + 1 ELSE sent
    /\ UNCHANGED <<kind, owner, open, shutdown, queueVars, junk, status>>

-----------------------------------------------------------------------------
Constructor == Construct \/ ConstructFails \/ NotifyInit

Program == BeginListen \/ BeginSend \/ PushMessage \/ Destroy

Destructor ==
    \/ CloseFirst \/ JoinAcceptor \/ Drain \/ SetShutdown \/ Dump \/ DumpNotify \/ CloseAgain
    \/ DestroyMembers \/ DestroyBase \/ JoinListener \/ JoinSender

AcceptorLoop == Loop("acceptor", "loop", "accept") \/ AcceptorAccept \/ AcceptorRequest

ListenerLoop == Loop("listener", "test", "lock") \/ ListenerReceive \/ ListenerEnqueue

SenderLoop == Loop("sender", "test", "dequeue") \/ SenderDequeue \/ SenderBlock \/ SenderSend

Spurious ==
    \/ InitSpurious("acceptor", "start") \/ InitSpurious("listener", "lock")
    \/ InitSpurious("sender", "lock") \/ SenderSpurious

Running == status = "running"

Next ==
    /\ Running
    /\ \/ Constructor \/ Program \/ Destructor \/ Spurious
       \/ AcceptorStart \/ AcceptorLoop
       \/ ListenerLock \/ ListenerLoop
       \/ SenderLock \/ SenderLoop

(* Every thread is scheduled, and a mutex that is released again and again  *)
(* is in the end given to each thread that wants it: the listener takes     *)
(* socketMutex for every attempt to receive.  A peer that was accepted      *)
(* sends its request or goes.  The program owes nothing.                    *)
Fairness ==
    /\ WF_vars(Running /\ (Construct \/ NotifyInit)) /\ WF_vars(Running /\ Destructor)
    /\ SF_vars(Running /\ AcceptorStart) /\ WF_vars(Running /\ AcceptorLoop)
    /\ SF_vars(Running /\ ListenerLock) /\ WF_vars(Running /\ ListenerLoop)
    /\ SF_vars(Running /\ SenderLock) /\ WF_vars(Running /\ SenderLoop)

Spec == Init /\ [][Next]_vars /\ Fairness

-----------------------------------------------------------------------------
TypeOK ==
    /\ kind \in {"server", "client"}
    /\ owner \in OwnerPcs
    /\ DOMAIN pc = Threads /\ \A t \in Threads : pc[t] \in ThreadPcs[t]
    /\ socketMutex \in Threads \cup {NoThread}
    /\ {open, shutdown, dump, junk} \subseteq BOOLEAN
    /\ pushed \in 0 .. MaxMessages /\ taken \in 0 .. pushed /\ sent \in 0 .. taken
    /\ status \in {"running", "terminated", "undefined"}

(* The variables keep their types, and until the handler is destroyed,      *)
(* whatever the listener hands on was received: an attempt that finds       *)
(* nothing is repeated.                                                     *)
JunkOnlyAtTheEnd == TypeOK /\ (junk => owner \notin {"construct", "notify", "running"})

(* The acceptor gets past its wait for the open socket, unless the handler  *)
(* is destroyed first: the constructor's one notification reaches it or it  *)
(* is not needed.                                                           *)
AcceptorStarts ==
    pc["acceptor"] = "start" ~> \/ pc["acceptor"] \notin {"start", "asleep"}
                                \/ owner \notin {"construct", "notify", "running"}
                                \/ ~Running

(* A message that is pushed leaves through the socket if somebody called    *)
(* beginSend, unless the handler is destroyed first.                        *)
PushedIsSent ==
    \A n \in 1 .. MaxMessages :
        pushed >= n /\ pc["sender"] # "none" ~> \/ sent >= n
                                                \/ owner # "running"
                                                \/ ~Running

(* A thread whose wait no step of the handler will end: for the socket to   *)
(* open when it has been closed, or for replies to go when the thread that  *)
(* sends them has gone, or was never begun.                                 *)
Stranded ==
    \/ ~open /\ \E t \in Threads : pc[t] = "asleep"
    \/ owner = "drain" /\ taken < pushed /\ pc["sender"] \in {"none", "done"}

(* ChNetworkHandler.h:18-19: the "threads for network communication         *)
(* purposes" are "bound by the lifetime of the ChNetworkHandler".  They are,*)
(* with the one exception of a thread that is stranded: a destructor that   *)
(* has begun ends otherwise, and all the threads before it.                 *)
EndsOrIsStranded ==
    owner \in {"close", "shutdown"} ~> owner = "gone" \/ Stranded \/ ~Running
=============================================================================

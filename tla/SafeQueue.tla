------------------------------ MODULE SafeQueue ------------------------------
(***************************************************************************)
(* ChSafeQueue<T> (network-handler/ChSafeQueue.h): a std::queue guarded by  *)
(* a mutex and a condition variable, shared by the threads that enqueue     *)
(* (Producers), the threads that loop on dequeue (Consumers: the sender     *)
(* thread of a handler, the worker and the main thread of the server) and   *)
(* the thread that calls dumpThreads (Closer: a handler's destructor).      *)
(*                                                                          *)
(* A step is what one thread does between two points where another thread   *)
(* can observe or disturb it.  dump is a plain bool that is read in         *)
(* enqueue, and written in dumpThreads, without the mutex.                  *)
(***************************************************************************)
EXTENDS Naturals, Sequences

CONSTANTS
    Producers,   \* threads that call enqueue
    Consumers,   \* threads that call dequeue in a loop
    Closer,      \* the thread that calls dumpThreads, once
    NoThread,    \* the owner of a free mutex
    NoItem,      \* the content of a consumer's copy before it has one
    MaxSends     \* bound: how many items one producer enqueues

ASSUME ThreadAssumption ==
    /\ Consumers # {}
    /\ Producers \cap Consumers = {}
    /\ Closer \notin Producers \cup Consumers
    /\ NoThread \notin Producers \cup Consumers

ASSUME ItemAssumption == MaxSends \in Nat /\ NoItem \notin Producers \X (1 .. MaxSends)

Threads == Producers \cup Consumers \cup {Closer}
Items == Producers \X (1 .. MaxSends)

VARIABLES
    queue,       \* ChSafeQueue::queue
    mutex,       \* ChSafeQueue::mutex: the thread that owns it, or NoThread
    waiters,     \* ChSafeQueue::var: the consumers blocked in it
    dump,        \* ChSafeQueue::dump
    pc,          \* where each thread is
    copy,        \* dequeue's local obj: the copy of the front element
    sent,        \* how many items each producer has begun to enqueue
    delivered,   \* history: the items dequeue has returned, in order
    late         \* history: calls of each thread that went through after dump

vars == <<queue, mutex, waiters, dump, pc, copy, sent, delivered, late>>

ProducerPcs == {"idle", "enqLock", "enqPush", "enqNotify", "threw"}
ConsumerPcs == {"idle", "deqLock", "deqTest", "deqBlock", "waiting", "deqCheck",
                "deqCopy", "deqPop", "deqThrow", "threw"}
CloserPcs == {"idle", "dumpNotify", "done"}

Init ==
    /\ queue = <<>>
    /\ mutex = NoThread
    /\ waiters = {}
    /\ dump = FALSE
    /\ pc = [t \in Threads |-> "idle"]
    /\ copy = [c \in Consumers |-> NoItem]
    /\ sent = [p \in Producers |-> 0]
    /\ delivered = <<>>
    /\ late = [t \in Producers \cup Consumers |-> 0]

Goto(t, l) == pc' = [pc EXCEPT ![t] = l]

CountLate(t) == late' = IF dump THEN [late EXCEPT ![t] = @ + 1] ELSE late

Lock(t) == mutex = NoThread /\ mutex' = t

Unlock == mutex' = NoThread

(* condition_variable::notify_one: some blocked thread, if there is one,    *)
(* leaves the wait and goes for the mutex again; the caller moves on to l.  *)
NotifyOneAndGoto(t, l) ==
    \/ /\ waiters = {}
       /\ Goto(t, l)
       /\ UNCHANGED waiters
    \/ \E c \in waiters :
          /\ waiters' = waiters \ {c}
          /\ pc' = [pc EXCEPT ![t] = l, ![c] = "deqLock"]

-----------------------------------------------------------------------------
(* enqueue                                                                  *)

(* Mutant: enqueue without its test of dump.                                *)
EnqueueBeginUntested(p) ==
    /\ pc[p] = "idle" /\ sent[p] < MaxSends
    /\ sent' = [sent EXCEPT ![p] = @ + 1]
    /\ Goto(p, "enqLock")
    /\ UNCHANGED <<queue, mutex, waiters, dump, copy, delivered, late>>

(* if (dump) throw PredicateException() -- before the mutex is taken        *)
EnqueueBegin(p) ==
    /\ pc[p] = "idle" /\ sent[p] < MaxSends
    /\ sent' = [sent EXCEPT ![p] = @ + 1]
    /\ Goto(p, IF dump THEN "threw" ELSE "enqLock")
    /\ UNCHANGED <<queue, mutex, waiters, dump, copy, delivered, late>>

EnqueueLock(p) ==
    /\ pc[p] = "enqLock"
    /\ Lock(p)
    /\ Goto(p, "enqPush")
    /\ UNCHANGED <<queue, waiters, dump, copy, sent, delivered, late>>

(* Mutant: a stack where the queue should be.                               *)
EnqueuePushInFront(p) ==
    /\ pc[p] = "enqPush"
    /\ queue' = <<<<p, sent[p]>>>> \o queue
    /\ CountLate(p)
    /\ Unlock
    /\ Goto(p, "enqNotify")
    /\ UNCHANGED <<waiters, dump, copy, sent, delivered>>

EnqueuePush(p) ==
    /\ pc[p] = "enqPush"
    /\ queue' = Append(queue, <<p, sent[p]>>)
    /\ CountLate(p)
    /\ Unlock
    /\ Goto(p, "enqNotify")
    /\ UNCHANGED <<waiters, dump, copy, sent, delivered>>

(* Mutant: enqueue without notify_one.                                      *)
EnqueueWithoutNotify(p) ==
    /\ pc[p] = "enqNotify"
    /\ Goto(p, "idle")
    /\ UNCHANGED <<queue, mutex, waiters, dump, copy, sent, delivered, late>>

EnqueueNotify(p) ==
    /\ pc[p] = "enqNotify"
    /\ NotifyOneAndGoto(p, "idle")
    /\ UNCHANGED <<queue, mutex, dump, copy, sent, delivered, late>>

-----------------------------------------------------------------------------
(* dequeue                                                                  *)

DequeueBegin(c) ==
    /\ pc[c] = "idle"
    /\ Goto(c, "deqLock")
    /\ UNCHANGED <<queue, mutex, waiters, dump, copy, sent, delivered, late>>

(* the constructor of unique_lock, or wait taking the mutex back            *)
DequeueLock(c) ==
    /\ pc[c] = "deqLock"
    /\ Lock(c)
    /\ Goto(c, "deqTest")
    /\ UNCHANGED <<queue, waiters, dump, copy, sent, delivered, late>>

(* the predicate of var.wait: !queue.empty() || dump                        *)
DequeueTest(c) ==
    /\ pc[c] = "deqTest"
    /\ Goto(c, IF queue # <<>> \/ dump THEN "deqCheck" ELSE "deqBlock")
    /\ UNCHANGED <<queue, mutex, waiters, dump, copy, sent, delivered, late>>

(* var.wait releases the mutex and blocks, in one step                      *)
DequeueBlock(c) ==
    /\ pc[c] = "deqBlock"
    /\ waiters' = waiters \cup {c}
    /\ Unlock
    /\ Goto(c, "waiting")
    /\ UNCHANGED <<queue, dump, copy, sent, delivered, late>>

(* a condition variable may wake a thread nobody notified                   *)
SpuriousWakeup(c) ==
    /\ pc[c] = "waiting"
    /\ waiters' = waiters \ {c}
    /\ Goto(c, "deqLock")
    /\ UNCHANGED <<queue, mutex, dump, copy, sent, delivered, late>>

(* if (dump) { lock.unlock(); ... }                                         *)
DequeueCheck(c) ==
    /\ pc[c] = "deqCheck"
    /\ IF dump THEN Unlock /\ Goto(c, "deqThrow")
               ELSE UNCHANGED mutex /\ Goto(c, "deqCopy")
    /\ UNCHANGED <<queue, waiters, dump, copy, sent, delivered, late>>

(* var.notify_one(); throw PredicateException()                             *)
DequeueThrow(c) ==
    /\ pc[c] = "deqThrow"
    /\ NotifyOneAndGoto(c, "threw")
    /\ UNCHANGED <<queue, mutex, dump, copy, sent, delivered, late>>

(* queue.front(), which is undefined for an empty queue: no copy then       *)
Front == IF queue = <<>> THEN NoItem ELSE Head(queue)

(* Mutant: the critical section of dequeue ends with the copy.              *)
DequeueCopyAndUnlock(c) ==
    /\ pc[c] = "deqCopy"
    /\ copy' = [copy EXCEPT ![c] = Front]
    /\ Unlock
    /\ Goto(c, "deqPop")
    /\ UNCHANGED <<queue, waiters, dump, sent, delivered, late>>

(* T* obj = new T(queue.front())                                            *)
DequeueCopy(c) ==
    /\ pc[c] = "deqCopy"
    /\ copy' = [copy EXCEPT ![c] = Front]
    /\ Goto(c, "deqPop")
    /\ UNCHANGED <<queue, mutex, waiters, dump, sent, delivered, late>>

(* Mutant: the copy is a local that is gone when it is returned.            *)
DequeuePopReturnsLocal(c) ==
    /\ pc[c] = "deqPop"
    /\ queue' = Tail(queue)
    /\ delivered' = Append(delivered, NoItem)
    /\ copy' = [copy EXCEPT ![c] = NoItem]
    /\ CountLate(c)
    /\ Unlock
    /\ Goto(c, "idle")
    /\ UNCHANGED <<waiters, dump, sent>>

(* queue.pop(); return *obj                                                 *)
DequeuePop(c) ==
    /\ pc[c] = "deqPop"
    /\ queue' = Tail(queue)
    /\ delivered' = Append(delivered, copy[c])
    /\ copy' = [copy EXCEPT ![c] = NoItem]
    /\ CountLate(c)
    /\ Unlock
    /\ Goto(c, "idle")
    /\ UNCHANGED <<waiters, dump, sent>>

-----------------------------------------------------------------------------
(* dumpThreads                                                              *)

DumpSet ==
    /\ pc[Closer] = "idle"
    /\ dump' = TRUE
    /\ Goto(Closer, "dumpNotify")
    /\ UNCHANGED <<queue, mutex, waiters, copy, sent, delivered, late>>

DumpNotify ==
    /\ pc[Closer] = "dumpNotify"
    /\ pc' = [t \in Threads |-> IF t = Closer THEN "done"
                                ELSE IF t \in waiters THEN "deqLock" ELSE pc[t]]
    /\ waiters' = {}
    /\ UNCHANGED <<queue, mutex, dump, copy, sent, delivered, late>>

-----------------------------------------------------------------------------
Enqueue(p) == EnqueueLock(p) \/ EnqueuePush(p) \/ EnqueueNotify(p)

Dequeue(c) ==
    \/ DequeueBegin(c) \/ DequeueLock(c) \/ DequeueTest(c) \/ DequeueBlock(c)
    \/ DequeueCheck(c) \/ DequeueThrow(c) \/ DequeueCopy(c) \/ DequeuePop(c)

Next ==
    \/ \E p \in Producers : EnqueueBegin(p) \/ Enqueue(p)
    \/ \E c \in Consumers : Dequeue(c) \/ SpuriousWakeup(c)
    \/ DumpSet \/ DumpNotify

(* A thread that can take a step eventually does; nobody has to call        *)
(* enqueue or dumpThreads, and a wakeup nobody asked for need not come.     *)
Fairness ==
    /\ \A p \in Producers : WF_vars(Enqueue(p))
    /\ \A c \in Consumers : WF_vars(Dequeue(c))
    /\ WF_vars(DumpNotify)

Spec == Init /\ [][Next]_vars /\ Fairness

-----------------------------------------------------------------------------
TypeOK ==
    /\ queue \in Seq(Items)
    /\ mutex \in Producers \cup Consumers \cup {NoThread}
    /\ waiters \in SUBSET Consumers
    /\ dump \in BOOLEAN
    /\ pc \in [Threads -> ProducerPcs \cup ConsumerPcs \cup CloserPcs]
    /\ \A p \in Producers : pc[p] \in ProducerPcs
    /\ \A c \in Consumers : pc[c] \in ConsumerPcs
    /\ pc[Closer] \in CloserPcs
    /\ copy \in [Consumers -> Items \cup {NoItem}]
    /\ sent \in [Producers -> 0 .. MaxSends]
    /\ \A p \in Producers : pc[p] \in {"enqLock", "enqPush"} => sent[p] > 0
    /\ delivered \in Seq(Items)
    /\ late \in [Producers \cup Consumers -> Nat]

(* An item in the queue is never forgotten: until dumpThreads is called,    *)
(* while the queue holds something there is a consumer that is not blocked  *)
(* (and will test the predicate before it blocks), or a producer that has   *)
(* pushed and not yet notified.  The notify_one of enqueue comes after the  *)
(* unlock, so a consumer may run in between.                                *)
NoItemForgotten ==
    queue # <<>> /\ ~dump =>
        \/ \E c \in Consumers : pc[c] # "waiting"
        \/ \E p \in Producers : pc[p] = "enqNotify"

(* The element that queue.pop() removes is the one that was copied a line   *)
(* before, whatever the other threads did in between.                       *)
PopRemovesTheCopy ==
    \A c \in Consumers : pc[c] = "deqPop" => queue # <<>> /\ copy[c] = Head(queue)

(* After dump is set no thread goes through enqueue or dequeue more than    *)
(* once: at most the call that had passed its test already completes.       *)
OneCallAfterDump == \A t \in Producers \cup Consumers : late[t] <= 1

(* The queue implements the abstract one: exactly once, in order, and not   *)
(* left untaken while the queue is open.                                    *)
Abstract == INSTANCE FifoQueue WITH contents <- queue, taken <- delivered, closed <- dump
ImplementsFifo == Abstract!Spec
=============================================================================

--------------------------- MODULE SafeQueueProofs ---------------------------
(***************************************************************************)
(* What ChSafeQueue guarantees for any number of producers and consumers:   *)
(* the invariants that the runs of SafeQueue check on small instances, and  *)
(* the safety part of the refinement of FifoQueue.                          *)
(***************************************************************************)
EXTENDS SafeQueue, TLAPS

Workers == Producers \cup Consumers

(* The places where a thread owns the mutex.                                *)
Critical == {"enqPush", "deqTest", "deqBlock", "deqCheck", "deqCopy", "deqPop"}

MutexOwner == \A t \in Workers : pc[t] \in Critical <=> mutex = t

WaitersBlocked == \A c \in Consumers : c \in waiters <=> pc[c] = "waiting"

(* What a consumer has learned about the queue under the mutex it still     *)
(* holds: a consumer that is about to block saw it empty, one that is about *)
(* to check dump saw an element unless dump was set.                        *)
WhatTheHolderSaw ==
    \A c \in Consumers :
        /\ pc[c] = "deqBlock" => queue = <<>>
        /\ pc[c] = "deqCheck" => queue # <<>> \/ dump
        /\ pc[c] = "deqCopy" => queue # <<>>

(* late counts from the moment dump is set, and a call that was counted has *)
(* left the part of the code that a later call cannot reach.                *)
LateCalls ==
    /\ ~dump => \A t \in Workers : late[t] = 0
    /\ \A t \in Workers : late[t] <= 1
    /\ \A p \in Producers : late[p] = 1 => pc[p] \in {"idle", "enqNotify", "threw"}
    /\ \A c \in Consumers : late[c] = 1 => pc[c] \notin {"deqCopy", "deqPop"}

IInv == /\ TypeOK /\ MutexOwner /\ WaitersBlocked /\ WhatTheHolderSaw
        /\ PopRemovesTheCopy /\ NoItemForgotten /\ LateCalls

(* The initial state satisfies the inductive invariant.                     *)
LEMMA InitIInv == Init => IInv
  <1> SUFFICES ASSUME Init PROVE IInv
    OBVIOUS
  <1> USE ThreadAssumption, ItemAssumption DEF Init
  <1>1. TypeOK
    <2>1. queue \in Seq(Items) /\ delivered \in Seq(Items)
      OBVIOUS
    <2>2. /\ pc \in [Threads -> ProducerPcs \cup ConsumerPcs \cup CloserPcs]
          /\ \A t \in Threads : pc[t] = "idle"
      BY DEF ProducerPcs
    <2>3. /\ copy \in [Consumers -> Items \cup {NoItem}]
          /\ sent \in [Producers -> 0 .. MaxSends]
          /\ late \in [Workers -> Nat]
      BY DEF Workers
    <2>4. QED
      BY <2>1, <2>2, <2>3
         DEF TypeOK, Threads, Workers, ProducerPcs, ConsumerPcs, CloserPcs
  <1>2. MutexOwner /\ WaitersBlocked /\ WhatTheHolderSaw
    BY DEF MutexOwner, WaitersBlocked, WhatTheHolderSaw, Workers, Critical, Threads
  <1>3. PopRemovesTheCopy /\ NoItemForgotten /\ LateCalls
    BY DEF PopRemovesTheCopy, NoItemForgotten, LateCalls, Workers, Threads
  <1>4. QED
    BY <1>1, <1>2, <1>3 DEF IInv

(* notify_one moves the caller on and changes at most one other thread,     *)
(* which leaves the wait set for the mutex.                                 *)
LEMMA NotifyOne ==
  ASSUME TypeOK, WaitersBlocked, NEW t \in Workers, NEW l \in ProducerPcs \cup ConsumerPcs,
         pc[t] # "waiting", NotifyOneAndGoto(t, l)
  PROVE  /\ pc' \in [Threads -> ProducerPcs \cup ConsumerPcs \cup CloserPcs]
         /\ pc'[t] = l
         /\ waiters' \subseteq waiters
         /\ \A u \in Threads \ {t} :
               \/ pc'[u] = pc[u] /\ (u \in waiters' <=> u \in waiters)
               \/ pc[u] = "waiting" /\ pc'[u] = "deqLock" /\ u \in Consumers /\ u \notin waiters'
  <1> USE DEF Threads, Workers
  <1>1. CASE waiters = {} /\ Goto(t, l) /\ UNCHANGED waiters
    BY <1>1 DEF Goto, TypeOK
  <1>2. ASSUME NEW c \in waiters, waiters' = waiters \ {c},
               pc' = [pc EXCEPT ![t] = l, ![c] = "deqLock"]
        PROVE  /\ pc' \in [Threads -> ProducerPcs \cup ConsumerPcs \cup CloserPcs]
               /\ pc'[t] = l
               /\ \A u \in Threads \ {t} :
                     \/ pc'[u] = pc[u] /\ (u \in waiters' <=> u \in waiters)
                     \/ /\ pc[u] = "waiting" /\ pc'[u] = "deqLock"
                        /\ u \in Consumers /\ u \notin waiters'
    <2>1. c \in Consumers /\ pc[c] = "waiting" /\ c # t
      BY <1>2 DEF TypeOK, WaitersBlocked
    <2>2. QED
      BY <1>2, <2>1 DEF TypeOK, ConsumerPcs
  <1>3. QED
    BY <1>1, <1>2 DEF NotifyOneAndGoto

(* TypeOK is preserved by every step.                                       *)
LEMMA TypeStep ==
  ASSUME TypeOK, MutexOwner, WaitersBlocked, WhatTheHolderSaw, PopRemovesTheCopy,
         [Next]_vars
  PROVE  TypeOK'
  <1> USE ThreadAssumption, ItemAssumption
      DEF TypeOK, Threads, ProducerPcs, ConsumerPcs, CloserPcs, Goto, Lock, Unlock,
          CountLate
  <1>1. ASSUME NEW p \in Producers, EnqueueBegin(p) PROVE TypeOK'
    BY <1>1 DEF EnqueueBegin
  <1>2. ASSUME NEW p \in Producers, EnqueueLock(p) PROVE TypeOK'
    BY <1>2 DEF EnqueueLock
  <1>3. ASSUME NEW p \in Producers, EnqueuePush(p) PROVE TypeOK'
    <2>1. <<p, sent[p]>> \in Items
      BY <1>3 DEF EnqueuePush, Items
    <2>2. queue' \in Seq(Items)
      BY <1>3, <2>1 DEF EnqueuePush
    <2>3. late' \in [Producers \cup Consumers -> Nat]
      BY <1>3 DEF EnqueuePush
    <2>4. QED
      BY <1>3, <2>2, <2>3 DEF EnqueuePush
  <1>4. ASSUME NEW p \in Producers, EnqueueNotify(p) PROVE TypeOK'
    <2>1. NotifyOneAndGoto(p, "idle") /\ pc[p] # "waiting" /\ p \in Workers
      BY <1>4 DEF EnqueueNotify, Workers
    <2>2. /\ pc' \in [Threads -> ProducerPcs \cup ConsumerPcs \cup CloserPcs]
          /\ pc'[p] = "idle"
          /\ waiters' \subseteq waiters
          /\ \A u \in Threads \ {p} :
                \/ pc'[u] = pc[u]
                \/ pc[u] = "waiting" /\ pc'[u] = "deqLock" /\ u \in Consumers
      BY <2>1, NotifyOne
    <2>3. QED
      BY <1>4, <2>2 DEF EnqueueNotify
  <1>5. ASSUME NEW c \in Consumers, DequeueBegin(c) PROVE TypeOK'
    BY <1>5 DEF DequeueBegin
  <1>6. ASSUME NEW c \in Consumers, DequeueLock(c) PROVE TypeOK'
    BY <1>6 DEF DequeueLock
  <1>7. ASSUME NEW c \in Consumers, DequeueTest(c) PROVE TypeOK'
    BY <1>7 DEF DequeueTest
  <1>8. ASSUME NEW c \in Consumers, DequeueBlock(c) PROVE TypeOK'
    BY <1>8 DEF DequeueBlock
  <1>9. ASSUME NEW c \in Consumers, DequeueCheck(c) PROVE TypeOK'
    <2>1. PICK l \in {"deqThrow", "deqCopy"} : pc' = [pc EXCEPT ![c] = l]
      BY <1>9 DEF DequeueCheck
    <2>2. mutex' \in {mutex, NoThread}
      BY <1>9 DEF DequeueCheck
    <2>3. UNCHANGED <<queue, waiters, dump, copy, sent, delivered, late>>
      BY <1>9 DEF DequeueCheck
    <2>4. QED
      BY <2>1, <2>2, <2>3
  <1>10. ASSUME NEW c \in Consumers, DequeueThrow(c) PROVE TypeOK'
    <2>1. NotifyOneAndGoto(c, "threw") /\ pc[c] # "waiting" /\ c \in Workers
      BY <1>10 DEF DequeueThrow, Workers
    <2>2. /\ pc' \in [Threads -> ProducerPcs \cup ConsumerPcs \cup CloserPcs]
          /\ pc'[c] = "threw"
          /\ waiters' \subseteq waiters
          /\ \A u \in Threads \ {c} :
                \/ pc'[u] = pc[u]
                \/ pc[u] = "waiting" /\ pc'[u] = "deqLock" /\ u \in Consumers
      BY <2>1, NotifyOne
    <2>3. QED
      BY <1>10, <2>2 DEF DequeueThrow
  <1>11. ASSUME NEW c \in Consumers, DequeueCopy(c) PROVE TypeOK'
    <2>1. Front \in Items
      BY <1>11 DEF DequeueCopy, WhatTheHolderSaw, Front, TypeOK
    <2>2. copy' \in [Consumers -> Items \cup {NoItem}]
      BY <1>11, <2>1 DEF DequeueCopy
    <2>3. QED
      BY <1>11, <2>2 DEF DequeueCopy
  <1>12. ASSUME NEW c \in Consumers, DequeuePop(c) PROVE TypeOK'
    <2>1. queue # <<>> /\ copy[c] = Head(queue)
      BY <1>12 DEF DequeuePop, PopRemovesTheCopy
    <2>2. copy[c] \in Items /\ Tail(queue) \in Seq(Items)
      BY <2>1
    <2>3. /\ queue' \in Seq(Items)
          /\ delivered' \in Seq(Items)
          /\ copy' \in [Consumers -> Items \cup {NoItem}]
          /\ late' \in [Producers \cup Consumers -> Nat]
      BY <1>12, <2>2 DEF DequeuePop
    <2>4. QED
      BY <1>12, <2>3 DEF DequeuePop
  <1>13. ASSUME NEW c \in Consumers, SpuriousWakeup(c) PROVE TypeOK'
    BY <1>13 DEF SpuriousWakeup
  <1>14. CASE DumpSet
    BY <1>14 DEF DumpSet
  <1>15. CASE DumpNotify
    BY <1>15 DEF DumpNotify
  <1>16. CASE UNCHANGED vars
    BY <1>16 DEF vars
  <1>17. QED
    BY <1>1, <1>2, <1>3, <1>4, <1>5, <1>6, <1>7, <1>8, <1>9, <1>10, <1>11, <1>12,
       <1>13, <1>14, <1>15, <1>16 DEF Next, Enqueue, Dequeue

(* The mutex has one owner, which is in the critical section.               *)
LEMMA MutexStep ==
  ASSUME IInv, TypeOK', [Next]_vars
  PROVE  MutexOwner'
  <1> USE ThreadAssumption
      DEF IInv, TypeOK, Threads, Workers, Goto, Lock, Unlock, MutexOwner, WaitersBlocked,
          Critical, ProducerPcs, ConsumerPcs
  <1>1. ASSUME NEW p \in Producers, EnqueueBegin(p) PROVE MutexOwner'
    BY <1>1 DEF EnqueueBegin
  <1>2. ASSUME NEW p \in Producers, EnqueueLock(p) PROVE MutexOwner'
    BY <1>2 DEF EnqueueLock
  <1>3. ASSUME NEW p \in Producers, EnqueuePush(p) PROVE MutexOwner'
    BY <1>3 DEF EnqueuePush
  <1>4. ASSUME NEW p \in Producers, EnqueueNotify(p) PROVE MutexOwner'
    <2>1. /\ NotifyOneAndGoto(p, "idle") /\ pc[p] # "waiting" /\ p \in Workers
          /\ "idle" \in ProducerPcs \cup ConsumerPcs
      BY <1>4 DEF EnqueueNotify, ProducerPcs, ConsumerPcs
    <2>2. /\ pc'[p] = "idle"
          /\ waiters' \subseteq waiters
          /\ \A u \in Threads \ {p} :
                \/ pc'[u] = pc[u] /\ (u \in waiters' <=> u \in waiters)
                \/ /\ pc[u] = "waiting" /\ pc'[u] = "deqLock"
                   /\ u \in Consumers /\ u \notin waiters'
      BY <2>1, NotifyOne
    <2>3. mutex' = mutex /\ pc[p] = "enqNotify"
      BY <1>4 DEF EnqueueNotify
    <2>4. ASSUME NEW u \in Workers PROVE pc'[u] \in Critical <=> mutex' = u
      <3>1. CASE u = p
        BY <2>2, <2>3, <3>1
      <3>2. CASE u # p
        <4>1. pc'[u] = pc[u] \/ (pc[u] = "waiting" /\ pc'[u] = "deqLock")
          BY <2>2, <3>2
        <4>2. QED
          BY <2>3, <4>1
      <3>3. QED
        BY <3>1, <3>2
    <2>5. QED
      BY <2>4
  <1>5. ASSUME NEW c \in Consumers, DequeueBegin(c) PROVE MutexOwner'
    BY <1>5 DEF DequeueBegin
  <1>6. ASSUME NEW c \in Consumers, DequeueLock(c) PROVE MutexOwner'
    BY <1>6 DEF DequeueLock
  <1>7. ASSUME NEW c \in Consumers, DequeueTest(c) PROVE MutexOwner'
    BY <1>7 DEF DequeueTest
  <1>8. ASSUME NEW c \in Consumers, DequeueBlock(c) PROVE MutexOwner'
    BY <1>8 DEF DequeueBlock
  <1>9. ASSUME NEW c \in Consumers, DequeueCheck(c) PROVE MutexOwner'
    <2>1. pc[c] = "deqCheck" /\ mutex = c /\ c \in Threads
      BY <1>9 DEF DequeueCheck
    <2>2. CASE dump
      <3>1. mutex' = NoThread /\ pc' = [pc EXCEPT ![c] = "deqThrow"]
        BY <1>9, <2>2 DEF DequeueCheck
      <3>2. QED
        BY <2>1, <3>1
    <2>3. CASE ~dump
      <3>1. mutex' = mutex /\ pc' = [pc EXCEPT ![c] = "deqCopy"]
        BY <1>9, <2>3 DEF DequeueCheck
      <3>2. QED
        BY <2>1, <3>1
    <2>4. QED
      BY <2>2, <2>3
  <1>10. ASSUME NEW c \in Consumers, DequeueThrow(c) PROVE MutexOwner'
    <2>1. /\ NotifyOneAndGoto(c, "threw") /\ pc[c] # "waiting" /\ c \in Workers
          /\ "threw" \in ProducerPcs \cup ConsumerPcs
      BY <1>10 DEF DequeueThrow, ProducerPcs, ConsumerPcs
    <2>2. /\ pc'[c] = "threw"
          /\ waiters' \subseteq waiters
          /\ \A u \in Threads \ {c} :
                \/ pc'[u] = pc[u] /\ (u \in waiters' <=> u \in waiters)
                \/ /\ pc[u] = "waiting" /\ pc'[u] = "deqLock"
                   /\ u \in Consumers /\ u \notin waiters'
      BY <2>1, NotifyOne
    <2>3. mutex' = mutex /\ pc[c] = "deqThrow"
      BY <1>10 DEF DequeueThrow
    <2>4. ASSUME NEW u \in Workers PROVE pc'[u] \in Critical <=> mutex' = u
      <3>1. CASE u = c
        BY <2>2, <2>3, <3>1
      <3>2. CASE u # c
        <4>1. pc'[u] = pc[u] \/ (pc[u] = "waiting" /\ pc'[u] = "deqLock")
          BY <2>2, <3>2
        <4>2. QED
          BY <2>3, <4>1
      <3>3. QED
        BY <3>1, <3>2
    <2>5. QED
      BY <2>4
  <1>11. ASSUME NEW c \in Consumers, DequeueCopy(c) PROVE MutexOwner'
    BY <1>11 DEF DequeueCopy
  <1>12. ASSUME NEW c \in Consumers, DequeuePop(c) PROVE MutexOwner'
    BY <1>12 DEF DequeuePop
  <1>13. ASSUME NEW c \in Consumers, SpuriousWakeup(c) PROVE MutexOwner'
    BY <1>13 DEF SpuriousWakeup
  <1>14. CASE DumpSet
    BY <1>14 DEF DumpSet
  <1>15. CASE DumpNotify
    BY <1>15 DEF DumpNotify
  <1>16. CASE UNCHANGED vars
    BY <1>16 DEF vars
  <1>17. QED
    BY <1>1, <1>2, <1>3, <1>4, <1>5, <1>6, <1>7, <1>8, <1>9, <1>10, <1>11, <1>12, <1>13, <1>14, <1>15, <1>16
       DEF Next, Enqueue, Dequeue

(* The wait set holds exactly the consumers that are blocked.               *)
LEMMA WaitersStep ==
  ASSUME IInv, TypeOK', [Next]_vars
  PROVE  WaitersBlocked'
  <1> USE ThreadAssumption
      DEF IInv, TypeOK, Threads, Workers, Goto, Lock, Unlock, WaitersBlocked
  <1>1. ASSUME NEW p \in Producers, EnqueueBegin(p) PROVE WaitersBlocked'
    BY <1>1 DEF EnqueueBegin
  <1>2. ASSUME NEW p \in Producers, EnqueueLock(p) PROVE WaitersBlocked'
    BY <1>2 DEF EnqueueLock
  <1>3. ASSUME NEW p \in Producers, EnqueuePush(p) PROVE WaitersBlocked'
    BY <1>3 DEF EnqueuePush
  <1>4. ASSUME NEW p \in Producers, EnqueueNotify(p) PROVE WaitersBlocked'
    <2>1. /\ NotifyOneAndGoto(p, "idle") /\ pc[p] # "waiting" /\ p \in Workers
          /\ "idle" \in ProducerPcs \cup ConsumerPcs
      BY <1>4 DEF EnqueueNotify, ProducerPcs, ConsumerPcs
    <2>2. /\ pc'[p] = "idle"
          /\ waiters' \subseteq waiters
          /\ \A u \in Threads \ {p} :
                \/ pc'[u] = pc[u] /\ (u \in waiters' <=> u \in waiters)
                \/ /\ pc[u] = "waiting" /\ pc'[u] = "deqLock"
                   /\ u \in Consumers /\ u \notin waiters'
      BY <2>1, NotifyOne
    <2>3. QED
      BY <1>4, <2>2 DEF EnqueueNotify
  <1>5. ASSUME NEW c \in Consumers, DequeueBegin(c) PROVE WaitersBlocked'
    BY <1>5 DEF DequeueBegin
  <1>6. ASSUME NEW c \in Consumers, DequeueLock(c) PROVE WaitersBlocked'
    BY <1>6 DEF DequeueLock
  <1>7. ASSUME NEW c \in Consumers, DequeueTest(c) PROVE WaitersBlocked'
    BY <1>7 DEF DequeueTest
  <1>8. ASSUME NEW c \in Consumers, DequeueBlock(c) PROVE WaitersBlocked'
    BY <1>8 DEF DequeueBlock
  <1>9. ASSUME NEW c \in Consumers, DequeueCheck(c) PROVE WaitersBlocked'
    BY <1>9 DEF DequeueCheck
  <1>10. ASSUME NEW c \in Consumers, DequeueThrow(c) PROVE WaitersBlocked'
    <2>1. /\ NotifyOneAndGoto(c, "threw") /\ pc[c] # "waiting" /\ c \in Workers
          /\ "threw" \in ProducerPcs \cup ConsumerPcs
      BY <1>10 DEF DequeueThrow, ProducerPcs, ConsumerPcs
    <2>2. /\ pc'[c] = "threw"
          /\ waiters' \subseteq waiters
          /\ \A u \in Threads \ {c} :
                \/ pc'[u] = pc[u] /\ (u \in waiters' <=> u \in waiters)
                \/ /\ pc[u] = "waiting" /\ pc'[u] = "deqLock"
                   /\ u \in Consumers /\ u \notin waiters'
      BY <2>1, NotifyOne
    <2>3. QED
      BY <1>10, <2>2 DEF DequeueThrow
  <1>11. ASSUME NEW c \in Consumers, DequeueCopy(c) PROVE WaitersBlocked'
    BY <1>11 DEF DequeueCopy
  <1>12. ASSUME NEW c \in Consumers, DequeuePop(c) PROVE WaitersBlocked'
    BY <1>12 DEF DequeuePop
  <1>13. ASSUME NEW c \in Consumers, SpuriousWakeup(c) PROVE WaitersBlocked'
    BY <1>13 DEF SpuriousWakeup
  <1>14. CASE DumpSet
    BY <1>14 DEF DumpSet
  <1>15. CASE DumpNotify
    BY <1>15 DEF DumpNotify
  <1>16. CASE UNCHANGED vars
    BY <1>16 DEF vars
  <1>17. QED
    BY <1>1, <1>2, <1>3, <1>4, <1>5, <1>6, <1>7, <1>8, <1>9, <1>10, <1>11, <1>12, <1>13, <1>14, <1>15, <1>16
       DEF Next, Enqueue, Dequeue

(* What the holder of the mutex saw stays true until it lets go.            *)
LEMMA HolderStep ==
  ASSUME IInv, TypeOK', [Next]_vars
  PROVE  WhatTheHolderSaw'
  <1> USE ThreadAssumption
      DEF IInv, TypeOK, Threads, Workers, Goto, Lock, Unlock, MutexOwner, WhatTheHolderSaw,
          Critical, WaitersBlocked
  <1>1. ASSUME NEW p \in Producers, EnqueueBegin(p) PROVE WhatTheHolderSaw'
    BY <1>1 DEF EnqueueBegin
  <1>2. ASSUME NEW p \in Producers, EnqueueLock(p) PROVE WhatTheHolderSaw'
    BY <1>2 DEF EnqueueLock
  <1>3. ASSUME NEW p \in Producers, EnqueuePush(p) PROVE WhatTheHolderSaw'
    BY <1>3 DEF EnqueuePush
  <1>4. ASSUME NEW p \in Producers, EnqueueNotify(p) PROVE WhatTheHolderSaw'
    <2>1. /\ NotifyOneAndGoto(p, "idle") /\ pc[p] # "waiting" /\ p \in Workers
          /\ "idle" \in ProducerPcs \cup ConsumerPcs
      BY <1>4 DEF EnqueueNotify, ProducerPcs, ConsumerPcs
    <2>2. /\ pc'[p] = "idle"
          /\ waiters' \subseteq waiters
          /\ \A u \in Threads \ {p} :
                \/ pc'[u] = pc[u] /\ (u \in waiters' <=> u \in waiters)
                \/ /\ pc[u] = "waiting" /\ pc'[u] = "deqLock"
                   /\ u \in Consumers /\ u \notin waiters'
      BY <2>1, NotifyOne
    <2>3. QED
      BY <1>4, <2>2 DEF EnqueueNotify
  <1>5. ASSUME NEW c \in Consumers, DequeueBegin(c) PROVE WhatTheHolderSaw'
    BY <1>5 DEF DequeueBegin
  <1>6. ASSUME NEW c \in Consumers, DequeueLock(c) PROVE WhatTheHolderSaw'
    BY <1>6 DEF DequeueLock
  <1>7. ASSUME NEW c \in Consumers, DequeueTest(c) PROVE WhatTheHolderSaw'
    BY <1>7 DEF DequeueTest
  <1>8. ASSUME NEW c \in Consumers, DequeueBlock(c) PROVE WhatTheHolderSaw'
    BY <1>8 DEF DequeueBlock
  <1>9. ASSUME NEW c \in Consumers, DequeueCheck(c) PROVE WhatTheHolderSaw'
    BY <1>9 DEF DequeueCheck
  <1>10. ASSUME NEW c \in Consumers, DequeueThrow(c) PROVE WhatTheHolderSaw'
    <2>1. /\ NotifyOneAndGoto(c, "threw") /\ pc[c] # "waiting" /\ c \in Workers
          /\ "threw" \in ProducerPcs \cup ConsumerPcs
      BY <1>10 DEF DequeueThrow, ProducerPcs, ConsumerPcs
    <2>2. /\ pc'[c] = "threw"
          /\ waiters' \subseteq waiters
          /\ \A u \in Threads \ {c} :
                \/ pc'[u] = pc[u] /\ (u \in waiters' <=> u \in waiters)
                \/ /\ pc[u] = "waiting" /\ pc'[u] = "deqLock"
                   /\ u \in Consumers /\ u \notin waiters'
      BY <2>1, NotifyOne
    <2>3. QED
      BY <1>10, <2>2 DEF DequeueThrow
  <1>11. ASSUME NEW c \in Consumers, DequeueCopy(c) PROVE WhatTheHolderSaw'
    BY <1>11 DEF DequeueCopy
  <1>12. ASSUME NEW c \in Consumers, DequeuePop(c) PROVE WhatTheHolderSaw'
    BY <1>12 DEF DequeuePop
  <1>13. ASSUME NEW c \in Consumers, SpuriousWakeup(c) PROVE WhatTheHolderSaw'
    BY <1>13 DEF SpuriousWakeup
  <1>14. CASE DumpSet
    BY <1>14 DEF DumpSet
  <1>15. CASE DumpNotify
    BY <1>15 DEF DumpNotify
  <1>16. CASE UNCHANGED vars
    BY <1>16 DEF vars
  <1>17. QED
    BY <1>1, <1>2, <1>3, <1>4, <1>5, <1>6, <1>7, <1>8, <1>9, <1>10, <1>11, <1>12, <1>13, <1>14, <1>15, <1>16
       DEF Next, Enqueue, Dequeue

(* Between the copy and the pop nobody else touches the front.              *)
LEMMA PopStep ==
  ASSUME IInv, TypeOK', [Next]_vars
  PROVE  PopRemovesTheCopy'
  <1> USE ThreadAssumption
      DEF IInv, TypeOK, Threads, Workers, Goto, Lock, Unlock, MutexOwner, WhatTheHolderSaw,
          PopRemovesTheCopy, Critical, WaitersBlocked
  <1>1. ASSUME NEW p \in Producers, EnqueueBegin(p) PROVE PopRemovesTheCopy'
    BY <1>1 DEF EnqueueBegin
  <1>2. ASSUME NEW p \in Producers, EnqueueLock(p) PROVE PopRemovesTheCopy'
    BY <1>2 DEF EnqueueLock
  <1>3. ASSUME NEW p \in Producers, EnqueuePush(p) PROVE PopRemovesTheCopy'
    BY <1>3 DEF EnqueuePush
  <1>4. ASSUME NEW p \in Producers, EnqueueNotify(p) PROVE PopRemovesTheCopy'
    <2>1. /\ NotifyOneAndGoto(p, "idle") /\ pc[p] # "waiting" /\ p \in Workers
          /\ "idle" \in ProducerPcs \cup ConsumerPcs
      BY <1>4 DEF EnqueueNotify, ProducerPcs, ConsumerPcs
    <2>2. /\ pc'[p] = "idle"
          /\ waiters' \subseteq waiters
          /\ \A u \in Threads \ {p} :
                \/ pc'[u] = pc[u] /\ (u \in waiters' <=> u \in waiters)
                \/ /\ pc[u] = "waiting" /\ pc'[u] = "deqLock"
                   /\ u \in Consumers /\ u \notin waiters'
      BY <2>1, NotifyOne
    <2>3. QED
      BY <1>4, <2>2 DEF EnqueueNotify
  <1>5. ASSUME NEW c \in Consumers, DequeueBegin(c) PROVE PopRemovesTheCopy'
    BY <1>5 DEF DequeueBegin
  <1>6. ASSUME NEW c \in Consumers, DequeueLock(c) PROVE PopRemovesTheCopy'
    BY <1>6 DEF DequeueLock
  <1>7. ASSUME NEW c \in Consumers, DequeueTest(c) PROVE PopRemovesTheCopy'
    BY <1>7 DEF DequeueTest
  <1>8. ASSUME NEW c \in Consumers, DequeueBlock(c) PROVE PopRemovesTheCopy'
    BY <1>8 DEF DequeueBlock
  <1>9. ASSUME NEW c \in Consumers, DequeueCheck(c) PROVE PopRemovesTheCopy'
    BY <1>9 DEF DequeueCheck
  <1>10. ASSUME NEW c \in Consumers, DequeueThrow(c) PROVE PopRemovesTheCopy'
    <2>1. /\ NotifyOneAndGoto(c, "threw") /\ pc[c] # "waiting" /\ c \in Workers
          /\ "threw" \in ProducerPcs \cup ConsumerPcs
      BY <1>10 DEF DequeueThrow, ProducerPcs, ConsumerPcs
    <2>2. /\ pc'[c] = "threw"
          /\ waiters' \subseteq waiters
          /\ \A u \in Threads \ {c} :
                \/ pc'[u] = pc[u] /\ (u \in waiters' <=> u \in waiters)
                \/ /\ pc[u] = "waiting" /\ pc'[u] = "deqLock"
                   /\ u \in Consumers /\ u \notin waiters'
      BY <2>1, NotifyOne
    <2>3. QED
      BY <1>10, <2>2 DEF DequeueThrow
  <1>11. ASSUME NEW c \in Consumers, DequeueCopy(c) PROVE PopRemovesTheCopy'
    BY <1>11 DEF DequeueCopy, Front, WhatTheHolderSaw
  <1>12. ASSUME NEW c \in Consumers, DequeuePop(c) PROVE PopRemovesTheCopy'
    BY <1>12 DEF DequeuePop
  <1>13. ASSUME NEW c \in Consumers, SpuriousWakeup(c) PROVE PopRemovesTheCopy'
    BY <1>13 DEF SpuriousWakeup
  <1>14. CASE DumpSet
    BY <1>14 DEF DumpSet
  <1>15. CASE DumpNotify
    BY <1>15 DEF DumpNotify
  <1>16. CASE UNCHANGED vars
    BY <1>16 DEF vars
  <1>17. QED
    BY <1>1, <1>2, <1>3, <1>4, <1>5, <1>6, <1>7, <1>8, <1>9, <1>10, <1>11, <1>12, <1>13, <1>14, <1>15, <1>16
       DEF Next, Enqueue, Dequeue

(* A blocked consumer left the queue empty; a later push still owes a notify.*)
LEMMA ForgottenStep ==
  ASSUME IInv, TypeOK', [Next]_vars
  PROVE  NoItemForgotten'
  <1> USE ThreadAssumption
      DEF IInv, TypeOK, Threads, Workers, Goto, Lock, Unlock, WhatTheHolderSaw, NoItemForgotten,
          WaitersBlocked, ConsumerPcs
  <1>1. ASSUME NEW p \in Producers, EnqueueBegin(p) PROVE NoItemForgotten'
    BY <1>1 DEF EnqueueBegin
  <1>2. ASSUME NEW p \in Producers, EnqueueLock(p) PROVE NoItemForgotten'
    BY <1>2 DEF EnqueueLock
  <1>3. ASSUME NEW p \in Producers, EnqueuePush(p) PROVE NoItemForgotten'
    BY <1>3 DEF EnqueuePush
  <1>4. ASSUME NEW p \in Producers, EnqueueNotify(p) PROVE NoItemForgotten'
    <2>1. p \in Threads /\ p \notin Consumers
      OBVIOUS
    <2>2. CASE waiters = {} /\ Goto(p, "idle")
      <3>1. PICK c \in Consumers : pc[c] # "waiting"
        BY <2>2
      <3>2. pc'[c] # "waiting"
        BY <2>1, <2>2, <3>1
      <3>3. QED
        BY <3>2
    <2>3. ASSUME NEW c \in waiters, pc' = [pc EXCEPT ![p] = "idle", ![c] = "deqLock"]
          PROVE  NoItemForgotten'
      <3>1. c \in Consumers /\ pc'[c] = "deqLock"
        BY <2>1, <2>3
      <3>2. QED
        BY <3>1
    <2>4. QED
      BY <1>4, <2>2, <2>3 DEF EnqueueNotify, NotifyOneAndGoto
  <1>5. ASSUME NEW c \in Consumers, DequeueBegin(c) PROVE NoItemForgotten'
    BY <1>5 DEF DequeueBegin
  <1>6. ASSUME NEW c \in Consumers, DequeueLock(c) PROVE NoItemForgotten'
    BY <1>6 DEF DequeueLock
  <1>7. ASSUME NEW c \in Consumers, DequeueTest(c) PROVE NoItemForgotten'
    BY <1>7 DEF DequeueTest
  <1>8. ASSUME NEW c \in Consumers, DequeueBlock(c) PROVE NoItemForgotten'
    BY <1>8 DEF DequeueBlock
  <1>9. ASSUME NEW c \in Consumers, DequeueCheck(c) PROVE NoItemForgotten'
    BY <1>9 DEF DequeueCheck
  <1>10. ASSUME NEW c \in Consumers, DequeueThrow(c) PROVE NoItemForgotten'
    <2>1. /\ NotifyOneAndGoto(c, "threw") /\ pc[c] # "waiting" /\ c \in Workers
          /\ "threw" \in ProducerPcs \cup ConsumerPcs
      BY <1>10 DEF DequeueThrow, ProducerPcs, ConsumerPcs
    <2>2. /\ pc'[c] = "threw"
          /\ waiters' \subseteq waiters
          /\ \A u \in Threads \ {c} :
                \/ pc'[u] = pc[u] /\ (u \in waiters' <=> u \in waiters)
                \/ /\ pc[u] = "waiting" /\ pc'[u] = "deqLock"
                   /\ u \in Consumers /\ u \notin waiters'
      BY <2>1, NotifyOne
    <2>3. QED
      BY <1>10, <2>2 DEF DequeueThrow
  <1>11. ASSUME NEW c \in Consumers, DequeueCopy(c) PROVE NoItemForgotten'
    BY <1>11 DEF DequeueCopy
  <1>12. ASSUME NEW c \in Consumers, DequeuePop(c) PROVE NoItemForgotten'
    BY <1>12 DEF DequeuePop
  <1>13. ASSUME NEW c \in Consumers, SpuriousWakeup(c) PROVE NoItemForgotten'
    BY <1>13 DEF SpuriousWakeup
  <1>14. CASE DumpSet
    BY <1>14 DEF DumpSet
  <1>15. CASE DumpNotify
    BY <1>15 DEF DumpNotify
  <1>16. CASE UNCHANGED vars
    BY <1>16 DEF vars
  <1>17. QED
    BY <1>1, <1>2, <1>3, <1>4, <1>5, <1>6, <1>7, <1>8, <1>9, <1>10, <1>11, <1>12, <1>13, <1>14, <1>15, <1>16
       DEF Next, Enqueue, Dequeue

(* A second call after dump stops at its test.                              *)
LEMMA LateStep ==
  ASSUME IInv, TypeOK', [Next]_vars
  PROVE  LateCalls'
  <1> USE ThreadAssumption
      DEF IInv, TypeOK, Threads, Workers, Goto, Lock, Unlock, LateCalls, CountLate, WaitersBlocked
  <1>1. ASSUME NEW p \in Producers, EnqueueBegin(p) PROVE LateCalls'
    BY <1>1 DEF EnqueueBegin
  <1>2. ASSUME NEW p \in Producers, EnqueueLock(p) PROVE LateCalls'
    BY <1>2 DEF EnqueueLock
  <1>3. ASSUME NEW p \in Producers, EnqueuePush(p) PROVE LateCalls'
    BY SMTT(30), <1>3 DEF EnqueuePush
  <1>4. ASSUME NEW p \in Producers, EnqueueNotify(p) PROVE LateCalls'
    <2>1. /\ NotifyOneAndGoto(p, "idle") /\ pc[p] # "waiting" /\ p \in Workers
          /\ "idle" \in ProducerPcs \cup ConsumerPcs
      BY <1>4 DEF EnqueueNotify, ProducerPcs, ConsumerPcs
    <2>2. /\ pc'[p] = "idle"
          /\ waiters' \subseteq waiters
          /\ \A u \in Threads \ {p} :
                \/ pc'[u] = pc[u] /\ (u \in waiters' <=> u \in waiters)
                \/ /\ pc[u] = "waiting" /\ pc'[u] = "deqLock"
                   /\ u \in Consumers /\ u \notin waiters'
      BY <2>1, NotifyOne
    <2>3. QED
      BY <1>4, <2>2 DEF EnqueueNotify
  <1>5. ASSUME NEW c \in Consumers, DequeueBegin(c) PROVE LateCalls'
    BY <1>5 DEF DequeueBegin
  <1>6. ASSUME NEW c \in Consumers, DequeueLock(c) PROVE LateCalls'
    BY <1>6 DEF DequeueLock
  <1>7. ASSUME NEW c \in Consumers, DequeueTest(c) PROVE LateCalls'
    BY <1>7 DEF DequeueTest
  <1>8. ASSUME NEW c \in Consumers, DequeueBlock(c) PROVE LateCalls'
    BY <1>8 DEF DequeueBlock
  <1>9. ASSUME NEW c \in Consumers, DequeueCheck(c) PROVE LateCalls'
    <2>1. CASE dump
      <3>1. pc' = [pc EXCEPT ![c] = "deqThrow"] /\ late' = late /\ dump' = dump
        BY <1>9, <2>1 DEF DequeueCheck
      <3>2. QED
        BY <2>1, <3>1
    <2>2. CASE ~dump
      BY <1>9, <2>2 DEF DequeueCheck
    <2>3. QED
      BY <2>1, <2>2
  <1>10. ASSUME NEW c \in Consumers, DequeueThrow(c) PROVE LateCalls'
    <2>1. /\ NotifyOneAndGoto(c, "threw") /\ pc[c] # "waiting" /\ c \in Workers
          /\ "threw" \in ProducerPcs \cup ConsumerPcs
      BY <1>10 DEF DequeueThrow, ProducerPcs, ConsumerPcs
    <2>2. /\ pc'[c] = "threw"
          /\ waiters' \subseteq waiters
          /\ \A u \in Threads \ {c} :
                \/ pc'[u] = pc[u] /\ (u \in waiters' <=> u \in waiters)
                \/ /\ pc[u] = "waiting" /\ pc'[u] = "deqLock"
                   /\ u \in Consumers /\ u \notin waiters'
      BY <2>1, NotifyOne
    <2>3. QED
      BY <1>10, <2>2 DEF DequeueThrow
  <1>11. ASSUME NEW c \in Consumers, DequeueCopy(c) PROVE LateCalls'
    BY <1>11 DEF DequeueCopy
  <1>12. ASSUME NEW c \in Consumers, DequeuePop(c) PROVE LateCalls'
    BY <1>12 DEF DequeuePop
  <1>13. ASSUME NEW c \in Consumers, SpuriousWakeup(c) PROVE LateCalls'
    BY <1>13 DEF SpuriousWakeup
  <1>14. CASE DumpSet
    BY <1>14 DEF DumpSet
  <1>15. CASE DumpNotify
    BY <1>15 DEF DumpNotify
  <1>16. CASE UNCHANGED vars
    BY <1>16 DEF vars
  <1>17. QED
    BY <1>1, <1>2, <1>3, <1>4, <1>5, <1>6, <1>7, <1>8, <1>9, <1>10, <1>11, <1>12, <1>13, <1>14, <1>15, <1>16
       DEF Next, Enqueue, Dequeue

(* IInv is inductive.                                                       *)
LEMMA IInvStep == IInv /\ [Next]_vars => IInv'
  <1> SUFFICES ASSUME IInv, [Next]_vars PROVE IInv'
    OBVIOUS
  <1>1. TypeOK'
    BY TypeStep DEF IInv
  <1>2. MutexOwner' /\ WaitersBlocked' /\ WhatTheHolderSaw'
    BY <1>1, MutexStep, WaitersStep, HolderStep
  <1>3. PopRemovesTheCopy' /\ NoItemForgotten' /\ LateCalls'
    BY <1>1, PopStep, ForgottenStep, LateStep
  <1>4. QED
    BY <1>1, <1>2, <1>3 DEF IInv

(* The inductive invariant holds of every behaviour of the queue.          *)
THEOREM Inductive == Spec => []IInv
  BY InitIInv, IInvStep, PTL DEF Spec

-----------------------------------------------------------------------------
(* Every variable of the queue keeps its type: what dequeue copies is always*)
(* an item, never the undefined front() of an empty std::queue.            *)
THEOREM TypeCorrect == Spec => []TypeOK
  <1>1. IInv => TypeOK
    BY DEF IInv
  <1>2. QED
    BY Inductive, <1>1, PTL

(* For any number of threads, enqueue and dequeue never leave an item in    *)
(* the queue with every consumer blocked and no notify_one to come.         *)
THEOREM ItemsAreNotForgotten == Spec => []NoItemForgotten
  <1>1. IInv => NoItemForgotten
    BY DEF IInv
  <1>2. QED
    BY Inductive, <1>1, PTL

(* dequeue returns the element it removes.                                  *)
THEOREM DequeueIsAtomic == Spec => []PopRemovesTheCopy
  <1>1. IInv => PopRemovesTheCopy
    BY DEF IInv
  <1>2. QED
    BY Inductive, <1>1, PTL

(* After dumpThreads has set dump, every thread completes at most one call. *)
THEOREM AtMostOneCallAfterDump == Spec => []OneCallAfterDump
  <1>1. IInv => OneCallAfterDump
    BY DEF IInv, LateCalls, OneCallAfterDump, Workers
  <1>2. QED
    BY Inductive, <1>1, PTL

-----------------------------------------------------------------------------
(* A step of the queue is a step of the abstract queue, or none.            *)
LEMMA StepRefines == IInv /\ [Next]_vars => [Abstract!Next]_(Abstract!vars)
  <1> SUFFICES ASSUME IInv, [Next]_vars PROVE [Abstract!Next]_(Abstract!vars)
    OBVIOUS
  <1> DEFINE Unseen == UNCHANGED <<queue, delivered, dump>>
  <1> USE DEF Abstract!vars
  <1>1. ASSUME NEW p \in Producers, EnqueuePush(p) PROVE Abstract!Put
    <2>1. <<p, sent[p]>> \in Items
      BY <1>1 DEF EnqueuePush, IInv, TypeOK, Items
    <2>2. QED
      BY <1>1, <2>1 DEF EnqueuePush, Abstract!Put
  <1>2. ASSUME NEW c \in Consumers, DequeuePop(c) PROVE Abstract!Take
    BY <1>2 DEF DequeuePop, Abstract!Take, IInv, PopRemovesTheCopy
  <1>3. CASE DumpSet
    BY <1>3 DEF DumpSet, Abstract!Next, Abstract!Close
  <1>4. ASSUME NEW p \in Producers,
               EnqueueBegin(p) \/ EnqueueLock(p) \/ EnqueueNotify(p)
        PROVE  Unseen
    BY <1>4 DEF EnqueueBegin, EnqueueLock, EnqueueNotify
  <1>5. ASSUME NEW c \in Consumers,
               \/ DequeueBegin(c) \/ DequeueLock(c) \/ DequeueTest(c) \/ DequeueBlock(c)
               \/ DequeueCheck(c) \/ DequeueThrow(c) \/ DequeueCopy(c) \/ SpuriousWakeup(c)
        PROVE  Unseen
    BY <1>5 DEF DequeueBegin, DequeueLock, DequeueTest, DequeueBlock, DequeueCheck,
                DequeueThrow, DequeueCopy, SpuriousWakeup
  <1>6. CASE DumpNotify \/ UNCHANGED vars
    BY <1>6 DEF DumpNotify, vars
  <1>7. QED
    BY <1>1, <1>2, <1>3, <1>4, <1>5, <1>6 DEF Next, Enqueue, Dequeue, Abstract!Next

(* The safety half of ImplementsFifo: items come out exactly once and in    *)
(* the order in which they went in.  (That an item does come out is         *)
(* liveness, which the run of the refinement checks.)                       *)
THEOREM RefinesFifo == Spec => Abstract!Init /\ [][Abstract!Next]_(Abstract!vars)
  <1>1. Init => Abstract!Init
    BY DEF Init, Abstract!Init
  <1>2. QED
    BY <1>1, StepRefines, Inductive, PTL DEF Spec
=============================================================================

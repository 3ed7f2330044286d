------------------------------ MODULE FifoQueue ------------------------------
(***************************************************************************)
(* What a queue between threads promises, with no threads, locks or wakeups *)
(* in sight: every item put is taken at most once, in the order it was put, *)
(* and, as long as the queue has not been closed, an item that is there is  *)
(* eventually taken.  SafeQueue implements this specification.              *)
(***************************************************************************)
EXTENDS Sequences

CONSTANT Items

VARIABLES
    contents,   \* the items put and not yet taken, oldest first
    taken,      \* the items taken so far, oldest first
    closed      \* whether the queue was told to release its readers

vars == <<contents, taken, closed>>

Init == contents = <<>> /\ taken = <<>> /\ closed = FALSE

Put == /\ \E i \in Items : contents' = Append(contents, i)
       /\ UNCHANGED <<taken, closed>>

Take == /\ contents # <<>>
        /\ taken' = Append(taken, Head(contents))
        /\ contents' = Tail(contents)
        /\ UNCHANGED closed

Close == closed' = TRUE /\ UNCHANGED <<contents, taken>>

Next == Put \/ Take \/ Close

TakeWhileOpen == ~closed /\ Take

Spec == Init /\ [][Next]_vars /\ WF_vars(TakeWhileOpen)
=============================================================================

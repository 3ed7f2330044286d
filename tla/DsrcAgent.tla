------------------------------ MODULE DsrcAgent ------------------------------
(***************************************************************************)
(* Vehicle-to-vehicle messages (CAVE-client/DSRC-agent/ChDSRCAgent.cpp).    *)
(* An agent serializes a message once, and puts the same buffer into the    *)
(* queue of every other agent in range; popMessage parses the buffer, which *)
(* consumes what is in it.  The agents of a process call one another.       *)
(***************************************************************************)
EXTENDS Naturals, Sequences

CONSTANTS
    Agents,        \* vehicle numbers
    Places,        \* where a vehicle can be
    Near,          \* the pairs of places within MAX_REACHABLE_DISTANCE
    MaxMessages    \* bound: how many messages each agent broadcasts

ASSUME AgentAssumption == Agents \subseteq Nat /\ MaxMessages \in [Agents -> Nat]
ASSUME PlaceAssumption ==
    /\ Near \subseteq Places \X Places
    /\ \A p, q \in Places : <<p, q>> \in Near <=> <<q, p>> \in Near

VARIABLES
    vehicleMap,        \* the vehicle numbers given out: 0 .. vehicleCount - 1
    place,             \* where the vehicle of each agent is
    sent,              \* how many messages each agent has broadcast
    incomingMessages,  \* ChDSRCAgent::incomingMessages: buffers, by message
    empty,             \* the buffers that a popMessage has consumed
    received,          \* history: what popMessage returned to each agent
    status             \* "running", or "fatal" when a parse was rejected

vars == <<vehicleMap, place, sent, incomingMessages, empty, received, status>>

(* a message: who broadcast it, and the how-manieth of that agent it is     *)
Messages == {m \in Agents \X Nat : m[2] \in 1 .. MaxMessages[m[1]]}

Init ==
    /\ vehicleMap = {}
    /\ place \in [Agents -> Places]
    /\ sent = [a \in Agents |-> 0]
    /\ incomingMessages = [a \in Agents |-> <<>>]
    /\ empty = {}
    /\ received = [a \in Agents |-> <<>>]
    /\ status = "running"

CanReach(a, b) == <<place[b], place[a]>> \in Near

-----------------------------------------------------------------------------
(* ChDSRCAgent::ChDSRCAgent                                                 *)
Create(a) ==
    /\ a \notin vehicleMap /\ \A b \in Agents : b < a => b \in vehicleMap
    /\ vehicleMap' = vehicleMap \cup {a}
    /\ UNCHANGED <<place, sent, incomingMessages, empty, received, status>>

(* the simulation moves a vehicle                                           *)
Move(a, p) ==
    /\ place' = [place EXCEPT ![a] = p]
    /\ UNCHANGED <<vehicleMap, sent, incomingMessages, empty, received, status>>

Receivers(a) == {b \in vehicleMap : CanReach(a, b) /\ b # a}

(* Mutant: the newest message is the first to be popped.                    *)
DeliverInFront(buffer, receivers) ==
    incomingMessages' = [b \in Agents |->
        IF b \in receivers THEN <<buffer>> \o incomingMessages[b] ELSE incomingMessages[b]]

Deliver(buffer, receivers) ==
    incomingMessages' = [b \in Agents |->
        IF b \in receivers THEN Append(incomingMessages[b], buffer) ELSE incomingMessages[b]]

BroadcastMessage(a) ==
    /\ a \in vehicleMap /\ sent[a] < MaxMessages[a]
    /\ sent' = [sent EXCEPT ![a] = @ + 1]
    /\ Deliver(<<a, sent'[a]>>, Receivers(a))
    /\ UNCHANGED <<vehicleMap, place, empty, received, status>>

(* Mutant: the buffer is consumed without the message being kept.           *)
PopMessageAndDrop(a) ==
    /\ a \in vehicleMap /\ incomingMessages[a] # <<>>
    /\ empty' = empty \cup {Head(incomingMessages[a])}
    /\ status' = IF Head(incomingMessages[a]) \in empty THEN "fatal" ELSE status
    /\ incomingMessages' = [incomingMessages EXCEPT ![a] = Tail(@)]
    /\ UNCHANGED <<vehicleMap, place, sent, received>>

(* Parsing an empty buffer finds no required field: CheckInitialized is     *)
(* fatal.                                                                   *)
PopMessage(a) ==
    /\ a \in vehicleMap /\ incomingMessages[a] # <<>>
    /\ LET buffer == Head(incomingMessages[a])
       IN  IF buffer \in empty
             THEN status' = "fatal" /\ UNCHANGED <<received, empty>>
             ELSE /\ received' = [received EXCEPT ![a] = Append(@, buffer)]
                  /\ empty' = empty \cup {buffer}
                  /\ UNCHANGED status
    /\ incomingMessages' = [incomingMessages EXCEPT ![a] = Tail(@)]
    /\ UNCHANGED <<vehicleMap, place, sent>>

Next ==
    /\ status = "running"
    /\ \E a \in Agents :
          \/ Create(a) \/ BroadcastMessage(a) \/ PopMessage(a)
          \/ \E p \in Places : Move(a, p)

Spec == Init /\ [][Next]_vars

-----------------------------------------------------------------------------
TypeOK ==
    /\ vehicleMap \subseteq Agents
    /\ place \in [Agents -> Places]
    /\ sent \in [Agents -> Nat] /\ \A a \in Agents : sent[a] <= MaxMessages[a]
    /\ incomingMessages \in [Agents -> Seq(Messages)]
    /\ empty \subseteq Messages
    /\ received \in [Agents -> Seq(Messages)]
    /\ status \in {"running", "fatal"}

(* The variables keep their types, and what an agent has received and what  *)
(* waits for it, oldest first, is in the order it was broadcast, and        *)
(* nothing twice -- whoever moved in and out of range, and however late the *)
(* messages are popped.                                                     *)
InOrder == TypeOK /\
    \A a \in Agents :
        LET all == received[a] \o incomingMessages[a]
        IN  \A i, j \in DOMAIN all :
                i < j /\ all[i][1] = all[j][1] => all[i][2] < all[j][2]

(* All who get a broadcast share one buffer, and the first to pop it leaves *)
(* it empty: a message that waits for an agent, or that it could not parse, *)
(* is unreadable only if another agent has read it.                         *)
Waiting(a) == {incomingMessages[a][i] : i \in DOMAIN incomingMessages[a]}
Has(b) == {received[b][i] : i \in DOMAIN received[b]}

EmptiedByAnother ==
    /\ \A a \in Agents : \A m \in Waiting(a) \cap empty :
          \E b \in Agents \ {a, m[1]} : m \in Has(b)
    /\ status = "fatal" => \E a, b \in vehicleMap : \E m \in Has(b) \cap empty :
          a \notin {b, m[1]} /\ m \notin Has(a)
=============================================================================

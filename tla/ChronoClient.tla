----------------------------- MODULE ChronoClient -----------------------------
(***************************************************************************)
(* The programs that connect to the tcp server (ChronoClient): ChClient's   *)
(* listener thread keeps a map of the vehicles the server tells of, and the *)
(* simulation's main loop sends its own vehicle, follows that map in one of *)
(* its own, and drives behind one of the vehicles.  The two threads share   *)
(* the map with no lock.  The connections that run such a program are       *)
(* Programs; the others behave as any client of ChronoServer may.           *)
(***************************************************************************)
EXTENDS ChronoServer

CONSTANTS
    Programs,      \* connections whose client is one of the programs
    Followers      \* those of them that drive behind another vehicle

ASSUME ProgramAssumption == Followers \subseteq Programs /\ Programs \subseteq Connections

VARIABLES
    main,          \* where the main loop of each program is
    worldVehicles, \* ids in the map that the listener keeps (serverMessages)
    idnumbers,     \* the listener's set of the ids of the group so far
    otherVehicles, \* ids of the vehicles the simulation has made
    iterator,      \* the main loop's iterator over one or the other map
    target         \* whose chassis the driver follows, or nobody's

clientVars == <<main, worldVehicles, idnumbers, otherVehicles, iterator, target>>
serverVars == vars
allVars == <<serverVars, clientVars>>

Nobody == -1       \* the body that the driver is made with

ClientInit ==
    /\ Init
    /\ main = [n \in Programs |-> "send"]
    /\ worldVehicles = [n \in Programs |-> {}]
    /\ idnumbers = [n \in Programs |-> {}]
    /\ otherVehicles = [n \in Programs |-> {}]
    /\ iterator = [n \in Programs |-> AtEnd]
    /\ target = [n \in Programs |-> Nobody]

MainAt(n, from, to) == main[n] = from /\ main' = [main EXCEPT ![n] = to]
MoveTo(n, k) == iterator' = [iterator EXCEPT ![n] = k]
NextOf(k, S) == FirstOf({j \in S : k < j})

Ended == {"ended", "lost"}

-----------------------------------------------------------------------------
(* asyncListen: one step per message                                        *)

Listening(n) == ClientRead(n) /\ UNCHANGED <<main, otherVehicles, iterator, target>>

(* Mutant: only a vehicle that is new is noted as seen in this group.       *)
ListenVehicleNotesNew(n) ==
    /\ Listening(n) /\ Head(outbox[n]).code = "vehicle"
    /\ LET id == Head(outbox[n]).id
       IN  /\ worldVehicles' = [worldVehicles EXCEPT ![n] = @ \cup {id}]
           /\ idnumbers' = [idnumbers EXCEPT ![n] =
                  IF id \in worldVehicles[n] THEN @ ELSE @ \cup {id}]

ListenVehicle(n) ==
    /\ Listening(n) /\ Head(outbox[n]).code = "vehicle"
    /\ LET id == Head(outbox[n]).id
       IN  /\ worldVehicles' = [worldVehicles EXCEPT ![n] = @ \cup {id}]
           /\ idnumbers' = [idnumbers EXCEPT ![n] = @ \cup {id}]

(* The end of a group: what the group did not name is dropped.              *)
ListenEnd(n) ==
    /\ Listening(n) /\ Head(outbox[n]).code = "end"
    /\ worldVehicles' = [worldVehicles EXCEPT ![n] = @ \cap idnumbers[n]]
    /\ idnumbers' = [idnumbers EXCEPT ![n] = {}]

(* An id without its vehicle: kept if it is there.                          *)
ListenId(n) ==
    /\ Listening(n) /\ Head(outbox[n]).code = "id"
    /\ idnumbers' = [idnumbers EXCEPT ![n] = @ \cup {Head(outbox[n]).id}]
    /\ UNCHANGED worldVehicles

Listener(n) == ListenVehicle(n) \/ ListenEnd(n) \/ ListenId(n)

-----------------------------------------------------------------------------
(* The main loop                                                            *)

(* The vehicle's own message, with which the walk over the others begins    *)
SendOwn(n) ==
    /\ MainAt(n, "send", "follow")
    /\ \E message \in VehicleMessages(n) : message.id = n /\ ClientSend(n, message)
    /\ UNCHANGED <<worldVehicles, idnumbers, otherVehicles, iterator, target>>

BeginFollow(n) ==
    /\ MainAt(n, "follow", "copy")
    /\ MoveTo(n, FirstOf(worldVehicles[n]))
    /\ UNCHANGED <<serverVars, worldVehicles, idnumbers, otherVehicles, target>>

(* A vehicle is made for each id that is new, and each is updated.          *)
(* A follower drives behind the vehicle whose number is one less than its   *)
(* own: it takes the chassis when it makes that vehicle.                    *)
MakeVehicle(n, k) ==
    /\ otherVehicles' = [otherVehicles EXCEPT ![n] = @ \cup {k}]
    /\ target' = IF n \in Followers /\ n = k + 1 /\ k \notin otherVehicles[n]
                   THEN [target EXCEPT ![n] = k] ELSE target

CopyVehicle(n) ==
    /\ MainAt(n, "copy", "step")
    /\ iterator[n] \in worldVehicles[n]
    /\ MakeVehicle(n, iterator[n])
    /\ UNCHANGED <<serverVars, worldVehicles, idnumbers, iterator>>

StepFollow(n) ==
    /\ MainAt(n, "step", "copy")
    /\ iterator[n] \in worldVehicles[n]
    /\ MoveTo(n, NextOf(iterator[n], worldVehicles[n]))
    /\ UNCHANGED <<serverVars, worldVehicles, idnumbers, otherVehicles, target>>

(* The listener erased the node the iterator is at: the freed memory may    *)
(* read as it was, lead to the end or to any other node, or be a fault.     *)
UseErasedVehicle(n) ==
    /\ iterator[n] \notin worldVehicles[n] \cup {AtEnd}
    /\ \/ MainAt(n, "copy", "step") /\ MakeVehicle(n, iterator[n]) /\ UNCHANGED <<serverVars, iterator>>
       \/ /\ main[n] \in {"copy", "step"} /\ main' = [main EXCEPT ![n] = "copy"]
          /\ \E k \in worldVehicles[n] \cup {AtEnd} : MoveTo(n, k)
          /\ UNCHANGED <<serverVars, otherVehicles, target>>
       \/ /\ main[n] \in {"copy", "step"} /\ main' = [main EXCEPT ![n] = "lost"]
          /\ ClientClose(n)
          /\ UNCHANGED <<otherVehicles, iterator, target>>
    /\ UNCHANGED <<worldVehicles, idnumbers>>

BeginDrop(n) ==
    /\ MainAt(n, "copy", "drop")
    /\ iterator[n] = AtEnd
    /\ MoveTo(n, FirstOf(otherVehicles[n]))
    /\ UNCHANGED <<serverVars, worldVehicles, idnumbers, otherVehicles, target>>

(* Mutant: the vehicles the group so far has not named are destroyed.       *)
DropVehicleNotNamed(n) ==
    /\ MainAt(n, "drop", "drop")
    /\ iterator[n] # AtEnd
    /\ otherVehicles' = [otherVehicles EXCEPT ![n] =
           IF iterator[n] \in idnumbers[n] THEN @ ELSE @ \ {iterator[n]}]
    /\ MoveTo(n, NextOf(iterator[n], otherVehicles[n]))
    /\ UNCHANGED <<serverVars, worldVehicles, idnumbers, target>>

(* The vehicles the listener's map does not have any more are destroyed.    *)
DropVehicle(n) ==
    /\ MainAt(n, "drop", "drop")
    /\ iterator[n] # AtEnd
    /\ otherVehicles' = [otherVehicles EXCEPT ![n] =
           IF iterator[n] \in worldVehicles[n] THEN @ ELSE @ \ {iterator[n]}]
    /\ MoveTo(n, NextOf(iterator[n], otherVehicles[n]))
    /\ UNCHANGED <<serverVars, worldVehicles, idnumbers, target>>

(* driver.Advance: reads the position of the target.  When that vehicle was *)
(* destroyed it reads freed memory, which may end the program.              *)
Advance(n) ==
    /\ main[n] = "drop" /\ iterator[n] = AtEnd
    /\ \/ main' = [main EXCEPT ![n] = "send"] /\ UNCHANGED serverVars
       \/ /\ target[n] \notin otherVehicles[n] \cup {Nobody}
          /\ main' = [main EXCEPT ![n] = "lost"]
          /\ ClientClose(n)
    /\ UNCHANGED <<worldVehicles, idnumbers, otherVehicles, iterator, target>>

(* The window is closed or the time is over: client.disconnect()            *)
Leave(n) ==
    /\ MainAt(n, "send", "leave")
    /\ ClientSend(n, Disconnect)
    /\ UNCHANGED <<worldVehicles, idnumbers, otherVehicles, iterator, target>>

(* ~ChClient closes the socket and joins the listener, which returns, or    *)
(* ends the program by the exception of a receive that failed.              *)
Destroy(n) ==
    /\ main[n] = "leave"
    /\ \E l \in Ended : main' = [main EXCEPT ![n] = l]
    /\ ClientClose(n)
    /\ UNCHANGED <<worldVehicles, idnumbers, otherVehicles, iterator, target>>

(* The program is killed.                                                   *)
Kill(n) ==
    /\ main[n] \notin Ended
    /\ main' = [main EXCEPT ![n] = "lost"]
    /\ ClientClose(n)
    /\ UNCHANGED <<worldVehicles, idnumbers, otherVehicles, iterator, target>>

MainLoop(n) ==
    \/ SendOwn(n) \/ BeginFollow(n) \/ CopyVehicle(n) \/ StepFollow(n)
    \/ UseErasedVehicle(n) \/ BeginDrop(n) \/ DropVehicle(n) \/ Advance(n)
    \/ Leave(n) \/ Destroy(n)

-----------------------------------------------------------------------------
AnyClient == Running /\ \E n \in Connections \ Programs : Client(n)

Program(n) == Running /\ (Listener(n) \/ MainLoop(n) \/ Kill(n))

ClientNext ==
    \/ (Server \/ AnyClient) /\ UNCHANGED clientVars
    \/ \E n \in Programs : Program(n)

ClientSpec == ClientInit /\ [][ClientNext]_allVars

-----------------------------------------------------------------------------
ClientTypeOK ==
    /\ TypeOK
    /\ main \in [Programs -> {"send", "follow", "copy", "step", "drop", "leave"} \cup Ended]
    /\ worldVehicles \in [Programs -> SUBSET Connections]
    /\ idnumbers \in [Programs -> SUBSET (Connections \cup {0})]
    /\ otherVehicles \in [Programs -> SUBSET Connections]
    /\ iterator \in [Programs -> Connections \cup {AtEnd}]
    /\ target \in [Programs -> Connections \cup {Nobody}]

SomeoneLeft(n) ==
    \E m \in Connections \ {n} : pc[m] \in {"leaving", "closed"} /\ m \notin DOMAIN section

(* A vehicle is dropped by a listener only when a vehicle has left the      *)
(* world since: itself, or another whose node the server's walk was at.     *)
DroppedOnlyAfterLeaving ==
    [][\A n \in Programs :
          worldVehicles[n] \subseteq worldVehicles'[n] \/ SomeoneLeft(n)]_allVars

(* The variables keep their types, and the driver, which keeps a bare       *)
(* reference to the chassis of the vehicle it follows, outlives that        *)
(* vehicle -- which it can, see Advance -- only when a vehicle has left the *)
(* world, whatever the two loops read of each other's maps while they       *)
(* change.                                                                  *)
TargetGoesOnlyAfterLeaving ==
    /\ ClientTypeOK
    /\ \A n \in Programs :
          target[n] \in otherVehicles[n] \cup {Nobody} \/ SomeoneLeft(n)
=============================================================================

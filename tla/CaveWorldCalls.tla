---------------------------- MODULE CaveWorldCalls ---------------------------
(***************************************************************************)
(* The World of the CAVE server under calls of all its operations, in any  *)
(* order.  The server removes nothing, so removals is kept to tell what it *)
(* can see from what the rest of the class can do.                         *)
(***************************************************************************)
EXTENDS CaveWorld, Sequences

CONSTANT MaxRemovals   \* bound: calls of removeElement and removeConnection

ASSUME RemovalAssumption == MaxRemovals \in Nat

VARIABLE removals     \* the removals so far, of an "element" or a "connection"

callsVars == <<worldVars, removals>>

CallsInit == WorldInit /\ removals = <<>>

(* What the server calls, in any order                                       *)
ServerCall == (Registration \/ Update) /\ UNCHANGED removals

RemoveElementCall ==
    /\ removals' = Append(removals, "element")
    /\ \E c \in DOMAIN endpoints, id \in Ids : <<c, id>> \in DOMAIN elements /\ RemoveElement(id, c)

RemoveConnectionCall ==
    /\ removals' = Append(removals, "connection")
    /\ \E c \in DOMAIN endpoints : RemoveConnection(c)

CallsNext ==
    /\ status = "running"
    /\ \/ ServerCall
       \/ Len(removals) < MaxRemovals /\ (RemoveElementCall \/ RemoveConnectionCall)

CallsSpec == CallsInit /\ [][CallsNext]_callsVars

Removed(kind) == \E i \in DOMAIN removals : removals[i] = kind

(* The variables keep their types, a number is not waiting and bound at      *)
(* once, and the counts agree with the elements as long as they can: each    *)
(* profile's with its own until something is removed, for removeElement may  *)
(* take the element before the one it was asked to remove, some other        *)
(* connection's perhaps; and all profiles' together with the whole world's,  *)
(* whatever elements are removed, until a connection goes and a range of     *)
(* other connections' elements with it.                                      *)
CountsAgree ==
    /\ WorldTypeOK
    /\ WaitingOrBound
    /\ removals = <<>> => CountsMatchElements
    /\ ~Removed("connection") => TotalsAgree

(* HangsAtTheCountOrTheRoot, whatever elements are removed                   *)
HangsUntilAConnectionGoes == ~Removed("connection") => HangsAtTheCountOrTheRoot
=============================================================================

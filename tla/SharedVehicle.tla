---------------------------- MODULE SharedVehicle ---------------------------
(***************************************************************************)
(* One vehicle of the tcp server's world, and the threads that share it    *)
(* with no lock.  The main thread merges the updates of the vehicle's own  *)
(* client into it (World::updateVehicle, MergeFrom).  The thread of every  *)
(* other client asks whether it is initialized, computes its size, and     *)
(* writes it (processConnection, SerializeToOstream), one field at a time  *)
(* and each field read more than once.  ChronoServer takes the sending of  *)
(* a vehicle as one step; this is the inside of that step.                 *)
(*                                                                         *)
(* A message is timestamp and number, two numbers, then com, a sub-message *)
(* with the field x.  A field's value is the version of the message it     *)
(* came in: 0 for the one the vehicle was added with.                      *)
(***************************************************************************)
EXTENDS Integers, FiniteSets, Sequences

CONSTANTS
    Readers,        \* the connections of the other clients
    FirstMessages,  \* the fields the client's first message may have
    MaxVersion      \* bound: updates of the vehicle

Fields == <<"timestamp", "number", "com", "x">>  \* in the order of their numbers
Leaves == {"timestamp", "number", "x"}           \* those that hold a value
Top == {"timestamp", "number", "com"}            \* those of the message itself
Default == -1
Values == 0..MaxVersion \cup {Default}

(* As the clients of the repository do, who leave out connectionNumber.    *)
ASSUME FirstAssumption == \A S \in FirstMessages : "timestamp" \in S /\ S \subseteq Top \cup {"x"}
ASSUME BoundAssumption == MaxVersion \in Nat

(* Bytes of a value: the time is five bytes wide from 1978 to 2038, a      *)
(* number below 128 one, a double eight; the default of a number is 0.     *)
Width(f, v) == CASE f = "timestamp" -> IF v = Default THEN 1 ELSE 5
                 [] f = "number" -> 1
                 [] OTHER -> 8

VARIABLES
    first,     \* the fields the vehicle was added with
    has,       \* presence bits, of the message and of its sub-message
    val,       \* the storage of the fields
    com,       \* is there a sub-message behind the pointer
    inWorld,   \* does the section's shared_ptr own the vehicle
    alive,     \* has it not been destroyed
    version,   \* the update being merged, or the last one that was
    step,      \* the field of it to be merged next; 0 between updates
    writes,    \* what of that field's setter is still to be stored
    rpc,       \* where each reader is
    at,        \* the field it is about to read
    since,     \* the last update merged when it began
    size,      \* ByteSize
    bytes,     \* what it has written
    sent       \* of each field, the value it has written last

object == <<has, val, com>>
writer == <<version, step, writes>>
reader == <<rpc, at, since, size, bytes, sent>>
vars == <<first, object, inWorld, alive, writer, reader>>

Init ==
    /\ first \in FirstMessages
    /\ has = first
    /\ val = [f \in Leaves |-> IF f \in first THEN 0 ELSE Default]
    /\ com = ("com" \in first)
    /\ inWorld = TRUE /\ alive = TRUE
    /\ version = 0 /\ step = 0 /\ writes = {}
    /\ rpc = [r \in Readers |-> "idle"]
    /\ at = [r \in Readers |-> 1]
    /\ since = [r \in Readers |-> 0]
    /\ size = [r \in Readers |-> 0]
    /\ bytes = [r \in Readers |-> 0]
    /\ sent = [r \in Readers |-> [f \in Leaves |-> Default]]

-----------------------------------------------------------------------------
(* The main thread                                                         *)

(* set_x is two stores, set_has_x and the value, which the compiler may    *)
(* emit in either order; mutable_com sets the bit and, if need be, the     *)
(* pointer.                                                                *)
StoresOf(f) == IF f = "com" THEN {"has", "pointer"} ELSE {"has", "value"}

MergeNext(i) == /\ step' = IF i > Len(Fields) THEN 0 ELSE i
                /\ writes' = IF i > Len(Fields) THEN {} ELSE StoresOf(Fields[i])

(* Mutant: CopyFrom, which clears the message first.                       *)
UpdateVehicleCopies ==
    /\ inWorld /\ step = 0 /\ version < MaxVersion
    /\ version' = version + 1
    /\ has' = {} /\ val' = [f \in Leaves |-> Default]
    /\ MergeNext(1)
    /\ UNCHANGED <<first, com, inWorld, alive, reader>>

(* Mutant: the updates are taken from the wrong end of the queue.          *)
UpdateVehicleAnyOrder ==
    /\ inWorld /\ step = 0
    /\ version' \in 1..MaxVersion \ {version}
    /\ MergeNext(1)
    /\ UNCHANGED <<first, object, inWorld, alive, reader>>

(* An update that is not complete is ignored, and is not shown.            *)
UpdateVehicle ==
    /\ inWorld /\ step = 0 /\ version < MaxVersion
    /\ version' = version + 1
    /\ MergeNext(1)
    /\ UNCHANGED <<first, object, inWorld, alive, reader>>

Stored(w) == IF writes = {w} THEN MergeNext(step + 1) ELSE writes' = writes \ {w} /\ UNCHANGED step

StoreHas ==
    /\ "has" \in writes
    /\ has' = has \cup {Fields[step]}
    /\ Stored("has")
    /\ UNCHANGED <<first, val, com, inWorld, alive, version, reader>>

StoreValue ==
    /\ "value" \in writes
    /\ val' = [val EXCEPT ![Fields[step]] = version]
    /\ Stored("value")
    /\ UNCHANGED <<first, has, com, inWorld, alive, version, reader>>

StorePointer ==
    /\ "pointer" \in writes
    /\ com' = TRUE
    /\ Stored("pointer")
    /\ UNCHANGED <<first, has, val, inWorld, alive, version, reader>>

(* The section's pointer goes; the last owner destroys the vehicle.        *)
RemoveVehicle ==
    /\ inWorld /\ step = 0
    /\ inWorld' = FALSE
    /\ alive' = (\E r \in Readers : rpc[r] # "idle")
    /\ UNCHANGED <<first, object, writer, reader>>

-----------------------------------------------------------------------------
(* A connection thread                                                     *)
Goto(r, l) == rpc' = [rpc EXCEPT ![r] = l] /\ at' = [at EXCEPT ![r] = 1]

(* What the getters show: the default instance's x when there is no        *)
(* sub-message.                                                            *)
Present(f) == f \in has /\ (f = "x" => com)
Read(f) == IF f = "x" /\ ~com THEN Default ELSE val[f]

(* The loop's worldPair is a copy: the thread owns the vehicle too.        *)
Begin(r) ==
    /\ rpc[r] = "idle" /\ inWorld
    /\ Goto(r, "check")
    /\ since' = [since EXCEPT ![r] = IF step = 0 THEN version ELSE version - 1]
    /\ UNCHANGED <<first, object, inWorld, alive, writer, size, bytes, sent>>

Release(r) == alive' = (inWorld \/ \E q \in Readers \ {r} : rpc[q] # "idle")

(* IsInitialized: the message's bits, then the sub-message's.  A vehicle   *)
(* that is not is announced by an id.                                      *)
CheckMessage(r) ==
    /\ rpc[r] = "check"
    /\ IF Top \subseteq has THEN Goto(r, "check_com") /\ UNCHANGED alive
       ELSE Goto(r, "idle") /\ Release(r)
    /\ UNCHANGED <<first, object, inWorld, writer, since, size, bytes, sent>>

(* Mutant: the sub-message is not asked.                                   *)
CheckSubNot(r) ==
    /\ rpc[r] = "check_com"
    /\ Goto(r, "size")
    /\ size' = [size EXCEPT ![r] = 0]
    /\ UNCHANGED <<first, object, inWorld, alive, writer, since, bytes, sent>>

CheckSub(r) ==
    /\ rpc[r] = "check_com"
    /\ IF Present("x")
       THEN /\ Goto(r, "size") /\ UNCHANGED alive
            /\ size' = [size EXCEPT ![r] = 0]
       ELSE Goto(r, "idle") /\ Release(r) /\ UNCHANGED size
    /\ UNCHANGED <<first, object, inWorld, writer, since, bytes, sent>>

SizeOf(f) == IF ~Present(f) THEN 0
             ELSE IF f = "com" THEN 2 ELSE 1 + Width(f, Read(f))

(* ByteSize adds up the fields one after the other.                        *)
SizeField(r) ==
    /\ rpc[r] = "size"
    /\ size' = [size EXCEPT ![r] = @ + SizeOf(Fields[at[r]])]
    /\ IF at[r] < Len(Fields) THEN at' = [at EXCEPT ![r] = @ + 1] /\ UNCHANGED <<rpc, bytes>>
       ELSE Goto(r, "write") /\ bytes' = [bytes EXCEPT ![r] = 0]
    /\ UNCHANGED <<first, object, inWorld, alive, writer, since, sent>>

(* SerializeWithCachedSizes tests each bit again, reads the value again.   *)
WriteField(r) ==
    /\ rpc[r] = "write"
    /\ LET f == Fields[at[r]]
       IN /\ bytes' = [bytes EXCEPT ![r] = @ + SizeOf(f)]
          /\ sent' = IF f \in Leaves /\ Present(f) THEN [sent EXCEPT ![r][f] = Read(f)] ELSE sent
    /\ IF at[r] < Len(Fields) THEN at' = [at EXCEPT ![r] = @ + 1] /\ UNCHANGED rpc
       ELSE Goto(r, "written")
    /\ UNCHANGED <<first, object, inWorld, alive, writer, since, size>>

(* The size is compared -- the process is lost if it differs -- and the    *)
(* message goes out.                                                       *)
Finish(r) ==
    /\ rpc[r] = "written" /\ size[r] = bytes[r]
    /\ Goto(r, "idle")
    /\ Release(r)
    /\ UNCHANGED <<first, object, inWorld, writer, since, size, bytes, sent>>

Next == \/ UpdateVehicle \/ StoreHas \/ StoreValue \/ StorePointer \/ RemoveVehicle
        \/ \E r \in Readers : \/ Begin(r) \/ CheckMessage(r) \/ CheckSub(r)
                              \/ SizeField(r) \/ WriteField(r) \/ Finish(r)

Spec == Init /\ [][Next]_vars

-----------------------------------------------------------------------------
(* The variables keep their types, and a sub-message that has been told of *)
(* has its memory once the merge is past it.                               *)
TypeOK ==
    /\ first \in FirstMessages /\ has \subseteq Top \cup {"x"}
    /\ val \in [Leaves -> Values] /\ com \in BOOLEAN
    /\ inWorld \in BOOLEAN /\ alive \in BOOLEAN
    /\ version \in 0..MaxVersion /\ step \in 0..Len(Fields)
    /\ writes \subseteq {"has", "value", "pointer"} /\ (writes = {} <=> step = 0)
    /\ rpc \in [Readers -> {"idle", "check", "check_com", "size", "write", "written"}]
    /\ at \in [Readers -> 1..Len(Fields)] /\ since \in [Readers -> 0..MaxVersion]
    /\ size \in [Readers -> Nat] /\ bytes \in [Readers -> Nat]
    /\ sent \in [Readers -> [Leaves -> Values]]
    /\ \A f \in Top \cap has : f = "com" /\ ~com => step > 0 /\ Fields[step] = "com"

(* The variables keep their types, and what is written is as long as       *)
(* ByteSize said, whatever is merged between the two:                      *)
(* SerializePartialToCodedStream ends the process if not.  The merge adds  *)
(* fields and changes values, but a vehicle that has passed IsInitialized  *)
(* has every field, and no value changes its width.                        *)
SizesAgree == TypeOK /\ \A r \in Readers : rpc[r] = "written" => bytes[r] = size[r]

(* A vehicle is sent whole, and every field is as new as the updates that  *)
(* were merged when its thread came to it, though the fields may come from *)
(* different updates.  A default is sent only for a field the vehicle was  *)
(* added without.  The thread that sends a vehicle keeps it from being     *)
(* destroyed, though the main thread may erase it at any moment.           *)
SentIsCurrent == \A r \in Readers :
    /\ rpc[r] # "idle" => alive
    /\ rpc[r] = "written" =>
          \A f \in Leaves : \/ sent[r][f] \in since[r]..version
                            \/ sent[r][f] = Default /\ f \notin first /\ since[r] = 0

(* No client is sent an older value of a field than he was sent before.    *)
NeverBack == [][\A r \in Readers, f \in Leaves : sent'[r][f] >= sent[r][f]]_vars
=============================================================================

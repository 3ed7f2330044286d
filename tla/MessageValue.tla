---------------------------- MODULE MessageValue ----------------------------
(***************************************************************************)
(* What a generated protobuf message promises: it is a value.  A field is  *)
(* present with a value or absent, every call changes the value of the     *)
(* message it is called on and of no other, and a message that is written  *)
(* and parsed is the message again.  MessageObject has the storage behind  *)
(* it.                                                                     *)
(*                                                                         *)
(* A singular field is a set of at most one value.  The message has one    *)
(* field of each kind the .proto files use: t a number, s a string, c a    *)
(* message, r a repeated message; u holds the fields of a wire the type    *)
(* does not know.  heldString and heldSub are the objects a caller was     *)
(* given by release_.                                                      *)
(***************************************************************************)
EXTENDS SequencesExt

CONSTANTS Messages, LeafFields

VARIABLES val, heldString, heldSub
valueVars == <<val, heldString, heldSub>>

EmptyLeaf == [f \in LeafFields |-> {}]
EmptyPhone == [number |-> {}, type |-> {}]
EmptyMessage == [t |-> {}, s |-> {}, c |-> {}, r |-> <<>>, u |-> <<>>]

ValueInit == /\ val = [m \in Messages |-> EmptyMessage]
             /\ heldString = {} /\ heldSub = {}

-----------------------------------------------------------------------------
(* Merging: what is present in the other wins, messages field by field.    *)
Or(a, b) == IF b = {} THEN a ELSE b

MergeLeafs(a, b) == [f \in LeafFields |-> Or(a[f], b[f])]

MergeSub(a, b) ==
    IF a = {} \/ b = {} THEN Or(a, b)
    ELSE {MergeLeafs(x, y) : x \in a, y \in b}

Merge(a, b) == [t |-> Or(a.t, b.t), s |-> Or(a.s, b.s), c |-> MergeSub(a.c, b.c),
                r |-> a.r \o b.r, u |-> a.u \o b.u]

(* The parts of a message that a wire cut short can leave behind: nothing  *)
(* that was not sent, the last field perhaps without its content.          *)
PartOfLeaf(a, b) == \A f \in LeafFields : a[f] \subseteq b[f]

PartOfPhone(a, b) == (a.number # {} => b.number # {}) /\ a.type \subseteq b.type

Part(a, b) == /\ a.t \subseteq b.t
              /\ a.s # {} => b.s # {}
              /\ \A x \in a.c : \E y \in b.c : PartOfLeaf(x, y)
              /\ Len(a.r) <= Len(b.r)
              /\ \A i \in DOMAIN a.r : PartOfPhone(a.r[i], b.r[i])
              /\ IsPrefix(a.u, b.u)

-----------------------------------------------------------------------------
Become(m, v) == val' = [val EXCEPT ![m] = v] /\ UNCHANGED <<heldString, heldSub>>

SetField(m) == \/ val'[m].t # {} /\ Become(m, [val[m] EXCEPT !.t = val'[m].t])
               \/ val'[m].s # {} /\ Become(m, [val[m] EXCEPT !.s = val'[m].s])

ClearField(m) == \/ Become(m, [val[m] EXCEPT !.t = {}])
                 \/ Become(m, [val[m] EXCEPT !.s = {}])
                 \/ Become(m, [val[m] EXCEPT !.c = {}])
                 \/ Become(m, [val[m] EXCEPT !.r = <<>>])

(* mutable_c, and a field of it set through the pointer.                   *)
SetSub(m) == \E b \in val'[m].c :
    /\ Become(m, [val[m] EXCEPT !.c = MergeSub(@, {b})])

(* release_: the field's value goes to the caller; an absent field may     *)
(* leave him an empty object or none.                                      *)
Given(value, empty) == {value} \cup (IF value = {} THEN {{empty}} ELSE {})

ReleaseString(m) == /\ heldString' \in Given(val[m].s, "")
                    /\ val' = [val EXCEPT ![m].s = {}]
                    /\ UNCHANGED heldSub

ReleaseSub(m) == /\ heldSub' \in Given(val[m].c, EmptyLeaf)
                 /\ val' = [val EXCEPT ![m].c = {}]
                 /\ UNCHANGED heldString

(* set_allocated_: the caller's object, or NULL, becomes the field.        *)
SetAllocatedString(m) == /\ val' = [val EXCEPT ![m].s = heldString]
                         /\ heldString' = {}
                         /\ UNCHANGED heldSub

SetAllocatedSub(m) == /\ val' = [val EXCEPT ![m].c = heldSub]
                      /\ heldSub' = {}
                      /\ UNCHANGED heldString

DeleteHeld == /\ UNCHANGED val
              /\ \/ heldString' = {} /\ UNCHANGED heldSub
                 \/ heldSub' = {} /\ UNCHANGED heldString

AddPhone(m) == Become(m, [val[m] EXCEPT !.r = Append(@, EmptyPhone)])

SetPhone(m) == \E i \in DOMAIN val[m].r \cap DOMAIN val'[m].r :
    \/ val'[m].r[i].number # {} /\ Become(m, [val[m] EXCEPT !.r[i].number = val'[m].r[i].number])
    \/ val'[m].r[i].type # {} /\ Become(m, [val[m] EXCEPT !.r[i].type = val'[m].r[i].type])
    \/ Become(m, [val[m] EXCEPT !.r[i] = EmptyPhone])

Clear(m) == Become(m, EmptyMessage)
MergeFrom(m, o) == Become(m, Merge(val[m], val[o]))
CopyFrom(m, o) == Become(m, val[o])
Swap(m, o) == /\ val' = [val EXCEPT ![m] = val[o], ![o] = val[m]]
              /\ UNCHANGED <<heldString, heldSub>>

(* Parsing what o was serialized to, with or without a Clear before, with  *)
(* fields of an unknown number behind, or cut short.                       *)
Parse(m, o) == \E u \in {val'[m].u} :
    /\ IsPrefix(val[o].u, u)
    /\ Become(m, [val[o] EXCEPT !.u = u])
ParseMore(m, o) == MergeFrom(m, o)
ParseCut(m, o) == Part(val'[m], val[o]) /\ Become(m, val'[m])

ValueNext ==
    \/ DeleteHeld
    \/ \E m \in Messages :
          \/ SetField(m) \/ ClearField(m) \/ SetSub(m)
          \/ ReleaseString(m) \/ ReleaseSub(m)
          \/ SetAllocatedString(m) \/ SetAllocatedSub(m)
          \/ AddPhone(m) \/ SetPhone(m) \/ Clear(m)
          \/ \E o \in Messages \ {m} : \/ MergeFrom(m, o) \/ CopyFrom(m, o) \/ Swap(m, o)
                                       \/ Parse(m, o) \/ ParseMore(m, o) \/ ParseCut(m, o)

ValueSpec == ValueInit /\ [][ValueNext]_valueVars
=============================================================================

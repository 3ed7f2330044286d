---------------------------- MODULE MessageObject ---------------------------
(***************************************************************************)
(* The storage behind a generated message: presence bits, scalars with     *)
(* their defaults, pointers to strings and sub-messages on the heap, the   *)
(* one empty string every absent string field points to, repeated elements *)
(* kept for reuse, and the wire.  An operation works on x = [o |-> the     *)
(* object, h |-> the heap].  MessageValue has what this implements.        *)
(*                                                                         *)
(* type is the set of field kinds the message's .proto declares: t a       *)
(* number and s a string, in the first eight fields, c a sub-message in    *)
(* the next eight, r a repeated message, u that peers know a field more.   *)
(***************************************************************************)
EXTENDS Integers, FiniteSets, SequencesExt

CONSTANTS Messages, Types, Numbers, Strings,
          Cells,       \* addresses of the heap
          Shared,      \* GetEmptyStringAlreadyInited()
          Null,
          LeafOrder,   \* the fields of a sub-message in the order of their numbers
          PhoneTypes,
          MaxPhones, MaxUnknown  \* bounds of the model

VARIABLES type, obj, heap,
          held   \* what release_ gave the caller: a string and a sub-message, or Null
vars == <<type, obj, heap, held>>

Default == 0
HOME == 1
LeafFields == ToSet(LeafOrder)

Pointers == {"s", "c"}

ASSUME TypeAssumption == \A T \in Types : T \subseteq {"t", "s", "c", "r", "u"}

ASSUME ValueAssumption ==
    /\ Default \in Numbers /\ "" \in Strings /\ HOME \in PhoneTypes
    /\ LeafOrder \in Seq(LeafFields) /\ MaxPhones \in Nat /\ MaxUnknown \in Nat
    /\ \A i, j \in DOMAIN LeafOrder : LeafOrder[i] = LeafOrder[j] => i = j

(* The heap has room for all objects that may exist at a time.             *)
ASSUME HeapAssumption ==
    /\ Shared \notin Cells /\ Null \notin Cells /\ Null # Shared
    /\ IsFiniteSet(Messages) /\ IsFiniteSet(Cells)
    /\ \A T \in Types :
          (Cardinality(Messages) + 1) * Cardinality(T \cap Pointers) <= Cardinality(Cells)

Chunk0 == {"t", "s"}
Chunk1 == {"c"}

-----------------------------------------------------------------------------
(* A sub-message: MVector and MQuaternion.                                 *)
LeafNew == [has |-> {}, v |-> [f \in LeafFields |-> Default]]

LeafSet(l, f, v) == [l EXCEPT !.has = @ \cup {f}, !.v[f] = v]

LeafClear(l) == [l EXCEPT !.v = [f \in LeafFields |-> Default], !.has = {}]

LeafMerge(l, from) ==
    IF from.has = {} THEN l
    ELSE [has |-> l.has \cup from.has,
          v |-> [f \in LeafFields |-> IF f \in from.has THEN from.v[f] ELSE l.v[f]]]

LeafSerialize(l) ==
    FoldLeft(LAMBDA w, f : IF f \in l.has THEN Append(w, <<f, l.v[f]>>) ELSE w, <<>>, LeafOrder)

LeafParse(l, w) == FoldLeft(LAMBDA a, token : LeafSet(a, token[1], token[2]), l, w)

LeafByteSize(l) == IF l.has = {} THEN 0 ELSE Cardinality(l.has)

(* An element: PhoneNumber, a string and an enum whose default is HOME.    *)
PhoneNew == [has |-> {}, number |-> "", type |-> HOME]

PhoneSetNumber(p, s) == [p EXCEPT !.has = @ \cup {"number"}, !.number = s]
PhoneSetType(p, k) == [p EXCEPT !.has = @ \cup {"type"}, !.type = k]

PhoneClear(p) ==
    IF p.has = {} THEN p
    ELSE [has |-> {}, number |-> IF "number" \in p.has THEN "" ELSE p.number, type |-> HOME]

PhoneMerge(p, from) ==
    LET n == IF "number" \in from.has THEN PhoneSetNumber(p, from.number) ELSE p
    IN IF "type" \in from.has THEN PhoneSetType(n, from.type) ELSE n

PhoneSerialize(p) == (IF "number" \in p.has THEN <<<<"number", p.number>>>> ELSE <<>>)
                     \o (IF "type" \in p.has THEN <<<<"type", p.type>>>> ELSE <<>>)

PhoneParse(p, w) ==
    FoldLeft(LAMBDA a, token : IF token[1] = "number" THEN PhoneSetNumber(a, token[2])
                               ELSE PhoneSetType(a, token[2]), p, w)

PhoneByteSize(p) == IF p.has = {} THEN 0
                    ELSE Cardinality(p.has \cap {"number"}) + Cardinality(p.has \cap {"type"})

-----------------------------------------------------------------------------
(* The message.                                                            *)
SharedCtor == [has |-> {}, t |-> Default, s |-> Shared, c |-> Null, r |-> <<>>, n |-> 0, u |-> <<>>]

Alloc(h) == CHOOSE p \in Cells : p \notin h.live
Delete(h, p) == [h EXCEPT !.live = @ \ {p}, !.str[p] = "", !.leaf[p] = LeafNew]

SharedDtor(x) == LET h == IF x.o.s # Shared THEN Delete(x.h, x.o.s) ELSE x.h
                 IN IF x.o.c # Null THEN Delete(h, x.o.c) ELSE h

SetScalar(x, v) == [x EXCEPT !.o.has = @ \cup {"t"}, !.o.t = v]
ClearScalar(x) == [x EXCEPT !.o.t = Default, !.o.has = @ \ {"t"}]

MutableString(x) ==
    LET p == IF x.o.s = Shared THEN Alloc(x.h) ELSE x.o.s
    IN [x EXCEPT !.o.has = @ \cup {"s"}, !.o.s = p, !.h.live = @ \cup {p}]

SetString(x, v) == LET y == MutableString(x) IN [y EXCEPT !.h.str[y.o.s] = v]

EmptyOwnString(x) == IF x.o.s # Shared THEN [x EXCEPT !.h.str[x.o.s] = ""] ELSE x

ClearString(x) == [EmptyOwnString(x) EXCEPT !.o.has = @ \ {"s"}]

GetSub(o, h) == IF o.c # Null THEN h.leaf[o.c] ELSE LeafNew

MutableSub(x) ==
    LET p == IF x.o.c = Null THEN Alloc(x.h) ELSE x.o.c
    IN [x EXCEPT !.o.has = @ \cup {"c"}, !.o.c = p, !.h.live = @ \cup {p}]

EmptySub(x) == IF x.o.c # Null THEN [x EXCEPT !.h.leaf[x.o.c] = LeafClear(@)] ELSE x

(* Mutant: the bit without the content.                                    *)
ClearSubBit(x) == [x EXCEPT !.o.has = @ \ {"c"}]

ClearSub(x) == [EmptySub(x) EXCEPT !.o.has = @ \ {"c"}]

(* RepeatedPtrField: n elements in use, the rest of r cleared and kept.    *)
AddPhone(x) == [x EXCEPT !.o.r = IF x.o.n < Len(@) THEN @ ELSE Append(@, PhoneNew),
                         !.o.n = @ + 1]

PhonesOf(o) == SubSeq(o.r, 1, o.n)

ClearPhones(x) == [x EXCEPT !.o.r = [i \in DOMAIN @ |-> IF i <= x.o.n THEN PhoneClear(@[i]) ELSE @[i]],
                            !.o.n = 0]

MergePhone(x, p) == LET y == AddPhone(x) IN [y EXCEPT !.o.r[y.o.n] = PhoneMerge(@, p)]

-----------------------------------------------------------------------------
(* Operations on the whole message.                                        *)
Clear(x) ==
    LET a == IF x.o.has \cap Chunk0 = {} THEN x
             ELSE [IF "s" \in x.o.has THEN EmptyOwnString(x) ELSE x EXCEPT !.o.t = Default]
        b == IF x.o.has \cap Chunk1 = {} THEN a ELSE EmptySub(a)
    IN [ClearPhones(b) EXCEPT !.o.has = {}, !.o.u = <<>>]

MergeFrom(x, from) ==
    LET a == FoldLeft(MergePhone, x, PhonesOf(from))
        b == IF "t" \in from.has THEN SetScalar(a, from.t) ELSE a
        c == IF "s" \in from.has THEN SetString(b, x.h.str[from.s]) ELSE b
        d == IF "c" \in from.has
             THEN LET y == MutableSub(c)
                  IN [y EXCEPT !.h.leaf[y.o.c] = LeafMerge(@, GetSub(from, x.h))]
             ELSE c
    IN [d EXCEPT !.o.u = @ \o from.u]

CopyFrom(x, from) == MergeFrom(Clear(x), from)

(* A wire is a sequence of fields <<kind, content>>; a field is the unit   *)
(* of its size.                                                            *)
SerializeSub(o, h) == IF "c" \in o.has THEN <<<<"c", LeafSerialize(GetSub(o, h))>>>> ELSE <<>>

Serialize(o, h) ==
    (IF "t" \in o.has THEN <<<<"t", o.t>>>> ELSE <<>>)
    \o (IF "s" \in o.has THEN <<<<"s", h.str[o.s]>>>> ELSE <<>>)
    \o SerializeSub(o, h)
    \o [i \in 1..o.n |-> <<"r", PhoneSerialize(o.r[i])>>]
    \o [i \in DOMAIN o.u |-> <<"u", o.u[i]>>]

(* Mutant: the second group of fields is looked for in the first's bits.   *)
ByteSizeFirstChunk(o, h) ==
    (IF o.has \cap Chunk0 = {} THEN 0
     ELSE Cardinality(o.has \cap Chunk0) + Cardinality(o.has \cap Chunk1) + LeafByteSize(GetSub(o, h)))
    + FoldLeft(LAMBDA size, p : size + 1 + PhoneByteSize(p), 0, PhonesOf(o))
    + Len(o.u)

ByteSize(o, h) ==
    (IF o.has \cap Chunk0 = {} THEN 0 ELSE Cardinality(o.has \cap {"t"}) + Cardinality(o.has \cap {"s"}))
    + (IF o.has \cap Chunk1 = {} THEN 0 ELSE 1 + LeafByteSize(GetSub(o, h)))
    + FoldLeft(LAMBDA size, p : size + 1 + PhoneByteSize(p), 0, PhonesOf(o))
    + Len(o.u)

(* Mutant: a sub-message on the wire replaces the one that is there.       *)
ParseSubReplaces(x, w) ==
    LET y == MutableSub(x) IN [y EXCEPT !.h.leaf[y.o.c] = LeafParse(LeafNew, w)]

(* A sub-message on the wire is merged into the one that is there.         *)
ParseSub(x, w) ==
    LET y == MutableSub(x) IN [y EXCEPT !.h.leaf[y.o.c] = LeafParse(@, w)]

ParsePhone(x, w) == LET y == AddPhone(x) IN [y EXCEPT !.o.r[y.o.n] = PhoneParse(@, w)]

ParseUnknown(x, v) == [x EXCEPT !.o.u = Append(@, v)]

ParseField(x, token) ==
    CASE token[1] = "t" -> SetScalar(x, token[2])
      [] token[1] = "s" -> SetString(x, token[2])
      [] token[1] = "c" -> ParseSub(x, token[2])
      [] token[1] = "r" -> ParsePhone(x, token[2])
      [] OTHER -> ParseUnknown(x, token[2])

MergePartialFromCodedStream(x, w) == FoldLeft(ParseField, x, w)

(* The stream ends inside a field: the case has set its bit, or added its  *)
(* element, before it read the content, except for a number.  Of a message *)
(* j fields have been read.                                                *)
ParseCutField(x, token, j) ==
    CASE token[1] = "s" -> SetString(x, "")
      [] token[1] \in {"c", "r"} -> ParseField(x, <<token[1], SubSeq(token[2], 1, j)>>)
      [] OTHER -> x

-----------------------------------------------------------------------------
Init == /\ type \in Types
        /\ obj = [m \in Messages |-> SharedCtor]
        /\ heap = [str |-> [p \in {Shared} \cup Cells |-> ""],
                   leaf |-> [p \in Cells |-> LeafNew], live |-> {}]
        /\ held = [k \in Pointers |-> Null]

At(m) == [o |-> obj[m], h |-> heap]
Store(m, x) == obj' = [obj EXCEPT ![m] = x.o] /\ heap' = x.h
Update(m, x) == Store(m, x) /\ UNCHANGED <<type, held>>

ScalarCalls(m) == /\ "t" \in type
                  /\ \/ \E v \in Numbers : Update(m, SetScalar(At(m), v))
                     \/ Update(m, ClearScalar(At(m)))

(* The caller holds at most one object of a kind; an object he is given is *)
(* his to delete or to hand to a message with set_allocated_.              *)
ReleaseString(m) ==
    /\ held["s"] = Null
    /\ held' = [held EXCEPT !["s"] = IF obj[m].s = Shared THEN Null ELSE obj[m].s]
    /\ obj' = [obj EXCEPT ![m].has = @ \ {"s"}, ![m].s = Shared]
    /\ UNCHANGED <<type, heap>>

SetAllocatedString(m) ==
    /\ heap' = IF obj[m].s # Shared THEN Delete(heap, obj[m].s) ELSE heap
    /\ obj' = [obj EXCEPT ![m].has = IF held["s"] # Null THEN @ \cup {"s"} ELSE @ \ {"s"},
                          ![m].s = IF held["s"] # Null THEN held["s"] ELSE Shared]
    /\ held' = [held EXCEPT !["s"] = Null]
    /\ UNCHANGED type

StringCalls(m) == /\ "s" \in type
                  /\ \/ \E v \in Strings : Update(m, SetString(At(m), v))
                     \/ Update(m, ClearString(At(m)))
                     \/ ReleaseString(m)
                     \/ SetAllocatedString(m)

(* mutable_ and the call it is made for, as in main.cpp's                  *)
(* mutable_chassiscom()->set_x(..).                                        *)
SetThroughSub(m) == \E f \in LeafFields, v \in Numbers :
    LET y == MutableSub(At(m)) IN Update(m, [y EXCEPT !.h.leaf[y.o.c] = LeafSet(@, f, v)])

ReleaseSub(m) == /\ held["c"] = Null
                 /\ held' = [held EXCEPT !["c"] = obj[m].c]
                 /\ obj' = [obj EXCEPT ![m].has = @ \ {"c"}, ![m].c = Null]
                 /\ UNCHANGED <<type, heap>>

(* Mutant: the sub-message that was there is not deleted.                  *)
SetAllocatedSubOver(m) ==
    /\ obj' = [obj EXCEPT ![m].has = IF held["c"] # Null THEN @ \cup {"c"} ELSE @ \ {"c"},
                          ![m].c = held["c"]]
    /\ held' = [held EXCEPT !["c"] = Null]
    /\ UNCHANGED <<type, heap>>

SetAllocatedSub(m) ==
    /\ heap' = IF obj[m].c # Null THEN Delete(heap, obj[m].c) ELSE heap
    /\ obj' = [obj EXCEPT ![m].has = IF held["c"] # Null THEN @ \cup {"c"} ELSE @ \ {"c"},
                          ![m].c = held["c"]]
    /\ held' = [held EXCEPT !["c"] = Null]
    /\ UNCHANGED type

SubCalls(m) == /\ "c" \in type
               /\ \/ SetThroughSub(m)
                  \/ Update(m, ClearSub(At(m)))
                  \/ ReleaseSub(m)
                  \/ SetAllocatedSub(m)

PhoneCalls(m) ==
    /\ "r" \in type
    /\ \/ obj[m].n < MaxPhones /\ Update(m, AddPhone(At(m)))
       \/ Update(m, ClearPhones(At(m)))
       \/ \E i \in 1..obj[m].n :
             \E p \in {PhoneSetNumber(obj[m].r[i], v) : v \in Strings}
                      \cup {PhoneSetType(obj[m].r[i], k) : k \in PhoneTypes}
                      \cup {PhoneClear(obj[m].r[i])} :
                Update(m, [At(m) EXCEPT !.o.r[i] = p])

DeleteHeld(k) == /\ held[k] # Null
                 /\ heap' = Delete(heap, held[k])
                 /\ held' = [held EXCEPT ![k] = Null]
                 /\ UNCHANGED <<type, obj>>

(* A message goes out of scope and another takes its place, empty or as a  *)
(* copy of o.                                                              *)
Renew(m, o) ==
    LET x == [o |-> SharedCtor, h |-> SharedDtor(At(m))]
    IN \/ Update(m, x)
       \/ Update(m, MergeFrom(x, obj[o]))

Swap(m, o) == /\ obj' = [obj EXCEPT ![m] = obj[o], ![o] = obj[m]]
              /\ UNCHANGED <<type, heap, held>>

RoomFor(m, o) == /\ obj[m].n + obj[o].n <= MaxPhones
                 /\ Len(obj[m].u) + Len(obj[o].u) <= MaxUnknown

(* m parses what o was serialized to: by a peer that knows a field more,   *)
(* without clearing m first, or from a stream that ended too soon.         *)
ParseFrom(m, o) == \E newer \in BOOLEAN :
    LET w == Serialize(obj[o], heap) \o (IF newer THEN <<<<"u", "newer">>>> ELSE <<>>)
    IN /\ newer => "u" \in type /\ Len(obj[o].u) < MaxUnknown
       /\ Update(m, MergePartialFromCodedStream(Clear(At(m)), w))

ParseMore(m, o) ==
    /\ RoomFor(m, o)
    /\ Update(m, MergePartialFromCodedStream(At(m), Serialize(obj[o], heap)))

ParseCut(m, o) ==
    LET w == Serialize(obj[o], heap)
    IN \E k \in DOMAIN w, j \in 0..Len(LeafOrder) :
          /\ w[k][1] \in {"c", "r"} => j < Len(w[k][2])
          /\ Update(m, ParseCutField(MergePartialFromCodedStream(Clear(At(m)), SubSeq(w, 1, k - 1)),
                                     w[k], j))

Next == \/ \E k \in Pointers : DeleteHeld(k)
        \/ \E m \in Messages :
              \/ ScalarCalls(m) \/ StringCalls(m) \/ SubCalls(m) \/ PhoneCalls(m)
              \/ Update(m, Clear(At(m)))
              \/ \E o \in Messages \ {m} :
                    \/ RoomFor(m, o) /\ Update(m, MergeFrom(At(m), obj[o]))
                    \/ Update(m, CopyFrom(At(m), obj[o]))
                    \/ Renew(m, o) \/ Swap(m, o)
                    \/ ParseFrom(m, o) \/ ParseMore(m, o) \/ ParseCut(m, o)

Spec == Init /\ [][Next]_vars

-----------------------------------------------------------------------------
Leafs == [has : SUBSET LeafFields, v : [LeafFields -> Numbers]]
Phones == [has : SUBSET {"number", "type"}, number : Strings, type : PhoneTypes]

(* The variables keep their types, and nothing points to freed memory.     *)
TypeOK ==
    /\ type \in Types
    /\ held \in [Pointers -> heap.live \cup {Null}]
    /\ heap \in [str : [{Shared} \cup Cells -> Strings], leaf : [Cells -> Leafs], live : SUBSET Cells]
    /\ \A m \in Messages :
          /\ DOMAIN obj[m] = DOMAIN SharedCtor
          /\ obj[m].has \subseteq type /\ obj[m].t \in Numbers
          /\ obj[m].s \in heap.live \cup {Shared} /\ obj[m].c \in heap.live \cup {Null}
          /\ obj[m].r \in Seq(Phones) /\ obj[m].n \in 0..Len(obj[m].r)
          /\ obj[m].u \in Seq({"newer"})

(* An absent field reads as its default, whatever the field held before:   *)
(* the getters return the storage and do not ask the presence bits, clear_ *)
(* and Clear keep strings, sub-messages and elements for reuse, and Clear  *)
(* skips the fields whose bits are off.  The empty string that all share   *)
(* stays empty.                                                            *)
LeafReadsDefault(l) == \A f \in LeafFields \ l.has : l.v[f] = Default

AbsentIsDefault ==
    /\ heap.str[Shared] = ""
    /\ \A p \in Cells : LeafReadsDefault(heap.leaf[p])
    /\ \A m \in Messages : LET o == obj[m] IN
          /\ "t" \notin o.has => o.t = Default
          /\ "s" \notin o.has => heap.str[o.s] = ""
          /\ IF "c" \in o.has THEN o.c # Null ELSE GetSub(o, heap) = LeafNew
          /\ \A i \in DOMAIN o.r :
                /\ "number" \notin o.r[i].has => o.r[i].number = ""
                /\ "type" \notin o.r[i].has => o.r[i].type = HOME
                /\ i > o.n => o.r[i].has = {}

(* The variables keep their types, by which nothing points to memory that  *)
(* was freed, and every object on the heap has exactly one owner, a message*)
(* or the caller: no swap, copy, release, set_allocated or destructor      *)
(* shares one, deletes one twice or leaks it.                              *)
SoleOwner == TypeOK /\
    \A p \in heap.live :
          Cardinality({m \in Messages : obj[m].s = p}) + Cardinality({m \in Messages : obj[m].c = p})
          + Cardinality({k \in Pointers : held[k] = p}) = 1

(* The size computed before a message is written is the size of what is    *)
(* written; SerializeToArray and SerializeToOstream rely on it.            *)
WireSize(w) == FoldLeft(LAMBDA size, token :
    size + 1 + (IF token[1] \in {"c", "r"} THEN Len(token[2]) ELSE 0), 0, w)

ByteSizeIsWireSize == \A m \in Messages :
    ByteSize(obj[m], heap) = WireSize(Serialize(obj[m], heap))

(* A message behaves as a value: what its has_ and getters show is what    *)
(* the calls made on it, and on no other message, make it.  Parsing what   *)
(* was serialized gives the message again.                                 *)
LeafValue(l) == [f \in LeafFields |-> IF f \in l.has THEN {l.v[f]} ELSE {}]

Value(o) ==
    [t |-> IF "t" \in o.has THEN {o.t} ELSE {},
     s |-> IF "s" \in o.has THEN {heap.str[o.s]} ELSE {},
     c |-> IF "c" \in o.has THEN {LeafValue(GetSub(o, heap))} ELSE {},
     r |-> [i \in 1..o.n |->
              [number |-> IF "number" \in o.r[i].has THEN {o.r[i].number} ELSE {},
               type |-> IF "type" \in o.r[i].has THEN {o.r[i].type} ELSE {}]],
     u |-> o.u]

MV == INSTANCE MessageValue WITH
    val <- [m \in Messages |-> Value(obj[m])],
    heldString <- IF held["s"] # Null THEN {heap.str[held["s"]]} ELSE {},
    heldSub <- IF held["c"] # Null THEN {LeafValue(heap.leaf[held["c"]])} ELSE {}

ImplementsValue == MV!ValueSpec
=============================================================================

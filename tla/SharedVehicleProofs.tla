------------------------- MODULE SharedVehicleProofs ------------------------
(***************************************************************************)
(* What the vehicle that is merged and sent at once keeps, for any number  *)
(* of connections that send it, of updates, and whatever the client left   *)
(* out of its first message: the lengths agree, what is sent is current,   *)
(* and never older than what was sent before.                              *)
(***************************************************************************)
EXTENDS SharedVehicle, TLAPS

(* What is still to be stored of the field being merged is of its setter,  *)
(* and the rest of the setter has taken effect.                            *)
WriterInv == step > 0 =>
    /\ version > 0
    /\ writes \subseteq StoresOf(Fields[step])
    /\ "has" \notin writes => Fields[step] \in has
    /\ Fields[step] = "com" /\ "pointer" \notin writes => com

(* The place of a field that holds a value, among all.                     *)
Place(f) == IF f = "timestamp" THEN 1 ELSE IF f = "number" THEN 2 ELSE 4

(* The last update of which every field has been merged, and the last of   *)
(* which f has.                                                            *)
Base == IF step = 0 THEN version ELSE version - 1

Newest(f) == IF step > Place(f) \/ (step = Place(f) /\ "value" \notin writes)
             THEN version ELSE Base

(* The storage of a field has the newest value merged, and its default     *)
(* only as long as the vehicle was never given one.                        *)
ValuesInv == \A f \in Leaves :
    val[f] = IF Newest(f) = 0 /\ f \notin first THEN Default ELSE Newest(f)

(* The vehicle lives as long as the world or a connection has it.          *)
AliveInv == alive = (inWorld \/ \E r \in Readers : rpc[r] # "idle")

(* Once past IsInitialized, a vehicle stays whole.                         *)
Whole == Top \cup {"x"} \subseteq has /\ com

CheckedInv(r) == /\ rpc[r] = "check_com" => Top \subseteq has
                 /\ rpc[r] \in {"size", "write", "written"} => Whole

(* Bytes of the fields before each, and of all, of a vehicle that is whole.*)
BytesBefore == <<0, 6, 8, 10, 19>>

LengthsInv(r) ==
    /\ rpc[r] = "size" => size[r] = BytesBefore[at[r]]
    /\ rpc[r] = "write" => size[r] = BytesBefore[5] /\ bytes[r] = BytesBefore[at[r]]
    /\ rpc[r] = "written" => size[r] = BytesBefore[5] /\ bytes[r] = BytesBefore[5]

(* What has been written of a field since the thread began.                *)
Current(r, f) == \/ sent[r][f] \in since[r]..version
                 \/ sent[r][f] = Default /\ f \notin first /\ since[r] = 0

SentInv(r) ==
    /\ rpc[r] # "idle" => since[r] <= Base
    /\ \A f \in Leaves : /\ sent[r][f] <= val[f]
                         /\ rpc[r] = "write" /\ Place(f) < at[r] => Current(r, f)
                         /\ rpc[r] = "written" => Current(r, f)

IInv == /\ TypeOK /\ WriterInv /\ ValuesInv /\ AliveInv
        /\ \A r \in Readers : CheckedInv(r) /\ LengthsInv(r) /\ SentInv(r)
-----------------------------------------------------------------------------
(* The fields, by their places.                                            *)
LEMMA FieldsAre ==
  /\ Len(Fields) = 4 /\ Fields[1] = "timestamp" /\ Fields[2] = "number"
  /\ Fields[3] = "com" /\ Fields[4] = "x"
  /\ \A f \in Leaves : Place(f) \in 1..4 /\ Fields[Place(f)] = f
  /\ \A i \in 1..4 : Fields[i] \in Top \cup {"x"} /\ (i # 3 => Fields[i] \in Leaves /\ Place(Fields[i]) = i)
  BY DEF Fields, Place, Leaves, Top

(* The updates that are or are being merged are in their bounds.           *)
LEMMA Bounds ==
  ASSUME TypeOK, WriterInv
  PROVE  /\ version \in Nat /\ version <= MaxVersion /\ step \in 0..4
         /\ Base \in Nat /\ Base <= version
         /\ \A f \in Leaves : Newest(f) \in {Base, version}
  BY FieldsAre, BoundAssumption DEF TypeOK, WriterInv, Base, Newest

(* And the storage of a field with them.                                   *)
LEMMA StorageBounds ==
  ASSUME TypeOK, WriterInv, ValuesInv, NEW f \in Leaves
  PROVE  /\ val[f] \in Int /\ val[f] <= version /\ val[f] >= Default
         /\ val[f] \in Base..version \/ (val[f] = Default /\ f \notin first /\ Base = 0)
  BY Bounds DEF ValuesInv, Default

(* Every field of a vehicle that is whole has one length.                  *)
LEMMA WholeLengths ==
  ASSUME TypeOK, WriterInv, ValuesInv, Whole, NEW i \in 1..4
  PROVE  BytesBefore[i] + SizeOf(Fields[i]) = BytesBefore[i + 1]
  <1>1. "timestamp" \in first
    BY FirstAssumption DEF TypeOK
  <1>2. val["timestamp"] # Default
    <2>1. "timestamp" \in Leaves
      BY DEF Leaves
    <2>2. val["timestamp"] \in Base..version /\ Base \in Nat /\ version \in Nat
      BY <1>1, <2>1, StorageBounds, Bounds
    <2>3. QED
      BY <2>2 DEF Default
  <1>3. \A j \in 1..4 : Present(Fields[j]) /\ (j # 3 => Read(Fields[j]) = val[Fields[j]])
    BY FieldsAre DEF Whole, Present, Read
  <1>4. CASE i = 1
    <2>1. SizeOf(Fields[i]) = 6
      BY <1>2, <1>3, <1>4, FieldsAre DEF SizeOf, Width
    <2>2. QED
      BY <1>4, <2>1 DEF BytesBefore
  <1>5. CASE i = 2
    <2>1. SizeOf(Fields[i]) = 2
      BY <1>3, <1>5, FieldsAre DEF SizeOf, Width
    <2>2. QED
      BY <1>5, <2>1 DEF BytesBefore
  <1>6. CASE i = 3
    <2>1. SizeOf(Fields[i]) = 2
      BY <1>3, <1>6, FieldsAre DEF SizeOf
    <2>2. QED
      BY <1>6, <2>1 DEF BytesBefore
  <1>7. CASE i = 4
    <2>1. SizeOf(Fields[i]) = 9
      BY <1>3, <1>7, FieldsAre DEF SizeOf, Width
    <2>2. QED
      BY <1>7, <2>1 DEF BytesBefore
  <1>8. QED
    BY <1>4, <1>5, <1>6, <1>7

-----------------------------------------------------------------------------
(* A vehicle that has been put into the world and not been sent.           *)
LEMMA IInvInit == Init => IInv
  <1> SUFFICES ASSUME Init PROVE IInv
    OBVIOUS
  <1>1. first \subseteq Top \cup {"x"} /\ first \in FirstMessages
    BY FirstAssumption DEF Init
  <1>2. TypeOK
    <2>1. val \in [Leaves -> Values] /\ sent \in [Readers -> [Leaves -> Values]]
      BY BoundAssumption DEF Init, Values
    <2>2. com \in BOOLEAN /\ inWorld \in BOOLEAN /\ alive \in BOOLEAN
      BY DEF Init
    <2>3. ~(com = FALSE /\ "com" \in has)
      BY DEF Init
    <2>4. has \subseteq Top \cup {"x"} /\ (writes = {} <=> step = 0) /\ step \in 0..Len(Fields)
      BY <1>1, FieldsAre DEF Init
    <2>5. QED
      BY <1>1, <2>1, <2>2, <2>3, <2>4, FieldsAre, BoundAssumption DEF Init, TypeOK
  <1>3. WriterInv /\ AliveInv
    <2>1. alive /\ inWorld /\ alive \in BOOLEAN
      BY DEF Init
    <2>2. AliveInv
      BY <2>1 DEF AliveInv
    <2>3. QED
      BY <2>2 DEF Init, WriterInv
  <1>4. ValuesInv
    BY DEF Init, ValuesInv, Newest, Base, Place
  <1>5. ASSUME NEW r \in Readers PROVE CheckedInv(r) /\ LengthsInv(r) /\ SentInv(r)
    BY BoundAssumption DEF Init, CheckedInv, LengthsInv, SentInv, Base, Default
  <1>6. QED
    BY <1>2, <1>3, <1>4, <1>5 DEF IInv

-----------------------------------------------------------------------------
(* The main thread                                                         *)

(* Whatever it does to the vehicle, a connection that sends it is not      *)
(* disturbed as long as fields are added and values get newer.             *)
LEMMA ReadersUndisturbed ==
  ASSUME IInv, UNCHANGED <<first, reader>>, has \subseteq has', com => com',
         Base <= Base', version <= version',
         Base \in Int, Base' \in Int, version' \in Int,
         \A f \in Leaves : val'[f] \in Int /\ val[f] <= val'[f],
         NEW r \in Readers
  PROVE  (CheckedInv(r) /\ LengthsInv(r) /\ SentInv(r))'
  <1>1. CheckedInv(r)'
    BY DEF IInv, CheckedInv, Whole, reader
  <1>2. LengthsInv(r)'
    BY DEF IInv, LengthsInv, reader
  <1>3. since[r] \in Int /\ version \in Int /\ \A f \in Leaves : sent[r][f] \in Int /\ val[f] \in Int
    BY Bounds, StorageBounds DEF IInv, TypeOK, Values, Default
  <1>4. rpc'[r] # "idle" => since'[r] <= Base'
    BY <1>3 DEF IInv, SentInv, reader
  <1>5. ASSUME NEW f \in Leaves
        PROVE  /\ sent'[r][f] <= val'[f]
               /\ rpc'[r] = "write" /\ Place(f) < at'[r] => Current(r, f)'
               /\ rpc'[r] = "written" => Current(r, f)'
    <2>1. sent[r][f] <= val[f]
      BY DEF IInv, SentInv
    <2>2. sent'[r][f] <= val'[f]
      BY <1>3, <2>1 DEF reader
    <2>3. Current(r, f) => Current(r, f)'
      BY <1>3 DEF Current, reader
    <2>4. QED
      BY <2>2, <2>3 DEF IInv, SentInv, reader
  <1>6. SentInv(r)'
    BY <1>4, <1>5 DEF SentInv
  <1>7. QED
    BY <1>1, <1>2, <1>6

(* An update begins: nothing has been merged of it.                        *)
LEMMA UpdateKeeps == IInv /\ UpdateVehicle => IInv'
  <1> SUFFICES ASSUME IInv, UpdateVehicle PROVE IInv'
    OBVIOUS
  <1>1. /\ step = 0 /\ step' = 1 /\ writes' = {"has", "value"}
        /\ version' = version + 1 /\ version < MaxVersion
        /\ UNCHANGED <<first, has, val, com, inWorld, alive>> /\ UNCHANGED reader
    BY FieldsAre DEF UpdateVehicle, MergeNext, StoresOf, object
  <1>2. version \in Nat
    BY Bounds DEF IInv
  <1>3. WriterInv'
    BY <1>1, <1>2, FieldsAre DEF WriterInv, StoresOf
  <1>4. Base' = Base /\ Base \in Int /\ \A f \in Leaves : Newest(f) = Base /\ Newest(f)' = Base
    BY <1>1, <1>2, FieldsAre DEF Base, Newest
  <1>5. ValuesInv'
    BY <1>1, <1>4 DEF IInv, ValuesInv
  <1>6. AliveInv'
    BY <1>1 DEF IInv, AliveInv, reader
  <1>7. TypeOK'
    BY <1>1, <1>2, FieldsAre, BoundAssumption DEF IInv, TypeOK, reader
  <1>8. \A f \in Leaves : val'[f] \in Int /\ val[f] <= val'[f]
    BY <1>1, StorageBounds DEF IInv
  <1>9. ASSUME NEW r \in Readers PROVE (CheckedInv(r) /\ LengthsInv(r) /\ SentInv(r))'
    BY <1>1, <1>2, <1>4, <1>8, ReadersUndisturbed
  <1>10. QED
    BY <1>3, <1>5, <1>6, <1>7, <1>9 DEF IInv

(* A setter's store is done: the next one follows, or the next field.      *)
Advanced(w) ==
    \/ step' = step /\ writes' = writes \ {w} /\ writes # {w}
    \/ writes = {w} /\ step < 4 /\ step' = step + 1 /\ writes' = StoresOf(Fields[step'])
    \/ writes = {w} /\ step = 4 /\ step' = 0 /\ writes' = {}

(* A store that is done is one of a field's, and the setter moves on.       *)
LEMMA StoredAdvances ==
  ASSUME IInv, NEW w \in writes, Stored(w)
  PROVE  step \in 1..4 /\ Advanced(w)
  <1>1. step \in 1..4
    BY FieldsAre DEF IInv, TypeOK
  <1>2. QED
    BY <1>1, FieldsAre DEF Stored, MergeNext, Advanced

(* What is stored of a field keeps the types and the main thread's part,   *)
(* if it has been stored as the setter says.                               *)
LEMMA StoreKeepsTypes ==
  ASSUME IInv, NEW w \in writes, step \in 1..4, Advanced(w),
         UNCHANGED <<first, inWorld, alive, version>>, UNCHANGED reader,
         has' = IF w = "has" THEN has \cup {Fields[step]} ELSE has,
         com' = IF w = "pointer" THEN TRUE ELSE com,
         val' \in [Leaves -> Values]
  PROVE  TypeOK' /\ WriterInv' /\ AliveInv'
  <1>1. com' \in BOOLEAN /\ (w = "pointer" => com') /\ (w # "pointer" => com' = com)
    BY DEF IInv, TypeOK
  <1>2. version > 0
    BY DEF IInv, WriterInv
  <1>3. Fields[step] = "com" <=> step = 3
    BY FieldsAre
  <1>4. WriterInv'
    BY <1>1, <1>2, FieldsAre DEF IInv, WriterInv, Advanced, StoresOf
  <1>5. has' \subseteq Top \cup {"x"}
    BY FieldsAre DEF IInv, TypeOK
  <1>6. step' \in 0..Len(Fields) /\ writes' \subseteq {"has", "value", "pointer"}
    <2>1. StoresOf(Fields[step']) \subseteq {"has", "value", "pointer"}
      BY DEF StoresOf
    <2>2. writes \subseteq {"has", "value", "pointer"}
      BY DEF IInv, TypeOK
    <2>3. step' \in 0..4
      BY DEF Advanced
    <2>4. QED
      BY <2>1, <2>2, <2>3, FieldsAre DEF Advanced
  <1>7. writes' = {} <=> step' = 0
    BY FieldsAre DEF Advanced, StoresOf
  <1>8. "com" \in has' /\ ~com' => step' > 0 /\ Fields[step'] = "com"
    <2> SUFFICES ASSUME "com" \in has', ~com' PROVE step' = 3
      BY FieldsAre
    <2>1. ~com /\ w # "pointer"
      BY <1>1 DEF IInv, TypeOK
    <2>2. step = 3
      BY <1>3, <2>1 DEF IInv, TypeOK, Top
    <2>3. "pointer" \in writes
      BY <1>3, <2>1, <2>2 DEF IInv, WriterInv
    <2>4. QED
      BY <2>1, <2>2, <2>3 DEF Advanced
  <1>9. TypeOK'
    BY <1>1, <1>5, <1>6, <1>7, <1>8 DEF IInv, TypeOK, reader
  <1>10. AliveInv'
    BY DEF IInv, AliveInv, reader
  <1>11. QED
    BY <1>4, <1>9, <1>10

(* The newest values move on with the main thread: of the field whose      *)
(* value is stored, and of no other.                                       *)
LEMMA NewestMovesOn ==
  ASSUME IInv, NEW w \in writes, step \in 1..4, Advanced(w), version' = version
  PROVE  /\ Base' \in Int /\ Base <= Base'
         /\ \A f \in Leaves :
               Newest(f)' = IF w = "value" /\ f = Fields[step] THEN version ELSE Newest(f)
  <1>1. version \in Nat /\ version > 0 /\ writes \subseteq StoresOf(Fields[step])
    BY Bounds DEF IInv, WriterInv
  <1>2. Base' \in Int /\ Base <= Base'
    BY <1>1 DEF Base, Advanced
  <1>3. ASSUME NEW f \in Leaves
        PROVE  Newest(f)' = IF w = "value" /\ f = Fields[step] THEN version ELSE Newest(f)
    <2>1. Place(f) \in {1, 2, 4} /\ (f = Fields[step] <=> Place(f) = step)
      BY FieldsAre DEF Place
    <2>2. Place(f) = step => writes \subseteq {"has", "value"}
      BY <1>1, <2>1, FieldsAre DEF StoresOf, Leaves
    <2>3. CASE step' = step /\ writes' = writes \ {w}
      BY <1>1, <2>1, <2>2, <2>3 DEF Newest, Base
    <2>4. CASE writes = {w} /\ step < 4 /\ step' = step + 1 /\ writes' = StoresOf(Fields[step'])
      <3>1. step' = Place(f) => "value" \in writes'
        BY <2>1, <2>4, FieldsAre DEF StoresOf, Leaves
      <3>2. Base' = Base
        BY <2>4 DEF Base
      <3>3. QED
        BY <1>1, <2>1, <2>2, <2>4, <3>1, <3>2 DEF Newest, Base
    <2>5. CASE writes = {w} /\ step = 4 /\ step' = 0 /\ writes' = {}
      BY <1>1, <2>1, <2>2, <2>5 DEF Newest, Base
    <2>6. QED
      BY <2>3, <2>4, <2>5 DEF Advanced
  <1>4. QED
    BY <1>2, <1>3

(* A setter's stores: presence, pointer and value.                         *)
LEMMA StorePresenceKeeps == IInv /\ (StoreHas \/ StorePointer) => IInv'
  <1> SUFFICES ASSUME IInv, StoreHas \/ StorePointer PROVE IInv'
    OBVIOUS
  <1>1. PICK w \in writes \cap {"has", "pointer"} :
           /\ Stored(w)
           /\ has' = IF w = "has" THEN has \cup {Fields[step]} ELSE has
           /\ com' = IF w = "pointer" THEN TRUE ELSE com
           /\ UNCHANGED <<first, val, inWorld, alive, version>> /\ UNCHANGED reader
    <2>1. CASE StoreHas
      BY <2>1 DEF StoreHas
    <2>2. CASE StorePointer
      BY <2>2 DEF StorePointer
    <2>3. QED
      BY <2>1, <2>2
  <1>2. step \in 1..4 /\ Advanced(w)
    BY <1>1, StoredAdvances
  <1>3. val' \in [Leaves -> Values]
    BY <1>1 DEF IInv, TypeOK
  <1>4. TypeOK' /\ WriterInv' /\ AliveInv'
    BY <1>1, <1>2, <1>3, StoreKeepsTypes
  <1>5. Base' \in Int /\ Base <= Base' /\ \A f \in Leaves : Newest(f)' = Newest(f)
    BY <1>1, <1>2, NewestMovesOn
  <1>6. ValuesInv'
    BY <1>1, <1>5 DEF IInv, ValuesInv
  <1>7. Base \in Int /\ version' \in Int /\ \A f \in Leaves : val'[f] \in Int /\ val[f] <= val'[f]
    BY <1>1, Bounds, StorageBounds DEF IInv
  <1>8. has \subseteq has' /\ (com => com') /\ version <= version'
    BY <1>1, <1>7
  <1>9. ASSUME NEW r \in Readers PROVE (CheckedInv(r) /\ LengthsInv(r) /\ SentInv(r))'
    BY <1>1, <1>5, <1>7, <1>8, ReadersUndisturbed
  <1>10. QED
    BY <1>4, <1>6, <1>9 DEF IInv

(* The value is stored.                                                    *)
LEMMA StoreValueKeeps == IInv /\ StoreValue => IInv'
  <1> SUFFICES ASSUME IInv, StoreValue PROVE IInv'
    OBVIOUS
  <1>1. /\ "value" \in writes /\ Stored("value")
        /\ val' = [val EXCEPT ![Fields[step]] = version]
        /\ UNCHANGED <<first, has, com, inWorld, alive, version>> /\ UNCHANGED reader
    BY DEF StoreValue
  <1>2. step \in 1..4 /\ Advanced("value")
    BY <1>1, StoredAdvances
  <1>3. version \in Nat /\ version <= MaxVersion /\ version > 0
    BY <1>2, Bounds DEF IInv, WriterInv
  <1>4. Fields[step] \in Leaves
    BY <1>1, <1>2, FieldsAre DEF IInv, WriterInv, StoresOf
  <1>5. val \in [Leaves -> Values] /\ val' \in [Leaves -> Values]
    BY <1>1, <1>3, BoundAssumption DEF IInv, TypeOK, Values
  <1>6. TypeOK' /\ WriterInv' /\ AliveInv'
    BY <1>1, <1>2, <1>5, StoreKeepsTypes
  <1>7. /\ Base' \in Int /\ Base <= Base'
        /\ \A f \in Leaves : Newest(f)' = IF f = Fields[step] THEN version ELSE Newest(f)
    BY <1>1, <1>2, NewestMovesOn
  <1>8. ValuesInv'
    BY <1>1, <1>3, <1>4, <1>5, <1>7 DEF IInv, ValuesInv
  <1>9. \A f \in Leaves : val'[f] \in Int /\ val[f] <= val'[f]
    BY <1>1, <1>3, <1>4, <1>5, StorageBounds DEF IInv
  <1>10. Base \in Int /\ has \subseteq has' /\ (com => com') /\ version <= version'
    BY <1>1, <1>3, Bounds DEF IInv
  <1>11. ASSUME NEW r \in Readers PROVE (CheckedInv(r) /\ LengthsInv(r) /\ SentInv(r))'
    BY <1>1, <1>3, <1>7, <1>9, <1>10, ReadersUndisturbed
  <1>12. QED
    BY <1>6, <1>8, <1>11 DEF IInv

(* The vehicle is erased, and lives on if a connection has it.             *)
LEMMA RemoveKeeps == IInv /\ RemoveVehicle => IInv'
  <1> SUFFICES ASSUME IInv, RemoveVehicle PROVE IInv'
    OBVIOUS
  <1>1. /\ inWorld' = FALSE /\ alive' = (\E r \in Readers : rpc[r] # "idle")
        /\ UNCHANGED <<first, has, val, com, version, step, writes>> /\ UNCHANGED reader
    BY DEF RemoveVehicle, object, writer
  <1>2. alive' \in BOOLEAN /\ AliveInv'
    BY <1>1 DEF AliveInv, reader
  <1>3. TypeOK'
    BY <1>1, <1>2 DEF IInv, TypeOK, reader
  <1>4. WriterInv' /\ ValuesInv'
    BY <1>1 DEF IInv, WriterInv, ValuesInv, Newest, Base
  <1>5. Base' = Base /\ Base \in Int /\ version \in Int
    BY <1>1, Bounds DEF IInv, Base
  <1>6. \A f \in Leaves : val'[f] \in Int /\ val[f] <= val'[f]
    BY <1>1, StorageBounds DEF IInv
  <1>7. ASSUME NEW r \in Readers PROVE (CheckedInv(r) /\ LengthsInv(r) /\ SentInv(r))'
    BY <1>1, <1>5, <1>6, ReadersUndisturbed
  <1>8. QED
    BY <1>2, <1>3, <1>4, <1>7 DEF IInv

-----------------------------------------------------------------------------
(* The connection threads                                                  *)

ReaderType ==
    /\ rpc \in [Readers -> {"idle", "check", "check_com", "size", "write", "written"}]
    /\ at \in [Readers -> 1..4] /\ since \in [Readers -> 0..MaxVersion]
    /\ size \in [Readers -> Nat] /\ bytes \in [Readers -> Nat]
    /\ sent \in [Readers -> [Leaves -> Values]]

(* A thread changes nothing but its own place and what it has, and is not  *)
(* seen by the others.                                                     *)
LEMMA ReaderKeeps ==
  ASSUME IInv, NEW r \in Readers, UNCHANGED <<first, object, inWorld, writer>>,
         ReaderType', AliveInv', alive' \in BOOLEAN,
         \A q \in Readers \ {r} :
            /\ rpc'[q] = rpc[q] /\ at'[q] = at[q] /\ since'[q] = since[q]
            /\ size'[q] = size[q] /\ bytes'[q] = bytes[q] /\ sent'[q] = sent[q],
         (CheckedInv(r) /\ LengthsInv(r) /\ SentInv(r))'
  PROVE  IInv'
  <1>1. UNCHANGED <<first, has, val, com, inWorld, version, step, writes>>
    BY DEF object, writer
  <1>2. TypeOK'
    BY <1>1, FieldsAre DEF IInv, TypeOK, ReaderType
  <1>3. WriterInv' /\ ValuesInv' /\ Base' = Base
    BY <1>1 DEF IInv, WriterInv, ValuesInv, Newest, Base
  <1>4. ASSUME NEW q \in Readers \ {r} PROVE (CheckedInv(q) /\ LengthsInv(q) /\ SentInv(q))'
    <2>1. CheckedInv(q) /\ LengthsInv(q) /\ SentInv(q)
      BY DEF IInv
    <2>2. CheckedInv(q)' /\ LengthsInv(q)'
      BY <1>1, <2>1 DEF CheckedInv, LengthsInv, Whole
    <2>3. \A f \in Leaves : Current(q, f)' = Current(q, f)
      BY <1>1 DEF Current
    <2>4. SentInv(q)'
      BY <1>1, <1>3, <2>1, <2>3 DEF SentInv
    <2>5. QED
      BY <2>2, <2>4
  <1>5. QED
    BY <1>2, <1>3, <1>4 DEF IInv

(* The types of what the threads have.                                     *)
LEMMA TypesOfReaders == IInv => ReaderType
  BY FieldsAre DEF IInv, TypeOK, ReaderType

(* The thread takes the vehicle out of the world that has it.              *)
LEMMA BeginKeeps == \A r \in Readers : IInv /\ Begin(r) => IInv'
  <1> SUFFICES ASSUME NEW r \in Readers, IInv, Begin(r) PROVE IInv'
    OBVIOUS
  <1>1. /\ inWorld /\ alive' = alive /\ UNCHANGED <<first, object, inWorld, writer>>
        /\ rpc' = [rpc EXCEPT ![r] = "check"] /\ at' = [at EXCEPT ![r] = 1]
        /\ since' = [since EXCEPT ![r] = Base] /\ UNCHANGED <<size, bytes, sent>>
    BY DEF Begin, Goto, Base
  <1>2. Base \in Nat /\ Base <= MaxVersion /\ MaxVersion \in Nat
    BY Bounds, BoundAssumption DEF IInv
  <1>3. ReaderType'
    BY <1>1, <1>2, TypesOfReaders DEF ReaderType
  <1>4. AliveInv' /\ alive' \in BOOLEAN
    <2>1. alive /\ alive \in BOOLEAN
      BY <1>1 DEF IInv, AliveInv, TypeOK
    <2>2. QED
      BY <1>1, <2>1 DEF AliveInv
  <1>5. rpc'[r] = "check" /\ since'[r] = Base /\ sent'[r] = sent[r]
    BY <1>1, TypesOfReaders DEF ReaderType
  <1>6. CheckedInv(r)' /\ LengthsInv(r)'
    BY <1>5 DEF CheckedInv, LengthsInv
  <1>7. Base' = Base /\ val' = val
    BY <1>1 DEF Base, writer, object
  <1>8. SentInv(r)'
    BY <1>2, <1>5, <1>7 DEF IInv, SentInv
  <1>9. \A q \in Readers \ {r} :
            /\ rpc'[q] = rpc[q] /\ at'[q] = at[q] /\ since'[q] = since[q]
            /\ size'[q] = size[q] /\ bytes'[q] = bytes[q] /\ sent'[q] = sent[q]
    BY <1>1, TypesOfReaders DEF ReaderType
  <1>10. QED
    BY <1>1, <1>3, <1>4, <1>6, <1>8, <1>9, ReaderKeeps

(* It lets go of it, whatever it has made of it.                           *)
LEMMA ReleaseKeeps ==
  ASSUME IInv, NEW r \in Readers, Goto(r, "idle"), Release(r),
         UNCHANGED <<first, object, inWorld, writer, since, size, bytes, sent>>
  PROVE  IInv'
  <1>1. rpc'[r] = "idle"
    BY TypesOfReaders DEF ReaderType, Goto
  <1>2. ReaderType'
    BY TypesOfReaders DEF ReaderType, Goto
  <1>3. \A q \in Readers \ {r} :
            /\ rpc'[q] = rpc[q] /\ at'[q] = at[q] /\ since'[q] = since[q]
            /\ size'[q] = size[q] /\ bytes'[q] = bytes[q] /\ sent'[q] = sent[q]
    BY TypesOfReaders DEF ReaderType, Goto
  <1>4. (\E q \in Readers \ {r} : rpc[q] # "idle") <=> (\E q \in Readers : rpc'[q] # "idle")
    BY <1>1, <1>3
  <1>5. AliveInv' /\ alive' \in BOOLEAN
    BY <1>4 DEF Release, AliveInv, object
  <1>6. CheckedInv(r)' /\ LengthsInv(r)'
    BY <1>1 DEF CheckedInv, LengthsInv
  <1>7. SentInv(r)'
    BY <1>1 DEF IInv, SentInv, object
  <1>8. QED
    BY <1>2, <1>3, <1>5, <1>6, <1>7, ReaderKeeps

(* A thread that goes on has the vehicle as before.                        *)
LEMMA StillHas ==
  ASSUME IInv, NEW r \in Readers, rpc[r] # "idle", rpc'[r] # "idle",
         \A q \in Readers \ {r} : rpc'[q] = rpc[q], UNCHANGED <<alive, inWorld>>
  PROVE  AliveInv' /\ alive' \in BOOLEAN
  BY DEF IInv, AliveInv, TypeOK

(* IsInitialized: a thread gets past it with a vehicle that is whole.      *)
LEMMA CheckMessageKeeps == \A r \in Readers : IInv /\ CheckMessage(r) => IInv'
  <1> SUFFICES ASSUME NEW r \in Readers, IInv, CheckMessage(r) PROVE IInv'
    OBVIOUS
  <1>1. rpc[r] = "check"
        /\ UNCHANGED <<first, object, inWorld, writer, since, size, bytes, sent>>
    BY DEF CheckMessage
  <1>2. CASE Top \subseteq has
    <2>1. alive' = alive /\ Goto(r, "check_com")
      BY <1>2 DEF CheckMessage
    <2>2. ReaderType' /\ rpc'[r] = "check_com"
      BY <1>1, <2>1, TypesOfReaders DEF ReaderType, Goto
    <2>3. \A q \in Readers \ {r} : rpc'[q] = rpc[q] /\ at'[q] = at[q]
      BY <2>1, TypesOfReaders DEF ReaderType, Goto
    <2>4. AliveInv' /\ alive' \in BOOLEAN
      BY <1>1, <2>1, <2>2, <2>3, StillHas
    <2>5. CheckedInv(r)' /\ LengthsInv(r)'
      BY <1>1, <1>2, <2>2 DEF CheckedInv, LengthsInv, object
    <2>6. SentInv(r)'
      BY <1>1, <2>2 DEF IInv, SentInv, Base, object, writer
    <2>7. QED
      BY <1>1, <2>2, <2>3, <2>4, <2>5, <2>6, ReaderKeeps
  <1>3. CASE ~(Top \subseteq has)
    <2>1. Goto(r, "idle") /\ Release(r)
      BY <1>3 DEF CheckMessage
    <2>2. QED
      BY <1>1, <2>1, ReleaseKeeps
  <1>4. QED
    BY <1>2, <1>3

(* IsInitialized of the sub-message: the thread goes on only when all is   *)
(* there.                                                                  *)
LEMMA CheckSubKeeps == \A r \in Readers : IInv /\ CheckSub(r) => IInv'
  <1> SUFFICES ASSUME NEW r \in Readers, IInv, CheckSub(r) PROVE IInv'
    OBVIOUS
  <1>1. rpc[r] = "check_com" /\ UNCHANGED <<first, object, inWorld, writer, since, bytes, sent>>
    BY DEF CheckSub
  <1>2. CASE Present("x")
    <2>1. alive' = alive /\ Goto(r, "size") /\ size' = [size EXCEPT ![r] = 0]
      BY <1>2 DEF CheckSub
    <2>2. ReaderType' /\ rpc'[r] = "size" /\ at'[r] = 1 /\ size'[r] = 0
      BY <1>1, <2>1, TypesOfReaders DEF ReaderType, Goto
    <2>3. \A q \in Readers \ {r} : rpc'[q] = rpc[q] /\ at'[q] = at[q] /\ size'[q] = size[q]
      BY <2>1, TypesOfReaders DEF ReaderType, Goto
    <2>4. AliveInv' /\ alive' \in BOOLEAN
      BY <1>1, <2>1, <2>2, <2>3, StillHas
    <2>5. Whole
      BY <1>1, <1>2 DEF IInv, CheckedInv, Whole, Present
    <2>6. CheckedInv(r)'
      BY <1>1, <2>2, <2>5 DEF CheckedInv, Whole, object
    <2>7. LengthsInv(r)'
      BY <2>2 DEF LengthsInv, BytesBefore
    <2>8. SentInv(r)'
      BY <1>1, <2>2 DEF IInv, SentInv, Base, object, writer
    <2>9. QED
      BY <1>1, <2>2, <2>3, <2>4, <2>6, <2>7, <2>8, ReaderKeeps
  <1>3. CASE ~Present("x")
    <2>1. Goto(r, "idle") /\ Release(r) /\ size' = size
      BY <1>3 DEF CheckSub
    <2>2. QED
      BY <1>1, <2>1, ReleaseKeeps
  <1>4. QED
    BY <1>2, <1>3

(* ByteSize adds up what every field of a whole vehicle has.               *)
LEMMA SizeFieldKeeps == \A r \in Readers : IInv /\ SizeField(r) => IInv'
  <1> SUFFICES ASSUME NEW r \in Readers, IInv, SizeField(r) PROVE IInv'
    OBVIOUS
  <1>1. rpc[r] = "size" /\ size' = [size EXCEPT ![r] = size[r] + SizeOf(Fields[at[r]])]
        /\ UNCHANGED <<first, object, inWorld, alive, writer, since, sent>>
    BY DEF SizeField
  <1>2. Whole /\ at[r] \in 1..4 /\ size[r] = BytesBefore[at[r]]
    BY <1>1, TypesOfReaders DEF IInv, CheckedInv, LengthsInv, ReaderType
  <1>3. size' = [size EXCEPT ![r] = BytesBefore[at[r] + 1]]
    BY <1>1, <1>2, WholeLengths DEF IInv
  <1>4. size' \in [Readers -> Nat] /\ size'[r] = BytesBefore[at[r] + 1]
    BY <1>2, <1>3, TypesOfReaders DEF ReaderType, BytesBefore
  <1>5. Whole'
    BY <1>1, <1>2 DEF Whole, object
  <1>6. CheckedInv(r)'
    BY <1>5 DEF CheckedInv, Whole
  <1>7. CASE at[r] < 4
    <2>1. at' = [at EXCEPT ![r] = at[r] + 1] /\ UNCHANGED <<rpc, bytes>>
      BY <1>7, FieldsAre DEF SizeField
    <2>2. ReaderType' /\ rpc'[r] = "size" /\ at'[r] = at[r] + 1
      BY <1>1, <1>2, <1>4, <1>7, <2>1, TypesOfReaders DEF ReaderType
    <2>3. \A q \in Readers \ {r} : at'[q] = at[q] /\ size'[q] = size[q]
      BY <1>3, <2>1, TypesOfReaders DEF ReaderType
    <2>4. AliveInv' /\ alive' \in BOOLEAN
      BY <1>1, <2>1, StillHas
    <2>5. LengthsInv(r)'
      BY <1>4, <2>2 DEF LengthsInv
    <2>6. SentInv(r)'
      BY <1>1, <2>2 DEF IInv, SentInv, Base, object, writer
    <2>7. QED
      BY <1>1, <1>6, <2>1, <2>2, <2>3, <2>4, <2>5, <2>6, ReaderKeeps
  <1>8. CASE at[r] = 4
    <2>1. Goto(r, "write") /\ bytes' = [bytes EXCEPT ![r] = 0]
      BY <1>8, FieldsAre DEF SizeField
    <2>2. ReaderType' /\ rpc'[r] = "write" /\ at'[r] = 1 /\ bytes'[r] = 0
      BY <1>1, <1>4, <2>1, TypesOfReaders DEF ReaderType, Goto
    <2>3. \A q \in Readers \ {r} :
             rpc'[q] = rpc[q] /\ at'[q] = at[q] /\ size'[q] = size[q] /\ bytes'[q] = bytes[q]
      BY <1>3, <2>1, TypesOfReaders DEF ReaderType, Goto
    <2>4. AliveInv' /\ alive' \in BOOLEAN
      BY <1>1, <2>2, <2>3, StillHas
    <2>5. LengthsInv(r)'
      BY <1>4, <1>8, <2>2 DEF LengthsInv, BytesBefore
    <2>6. \A f \in Leaves : Place(f) >= 1
      BY FieldsAre
    <2>7. SentInv(r)'
      BY <1>1, <2>2, <2>6, FieldsAre DEF IInv, SentInv, Base, object, writer
    <2>8. QED
      BY <1>1, <1>6, <2>2, <2>3, <2>4, <2>5, <2>7, ReaderKeeps
  <1>9. QED
    BY <1>2, <1>7, <1>8

(* A field is written with the value it has then: no older than those      *)
(* merged when the thread began.                                           *)
LEMMA ReadIsCurrent ==
  ASSUME IInv, NEW r \in Readers, rpc[r] = "write", NEW f \in Leaves
  PROVE  /\ Present(f) /\ Read(f) = val[f]
         /\ val[f] \in Values
         /\ val[f] \in since[r]..version \/ (val[f] = Default /\ f \notin first /\ since[r] = 0)
  <1>1. Whole /\ since[r] <= Base /\ since[r] \in Nat
    BY TypesOfReaders DEF IInv, CheckedInv, SentInv, ReaderType
  <1>2. Present(f) /\ Read(f) = val[f]
    BY <1>1 DEF Whole, Present, Read, Leaves, Top
  <1>3. val[f] \in Base..version \/ (val[f] = Default /\ f \notin first /\ Base = 0)
    BY StorageBounds DEF IInv
  <1>4. Base \in Nat /\ version \in Nat
    BY Bounds DEF IInv
  <1>5. val[f] \in Values
    BY DEF IInv, TypeOK
  <1>6. QED
    BY <1>1, <1>2, <1>3, <1>4, <1>5

(* The thread writes a field with the value it reads now.                  *)
LEMMA WriteFieldKeeps == \A r \in Readers : IInv /\ WriteField(r) => IInv'
  <1> SUFFICES ASSUME NEW r \in Readers, IInv, WriteField(r) PROVE IInv'
    OBVIOUS
  <1> DEFINE f == Fields[at[r]]
  <1>1. /\ rpc[r] = "write" /\ bytes' = [bytes EXCEPT ![r] = bytes[r] + SizeOf(f)]
        /\ sent' = IF f \in Leaves /\ Present(f) THEN [sent EXCEPT ![r][f] = Read(f)] ELSE sent
        /\ UNCHANGED <<first, object, inWorld, alive, writer, since, size>>
    BY DEF WriteField
  <1>2. Whole /\ at[r] \in 1..4 /\ bytes[r] = BytesBefore[at[r]] /\ size[r] = BytesBefore[5]
    BY <1>1, TypesOfReaders DEF IInv, CheckedInv, LengthsInv, ReaderType
  <1>3. bytes' = [bytes EXCEPT ![r] = BytesBefore[at[r] + 1]]
    BY <1>1, <1>2, WholeLengths DEF IInv
  <1>4. bytes' \in [Readers -> Nat] /\ bytes'[r] = BytesBefore[at[r] + 1]
    BY <1>2, <1>3, TypesOfReaders DEF ReaderType, BytesBefore
  <1>5. CheckedInv(r)'
    BY <1>1, <1>2 DEF CheckedInv, Whole, object, Top
  <1>6. /\ sent' \in [Readers -> [Leaves -> Values]]
        /\ \A q \in Readers \ {r} : sent'[q] = sent[q]
        /\ \A g \in Leaves : sent'[r][g] = IF g = f THEN val[g] ELSE sent[r][g]
    <2>1. sent \in [Readers -> [Leaves -> Values]]
      BY TypesOfReaders DEF ReaderType
    <2>2. CASE f \in Leaves
      <3>1. sent' = [sent EXCEPT ![r][f] = val[f]] /\ val[f] \in Values
        BY <1>1, <2>2, ReadIsCurrent
      <3>2. QED
        BY <2>1, <2>2, <3>1
    <2>3. CASE f \notin Leaves
      <3>1. sent' = sent
        BY <1>1, <2>3
      <3>2. QED
        BY <2>1, <2>3, <3>1
    <2>4. QED
      BY <2>2, <2>3
  <1> HIDE DEF f
  <1>7. \A g \in Leaves : /\ g = f <=> Place(g) = at[r]
                          /\ Place(g) \in 1..4 /\ Place(g) # 3
    BY <1>2, FieldsAre DEF f, Place
  <1>8. ASSUME NEW g \in Leaves
        PROVE  /\ sent'[r][g] <= val[g]
               /\ Place(g) <= at[r] => Current(r, g)'
    <2>1. Current(r, g)' <=> \/ sent'[r][g] \in since[r]..version
                             \/ sent'[r][g] = Default /\ g \notin first /\ since[r] = 0
      BY <1>1 DEF Current, writer
    <2>2. CASE g = f
      <3>1. sent'[r][g] = val[g] /\ val[g] \in Int
        BY <1>6, <2>2, StorageBounds DEF IInv
      <3>2. QED
        BY <1>1, <2>1, <3>1, ReadIsCurrent
    <2>3. CASE g # f
      <3>1. sent'[r][g] = sent[r][g] /\ sent[r][g] <= val[g]
        BY <1>6, <2>3 DEF IInv, SentInv
      <3>2. Place(g) <= at[r] => Place(g) < at[r]
        BY <1>2, <1>7, <2>3
      <3>3. Place(g) <= at[r] => Current(r, g)
        BY <1>1, <3>2 DEF IInv, SentInv
      <3>4. QED
        BY <2>1, <3>1, <3>3 DEF Current
    <2>4. QED
      BY <2>2, <2>3
  <1>9. since'[r] <= Base' /\ val' = val
    BY <1>1 DEF IInv, SentInv, Base, object, writer
  <1>10. CASE at[r] < 4
    <2>1. at' = [at EXCEPT ![r] = at[r] + 1] /\ UNCHANGED rpc
      BY <1>10, FieldsAre DEF WriteField
    <2>2. ReaderType' /\ rpc'[r] = "write" /\ at'[r] = at[r] + 1
      BY <1>1, <1>2, <1>4, <1>6, <1>10, <2>1, TypesOfReaders DEF ReaderType
    <2>3. \A q \in Readers \ {r} : at'[q] = at[q] /\ bytes'[q] = bytes[q]
      BY <1>3, <2>1, TypesOfReaders DEF ReaderType
    <2>4. AliveInv' /\ alive' \in BOOLEAN
      BY <1>1, <2>1, StillHas
    <2>5. LengthsInv(r)'
      BY <1>1, <1>2, <1>4, <2>2 DEF LengthsInv
    <2>6. \A g \in Leaves : Place(g) < at'[r] => Place(g) <= at[r]
      BY <1>2, <1>7, <2>2
    <2>7. SentInv(r)'
      BY <1>8, <1>9, <2>2, <2>6 DEF SentInv
    <2>8. QED
      BY <1>1, <1>5, <1>6, <2>1, <2>2, <2>3, <2>4, <2>5, <2>7, ReaderKeeps
  <1>11. CASE at[r] = 4
    <2>1. Goto(r, "written")
      BY <1>11, FieldsAre DEF WriteField
    <2>2. ReaderType' /\ rpc'[r] = "written"
      BY <1>1, <1>4, <1>6, <2>1, TypesOfReaders DEF ReaderType, Goto
    <2>3. \A q \in Readers \ {r} : rpc'[q] = rpc[q] /\ at'[q] = at[q] /\ bytes'[q] = bytes[q]
      BY <1>3, <2>1, TypesOfReaders DEF ReaderType, Goto
    <2>4. AliveInv' /\ alive' \in BOOLEAN
      BY <1>1, <2>2, <2>3, StillHas
    <2>5. LengthsInv(r)'
      BY <1>1, <1>2, <1>4, <1>11, <2>2 DEF LengthsInv
    <2>6. \A g \in Leaves : Place(g) <= at[r]
      BY <1>7, <1>11
    <2>7. SentInv(r)'
      BY <1>8, <1>9, <2>2, <2>6 DEF SentInv
    <2>8. QED
      BY <1>1, <1>5, <1>6, <2>2, <2>3, <2>4, <2>5, <2>7, ReaderKeeps
  <1>12. QED
    BY <1>2, <1>10, <1>11

(* The thread is done with the vehicle.                                    *)
LEMMA FinishKeeps == \A r \in Readers : IInv /\ Finish(r) => IInv'
  BY ReleaseKeeps DEF Finish

-----------------------------------------------------------------------------
(* So every step keeps the invariant.                                      *)
LEMMA IInvStep == IInv /\ [Next]_vars => IInv'
  <1> SUFFICES ASSUME IInv, [Next]_vars PROVE IInv'
    OBVIOUS
  <1>1. CASE UNCHANGED vars
    BY <1>1 DEF vars, object, writer, reader, IInv, TypeOK, WriterInv, ValuesInv, AliveInv,
                CheckedInv, LengthsInv, SentInv, Newest, Base, Whole, Current
  <1>2. CASE UpdateVehicle \/ StoreHas \/ StoreValue \/ StorePointer \/ RemoveVehicle
    BY <1>2, UpdateKeeps, StorePresenceKeeps, StoreValueKeeps, RemoveKeeps
  <1>3. CASE \E r \in Readers : \/ Begin(r) \/ CheckMessage(r) \/ CheckSub(r)
                                \/ SizeField(r) \/ WriteField(r) \/ Finish(r)
    BY <1>3, BeginKeeps, CheckMessageKeeps, CheckSubKeeps, SizeFieldKeeps, WriteFieldKeeps,
       FinishKeeps
  <1>4. QED
    BY <1>1, <1>2, <1>3 DEF Next

(* The invariant of the vehicle and its readers.                           *)
LEMMA Invariance == Spec => []IInv
  BY IInvInit, IInvStep, PTL DEF Spec

(* SerializeToOstream writes as many bytes as ByteSize counted, though the *)
(* vehicle is merged in between: the process is not ended for it.          *)
THEOREM LengthsAgree == Spec => []SizesAgree
  <1>1. IInv => SizesAgree
    BY DEF IInv, SizesAgree, LengthsInv
  <1>2. QED
    BY <1>1, Invariance, PTL

(* What is sent of a vehicle is a whole one, alive, and each field at least*)
(* as new as the updates merged when the thread came to it.                *)
THEOREM SendsWhatIsCurrent == Spec => []SentIsCurrent
  <1>1. IInv => SentIsCurrent
    BY DEF IInv, SentIsCurrent, SentInv, Current, AliveInv
  <1>2. QED
    BY <1>1, Invariance, PTL

(* No field goes back: what a connection sends of it is never older than   *)
(* what it sent of it before.                                              *)
THEOREM NoFieldGoesBack == Spec => NeverBack
  <1>1. ASSUME IInv, [Next]_vars
        PROVE  [\A r \in Readers, f \in Leaves : sent'[r][f] >= sent[r][f]]_vars
    <2> SUFFICES ASSUME NEW r \in Readers, NEW f \in Leaves PROVE sent'[r][f] >= sent[r][f]
      OBVIOUS
    <2>1. sent[r][f] \in Int /\ sent[r][f] <= val[f] /\ val[f] \in Int
      BY <1>1, StorageBounds, TypesOfReaders DEF IInv, SentInv, ReaderType, Values, Default
    <2>2. CASE \E q \in Readers : WriteField(q)
      <3>1. PICK q \in Readers : WriteField(q)
        BY <2>2
      <3>2. rpc[q] = "write" /\ at[q] \in 1..4
        BY <1>1, <3>1, TypesOfReaders DEF WriteField, ReaderType
      <3>3. sent' = sent \/ \E g \in Leaves : sent' = [sent EXCEPT ![q][g] = val[g]]
        <4>1. sent' = sent \/ \E g \in Leaves : sent' = [sent EXCEPT ![q][g] = Read(g)]
          BY <3>1 DEF WriteField
        <4>2. QED
          BY <1>1, <3>2, <4>1, ReadIsCurrent
      <3>4. sent'[r][f] = sent[r][f] \/ sent'[r][f] = val[f]
        BY <1>1, <3>3, TypesOfReaders DEF IInv, ReaderType
      <3>5. QED
        BY <2>1, <3>4
    <2>3. CASE ~\E q \in Readers : WriteField(q)
      <3>1. sent' = sent
        BY <1>1, <2>3 DEF Next, vars, reader, UpdateVehicle, StoreHas, StoreValue, StorePointer,
           RemoveVehicle, Begin, CheckMessage, CheckSub, SizeField, Finish
      <3>2. QED
        BY <2>1, <3>1
    <2>4. QED
      BY <2>2, <2>3
  <1>2. QED
    BY <1>1, Invariance, PTL DEF Spec, NeverBack
=============================================================================

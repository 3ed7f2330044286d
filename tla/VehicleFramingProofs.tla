------------------------ MODULE VehicleFramingProofs ------------------------
(***************************************************************************)
(* That both ends of a connection read what the other wrote, for any       *)
(* number of vehicles, groups and heartbeats, and any of them with a long  *)
(* id, as long as nothing has gone wrong on the way.                       *)
(***************************************************************************)
EXTENDS VehicleFraming, SequenceTheorems, TLAPS

Bodies == {"first body", "body"}
Handshake == {"number", "first code", "first body"}

(* Nobody speaks before he was told his number, and who has left is heard  *)
(* no more.                                                                *)
NumberInv ==
    /\ client = "number" <=> number = "none"
    /\ client = "ended" <=> socket = "closed"
    /\ number = "none" => sent = 0 /\ socket = "open" /\ up = <<>>
    /\ number = "wrong" => cause \cap {"down", "beat"} # {}

(* TypeOK, one variable at a time.                                         *)
Streams == up \in Seq(Bytes) /\ down \in Seq(Bytes) /\ buffer \in [1 .. Frame -> Bytes]

Numbers == /\ sent \in Nat /\ groups \in Nat /\ beats \in Nat
           /\ accepted \in Nat /\ taken \in Nat

Places ==
    /\ long \in Longs
    /\ server \in {"number", "first code", "first body", "vehicle", "write", "end",
                   "code", "body", "ended", "refused"}
    /\ client \in {"number", "code", "vehicle", "id", "ended"}
    /\ socket \in {"open", "closed"}
    /\ number \in {"none", "own", "wrong"}
    /\ cause \subseteq {"up", "down", "own", "other", "beat"}

Typed == Streams /\ Numbers /\ Places

(* The number is the first thing the client finds, until he has read it.   *)
ToldFirst == "beat" \notin cause =>
    /\ server = "number" => client = "number" /\ down = <<>>
    /\ server # "number" /\ client = "number" =>
          Len(down) >= Number /\ \A i \in 1 .. Number : down[i] = Byte(0, i)

(* The bytes of the client that the server's thread has received, and all  *)
(* that the client wrote, as long as each of both is whole.                *)
Consumed == (Frame + 1) * accepted + (IF server \in Bodies THEN 1 ELSE 0)
ClientWrote == (Frame + 1) * sent + (IF socket = "closed" THEN 1 ELSE 0)

UpByte(n, j) == IF j = 0 THEN Code("vehicle") ELSE Byte(n, j)

(* The first body, also a long one.                                        *)
FirstInv == server \in Handshake =>
    /\ accepted = 0 /\ "up" \notin cause
    /\ sent > 0 => \A j \in 1 .. Frame :
          LET i == IF server = "first body" THEN j ELSE j + 1
          IN  i \in DOMAIN up /\ up[i] = Byte(1, j)
    /\ sent = 0 => IF socket = "open" THEN up = <<>> /\ server # "first body"
                   ELSE Len(up) <= 1 /\ (server = "first body" => up = <<>>)

UpStream ==
    /\ Len(up) = ClientWrote - Consumed
    /\ \A n \in accepted + 1 .. sent, j \in 0 .. Frame, i \in 1 .. Len(up) :
          i = (Frame + 1) * (n - 1) + j + 1 - Consumed => up[i] = UpByte(n, j)
    /\ socket = "closed" /\ up # <<>> => up[Len(up)] = Code("disconnect")

UpInv == cause \cap {"up", "own"} = {} =>
    /\ accepted <= sent
    /\ sent > 0 => "own" \notin long
    /\ server \notin Ended => UpStream
    /\ server = "body" => accepted < sent
    /\ server \notin Handshake \cup Ended => number = "own"

(* The group whose body the server is about to write, the one whose code   *)
(* the client has read, 0 for none, and the bytes ahead of every group.    *)
HalfWritten == IF server = "write" THEN groups ELSE 0
HalfRead == IF client = "vehicle" THEN taken + 1 ELSE 0
Ahead == IF client = "number" THEN Number ELSE 0

(* The groups lo .. hi lie in a stream with their codes at s, in order, and *)
(* between them is nothing that the client could take for a vehicle.       *)
FrameAt(d, s, written, read, g) ==
    /\ (s[g] = 0 <=> g = read)
    /\ s[g] # 0 => s[g] \in 1 .. Len(d) /\ d[s[g]] = Code("vehicle")
    /\ g = written => Len(d) = s[g]
    /\ g # written => \A j \in 1 .. Frame : s[g] + j \in 1 .. Len(d) /\ d[s[g] + j] = Byte(g, j)

Frames(d, s, lo, hi, written, read, ahead) ==
    /\ \A g \in lo .. hi : FrameAt(d, s, written, read, g)
    /\ \A g, h \in lo .. hi : g < h => s[g] < s[h]
    /\ \A i \in 1 .. Len(d) :
          \/ \E g \in lo .. hi, j \in 0 .. Frame : i = s[g] + j
          \/ d[i] \in {Code("end"), Code("heartbeat")}
          \/ i <= ahead

DownStream == \E s \in [taken + 1 .. groups -> 0 .. Len(down)] :
    Frames(down, s, taken + 1, groups, HalfWritten, HalfRead, Ahead)

DownInv == cause \cap {"down", "other", "beat"} = {} =>
    /\ taken <= groups
    /\ client # "ended" =>
          /\ client \in {"number", "code", "vehicle"}
          /\ client = "vehicle" => taken < groups
          /\ server = "write" => taken < groups
          /\ DownStream

IInv == Typed /\ NumberInv /\ ToldFirst /\ FirstInv /\ RefusedForCause /\ UpInv /\ DownInv
-----------------------------------------------------------------------------
(* What is read of a stream, and what remains of it.                       *)
LEMMA StreamRead ==
  ASSUME NEW S \in Seq(Bytes)
  PROVE  /\ Len(S) \in Nat /\ DOMAIN S = 1 .. Len(S) /\ (S = <<>> <=> Len(S) = 0)
         /\ \A i \in 1 .. Len(S) : S[i] \in Bytes
  OBVIOUS

(* A code is one byte on the stream.                                       *)
LEMMA StreamCode ==
  ASSUME NEW c, Code(c) \in Bytes
  PROVE  <<Code(c)>> \in Seq(Bytes) /\ Len(<<Code(c)>>) = 1 /\ <<Code(c)>>[1] = Code(c)
  OBVIOUS

(* The stream without its first byte.                                      *)
LEMMA StreamTail ==
  ASSUME NEW S \in Seq(Bytes), S # <<>>
  PROVE  /\ Tail(S) \in Seq(Bytes) /\ Len(Tail(S)) = Len(S) - 1 /\ Head(S) = S[1]
         /\ \A i \in 1 .. Len(S) - 1 : Tail(S)[i] = S[i + 1]
  OBVIOUS

(* The stream without the bytes a receive took.                            *)
LEMMA StreamRest ==
  ASSUME NEW S \in Seq(Bytes), NEW n \in Nat, NEW k \in Received(S, n)
  PROVE  /\ k \in 1 .. n /\ k \in 1 .. Len(S)
         /\ Rest(S, k) \in Seq(Bytes) /\ Len(Rest(S, k)) = Len(S) - k
         /\ \A i \in 1 .. Len(S) - k : Rest(S, k)[i] = S[i + k]
  <1>1. k \in 1 .. n /\ k \in 1 .. Len(S)
    BY DEF Received
  <1>2. QED
    BY <1>1 DEF Rest

(* What is written is behind what is under way.                            *)
LEMMA StreamWritten ==
  ASSUME NEW S \in Seq(Bytes), NEW T \in Seq(Bytes)
  PROVE  /\ S \o T \in Seq(Bytes) /\ Len(S \o T) = Len(S) + Len(T)
         /\ \A i \in 1 .. Len(S) : (S \o T)[i] = S[i]
         /\ \A i \in 1 .. Len(T) : (S \o T)[Len(S) + i] = T[i]
  OBVIOUS

(* Codes and the bytes of a body are bytes of different kinds.             *)
LEMMA CodesAndBytes ==
  /\ \A c \in Codes : Code(c) \in Bytes /\ ReadAs(Code(c)) = {c}
  /\ \A of, at \in Nat : Byte(of, at) \in Bytes /\ Byte(of, at).at = at /\ "at" \in DOMAIN Byte(of, at)
  /\ \A c \in Codes, of, at \in Nat : Code(c) # Byte(of, at)
  /\ \A c, d \in Codes : Code(c) = Code(d) => c = d
  /\ \A of, at, f, a \in Nat : Byte(of, at) = Byte(f, a) => of = f /\ at = a
  BY DEF Code, Byte, Bytes, ReadAs

(* The bytes of a body, and of the number.                                 *)
LEMMA BodyBytes ==
  ASSUME NEW of \in Nat, NEW whose, NEW ids
  PROVE  /\ Body(of, whose \in ids) \in Seq(Bytes)
         /\ Len(Body(of, whose \in ids)) = IF whose \in ids THEN 4 ELSE 3
         /\ \A i \in 1 .. 3 : Body(of, whose \in ids)[i] = Byte(of, i)
  <1>1. PICK l : l = IF whose \in ids THEN 4 ELSE 3
    OBVIOUS
  <1>2. PICK b : b = Body(of, whose \in ids)
    OBVIOUS
  <1>3. l \in Nat /\ b = [i \in 1 .. l |-> Byte(of, i)]
    BY <1>1, <1>2 DEF Body, Frame
  <1>4. \A i \in 1 .. l : Byte(of, i) \in Bytes
    BY <1>1, CodesAndBytes
  <1>5. b \in Seq(Bytes) /\ Len(b) = l
    BY <1>3, <1>4
  <1>6. QED
    BY <1>1, <1>2, <1>3, <1>5

(* The bytes of the connection number.                                     *)
LEMMA NumberBytesAre ==
  /\ NumberBytes \in Seq(Bytes) /\ Len(NumberBytes) = 2
  /\ \A i \in 1 .. 2 : NumberBytes[i] = Byte(0, i)
  <1>1. NumberBytes = [i \in 1 .. 2 |-> Byte(0, i)]
    BY DEF NumberBytes, Number
  <1>2. \A i \in 1 .. 2 : Byte(0, i) \in Bytes
    BY CodesAndBytes
  <1>3. QED
    BY <1>1, <1>2

(* What is taken for a body is what was received, when enough was, and     *)
(* then the next vehicle if it is that.                                    *)
LEMMA FilledIs ==
  ASSUME NEW S \in Seq(Bytes), NEW k \in Received(S, Frame), NEW old \in [1 .. Frame -> Bytes]
  PROVE  /\ Filled(S, k, old) \in [1 .. Frame -> Bytes]
         /\ k = Frame => \A i \in 1 .. Frame : Filled(S, k, old)[i] = S[i]
  <1>1. k \in 1 .. 3 /\ k \in 1 .. Len(S)
    BY DEF Received, Frame
  <1>2. old \in Seq(Bytes) /\ Len(old) = 3 /\ \A i \in 1 .. 3 : old[i] \in Bytes
    <2>1. old = [i \in 1 .. 3 |-> old[i]] /\ \A i \in 1 .. 3 : old[i] \in Bytes
      BY DEF Frame
    <2>2. QED
      BY <2>1
  <1>3. /\ SubSeq(S, 1, k) \in Seq(Bytes) /\ Len(SubSeq(S, 1, k)) = k
        /\ \A i \in 1 .. k : SubSeq(S, 1, k)[i] = S[i]
    BY <1>1
  <1>4. SubSeq(old, k + 1, 3) \in Seq(Bytes) /\ Len(SubSeq(old, k + 1, 3)) = 3 - k
    <2>1. CASE k = 3
      BY <1>2, <2>1
    <2>2. CASE k # 3
      BY <1>1, <1>2, <2>2
    <2>3. QED
      BY <2>1, <2>2
  <1>5. /\ Filled(S, k, old) \in Seq(Bytes) /\ Len(Filled(S, k, old)) = 3
        /\ \A i \in 1 .. k : Filled(S, k, old)[i] = S[i]
    <2>1. PICK a, b : a = SubSeq(S, 1, k) /\ b = SubSeq(old, k + 1, 3)
      OBVIOUS
    <2>2. a \in Seq(Bytes) /\ b \in Seq(Bytes) /\ Len(a) = k /\ Len(b) = 3 - k
      BY <1>3, <1>4, <2>1
    <2>3. a \o b \in Seq(Bytes) /\ Len(a \o b) = 3 /\ \A i \in 1 .. k : (a \o b)[i] = a[i]
      BY <1>1, <2>2, StreamWritten
    <2>4. Filled(S, k, old) = a \o b
      BY <2>1 DEF Filled, Frame
    <2>5. \A i \in 1 .. k : a[i] = S[i]
      BY <1>3, <2>1
    <2>6. QED
      BY <2>3, <2>4, <2>5
  <1>6. PICK f : f = Filled(S, k, old)
    OBVIOUS
  <1>7. f \in [1 .. 3 -> Bytes]
    <2>1. PICK n \in Nat : f \in [1 .. n -> Bytes]
      <3>1. f \in UNION {[1 .. n -> Bytes] : n \in Nat}
        BY <1>5, <1>6, SeqDef, Zenon
      <3>2. QED
        BY <3>1
    <2>2. Len(f) = 3
      BY <1>5, <1>6
    <2>3. n = 3
      <3>1. \A i : i \in 1 .. n <=> i \in 1 .. 3
        <4>1. DOMAIN f = 1 .. n /\ DOMAIN f = 1 .. 3
          BY <1>5, <1>6, <2>1, <2>2, StreamRead
        <4>2. QED
          BY <4>1, Zenon
      <3>2. (3 \in 1 .. n <=> 3 \in 1 .. 3) /\ (n \in 1 .. n <=> n \in 1 .. 3)
        BY <3>1, Zenon
      <3>3. QED
        BY <3>2
    <2>4. QED
      BY <2>1, <2>3
  <1>8. QED
    BY <1>5, <1>6, <1>7 DEF Frame

(* What a body that was read whole is taken for.                           *)
LEMMA TookIs ==
  ASSUME NEW n \in Nat, NEW content \in [1 .. Frame -> Bytes]
  PROVE  /\ Took(n, content) \in Nat
         /\ (\A i \in 1 .. Frame : content[i] = Byte(n + 1, i)) => Took(n, content) = n + 1
  <1>1. Spoilt \in Nat
    BY FramingAssumption DEF Spoilt
  <1>2. Body(n + 1, FALSE) = [i \in 1 .. Frame |-> Byte(n + 1, i)]
    BY DEF Body, Frame
  <1>3. (\A i \in 1 .. Frame : content[i] = Byte(n + 1, i)) => content = Body(n + 1, FALSE)
    BY <1>2
  <1>4. Took(n, content) \in {n + 1, Spoilt}
    BY DEF Took
  <1>5. content = Body(n + 1, FALSE) => Took(n, content) = n + 1
    BY DEF Took
  <1>6. Took(n, content) \in Nat
    BY <1>1, <1>4
  <1>7. QED
    BY <1>3, <1>5, <1>6, Zenon
-----------------------------------------------------------------------------
(* A connection that has just been accepted.                               *)
LEMMA IInvInit == Init => IInv
  <1> SUFFICES ASSUME Init PROVE IInv
    OBVIOUS
  <1> USE DEF Init
  <1>1. <<>> \in Seq(Bytes) /\ Len(<<>>) = 0 /\ Zero \in Bytes
    BY CodesAndBytes DEF Zero
  <1>2. Typed
    <2>1. buffer \in [1 .. Frame -> Bytes]
      BY <1>1 DEF Zeros
    <2>2. QED
      BY <1>1, <2>1 DEF Typed, Streams, Numbers, Places
  <1>3. NumberInv /\ ToldFirst /\ FirstInv /\ RefusedForCause
    BY <1>1 DEF NumberInv, ToldFirst, FirstInv, RefusedForCause, Handshake
  <1>4. UpInv
    <2>1. ClientWrote = 0 /\ Consumed = 0
      BY DEF ClientWrote, Consumed, Bodies, Frame
    <2>2. server \in Handshake /\ server # "body" /\ sent = 0 /\ accepted = 0 /\ Len(up) = 0
      BY <1>1 DEF Handshake
    <2>3. \A n : n \notin accepted + 1 .. sent
      BY <2>2
    <2>4. QED
      BY <2>1, <2>2, <2>3 DEF UpInv, UpStream
  <1>5. DownInv
    <2>1. PICK s : s = [g \in taken + 1 .. groups |-> 0]
      OBVIOUS
    <2>2. \A g : g \notin taken + 1 .. groups
      OBVIOUS
    <2>3. Len(down) = 0
      BY <1>1
    <2>4. DownStream
      <3>1. s \in [taken + 1 .. groups -> 0 .. Len(down)]
        BY <2>1, <2>2
      <3>2. \A i : i \notin 1 .. Len(down)
        BY <2>3
      <3>3. Frames(down, s, taken + 1, groups, HalfWritten, HalfRead, Ahead)
        BY <2>2, <3>2 DEF Frames
      <3>4. QED
        BY <3>1, <3>3 DEF DownStream
    <2>5. taken <= groups /\ client = "number" /\ server = "number"
      OBVIOUS
    <2>6. QED
      BY <2>4, <2>5 DEF DownInv
  <1>6. QED
    BY <1>2, <1>3, <1>4, <1>5 DEF IInv

-----------------------------------------------------------------------------
(* Every step keeps the types.                                             *)
LEMMA TypedIsTypeOK == Typed <=> TypeOK
  BY DEF Typed, Streams, Numbers, Places, TypeOK

(* What a body that was received is taken for.                             *)
LEMMA BodyReceived ==
  ASSUME Streams, Numbers, NEW from, NEW yes, NEW no, ReceiveBody(from, yes, no)
  PROVE  /\ server = from /\ UNCHANGED <<downVars, socket, limits>>
         /\ \E k \in Received(up, Frame) :
               /\ up' = Rest(up, k) /\ buffer' = Filled(up, k, buffer)
               /\ cause' = cause \cup Short(k, Frame, "up")
         /\ buffer' \in [1 .. Frame -> Bytes]
         /\ \/ TRUE \in Accepts(buffer') /\ accepted' = Took(accepted, buffer') /\ server' = yes
            \/ FALSE \in Accepts(buffer') /\ server' = no /\ UNCHANGED accepted
  <1>1. PICK k \in Received(up, Frame) : /\ buffer' = Filled(up, k, buffer)
                                         /\ up' = Rest(up, k)
                                         /\ cause' = cause \cup Short(k, Frame, "up")
    BY DEF ReceiveBody
  <1>2. Frame \in Nat
    BY DEF Frame
  <1>3. buffer' \in [1 .. Frame -> Bytes]
    BY <1>1, FilledIs DEF Streams
  <1>4. QED
    BY <1>1, <1>3 DEF ReceiveBody

(* The counters stay numbers.                                              *)
LEMMA NumbersKept ==
  ASSUME Streams, Numbers, Next
  PROVE  Numbers'
  <1> USE DEF Numbers, upVars, downVars, limits
  <1>1. Zeros \in [1 .. Frame -> Bytes]
    BY CodesAndBytes DEF Zeros, Zero
  <1>2. ASSUME NEW from, NEW yes, NEW no, ReceiveBody(from, yes, no) PROVE Numbers'
    <2>1. accepted' \in Nat
      BY <1>2, BodyReceived, TookIs
    <2>2. QED
      BY <1>2, <2>1, BodyReceived
  <1>3. CASE ReadNumber
    BY <1>3 DEF ReadNumber
  <1>4. CASE SendVehicle
    BY <1>4 DEF SendVehicle
  <1>5. CASE Leave
    BY <1>5 DEF Leave
  <1>6. CASE ListenCode
    BY <1>6 DEF ListenCode
  <1>7. CASE ListenVehicle
    <2>1. PICK k \in Received(down, Frame) : taken' = Took(taken, Filled(down, k, Zeros))
      BY <1>7 DEF ListenVehicle
    <2>2. Filled(down, k, Zeros) \in [1 .. Frame -> Bytes]
      BY <1>1, FilledIs DEF Streams
    <2>3. taken' \in Nat
      BY <2>1, <2>2, TookIs
    <2>4. QED
      BY <1>7, <2>3 DEF ListenVehicle
  <1>8. CASE ListenId
    BY <1>8 DEF ListenId
  <1>9. CASE WriteNumber
    BY <1>9 DEF WriteNumber
  <1>10. CASE ReceiveFirstCode
    BY <1>10 DEF ReceiveFirstCode
  <1>11. CASE ReceiveFirst
    BY <1>2, <1>11 DEF ReceiveFirst
  <1>12. CASE WriteVehicleCode
    BY <1>12 DEF WriteVehicleCode
  <1>13. CASE WriteVehicle
    BY <1>13 DEF WriteVehicle
  <1>14. CASE WriteEnd
    BY <1>14 DEF WriteEnd
  <1>15. CASE ReceiveCode
    BY <1>15 DEF ReceiveCode
  <1>16. CASE ReceiveUpdate
    BY <1>2, <1>16 DEF ReceiveUpdate
  <1>17. CASE EndOfStream
    BY <1>17 DEF EndOfStream
  <1>18. CASE Heartbeat
    BY <1>18 DEF Heartbeat
  <1>19. QED
    BY <1>3, <1>4, <1>5, <1>6, <1>7, <1>8, <1>9, <1>10, <1>11, <1>12, <1>13, <1>14, <1>15,
       <1>16, <1>17, <1>18 DEF Next, Client, Server

(* Each end of a stream takes from its front or adds to its end.           *)
LEMMA ClientStreamsKept ==
  ASSUME Streams, Numbers, Client
  PROVE  Streams'
  <1> USE DEF Streams, upVars, downVars
  <1>1. Number \in Nat /\ Frame \in Nat
    BY DEF Number, Frame
  <1>2. \A k \in Received(down, Number) \cup Received(down, Frame) : Rest(down, k) \in Seq(Bytes)
    BY <1>1, StreamRest
  <1>3. CASE ReadNumber \/ ListenVehicle \/ ListenId
    BY <1>2, <1>3 DEF ReadNumber, ListenVehicle, ListenId
  <1>4. CASE SendVehicle
    <2>1. sent + 1 \in Nat /\ Code("vehicle") \in Bytes
      BY CodesAndBytes DEF Numbers, Codes
    <2>2. Body(sent + 1, "own" \in long) \in Seq(Bytes)
      BY <2>1, BodyBytes, Zenon
    <2>3. up' \in Seq(Bytes)
      BY <1>4, <2>1, <2>2, StreamCode, StreamWritten DEF SendVehicle
    <2>4. QED
      BY <1>4, <2>3 DEF SendVehicle
  <1>5. CASE Leave
    <2>1. Code("disconnect") \in Bytes
      BY CodesAndBytes DEF Codes
    <2>2. QED
      BY <1>5, <2>1 DEF Leave
  <1>6. CASE ListenCode
    BY <1>6, StreamTail DEF ListenCode
  <1>7. QED
    BY <1>3, <1>4, <1>5, <1>6 DEF Client

(* What the server writes and takes leaves streams of bytes.               *)
LEMMA ServerStreamsKept ==
  ASSUME Streams, Numbers, Server \/ Heartbeat
  PROVE  Streams'
  <1> USE DEF Streams, upVars, downVars
  <1>1. ASSUME NEW T \in Seq(Bytes), Written(T) PROVE down' \in Seq(Bytes)
    BY <1>1, StreamWritten DEF Written
  <1>2. \A c \in {"vehicle", "end", "heartbeat"} : <<Code(c)>> \in Seq(Bytes)
    BY CodesAndBytes, StreamCode DEF Codes
  <1>3. ASSUME NEW from, NEW yes, NEW no, ReceiveBody(from, yes, no) PROVE Streams'
    <2>1. \A k \in Received(up, Frame) : Rest(up, k) \in Seq(Bytes)
      BY StreamRest DEF Frame
    <2>2. QED
      BY <1>3, <2>1, BodyReceived
  <1>4. CASE WriteNumber
    BY <1>1, <1>4, NumberBytesAre DEF WriteNumber
  <1>5. CASE ReceiveFirstCode \/ ReceiveCode
    BY <1>5, StreamTail DEF ReceiveFirstCode, ReceiveCode
  <1>6. CASE ReceiveFirst \/ ReceiveUpdate
    BY <1>3, <1>6 DEF ReceiveFirst, ReceiveUpdate
  <1>7. CASE WriteVehicle
    <2>1. Body(groups, "other" \in long) \in Seq(Bytes)
      BY BodyBytes, Zenon DEF Numbers
    <2>2. QED
      BY <1>1, <1>7, <2>1 DEF WriteVehicle
  <1>8. CASE WriteVehicleCode \/ WriteEnd \/ Heartbeat
    BY <1>1, <1>2, <1>8 DEF WriteVehicleCode, WriteEnd, Heartbeat
  <1>9. CASE EndOfStream
    BY <1>9 DEF EndOfStream
  <1>10. QED
    BY <1>4, <1>5, <1>6, <1>7, <1>8, <1>9 DEF Server

(* Both ends stay at places they have.                                     *)
LEMMA PlacesKept ==
  ASSUME Streams, Numbers, Places, Next
  PROVE  Places'
  <1> USE DEF Places, upVars, downVars, limits, Short
  <1>1. ASSUME NEW from, NEW yes \in {"vehicle"}, NEW no \in {"vehicle", "refused"},
               ReceiveBody(from, yes, no)
        PROVE  Places'
    <2>1. server' \in {"vehicle", "refused"} /\ UNCHANGED <<downVars, socket, limits>>
      BY <1>1, BodyReceived
    <2>2. cause' \subseteq {"up", "down", "own", "other", "beat"}
      BY <1>1, BodyReceived
    <2>3. QED
      BY <2>1, <2>2
  <1>2. CASE ReadNumber
    BY <1>2 DEF ReadNumber
  <1>3. CASE SendVehicle
    BY <1>3 DEF SendVehicle
  <1>4. CASE Leave
    BY <1>4 DEF Leave
  <1>5. CASE ListenCode
    BY <1>5 DEF ListenCode
  <1>6. CASE ListenVehicle
    BY <1>6 DEF ListenVehicle
  <1>7. CASE ListenId
    BY <1>7 DEF ListenId
  <1>8. CASE WriteNumber \/ WriteVehicleCode \/ WriteVehicle \/ WriteEnd
    BY <1>8 DEF WriteNumber, WriteVehicleCode, WriteVehicle, WriteEnd
  <1>9. CASE ReceiveFirst \/ ReceiveUpdate
    BY <1>1, <1>9 DEF ReceiveFirst, ReceiveUpdate
  <1>10. CASE ReceiveFirstCode \/ ReceiveCode \/ EndOfStream
    BY <1>10 DEF ReceiveFirstCode, ReceiveCode, EndOfStream
  <1>11. CASE Heartbeat
    BY <1>11 DEF Heartbeat
  <1>12. QED
    BY <1>2, <1>3, <1>4, <1>5, <1>6, <1>7, <1>8, <1>9, <1>10, <1>11 DEF Next, Client, Server

(* Each step keeps the types.                                              *)
LEMMA TypeKept ==
  ASSUME Typed, Next
  PROVE  Typed'
  BY NumbersKept, ClientStreamsKept, ServerStreamsKept, PlacesKept DEF Typed, Next
-----------------------------------------------------------------------------
(* What the server's thread and the pacer write comes behind what is under *)
(* way, and nothing comes when the client has left.                        *)
LEMMA WrittenIs ==
  ASSUME Streams, NEW T \in Seq(Bytes), Written(T)
  PROVE  /\ \A i \in 1 .. Len(down) : down'[i] = down[i]
         /\ Len(down') = IF socket = "open" THEN Len(down) + Len(T) ELSE Len(down)
         /\ socket = "open" => \A i \in 1 .. Len(T) : down'[Len(down) + i] = T[i]
  BY StreamWritten DEF Streams, Written

(* Everything the server or the pacer writes.                              *)
LEMMA ServerWrites ==
  ASSUME Streams, Numbers, WriteNumber \/ WriteVehicleCode \/ WriteVehicle \/ WriteEnd \/ Heartbeat
  PROVE  \E T \in Seq(Bytes) : Written(T)
  <1>1. CASE WriteNumber
    BY <1>1, NumberBytesAre DEF WriteNumber
  <1>2. CASE WriteVehicle
    <2>1. Body(groups, "other" \in long) \in Seq(Bytes)
      BY BodyBytes, Zenon DEF Numbers
    <2>2. QED
      BY <1>2, <2>1 DEF WriteVehicle
  <1>3. CASE WriteVehicleCode \/ WriteEnd \/ Heartbeat
    <2>1. \A c \in {"vehicle", "end", "heartbeat"} : <<Code(c)>> \in Seq(Bytes)
      BY CodesAndBytes, StreamCode DEF Codes
    <2>2. QED
      BY <1>3, <2>1 DEF WriteVehicleCode, WriteEnd, Heartbeat
  <1>4. QED
    BY <1>1, <1>2, <1>3

(* The server's thread, and what it does to the client's side.             *)
LEMMA ServerApart ==
  ASSUME Streams, Numbers, Server
  PROVE  /\ UNCHANGED <<client, number, taken, socket, long, sent, beats>>
         /\ number = "none" /\ up = <<>> => up' = <<>>
         /\ cause \subseteq cause'
  <1> USE DEF upVars, downVars, limits
  <1>1. ASSUME NEW from, NEW yes, NEW no, ReceiveBody(from, yes, no)
        PROVE  up # <<>> /\ UNCHANGED <<downVars, socket, limits>> /\ cause \subseteq cause'
    <2>1. PICK k \in Received(up, Frame) : cause' = cause \cup Short(k, Frame, "up")
      BY <1>1, BodyReceived
    <2>2. k \in 1 .. Len(up)
      BY <2>1 DEF Received, Frame
    <2>3. up # <<>>
      BY <2>2
    <2>4. QED
      BY <1>1, <2>1, <2>3, BodyReceived
  <1>2. CASE ReceiveFirst \/ ReceiveUpdate
    BY <1>1, <1>2 DEF ReceiveFirst, ReceiveUpdate
  <1>3. CASE ReceiveFirstCode \/ ReceiveCode
    BY <1>3 DEF ReceiveFirstCode, ReceiveCode
  <1>4. CASE WriteNumber \/ WriteVehicleCode \/ WriteVehicle \/ WriteEnd \/ EndOfStream
    BY <1>4 DEF WriteNumber, WriteVehicleCode, WriteVehicle, WriteEnd, EndOfStream
  <1>5. QED
    BY <1>2, <1>3, <1>4 DEF Server

(* The client knows its number when it has been told.                      *)
LEMMA NumberKept ==
  ASSUME IInv, Next
  PROVE  NumberInv'
  <1> USE DEF IInv, Typed, NumberInv
  <1>1. CASE ReadNumber
    <2>1. PICK k \in Received(down, Number) :
             /\ number' = IF SubSeq(down, 1, k) = NumberBytes THEN "own" ELSE "wrong"
             /\ cause' = cause \cup Short(k, Number, "down")
      BY <1>1 DEF ReadNumber
    <2>2. k \in 1 .. 2 /\ k \in 1 .. Len(down) /\ down \in Seq(Bytes)
      BY DEF Received, Number, Streams
    <2>3. k < 2 => "down" \in cause'
      BY <2>1 DEF Short, Number
    <2>4. ASSUME k = 2, "beat" \notin cause PROVE SubSeq(down, 1, k) = NumberBytes
      <3>1. \A i \in 1 .. 2 : down[i] = Byte(0, i)
        BY <1>1, <2>2, <2>4 DEF ToldFirst, ReadNumber, Number
      <3>2. SubSeq(down, 1, 2) = [i \in 1 .. 2 |-> Byte(0, i)]
        BY <2>2, <2>4, <3>1
      <3>3. QED
        BY <2>4, <3>2 DEF NumberBytes, Number
    <2>5. number' = "wrong" => cause' \cap {"down", "beat"} # {}
      BY <2>1, <2>2, <2>3, <2>4
    <2>6. QED
      BY <1>1, <2>1, <2>5 DEF ReadNumber, upVars, limits
  <1>2. CASE SendVehicle
    BY <1>2 DEF SendVehicle, downVars
  <1>3. CASE Leave
    BY <1>3 DEF Leave, limits
  <1>4. CASE ListenCode
    BY <1>4 DEF ListenCode, upVars, limits
  <1>5. CASE ListenVehicle
    BY <1>5 DEF ListenVehicle, upVars, limits
  <1>6. CASE ListenId
    BY <1>6 DEF ListenId, upVars, limits
  <1>7. CASE Server
    BY <1>7, ServerApart
  <1>8. CASE Heartbeat
    BY <1>8 DEF Heartbeat, upVars
  <1>9. QED
    BY <1>1, <1>2, <1>3, <1>4, <1>5, <1>6, <1>7, <1>8 DEF Next, Client

(* Nothing comes before the number but a beat.                             *)
LEMMA ToldKept ==
  ASSUME IInv, Next
  PROVE  ToldFirst'
  <1> SUFFICES ASSUME "beat" \notin cause' PROVE ToldFirst'
    BY DEF ToldFirst
  <1> USE DEF IInv, Typed, ToldFirst, NumberInv, upVars, downVars, limits
  <1>1. CASE ReadNumber
    <2>1. PICK k \in Received(down, Number) : cause' = cause \cup Short(k, Number, "down")
      BY <1>1 DEF ReadNumber
    <2>2. down # <<>>
      BY DEF Received, Number
    <2>3. QED
      BY <1>1, <2>1, <2>2 DEF ReadNumber
  <1>2. CASE SendVehicle
    BY <1>2 DEF SendVehicle
  <1>3. CASE Leave
    BY <1>3 DEF Leave
  <1>4. CASE ListenCode
    BY <1>4 DEF ListenCode
  <1>5. CASE ListenVehicle
    BY <1>5 DEF ListenVehicle
  <1>6. CASE ListenId
    BY <1>6 DEF ListenId
  <1>7. CASE WriteNumber
    <2>1. socket = "open"
      BY <1>7 DEF WriteNumber, Places
    <2>2. Len(down') = 2 /\ \A i \in 1 .. 2 : down'[i] = Byte(0, i)
      <3>1. down = <<>>
        BY <1>7 DEF WriteNumber
      <3>2. Len(down') = Len(down) + 2 /\ \A i \in 1 .. 2 : down'[Len(down) + i] = NumberBytes[i]
        BY <1>7, <2>1, NumberBytesAre, WrittenIs DEF WriteNumber
      <3>3. Len(down) = 0
        BY <3>1
      <3>4. \A i \in 1 .. 2 : Len(down) + i = i
        BY <3>3
      <3>5. QED
        BY <3>2, <3>3, <3>4, NumberBytesAre
    <2>3. server' = "first code"
      BY <1>7 DEF WriteNumber
    <2>4. Len(down') >= Number /\ \A i \in 1 .. Number : down'[i] = Byte(0, i)
      BY <2>2 DEF Number
    <2>5. server' # "number"
      BY <2>3
    <2>6. QED
      BY <2>4, <2>5, Zenon
  <1>8. CASE WriteVehicleCode \/ WriteVehicle \/ WriteEnd \/ Heartbeat
    <2>1. PICK T \in Seq(Bytes) : Written(T)
      BY <1>8, ServerWrites
    <2>2. Len(T) \in Nat /\ Len(down) \in Nat
      BY StreamRead DEF Streams
    <2>3. Len(down') >= Len(down) /\ \A i \in 1 .. Len(down) : down'[i] = down[i]
      BY <2>1, <2>2, WrittenIs
    <2>4. server # "number" /\ server' # "number" /\ client' = client /\ cause \subseteq cause'
      BY <1>8 DEF WriteVehicleCode, WriteVehicle, WriteEnd, Heartbeat
    <2>5. QED
      BY <2>2, <2>3, <2>4 DEF Number
  <1>9. CASE ReceiveFirstCode \/ ReceiveCode \/ EndOfStream
    BY <1>9 DEF ReceiveFirstCode, ReceiveCode, EndOfStream
  <1>10. CASE ReceiveFirst \/ ReceiveUpdate
    <2>1. \E from \in {"first body", "body"}, yes \in {"vehicle"}, no \in {"vehicle", "refused"} :
             ReceiveBody(from, yes, no)
      BY <1>10 DEF ReceiveFirst, ReceiveUpdate
    <2>2. /\ server # "number" /\ server' # "number" /\ UNCHANGED downVars /\ cause \subseteq cause'
      BY <2>1, BodyReceived
    <2>3. QED
      BY <2>2
  <1>11. QED
    BY <1>1, <1>2, <1>3, <1>4, <1>5, <1>6, <1>7, <1>8, <1>9, <1>10 DEF Next, Client, Server
-----------------------------------------------------------------------------
(* A receive that was filled takes the first bytes, and leaves the rest.   *)
LEMMA WholeReceived ==
  ASSUME Streams, Numbers, NEW from, NEW yes, NEW no, ReceiveBody(from, yes, no), "up" \notin cause'
  PROVE  /\ Len(up) \in Nat /\ Len(up) >= 3 /\ Len(up') = Len(up) - 3
         /\ \A i \in 1 .. Len(up) - 3 : up'[i] = up[i + 3]
         /\ \A i \in 1 .. 3 : buffer'[i] = up[i]
         /\ "up" \notin cause /\ cause' = cause
  <1>1. PICK k \in Received(up, Frame) : /\ up' = Rest(up, k) /\ buffer' = Filled(up, k, buffer)
                                         /\ cause' = cause \cup Short(k, Frame, "up")
    BY BodyReceived
  <1>2. /\ k \in 1 .. 3 /\ k \in 1 .. Len(up) /\ Len(up) \in Nat /\ Len(up') = Len(up) - k
        /\ \A i \in 1 .. Len(up) - k : up'[i] = up[i + k]
    BY <1>1, StreamRead, StreamRest DEF Streams, Frame
  <1>3. ~(k < 3)
    BY <1>1 DEF Short, Frame
  <1>4. k = 3
    BY <1>2, <1>3
  <1>5. \A i \in 1 .. 3 : buffer'[i] = up[i]
    BY <1>1, <1>4, FilledIs DEF Streams, Frame
  <1>6. cause' = cause
    BY <1>1, <1>4 DEF Short, Frame
  <1>7. QED
    BY <1>2, <1>4, <1>5, <1>6

(* A body that is a vehicle's is accepted exactly from a client that knows *)
(* its number.                                                             *)
LEMMA AcceptsOwn ==
  ASSUME NEW n \in Nat, NEW content, \A i \in 1 .. 3 : content[i] = Byte(n, i)
  PROVE  /\ TRUE \in Accepts(content) => number = "own"
         /\ FALSE \in Accepts(content) => number # "own"
  <1>1. \A i \in IdBytes : "at" \in DOMAIN content[i] /\ content[i].at = i
    <2>1. \A i \in IdBytes : i \in 1 .. 3 /\ i \in Nat
      BY DEF IdBytes
    <2>2. QED
      BY <2>1, CodesAndBytes
  <1>2. Accepts(content) = {number = "own"}
    BY <1>1 DEF Accepts
  <1>3. QED
    BY <1>2, Zenon

(* The first body is received of the first vehicle, if in one piece.       *)
LEMMA FirstReceived ==
  ASSUME IInv, ReceiveFirst, "up" \notin cause'
  PROVE  /\ server = "first body" /\ accepted = 0 /\ sent > 0
         /\ \A i \in 1 .. 3 : buffer'[i] = Byte(1, i)
         /\ \/ accepted' = 1 /\ number = "own" /\ server' = "vehicle"
            \/ accepted' = 0 /\ number = "wrong" /\ server' = "refused"
  <1> USE DEF IInv, Typed
  <1>1. ReceiveBody("first body", "vehicle", "refused")
    BY DEF ReceiveFirst
  <1>2. /\ Len(up) \in Nat /\ Len(up) >= 3 /\ \A i \in 1 .. 3 : buffer'[i] = up[i]
    BY <1>1, WholeReceived
  <1>3. server = "first body" /\ accepted = 0
    BY <1>1, BodyReceived DEF FirstInv, Handshake
  <1>4. sent > 0
    <2>1. up # <<>> /\ ~(Len(up) <= 1)
      BY <1>2
    <2>2. sent # 0
      BY <1>3, <2>1 DEF FirstInv, Handshake
    <2>3. QED
      BY <2>2 DEF Numbers
  <1>5. \A i \in 1 .. 3 : buffer'[i] = Byte(1, i)
    BY <1>2, <1>3, <1>4 DEF FirstInv, Handshake, Frame
  <1>6. number # "none"
    <2>1. sent # 0
      BY <1>4
    <2>2. QED
      BY <2>1 DEF NumberInv
  <1>7. buffer' \in [1 .. Frame -> Bytes]
    BY <1>1, BodyReceived
  <1>8. CASE TRUE \in Accepts(buffer') /\ accepted' = Took(accepted, buffer') /\ server' = "vehicle"
    <2>1. number = "own"
      BY <1>5, <1>8, AcceptsOwn
    <2>2. accepted' = 1
      <3>1. \A i \in 1 .. Frame : buffer'[i] = Byte(0 + 1, i)
        BY <1>5 DEF Frame
      <3>2. Took(0, buffer') = 0 + 1
        BY <1>7, <3>1, TookIs
      <3>3. accepted' = Took(0, buffer')
        BY <1>3, <1>8
      <3>4. QED
        BY <3>2, <3>3
    <2>3. QED
      BY <1>3, <1>4, <1>5, <1>8, <2>1, <2>2
  <1>9. CASE FALSE \in Accepts(buffer') /\ server' = "refused" /\ UNCHANGED accepted
    <2>1. number # "own"
      BY <1>5, <1>9, AcceptsOwn
    <2>2. number = "wrong"
      BY <1>6, <2>1 DEF Places
    <2>3. QED
      BY <1>3, <1>4, <1>5, <1>9, <2>2
  <1>10. QED
    BY <1>1, <1>8, <1>9, BodyReceived

(* A client is cut off for a cause.                                        *)
LEMMA RefusedKept ==
  ASSUME IInv, Next, NumberInv'
  PROVE  RefusedForCause'
  <1>1. number' = "wrong" => cause' \cap {"down", "beat"} # {}
    BY DEF NumberInv
  <1> SUFFICES ASSUME server' = "refused", "up" \notin cause' PROVE number' = "wrong"
    BY <1>1 DEF RefusedForCause
  <1> USE DEF IInv, Typed, upVars, downVars, limits
  <1>2. ASSUME server = "refused", number' = number, cause \subseteq cause' PROVE number' = "wrong"
    BY <1>2 DEF RefusedForCause
  <1>3. CASE ReadNumber
    <2>1. cause \subseteq cause' /\ server = "refused" /\ number = "none"
      BY <1>3 DEF ReadNumber, NumberInv
    <2>2. QED
      BY <2>1 DEF RefusedForCause
  <1>4. CASE SendVehicle
    BY <1>2, <1>4 DEF SendVehicle
  <1>5. CASE Leave
    BY <1>2, <1>5 DEF Leave
  <1>6. CASE ListenCode
    BY <1>2, <1>6 DEF ListenCode
  <1>7. CASE ListenVehicle
    BY <1>2, <1>7 DEF ListenVehicle
  <1>8. CASE ListenId
    BY <1>2, <1>8 DEF ListenId
  <1>9. CASE ReceiveFirst
    <2>1. ReceiveBody("first body", "vehicle", "refused")
      BY <1>9 DEF ReceiveFirst
    <2>2. number' = number
      BY <2>1, BodyReceived
    <2>3. QED
      BY <1>9, <2>2, FirstReceived
  <1>10. CASE ReceiveUpdate
    <2>1. ReceiveBody("body", "vehicle", "vehicle")
      BY <1>10 DEF ReceiveUpdate
    <2>2. server' = "vehicle"
      BY <2>1 DEF ReceiveBody
    <2>3. QED
      BY <2>2
  <1>11. CASE WriteNumber \/ WriteVehicleCode \/ WriteVehicle \/ WriteEnd
    BY <1>11 DEF WriteNumber, WriteVehicleCode, WriteVehicle, WriteEnd
  <1>12. CASE ReceiveFirstCode \/ ReceiveCode \/ EndOfStream
    BY <1>12 DEF ReceiveFirstCode, ReceiveCode, EndOfStream
  <1>13. CASE Heartbeat
    BY <1>2, <1>13 DEF Heartbeat
  <1>14. QED
    BY <1>3, <1>4, <1>5, <1>6, <1>7, <1>8, <1>9, <1>10, <1>11, <1>12, <1>13 DEF Next, Client, Server

-----------------------------------------------------------------------------
(* What a vehicle that is sent puts behind what is under way.              *)
LEMMA VehicleSent ==
  ASSUME Streams, Numbers, SendVehicle
  PROVE  /\ Len(up) \in Nat
         /\ Len(up') = Len(up) + (IF "own" \in long THEN 5 ELSE 4)
         /\ \A i \in 1 .. Len(up) : up'[i] = up[i]
         /\ up'[Len(up) + 1] = Code("vehicle")
         /\ \A j \in 1 .. 3 : up'[Len(up) + 1 + j] = Byte(sent + 1, j)
  <1>1. sent + 1 \in Nat /\ Code("vehicle") \in Bytes
    BY CodesAndBytes DEF Numbers, Codes
  <1>2. PICK C, B : C = <<Code("vehicle")>> /\ B = Body(sent + 1, "own" \in long)
    OBVIOUS
  <1>3. /\ B \in Seq(Bytes) /\ Len(B) = IF "own" \in long THEN 4 ELSE 3
        /\ \A i \in 1 .. 3 : B[i] = Byte(sent + 1, i)
    <2>1. /\ Body(sent + 1, "own" \in long) \in Seq(Bytes)
          /\ Len(Body(sent + 1, "own" \in long)) = IF "own" \in long THEN 4 ELSE 3
          /\ \A i \in 1 .. 3 : Body(sent + 1, "own" \in long)[i] = Byte(sent + 1, i)
      <3>1. Len(Body(sent + 1, "own" \in long)) = IF "own" \in long THEN 4 ELSE 3
        BY <1>1, BodyBytes, Zenon
      <3>2. Body(sent + 1, "own" \in long) \in Seq(Bytes)
        BY <1>1, BodyBytes, Zenon
      <3>3. \A i \in 1 .. 3 : Body(sent + 1, "own" \in long)[i] = Byte(sent + 1, i)
        BY DEF Body, Frame
      <3>4. QED
        BY <3>1, <3>2, <3>3
    <2>2. QED
      BY <1>2, <2>1, Zenon
  <1>4. C \in Seq(Bytes) /\ Len(C) = 1 /\ C[1] = Code("vehicle")
    BY <1>1, <1>2, StreamCode
  <1>5. PICK U : U = up \o C
    OBVIOUS
  <1>6. /\ U \in Seq(Bytes) /\ Len(up) \in Nat /\ Len(U) = Len(up) + 1
        /\ \A i \in 1 .. Len(up) : U[i] = up[i]
        /\ U[Len(up) + 1] = Code("vehicle")
    <2>1. up \in Seq(Bytes) /\ Len(up) \in Nat
      BY StreamRead DEF Streams
    <2>2. /\ U \in Seq(Bytes) /\ Len(U) = Len(up) + Len(C)
          /\ \A i \in 1 .. Len(up) : U[i] = up[i]
          /\ \A i \in 1 .. Len(C) : U[Len(up) + i] = C[i]
      BY <1>4, <1>5, <2>1, StreamWritten
    <2>3. 1 \in 1 .. Len(C)
      BY <1>4
    <2>4. QED
      BY <1>4, <2>1, <2>2, <2>3
  <1>7. up' = U \o B
    BY <1>2, <1>5 DEF SendVehicle
  <1>8. /\ Len(up') = Len(U) + Len(B)
        /\ \A i \in 1 .. Len(U) : up'[i] = U[i]
        /\ \A i \in 1 .. Len(B) : up'[Len(U) + i] = B[i]
    BY <1>3, <1>6, <1>7, StreamWritten
  <1>9. \A j \in 1 .. 3 : j \in 1 .. Len(B)
    BY <1>3
  <1>10. QED
    BY <1>3, <1>6, <1>8, <1>9

(* Until the first body is received the first vehicle is at the front.     *)
LEMMA FirstKept ==
  ASSUME IInv, Next, Streams'
  PROVE  FirstInv'
  <1> SUFFICES ASSUME server' \in Handshake PROVE FirstInv'
    BY DEF FirstInv
  <1> USE DEF IInv, Typed, upVars, downVars, limits
  <1>0. ASSUME server \in Handshake
        PROVE  /\ accepted = 0 /\ "up" \notin cause
               /\ sent > 0 => \A j \in 1 .. 3 :
                     IF server = "first body" THEN j \in 1 .. Len(up) /\ up[j] = Byte(1, j)
                     ELSE j + 1 \in 1 .. Len(up) /\ up[j + 1] = Byte(1, j)
               /\ sent = 0 => IF socket = "open" THEN up = <<>> /\ server # "first body"
                              ELSE Len(up) <= 1 /\ (server = "first body" => up = <<>>)
    BY <1>0, StreamRead DEF FirstInv, Frame, Streams
  <1>1. ASSUME accepted' = 0, "up" \notin cause',
               sent' > 0 => \A j \in 1 .. 3 :
                  IF server' = "first body" THEN j \in 1 .. Len(up') /\ up'[j] = Byte(1, j)
                  ELSE j + 1 \in 1 .. Len(up') /\ up'[j + 1] = Byte(1, j),
               sent' = 0 => IF socket' = "open" THEN up' = <<>> /\ server' # "first body"
                            ELSE Len(up') <= 1 /\ (server' = "first body" => up' = <<>>)
        PROVE  FirstInv'
    BY <1>1, StreamRead DEF FirstInv, Frame, Streams
  <1>2. ASSUME server \in Handshake, server' = "first body" <=> server = "first body",
               UNCHANGED <<accepted, sent, socket, up>>, "up" \notin cause'
        PROVE  FirstInv'
    BY <1>0, <1>1, <1>2
  <1>3. CASE ReadNumber
    BY <1>0, <1>2, <1>3 DEF ReadNumber, Short
  <1>4. CASE SendVehicle
    <2>1. accepted' = 0 /\ "up" \notin cause' /\ server' = server /\ socket' = socket /\ socket = "open"
      BY <1>0, <1>4 DEF SendVehicle
    <2>2. sent' = sent + 1 /\ sent \in Nat
      BY <1>4 DEF SendVehicle, Numbers
    <2>3. Len(up') >= Len(up) + 4 /\ Len(up) \in Nat /\ Len(up') \in Nat
      BY <1>4, VehicleSent
    <2>4. CASE sent > 0
      <3>1. \A i \in 1 .. Len(up) : i \in 1 .. Len(up') /\ up'[i] = up[i]
        BY <1>4, <2>3, VehicleSent, StreamRead DEF Streams
      <3>2. sent' # 0
        BY <2>2
      <3>3. QED
        BY <1>0, <1>1, <2>1, <2>4, <3>1, <3>2
    <2>5. CASE sent = 0
      <3>1. up = <<>> /\ server # "first body"
        BY <1>0, <2>1, <2>5
      <3>. Len(up) = 0
        BY <3>1
      <3>2. \A j \in 1 .. 3 : up'[Len(up) + 1 + j] = Byte(sent + 1, j)
        BY <1>4, VehicleSent
      <3>3. \A j \in 1 .. 3 : j + 1 \in 1 .. Len(up') /\ up'[j + 1] = Byte(1, j)
        <4>1. \A j \in 1 .. 3 : Len(up) + 1 + j = j + 1 /\ sent + 1 = 1
          BY <2>5
        <4>2. \A j \in 1 .. 3 : up'[j + 1] = Byte(1, j)
          BY <3>2, <4>1
        <4>3. \A j \in 1 .. 3 : j + 1 \in 1 .. Len(up')
          BY <2>3
        <4>4. QED
          BY <4>2, <4>3
      <3>4. sent' # 0
        BY <2>2
      <3>5. QED
        BY <1>1, <2>1, <3>1, <3>3, <3>4
    <2>6. QED
      BY <2>2, <2>4, <2>5
  <1>5. CASE Leave
    <2>1. PICK c : c = Code("disconnect")
      OBVIOUS
    <2>2. c \in Bytes /\ up' = Append(up, c)
      BY <1>5, <2>1, CodesAndBytes DEF Leave, Codes
    <2>3. /\ Len(up) \in Nat /\ Len(up') = Len(up) + 1 /\ (up = <<>> => Len(up) = 0)
          /\ \A i \in 1 .. Len(up) : up'[i] = up[i] /\ i \in 1 .. Len(up')
      BY <2>2 DEF Streams
    <2>4. /\ server' = server /\ sent' = sent /\ accepted' = accepted /\ cause' = cause
          /\ socket = "open" /\ socket' = "closed"
      BY <1>5 DEF Leave
    <2>5. sent = 0 => Len(up') <= 1 /\ server' # "first body"
      <3>1. sent = 0 => up = <<>> /\ server # "first body"
        BY <1>0, <2>4
      <3>2. up = <<>> => Len(up') <= 1
        BY <2>3
      <3>3. QED
        BY <2>4, <3>1, <3>2
    <2>6. sent > 0 => \A j \in 1 .. 3 :
             IF server' = "first body" THEN j \in 1 .. Len(up') /\ up'[j] = Byte(1, j)
             ELSE j + 1 \in 1 .. Len(up') /\ up'[j + 1] = Byte(1, j)
      BY <1>0, <2>3, <2>4
    <2>7. QED
      BY <1>0, <1>1, <2>4, <2>5, <2>6
  <1>6. CASE ListenCode
    BY <1>0, <1>2, <1>6 DEF ListenCode
  <1>7. CASE ListenVehicle
    BY <1>0, <1>2, <1>7 DEF ListenVehicle, Short
  <1>8. CASE ListenId
    BY <1>0, <1>2, <1>8 DEF ListenId, Short
  <1>9. CASE WriteNumber
    BY <1>0, <1>2, <1>9 DEF WriteNumber, Handshake
  <1>10. CASE ReceiveFirstCode
    <2>1. /\ server = "first code" /\ server' = "first body" /\ up # <<>> /\ up' = Tail(up)
          /\ UNCHANGED <<accepted, sent, socket, cause>>
      BY <1>10 DEF ReceiveFirstCode
    <2>2. /\ Len(up) \in Nat /\ Len(up) > 0 /\ Len(up') = Len(up) - 1
          /\ \A i \in 1 .. Len(up) - 1 : up'[i] = up[i + 1]
      <3>1. up \in Seq(Bytes) /\ up # <<>> /\ up' = Tail(up)
        BY <2>1 DEF Streams
      <3>2. Len(up) \in Nat /\ Len(up) # 0
        BY <3>1, StreamRead
      <3>3. QED
        BY <3>1, <3>2, StreamTail
    <2>3. sent > 0 => \A j \in 1 .. 3 : j \in 1 .. Len(up') /\ up'[j] = Byte(1, j)
      <3>1. sent > 0 => \A j \in 1 .. 3 : j + 1 \in 1 .. Len(up) /\ up[j + 1] = Byte(1, j)
        BY <1>0, <2>1 DEF Handshake
      <3>2. QED
        BY <2>2, <3>1
    <2>4. sent = 0 => socket # "open" /\ Len(up) <= 1
      BY <1>0, <2>1 DEF Handshake
    <2>5. Len(up) <= 1 => Len(up') = 0
      BY <2>2
    <2>6. Len(up') = 0 => up' = <<>> /\ Len(up') <= 1
      BY StreamRead DEF Streams
    <2>7. QED
      BY <1>0, <1>1, <2>1, <2>3, <2>4, <2>5, <2>6 DEF Handshake
  <1>11. CASE ReceiveFirst \/ ReceiveUpdate
    <2>1. \/ ReceiveBody("first body", "vehicle", "refused")
          \/ ReceiveBody("body", "vehicle", "vehicle")
      BY <1>11 DEF ReceiveFirst, ReceiveUpdate
    <2>2. server' \in {"vehicle", "refused"}
      BY <2>1 DEF ReceiveBody
    <2>3. QED
      BY <2>2 DEF Handshake
  <1>12. CASE WriteVehicleCode \/ WriteVehicle \/ WriteEnd
    BY <1>12 DEF WriteVehicleCode, WriteVehicle, WriteEnd, Handshake
  <1>13. CASE ReceiveCode \/ EndOfStream
    BY <1>13 DEF ReceiveCode, EndOfStream, Handshake
  <1>14. CASE Heartbeat
    BY <1>0, <1>2, <1>14 DEF Heartbeat
  <1>15. QED
    BY <1>3, <1>4, <1>5, <1>6, <1>7, <1>8, <1>9, <1>10, <1>11, <1>12, <1>13, <1>14
       DEF Next, Client, Server
-----------------------------------------------------------------------------
(* What went wrong stays on record.                                        *)
LEMMA CauseStays ==
  ASSUME Streams, Numbers, Next
  PROVE  cause \subseteq cause'
  <1>1. CASE Client
    BY <1>1 DEF Client, ReadNumber, SendVehicle, Leave, ListenCode, ListenVehicle, ListenId, limits
  <1>2. CASE Server
    BY <1>2, ServerApart
  <1>3. CASE Heartbeat
    BY <1>3 DEF Heartbeat
  <1>4. QED
    BY <1>1, <1>2, <1>3 DEF Next

(* The numbers of UpStream.                                                *)
LEMMA UpNumbers ==
  ASSUME Streams, Numbers
  PROVE  /\ Len(up) \in Nat /\ Consumed \in Nat /\ ClientWrote \in Nat
         /\ 4 * accepted <= Consumed /\ Consumed <= 4 * accepted + 1
         /\ 4 * sent <= ClientWrote
         /\ up = <<>> <=> Len(up) = 0
  <1>1. PICK a, b : /\ a = IF server \in Bodies THEN 1 ELSE 0
                    /\ b = IF socket = "closed" THEN 1 ELSE 0
    OBVIOUS
  <1>2. Consumed = 4 * accepted + a /\ ClientWrote = 4 * sent + b /\ a \in 0 .. 1 /\ b \in 0 .. 1
    BY <1>1 DEF Consumed, ClientWrote, Frame
  <1>3. QED
    BY <1>2, StreamRead DEF Streams, Numbers

(* Where a byte of vehicle n's message lies on the stream.                 *)
LEMMA UpByteAt ==
  ASSUME UpStream, NEW n \in accepted + 1 .. sent, NEW j \in 0 .. 3, NEW i \in 1 .. Len(up),
         i = 4 * (n - 1) + j + 1 - Consumed
  PROVE  up[i] = UpByte(n, j)
  <1>1. j \in 0 .. Frame /\ (Frame + 1) * (n - 1) = 4 * (n - 1)
    BY DEF Frame
  <1>2. i = (Frame + 1) * (n - 1) + j + 1 - Consumed
    BY <1>1
  <1>3. QED
    BY <1>1, <1>2, Zenon DEF UpStream

(* The server's thread takes k bytes from the front.                       *)
LEMMA UpTaken ==
  ASSUME Streams, Streams', Numbers, Numbers', UpStream, UNCHANGED <<sent, socket>>,
         NEW k \in Nat, Consumed' = Consumed + k, accepted <= accepted',
         Len(up) >= k, Len(up') = Len(up) - k,
         \A i \in 1 .. Len(up) - k : up'[i] = up[i + k]
  PROVE  UpStream'
  <1>1. /\ Len(up) \in Nat /\ Consumed \in Nat /\ ClientWrote \in Nat /\ 4 * sent <= ClientWrote
        /\ ClientWrote' = ClientWrote
    BY UpNumbers DEF ClientWrote
  <1>2. Len(up') = ClientWrote' - Consumed'
    BY <1>1 DEF UpStream
  <1>a. PICK a, l, c : a = accepted' /\ l = Len(up') /\ c = Consumed'
    OBVIOUS
  <1>d. Consumed \in Nat /\ Len(up) \in Nat
    BY <1>1
  <1>b. a \in Nat /\ accepted \in Nat /\ accepted <= a /\ sent \in Nat /\ l = Len(up) - k /\ c = Consumed + k
    BY <1>a DEF Numbers
  <1>3. ASSUME NEW n \in a + 1 .. sent, NEW j \in 0 .. 3, NEW i \in 1 .. l,
               i = 4 * (n - 1) + j + 1 - c
        PROVE  up'[i] = UpByte(n, j)
    <2>1. n \in accepted + 1 .. sent
      BY <1>b
    <2>2. i + k = 4 * (n - 1) + j + 1 - Consumed /\ i + k \in 1 .. Len(up) /\ i \in 1 .. Len(up) - k
      BY <1>3, <1>b, <1>d, <2>1
    <2>3. up[i + k] = UpByte(n, j)
      BY <2>1, <2>2, UpByteAt
    <2>4. QED
      BY <2>2, <2>3
  <1>4. ASSUME up' # <<>>, socket = "closed" PROVE up'[Len(up')] = Code("disconnect")
    <2>1. Len(up') # 0 /\ Len(up') \in Nat
      BY <1>4, StreamRead DEF Streams
    <2>2. Len(up) # 0 /\ Len(up) - k \in 1 .. Len(up) - k /\ Len(up) - k + k = Len(up)
      BY <1>1, <2>1
    <2>3. up # <<>>
      BY <2>2
    <2>4. QED
      BY <1>4, <2>2, <2>3 DEF UpStream
  <1>5. QED
    BY <1>2, <1>3, <1>4, <1>a DEF UpStream, Frame

(* The client sends a vehicle.                                             *)
LEMMA UpSent ==
  ASSUME Streams, Numbers, UpStream, SendVehicle, "own" \notin long
  PROVE  UpStream'
  <1>1. /\ Len(up) \in Nat /\ Consumed \in Nat /\ ClientWrote \in Nat
        /\ sent \in Nat /\ accepted \in Nat /\ 4 * accepted <= Consumed
    BY UpNumbers DEF Numbers
  <1>2. socket = "open" /\ socket' = "open" /\ sent' = sent + 1 /\ accepted' = accepted
        /\ server' = server
    BY DEF SendVehicle
  <1>3. ClientWrote = 4 * sent
    BY <1>1, <1>2 DEF ClientWrote, Frame
  <1>4. ClientWrote' = 4 * sent + 4 /\ Consumed' = Consumed
    BY <1>1, <1>2 DEF ClientWrote, Consumed, Frame
  <1>5. /\ Len(up') = Len(up) + 4
        /\ \A i \in 1 .. Len(up) : up'[i] = up[i]
        /\ up'[Len(up) + 1] = Code("vehicle")
        /\ \A j \in 1 .. 3 : up'[Len(up) + 1 + j] = Byte(sent + 1, j)
    BY VehicleSent
  <1>6. Len(up) = 4 * sent - Consumed
    BY <1>3 DEF UpStream
  <1>7. ASSUME NEW n \in accepted + 1 .. sent + 1, NEW j \in 0 .. 3, NEW i \in 1 .. Len(up) + 4,
               i = 4 * (n - 1) + j + 1 - Consumed
        PROVE  up'[i] = UpByte(n, j)
    <2>1. CASE n <= sent
      <3>1. n \in accepted + 1 .. sent /\ i \in 1 .. Len(up)
        BY <1>1, <1>6, <1>7, <2>1
      <3>2. up[i] = UpByte(n, j)
        BY <1>7, <3>1, UpByteAt
      <3>3. QED
        BY <1>5, <3>1, <3>2
    <2>2. CASE n = sent + 1
      <3>1. i = Len(up) + 1 + j
        BY <1>1, <1>6, <1>7, <2>2
      <3>2. CASE j = 0
        <4>1. i = Len(up) + 1
          BY <1>1, <3>1, <3>2
        <4>2. QED
          BY <1>5, <3>2, <4>1 DEF UpByte
      <3>3. CASE j # 0
        <4>1. j \in 1 .. 3
          BY <3>3
        <4>2. QED
          BY <1>5, <2>2, <3>1, <3>3, <4>1 DEF UpByte
      <3>4. QED
        BY <3>2, <3>3
    <2>3. QED
      BY <1>1, <1>7, <2>1, <2>2
  <1>8. Len(up') = ClientWrote' - Consumed'
    BY <1>1, <1>4, <1>5, <1>6
  <1>9. QED
    BY <1>2, <1>4, <1>5, <1>7, <1>8 DEF UpStream, Frame

(* The client says that it goes.                                           *)
LEMMA UpLeft ==
  ASSUME Streams, Numbers, UpStream, Leave
  PROVE  UpStream'
  <1>1. /\ Len(up) \in Nat /\ Consumed \in Nat /\ ClientWrote \in Nat
        /\ sent \in Nat /\ accepted \in Nat /\ 4 * sent <= ClientWrote
    BY UpNumbers DEF Numbers
  <1>2. PICK c : c = Code("disconnect")
    OBVIOUS
  <1>3. socket = "open" /\ socket' = "closed" /\ sent' = sent /\ accepted' = accepted
        /\ server' = server /\ up' = Append(up, c)
    BY <1>2 DEF Leave, limits
  <1>4. /\ Len(up') = Len(up) + 1 /\ \A i \in 1 .. Len(up) : up'[i] = up[i]
        /\ up'[Len(up) + 1] = c
    BY <1>3 DEF Streams
  <1>5. ClientWrote' = ClientWrote + 1 /\ Consumed' = Consumed
    BY <1>1, <1>3 DEF ClientWrote, Consumed, Frame
  <1>6. ASSUME NEW n \in accepted + 1 .. sent, NEW j \in 0 .. 3, NEW i \in 1 .. Len(up) + 1,
               i = 4 * (n - 1) + j + 1 - Consumed
        PROVE  up'[i] = UpByte(n, j)
    <2>1. i \in 1 .. Len(up)
      BY <1>1, <1>6 DEF UpStream
    <2>2. up[i] = UpByte(n, j)
      BY <1>6, <2>1, UpByteAt
    <2>3. QED
      BY <1>4, <2>1, <2>2
  <1>7. Len(up') = ClientWrote' - Consumed'
    BY <1>1, <1>4, <1>5 DEF UpStream
  <1>8. up'[Len(up')] = c
    BY <1>4
  <1>9. QED
    BY <1>2, <1>3, <1>4, <1>5, <1>6, <1>7, <1>8 DEF UpStream, Frame

(* The stream is left alone.                                               *)
LEMMA UpUntouched ==
  ASSUME UpStream, UNCHANGED <<up, accepted, sent, socket>>,
         server' \in Bodies <=> server \in Bodies
  PROVE  UpStream'
  BY DEF UpStream, ClientWrote, Consumed

(* The server's thread takes a code, or a body, from the front.            *)
LEMMA CodeTaken ==
  ASSUME Streams, Streams', Numbers, Numbers', UpStream, up # <<>>, up' = Tail(up),
         UNCHANGED <<sent, socket, accepted>>, server \notin Bodies, server' \in Bodies
  PROVE  UpStream'
  <1>1. up \in Seq(Bytes) /\ Len(up) \in Nat /\ Len(up) # 0
    BY StreamRead DEF Streams
  <1>2. Len(up') = Len(up) - 1 /\ \A i \in 1 .. Len(up) - 1 : up'[i] = up[i + 1]
    BY <1>1, StreamTail
  <1>3. Consumed' = Consumed + 1
    BY DEF Consumed, Frame, Numbers
  <1>4. accepted <= accepted' /\ Len(up) >= 1
    BY <1>1 DEF Numbers
  <1>5. QED
    BY <1>2, <1>3, <1>4, UpTaken

(* The stream is as it should be after a body was taken whole.             *)
LEMMA BodyTaken ==
  ASSUME Streams, Streams', Numbers, Numbers', UpStream,
         Len(up) >= 3, Len(up') = Len(up) - 3, \A i \in 1 .. Len(up) - 3 : up'[i] = up[i + 3],
         UNCHANGED <<sent, socket>>, accepted' = accepted + 1,
         server \in Bodies, server' \notin Bodies
  PROVE  UpStream'
  <1>1. Consumed' = Consumed + 3
    BY DEF Consumed, Frame, Numbers
  <1>2. accepted <= accepted'
    BY DEF Numbers
  <1>3. QED
    BY <1>1, <1>2, UpTaken

(* Nothing the server reads changes.                                       *)
LEMMA UpSame ==
  ASSUME UpInv, cause \cap {"up", "own"} = {}, UNCHANGED <<up, accepted, sent, socket, long, number>>,
         server' \in Bodies <=> server \in Bodies,
         server' \notin Ended => server \notin Ended,
         server' = "body" => server = "body",
         server' \notin Handshake \cup Ended => server \notin Handshake \cup Ended
  PROVE  UpInv'
  BY UpUntouched DEF UpInv

(* The code that is next under way is a vehicle's, or the last word.       *)
LEMMA NextCode ==
  ASSUME IInv, cause \cap {"up", "own"} = {}, server = "code", up # <<>>
  PROVE  \/ up[1] = Code("vehicle") /\ accepted < sent
         \/ up[1] = Code("disconnect")
  <1> USE DEF IInv, Typed
  <1>1. UpStream /\ accepted <= sent
    BY DEF UpInv, Ended
  <1>2. /\ Len(up) \in Nat /\ Len(up) # 0 /\ accepted \in Nat /\ sent \in Nat
        /\ Consumed = 4 * accepted
    <2>1. Len(up) \in Nat /\ Len(up) # 0
      BY UpNumbers
    <2>2. Consumed = 4 * accepted
      BY DEF Consumed, Bodies, Frame, Numbers
    <2>3. QED
      BY <2>1, <2>2 DEF Numbers
  <1>3. CASE accepted < sent
    <2>1. PICK n, j, i : n = accepted + 1 /\ j = 0 /\ i = 1
      OBVIOUS
    <2>2. /\ n \in accepted + 1 .. sent /\ j \in 0 .. 3 /\ i \in 1 .. Len(up)
          /\ i = 4 * (n - 1) + j + 1 - Consumed
      BY <1>2, <1>3, <2>1
    <2>3. up[i] = UpByte(n, j)
      BY <1>1, <2>2, UpByteAt
    <2>4. QED
      BY <1>3, <2>1, <2>3 DEF UpByte
  <1>4. CASE accepted = sent
    <2>1. CASE socket = "closed"
      <3>1. ClientWrote = 4 * sent + 1
        BY <1>2, <2>1 DEF ClientWrote, Frame
      <3>2. Len(up) = 1
        BY <1>1, <1>2, <1>4, <3>1 DEF UpStream
      <3>3. QED
        BY <1>1, <2>1, <3>2 DEF UpStream
    <2>2. CASE socket # "closed"
      <3>1. ClientWrote = 4 * sent
        BY <1>2, <2>2 DEF ClientWrote, Frame
      <3>2. Len(up) = 0
        BY <1>1, <1>2, <1>4, <3>1 DEF UpStream
      <3>3. QED
        BY <1>2, <3>2
    <2>3. QED
      BY <2>1, <2>2
  <1>5. QED
    BY <1>1, <1>2, <1>3, <1>4

(* An update that is received in one piece is the next vehicle, and taken  *)
(* for it.                                                                 *)
LEMMA UpdateReceived ==
  ASSUME IInv, ReceiveUpdate, cause \cap {"up", "own"} = {}, "up" \notin cause'
  PROVE  accepted < sent /\ accepted' = accepted + 1
  <1> USE DEF IInv, Typed
  <1>1. ReceiveBody("body", "vehicle", "vehicle")
    BY DEF ReceiveUpdate
  <1>2. server = "body" /\ buffer' \in [1 .. Frame -> Bytes]
    BY <1>1, BodyReceived
  <1>3. UpStream /\ accepted < sent /\ number = "own"
    BY <1>2 DEF UpInv, Ended, Handshake
  <1>4. Len(up) \in Nat /\ Len(up) >= 3 /\ \A i \in 1 .. 3 : buffer'[i] = up[i]
    BY <1>1, WholeReceived
  <1>5. accepted \in Nat /\ sent \in Nat /\ Consumed = 4 * accepted + 1
    BY <1>2 DEF Consumed, Bodies, Frame, Numbers
  <1>6. ASSUME NEW j \in 1 .. 3 PROVE buffer'[j] = Byte(accepted + 1, j)
    <2>1. PICK n : n = accepted + 1
      OBVIOUS
    <2>2. /\ n \in accepted + 1 .. sent /\ j \in 0 .. 3 /\ j \in 1 .. Len(up)
          /\ j = 4 * (n - 1) + j + 1 - Consumed
      BY <1>3, <1>4, <1>5, <2>1
    <2>3. up[j] = UpByte(n, j)
      BY <1>3, <2>2, UpByteAt
    <2>4. j # 0
      OBVIOUS
    <2>5. QED
      BY <1>4, <2>1, <2>3, <2>4 DEF UpByte
  <1>7. ~(FALSE \in Accepts(buffer'))
    <2>1. accepted + 1 \in Nat
      BY <1>5
    <2>2. FALSE \in Accepts(buffer') => number # "own"
      BY <1>6, <2>1, AcceptsOwn
    <2>3. QED
      BY <1>3, <2>2
  <1>8. accepted' = Took(accepted, buffer')
    BY <1>1, <1>7, BodyReceived
  <1>9. Took(accepted, buffer') = accepted + 1
    <2>1. \A i \in 1 .. Frame : buffer'[i] = Byte(accepted + 1, i)
      BY <1>6 DEF Frame
    <2>2. QED
      BY <1>2, <1>5, <2>1, TookIs
  <1>10. QED
    BY <1>3, <1>8, <1>9

(* The server's side is in step until something went wrong there.          *)
LEMMA UpKept ==
  ASSUME IInv, Next, Typed'
  PROVE  UpInv'
  <1> SUFFICES ASSUME cause' \cap {"up", "own"} = {} PROVE UpInv'
    BY DEF UpInv
  <1> USE DEF IInv, Typed, upVars, downVars, limits
  <1>0. /\ cause \cap {"up", "own"} = {} /\ "up" \notin cause'
        /\ accepted <= sent /\ accepted \in Nat /\ sent \in Nat
        /\ sent > 0 => "own" \notin long
        /\ server \notin Ended => UpStream
        /\ server = "body" => accepted < sent
        /\ server \notin Handshake \cup Ended => number = "own"
    <2>1. cause \cap {"up", "own"} = {} /\ "up" \notin cause'
      BY CauseStays
    <2>2. QED
      BY <2>1 DEF UpInv, Numbers
  <1>1. CASE ReadNumber
    <2>1. UNCHANGED <<up, accepted, sent, socket, long, server>> /\ number = "none"
      BY <1>1 DEF ReadNumber, NumberInv
    <2>2. server \in Handshake \cup Ended
      BY <1>0, <2>1
    <2>3. server \notin Ended => UpStream'
      BY <1>0, <2>1, UpUntouched
    <2>4. QED
      BY <1>0, <2>1, <2>2, <2>3 DEF UpInv
  <1>2. CASE SendVehicle
    <2>1. /\ sent' = sent + 1 /\ "own" \notin long /\ "own" \notin long'
          /\ UNCHANGED <<server, accepted, number, socket>>
      BY <1>2 DEF SendVehicle
    <2>2. server \notin Ended => UpStream'
      BY <1>0, <1>2, <2>1, UpSent
    <2>3. accepted' <= sent' /\ (server' = "body" => accepted' < sent')
      <3>1. accepted <= sent + 1 /\ (accepted < sent => accepted < sent + 1)
        BY <1>0
      <3>2. QED
        BY <1>0, <2>1, <3>1
    <2>4. QED
      BY <1>0, <2>1, <2>2, <2>3 DEF UpInv
  <1>3. CASE Leave
    <2>1. UNCHANGED <<server, accepted, sent, number, long>>
      BY <1>3 DEF Leave
    <2>2. server \notin Ended => UpStream'
      BY <1>0, <1>3, UpLeft
    <2>3. QED
      BY <1>0, <2>1, <2>2 DEF UpInv
  <1>4. CASE ListenCode
    BY <1>0, <1>4, UpSame DEF ListenCode
  <1>5. CASE ListenVehicle
    BY <1>0, <1>5, UpSame DEF ListenVehicle
  <1>6. CASE ListenId
    BY <1>0, <1>6, UpSame DEF ListenId
  <1>7. CASE WriteNumber
    BY <1>0, <1>7, UpSame DEF WriteNumber, Bodies, Ended, Handshake
  <1>8. CASE WriteVehicleCode \/ WriteVehicle \/ WriteEnd
    <2>1. /\ server \in {"vehicle", "write", "end"} /\ server' \in {"write", "end", "code"}
          /\ UNCHANGED <<up, accepted, sent, socket, long, number>>
      BY <1>8 DEF WriteVehicleCode, WriteVehicle, WriteEnd
    <2>2. QED
      BY <1>0, <2>1, UpSame DEF Bodies, Ended, Handshake
  <1>9. CASE EndOfStream
    <2>1. server' = "ended" /\ UNCHANGED <<up, accepted, sent, socket, long, number>>
      BY <1>9 DEF EndOfStream
    <2>2. QED
      BY <1>0, <2>1 DEF UpInv, Ended
  <1>10. CASE Heartbeat
    BY <1>0, <1>10, UpSame DEF Heartbeat
  <1>11. CASE ReceiveFirstCode
    <2>1. /\ server = "first code" /\ server' = "first body" /\ up # <<>> /\ up' = Tail(up)
          /\ UNCHANGED <<accepted, sent, socket, long, number>>
      BY <1>11 DEF ReceiveFirstCode
    <2>2. UpStream'
      BY <1>0, <2>1, CodeTaken DEF Bodies, Ended
    <2>3. QED
      BY <1>0, <2>1, <2>2 DEF UpInv, Handshake
  <1>12. CASE ReceiveFirst
    <2>1. ReceiveBody("first body", "vehicle", "refused")
      BY <1>12 DEF ReceiveFirst
    <2>2. UNCHANGED <<sent, socket, long, number>>
      BY <2>1, BodyReceived
    <2>3. /\ server = "first body" /\ accepted = 0 /\ sent > 0
          /\ \/ accepted' = 1 /\ number = "own" /\ server' = "vehicle"
             \/ accepted' = 0 /\ number = "wrong" /\ server' = "refused"
      BY <1>0, <1>12, FirstReceived
    <2>4. Len(up) >= 3 /\ Len(up') = Len(up) - 3 /\ \A i \in 1 .. Len(up) - 3 : up'[i] = up[i + 3]
      BY <1>0, <2>1, WholeReceived
    <2>5. server' = "vehicle" => UpStream'
      <3>1. ASSUME server' = "vehicle" PROVE accepted' = accepted + 1
        <4>1. accepted = 0 /\ accepted' = 1
          BY <2>3, <3>1
        <4>2. QED
          BY <4>1
      <3>2. UpStream
        BY <1>0, <2>3 DEF Ended
      <3>3. QED
        BY <2>2, <2>3, <2>4, <3>1, <3>2, BodyTaken DEF Bodies
    <2>6. accepted' <= sent'
      <3>1. 0 <= sent /\ 1 <= sent
        <4>1. sent \in Nat /\ sent > 0
          BY <1>0, <2>3
        <4>2. QED
          BY <4>1
      <3>2. QED
        BY <2>2, <2>3, <3>1
    <2>7. QED
      BY <1>0, <2>2, <2>3, <2>5, <2>6 DEF UpInv, Ended
  <1>13. CASE ReceiveCode
    <2>1. /\ server = "code" /\ up # <<>> /\ up' = Tail(up)
          /\ UNCHANGED <<accepted, sent, socket, long, number>>
      BY <1>13 DEF ReceiveCode
    <2>2. Head(up) = up[1]
      BY <2>1, StreamTail DEF Streams
    <2>3. CASE up[1] = Code("vehicle") /\ accepted < sent
      <3>1. server' = "body"
        <4>1. ReadAs(Head(up)) = {"vehicle"}
          BY <2>2, <2>3, CodesAndBytes DEF Codes
        <4>2. QED
          BY <1>13, <4>1 DEF ReceiveCode
      <3>2. UpStream'
        BY <1>0, <2>1, <3>1, CodeTaken DEF Bodies, Ended
      <3>3. accepted' < sent'
        BY <2>1, <2>3
      <3>4. QED
        BY <1>0, <2>1, <3>1, <3>2, <3>3 DEF UpInv, Handshake, Ended
    <2>4. CASE up[1] = Code("disconnect")
      <3>1. server' = "ended"
        <4>1. ReadAs(Head(up)) = {"disconnect"}
          BY <2>2, <2>4, CodesAndBytes DEF Codes
        <4>2. QED
          BY <1>13, <4>1 DEF ReceiveCode
      <3>2. QED
        BY <1>0, <2>1, <3>1 DEF UpInv, Ended
    <2>5. QED
      BY <1>0, <2>1, <2>3, <2>4, NextCode
  <1>14. CASE ReceiveUpdate
    <2>1. ReceiveBody("body", "vehicle", "vehicle")
      BY <1>14 DEF ReceiveUpdate
    <2>2. server = "body" /\ server' = "vehicle" /\ UNCHANGED <<sent, socket, long, number>>
      BY <2>1 DEF ReceiveBody
    <2>3. accepted < sent /\ accepted' = accepted + 1
      BY <1>0, <1>14, UpdateReceived
    <2>4. Len(up) >= 3 /\ Len(up') = Len(up) - 3 /\ \A i \in 1 .. Len(up) - 3 : up'[i] = up[i + 3]
      BY <1>0, <2>1, WholeReceived
    <2>5. UpStream'
      <3>1. UpStream
        BY <1>0, <2>2 DEF Ended
      <3>2. QED
        BY <2>2, <2>3, <2>4, <3>1, BodyTaken DEF Bodies
    <2>6. accepted' <= sent'
      <3>1. accepted + 1 <= sent
        BY <1>0, <2>3
      <3>2. QED
        BY <2>2, <2>3, <3>1
    <2>7. number' = "own"
      BY <1>0, <2>2 DEF Handshake, Ended
    <2>8. QED
      BY <1>0, <2>2, <2>5, <2>6, <2>7 DEF UpInv
  <1>15. QED
    BY <1>1, <1>2, <1>3, <1>4, <1>5, <1>6, <1>7, <1>8, <1>9, <1>10, <1>11, <1>12, <1>13, <1>14
       DEF Next, Client, Server

-----------------------------------------------------------------------------
(* The first k bytes are taken, and with them the groups before rest.      *)
LEMMA FrontTaken ==
  ASSUME NEW d, NEW e, NEW lo \in Nat, NEW hi \in Nat, NEW rest \in Nat, lo <= rest,
         NEW written \in Nat, NEW read \in Nat, NEW k \in Nat, NEW ahead \in Nat, NEW ld \in Nat,
         NEW s \in [lo .. hi -> 0 .. ld], Len(d) = ld,
         Frames(d, s, lo, hi, written, read, ahead), ahead <= k,
         k <= ld, Len(e) = ld - k, \A i \in 1 .. ld - k : e[i] = d[i + k],
         NEW now \in Nat,
         \A g \in rest .. hi : s[g] >= k /\ (s[g] = k <=> g = now),
         \A g \in lo .. hi : g < rest => s[g] + 3 <= k
  PROVE  \E t \in [rest .. hi -> 0 .. Len(e)] : Frames(e, t, rest, hi, written, now, 0)
  <1>1. PICK t : t = [g \in rest .. hi |-> s[g] - k]
    OBVIOUS
  <1>2. \A g \in rest .. hi : /\ g \in lo .. hi /\ s[g] \in 0 .. ld /\ t[g] = s[g] - k
                              /\ t[g] \in 0 .. ld - k /\ (t[g] = 0 <=> s[g] = k)
    BY <1>1
  <1>3. t \in [rest .. hi -> 0 .. ld - k]
    BY <1>1, <1>2
  <1>4. ASSUME NEW g \in rest .. hi PROVE FrameAt(e, t, written, now, g)
    <2>1. FrameAt(d, s, written, read, g) /\ g \in lo .. hi
      BY <1>2 DEF Frames
    <2>2. t[g] = 0 <=> g = now
      BY <1>2
    <2>3. t[g] # 0 => t[g] \in 1 .. ld - k /\ t[g] + k = s[g] /\ s[g] # 0
      BY <1>2
    <2>4. t[g] # 0 => e[t[g]] = Code("vehicle")
      BY <2>1, <2>3 DEF FrameAt
    <2>5. g = written => ld - k = t[g]
      BY <1>2, <2>1 DEF FrameAt
    <2>6. ASSUME g # written, NEW j \in 1 .. 3
          PROVE  t[g] + j \in 1 .. ld - k /\ e[t[g] + j] = Byte(g, j)
      <3>1. s[g] + j \in 1 .. ld /\ d[s[g] + j] = Byte(g, j)
        BY <2>1, <2>6 DEF FrameAt, Frame
      <3>2. t[g] + j \in 1 .. ld - k /\ t[g] + j + k = s[g] + j
        <4>1. PICK a, b : a = s[g] /\ b = t[g]
          OBVIOUS
        <4>2. a \in 0 .. ld /\ b = a - k /\ a >= k /\ a + j \in 1 .. ld
          BY <1>2, <3>1, <4>1
        <4>3. b + j \in 1 .. ld - k /\ b + j + k = a + j
          BY <4>2
        <4>4. QED
          BY <4>1, <4>3
      <3>3. QED
        BY <3>1, <3>2
    <2>7. QED
      BY <2>2, <2>3, <2>4, <2>5, <2>6 DEF FrameAt, Frame
  <1>5. \A g, h \in rest .. hi : g < h => t[g] < t[h]
    <2>1. \A g, h \in rest .. hi : g < h => s[g] < s[h]
      BY <1>2 DEF Frames
    <2>2. ASSUME NEW g \in rest .. hi, NEW h \in rest .. hi, g < h PROVE t[g] < t[h]
      <3>1. PICK a, b : a = s[g] /\ b = s[h]
        OBVIOUS
      <3>2. a < b
        BY <2>1, <2>2, <3>1
      <3>3. a \in Nat /\ b \in Nat /\ t[g] = a - k /\ t[h] = b - k
        BY <1>2, <3>1
      <3>4. a - k < b - k
        BY <3>2, <3>3
      <3>5. QED
        BY <3>3, <3>4
    <2>3. QED
      BY <2>2
  <1>6. ASSUME NEW i \in 1 .. ld - k
        PROVE  \/ \E g \in rest .. hi, j \in 0 .. Frame : i = t[g] + j
               \/ e[i] \in {Code("end"), Code("heartbeat")}
    <2>1. i + k \in 1 .. ld /\ e[i] = d[i + k] /\ ~(i + k <= ahead)
      OBVIOUS
    <2>2. \/ \E g \in lo .. hi, j \in 0 .. 3 : i + k = s[g] + j
          \/ d[i + k] \in {Code("end"), Code("heartbeat")}
      BY <2>1 DEF Frames, Frame
    <2>3. ASSUME NEW g \in lo .. hi, NEW j \in 0 .. 3, i + k = s[g] + j
          PROVE  g \in rest .. hi /\ i = t[g] + j
      <3>1. s[g] \in Nat
        OBVIOUS
      <3>2. ~(g < rest)
        BY <2>3, <3>1
      <3>3. g \in rest .. hi
        BY <3>2
      <3>4. PICK a, b : a = s[g] /\ b = t[g]
        OBVIOUS
      <3>5. a \in Nat /\ b = a - k
        BY <1>2, <3>1, <3>3, <3>4
      <3>6. i = b + j
        <4>1. i \in Nat /\ j \in Nat
          OBVIOUS
        <4>2. i + k = a + j
          BY <2>3, <3>4
        <4>3. i = (a - k) + j
          BY <3>5, <4>1, <4>2
        <4>4. QED
          BY <3>5, <4>3
      <3>7. QED
        BY <3>3, <3>4, <3>6
    <2>4. QED
      BY <2>1, <2>2, <2>3 DEF Frame
  <1>7. Frames(e, t, rest, hi, written, now, 0)
    BY <1>4, <1>5, <1>6 DEF Frames
  <1>8. t \in [rest .. hi -> 0 .. Len(e)]
    BY <1>3
  <1>9. QED
    BY <1>7, <1>8

(* Ends and heartbeats come behind.                                        *)
LEMMA CodesAdded ==
  ASSUME NEW d, NEW e, NEW lo \in Nat, NEW hi \in Nat, lo > 0,
         NEW read \in Nat, NEW ahead \in Nat, NEW ld \in Nat, NEW le \in Nat,
         NEW s \in [lo .. hi -> 0 .. ld], Len(d) = ld, Len(e) = le, ld <= le,
         Frames(d, s, lo, hi, 0, read, ahead), \A i \in 1 .. ld : e[i] = d[i],
         \A i \in ld + 1 .. le : e[i] \in {Code("end"), Code("heartbeat")}
  PROVE  Frames(e, s, lo, hi, 0, read, ahead)
  <1>2. \A i \in 1 .. ld : i \in 1 .. le /\ e[i] = d[i]
    OBVIOUS
  <1>3. ASSUME NEW g \in lo .. hi PROVE FrameAt(e, s, 0, read, g)
    <2>1. FrameAt(d, s, 0, read, g) /\ g # 0
      BY DEF Frames
    <2>2. QED
      BY <1>2, <2>1 DEF FrameAt
  <1>4. \A i \in 1 .. le : i \in 1 .. ld \/ i \in ld + 1 .. le
    OBVIOUS
  <1>5. QED
    BY <1>2, <1>3, <1>4 DEF Frames

(* The code of one more group comes behind.                                *)
LEMMA GroupBegun ==
  ASSUME NEW d, NEW e, NEW lo \in Nat, NEW hi \in Nat, lo > 0, lo <= hi + 1,
         NEW read \in Nat, read <= hi, NEW ahead \in Nat, NEW ld \in Nat,
         NEW s \in [lo .. hi -> 0 .. ld], Len(d) = ld, Len(e) = ld + 1,
         Frames(d, s, lo, hi, 0, read, ahead), \A i \in 1 .. ld : e[i] = d[i],
         e[ld + 1] = Code("vehicle"), NEW n, n = hi + 1
  PROVE  \E t \in [lo .. n -> 0 .. Len(e)] : Frames(e, t, lo, n, n, read, ahead)
  <1>1. PICK t : t = [g \in lo .. n |-> IF g = n THEN ld + 1 ELSE s[g]]
    OBVIOUS
  <1>2. /\ t[n] = ld + 1 /\ n \in lo .. n
        /\ \A g \in lo .. hi : t[g] = s[g] /\ g \in lo .. n /\ g # n /\ s[g] \in 0 .. ld
        /\ \A g \in lo .. n : g \in lo .. hi \/ g = n
    BY <1>1
  <1>3. t \in [lo .. n -> 0 .. ld + 1]
    BY <1>1, <1>2
  <1>4. ASSUME NEW g \in lo .. hi PROVE FrameAt(e, t, n, read, g)
    <2>1. FrameAt(d, s, 0, read, g) /\ g # 0 /\ g # n
      BY <1>2 DEF Frames
    <2>2. \A i \in 1 .. ld : i \in 1 .. ld + 1 /\ e[i] = d[i]
      OBVIOUS
    <2>3. QED
      BY <1>2, <2>1, <2>2 DEF FrameAt
  <1>5. FrameAt(e, t, n, read, n)
    BY <1>2 DEF FrameAt
  <1>6. \A g, h \in lo .. n : g < h => t[g] < t[h]
    <2>1. \A g, h \in lo .. hi : g < h => s[g] < s[h]
      BY DEF Frames
    <2>2. ASSUME NEW g \in lo .. n, NEW h \in lo .. n, g < h PROVE t[g] < t[h]
      <3>1. g \in lo .. hi
        BY <2>2
      <3>2. CASE h = n
        <4>1. t[g] \in 0 .. ld /\ t[h] = ld + 1
          BY <1>2, <3>1, <3>2
        <4>2. QED
          BY <4>1
      <3>3. CASE h # n
        <4>1. h \in lo .. hi
          BY <1>2, <3>3
        <4>2. QED
          BY <1>2, <2>1, <2>2, <3>1, <4>1
      <3>4. QED
        BY <3>2, <3>3
    <2>3. QED
      BY <2>2
  <1>7. ASSUME NEW i \in 1 .. ld + 1
        PROVE  \/ \E g \in lo .. n, j \in 0 .. Frame : i = t[g] + j
               \/ e[i] \in {Code("end"), Code("heartbeat")}
               \/ i <= ahead
    <2>1. CASE i = ld + 1
      <3>1. i = t[n] + 0 /\ 0 \in 0 .. Frame
        BY <1>2, <2>1 DEF Frame
      <3>2. QED
        BY <1>2, <3>1
    <2>2. CASE i # ld + 1
      <3>1. i \in 1 .. ld
        BY <2>2
      <3>2. QED
        BY <1>2, <3>1 DEF Frames
    <2>3. QED
      BY <2>1, <2>2
  <1>8. Frames(e, t, lo, n, n, read, ahead)
    BY <1>2, <1>4, <1>5, <1>6, <1>7 DEF Frames
  <1>9. QED
    BY <1>3, <1>8

(* The body comes behind its code.                                         *)
LEMMA GroupCompleted ==
  ASSUME NEW d, NEW e, NEW lo \in Nat, NEW hi \in Nat, lo > 0, lo <= hi,
         NEW read \in Nat, NEW ahead \in Nat, NEW ld \in Nat,
         NEW s \in [lo .. hi -> 0 .. ld], Len(d) = ld, Len(e) = ld + 3,
         Frames(d, s, lo, hi, hi, read, ahead), \A i \in 1 .. ld : e[i] = d[i],
         \A j \in 1 .. 3 : e[ld + j] = Byte(hi, j)
  PROVE  Frames(e, s, lo, hi, 0, read, ahead)
  <1>1. s[hi] = ld
    <2>1. FrameAt(d, s, hi, read, hi)
      BY DEF Frames
    <2>2. QED
      BY <2>1 DEF FrameAt
  <1>2. \A i \in 1 .. ld : i \in 1 .. ld + 3 /\ e[i] = d[i]
    OBVIOUS
  <1>3. ASSUME NEW g \in lo .. hi PROVE FrameAt(e, s, 0, read, g)
    <2>1. FrameAt(d, s, hi, read, g) /\ g # 0
      BY DEF Frames
    <2>2. g = hi => \A j \in 1 .. 3 : s[g] + j \in 1 .. ld + 3 /\ e[s[g] + j] = Byte(g, j)
      BY <1>1
    <2>3. g # hi => \A j \in 1 .. 3 : s[g] + j \in 1 .. ld + 3 /\ e[s[g] + j] = Byte(g, j)
      BY <1>2, <2>1 DEF FrameAt, Frame
    <2>4. QED
      BY <1>2, <2>1, <2>2, <2>3 DEF FrameAt, Frame
  <1>4. ASSUME NEW i \in 1 .. ld + 3
        PROVE  \/ \E g \in lo .. hi, j \in 0 .. Frame : i = s[g] + j
               \/ e[i] \in {Code("end"), Code("heartbeat")}
               \/ i <= ahead
    <2>1. CASE i \in 1 .. ld
      BY <1>2, <2>1 DEF Frames
    <2>2. CASE i \notin 1 .. ld
      <3>1. PICK j : j = i - ld
        OBVIOUS
      <3>2. j \in 0 .. Frame /\ i = s[hi] + j
        BY <1>1, <2>2, <3>1 DEF Frame
      <3>3. QED
        BY <3>2
    <2>3. QED
      BY <2>1, <2>2
  <1>5. QED
    BY <1>1, <1>3, <1>4 DEF Frames

(* How the groups lie when the client reads, and nothing went wrong.       *)
LEMMA DownNumbers ==
  ASSUME Typed, DownInv, cause \cap {"down", "other", "beat"} = {}, client # "ended"
  PROVE  /\ down \in Seq(Bytes) /\ Len(down) \in Nat /\ taken \in Nat /\ groups \in Nat
         /\ taken <= groups /\ client \in {"number", "code", "vehicle"}
         /\ client = "vehicle" => taken < groups
         /\ server = "write" => taken < groups
         /\ HalfWritten \in Nat /\ HalfRead \in Nat /\ Ahead \in Nat
         /\ \E s \in [taken + 1 .. groups -> 0 .. Len(down)] :
               Frames(down, s, taken + 1, groups, HalfWritten, HalfRead, Ahead)
  <1>1. down \in Seq(Bytes) /\ Len(down) \in Nat /\ taken \in Nat /\ groups \in Nat
    BY StreamRead DEF Typed, Streams, Numbers
  <1>2. HalfWritten \in Nat /\ HalfRead \in Nat /\ Ahead \in Nat
    BY <1>1 DEF HalfWritten, HalfRead, Ahead, Number
  <1>3. QED
    BY <1>1, <1>2 DEF DownInv, DownStream

(* The client takes k bytes off the front of its stream, and with them a   *)
(* group when it takes one.                                                *)
LEMMA DownTaken ==
  ASSUME Typed, Typed', DownInv, cause \cap {"down", "other", "beat"} = {},
         client # "ended", client' \in {"code", "vehicle"},
         UNCHANGED <<server, groups>>,
         NEW k \in 1 .. Len(down), Ahead <= k,
         down' \in Seq(Bytes), Len(down') = Len(down) - k,
         \A i \in 1 .. Len(down) - k : down'[i] = down[i + k],
         taken' <= groups, taken <= taken', client' = "vehicle" => taken' < groups,
         server = "write" => taken' < groups,
         \A s \in [taken + 1 .. groups -> 0 .. Len(down)] :
            Frames(down, s, taken + 1, groups, HalfWritten, HalfRead, Ahead) =>
               /\ \A g \in taken' + 1 .. groups : s[g] >= k /\ (s[g] = k <=> g = HalfRead')
               /\ \A g \in taken + 1 .. groups : g < taken' + 1 => s[g] + 3 <= k
  PROVE  DownInv'
  <1>1. PICK lo, rest, hi, written, read, now, ahead, ld, d, e :
           /\ lo = taken + 1 /\ rest = taken' + 1 /\ hi = groups /\ written = HalfWritten
           /\ read = HalfRead /\ now = HalfRead' /\ ahead = Ahead /\ ld = Len(down)
           /\ d = down /\ e = down'
    OBVIOUS
  <1>2. /\ lo \in Nat /\ rest \in Nat /\ hi \in Nat /\ written \in Nat /\ read \in Nat
        /\ now \in Nat /\ ahead \in Nat /\ ld \in Nat /\ lo <= rest
    <2>1. PICK a, b : a = taken /\ b = taken'
      OBVIOUS
    <2>2. a \in Nat /\ b \in Nat /\ a <= b /\ lo = a + 1 /\ rest = b + 1
      BY <1>1, <2>1 DEF Typed, Numbers
    <2>3. lo \in Nat /\ rest \in Nat /\ lo <= rest
      BY <2>2
    <2>4. now \in {0, rest}
      BY <1>1 DEF HalfRead
    <2>5. QED
      BY <1>1, <2>3, <2>4, DownNumbers
  <1>3. PICK s \in [lo .. hi -> 0 .. ld] : Frames(d, s, lo, hi, written, read, ahead)
    BY <1>1, DownNumbers
  <1>4. /\ \A g \in rest .. hi : s[g] >= k /\ (s[g] = k <=> g = now)
        /\ \A g \in lo .. hi : g < rest => s[g] + 3 <= k
    BY <1>1, <1>3
  <1>5. k \in Nat /\ k <= ld /\ ahead <= k
    BY <1>1, <1>2
  <1>6. Len(d) = ld /\ Len(e) = ld - k /\ \A i \in 1 .. ld - k : e[i] = d[i + k]
    BY <1>1
  <1>7. \E t \in [rest .. hi -> 0 .. Len(e)] : Frames(e, t, rest, hi, written, now, 0)
    BY <1>2, <1>3, <1>4, <1>5, <1>6, FrontTaken, ZenonT(60)
  <1>8. DownStream'
    <2>1. HalfWritten' = written /\ Ahead' = 0
      BY <1>1 DEF HalfWritten, Ahead
    <2>2. QED
      BY <1>1, <1>7, <2>1 DEF DownStream
  <1>9. QED
    BY <1>8 DEF DownInv

(* Nothing that the client could see changes.                              *)
LEMMA DownSame ==
  ASSUME DownInv, cause \cap {"down", "other", "beat"} = {},
         UNCHANGED <<down, client, taken, groups>>, server' = "write" <=> server = "write"
  PROVE  DownInv'
  BY DEF DownInv, DownStream, HalfWritten, HalfRead, Ahead

(* What the client finds first: where a code is due it is one, ...         *)
LEMMA CodeAhead ==
  ASSUME NEW d, NEW lo \in Nat, lo > 0, NEW hi \in Nat, NEW written \in Nat, NEW ld \in Nat,
         NEW s \in [lo .. hi -> 0 .. ld], Len(d) = ld, ld # 0,
         Frames(d, s, lo, hi, written, 0, 0)
  PROVE  /\ d[1] \in {Code("vehicle"), Code("end"), Code("heartbeat")}
         /\ d[1] = Code("vehicle") => lo <= hi
         /\ \A g \in lo .. hi : s[g] >= 1 /\ (s[g] = 1 <=> d[1] = Code("vehicle") /\ g = lo)
  <1>1. ASSUME NEW g \in lo .. hi PROVE s[g] \in Nat /\ s[g] >= 1 /\ d[s[g]] = Code("vehicle")
    <2>1. FrameAt(d, s, written, 0, g) /\ s[g] \in 0 .. ld /\ g # 0
      BY DEF Frames
    <2>2. QED
      BY <2>1 DEF FrameAt
  <1>2. \A g, h \in lo .. hi : g < h => s[g] < s[h]
    BY DEF Frames
  <1>3. ASSUME NEW g \in lo .. hi, s[g] = 1 PROVE g = lo /\ d[1] = Code("vehicle")
    <2>1. ~(lo < g)
      <3>1. ASSUME lo < g PROVE FALSE
        <4>1. lo \in lo .. hi
          BY <3>1
        <4>2. s[lo] < s[g] /\ s[lo] \in Nat /\ s[lo] >= 1
          BY <1>1, <1>2, <3>1, <4>1
        <4>3. QED
          BY <1>3, <4>2
      <3>2. QED
        BY <3>1
    <2>2. QED
      BY <1>1, <1>3, <2>1
  <1>4. \/ \E g \in lo .. hi, j \in 0 .. 3 : 1 = s[g] + j
        \/ d[1] \in {Code("end"), Code("heartbeat")}
    <2>1. PICK i : i = 1
      OBVIOUS
    <2>2. i \in 1 .. ld /\ ~(i <= 0)
      BY <2>1
    <2>3. \/ \E g \in lo .. hi, j \in 0 .. 3 : i = s[g] + j
          \/ d[i] \in {Code("end"), Code("heartbeat")}
      BY <2>2 DEF Frames, Frame
    <2>4. QED
      BY <2>1, <2>3
  <1>5. CASE d[1] \in {Code("end"), Code("heartbeat")}
    <2>1. d[1] # Code("vehicle")
      BY <1>5, CodesAndBytes DEF Codes
    <2>2. QED
      BY <1>1, <1>3, <1>5, <2>1
  <1>6. CASE \E g \in lo .. hi, j \in 0 .. 3 : 1 = s[g] + j
    <2>1. PICK g \in lo .. hi, j \in 0 .. 3 : 1 = s[g] + j
      BY <1>6
    <2>2. s[g] = 1
      <3>1. PICK a : a = s[g]
        OBVIOUS
      <3>2. a \in Nat /\ a >= 1 /\ 1 = a + j
        BY <1>1, <2>1, <3>1
      <3>3. a = 1
        BY <3>2
      <3>4. QED
        BY <3>1, <3>3
    <2>3. g = lo /\ d[1] = Code("vehicle") /\ s[lo] = 1
      BY <1>3, <2>2
    <2>4. QED
      BY <1>1, <1>3, <2>3
  <1>7. QED
    BY <1>4, <1>5, <1>6

(* ... after a vehicle's code comes its body, ...                          *)
LEMMA BodyAhead ==
  ASSUME NEW d, NEW lo \in Nat, NEW hi \in Nat, lo <= hi, NEW written \in Nat,
         NEW ld \in Nat, NEW s \in [lo .. hi -> 0 .. ld], Len(d) = ld, ld # 0,
         Frames(d, s, lo, hi, written, lo, 0)
  PROVE  /\ ld >= 3 /\ \A j \in 1 .. 3 : d[j] = Byte(lo, j)
         /\ \A g \in lo + 1 .. hi : s[g] > 3
  <1>1. FrameAt(d, s, written, lo, lo) /\ lo \in lo .. hi
    BY DEF Frames
  <1>2. s[lo] = 0
    BY <1>1 DEF FrameAt
  <1>3. \A j \in 1 .. 3 : j \in 1 .. ld /\ d[j] = Byte(lo, j)
    <2>1. lo # written
      BY <1>1, <1>2 DEF FrameAt
    <2>2. \A j \in 1 .. 3 : s[lo] + j \in 1 .. ld /\ d[s[lo] + j] = Byte(lo, j)
      BY <1>1, <2>1 DEF FrameAt, Frame
    <2>3. \A j \in 1 .. 3 : s[lo] + j = j
      BY <1>2
    <2>4. QED
      BY <2>2, <2>3
  <1>4. ASSUME NEW g \in lo + 1 .. hi PROVE s[g] > 3
    <2>1. FrameAt(d, s, written, lo, g) /\ g # lo /\ g \in lo .. hi
      BY DEF Frames
    <2>2. s[g] # 0 /\ s[g] \in 0 .. ld /\ d[s[g]] = Code("vehicle")
      BY <2>1 DEF FrameAt
    <2>3. \A j \in 1 .. 3 : d[j] # Code("vehicle")
      BY <1>3, CodesAndBytes DEF Codes
    <2>4. s[g] \notin 1 .. 3
      BY <2>2, <2>3
    <2>5. QED
      BY <2>2, <2>4
  <1>5. ld >= 3
    <2>1. 3 \in 1 .. ld
      BY <1>3
    <2>2. QED
      BY <2>1
  <1>6. QED
    BY <1>3, <1>4, <1>5

(* ... and the number comes before all of them.                            *)
LEMMA NumberFirst ==
  ASSUME NEW d, NEW lo \in Nat, lo > 0, NEW hi \in Nat, NEW written \in Nat, NEW ahead \in Nat,
         NEW ld \in Nat, NEW s \in [lo .. hi -> 0 .. ld], Len(d) = ld,
         Frames(d, s, lo, hi, written, 0, ahead), \A i \in 1 .. 2 : d[i] = Byte(0, i)
  PROVE  \A g \in lo .. hi : s[g] > 2
  <1> TAKE g \in lo .. hi
  <1>1. FrameAt(d, s, written, 0, g) /\ g # 0
    BY DEF Frames
  <1>2. s[g] # 0 /\ s[g] \in 0 .. ld /\ d[s[g]] = Code("vehicle")
    BY <1>1 DEF FrameAt
  <1>3. \A j \in 1 .. 2 : d[j] # Code("vehicle")
    BY CodesAndBytes DEF Codes
  <1>4. s[g] \notin 1 .. 2
    BY <1>2, <1>3
  <1>5. QED
    BY <1>2, <1>4
-----------------------------------------------------------------------------
(* What the client receives at once is at the front, and what remains.     *)
LEMMA WholeRead ==
  ASSUME Typed, NEW n \in Nat, NEW k \in Received(down, n), down' = Rest(down, k),
         cause' = cause \cup Short(k, n, "down"), "down" \notin cause'
  PROVE  /\ k = n /\ k \in 1 .. Len(down) /\ down' \in Seq(Bytes) /\ Len(down') = Len(down) - k
         /\ \A i \in 1 .. Len(down) - k : down'[i] = down[i + k]
  <1>1. /\ k \in 1 .. n /\ k \in 1 .. Len(down) /\ down' \in Seq(Bytes) /\ Len(down') = Len(down) - k
        /\ \A i \in 1 .. Len(down) - k : down'[i] = down[i + k]
    BY StreamRest DEF Typed, Streams
  <1>2. ~(k < n)
    BY DEF Short
  <1>3. QED
    BY <1>1, <1>2

(* The number is read, which is before all groups.                         *)
LEMMA NumberRead ==
  ASSUME IInv, ReadNumber, Typed', cause' \cap {"down", "other", "beat"} = {}
  PROVE  DownInv'
  <1> USE DEF IInv
  <1>1. PICK k \in Received(down, Number) :
           down' = Rest(down, k) /\ cause' = cause \cup Short(k, Number, "down")
    BY DEF ReadNumber
  <1>2. /\ cause \cap {"down", "other", "beat"} = {} /\ client = "number" /\ client' = "code"
        /\ UNCHANGED <<server, groups, taken>> /\ "down" \notin cause'
    BY <1>1 DEF ReadNumber, upVars, limits
  <1>3. /\ k = 2 /\ k \in 1 .. Len(down) /\ down' \in Seq(Bytes) /\ Len(down') = Len(down) - k
        /\ \A i \in 1 .. Len(down) - k : down'[i] = down[i + k]
    BY <1>1, <1>2, WholeRead DEF Number
  <1>4. \A i \in 1 .. 2 : down[i] = Byte(0, i)
    <2>1. down # <<>> /\ "beat" \notin cause
      BY <1>2, <1>3
    <2>2. QED
      BY <1>2, <2>1 DEF ToldFirst, Number
  <1>5. HalfRead = 0 /\ HalfRead' = 0 /\ Ahead <= k
    BY <1>2, <1>3 DEF HalfRead, Ahead, Number
  <1>6. ASSUME NEW s \in [taken + 1 .. groups -> 0 .. Len(down)],
               Frames(down, s, taken + 1, groups, HalfWritten, HalfRead, Ahead)
        PROVE  /\ \A g \in taken' + 1 .. groups : s[g] >= k /\ (s[g] = k <=> g = HalfRead')
               /\ \A g \in taken + 1 .. groups : g < taken' + 1 => s[g] + 3 <= k
    <2>1. PICK lo, hi, written, ahead, ld :
             lo = taken + 1 /\ hi = groups /\ written = HalfWritten /\ ahead = Ahead /\ ld = Len(down)
      OBVIOUS
    <2>2. lo \in Nat /\ lo > 0 /\ hi \in Nat /\ written \in Nat /\ ahead \in Nat /\ ld \in Nat
      BY <1>2, <2>1, DownNumbers
    <2>3. s \in [lo .. hi -> 0 .. ld] /\ Len(down) = ld /\ Frames(down, s, lo, hi, written, 0, ahead)
      BY <1>5, <1>6, <2>1
    <2>4. \A g \in lo .. hi : s[g] > 2 /\ s[g] \in 0 .. ld /\ g # 0
      <3>1. PICK d : d = down
        OBVIOUS
      <3>2. /\ Len(d) = ld /\ Frames(d, s, lo, hi, written, 0, ahead)
            /\ \A i \in 1 .. 2 : d[i] = Byte(0, i)
        BY <1>4, <2>3, <3>1
      <3>3. \A g \in lo .. hi : s[g] > 2
        BY <2>2, <2>3, <3>2, NumberFirst, Zenon
      <3>4. \A g \in lo .. hi : s[g] \in 0 .. ld
        BY <2>3
      <3>5. \A g \in lo .. hi : g # 0
        BY <2>2
      <3>6. QED
        BY <3>3, <3>4, <3>5
    <2>5. \A g \in lo .. hi : s[g] >= 2 /\ s[g] # 2
      BY <2>2, <2>4
    <2>6. \A g \in lo .. hi : ~(g < lo)
      BY <2>2
    <2>7. QED
      BY <1>2, <1>3, <1>5, <2>1, <2>4, <2>5, <2>6
  <1>7. taken' <= groups /\ taken <= taken' /\ (server = "write" => taken' < groups)
    <2>1. taken \in Nat /\ groups \in Nat /\ taken <= groups /\ (server = "write" => taken < groups)
      BY <1>2, DownNumbers
    <2>2. taken <= taken
      BY <2>1
    <2>3. QED
      BY <1>2, <2>1, <2>2
  <1>8. QED
    BY <1>2, <1>3, <1>5, <1>6, <1>7, DownTaken

(* The code that is read is the next group's, or leaves all groups alone.  *)
LEMMA CodeRead ==
  ASSUME IInv, ListenCode, Typed', cause' \cap {"down", "other", "beat"} = {}
  PROVE  DownInv'
  <1> USE DEF IInv
  <1>1. /\ cause \cap {"down", "other", "beat"} = {} /\ client = "code" /\ down # <<>>
        /\ UNCHANGED <<server, groups, taken>> /\ down' = Tail(down)
    BY DEF ListenCode, upVars, limits
  <1>2. PICK k, lo, hi, written, ld : /\ k = 1 /\ lo = taken + 1 /\ hi = groups
                                      /\ written = HalfWritten /\ ld = Len(down)
    OBVIOUS
  <1>3. /\ lo \in Nat /\ lo > 0 /\ hi \in Nat /\ written \in Nat /\ ld \in Nat /\ ld # 0
        /\ taken \in Nat /\ groups \in Nat /\ taken <= groups
        /\ server = "write" => taken < groups
    BY <1>1, <1>2, DownNumbers
  <1>4. HalfRead = 0 /\ Ahead = 0
    BY <1>1 DEF HalfRead, Ahead
  <1>5. PICK c : c = down[1]
    OBVIOUS
  <1>6. ASSUME NEW s \in [lo .. hi -> 0 .. ld], Frames(down, s, lo, hi, written, 0, 0)
        PROVE  /\ c \in {Code("vehicle"), Code("end"), Code("heartbeat")}
               /\ c = Code("vehicle") => lo <= hi
               /\ \A g \in lo .. hi : s[g] >= 1 /\ (s[g] = 1 <=> c = Code("vehicle") /\ g = lo)
    <2>1. PICK d : d = down
      OBVIOUS
    <2>2. Len(d) = ld /\ c = d[1] /\ Frames(d, s, lo, hi, written, 0, 0)
      BY <1>2, <1>5, <1>6, <2>1
    <2>3. lo \in Nat /\ lo > 0 /\ hi \in Nat /\ written \in Nat /\ ld \in Nat /\ ld # 0
      BY <1>3
    <2>4. /\ d[1] \in {Code("vehicle"), Code("end"), Code("heartbeat")}
          /\ d[1] = Code("vehicle") => lo <= hi
          /\ \A g \in lo .. hi : s[g] >= 1 /\ (s[g] = 1 <=> d[1] = Code("vehicle") /\ g = lo)
      BY <2>2, <2>3, CodeAhead
    <2>5. QED
      BY <2>2, <2>4
  <1>7. /\ c \in {Code("vehicle"), Code("end"), Code("heartbeat")}
        /\ c = Code("vehicle") => lo <= hi
    <2>1. \E s \in [lo .. hi -> 0 .. ld] : Frames(down, s, lo, hi, written, 0, 0)
      BY <1>1, <1>2, <1>4, DownNumbers
    <2>2. QED
      BY <1>6, <2>1
  <1>8. client' = IF c = Code("vehicle") THEN "vehicle" ELSE "code"
    <2>1. Head(down) = c
      BY <1>1, <1>5 DEF Typed, Streams
    <2>2. PICK x \in {"vehicle", "end", "heartbeat"} : c = Code(x)
      BY <1>7
    <2>3. ReadAs(Head(down)) = {x} /\ (c = Code("vehicle") <=> x = "vehicle")
      BY <2>1, <2>2, CodesAndBytes DEF Codes
    <2>4. QED
      BY <2>3 DEF ListenCode
  <1>9. HalfRead' = IF c = Code("vehicle") THEN lo ELSE 0
    BY <1>1, <1>2, <1>8 DEF HalfRead
  <1>10. ASSUME NEW s \in [taken + 1 .. groups -> 0 .. Len(down)],
                Frames(down, s, taken + 1, groups, HalfWritten, HalfRead, Ahead)
         PROVE  /\ \A g \in taken' + 1 .. groups : s[g] >= k /\ (s[g] = k <=> g = HalfRead')
                /\ \A g \in taken + 1 .. groups : g < taken' + 1 => s[g] + 3 <= k
    <2>1. \A g \in lo .. hi : s[g] >= 1 /\ (s[g] = 1 <=> c = Code("vehicle") /\ g = lo)
      BY <1>2, <1>4, <1>6, <1>10
    <2>2. \A g \in lo .. hi : ~(g < lo) /\ g # 0
      BY <1>3
    <2>3. \A g \in lo .. hi : (c = Code("vehicle") /\ g = lo) <=> g = HalfRead'
      BY <1>9, <2>2
    <2>4. QED
      BY <1>1, <1>2, <2>1, <2>2, <2>3
  <1>11. /\ k \in 1 .. Len(down) /\ down' \in Seq(Bytes) /\ Len(down') = Len(down) - k
         /\ \A i \in 1 .. Len(down) - k : down'[i] = down[i + k]
    <2>1. 1 \in 1 .. Len(down)
      BY <1>2, <1>3
    <2>2. QED
      BY <1>1, <1>2, <2>1, StreamTail DEF Typed, Streams
  <1>12. taken' <= groups /\ taken <= taken' /\ (client' = "vehicle" => taken' < groups)
    <2>1. c = Code("vehicle") => taken < groups
      BY <1>2, <1>3, <1>7
    <2>2. taken <= taken
      BY <1>3
    <2>3. QED
      BY <1>1, <1>3, <1>8, <2>1, <2>2
  <1>13. Ahead <= k
    BY <1>2, <1>4
  <1>14. QED
    BY <1>1, <1>3, <1>8, <1>10, <1>11, <1>12, <1>13, DownTaken

(* The body that is read is the next group's.                              *)
LEMMA BodyRead ==
  ASSUME IInv, ListenVehicle, Typed', cause' \cap {"down", "other", "beat"} = {}
  PROVE  DownInv'
  <1> USE DEF IInv
  <1>1. PICK k \in Received(down, Frame) :
           /\ taken' = Took(taken, Filled(down, k, Zeros))
           /\ down' = Rest(down, k) /\ cause' = cause \cup Short(k, Frame, "down")
    BY DEF ListenVehicle
  <1>2. /\ cause \cap {"down", "other", "beat"} = {} /\ client = "vehicle" /\ client' = "code"
        /\ UNCHANGED <<server, groups>> /\ "down" \notin cause'
    BY <1>1 DEF ListenVehicle, upVars, limits
  <1>3. /\ k = 3 /\ k \in 1 .. Len(down) /\ down' \in Seq(Bytes) /\ Len(down') = Len(down) - k
        /\ \A i \in 1 .. Len(down) - k : down'[i] = down[i + k]
    BY <1>1, <1>2, WholeRead DEF Frame
  <1>4. PICK lo, hi, written, ld, d : /\ lo = taken + 1 /\ hi = groups /\ written = HalfWritten
                                      /\ ld = Len(down) /\ d = down
    OBVIOUS
  <1>5. /\ lo \in Nat /\ lo > 0 /\ hi \in Nat /\ written \in Nat /\ ld \in Nat /\ ld # 0 /\ lo <= hi
        /\ taken \in Nat /\ groups \in Nat /\ taken < groups
    BY <1>2, <1>3, <1>4, DownNumbers
  <1>6. HalfRead = lo /\ Ahead = 0 /\ HalfRead' = 0
    BY <1>2, <1>4 DEF HalfRead, Ahead
  <1>7. ASSUME NEW s \in [lo .. hi -> 0 .. ld], Frames(d, s, lo, hi, written, lo, 0)
        PROVE  /\ s[lo] = 0 /\ \A j \in 1 .. 3 : d[j] = Byte(lo, j)
               /\ \A g \in lo + 1 .. hi : s[g] > 3
               /\ lo # written
    <2>1. Len(d) = ld
      BY <1>4
    <2>2. s[lo] = 0 /\ (\A j \in 1 .. 3 : d[j] = Byte(lo, j)) /\ \A g \in lo + 1 .. hi : s[g] > 3
      <3>1. lo \in Nat /\ lo <= hi /\ hi \in Nat /\ written \in Nat /\ ld \in Nat /\ ld # 0
        BY <1>5
      <3>2. (\A j \in 1 .. 3 : d[j] = Byte(lo, j)) /\ \A g \in lo + 1 .. hi : s[g] > 3
        BY <1>7, <2>1, <3>1, BodyAhead
      <3>3. FrameAt(d, s, written, lo, lo)
        BY <1>7, <3>1 DEF Frames
      <3>4. s[lo] = 0
        BY <3>3 DEF FrameAt
      <3>5. QED
        BY <3>2, <3>4
    <2>3. lo # written
      <3>1. FrameAt(d, s, written, lo, lo)
        BY <1>5, <1>7 DEF Frames
      <3>2. QED
        BY <1>5, <2>1, <2>2, <3>1 DEF FrameAt
    <2>4. QED
      BY <2>2, <2>3
  <1>8. (\A j \in 1 .. 3 : d[j] = Byte(lo, j)) /\ lo # written
    <2>1. \E s \in [lo .. hi -> 0 .. ld] : Frames(d, s, lo, hi, written, lo, 0)
      BY <1>2, <1>4, <1>6, DownNumbers
    <2>2. QED
      BY <1>7, <2>1
  <1>9. taken' = taken + 1
    <2>1. Zeros \in [1 .. Frame -> Bytes]
      BY CodesAndBytes DEF Zeros, Zero
    <2>2. PICK b : b = Filled(down, k, Zeros)
      OBVIOUS
    <2>3. b \in [1 .. Frame -> Bytes] /\ \A i \in 1 .. Frame : b[i] = down[i]
      BY <1>3, <2>1, <2>2, FilledIs DEF Typed, Streams, Frame
    <2>4. \A i \in 1 .. Frame : b[i] = Byte(taken + 1, i)
      BY <1>4, <1>8, <2>3 DEF Frame
    <2>5. Took(taken, b) = taken + 1
      BY <1>5, <2>3, <2>4, TookIs
    <2>6. QED
      BY <1>1, <2>2, <2>5
  <1>10. ASSUME NEW s \in [taken + 1 .. groups -> 0 .. Len(down)],
                Frames(down, s, taken + 1, groups, HalfWritten, HalfRead, Ahead)
         PROVE  /\ \A g \in taken' + 1 .. groups : s[g] >= k /\ (s[g] = k <=> g = HalfRead')
                /\ \A g \in taken + 1 .. groups : g < taken' + 1 => s[g] + 3 <= k
    <2>1. s[lo] = 0 /\ (\A g \in lo + 1 .. hi : s[g] > 3) /\ s \in [lo .. hi -> 0 .. ld]
      BY <1>4, <1>6, <1>7, <1>10
    <2>2. \A g \in lo + 1 .. hi : g \in lo .. hi /\ g # 0
      BY <1>5
    <2>3. \A g \in lo + 1 .. hi : s[g] >= 3 /\ s[g] # 3 /\ g # 0
      BY <1>5, <2>1, <2>2
    <2>4. \A g \in lo .. hi : g < lo + 1 => s[g] + 3 <= 3
      BY <1>5, <2>1
    <2>5. taken' + 1 = lo + 1
      BY <1>4, <1>9
    <2>6. QED
      BY <1>3, <1>4, <1>6, <2>3, <2>4, <2>5
  <1>11. taken' <= groups /\ taken <= taken' /\ (server = "write" => taken' < groups)
    <2>1. taken + 1 <= groups /\ taken <= taken + 1
      BY <1>5
    <2>2. server = "write" => taken + 1 < groups
      <3>1. server = "write" => groups # taken + 1
        BY <1>4, <1>8 DEF HalfWritten
      <3>2. QED
        BY <1>5, <3>1
    <2>3. QED
      BY <1>9, <2>1, <2>2
  <1>12. Ahead <= k
    BY <1>3, <1>6
  <1>13. QED
    BY <1>2, <1>3, <1>10, <1>11, <1>12, DownTaken
-----------------------------------------------------------------------------
(* An end or a heartbeat is written between two groups.                    *)
LEMMA CodeWritten ==
  ASSUME IInv, cause \cap {"down", "other", "beat"} = {}, client # "ended",
         NEW c \in {"end", "heartbeat"}, Written(<<Code(c)>>),
         UNCHANGED <<client, taken, groups>>, server # "write", server' # "write"
  PROVE  DownInv'
  <1> USE DEF IInv
  <1>1. PICK e : e = down'
    OBVIOUS
  <1>2. PICK lo, hi, read, ahead, ld, d : /\ lo = taken + 1 /\ hi = groups /\ read = HalfRead
                                          /\ ahead = Ahead /\ ld = Len(down) /\ d = down
    OBVIOUS
  <1>3. /\ lo \in Nat /\ lo > 0 /\ hi \in Nat /\ read \in Nat /\ ahead \in Nat /\ ld \in Nat
    BY <1>2, DownNumbers
  <1>4. HalfWritten = 0 /\ HalfWritten' = 0 /\ HalfRead' = read /\ Ahead' = ahead
    BY <1>2 DEF HalfWritten, HalfRead, Ahead
  <1>5. PICK s \in [lo .. hi -> 0 .. ld] : Frames(d, s, lo, hi, 0, read, ahead)
    BY <1>2, <1>4, DownNumbers
  <1>6. PICK le : le = ld + 1
    OBVIOUS
  <1>7. Len(d) = ld /\ Len(e) = le /\ (\A i \in 1 .. ld : e[i] = d[i]) /\ e[ld + 1] = Code(c)
    <2>1. socket = "open"
      BY DEF NumberInv, Typed, Places
    <2>2. PICK T : T = <<Code(c)>>
      OBVIOUS
    <2>3. T \in Seq(Bytes) /\ Len(T) = 1 /\ T[1] = Code(c) /\ Written(T)
      BY <2>2, CodesAndBytes, StreamCode DEF Codes
    <2>4. 1 \in 1 .. Len(T)
      BY <2>3
    <2>5. /\ \A i \in 1 .. Len(down) : down'[i] = down[i]
          /\ Len(down') = Len(down) + 1 /\ down'[Len(down) + 1] = T[1]
      BY <2>1, <2>3, <2>4, WrittenIs DEF Typed
    <2>6. QED
      BY <1>1, <1>2, <1>6, <2>3, <2>5
  <1>8. \A i \in ld + 1 .. le : e[i] \in {Code("end"), Code("heartbeat")}
    <2>1. \A i \in ld + 1 .. le : i = ld + 1
      BY <1>3, <1>6
    <2>2. QED
      BY <1>7, <2>1
  <1>9. le \in Nat /\ ld <= le
    BY <1>3, <1>6
  <1>10. s \in [lo .. hi -> 0 .. le] /\ Frames(e, s, lo, hi, 0, read, ahead)
    <2>1. s \in [lo .. hi -> 0 .. le]
      BY <1>3, <1>9
    <2>2. Frames(e, s, lo, hi, 0, read, ahead)
      BY <1>3, <1>5, <1>7, <1>8, <1>9, CodesAdded
    <2>3. QED
      BY <2>1, <2>2
  <1>11. DownStream'
    BY <1>1, <1>2, <1>4, <1>7, <1>10 DEF DownStream
  <1>12. QED
    BY <1>11 DEF DownInv

(* The code of a group is written.                                         *)
LEMMA GroupCodeWritten ==
  ASSUME IInv, cause \cap {"down", "other", "beat"} = {}, client # "ended", WriteVehicleCode
  PROVE  DownInv'
  <1> USE DEF IInv
  <1>1. /\ Written(<<Code("vehicle")>>) /\ groups' = groups + 1 /\ server = "vehicle"
        /\ server' = "write" /\ UNCHANGED <<client, taken>>
    BY DEF WriteVehicleCode
  <1>2. PICK lo, hi, n, read, ahead, ld, d, e :
           /\ lo = taken + 1 /\ hi = groups /\ n = hi + 1 /\ read = HalfRead
           /\ ahead = Ahead /\ ld = Len(down) /\ d = down /\ e = down'
    OBVIOUS
  <1>3. /\ lo \in Nat /\ lo > 0 /\ hi \in Nat /\ read \in Nat /\ ahead \in Nat /\ ld \in Nat
        /\ lo <= hi + 1 /\ taken \in Nat /\ groups \in Nat /\ taken <= groups
    BY <1>2, DownNumbers
  <1>4. read <= hi
    <2>1. read = 0 \/ (read = lo /\ lo <= hi)
      <3>1. client = "vehicle" => taken < groups
        BY DownNumbers
      <3>2. QED
        BY <1>2, <1>3, <3>1 DEF HalfRead
    <2>2. QED
      BY <1>3, <2>1
  <1>5. HalfWritten = 0 /\ HalfWritten' = n /\ HalfRead' = read /\ Ahead' = ahead /\ groups' = n
    BY <1>1, <1>2 DEF HalfWritten, HalfRead, Ahead
  <1>6. PICK s \in [lo .. hi -> 0 .. ld] : Frames(d, s, lo, hi, 0, read, ahead)
    BY <1>2, <1>5, DownNumbers
  <1>7. /\ Len(d) = ld /\ Len(e) = ld + 1 /\ \A i \in 1 .. ld : e[i] = d[i]
        /\ e[ld + 1] = Code("vehicle")
    <2>1. socket = "open"
      BY DEF NumberInv, Typed, Places
    <2>2. PICK T : T = <<Code("vehicle")>>
      OBVIOUS
    <2>3. T \in Seq(Bytes) /\ Len(T) = 1 /\ T[1] = Code("vehicle") /\ Written(T)
      BY <1>1, <2>2, CodesAndBytes, StreamCode DEF Codes
    <2>4. 1 \in 1 .. Len(T)
      BY <2>3
    <2>5. /\ \A i \in 1 .. Len(down) : down'[i] = down[i]
          /\ Len(down') = Len(down) + 1 /\ down'[Len(down) + 1] = T[1]
      BY <2>1, <2>3, <2>4, WrittenIs DEF Typed
    <2>6. QED
      BY <1>2, <2>3, <2>5
  <1>8. \E t \in [lo .. n -> 0 .. Len(e)] : Frames(e, t, lo, n, n, read, ahead)
    <2>1. n = hi + 1
      BY <1>2
    <2>2. /\ lo \in Nat /\ lo > 0 /\ hi \in Nat /\ read \in Nat /\ ahead \in Nat /\ ld \in Nat
          /\ lo <= hi + 1
      BY <1>3
    <2>3. QED
      BY <1>4, <1>6, <1>7, <2>1, <2>2, GroupBegun
  <1>9. DownStream'
    BY <1>1, <1>2, <1>5, <1>8 DEF DownStream
  <1>10. taken' <= groups' /\ taken' < groups'
    <2>1. taken <= groups + 1 /\ taken < groups + 1
      BY <1>3
    <2>2. QED
      BY <1>1, <2>1
  <1>11. client' \in {"number", "code", "vehicle"}
    BY <1>1, DownNumbers
  <1>12. QED
    BY <1>9, <1>10, <1>11 DEF DownInv

(* The body of a group is written behind its code.                         *)
LEMMA GroupBodyWritten ==
  ASSUME IInv, cause' \cap {"down", "other", "beat"} = {}, client # "ended", WriteVehicle
  PROVE  DownInv'
  <1> USE DEF IInv
  <1>1. /\ Written(Body(groups, "other" \in long)) /\ server = "write" /\ server' = "end"
        /\ UNCHANGED <<client, taken, groups>> /\ "other" \notin long
        /\ cause \cap {"down", "other", "beat"} = {}
    BY DEF WriteVehicle, limits
  <1>2. PICK lo, hi, read, ahead, ld, d, e :
           /\ lo = taken + 1 /\ hi = groups /\ read = HalfRead
           /\ ahead = Ahead /\ ld = Len(down) /\ d = down /\ e = down'
    OBVIOUS
  <1>3. /\ lo \in Nat /\ lo > 0 /\ hi \in Nat /\ read \in Nat /\ ahead \in Nat /\ ld \in Nat
        /\ lo <= hi /\ taken \in Nat /\ groups \in Nat /\ taken < groups
    BY <1>1, <1>2, DownNumbers
  <1>4. HalfWritten = hi /\ HalfWritten' = 0 /\ HalfRead' = read /\ Ahead' = ahead
    BY <1>1, <1>2 DEF HalfWritten, HalfRead, Ahead
  <1>5. PICK s \in [lo .. hi -> 0 .. ld] : Frames(d, s, lo, hi, hi, read, ahead)
    BY <1>1, <1>2, <1>4, DownNumbers
  <1>6. /\ Len(d) = ld /\ Len(e) = ld + 3 /\ \A i \in 1 .. ld : e[i] = d[i]
        /\ \A j \in 1 .. 3 : e[ld + j] = Byte(hi, j)
    <2>1. socket = "open"
      BY DEF NumberInv, Typed, Places
    <2>2. PICK T : T = Body(groups, "other" \in long)
      OBVIOUS
    <2>3. Written(T)
      BY <1>1, <2>2, Zenon
    <2>4. /\ T \in Seq(Bytes) /\ Len(T) = IF "other" \in long THEN 4 ELSE 3
          /\ \A i \in 1 .. 3 : T[i] = Byte(groups, i)
      <3>1. Body(groups, "other" \in long) \in Seq(Bytes)
        BY <1>3, BodyBytes, Zenon
      <3>2. Len(Body(groups, "other" \in long)) = IF "other" \in long THEN 4 ELSE 3
        BY <1>3, BodyBytes, Zenon
      <3>3. \A i \in 1 .. 3 : Body(groups, "other" \in long)[i] = Byte(groups, i)
        BY DEF Body, Frame
      <3>4. QED
        BY <2>2, <3>1, <3>2, <3>3, Zenon
    <2>5. Len(T) = 3
      BY <1>1, <2>4
    <2>6. /\ \A i \in 1 .. Len(down) : down'[i] = down[i]
          /\ Len(down') = Len(down) + 3 /\ \A i \in 1 .. 3 : down'[Len(down) + i] = T[i]
      BY <2>1, <2>3, <2>4, <2>5, WrittenIs DEF Typed
    <2>7. QED
      BY <1>2, <2>4, <2>6
  <1>7. s \in [lo .. hi -> 0 .. ld + 3] /\ Frames(e, s, lo, hi, 0, read, ahead)
    <2>1. s \in [lo .. hi -> 0 .. ld + 3]
      BY <1>3
    <2>2. Frames(e, s, lo, hi, 0, read, ahead)
      BY <1>3, <1>5, <1>6, GroupCompleted
    <2>3. QED
      BY <2>1, <2>2
  <1>8. DownStream'
    BY <1>1, <1>2, <1>4, <1>6, <1>7 DEF DownStream
  <1>9. QED
    BY <1>1, <1>8 DEF DownInv

(* The number is written when nothing else was.                            *)
LEMMA NumberWritten ==
  ASSUME IInv, cause \cap {"down", "other", "beat"} = {}, WriteNumber,
         client # "ended"
  PROVE  DownInv'
  <1> USE DEF IInv
  <1>1. /\ Written(NumberBytes) /\ server = "number" /\ server' = "first code"
        /\ UNCHANGED <<client, taken, groups>>
    BY DEF WriteNumber, limits
  <1>2. client = "number" /\ down = <<>> /\ socket = "open" /\ taken <= groups
    <2>1. client = "number" /\ down = <<>>
      BY <1>1 DEF ToldFirst
    <2>2. QED
      BY <2>1 DEF NumberInv, DownInv
  <1>3. Len(down') = 2
    <2>1. Len(down) = 0
      BY <1>2
    <2>2. Len(down') = Len(down) + Len(NumberBytes)
      BY <1>1, <1>2, NumberBytesAre, WrittenIs DEF Typed
    <2>3. QED
      BY <2>1, <2>2, NumberBytesAre
  <1>4. Ahead' = 2
    BY <1>1, <1>2 DEF Ahead, Number
  <1>5. PICK s : s = [g \in taken + 1 .. groups |-> 0]
    OBVIOUS
  <1>6. s \in [taken' + 1 .. groups' -> 0 .. Len(down')]
    <2>1. PICK lo, hi : lo = taken + 1 /\ hi = groups
      OBVIOUS
    <2>2. 0 \in 0 .. 2 /\ s = [g \in lo .. hi |-> 0]
      BY <1>5, <2>1
    <2>3. s \in [lo .. hi -> 0 .. 2]
      BY <2>2
    <2>4. QED
      BY <1>1, <1>3, <2>1, <2>3
  <1>7. \A i \in 1 .. Len(down') : i <= Ahead'
    BY <1>3, <1>4
  <1>8. \A g : g \notin taken' + 1 .. groups'
    <2>1. PICK r \in [taken + 1 .. groups -> 0 .. Len(down)] :
             Frames(down, r, taken + 1, groups, HalfWritten, HalfRead, Ahead)
      BY DownNumbers
    <2>2. ASSUME NEW g \in taken + 1 .. groups PROVE FALSE
      <3>1. FrameAt(down, r, HalfWritten, HalfRead, g)
        BY <2>1 DEF Frames
      <3>2. HalfRead = 0 /\ g # 0
        BY <1>2, DownNumbers DEF HalfRead
      <3>3. r[g] # 0 /\ r[g] \in 1 .. Len(down)
        BY <3>1, <3>2 DEF FrameAt
      <3>4. Len(down) = 0
        BY <1>2
      <3>5. QED
        BY <3>3, <3>4
    <2>3. QED
      BY <1>1, <2>2
  <1>9. Frames(down', s, taken' + 1, groups', HalfWritten', HalfRead', Ahead')
    BY <1>7, <1>8 DEF Frames
  <1>10. DownStream'
    BY <1>6, <1>9 DEF DownStream
  <1>11. QED
    BY <1>1, <1>2, <1>10 DEF DownInv

(* The client's side is in step until something went wrong there.          *)
LEMMA DownKept ==
  ASSUME IInv, Next, Typed', NumberInv'
  PROVE  DownInv'
  <1> SUFFICES ASSUME cause' \cap {"down", "other", "beat"} = {} PROVE DownInv'
    BY DEF DownInv
  <1> USE DEF IInv, upVars, downVars, limits
  <1>1. cause \cap {"down", "other", "beat"} = {} /\ taken <= groups
    <2>1. cause \subseteq cause'
      BY CauseStays DEF Typed
    <2>2. QED
      BY <2>1 DEF DownInv
  <1>2. CASE ReadNumber
    BY <1>2, NumberRead
  <1>3. CASE ListenCode
    BY <1>3, CodeRead
  <1>4. CASE ListenVehicle
    BY <1>4, BodyRead
  <1>5. CASE ListenId
    BY <1>1, <1>5 DEF ListenId, DownInv
  <1>6. CASE Leave
    BY <1>1, <1>6 DEF Leave, DownInv
  <1>7. CASE SendVehicle
    BY <1>1, <1>7, DownSame DEF SendVehicle
  <1>8. CASE ReceiveFirstCode \/ ReceiveCode \/ EndOfStream
    <2>1. /\ UNCHANGED <<down, client, taken, groups>> /\ server # "write" /\ server' # "write"
      BY <1>8 DEF ReceiveFirstCode, ReceiveCode, EndOfStream
    <2>2. QED
      BY <1>1, <2>1, DownSame
  <1>9. CASE ReceiveFirst \/ ReceiveUpdate
    <2>1. \E from \in {"first body", "body"}, no \in {"vehicle", "refused"} :
             ReceiveBody(from, "vehicle", no)
      BY <1>9 DEF ReceiveFirst, ReceiveUpdate
    <2>2. UNCHANGED <<down, client, taken, groups>> /\ server # "write" /\ server' # "write"
      BY <2>1 DEF ReceiveBody
    <2>3. QED
      BY <1>1, <2>2, DownSame
  <1>10. ASSUME client = "ended", client' = client, taken' <= groups' PROVE DownInv'
    BY <1>10 DEF DownInv
  <1>11. CASE WriteNumber
    <2>1. client # "ended"
      BY <1>11 DEF WriteNumber, NumberInv, ToldFirst
    <2>2. QED
      BY <1>1, <1>11, <2>1, NumberWritten
  <1>12. CASE WriteVehicleCode
    <2>1. client' = client /\ taken' <= groups'
      <3>1. taken <= groups + 1
        BY <1>1 DEF Typed, Numbers
      <3>2. QED
        BY <1>12, <3>1 DEF WriteVehicleCode
    <2>2. QED
      BY <1>1, <1>10, <1>12, <2>1, GroupCodeWritten
  <1>13. CASE WriteVehicle
    <2>1. client' = client /\ taken' <= groups'
      BY <1>1, <1>13 DEF WriteVehicle
    <2>2. QED
      BY <1>10, <1>13, <2>1, GroupBodyWritten
  <1>14. CASE WriteEnd
    <2>1. /\ Written(<<Code("end")>>) /\ UNCHANGED <<client, taken, groups>>
          /\ server # "write" /\ server' # "write"
      BY <1>14 DEF WriteEnd
    <2>2. QED
      BY <1>1, <1>10, <2>1, CodeWritten
  <1>15. CASE Heartbeat
    <2>1. /\ Written(<<Code("heartbeat")>>) /\ UNCHANGED <<client, taken, groups, server>>
          /\ server # "write"
      BY <1>15 DEF Heartbeat
    <2>2. QED
      BY <1>1, <1>10, <2>1, CodeWritten
  <1>16. QED
    BY <1>2, <1>3, <1>4, <1>5, <1>6, <1>7, <1>8, <1>9, <1>11, <1>12, <1>13, <1>14, <1>15
       DEF Next, Client, Server
-----------------------------------------------------------------------------
(* IInv is inductive: what is told of the two streams holds at every step.  *)
LEMMA IInvStep == IInv /\ [Next]_vars => IInv'
  <1> SUFFICES ASSUME IInv, [Next]_vars PROVE IInv'
    OBVIOUS
  <1>1. CASE Next
    <2>1. Typed'
      BY <1>1, TypeKept DEF IInv
    <2>2. NumberInv'
      BY <1>1, NumberKept
    <2>3. ToldFirst' /\ FirstInv' /\ RefusedForCause' /\ UpInv' /\ DownInv'
      <3>1. Streams'
        BY <2>1 DEF Typed
      <3>2. QED
        BY <1>1, <2>1, <2>2, <3>1, ToldKept, FirstKept, RefusedKept, UpKept, DownKept
    <2>4. QED
      BY <2>1, <2>2, <2>3 DEF IInv
  <1>2. CASE UNCHANGED vars
    <2> USE <1>2 DEF vars, IInv
    <2>1. Typed' /\ NumberInv' /\ ToldFirst'
      BY DEF Typed, Streams, Numbers, Places, NumberInv, ToldFirst
    <2>2. FirstInv'
      BY DEF FirstInv, Handshake
    <2>3. RefusedForCause'
      BY DEF RefusedForCause
    <2>4. UpInv'
      BY DEF UpInv, UpStream, ClientWrote, Consumed, Bodies, Handshake, Ended
    <2>5. DownInv'
      BY DEF DownInv, DownStream, HalfWritten, HalfRead, Ahead
    <2>6. QED
      BY <2>1, <2>2, <2>3, <2>4, <2>5
  <1>3. QED
    BY <1>1, <1>2

(* Every connection is as IInv tells, whatever the bounds are.             *)
THEOREM Invariance == Spec => []IInv
  <1>1. Init => IInv
    BY IInvInit
  <1>2. IInv /\ [Next]_vars => IInv'
    BY IInvStep
  <1>3. QED
    BY <1>1, <1>2, PTL DEF Spec

(* Both ends are in step until there is a cause: the thread has taken no    *)
(* vehicle that the client did not send, and the listener none that the    *)
(* server did not send, each of them whole and in order, unless a receive  *)
(* of its own was not filled, an id in its stream needed two bytes or a    *)
(* heartbeat fell into a frame.                                            *)
THEOREM EndsInStep == Spec => []InStep
  <1>1. IInv => InStep
    BY TypedIsTypeOK DEF IInv, InStep, UpInv, DownInv
  <1>2. QED
    BY <1>1, Invariance, PTL

(* A handshake fails for a first vehicle in pieces or a wrong number, and  *)
(* the number is wrong for a part that was read or a heartbeat before it.  *)
THEOREM RefusalHasACause == Spec => []RefusedForCause
  <1>1. IInv => RefusedForCause
    BY DEF IInv
  <1>2. QED
    BY <1>1, Invariance, PTL
=============================================================================

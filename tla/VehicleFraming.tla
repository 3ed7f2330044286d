---------------------------- MODULE VehicleFraming ----------------------------
(***************************************************************************)
(* How vehicle messages lie in the byte streams of one tcp connection,      *)
(* between ChClient and a server thread (processConnection).  A message is  *)
(* a byte of code and a body whose length nobody sends: both ends receive   *)
(* VEHICLE_MESSAGE_SIZE bytes for it, and                                    *)
(*   - receive takes what is there, which may be less;                      *)
(*   - a body with an id of 128 or more is longer;                          *)
(*   - the pacer of ChronoServer-test writes its byte into the same stream. *)
(* ChronoServer takes a message as one thing: this module says when it is.  *)
(* Frame bytes stand for the 361, Number bytes for the sizeof(int) of the   *)
(* connection number; the id is in the second byte of a body, the rest of a *)
(* long id is the one byte more.                                            *)
(***************************************************************************)
EXTENDS Naturals, Sequences, FiniteSets, SequencesExt

CONSTANTS
    Beating,       \* is it the server with the heartbeat
    Longs,         \* sets of whose ids take two bytes: of {"own", "other"}
    MaxVehicles,   \* bound: vehicles the client sends
    MaxGroups,     \* bound: groups of vehicles the server sends whole
    MaxBeats       \* bound: heartbeats on this connection

ASSUME FramingAssumption ==
    /\ Beating \in BOOLEAN /\ Longs \subseteq SUBSET {"own", "other"}
    /\ {MaxVehicles, MaxGroups, MaxBeats} \subseteq Nat

Frame == 3
Number == 2

VARIABLES
    long,          \* whose ids take two bytes
    up,            \* the stream to the server
    down,          \* the stream to the client
    server,        \* where the server's thread is
    client,        \* where the client's listener is, or how it ended
    socket,        \* the client's socket: "open", or "closed" by ~ChClient
    number,        \* the client's m_connectionNumber: "own", "wrong" or none yet
    buffer,        \* the array of the server's one streambuf
    sent,          \* vehicles the client has sent
    groups,        \* vehicles the server has sent
    beats,         \* heartbeats the server has sent
    accepted,      \* how many of the client's vehicles the server took, or Spoilt
    taken,         \* how many of the other's the listener took, or Spoilt
    cause          \* history: receives that were not filled, "up" or "down"; bodies
                   \* with a long id, "own" or "other"; a "beat" in a frame

vars == <<long, up, down, server, client, socket, number, buffer, sent, groups, beats,
          accepted, taken, cause>>
upVars == <<up, server, buffer, accepted>>
downVars == <<down, client, number, taken>>
limits == <<long, sent, groups, beats>>

Code(c) == [code |-> c]
Byte(of, i) == [of |-> of, at |-> i]
Zero == Byte(0, 0)

Codes == {"vehicle", "disconnect", "end", "id", "heartbeat", "other"}

(* What a byte is taken for where a code is expected.                       *)
ReadAs(byte) == IF "code" \in DOMAIN byte THEN {byte.code} ELSE Codes

Body(of, isLong) == [i \in 1 .. Frame + (IF isLong THEN 1 ELSE 0) |-> Byte(of, i)]
Zeros == [i \in 1 .. Frame |-> Zero]
NumberBytes == [i \in 1 .. Number |-> Byte(0, i)]

(* receive: at least one byte, at most n, of what has come                  *)
Received(stream, n) == {k \in 1 .. n : k <= Len(stream)}
Rest(stream, k) == SubSeq(stream, k + 1, Len(stream))

(* The bytes taken for a body, when k of the stream were received.          *)
Filled(stream, k, old) == SubSeq(stream, 1, k) \o SubSeq(old, k + 1, Frame)

Short(k, n, stream) == IF k < n THEN {stream} ELSE {}

Init ==
    /\ long \in Longs
    /\ up = <<>> /\ down = <<>>
    /\ server = "number" /\ client = "number" /\ socket = "open"
    /\ number = "none"
    /\ buffer = Zeros
    /\ sent = 0 /\ groups = 0 /\ beats = 0
    /\ accepted = 0 /\ taken = 0
    /\ cause = {}

(* One more frame was taken for a vehicle: the next one, or not that.       *)
Spoilt == MaxVehicles + MaxGroups + 1
Took(n, content) == IF content = Body(n + 1, FALSE) THEN n + 1 ELSE Spoilt

-----------------------------------------------------------------------------
(* The client                                                               *)

(* Mutant: the number is read with the size of a smaller type.              *)
ReadNumberShort ==
    /\ client = "number"
    /\ \E k \in Received(down, Number - 1) :
          /\ number' = IF SubSeq(down, 1, k) = NumberBytes THEN "own" ELSE "wrong"
          /\ down' = Rest(down, k)
          /\ cause' = cause \cup Short(k, Number - 1, "down")
    /\ client' = "code"
    /\ UNCHANGED <<upVars, socket, taken, limits>>

(* connectToServer: m_socket.read_some(&m_connectionNumber)                 *)
ReadNumber ==
    /\ client = "number"
    /\ \E k \in Received(down, Number) :
          /\ number' = IF SubSeq(down, 1, k) = NumberBytes THEN "own" ELSE "wrong"
          /\ down' = Rest(down, k)
          /\ cause' = cause \cup Short(k, Number, "down")
    /\ client' = "code"
    /\ UNCHANGED <<upVars, socket, taken, limits>>

(* sendMessage: the vehicle carries the number the client was told.         *)
SendVehicle ==
    /\ number # "none" /\ socket = "open" /\ sent < MaxVehicles
    /\ sent' = sent + 1
    /\ up' = up \o <<Code("vehicle")>> \o Body(sent + 1, "own" \in long)
    /\ cause' = cause \cup ({"own"} \cap long)
    /\ UNCHANGED <<downVars, socket, server, buffer, accepted, long, groups, beats>>

(* disconnect, and the destructor: m_socket.close()                         *)
Leave ==
    /\ number # "none" /\ socket = "open"
    /\ socket' = "closed"
    /\ up' = Append(up, Code("disconnect"))
    /\ client' = "ended"
    /\ down' = <<>>
    /\ UNCHANGED <<number, taken, server, buffer, accepted, limits, cause>>

(* asyncListen                                                              *)
ListenCode ==
    /\ client = "code" /\ down # <<>>
    /\ \E code \in ReadAs(Head(down)) :
          client' = IF code \in {"vehicle", "id"} THEN code ELSE "code"
    /\ down' = Tail(down)
    /\ UNCHANGED <<upVars, socket, number, taken, limits, cause>>

(* A new streambuf for each vehicle: what was not received is zero.         *)
ListenVehicle ==
    /\ client = "vehicle"
    /\ \E k \in Received(down, Frame) :
          /\ taken' = Took(taken, Filled(down, k, Zeros))
          /\ down' = Rest(down, k)
          /\ cause' = cause \cup Short(k, Frame, "down")
    /\ client' = "code"
    /\ UNCHANGED <<upVars, socket, number, limits>>

ListenId ==
    /\ client = "id"
    /\ \E k \in Received(down, Number) :
          down' = Rest(down, k) /\ cause' = cause \cup Short(k, Number, "down")
    /\ client' = "code"
    /\ UNCHANGED <<upVars, socket, number, taken, limits>>

Client == ReadNumber \/ SendVehicle \/ Leave \/ ListenCode \/ ListenVehicle \/ ListenId

-----------------------------------------------------------------------------
(* The server's thread                                                      *)

Written(bytes) == down' = IF socket = "open" THEN down \o bytes ELSE down

WriteNumber ==
    /\ server = "number"
    /\ Written(NumberBytes)
    /\ server' = "first code"
    /\ UNCHANGED <<up, buffer, accepted, client, number, taken, socket, limits, cause>>

(* The code of the first message is not looked at.                          *)
ReceiveFirstCode ==
    /\ server = "first code" /\ up # <<>>
    /\ up' = Tail(up)
    /\ server' = "first body"
    /\ UNCHANGED <<buffer, accepted, downVars, socket, limits, cause>>

(* The id that ParseFromIstream finds: the field is there, a zero byte ends *)
(* the parse before it and leaves the default 0, or the bytes make any id.  *)
IdBytes == IF "own" \in long THEN 1 .. 3 ELSE 1 .. 2

Accepts(content) ==
    IF \A i \in IdBytes : "at" \in DOMAIN content[i] /\ content[i].at = i
      THEN {number = "own"} ELSE BOOLEAN

(* receive(buffer.prepare(361)), commit(361) whatever came, and a parse     *)
(* that reads it all: the next one is filled from the front again, and what *)
(* does not come stays as it was.                                           *)
ReceiveBody(from, yes, no) ==
    /\ server = from
    /\ \E k \in Received(up, Frame) :
          /\ buffer' = Filled(up, k, buffer)
          /\ up' = Rest(up, k)
          /\ cause' = cause \cup Short(k, Frame, "up")
    /\ \/ /\ TRUE \in Accepts(buffer')
          /\ accepted' = Took(accepted, buffer')
          /\ server' = yes
       \/ /\ FALSE \in Accepts(buffer')
          /\ server' = no
          /\ UNCHANGED accepted
    /\ UNCHANGED <<downVars, socket, limits>>

ReceiveFirst == ReceiveBody("first body", "vehicle", "refused")

(* Mutant: the parse sees the buffer before the commit.                     *)
ReceiveUpdateLate ==
    /\ server = "body"
    /\ \E k \in Received(up, Frame) :
          /\ buffer' = Filled(up, k, buffer)
          /\ up' = Rest(up, k)
          /\ cause' = cause \cup Short(k, Frame, "up")
    /\ accepted' = Took(accepted, buffer)
    /\ server' = "vehicle"
    /\ UNCHANGED <<downVars, socket, limits>>

ReceiveUpdate == ReceiveBody("body", "vehicle", "vehicle")

(* The other vehicle of the world: a send of the code, a write of the body. *)
WriteVehicleCode ==
    /\ server = "vehicle" /\ groups < MaxGroups
    /\ Written(<<Code("vehicle")>>)
    /\ groups' = groups + 1
    /\ server' = "write"
    /\ UNCHANGED <<up, buffer, accepted, client, number, taken, socket, long, sent, beats, cause>>

WriteVehicle ==
    /\ server = "write"
    /\ Written(Body(groups, "other" \in long))
    /\ cause' = cause \cup ({"other"} \cap long)
    /\ server' = "end"
    /\ UNCHANGED <<up, buffer, accepted, client, number, taken, socket, limits>>

(* When there is no other vehicle the group is only its end.                *)
WriteEnd ==
    /\ server \in {"vehicle", "end"}
    /\ Written(<<Code("end")>>)
    /\ server' = "code"
    /\ UNCHANGED <<up, buffer, accepted, client, number, taken, socket, limits, cause>>

ReceiveCode ==
    /\ server = "code" /\ up # <<>>
    /\ \E code \in ReadAs(Head(up)) :
          server' = CASE code = "vehicle" -> "body"
                      [] code = "disconnect" -> "ended"
                      [] OTHER -> "vehicle"
    /\ up' = Tail(up)
    /\ UNCHANGED <<buffer, accepted, downVars, socket, limits, cause>>

(* Mutant: the end of the stream is looked for between messages only.       *)
EndOfStreamAtCode ==
    /\ server \in {"first code", "code"}
    /\ up = <<>> /\ socket = "closed"
    /\ server' = "ended"
    /\ UNCHANGED <<up, buffer, accepted, downVars, socket, limits, cause>>

(* A receive at the end of the stream throws, and the thread ends.          *)
EndOfStream ==
    /\ server \in {"first code", "first body", "code", "body"}
    /\ up = <<>> /\ socket = "closed"
    /\ server' = "ended"
    /\ UNCHANGED <<up, buffer, accepted, downVars, socket, limits, cause>>

Server ==
    \/ WriteNumber \/ ReceiveFirstCode \/ ReceiveFirst
    \/ WriteVehicleCode \/ WriteVehicle \/ WriteEnd
    \/ ReceiveCode \/ ReceiveUpdate \/ EndOfStream

Ended == {"ended", "refused"}

(* regulateHeartbeat: the socket is in the pacer's vector before the thread *)
(* that serves it has started.                                              *)
Heartbeat ==
    /\ Beating /\ beats < MaxBeats /\ server \notin Ended
    /\ Written(<<Code("heartbeat")>>)
    /\ beats' = beats + 1
    /\ cause' = cause \cup (IF server \in {"number", "write"} THEN {"beat"} ELSE {})
    /\ UNCHANGED <<upVars, client, number, taken, socket, long, sent, groups>>

Next == Client \/ Server \/ Heartbeat

Spec == Init /\ [][Next]_vars /\ WF_vars(Server)

-----------------------------------------------------------------------------
Bytes == [code : Codes] \cup [of : Nat, at : Nat]

TypeOK ==
    /\ long \in Longs
    /\ up \in Seq(Bytes) /\ down \in Seq(Bytes)
    /\ server \in {"number", "first code", "first body", "vehicle", "write", "end",
                   "code", "body", "ended", "refused"}
    /\ client \in {"number", "code", "vehicle", "id", "ended"}
    /\ socket \in {"open", "closed"}
    /\ number \in {"none", "own", "wrong"}
    /\ buffer \in [1 .. Frame -> Bytes]
    /\ {sent, groups, beats} \subseteq Nat
    /\ {accepted, taken} \subseteq Nat
    /\ cause \subseteq {"up", "down", "own", "other", "beat"}

(* The variables keep their types, and each end has exactly the vehicles    *)
(* that the other sent, whole and in order -- what ChronoServer and         *)
(* ChronoClient rely on -- until a receive of its own was not filled, an id *)
(* in its stream needed two bytes or, at the client only, a beat fell into  *)
(* a frame.                                                                 *)
InStep ==
    /\ TypeOK
    /\ accepted <= sent \/ cause \cap {"up", "own"} # {}
    /\ taken <= groups \/ cause \cap {"down", "other", "beat"} # {}

(* A client is cut off in its handshake only when its first vehicle came in *)
(* pieces or it was told a wrong number: by a beat that was sent before it, *)
(* or when it did not wait for all of it.                                   *)
RefusedForCause ==
    /\ server = "refused" => number = "wrong" \/ "up" \in cause
    /\ number = "wrong" => cause \cap {"down", "beat"} # {}

(* The thread of a client that has left comes to its end, also when it is   *)
(* out of step and takes the disconnect for a part of something else.       *)
LeavingEndsThread == socket = "closed" ~> server \in Ended
=============================================================================

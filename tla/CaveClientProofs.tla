--------------------------- MODULE CaveClientProofs --------------------------
(***************************************************************************)
(* The theorems about the two parts of the CAVE client.                     *)
(*                                                                          *)
(* What vehicle-to-vehicle messages are, for any number of agents and of    *)
(* messages, wherever the vehicles are: each agent gets those of another in *)
(* the order they were broadcast, none twice, and a buffer that is empty    *)
(* was emptied by another agent that was in range.                          *)
(*                                                                          *)
(* What the simulation shows of the others' vehicles, for any number of     *)
(* them and of packets on their way: while nothing was overtaken or         *)
(* repeated, everything between the server's world and the bodies is in the *)
(* order of the versions, InTurn.                                           *)
(***************************************************************************)
EXTENDS DsrcAgent, CaveClient, SequenceTheorems, NaturalsInduction, WellFoundedInduction, TLAPS

-----------------------------------------------------------------------------
(* The agents: whose messages are where.                                    *)

(* The messages of every sender are in the order it broadcast them, in one  *)
(* queue, and from the one to the other.                                    *)
Ordered(s) == \A i, j \in DOMAIN s : i < j /\ s[i][1] = s[j][1] => s[i][2] < s[j][2]

Behind(r, q) == \A i \in DOMAIN r, j \in DOMAIN q : r[i][1] = q[j][1] => r[i][2] < q[j][2]

OrderedFor(a) ==
    Ordered(received[a]) /\ Ordered(incomingMessages[a]) /\ Behind(received[a], incomingMessages[a])

(* What an agent has or waits for was broadcast by another.                 *)
FromAnother(a) ==
    \A m \in Has(a) \cup Waiting(a) : a \in vehicleMap /\ m[1] # a /\ m[2] <= sent[m[1]]

(* A buffer is emptied by keeping what was in it.                           *)
EmptiedIsKept == \A m \in empty : \E b \in Agents : m \in Has(b)

(* A parse was rejected because another agent has the message.              *)
FatalForAnother ==
    status = "fatal" => \E a, b \in vehicleMap : \E m \in Has(b) \cap empty :
        a \notin {b, m[1]} /\ m \notin Has(a)

IInv ==
    /\ TypeOK
    /\ \A a \in Agents : OrderedFor(a) /\ FromAnother(a)
    /\ EmptiedIsKept
    /\ FatalForAnother

-----------------------------------------------------------------------------
(* Two queues, one behind the other, are in order if each is, and the       *)
(* second follows the first.                                                *)
LEMMA OrderedConcat ==
  ASSUME NEW r \in Seq(Messages), NEW q \in Seq(Messages)
  PROVE  Ordered(r \o q) <=> Ordered(r) /\ Ordered(q) /\ Behind(r, q)
  <1> DEFINE s == r \o q
             n == Len(r)
  <1>1. /\ n \in Nat /\ Len(q) \in Nat /\ DOMAIN r = 1 .. n /\ DOMAIN q = 1 .. Len(q)
        /\ DOMAIN s = 1 .. (n + Len(q))
        /\ \A i \in DOMAIN r : s[i] = r[i]
        /\ \A i \in DOMAIN q : s[n + i] = q[i]
    OBVIOUS
  <1> HIDE DEF s, n
  <1>2. ASSUME Ordered(s) PROVE Ordered(r) /\ Ordered(q) /\ Behind(r, q)
    <2>1. Ordered(r)
      BY <1>1, <1>2 DEF Ordered
    <2>2. Ordered(q)
      <3> SUFFICES ASSUME NEW i \in DOMAIN q, NEW j \in DOMAIN q, i < j, q[i][1] = q[j][1]
                   PROVE  q[i][2] < q[j][2]
        BY DEF Ordered
      <3>1. n + i \in DOMAIN s /\ n + j \in DOMAIN s /\ n + i < n + j
        BY <1>1
      <3>2. QED
        BY <1>1, <1>2, <3>1 DEF Ordered
    <2>3. Behind(r, q)
      <3> SUFFICES ASSUME NEW i \in DOMAIN r, NEW j \in DOMAIN q, r[i][1] = q[j][1]
                   PROVE  r[i][2] < q[j][2]
        BY DEF Behind
      <3>1. i \in DOMAIN s /\ n + j \in DOMAIN s /\ i < n + j
        BY <1>1
      <3>2. QED
        BY <1>1, <1>2, <3>1 DEF Ordered
    <2>4. QED
      BY <2>1, <2>2, <2>3
  <1>3. ASSUME Ordered(r), Ordered(q), Behind(r, q) PROVE Ordered(s)
    <2> SUFFICES ASSUME NEW i \in DOMAIN s, NEW j \in DOMAIN s, i < j, s[i][1] = s[j][1]
                 PROVE  s[i][2] < s[j][2]
      BY DEF Ordered
    <2>1. \A k \in DOMAIN s : k \in DOMAIN r \/ (k - n \in DOMAIN q /\ k = n + (k - n) /\ n < k)
      BY <1>1
    <2>2. CASE j \in DOMAIN r
      <3>1. i \in DOMAIN r
        BY <1>1, <2>2
      <3>2. QED
        BY <1>1, <1>3, <2>2, <3>1 DEF Ordered
    <2>3. CASE i \in DOMAIN r /\ j - n \in DOMAIN q /\ j = n + (j - n)
      <3>1. s[j] = q[j - n] /\ s[i] = r[i]
        BY <1>1, <2>3
      <3>2. QED
        BY <1>3, <2>3, <3>1 DEF Behind
    <2>4. CASE i - n \in DOMAIN q /\ j - n \in DOMAIN q /\ i = n + (i - n) /\ j = n + (j - n)
      <3>1. s[j] = q[j - n] /\ s[i] = q[i - n] /\ i - n < j - n
        BY <1>1, <2>4
      <3>2. QED
        BY <1>3, <2>4, <3>1 DEF Ordered
    <2>5. QED
      BY <2>1, <2>2, <2>3, <2>4
  <1>4. QED
    BY <1>2, <1>3 DEF s

(* A message that is later than all of its sender goes behind them.         *)
LEMMA OrderedAppend ==
  ASSUME NEW r \in Seq(Messages), NEW m \in Messages,
         \A i \in DOMAIN r : r[i][1] = m[1] => r[i][2] < m[2]
  PROVE  /\ Append(r, m) \in Seq(Messages)
         /\ Ordered(r) => Ordered(Append(r, m))
         /\ {Append(r, m)[i] : i \in DOMAIN Append(r, m)} = {r[i] : i \in DOMAIN r} \cup {m}
  <1> DEFINE s == Append(r, m)
             last == Len(r) + 1
  <1>1. /\ s \in Seq(Messages) /\ last \in DOMAIN s /\ s[last] = m
        /\ \A i \in DOMAIN r : i \in DOMAIN s /\ s[i] = r[i] /\ i < last
        /\ \A i \in DOMAIN s : i \in DOMAIN r \/ i = last
        /\ \A i \in DOMAIN r : ~ (last < i)
        /\ ~ (last < last)
    OBVIOUS
  <1> HIDE DEF s, last
  <1>2. Ordered(r) => Ordered(s)
    BY <1>1 DEF Ordered
  <1>3. {s[i] : i \in DOMAIN s} = {r[i] : i \in DOMAIN r} \cup {m}
    <2>1. \A x : x \in {s[i] : i \in DOMAIN s} => x \in {r[i] : i \in DOMAIN r} \cup {m}
      BY <1>1
    <2>2. \A x : x \in {r[i] : i \in DOMAIN r} \cup {m} => x \in {s[i] : i \in DOMAIN s}
      BY <1>1
    <2>3. QED
      BY <2>1, <2>2
  <1>4. QED
    BY <1>1, <1>2, <1>3 DEF s

(* What is left of a queue when its first message is popped.                *)
LEMMA OrderedTail ==
  ASSUME NEW q \in Seq(Messages), q # <<>>, Ordered(q)
  PROVE  /\ Tail(q) \in Seq(Messages) /\ Head(q) \in Messages
         /\ Ordered(Tail(q))
         /\ \A i \in DOMAIN Tail(q) : Head(q)[1] = Tail(q)[i][1] => Head(q)[2] < Tail(q)[i][2]
         /\ \A i \in DOMAIN Tail(q) : i + 1 \in DOMAIN q /\ Tail(q)[i] = q[i + 1]
         /\ Head(q) = q[1] /\ 1 \in DOMAIN q
  <1> DEFINE t == Tail(q)
             h == Head(q)
  <1>1. /\ t \in Seq(Messages) /\ h \in Messages /\ h = q[1] /\ 1 \in DOMAIN q
        /\ \A i \in DOMAIN t : i \in Nat \ {0} /\ i + 1 \in DOMAIN q /\ t[i] = q[i + 1] /\ 1 < i + 1
    OBVIOUS
  <1> HIDE DEF t, h
  <1>2. Ordered(t)
    <2> SUFFICES ASSUME NEW i \in DOMAIN t, NEW j \in DOMAIN t, i < j, t[i][1] = t[j][1]
                 PROVE  t[i][2] < t[j][2]
      BY DEF Ordered
    <2>1. i + 1 < j + 1
      BY <1>1
    <2>2. QED
      BY <1>1, <2>1 DEF Ordered
  <1>3. \A i \in DOMAIN t : h[1] = t[i][1] => h[2] < t[i][2]
    BY <1>1 DEF Ordered
  <1>4. QED
    BY <1>1, <1>2, <1>3 DEF t, h

-----------------------------------------------------------------------------
(* The invariant holds at first.                                            *)
LEMMA IInvInit == Init => IInv
  <1> SUFFICES ASSUME Init PROVE IInv
    OBVIOUS
  <1>1. TypeOK
    BY AgentAssumption DEF Init, TypeOK
  <1>2. ASSUME NEW a \in Agents PROVE OrderedFor(a) /\ FromAnother(a)
    BY DEF Init, OrderedFor, Ordered, Behind, FromAnother, Has, Waiting
  <1>3. EmptiedIsKept /\ FatalForAnother
    BY DEF Init, EmptiedIsKept, FatalForAnother
  <1>4. QED
    BY <1>1, <1>2, <1>3 DEF IInv

(* It is kept when vehicles come and move.                                  *)
LEMMA CreateMoveKeep ==
  ASSUME IInv, NEW a \in Agents, Create(a) \/ \E p \in Places : Move(a, p)
  PROVE  IInv'
  <1>1. /\ UNCHANGED <<sent, incomingMessages, empty, received, status>>
        /\ vehicleMap \subseteq vehicleMap' /\ vehicleMap' \subseteq Agents
        /\ place' \in [Agents -> Places]
    BY DEF Create, Move, IInv, TypeOK
  <1>2. \A b : Has(b)' = Has(b) /\ Waiting(b)' = Waiting(b)
    BY <1>1 DEF Has, Waiting
  <1>3. TypeOK'
    BY <1>1 DEF IInv, TypeOK
  <1>4. ASSUME NEW b \in Agents PROVE OrderedFor(b)' /\ FromAnother(b)'
    BY <1>1, <1>2 DEF IInv, OrderedFor, FromAnother
  <1>5. EmptiedIsKept' /\ FatalForAnother'
    BY <1>1, <1>2 DEF IInv, EmptiedIsKept, FatalForAnother
  <1>6. QED
    BY <1>3, <1>4, <1>5 DEF IInv

(* It is kept by a broadcast: its message is later than all of the agent's. *)
LEMMA BroadcastKeeps ==
  ASSUME IInv, status = "running", NEW a \in Agents, BroadcastMessage(a)
  PROVE  IInv'
  <1> DEFINE m == <<a, sent[a] + 1>>
  <1>1. /\ m \in Messages /\ m[1] = a /\ m[2] = sent[a] + 1
        /\ sent' = [sent EXCEPT ![a] = sent[a] + 1] /\ sent' \in [Agents -> Nat]
        /\ \A b \in Agents : sent'[b] <= MaxMessages[b]
        /\ \A b \in Agents : sent[b] <= sent'[b] /\ sent[b] \in Nat /\ sent'[b] \in Nat
    <2>1. /\ sent \in [Agents -> Nat] /\ \A b \in Agents : sent[b] <= MaxMessages[b]
          /\ sent[a] < MaxMessages[a] /\ sent' = [sent EXCEPT ![a] = sent[a] + 1]
          /\ MaxMessages \in [Agents -> Nat]
      BY AgentAssumption DEF BroadcastMessage, IInv, TypeOK
    <2>2. m \in Messages /\ m[1] = a /\ m[2] = sent[a] + 1
      <3>1. m \in Agents \X Nat /\ m[1] = a /\ m[2] = sent[a] + 1
        BY <2>1
      <3>2. m[2] \in 1 .. MaxMessages[m[1]]
        BY <2>1, <3>1
      <3>3. QED
        BY <3>1, <3>2 DEF Messages
    <2>3. QED
      BY <2>1, <2>2
  <1>2. /\ UNCHANGED <<vehicleMap, place, empty, received, status>>
        /\ \A b \in Agents : incomingMessages'[b] =
              IF b \in Receivers(a) THEN Append(incomingMessages[b], m) ELSE incomingMessages[b]
        /\ incomingMessages' = [b \in Agents |->
              IF b \in Receivers(a) THEN Append(incomingMessages[b], m) ELSE incomingMessages[b]]
    BY <1>1 DEF BroadcastMessage, Deliver, IInv, TypeOK
  <1>3. \A b \in Agents : b \in Receivers(a) => b \in vehicleMap /\ b # a
    BY DEF Receivers
  <1> HIDE DEF m
  <1>4. ASSUME NEW b \in Agents
        PROVE  /\ incomingMessages'[b] \in Seq(Messages)
               /\ Ordered(incomingMessages'[b])
               /\ Waiting(b)' \subseteq Waiting(b) \cup {m}
               /\ m \in Waiting(b)' => m \in Waiting(b) \/ b \in Receivers(a)
               /\ Has(b)' = Has(b)
    <2>1. incomingMessages[b] \in Seq(Messages) /\ Ordered(incomingMessages[b]) /\ Has(b)' = Has(b)
      BY <1>2 DEF IInv, TypeOK, OrderedFor, Has
    <2>2. \A i \in DOMAIN incomingMessages[b] :
             incomingMessages[b][i][1] = m[1] => incomingMessages[b][i][2] < m[2]
      <3>1. \A i \in DOMAIN incomingMessages[b] : /\ incomingMessages[b][i] \in Waiting(b)
                                                  /\ incomingMessages[b][i] \in Messages
        BY <2>1 DEF Waiting
      <3>2. \A i \in DOMAIN incomingMessages[b] : incomingMessages[b][i][2] \in Nat
        BY <3>1 DEF Messages
      <3>3. QED
        BY <1>1, <3>1, <3>2 DEF IInv, FromAnother
    <2>3. CASE b \in Receivers(a)
      <3>1. incomingMessages'[b] = Append(incomingMessages[b], m)
        BY <1>2, <2>3
      <3>2. /\ incomingMessages'[b] \in Seq(Messages) /\ Ordered(incomingMessages'[b])
            /\ {incomingMessages'[b][i] : i \in DOMAIN incomingMessages'[b]} = Waiting(b) \cup {m}
        <4> DEFINE r == incomingMessages[b]
        <4> HIDE DEF r
        <4>1. /\ r \in Seq(Messages) /\ m \in Messages /\ Ordered(r)
              /\ \A i \in DOMAIN r : r[i][1] = m[1] => r[i][2] < m[2]
          BY <1>1, <2>1, <2>2 DEF r
        <4>2. Append(r, m) \in Seq(Messages) /\ Ordered(Append(r, m))
          BY <4>1, OrderedAppend
        <4>3. {Append(r, m)[i] : i \in DOMAIN Append(r, m)} = {r[i] : i \in DOMAIN r} \cup {m}
          BY <4>1, OrderedAppend
        <4>4. QED
          BY <3>1, <4>2, <4>3 DEF r, Waiting
      <3>3. QED
        BY <2>1, <2>3, <3>2 DEF Waiting
    <2>4. CASE b \notin Receivers(a)
      BY <1>2, <2>1, <2>4 DEF Waiting
    <2>5. QED
      BY <2>3, <2>4
  <1>5. TypeOK'
    <2>1. incomingMessages' \in [Agents -> Seq(Messages)]
      BY <1>2, <1>4
    <2>2. QED
      BY <1>1, <1>2, <2>1 DEF IInv, TypeOK
  <1>6. ASSUME NEW b \in Agents PROVE FromAnother(b)'
    <2>1. \A x \in Has(b) \cup Waiting(b) :
             x \in Messages /\ b \in vehicleMap /\ x[1] # b /\ x[2] <= sent[x[1]]
      <3>1. \A x \in Has(b) \cup Waiting(b) : x \in Messages
        BY DEF IInv, TypeOK, Has, Waiting
      <3>2. QED
        BY <3>1 DEF IInv, FromAnother
    <2>2. \A x \in Messages : x[1] \in Agents /\ x[2] \in Nat
      BY DEF Messages
    <2>3. \A x \in Has(b) \cup Waiting(b) : x[2] <= sent'[x[1]]
      BY <1>1, <2>1, <2>2
    <2>4. b \in Receivers(a) => b \in vehicleMap /\ m[1] # b /\ m[2] <= sent'[m[1]]
      BY <1>1, <1>3 DEF IInv, TypeOK
    <2>5. QED
      BY <1>2, <1>4, <2>1, <2>3, <2>4 DEF FromAnother
  <1>7. ASSUME NEW b \in Agents PROVE OrderedFor(b)'
    <2>1. \A i \in DOMAIN received[b] : received[b][i] \in Has(b) /\ received[b][i] \in Messages
      BY DEF Has, IInv, TypeOK
    <2>2. \A i \in DOMAIN received[b] : received[b][i][1] = m[1] => received[b][i][2] < m[2]
      BY <1>1, <2>1 DEF IInv, FromAnother, Messages
    <2>3. \A x \in Waiting(b) : \A i \in DOMAIN received[b] :
             received[b][i][1] = x[1] => received[b][i][2] < x[2]
      BY DEF IInv, OrderedFor, Behind, Waiting
    <2>4. \A x \in Waiting(b)' : \A i \in DOMAIN received[b] :
             received[b][i][1] = x[1] => received[b][i][2] < x[2]
      BY <1>4, <2>2, <2>3
    <2>5. Behind(received[b], incomingMessages'[b])
      BY <2>4 DEF Behind, Waiting
    <2>6. QED
      BY <1>2, <1>4, <2>5 DEF IInv, OrderedFor
  <1>8. EmptiedIsKept' /\ FatalForAnother'
    BY <1>2, <1>4 DEF IInv, EmptiedIsKept, FatalForAnother
  <1>9. QED
    BY <1>5, <1>6, <1>7, <1>8 DEF IInv

(* It is kept when a message is popped, whether it can be parsed or not.    *)
LEMMA PopKeeps ==
  ASSUME IInv, status = "running", NEW a \in Agents, PopMessage(a)
  PROVE  IInv'
  <1> DEFINE q == incomingMessages[a]
             r == received[a]
             m == Head(q)
  <1>1. /\ q \in Seq(Messages) /\ q # <<>> /\ r \in Seq(Messages) /\ Ordered(q) /\ Ordered(r)
        /\ Behind(r, q) /\ a \in vehicleMap /\ UNCHANGED <<vehicleMap, place, sent>>
        /\ incomingMessages' = [incomingMessages EXCEPT ![a] = Tail(q)]
    BY DEF PopMessage, IInv, TypeOK, OrderedFor
  <1>2. /\ Tail(q) \in Seq(Messages) /\ m \in Messages /\ Ordered(Tail(q))
        /\ \A i \in DOMAIN Tail(q) : m[1] = Tail(q)[i][1] => m[2] < Tail(q)[i][2]
        /\ \A i \in DOMAIN Tail(q) : i + 1 \in DOMAIN q /\ Tail(q)[i] = q[i + 1]
        /\ m = q[1] /\ 1 \in DOMAIN q
    BY <1>1, OrderedTail
  <1>3. \A i \in DOMAIN r : r[i][1] = m[1] => r[i][2] < m[2]
    BY <1>1, <1>2 DEF Behind
  <1>4. /\ m \in Waiting(a) /\ m[1] # a /\ m \notin Has(a)
    <2>1. m \in Waiting(a)
      BY <1>2 DEF Waiting
    <2>2. m \notin Has(a)
      <3>1. m[2] \in Nat
        BY <1>2 DEF Messages
      <3>2. QED
        BY <1>3, <3>1 DEF Has
    <2>3. QED
      BY <2>1, <2>2 DEF IInv, FromAnother
  <1>5. \A b \in Agents : b # a => incomingMessages'[b] = incomingMessages[b]
    BY <1>1 DEF IInv, TypeOK
  <1>6. incomingMessages'[a] = Tail(q) /\ incomingMessages' \in [Agents -> Seq(Messages)]
    BY <1>1, <1>2 DEF IInv, TypeOK
  <1>7. \A b \in Agents : Waiting(b)' \subseteq Waiting(b)
    <2>1. Waiting(a)' \subseteq Waiting(a)
      <3>1. \A i \in DOMAIN Tail(q) : \E j \in DOMAIN q : Tail(q)[i] = q[j]
        BY <1>2
      <3>2. Waiting(a)' = {Tail(q)[i] : i \in DOMAIN Tail(q)}
        BY <1>6 DEF Waiting
      <3>3. QED
        BY <3>1, <3>2 DEF Waiting
    <2>2. \A b \in Agents : b # a => Waiting(b)' = Waiting(b)
      BY <1>5 DEF Waiting
    <2>3. QED
      BY <2>1, <2>2
  <1>8. Behind(r, Tail(q))
    BY <1>1, <1>2 DEF Behind
  <1>9. CASE m \in empty
    <2>1. UNCHANGED <<received, empty>> /\ status' = "fatal"
      BY <1>9 DEF PopMessage
    <2>2. \A b : Has(b)' = Has(b)
      BY <2>1 DEF Has
    <2>3. TypeOK'
      BY <1>1, <1>6, <2>1 DEF IInv, TypeOK
    <2>4. ASSUME NEW b \in Agents PROVE OrderedFor(b)' /\ FromAnother(b)'
      <3>1. FromAnother(b)'
        BY <1>1, <1>7, <2>2 DEF IInv, FromAnother
      <3>2. OrderedFor(b)'
        <4>1. CASE b = a
          BY <1>1, <1>2, <1>6, <1>8, <2>1, <4>1 DEF OrderedFor
        <4>2. CASE b # a
          BY <1>5, <2>1, <4>2 DEF IInv, OrderedFor
        <4>3. QED
          BY <4>1, <4>2
      <3>3. QED
        BY <3>1, <3>2
    <2>5. EmptiedIsKept'
      BY <2>1, <2>2 DEF IInv, EmptiedIsKept
    <2>6. FatalForAnother'
      <3>1. PICK b \in Agents : m \in Has(b)
        BY <1>9 DEF IInv, EmptiedIsKept
      <3>2. b \in vehicleMap
        BY <3>1 DEF IInv, FromAnother
      <3>3. a \notin {b, m[1]} /\ m \in Has(b) \cap empty
        BY <1>4, <1>9, <3>1
      <3>4. QED
        BY <1>1, <1>4, <2>1, <2>2, <3>2, <3>3 DEF FatalForAnother
    <2>7. QED
      BY <2>3, <2>4, <2>5, <2>6 DEF IInv
  <1>10. CASE m \notin empty
    <2>1. /\ received' = [received EXCEPT ![a] = Append(r, m)] /\ empty' = empty \cup {m}
          /\ UNCHANGED status
      BY <1>10 DEF PopMessage
    <2>2. /\ Append(r, m) \in Seq(Messages) /\ Ordered(Append(r, m))
          /\ {Append(r, m)[i] : i \in DOMAIN Append(r, m)} = {r[i] : i \in DOMAIN r} \cup {m}
      BY <1>1, <1>2, <1>3, OrderedAppend
    <2>3. received'[a] = Append(r, m) /\ \A b \in Agents : b # a => received'[b] = received[b]
      BY <2>1 DEF IInv, TypeOK
    <2>4. Has(a)' = Has(a) \cup {m} /\ \A b \in Agents : b # a => Has(b)' = Has(b)
      BY <2>2, <2>3 DEF Has
    <2>5. TypeOK'
      <3>1. received' \in [Agents -> Seq(Messages)]
        BY <2>1, <2>2 DEF IInv, TypeOK
      <3>2. empty' \subseteq Messages
        BY <1>2, <2>1 DEF IInv, TypeOK
      <3>3. QED
        BY <1>1, <1>6, <2>1, <3>1, <3>2 DEF IInv, TypeOK
    <2>6. ASSUME NEW b \in Agents PROVE OrderedFor(b)' /\ FromAnother(b)'
      <3>1. FromAnother(b)'
        <4>1. Has(b)' \cup Waiting(b)' \subseteq Has(b) \cup Waiting(b)
          BY <1>4, <1>7, <2>4
        <4>2. QED
          BY <1>1, <4>1 DEF IInv, FromAnother
      <3>2. CASE b = a
        <4>1. Behind(Append(r, m), Tail(q))
          <5>1. \A i \in DOMAIN Append(r, m) : Append(r, m)[i] \in {r[k] : k \in DOMAIN r} \cup {m}
            BY <2>2
          <5>2. \A x \in {r[k] : k \in DOMAIN r} \cup {m} :
                   \A j \in DOMAIN Tail(q) : x[1] = Tail(q)[j][1] => x[2] < Tail(q)[j][2]
            BY <1>2, <1>8 DEF Behind
          <5>3. QED
            BY <5>1, <5>2 DEF Behind
        <4>2. QED
          BY <1>2, <1>6, <2>2, <2>3, <3>1, <3>2, <4>1 DEF OrderedFor
      <3>3. CASE b # a
        BY <1>5, <2>3, <3>1, <3>3 DEF IInv, OrderedFor
      <3>4. QED
        BY <3>2, <3>3
    <2>7. EmptiedIsKept'
      BY <2>1, <2>4 DEF IInv, EmptiedIsKept
    <2>8. FatalForAnother'
      BY <2>1 DEF FatalForAnother
    <2>9. QED
      BY <2>5, <2>6, <2>7, <2>8 DEF IInv
  <1>11. QED
    BY <1>9, <1>10

(* It is kept by every step.                                                *)
LEMMA IInvStep == IInv /\ [Next]_vars => IInv'
  <1> SUFFICES ASSUME IInv, [Next]_vars PROVE IInv'
    OBVIOUS
  <1>1. CASE UNCHANGED vars
    BY <1>1 DEF vars, IInv, TypeOK, OrderedFor, FromAnother, EmptiedIsKept, FatalForAnother,
                Has, Waiting
  <1>2. QED
    BY <1>1, CreateMoveKeep, BroadcastKeeps, PopKeeps DEF Next

(* The invariant of the agents.                                            *)
LEMMA Invariance == Spec => []IInv
  BY IInvInit, IInvStep, PTL DEF Spec

(* What popMessage returns and what waits for it is in the order in which   *)
(* broadcastMessage was called, and nothing twice.                          *)
THEOREM ReceivedInOrder == Spec => []InOrder
  <1>1. IInv => InOrder
    <2> SUFFICES ASSUME IInv, NEW a \in Agents PROVE Ordered(received[a] \o incomingMessages[a])
      BY DEF IInv, InOrder, Ordered
    <2>1. received[a] \in Seq(Messages) /\ incomingMessages[a] \in Seq(Messages) /\ OrderedFor(a)
      BY DEF IInv, TypeOK
    <2>2. QED
      BY <2>1, OrderedConcat DEF OrderedFor
  <1>2. QED
    BY <1>1, Invariance, PTL

(* A buffer is found empty, and the process ended by CheckInitialized, only *)
(* because another receiver of the same broadcast was faster.               *)
THEOREM EmptyForAReason == Spec => []EmptiedByAnother
  <1>1. IInv => EmptiedByAnother
    <2> SUFFICES ASSUME IInv, NEW a \in Agents, NEW m \in Waiting(a) \cap empty
                 PROVE  \E b \in Agents \ {a, m[1]} : m \in Has(b)
      BY DEF IInv, EmptiedByAnother, FatalForAnother
    <2>1. PICK b \in Agents : m \in Has(b)
      BY DEF IInv, EmptiedIsKept
    <2>2. b # m[1]
      BY <2>1 DEF IInv, FromAnother
    <2>3. b # a
      <3>1. ASSUME m \in Has(a) PROVE FALSE
        <4>1. PICK i \in DOMAIN received[a], j \in DOMAIN incomingMessages[a] :
                 received[a][i] = m /\ incomingMessages[a][j] = m
          BY <3>1 DEF Has, Waiting
        <4>2. m[2] < m[2]
          BY <4>1 DEF IInv, OrderedFor, Behind
        <4>3. m[2] \in Nat
          BY <4>1 DEF IInv, TypeOK, Messages
        <4>4. QED
          BY <4>2, <4>3
      <3>2. QED
        BY <2>1, <3>1
    <2>4. QED
      BY <2>1, <2>2, <2>3
  <1>2. QED
    BY <1>1, Invariance, PTL

-----------------------------------------------------------------------------
(* The simulation: everything in turn.                                      *)

(* The messages of vehicles, and the version that is in one.                *)
VehicleMessages == {VehicleMessage(v, n) : v \in ToSet(Vehicles), n \in Nat}
Version(m) == m.at["chassis"][2]

SimTypeOK ==
    /\ world \in [ToSet(Vehicles) -> Nat] /\ disorder \in Nat
    /\ packets \in Seq(Seq(VehicleMessages)) /\ incoming \in Seq(VehicleMessages)
    /\ simUpdateQueue \in Seq(VehicleMessages)
    /\ otherVehicles \in [ToSet(Vehicles) -> {<<>>} \cup {Update(m) : m \in VehicleMessages}]

(* The versions of a vehicle do not go down along q, nor from q to r; none  *)
(* in q is older than what is shown, or newer than the server's.            *)
Rising(q) == \A i, j \in DOMAIN q :
                i < j /\ q[i].vehicle = q[j].vehicle => Version(q[i]) <= Version(q[j])
Precedes(q, r) == \A i \in DOMAIN q, j \in DOMAIN r :
                     q[i].vehicle = r[j].vehicle => Version(q[i]) <= Version(r[j])
NotBack(q) == \A i \in DOMAIN q : /\ Shown(q[i].vehicle) <= Version(q[i])
                                  /\ Version(q[i]) <= world[q[i].vehicle]

(* From the server to the bodies in the simulation everything is in turn.   *)
PacketsInTurn ==
    /\ \A k \in DOMAIN packets : Rising(packets[k]) /\ NotBack(packets[k])
    /\ \A k, l \in DOMAIN packets : k < l => Precedes(packets[k], packets[l])

IncomingInTurn ==
    /\ Rising(incoming) /\ NotBack(incoming)
    /\ \A k \in DOMAIN packets : Precedes(incoming, packets[k])

QueueInTurn ==
    /\ Rising(simUpdateQueue) /\ NotBack(simUpdateQueue)
    /\ Precedes(simUpdateQueue, incoming)
    /\ \A k \in DOMAIN packets : Precedes(simUpdateQueue, packets[k])

ShownInTurn == \A v \in ToSet(Vehicles) : Shown(v) <= world[v]

InTurn == PacketsInTurn /\ IncomingInTurn /\ QueueInTurn /\ ShownInTurn

SimInv == SimTypeOK /\ (disorder = 0 => InTurn)

(* The least of a set of numbers.                                         *)
LEMMA LeastOfSet ==
  ASSUME NEW S \in SUBSET Nat, S # {}
  PROVE  \E m \in S : \A k \in S : m <= k
  <1> DEFINE R == {ss \in Nat \X Nat : ss[1] < ss[2]}
  <1>1. IsWellFoundedOn(R, Nat)
    BY NatLessThanWellFounded, Zenon DEF OpToRel
  <1>2. \A x, y \in Nat : y < x => <<y, x>> \in R
    OBVIOUS
  <1> HIDE DEF R
  <1>3. PICK m \in S : \A j \in S : ~ (<<j, m>> \in R)
    BY <1>1, WFMin
  <1>4. \A j \in S : m <= j
    <2>1. \A j \in S : m \in Nat /\ j \in Nat /\ ~(j < m)
      BY <1>2, <1>3
    <2>2. QED
      BY <2>1
  <1>5. QED
    BY <1>4

(* What holds of 0, and of k when it holds of k - 1, holds up to n.        *)
LEMMA HoldsUpTo ==
  ASSUME NEW n \in Nat, NEW S, 0 \in S, \A k \in 1..n : k - 1 \in S => k \in S
  PROVE  \A k \in 0..n : k \in S
  <1> DEFINE B == {k \in 0..n : k \notin S}
  <1> SUFFICES ASSUME B # {} PROVE FALSE
    OBVIOUS
  <1>1. PICK m \in B : \A k \in B : m <= k
    <2>1. B \in SUBSET Nat
      OBVIOUS
    <2> HIDE DEF B
    <2>2. QED
      BY <2>1, LeastOfSet
  <1>2. m \in 1..n /\ m - 1 \in 0..n /\ ~(m <= m - 1) /\ m \notin S
    OBVIOUS
  <1>3. QED
    BY <1>1, <1>2

-----------------------------------------------------------------------------
(* Messages and packets                                                     *)

(* The message of vehicle v in version n says so.                           *)
LEMMA MessageIs ==
  ASSUME NEW v \in ToSet(Vehicles), NEW n \in Nat
  PROVE  /\ VehicleMessage(v, n) \in VehicleMessages
         /\ VehicleMessage(v, n).vehicle = v /\ Version(VehicleMessage(v, n)) = n
  <1>1. VehicleMessage(v, n) \in VehicleMessages
    BY DEF VehicleMessages
  <1>2. VehicleMessage(v, n).vehicle = v /\ VehicleMessage(v, n).at = [p \in Parts |-> <<p, n>>]
    BY DEF VehicleMessage
  <1>3. "chassis" \in Parts
    BY DEF Parts
  <1>4. QED
    BY <1>1, <1>2, <1>3 DEF Version

(* A vehicle message is of one of the vehicles, and has a version.         *)
LEMMA MessageHas ==
  ASSUME NEW m \in VehicleMessages
  PROVE  m.vehicle \in ToSet(Vehicles) /\ Version(m) \in Nat
  <1>1. PICK v \in ToSet(Vehicles), n \in Nat : m = VehicleMessage(v, n)
    BY DEF VehicleMessages
  <1>2. QED
    BY <1>1, MessageIs

(* A vehicle is shown in the version of the message it was moved by.        *)
LEMMA UpdateShows ==
  ASSUME NEW m \in VehicleMessages
  PROVE  Update(m) # <<>> /\ Update(m).chassis[2] = Version(m)
  <1>1. DOMAIN Update(m) = {"chassis", "hitbox", "wheels"} /\ Update(m).chassis = m.at["chassis"]
    BY DEF Update
  <1>2. DOMAIN <<>> = {}
    OBVIOUS
  <1>3. QED
    BY <1>1, <1>2 DEF Version

(* The version the client shows of a vehicle.                              *)
LEMMA ShownIs ==
  ASSUME SimTypeOK, NEW v \in ToSet(Vehicles)
  PROVE  Shown(v) \in Nat
  <1>1. otherVehicles[v] \in {<<>>} \cup {Update(m) : m \in VehicleMessages}
    BY DEF SimTypeOK
  <1>2. CASE otherVehicles[v] = <<>>
    BY <1>2 DEF Shown
  <1>3. CASE otherVehicles[v] # <<>>
    <2>1. PICK m \in VehicleMessages : otherVehicles[v] = Update(m)
      BY <1>1, <1>3
    <2>2. QED
      BY <1>3, <2>1, UpdateShows, MessageHas DEF Shown
  <1>4. QED
    BY <1>2, <1>3

(* A step of the loop over the vehicles, of which f is what has been put    *)
(* into the packet up to each place.                                        *)
UpTo(f, k) ==
    \A i \in 0 .. k :
        f[i] = IF i = 0 THEN <<>>
               ELSE IF world[Vehicles[i]] = 0 THEN f[i - 1]
               ELSE Append(f[i - 1], VehicleMessage(Vehicles[i], world[Vehicles[i]]))

(* What is true of the world's vehicles now                                 *)
Current == {m \in VehicleMessages : Version(m) = world[m.vehicle]}

(* The server's message of a vehicle has its current version.              *)
LEMMA CurrentIs ==
  ASSUME SimTypeOK, NEW i \in 1 .. Len(Vehicles)
  PROVE  VehicleMessage(Vehicles[i], world[Vehicles[i]]) \in Current
  <1>1. Vehicles[i] \in ToSet(Vehicles)
    BY ClientAssumption DEF ToSet
  <1>2. world[Vehicles[i]] \in Nat
    BY <1>1 DEF SimTypeOK
  <1>3. QED
    BY <1>1, <1>2, MessageIs DEF Current

(* There is a way to fill a packet vehicle by vehicle.                     *)
LEMMA PacketExists ==
  ASSUME SimTypeOK
  PROVE  \E f \in [0 .. Len(Vehicles) -> Seq(Current)] : UpTo(f, Len(Vehicles))
  <1> DEFINE L == Len(Vehicles)
             Done == {k \in 0 .. L : \E f \in [0 .. k -> Seq(Current)] : UpTo(f, k)}
             Step(s, i) == IF world[Vehicles[i]] = 0 THEN s
                           ELSE Append(s, VehicleMessage(Vehicles[i], world[Vehicles[i]]))
  <1>1. L \in Nat
    BY ClientAssumption
  <1>2. 0 \in Done
    <2> DEFINE f == [i \in 0 .. 0 |-> <<>>]
    <2>1. <<>> \in Seq(Current)
      OBVIOUS
    <2>2. f \in [0 .. 0 -> Seq(Current)] /\ f[0] = <<>>
      BY <2>1
    <2> HIDE DEF f
    <2>3. UpTo(f, 0)
      BY <2>2 DEF UpTo
    <2>4. QED
      BY <1>1, <2>2, <2>3
  <1>3. ASSUME NEW k \in 1 .. L, k - 1 \in Done PROVE k \in Done
    <2>1. PICK f \in [0 .. k - 1 -> Seq(Current)] : UpTo(f, k - 1)
      BY <1>3
    <2> DEFINE s == Step(f[k - 1], k)
               g == [i \in 0 .. k |-> IF i = k THEN s ELSE f[i]]
    <2>2. s \in Seq(Current)
      <3>1. k \in 1 .. Len(Vehicles) /\ f[k - 1] \in Seq(Current)
        BY <1>1, <2>1
      <3>2. VehicleMessage(Vehicles[k], world[Vehicles[k]]) \in Current
        BY <3>1, CurrentIs
      <3>3. QED
        BY <3>1, <3>2
    <2>3. g \in [0 .. k -> Seq(Current)]
      BY <1>1, <2>1, <2>2
    <2>4. ASSUME NEW i \in 0 .. k
          PROVE  g[i] = IF i = 0 THEN <<>> ELSE Step(g[i - 1], i)
      <3>1. CASE i = k
        <4>1. g[k] = s /\ g[k - 1] = f[k - 1]
          BY <1>1
        <4>2. QED
          BY <1>1, <3>1, <4>1
      <3>2. CASE i # k
        <4>1. i \in 0 .. k - 1 /\ g[i] = f[i] /\ (i # 0 => g[i - 1] = f[i - 1])
          BY <1>1, <3>2
        <4>2. f[i] = IF i = 0 THEN <<>> ELSE Step(f[i - 1], i)
          BY <2>1, <4>1 DEF UpTo
        <4>3. QED
          BY <4>1, <4>2
      <3>3. QED
        BY <3>1, <3>2
    <2>5. UpTo(g, k)
      BY <2>4 DEF UpTo
    <2> HIDE DEF g
    <2>6. QED
      BY <1>1, <2>3, <2>5
  <1>4. L \in Done
    <2> HIDE DEF Done, L
    <2>1. L \in 0 .. L
      BY <1>1
    <2>2. QED
      BY <1>1, <1>2, <1>3, <2>1, HoldsUpTo
  <1>5. QED
    BY <1>4

(* A packet has nothing but vehicles as they are now.                       *)
LEMMA PacketIs ==
  ASSUME SimTypeOK
  PROVE  Packet \in Seq(Current)
  <1> DEFINE L == Len(Vehicles)
             Body(f, i) == IF i = 0 THEN <<>>
               ELSE IF world[Vehicles[i]] = 0 THEN f[i - 1]
               ELSE Append(f[i - 1], VehicleMessage(Vehicles[i], world[Vehicles[i]]))
             Is(f) == f = [i \in 0 .. L |-> Body(f, i)]
             P == CHOOSE f : Is(f)
  <1>1. Packet = P[L]
    BY DEF Packet
  <1>2. L \in Nat
    BY ClientAssumption
  <1>3. PICK f \in [0 .. L -> Seq(Current)] : UpTo(f, L)
    BY PacketExists
  <1>4. Is(f)
    <2>1. f = [i \in 0 .. L |-> f[i]]
      BY <1>3
    <2>2. \A i \in 0 .. L : f[i] = Body(f, i)
      BY <1>3 DEF UpTo
    <2> HIDE DEF L
    <2>3. QED
      BY <2>1, <2>2
  <1>5. Is(P)
    BY <1>4
  <1>6. \A i \in 0 .. L : P[i] = Body(P, i)
    <2> HIDE DEF P, L
    <2>1. QED
      BY <1>5
  <1> HIDE DEF P
  <1> DEFINE Good == {i \in 0 .. L : P[i] \in Seq(Current)}
  <1>7. 0 \in Good
    <2>1. 0 \in 0 .. L /\ <<>> \in Seq(Current)
      BY <1>2
    <2>2. P[0] = <<>>
      BY <1>6, <2>1
    <2>3. QED
      BY <2>1, <2>2
  <1>8. ASSUME NEW k \in 1 .. L, k - 1 \in Good PROVE k \in Good
    <2>1. k \in 0 .. L /\ k # 0 /\ P[k - 1] \in Seq(Current)
      BY <1>2, <1>8
    <2>2. VehicleMessage(Vehicles[k], world[Vehicles[k]]) \in Current
      BY <1>8, CurrentIs
    <2>3. Body(P, k) \in Seq(Current)
      BY <2>1, <2>2
    <2>4. QED
      BY <1>6, <2>1, <2>3
  <1>9. L \in Good
    <2> HIDE DEF Good, L
    <2>1. L \in 0 .. L
      BY <1>2
    <2>2. QED
      BY <1>2, <1>7, <1>8, <2>1, HoldsUpTo
  <1>10. QED
    BY <1>1, <1>9

-----------------------------------------------------------------------------
(* The steps                                                                *)

(* At the start nothing is on its way.                                     *)
LEMMA InitInTurn == SimInit => SimInv
  <1> SUFFICES ASSUME SimInit PROVE SimInv
    OBVIOUS
  <1>1. SimTypeOK
    BY DEF SimInit, SimTypeOK
  <1>2. \A v \in ToSet(Vehicles) : Shown(v) = 0 /\ world[v] = 0
    BY DEF SimInit, Shown
  <1>3. InTurn
    BY <1>2 DEF SimInit, InTurn, PacketsInTurn, IncomingInTurn, QueueInTurn, ShownInTurn,
                Rising, NotBack, Precedes
  <1>4. QED
    BY <1>1, <1>3 DEF SimInv

(* What is shown does not change with the queues.                           *)
LEMMA ShownStays ==
  ASSUME UNCHANGED otherVehicles, NEW v
  PROVE  Shown(v)' = Shown(v)
  BY DEF Shown

(* A vehicle that comes or moves is newer than all that is on its way.      *)
LEMMA ChangeInTurn ==
  ASSUME SimInv, NEW v \in ToSet(Vehicles), Change(v)
  PROVE  SimInv'
  <1>1. world[v] \in Nat /\ disorder \in Nat
    BY DEF SimInv, SimTypeOK
  <1>2. world' \in [ToSet(Vehicles) -> Nat] /\ disorder' \in Nat
    <2>1. world[v] + 1 \in Nat /\ disorder + 1 \in Nat /\ (world[v] > 1 => world[v] - 1 \in Nat)
      BY <1>1
    <2>2. QED
      BY <1>1, <2>1 DEF Change, SimInv, SimTypeOK
  <1>3. SimTypeOK'
    BY <1>2 DEF Change, SimInv, SimTypeOK
  <1>4. ASSUME disorder' = 0 PROVE InTurn'
    <2>1. disorder = 0 /\ world' = [world EXCEPT ![v] = @ + 1]
      BY <1>1, <1>4 DEF Change
    <2>2. InTurn
      BY <2>1 DEF SimInv
    <2>3. \A w \in ToSet(Vehicles) : /\ world[w] \in Nat /\ world'[w] \in Nat /\ world[w] <= world'[w]
                                     /\ Shown(w)' = Shown(w) /\ Shown(w) \in Nat
      BY <1>1, <1>2, <2>1, ShownStays, ShownIs DEF Change, SimInv, SimTypeOK
    <2>4. ASSUME NEW q \in Seq(VehicleMessages), NotBack(q)
          PROVE  NotBack(q)'
      <3> SUFFICES ASSUME NEW i \in DOMAIN q
                   PROVE  Shown(q[i].vehicle)' <= Version(q[i]) /\ Version(q[i]) <= world'[q[i].vehicle]
        BY DEF NotBack
      <3>1. q[i].vehicle \in ToSet(Vehicles) /\ Version(q[i]) \in Nat
        BY MessageHas
      <3>2. Shown(q[i].vehicle) <= Version(q[i]) /\ Version(q[i]) <= world[q[i].vehicle]
        BY <2>4 DEF NotBack
      <3>3. QED
        BY <2>3, <3>1, <3>2
    <2>5. UNCHANGED <<packets, incoming, simUpdateQueue>>
      BY DEF Change
    <2>6. PacketsInTurn'
      <3>1. \A k \in DOMAIN packets : packets[k] \in Seq(VehicleMessages)
        BY DEF SimInv, SimTypeOK
      <3>2. QED
        BY <2>2, <2>4, <2>5, <3>1 DEF InTurn, PacketsInTurn, Rising, Precedes
    <2>7. IncomingInTurn' /\ QueueInTurn'
      <3>1. incoming \in Seq(VehicleMessages) /\ simUpdateQueue \in Seq(VehicleMessages)
        BY DEF SimInv, SimTypeOK
      <3>2. NotBack(incoming)' /\ NotBack(simUpdateQueue)'
        BY <2>2, <2>4, <2>5, <3>1 DEF InTurn, IncomingInTurn, QueueInTurn, NotBack
      <3>3. QED
        BY <2>2, <2>5, <3>2 DEF InTurn, IncomingInTurn, QueueInTurn, Rising, Precedes
    <2>8. ShownInTurn'
      BY <2>2, <2>3 DEF InTurn, ShownInTurn
    <2>9. QED
      BY <2>6, <2>7, <2>8 DEF InTurn
  <1>5. QED
    BY <1>3, <1>4 DEF SimInv

(* A packet follows all that is on its way.                                 *)
LEMMA ServeInTurn ==
  ASSUME SimInv, Serve
  PROVE  SimInv'
  <1>1. Packet \in Seq(VehicleMessages) /\ \A i \in DOMAIN Packet : Version(Packet[i]) = world[Packet[i].vehicle]
    BY PacketIs DEF SimInv, Current
  <1> DEFINE P == Packet
  <1>2. UNCHANGED <<world, disorder, incoming, simUpdateQueue, otherVehicles>>
    BY DEF Serve
  <1>3. packets' = packets \/ packets' = Append(packets, P)
    BY DEF Serve
  <1> HIDE DEF P
  <1>4. packets \in Seq(Seq(VehicleMessages))
    BY DEF SimInv, SimTypeOK
  <1>5. packets' \in Seq(Seq(VehicleMessages))
    BY <1>1, <1>3, <1>4 DEF P
  <1>6. SimTypeOK'
    BY <1>2, <1>5 DEF SimInv, SimTypeOK
  <1>7. ASSUME disorder' = 0, packets' = Append(packets, P) PROVE InTurn'
    <2>1. InTurn
      BY <1>2, <1>7 DEF SimInv
    <2>2. \A w \in ToSet(Vehicles) : /\ world[w] \in Nat /\ Shown(w) \in Nat /\ Shown(w) <= world[w]
                                     /\ Shown(w)' = Shown(w)
      BY <1>2, <2>1, ShownStays, ShownIs DEF SimInv, SimTypeOK, InTurn, ShownInTurn
    <2>3. \A i \in DOMAIN P : /\ P[i].vehicle \in ToSet(Vehicles) /\ Version(P[i]) \in Nat
                              /\ Version(P[i]) = world[P[i].vehicle]
      BY <1>1, MessageHas DEF P
    <2>4. Rising(P) /\ NotBack(P)
      BY <2>2, <2>3 DEF Rising, NotBack
    <2>5. \A q \in Seq(VehicleMessages) : NotBack(q) => Precedes(q, P)
      BY <2>3 DEF Precedes, NotBack
    <2>6. /\ Len(packets) \in Nat /\ DOMAIN packets = 1 .. Len(packets)
          /\ DOMAIN packets' = 1 .. (Len(packets) + 1)
          /\ packets'[Len(packets) + 1] = P
          /\ \A k \in DOMAIN packets : packets'[k] = packets[k] /\ packets[k] \in Seq(VehicleMessages)
      BY <1>4, <1>7
    <2>7. PacketsInTurn'
      <3>1. ASSUME NEW k \in DOMAIN packets' PROVE Rising(packets[k])' /\ NotBack(packets[k])'
        <4>1. CASE k \in DOMAIN packets
          <5>1. Rising(packets[k]) /\ NotBack(packets[k]) /\ packets'[k] = packets[k]
            BY <2>1, <2>6, <4>1 DEF InTurn, PacketsInTurn
          <5>2. QED
            BY <1>2, <5>1 DEF Rising, NotBack, Shown
        <4>2. CASE k = Len(packets) + 1
          <5>1. packets'[k] = P
            BY <2>6, <4>2
          <5>2. QED
            BY <1>2, <2>4, <5>1 DEF Rising, NotBack, Shown
        <4>3. QED
          BY <2>6, <4>1, <4>2
      <3>2. ASSUME NEW k \in DOMAIN packets', NEW l \in DOMAIN packets', k < l
            PROVE  Precedes(packets'[k], packets'[l])
        <4>1. k \in DOMAIN packets
          BY <2>6, <3>2
        <4>2. CASE l \in DOMAIN packets
          BY <2>1, <2>6, <3>2, <4>1, <4>2 DEF InTurn, PacketsInTurn
        <4>3. CASE l = Len(packets) + 1
          <5>1. NotBack(packets[k]) /\ packets[k] \in Seq(VehicleMessages)
            BY <2>1, <2>6, <4>1 DEF InTurn, PacketsInTurn
          <5>2. QED
            BY <2>5, <2>6, <4>1, <4>3, <5>1
        <4>4. QED
          BY <2>6, <4>2, <4>3
      <3>3. QED
        BY <3>1, <3>2 DEF PacketsInTurn, Precedes
    <2>8. IncomingInTurn' /\ QueueInTurn'
      <3>1. incoming \in Seq(VehicleMessages) /\ simUpdateQueue \in Seq(VehicleMessages)
        BY DEF SimInv, SimTypeOK
      <3>2. NotBack(incoming) /\ NotBack(simUpdateQueue)
        BY <2>1 DEF InTurn, IncomingInTurn, QueueInTurn
      <3>3. \A k \in DOMAIN packets' : Precedes(incoming, packets'[k]) /\ Precedes(simUpdateQueue, packets'[k])
        <4>1. \A k \in DOMAIN packets : Precedes(incoming, packets[k]) /\ Precedes(simUpdateQueue, packets[k])
          BY <2>1 DEF InTurn, IncomingInTurn, QueueInTurn
        <4>2. Precedes(incoming, P) /\ Precedes(simUpdateQueue, P)
          BY <2>5, <3>1, <3>2
        <4>3. QED
          BY <2>6, <4>1, <4>2
      <3>4. NotBack(incoming)' /\ NotBack(simUpdateQueue)'
        BY <1>2, <3>2 DEF NotBack, Shown
      <3>5. QED
        BY <1>2, <2>1, <3>3, <3>4 DEF InTurn, IncomingInTurn, QueueInTurn, Rising, Precedes
    <2>9. ShownInTurn'
      BY <1>2, <2>2 DEF ShownInTurn
    <2>10. QED
      BY <2>7, <2>8, <2>9 DEF InTurn
  <1>8. ASSUME disorder' = 0, packets' = packets PROVE InTurn'
    BY <1>2, <1>8 DEF SimInv, InTurn, PacketsInTurn, IncomingInTurn, QueueInTurn, ShownInTurn,
                      Rising, NotBack, Precedes, Shown
  <1>9. QED
    BY <1>3, <1>6, <1>7, <1>8 DEF SimInv

(* What is left of a sequence without its first element.                   *)
LEMMA TailHas ==
  ASSUME NEW S, NEW s \in Seq(S), NEW i \in DOMAIN s
  PROVE  /\ Tail(s) \in Seq(S) /\ DOMAIN Tail(s) = 1 .. (Len(s) - 1)
         /\ \A k \in 1 .. (Len(s) - 1) : Tail(s)[k] = s[k + 1]
  OBVIOUS

(* The listener takes the packet that is the next.                          *)
LEMMA ReceiveInTurn ==
  ASSUME SimInv, Receive
  PROVE  SimInv'
  <1>1. /\ packets \in Seq(Seq(VehicleMessages)) /\ disorder \in Nat
        /\ Len(packets) \in Nat /\ DOMAIN packets = 1 .. Len(packets)
        /\ \A k \in DOMAIN packets : packets[k] \in Seq(VehicleMessages)
    BY DEF SimInv, SimTypeOK
  <1>2. UNCHANGED <<world, simUpdateQueue, otherVehicles>>
    BY DEF Receive
  <1>3. PICK i \in DOMAIN packets :
          /\ incoming' = packets[i]
          /\ \/ i = 1 /\ packets' = Tail(packets) /\ disorder' = disorder
             \/ /\ disorder' = disorder + 1
                /\ packets' \in {packets, RemoveAt(packets, i)}
    BY DEF Receive
  <1>4. SimTypeOK'
    <2>1. Tail(packets) \in Seq(Seq(VehicleMessages))
      BY <1>1, <1>3, TailHas
    <2>2. RemoveAt(packets, i) \in Seq(Seq(VehicleMessages))
      <3>1. /\ SubSeq(packets, 1, i - 1) \in Seq(Seq(VehicleMessages))
            /\ SubSeq(packets, i + 1, Len(packets)) \in Seq(Seq(VehicleMessages))
        BY <1>1, <1>3, SubSeqProperties
      <3>2. QED
        BY <3>1, ConcatProperties DEF RemoveAt
    <2>3. packets' \in Seq(Seq(VehicleMessages)) /\ incoming' \in Seq(VehicleMessages) /\ disorder' \in Nat
      <3>1. disorder + 1 \in Nat /\ packets[i] \in Seq(VehicleMessages)
        BY <1>1, <1>3
      <3>2. packets' \in {packets, Tail(packets), RemoveAt(packets, i)}
        BY <1>3
      <3>3. QED
        BY <1>1, <1>3, <2>1, <2>2, <3>1, <3>2
    <2>4. QED
      BY <1>2, <2>3 DEF SimInv, SimTypeOK
  <1>5. ASSUME disorder' = 0 PROVE InTurn'
    <2>1. /\ disorder = 0 /\ i = 1 /\ packets' = Tail(packets) /\ incoming' = packets[1]
      BY <1>1, <1>3, <1>5
    <2>2. InTurn
      BY <2>1 DEF SimInv
    <2>3. /\ DOMAIN packets' = 1 .. (Len(packets) - 1)
          /\ \A k \in DOMAIN packets' : /\ k + 1 \in DOMAIN packets /\ packets'[k] = packets[k + 1]
                                        /\ 1 < k + 1 /\ 1 \in DOMAIN packets
      <3>1. /\ DOMAIN packets' = 1 .. (Len(packets) - 1)
            /\ \A k \in 1 .. (Len(packets) - 1) : packets'[k] = packets[k + 1]
        BY <1>1, <1>3, <2>1, TailHas
      <3>2. \A k \in 1 .. (Len(packets) - 1) : k + 1 \in 1 .. Len(packets) /\ 1 < k + 1 /\ 1 \in 1 .. Len(packets)
        BY <1>1
      <3>3. QED
        BY <1>1, <3>1, <3>2
    <2>4. PacketsInTurn'
      <3>1. ASSUME NEW k \in DOMAIN packets' PROVE Rising(packets[k])' /\ NotBack(packets[k])'
        <4>1. Rising(packets[k + 1]) /\ NotBack(packets[k + 1])
          BY <2>2, <2>3 DEF InTurn, PacketsInTurn
        <4>2. QED
          BY <1>2, <2>3, <4>1 DEF Rising, NotBack, Shown
      <3>2. ASSUME NEW k \in DOMAIN packets', NEW l \in DOMAIN packets', k < l
            PROVE  Precedes(packets'[k], packets'[l])
        <4>1. k + 1 < l + 1 /\ k + 1 \in DOMAIN packets /\ l + 1 \in DOMAIN packets
          BY <1>1, <2>3, <3>2
        <4>2. Precedes(packets[k + 1], packets[l + 1])
          BY <2>2, <4>1 DEF InTurn, PacketsInTurn
        <4>3. QED
          BY <2>3, <4>2
      <3>3. QED
        BY <3>1, <3>2 DEF PacketsInTurn, Precedes
    <2>5. IncomingInTurn'
      <3>1. Rising(packets[1]) /\ NotBack(packets[1]) /\ \A k \in DOMAIN packets' : Precedes(packets[1], packets[k + 1])
        BY <1>3, <2>1, <2>2, <2>3 DEF InTurn, PacketsInTurn
      <3>2. NotBack(incoming)'
        BY <1>2, <2>1, <3>1 DEF NotBack, Shown
      <3>3. \A k \in DOMAIN packets' : Precedes(incoming', packets'[k])
        BY <2>1, <2>3, <3>1
      <3>4. Rising(incoming)'
        BY <2>1, <3>1 DEF Rising
      <3>5. QED
        BY <3>2, <3>3, <3>4 DEF IncomingInTurn, Precedes
    <2>6. QueueInTurn'
      <3>1. /\ Precedes(simUpdateQueue, packets[1])
            /\ \A k \in DOMAIN packets' : Precedes(simUpdateQueue, packets[k + 1])
        BY <1>3, <2>1, <2>2, <2>3 DEF InTurn, QueueInTurn
      <3>2. /\ Precedes(simUpdateQueue', incoming')
            /\ \A k \in DOMAIN packets' : Precedes(simUpdateQueue', packets'[k])
        BY <1>2, <2>1, <2>3, <3>1
      <3>3. Rising(simUpdateQueue)' /\ NotBack(simUpdateQueue)'
        BY <1>2, <2>2 DEF InTurn, QueueInTurn, Rising, NotBack, Shown
      <3>4. QED
        BY <3>2, <3>3 DEF QueueInTurn, Precedes
    <2>7. ShownInTurn'
      BY <1>2, <2>2 DEF InTurn, ShownInTurn, Shown
    <2>8. QED
      BY <2>4, <2>5, <2>6, <2>7 DEF InTurn
  <1>6. QED
    BY <1>4, <1>5 DEF SimInv

(* The listener puts a message behind those that came before it.            *)
LEMMA EnqueueInTurn ==
  ASSUME SimInv, Enqueue
  PROVE  SimInv'
  <1> DEFINE q == simUpdateQueue
             m == Head(incoming)
             rest == Tail(incoming)
  <1>1. /\ q \in Seq(VehicleMessages) /\ incoming \in Seq(VehicleMessages) /\ incoming # <<>>
        /\ packets \in Seq(Seq(VehicleMessages))
    BY DEF SimInv, SimTypeOK, Enqueue
  <1>2. q' = Append(q, m) /\ incoming' = rest /\ UNCHANGED <<networkVars, otherVehicles>>
    BY DEF Enqueue
  <1>3. m \in VehicleMessages /\ rest \in Seq(VehicleMessages) /\ Append(q, m) \in Seq(VehicleMessages)
    BY <1>1
  <1>4. SimTypeOK'
    BY <1>2, <1>3 DEF SimInv, SimTypeOK, networkVars
  <1>5. ASSUME disorder' = 0 PROVE InTurn'
    <2>1. InTurn
      BY <1>2, <1>5 DEF SimInv, networkVars
    <2>2. /\ Len(incoming) \in Nat /\ 1 \in DOMAIN incoming /\ incoming[1] = m
          /\ DOMAIN rest = 1 .. (Len(incoming) - 1)
          /\ \A i \in DOMAIN rest : i + 1 \in DOMAIN incoming /\ rest[i] = incoming[i + 1] /\ 1 < i + 1
          /\ \A i, j \in DOMAIN rest : i < j => i + 1 < j + 1
      BY <1>1
    <2>3. /\ Len(q) \in Nat /\ DOMAIN q = 1 .. Len(q) /\ DOMAIN q' = 1 .. (Len(q) + 1)
          /\ q'[Len(q) + 1] = m /\ \A i \in DOMAIN q : q'[i] = q[i]
      BY <1>1, <1>2
    <2>4. \A i \in DOMAIN q' : i \in DOMAIN q \/ i = Len(q) + 1
      BY <2>3
    <2> HIDE DEF m, rest
    <2>5. IncomingInTurn'
      <3>1. Rising(rest) /\ NotBack(rest) /\ \A k \in DOMAIN packets : Precedes(rest, packets[k])
        BY <2>1, <2>2 DEF InTurn, IncomingInTurn, Rising, NotBack, Precedes
      <3>2. QED
        BY <1>2, <3>1 DEF IncomingInTurn, Rising, NotBack, Precedes, Shown, networkVars
    <2>6. QueueInTurn'
      <3>1. Rising(q')
        <4>1. \A i \in DOMAIN q : q[i].vehicle = m.vehicle => Version(q[i]) <= Version(m)
          BY <2>1, <2>2 DEF InTurn, QueueInTurn, Precedes
        <4>2. ASSUME NEW i \in DOMAIN q', NEW j \in DOMAIN q', i < j, q'[i].vehicle = q'[j].vehicle
              PROVE  Version(q'[i]) <= Version(q'[j])
          <5>1. i \in DOMAIN q
            BY <2>3, <4>2
          <5>2. CASE j \in DOMAIN q
            BY <2>1, <2>3, <4>2, <5>1, <5>2 DEF InTurn, QueueInTurn, Rising
          <5>3. CASE j = Len(q) + 1
            BY <2>3, <4>1, <4>2, <5>1, <5>3
          <5>4. QED
            BY <2>4, <5>2, <5>3
        <4>3. QED
          BY <4>2 DEF Rising
      <3>2. NotBack(q)'
        <4>1. NotBack(q) /\ Shown(m.vehicle) <= Version(m) /\ Version(m) <= world[m.vehicle]
          BY <2>1, <2>2 DEF InTurn, QueueInTurn, IncomingInTurn, NotBack
        <4>2. ASSUME NEW i \in DOMAIN q'
              PROVE  Shown(q'[i].vehicle) <= Version(q'[i]) /\ Version(q'[i]) <= world[q'[i].vehicle]
          <5>1. CASE i \in DOMAIN q
            BY <2>3, <4>1, <5>1 DEF NotBack
          <5>2. CASE i = Len(q) + 1
            BY <2>3, <4>1, <5>2
          <5>3. QED
            BY <2>4, <5>1, <5>2
        <4>3. QED
          BY <1>2, <4>2 DEF NotBack, Shown, networkVars
      <3>3. Precedes(q', rest)
        <4>1. \A i \in DOMAIN q, j \in DOMAIN rest : q[i].vehicle = rest[j].vehicle => Version(q[i]) <= Version(rest[j])
          BY <2>1, <2>2 DEF InTurn, QueueInTurn, Precedes
        <4>2. \A j \in DOMAIN rest : m.vehicle = rest[j].vehicle => Version(m) <= Version(rest[j])
          BY <2>1, <2>2 DEF InTurn, IncomingInTurn, Rising
        <4>3. QED
          BY <2>3, <2>4, <4>1, <4>2 DEF Precedes
      <3>4. \A k \in DOMAIN packets : Precedes(q', packets[k])
        <4>1. \A k \in DOMAIN packets : Precedes(q, packets[k]) /\ Precedes(incoming, packets[k])
          BY <2>1 DEF InTurn, QueueInTurn, IncomingInTurn
        <4>2. QED
          BY <2>2, <2>3, <2>4, <4>1 DEF Precedes
      <3>5. QED
        BY <1>2, <3>1, <3>2, <3>3, <3>4 DEF QueueInTurn, Rising, Precedes, networkVars
    <2>7. PacketsInTurn' /\ ShownInTurn'
      BY <1>2, <2>1 DEF InTurn, PacketsInTurn, ShownInTurn, Rising, NotBack, Precedes, Shown, networkVars
    <2>8. QED
      BY <2>5, <2>6, <2>7 DEF InTurn
  <1>6. QED
    BY <1>4, <1>5 DEF SimInv

(* The simulation shows what it takes from the queue, and nothing that is   *)
(* behind it is older.                                                      *)
LEMMA PopInTurn ==
  ASSUME SimInv, Pop
  PROVE  /\ SimInv'
         /\ disorder = 0 => \A v \in ToSet(Vehicles) : Shown(v) <= Shown(v)'
  <1> DEFINE q == simUpdateQueue
             m == Head(q)
             rest == Tail(q)
  <1>1. /\ q \in Seq(VehicleMessages) /\ q # <<>> /\ incoming \in Seq(VehicleMessages)
        /\ packets \in Seq(Seq(VehicleMessages))
    BY DEF SimInv, SimTypeOK, Pop
  <1>2. /\ q' = rest /\ UNCHANGED <<networkVars, incoming>>
        /\ otherVehicles' = IF m.vehicle = Own THEN otherVehicles
                            ELSE [otherVehicles EXCEPT ![m.vehicle] = Update(m)]
    BY DEF Pop
  <1>3. m \in VehicleMessages /\ rest \in Seq(VehicleMessages)
    BY <1>1
  <1>4. /\ Len(q) \in Nat /\ 1 \in DOMAIN q /\ q[1] = m
        /\ DOMAIN rest = 1 .. (Len(q) - 1)
        /\ \A i \in DOMAIN rest : i + 1 \in DOMAIN q /\ rest[i] = q[i + 1] /\ 1 < i + 1
        /\ \A i, j \in DOMAIN rest : i < j => i + 1 < j + 1
    BY <1>1
  <1> HIDE DEF m, rest
  <1>5. SimTypeOK'
    <2>1. otherVehicles' \in [ToSet(Vehicles) -> {<<>>} \cup {Update(n) : n \in VehicleMessages}]
      BY <1>2, <1>3, MessageHas DEF SimInv, SimTypeOK
    <2>2. QED
      BY <1>2, <1>3, <2>1 DEF SimInv, SimTypeOK, networkVars
  <1>6. \A v \in ToSet(Vehicles) : Shown(v)' = Shown(v) \/ (v = m.vehicle /\ Shown(v)' = Version(m))
    <2> SUFFICES ASSUME NEW v \in ToSet(Vehicles)
                 PROVE  Shown(v)' = Shown(v) \/ (v = m.vehicle /\ Shown(v)' = Version(m))
      OBVIOUS
    <2>1. otherVehicles'[v] = otherVehicles[v] \/ (v = m.vehicle /\ otherVehicles'[v] = Update(m))
      BY <1>2 DEF SimInv, SimTypeOK
    <2>2. QED
      BY <1>3, <2>1, UpdateShows DEF Shown
  <1>7. ASSUME disorder = 0
        PROVE  InTurn' /\ \A v \in ToSet(Vehicles) : Shown(v) <= Shown(v)'
    <2>1. InTurn
      BY <1>7 DEF SimInv
    <2>2. /\ m.vehicle \in ToSet(Vehicles) /\ Version(m) \in Nat
          /\ Shown(m.vehicle) <= Version(m) /\ Version(m) <= world[m.vehicle]
      BY <1>3, <1>4, <2>1, MessageHas DEF InTurn, QueueInTurn, NotBack
    <2>3. \A v \in ToSet(Vehicles) : Shown(v) \in Nat /\ Shown(v) <= Shown(v)'
      BY <1>6, <2>2, ShownIs DEF SimInv
    <2>4. ASSUME NEW r \in Seq(VehicleMessages), NotBack(r),
                 \A j \in DOMAIN r : m.vehicle = r[j].vehicle => Version(m) <= Version(r[j])
          PROVE  NotBack(r)'
      <3>1. ASSUME NEW i \in DOMAIN r PROVE Shown(r[i].vehicle)' <= Version(r[i])
        <4>1. r[i].vehicle \in ToSet(Vehicles)
          BY MessageHas
        <4>2. QED
          BY <1>6, <2>4, <4>1 DEF NotBack
      <3>2. QED
        BY <1>2, <2>4, <3>1 DEF NotBack, networkVars
    <2>5. PacketsInTurn'
      <3>1. \A k \in DOMAIN packets : packets[k] \in Seq(VehicleMessages) /\ NotBack(packets[k])
        BY <1>1, <2>1 DEF InTurn, PacketsInTurn
      <3>2. \A k \in DOMAIN packets : \A j \in DOMAIN packets[k] :
              m.vehicle = packets[k][j].vehicle => Version(m) <= Version(packets[k][j])
        BY <1>4, <2>1 DEF InTurn, QueueInTurn, Precedes
      <3>3. \A k \in DOMAIN packets : NotBack(packets[k])'
        <4>1. ASSUME NEW k \in DOMAIN packets PROVE NotBack(packets[k])'
          <5>1. PICK r : r = packets[k]
            OBVIOUS
          <5>2. r \in Seq(VehicleMessages) /\ NotBack(r)
            BY <3>1, <5>1
          <5>3. \A j \in DOMAIN r : m.vehicle = r[j].vehicle => Version(m) <= Version(r[j])
            BY <3>2, <5>1
          <5>4. NotBack(r)'
            BY <2>4, <5>2, <5>3
          <5>5. r = packets'[k]
            BY <1>2, <5>1 DEF networkVars
          <5>6. QED
            BY <5>4, <5>5 DEF NotBack
        <4>2. QED
          BY <4>1
      <3>4. QED
        BY <1>2, <2>1, <3>3 DEF InTurn, PacketsInTurn, Rising, Precedes, networkVars
    <2>6. IncomingInTurn'
      <3>1. NotBack(incoming) /\ Precedes(q, incoming)
        BY <2>1 DEF InTurn, IncomingInTurn, QueueInTurn
      <3>2. PICK r : r = incoming
        OBVIOUS
      <3>3. NotBack(r)'
        BY <1>1, <1>4, <2>4, <3>1, <3>2 DEF Precedes
      <3>4. NotBack(incoming)'
        BY <1>2, <3>2, <3>3 DEF NotBack
      <3>5. QED
        BY <1>2, <2>1, <3>4 DEF InTurn, IncomingInTurn, Rising, Precedes, networkVars
    <2>7. QueueInTurn'
      <3>1. Rising(rest) /\ NotBack(rest) /\ Precedes(rest, incoming) /\ \A k \in DOMAIN packets : Precedes(rest, packets[k])
        BY <1>4, <2>1 DEF InTurn, QueueInTurn, Rising, NotBack, Precedes
      <3>2. \A j \in DOMAIN rest : m.vehicle = rest[j].vehicle => Version(m) <= Version(rest[j])
        BY <1>4, <2>1 DEF InTurn, QueueInTurn, Rising
      <3>3. PICK r : r = rest
        OBVIOUS
      <3>4. NotBack(r)'
        BY <1>3, <2>4, <3>1, <3>2, <3>3
      <3>5. NotBack(q)'
        BY <1>2, <3>3, <3>4 DEF NotBack
      <3>6. QED
        BY <1>2, <3>1, <3>5 DEF QueueInTurn, Rising, Precedes, networkVars
    <2>8. ShownInTurn'
      <3>1. ASSUME NEW v \in ToSet(Vehicles) PROVE Shown(v)' <= world'[v]
        BY <1>2, <1>6, <2>1, <2>2 DEF InTurn, ShownInTurn, networkVars
      <3>2. QED
        BY <3>1 DEF ShownInTurn
    <2>9. QED
      BY <2>3, <2>5, <2>6, <2>7, <2>8 DEF InTurn
  <1>8. QED
    BY <1>2, <1>5, <1>7 DEF SimInv, networkVars

(* Each step keeps the invariant, and no version goes back while nothing   *)
(* has overtaken.                                                          *)
LEMMA SimStep ==
  ASSUME SimInv, [SimNext]_simVars
  PROVE  /\ SimInv'
         /\ disorder = 0 => \A v \in ToSet(Vehicles) : Shown(v) <= Shown(v)'
  <1> DEFINE Forward == disorder = 0 => \A v \in ToSet(Vehicles) : Shown(v) <= Shown(v)'
  <1> SUFFICES SimInv' /\ Forward
    OBVIOUS
  <1>1. ASSUME UNCHANGED otherVehicles PROVE Forward
    BY <1>1, ShownIs, ShownStays DEF SimInv
  <1>2. ASSUME UNCHANGED <<world, packets, disorder, incoming, simUpdateQueue, otherVehicles>>
        PROVE  SimInv' /\ Forward
    <2>1. SimInv'
      BY <1>2 DEF SimInv, SimTypeOK, InTurn, PacketsInTurn, IncomingInTurn, QueueInTurn, ShownInTurn,
                  Rising, NotBack, Precedes, Shown
    <2>2. QED
      BY <1>1, <1>2, <2>1
  <1> HIDE DEF Forward
  <1>3. CASE UNCHANGED simVars
    BY <1>2, <1>3 DEF simVars, networkVars
  <1>4. CASE Push \/ Drain
    BY <1>2, <1>4 DEF Push, Drain, networkVars
  <1>5. CASE Pop
    BY <1>5, PopInTurn DEF Forward
  <1>6. CASE Receive \/ Enqueue \/ Serve
    <2>1. UNCHANGED otherVehicles
      BY <1>6 DEF Receive, Enqueue, Serve
    <2>2. QED
      BY <1>1, <1>6, <2>1, ReceiveInTurn, EnqueueInTurn, ServeInTurn
  <1>7. CASE \E v \in ToSet(Vehicles) : Change(v)
    <2>1. UNCHANGED otherVehicles
      BY <1>7 DEF Change
    <2>2. QED
      BY <1>1, <1>7, <2>1, ChangeInTurn
  <1>8. QED
    BY <1>3, <1>4, <1>5, <1>6, <1>7 DEF SimNext, Simulation, Forward

(* For any number of vehicles, versions, packets and messages: a vehicle is *)
(* moved back to where it was only if something was overtaken or repeated.  *)
THEOREM BackByDisorder == SimSpec => BackOnlyByDisorder
  <1> DEFINE Natural == \A w \in ToSet(Vehicles) : Shown(w) \in Nat
  <1>1. SimSpec => []SimInv
    BY InitInTurn, SimStep, PTL DEF SimSpec
  <1>2. SimInv => Natural
    BY ShownIs DEF SimInv
  <1>3. (SimInv => Natural)'
    BY <1>2, PTL
  <1>4. SimInv /\ [SimNext]_simVars =>
          [\A v \in ToSet(Vehicles) : Shown(v)' < Shown(v) => disorder > 0]_simVars
    <2> SUFFICES ASSUME SimInv, [SimNext]_simVars, NEW v \in ToSet(Vehicles), Shown(v)' < Shown(v)
                 PROVE  disorder > 0
      OBVIOUS
    <2>1. Shown(v) \in Nat /\ Shown(v)' \in Nat /\ disorder \in Nat
      <3>1. SimInv /\ SimInv'
        BY SimStep
      <3>2. QED
        BY <1>2, <1>3, <3>1 DEF SimInv, SimTypeOK
    <2>2. disorder # 0
      BY <2>1, SimStep
    <2>3. QED
      BY <2>1, <2>2
  <1>5. QED
    BY <1>1, <1>4, PTL DEF SimSpec, BackOnlyByDisorder
=============================================

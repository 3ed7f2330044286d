------------------------------- MODULE BasicUdp -------------------------------
(***************************************************************************)
(* The second pair: BasicUDPClient asks BasicUDPServer with one byte and    *)
(* waits for two datagrams, a text and a person, both of which the server's *)
(* operator types.  Datagrams are lost, and overtake each other; nothing is *)
(* sent again.  The operator's input is one stream, of which getline reads  *)
(* lines and >> words: what >> leaves of the line it stopped in, the next   *)
(* getline reads; and once an input has failed, all that follow do.         *)
(***************************************************************************)
EXTENDS Sequences, Naturals

CONSTANTS
    Askers,        \* the clients
    NoAsker        \* the server waits for a request

ASSUME UdpAssumption == NoAsker \notin Askers

VARIABLES
    remote,        \* remoteEndpoint, or NoAsker: the server receives
    stage,         \* what the server asks its operator for: "text" or "person"
    cin,           \* the input: "empty", "newline" (one is left over) or "failed"
    requests,      \* the requests that wait in the server's socket
    replies,       \* asker -> the replies that wait in its socket
    asker,         \* where each client is
    texts          \* history: how many texts were sent that are not empty

udpVars == <<remote, stage, cin, requests, replies, asker, texts>>

UdpInit ==
    /\ remote = NoAsker
    /\ stage = "text"
    /\ cin = "empty"
    /\ requests = <<>>
    /\ replies = [a \in Askers |-> {}]
    /\ asker = [a \in Askers |-> "send"]
    /\ texts = 0

-----------------------------------------------------------------------------
AskerStep(a, from, to) == asker[a] = from /\ asker' = [asker EXCEPT ![a] = to]

Ask(a) ==
    /\ AskerStep(a, "send", "first")
    /\ requests' \in {requests, Append(requests, a)}
    /\ UNCHANGED <<remote, stage, cin, replies, texts>>

(* receive_from, of whichever reply comes first                             *)
ReceiveReply(a) ==
    /\ \E reply \in replies[a] : replies' = [replies EXCEPT ![a] = @ \ {reply}]
    /\ AskerStep(a, "first", "second") \/ AskerStep(a, "second", "done")
    /\ UNCHANGED <<remote, stage, cin, requests, texts>>

-----------------------------------------------------------------------------
ReceiveRequest ==
    /\ remote = NoAsker /\ requests # <<>>
    /\ remote' = Head(requests)
    /\ requests' = Tail(requests)
    /\ UNCHANGED <<stage, cin, replies, asker, texts>>

(* send_to, which the network may lose                                      *)
Reply(reply) == replies' \in {replies, [replies EXCEPT ![remote] = @ \cup {reply}]}

(* getline: a line that is too long makes the input fail.                   *)
SendText ==
    /\ remote # NoAsker /\ stage = "text"
    /\ stage' = "person"
    /\ \/ cin = "empty" /\ cin' \in {"empty", "failed"} /\ texts' = texts + 1 /\ Reply("text")
       \/ cin' = (IF cin = "newline" THEN "empty" ELSE cin) /\ UNCHANGED texts /\ Reply("empty")
    /\ UNCHANGED <<remote, requests, asker>>

(* Mutant: the rest of the line is skipped.                                 *)
SendPersonAndSkip ==
    /\ remote # NoAsker /\ stage = "person"
    /\ stage' = "text"
    /\ cin' \in {cin, "failed"}
    /\ Reply("person")
    /\ remote' = NoAsker
    /\ UNCHANGED <<requests, asker, texts>>

(* cin >> name, id and email; an id that is no number makes the input fail. *)
SendPerson ==
    /\ remote # NoAsker /\ stage = "person"
    /\ stage' = "text"
    /\ cin' \in IF cin = "failed" THEN {"failed"} ELSE {"newline", "failed"}
    /\ Reply("person")
    /\ remote' = NoAsker
    /\ UNCHANGED <<requests, asker, texts>>

-----------------------------------------------------------------------------
UdpServer == ReceiveRequest \/ SendText \/ SendPerson
UdpNext == UdpServer \/ \E a \in Askers : Ask(a) \/ ReceiveReply(a)
UdpSpec == UdpInit /\ [][UdpNext]_udpVars

-----------------------------------------------------------------------------
UdpTypeOK ==
    /\ remote \in Askers \cup {NoAsker}
    /\ stage \in {"text", "person"}
    /\ cin \in {"empty", "newline", "failed"}
    /\ requests \in Seq(Askers)
    /\ replies \in [Askers -> SUBSET {"text", "empty", "person"}]
    /\ asker \in [Askers -> {"send", "first", "second", "done"}]
    /\ texts \in Nat

(* The variables keep their types, and only the first client is sent a      *)
(* text: for all that follow, getline reads what the words of the person    *)
(* before left of their line, which is nothing, or the input has failed.    *)
OnlyTheFirstGetsAText == UdpTypeOK /\ texts <= 1
=============================================================================

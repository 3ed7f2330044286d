------------------------------- MODULE BasicTcp -------------------------------
(***************************************************************************)
(* The first of the example pairs: BasicServer greets one tcp client after  *)
(* the other with the time of day and prints the line it answers;           *)
(* BasicClient prints what it reads and sends a line its user types, until  *)
(* it reads the end of the stream.  The users type when they like, an empty *)
(* line too, and kill their clients.                                        *)
(***************************************************************************)
EXTENDS Sequences

CONSTANTS
    Clients,
    NoClient       \* nobody is being served

ASSUME TcpAssumption == NoClient \notin Clients

VARIABLES
    serving,       \* whose line the server is reading, or NoClient: it accepts
    backlog,       \* the clients that have connected and are not accepted yet
    pc,            \* where each client is
    greeting,      \* clients with an unread greeting
    line,          \* clients whose line is on its way to the server
    closed,        \* clients whose socket the server has closed
    typed          \* history: what a client's user has typed to the server

tcpVars == <<serving, backlog, pc, greeting, line, closed, typed>>

TcpInit ==
    /\ serving = NoClient
    /\ backlog = <<>>
    /\ pc = [c \in Clients |-> "start"]
    /\ greeting = {} /\ line = {} /\ closed = {}
    /\ typed = [c \in Clients |-> "nothing yet"]

ClientStep(c, from, to) == pc[c] = from /\ pc' = [pc EXCEPT ![c] = to]

-----------------------------------------------------------------------------
Connect(c) ==
    /\ ClientStep(c, "start", "read")
    /\ backlog' = Append(backlog, c)
    /\ UNCHANGED <<serving, greeting, line, closed, typed>>

(* read_some returns the greeting, or the end of the stream                 *)
ReadGreeting(c) ==
    /\ c \in greeting /\ ClientStep(c, "read", "type")
    /\ greeting' = greeting \ {c}
    /\ UNCHANGED <<serving, backlog, line, closed, typed>>

ReadEof(c) ==
    /\ c \in closed \ greeting /\ ClientStep(c, "read", "typeLast")
    /\ UNCHANGED <<serving, backlog, greeting, line, closed, typed>>

(* getline and write: of an empty line nothing is written.                  *)
TypeLine(c) ==
    /\ ClientStep(c, "type", "read")
    /\ \/ typed' = [typed EXCEPT ![c] = "a line"] /\ line' = line \cup {c}
       \/ typed' = [typed EXCEPT ![c] = "an empty line"] /\ UNCHANGED line
    /\ UNCHANGED <<serving, backlog, greeting, closed>>

(* After the end of the stream the user is asked once more, for nothing.    *)
TypeLast(c) ==
    /\ ClientStep(c, "typeLast", "done")
    /\ UNCHANGED <<serving, backlog, greeting, line, closed, typed>>

Kill(c) ==
    /\ pc[c] \notin {"start", "done"}
    /\ pc' = [pc EXCEPT ![c] = "done"]
    /\ UNCHANGED <<serving, backlog, greeting, line, closed, typed>>

-----------------------------------------------------------------------------
(* accept and write                                                         *)
Accept ==
    /\ serving = NoClient /\ backlog # <<>>
    /\ serving' = Head(backlog)
    /\ backlog' = Tail(backlog)
    /\ greeting' = greeting \cup {Head(backlog)}
    /\ UNCHANGED <<pc, line, closed, typed>>

(* Mutant: a client that has gone is still read from.                       *)
ReadLineOnly ==
    /\ serving \in line
    /\ line' = line \ {serving}
    /\ closed' = closed \cup {serving}
    /\ serving' = NoClient
    /\ UNCHANGED <<backlog, pc, greeting, typed>>

(* read_some, of a line or of the end; the socket goes out of scope.        *)
ReadLine ==
    /\ serving # NoClient
    /\ serving \in line \/ pc[serving] = "done"
    /\ line' = line \ {serving}
    /\ closed' = closed \cup {serving}
    /\ serving' = NoClient
    /\ UNCHANGED <<backlog, pc, greeting, typed>>

-----------------------------------------------------------------------------
TcpServer == Accept \/ ReadLine
User(c) == Connect(c) \/ TypeLine(c) \/ TypeLast(c) \/ Kill(c)
TcpNext == TcpServer \/ \E c \in Clients : User(c) \/ ReadGreeting(c) \/ ReadEof(c)

-----------------------------------------------------------------------------
(* Server and client read from each other                                   *)
ReadFromEachOther(c) ==
    serving = c /\ c \notin line /\ pc[c] = "read" /\ c \notin greeting

(* The server is held up by a user who does not type, or by one who sent it *)
(* an empty line, after which the two wait for each other.                  *)
HeldUp == \E c \in Clients :
    serving = c /\ \/ pc[c] = "type"
                   \/ ReadFromEachOther(c) /\ typed[c] = "an empty line"

(* A client that reads is answered, by a greeting or the end of the stream, *)
(* whatever became of those before it, or somebody holds the server up.     *)
Answered == \A c \in Clients : pc[c] = "read" ~> pc[c] # "read" \/ HeldUp
=============================================================================

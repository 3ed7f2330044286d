CONSTANTS
    Clients = {c1, c2, c3}
    NoClient = NoClient
    Askers = {a1, a2, a3}
    NoAsker = NoAsker
    Endpoints = {e1, e2}
    MaxSends = 3
    MaxWaiting = 3
SPECIFICATION Spec
INVARIANTS  ShownOnlyAfterAReturn
PROPERTIES Answered
\* The clients end, and a lost datagram is waited for in vain.
CHECK_DEADLOCK FALSE

CONSTANTS
    Connections <- MCConnections
    Ids <- MCIds
    Messages <- MCMessages
    Clients = {a, b}
    Addresses = {a, b}
    End = End
    Freed = Freed
    Hang = Hang
    NoProfile = NoProfile
    NoNumber = NoNumber
    NoMessage = NoMessage
    MaxQueue = 1
    MaxCalls = 2
    MaxReplies = 1
SPECIFICATION Spec
INVARIANTS NumberHandedOnOnce
PROPERTIES NumberBecomesKnown ForeignOnlyFromAnIterationAhead
\* After a hang or undefined behaviour there is no next step.
CHECK_DEADLOCK FALSE

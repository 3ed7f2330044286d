CONSTANTS
    Connections <- MCConnections
    Ids <- MCIds
    Messages <- MCMessages
    Addresses = {a1}
    End = End
    Freed = Freed
    Hang = Hang
    MaxRemovals = 1
SPECIFICATION CallsSpec
INVARIANTS CountsAgree HangsUntilAConnectionGoes
\* After a hang or undefined behaviour there is no next step.
CHECK_DEADLOCK FALSE

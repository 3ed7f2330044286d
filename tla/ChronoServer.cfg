CONSTANTS
    Variants = {"server", "test"}
    Connections <- MCConnections
    Completeness <- MCCompleteness
    MaxInbox = 1
    MaxOutbox = 1
    MaxCalls = 1
SPECIFICATION Spec
INVARIANTS UpdatesFindTheirVehicle ClosedLeavesNothing CountShortByTheLost
PROPERTIES GoneClientLeaves
\* When every client has left there is no next step.
CHECK_DEADLOCK FALSE

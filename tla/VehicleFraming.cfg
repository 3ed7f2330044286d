CONSTANTS
    Longs <- MCLongs
    Beating = TRUE
    MaxVehicles = 2
    MaxGroups = 1
    MaxBeats = 1
SPECIFICATION Spec
INVARIANTS  RefusedForCause
PROPERTIES LeavingEndsThread
\* The connection comes to its end.
CHECK_DEADLOCK FALSE

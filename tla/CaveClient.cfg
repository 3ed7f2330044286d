CONSTANTS
    Agents <- MCTrio
    Places = {"loc1", "loc2", "loc3"}
    Near <- MCNear
    MaxMessages <- MCTrioMessages
    Vehicles <- MCVehicles
    Own = 1
    MaxVersion = 2
    MaxInFlight = 2
    MaxDisorder = 1
SPECIFICATION MCSpec
INVARIANTS InOrder 
PROPERTIES  DrainEnds
\* A process that was ended by a fatal parse takes no further step.
CHECK_DEADLOCK FALSE

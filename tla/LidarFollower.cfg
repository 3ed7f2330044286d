CONSTANTS
    HorzSamples = 0
    VertSamples = 2
    MinRange = 1
    MaxRange = 3
    Period = 2
    StepSizes = {1, 2}
    Distances = {1, 2}
    Outputs <- MCOutputs
    Bodies = {vehicle}
    NoBody = NoBody
SPECIFICATION LidarSpec
INVARIANTS ReadsTheLastScan BrakesTheSecondTime
PROPERTIES TurnsAheadAfterATouch

CONSTANTS
    Variants = {"server"}
    Connections <- MCConnections
    Completeness <- MCCompleteness
    MaxInbox = 1
    MaxOutbox = 1
    MaxCalls = 1
    Programs = {1}
    Followers = {1}
SPECIFICATION ClientSpec
 
PROPERTIES DroppedOnlyAfterLeaving
\* When every client has left there is no next step.
CHECK_DEADLOCK FALSE

\* Both handlers, from construction to destruction at any moment.
CONSTANTS
    Kinds = {"server", "client"}
    NoThread = NoThread
    MaxMessages = 2
SPECIFICATION Spec
 
PROPERTIES AcceptorStarts  
\* A destructor that waits for ever, or has returned, leaves nothing to do.
CHECK_DEADLOCK FALSE

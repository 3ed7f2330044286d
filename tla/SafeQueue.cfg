\* Two producers and two consumers that race with each other and with dumpThreads.
CONSTANTS
    Producers = {p1, p2}
    Consumers = {c1, c2}
    Closer = closer
    NoThread = NoThread
    NoItem = NoItem
    MaxSends = 2
SPECIFICATION Spec
INVARIANTS TypeOK NoItemForgotten PopRemovesTheCopy OneCallAfterDump
PROPERTIES ImplementsFifo
\* Blocked consumers with nothing left to send, or threads released by dump, may stop.
CHECK_DEADLOCK FALSE

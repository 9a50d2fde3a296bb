SPECIFICATION FairSpec
CONSTANTS
    Thread = {main, net}
    Main = main
    MaxCalls = 3
    QueueMax = 2
    ServerErrors = TRUE
    NULL = NULL
INVARIANTS
    Atomic
    InOrder
    ReadsOwnWrites
    NoneMissedButLost
PROPERTIES
    CallsReturn

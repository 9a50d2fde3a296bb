SPECIFICATION Spec
CONSTANTS
    Thread = {main}
    Main = main
    MaxCalls = 2
    QueueMax = 2
    ServerErrors = TRUE
    NULL = NULL
INVARIANTS
    NoneMissed

SPECIFICATION FairSpec
CONSTANTS
    b1 = b1
    b2 = b2
    i1 = i1
    i2 = i2
    Base = {b1, b2}
    Instance = {i1, i2}
    Parent <- TwoInstances
    Worker = {w1, w2}
    QueueMax = 2
    NULL = NULL
INVARIANTS
    PendingExact
    MainAlone
    NoTwoUpdates
    NoDeadMap
PROPERTIES
    ImplementsMapTick
    MainGoesOn

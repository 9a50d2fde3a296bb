SPECIFICATION FairSpec
CONSTANTS
    Capacity = 3
    Sizes = {1, 2, 3}
    MaxPackets = 4
INVARIANTS
    NotStranded
    AllAccountedFor
    OvertakesDelayedOnly
CHECK_DEADLOCK FALSE
PROPERTIES
    AllSent

SPECIFICATION Spec
CONSTANTS
    Player = {p1, p2, p3, p4}
    Group = {g1, g2}
    MaxInstanceId = 2
    MaxHandlers = 8
    NULL = NULL
SYMMETRY Symmetry
CHECK_DEADLOCK FALSE
INVARIANTS
    SavesSound
    BoundForGoodSound
PROPERTIES
    BindForGoodKept

SPECIFICATION Spec
CONSTANTS
    Account = {a1, a2, a3}
    Session = {s1, s2, s3}
    GMs = {a3}
    Limits <- LimitOne
    Tolerance = TRUE
    MaxLogins = 1
    NULL = NULL
SYMMETRY Symmetry
INVARIANTS
    TableSound
    LoadingHasReason
    QueueSound
    PositionsTold
    WorkConserving
    Capacity
PROPERTIES
    FirstComeFirstServed

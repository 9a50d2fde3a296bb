SPECIFICATION FairSpec
CONSTANTS
    MaxSessions = 3
INVARIANTS
    RefsAccounted
    NothingDangles
PROPERTIES
    ClosedIsFreed

SPECIFICATION Spec
CONSTANTS
    a1 = a1
    a2 = a2
    a3 = a3
    h1 = h1
    h2 = h2
    Alliance = {a1, a2, a3}
    Horde = {h1, h2}
    Groups <- AloneOrAlliance
    MinPlayersPerTeam = 1
    MaxPlayersPerTeam = 2
    MaxHandlers = 6
    NULL = NULL
INVARIANTS
    InvitedExact
    TeamLimit
    SlotsAgree
    InvitationEnds
PROPERTIES
    FairTeams
    StaysQueued
CHECK_DEADLOCK FALSE

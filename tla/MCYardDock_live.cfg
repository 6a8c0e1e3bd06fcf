SPECIFICATION LiveSpec
CONSTANTS
    c1 = c1
    d1 = d1
    d2 = d2
    t1 = t1
    Trailer = {t1}
    Outbound = {t1}
    Door = {d1, d2}
    Compatible <- MCOnlyDoor
    Service <- MCService
    Eta = {0, 1}
    Clerk = {c1}
    Task = {"ARRIVE", "DOCK", "FINISH", "DEPART", "DELIVER", "REASSIGN"}
    Grace = 1
    Horizon = 1
    MaxTime = 1
    MaxMoves = 1
    MaxEtaChanges = 1
    MaxBlocks = 1
    MaxFailures = 1
CHECK_DEADLOCK FALSE
INVARIANTS
    TypeOK
PROPERTIES
    ReplanSparesOverrides
    EventuallyPlannedOrAlerted

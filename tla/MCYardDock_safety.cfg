SPECIFICATION Spec
CONSTANTS
    c1 = c1
    c2 = c2
    d1 = d1
    d2 = d2
    t1 = t1
    t2 = t2
    Trailer = {t1, t2}
    Outbound = {}
    Door = {d1, d2}
    Compatible <- MCAnyDoor
    Service <- MCService
    Eta = {0, 1}
    Clerk = {c1, c2}
    Task = {"ARRIVE", "DOCK", "FINISH", "REASSIGN"}
    Grace = 1
    Horizon = 2
    MaxTime = 1
    MaxMoves = 1
    MaxEtaChanges = 0
    MaxBlocks = 0
    MaxFailures = 0
SYMMETRY Alike
CHECK_DEADLOCK FALSE
CONSTRAINT Few
INVARIANTS
    OneCurrentAssignment
    NoDoubleBooking
    NoDoorHeldByTheServed
    GoodsMovedOnce

SPECIFICATION FairSimSpec
CONSTANTS
    Order = {"o1"}
    Line = {"l1"}
    Ordered = 1
    MaxPick = 1
    Truck = {1, 2}
    Loop = "loop"
    Button = {"button"}
    Clerk = {"c1"}
    Client = {"loop", "button", "c1"}
    PO = {"p1", "p2"}
    Unlabelled = {"p2"}
    Agendas <- MCAgendas
    MaxOverlaps = 1
CHECK_DEADLOCK FALSE
INVARIANTS
    OrderFollowsTruck
    IssuedIsLoaded
    NothingLeavesUnissued
    NoRunawayBilling
    PaidOnce
PROPERTIES
    
    BilledAndPaid

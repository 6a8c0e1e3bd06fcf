SPECIFICATION FairSpec
CONSTANTS
    PO = {"p1"}
    NoPO = "none"
    Order <- MCOrder
    FirstStatus = "CREATED"
    Invoice = {1, 2}
    Bill <- MCOneBill
    Lot = {100}
    Clerk = {"c1", "c2"}
    Task = {"CONFIRM", "APPROVE", "REJECT", "PAY"}
    InOrder = FALSE
    MaxShipments = 1
    MaxReceipts = 1
    MaxFailures = 1
CHECK_DEADLOCK FALSE
INVARIANTS
    PaymentFollowsRuling
PROPERTIES
    EventuallyMatched

SPECIFICATION Spec
CONSTANTS
    PO = {"p1"}
    NoPO = "none"
    Order <- MCOrder
    FirstStatus = "CREATED"
    Invoice = {1, 2}
    Bill <- MCOneBill
    Lot = {100}
    Clerk = {}
    Task = {"APPROVE", "REJECT", "PAY"}
    InOrder = TRUE
    MaxShipments = 1
    MaxReceipts = 1
    MaxFailures = 0
CHECK_DEADLOCK FALSE
INVARIANTS
    TouchlessPaysOnce

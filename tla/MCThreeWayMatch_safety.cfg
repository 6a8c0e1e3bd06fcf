SPECIFICATION Spec
CONSTANTS
    PO = {"p1"}
    NoPO = "none"
    Order <- MCOrder
    FirstStatus = "CREATED"
    Invoice = {1, 2}
    Bill <- MCTwoBills
    Lot = {50, 100}
    Clerk = {"c1"}
    Task = {"APPROVE", "REJECT", "PAY"}
    InOrder = FALSE
    MaxShipments = 1
    MaxReceipts = 2
    MaxFailures = 1
CHECK_DEADLOCK FALSE
INVARIANTS
    TypeOK
    OneMatchPerInvoice
    NoLostPairing
    OnePaymentPerOpening

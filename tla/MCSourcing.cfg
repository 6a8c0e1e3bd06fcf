SPECIFICATION FairSpec
CONSTANTS
    Requisition = {"r1", "r2"}
    Suppliers <- MCSuppliers
    BasePrice = 800000
    Roll <- MCRoll
    Clerk = {"c1"}
    MaxOrders = 2
    MaxShipments = 2
    MaxFaults = 2
    MaxOverlaps = 1
CHECK_DEADLOCK FALSE
INVARIANTS
    OnePOPerRequisition
    AgentShipsFirst
PROPERTIES
    EveryOrderSettled

SPECIFICATION Spec
CONSTANTS
    Event <- MCEvent
    Request <- MCRequest
    Group <- MCOneGroup
    Wanted <- MCWanted
    Follow <- MCFollow
    Consumer = {"m1"}
    GroupOf <- MCGroupOf
    Api = {"a1"}
    Reconciler = {"r1"}
    ReadCount = 2
    Limit = 1
    MaxFaults = 0
    MaxRestarts = 1
CHECK_DEADLOCK FALSE
INVARIANTS
    NoLostEvent

SPECIFICATION FairSpec
CONSTANTS
    Event <- MCEvent
    Request <- MCRequest
    Group <- MCTwoGroups
    Wanted <- MCWanted
    Follow <- MCFollow
    Consumer = {"m1", "d1"}
    GroupOf <- MCGroupOf
    Api = {"a1"}
    Reconciler = {"r1"}
    ReadCount = 2
    Limit = 1
    MaxFaults = 1
    MaxRestarts = 0
CHECK_DEADLOCK FALSE
PROPERTIES
    EveryEventHandled
    PendingDrains

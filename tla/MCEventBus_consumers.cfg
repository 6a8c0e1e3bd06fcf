SPECIFICATION Spec
CONSTANTS
    Event <- MCEvent
    Request <- MCRequest
    Group <- MCOneGroup
    Wanted <- MCWanted
    Follow <- MCFollow
    Consumer = {"m1", "m2"}
    GroupOf <- MCGroupOf
    Api = {"a1"}
    Reconciler = {"r1"}
    ReadCount = 2
    Limit = 1
    MaxFaults = 2
    MaxRestarts = 1
CHECK_DEADLOCK FALSE
INVARIANTS
    TypeOK
    MarkerMeansOneEffect
    OnlyCommittedInStream
    FollowUpsCommitWithEffect
    NoLostEventWhileRedisLives
PROPERTIES
    ImplementsDelivery

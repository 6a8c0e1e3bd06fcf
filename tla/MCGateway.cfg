SPECIFICATION FairSpec
CONSTANTS
    Trailer = {"t1"}
    Screen = {"s1"}
    Tracker = {"k1"}
    TrailerOf <- MCTrailerOf
    InboxSize = 1
    MaxEvents = 2
    MaxFaults = 1
INVARIANTS
    NoSilentGap
PROPERTIES
    TrackerCatchesUp

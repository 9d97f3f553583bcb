SPECIFICATION FairSpec
CONSTANTS
    o1 = o1
    o2 = o2
    Owners = {o1, o2}
    NoOwner = NoOwner
    N = 2
    Quorum = 2
    TTL = 2
    Drift = 0
    Pause = 0
    ExtendTTL = 2
    Second = 1
    MaxRetries = 1
    MaxLate = 1
    Overwrites = FALSE
    Faults = {}
INVARIANT NothingLeft
PROPERTY LockReturns
CHECK_DEADLOCK FALSE

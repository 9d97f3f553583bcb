SPECIFICATION Spec
CONSTANTS
    o1 = o1
    o2 = o2
    Owners = {o1, o2}
    NoOwner = NoOwner
    N = 3
    Quorum = 2
    TTL = 2
    Drift = 1
    Pause = 1
    ExtendTTL = 2
    Second = 2
    MaxRetries = 0
    MaxLate = 1
    Overwrites = FALSE
    Faults = {"Timeout", "LateSet", "LateRelease"}
INVARIANTS MutualExclusion
PROPERTIES KeyIsKept
SYMMETRY Symmetry
CHECK_DEADLOCK FALSE

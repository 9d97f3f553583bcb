SPECIFICATION FairSpec
CONSTANTS
    f1 = f1
    f2 = f2
    c1 = c1
    c2 = c2
    a = a
    b = b
    c = c
    Filters = {f1}
    Callers = {c1, c2}
    Items = {a, b, c}
    Bits = {1, 2, 3, 4}
    Uses <- MCUses
    Positions <- MCPositions
    Batches <- MCBatches
    Previous <- MCPrevious
    CheckEvery = 1
    MaxItems = 2
    MaxRetryAttempts = 3
    MaxLate = 1
    Faults = {"Cancel", "Fail", "Late", "Expire", "Crash"}
INVARIANTS NoFalseNegative Capacity StoreErrorsTell
PROPERTIES CallsReturn
CHECK_DEADLOCK FALSE

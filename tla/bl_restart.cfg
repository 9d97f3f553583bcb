SPECIFICATION Spec
CONSTANTS
    f1 = f1
    f2 = f2
    c1 = c1
    c2 = c2
    a = a
    b = b
    c = c
    Filters = {f1}
    Callers = {c1}
    Items = {a, b}
    Bits = {1, 2, 3, 4}
    Uses <- MCUses
    Positions <- MCPositions
    Batches = {}
    Previous = {}
    CheckEvery = 1
    MaxItems = 2
    MaxRetryAttempts = 3
    MaxLate = 0
    Faults = {"Crash"}
PROPERTY RestartRestores
CHECK_DEADLOCK FALSE

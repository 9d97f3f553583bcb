SPECIFICATION CSpec
CONSTANTS
    p1 = p1
    c1 = c1
    PlainCallers = {p1}
    CtxCallers = {c1}
    Threshold = 2
    HalfOpenMax = 1
    MaxRequests = 4
    Admin = {"ForceOpen", "Reset"}
    StatLoops = {c1}
    MaxAttempts = 2
    HasTimeout = TRUE
    Cancellable = {c1}
    Permanent = {"fatal"}
    OpErrors = {"transient", "fatal"}
    TypeOf <- MCTypeOf
INVARIANTS Accounting LoopOutcomes BooksAgree
CHECK_DEADLOCK FALSE

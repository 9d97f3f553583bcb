SPECIFICATION FairSpec
CONSTANTS
    a = a
    b = b
    w1 = w1
    w2 = w2
    NoOp = NoOp
    Ops = {a, b}
    SameID = {}
    Workers = {w1, w2}
    QueueSize = 1
    MaxRetries = 1
    Events = {"Clear", "Probe", "Close", "Force"}
INVARIANTS OneOwner GaugeExact RetriedIsListed NoWorkerCrash
PROPERTIES ImplementsLedger Resolves CloseStops
CHECK_DEADLOCK FALSE

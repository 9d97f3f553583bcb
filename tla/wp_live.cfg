SPECIFICATION FairSpec
CONSTANTS
    j1 = j1
    j2 = j2
    NoJob = NoJob
    Jobs = {j1, j2}
    MinWorkers = 1
    MaxWorkers = 3
    QueueSize = 1
    ScaleUpThreshold = 1
    ScaleDownThreshold = 1
    Steps = {1}
    MaxCreated = 2
    Events = {"Scale", "Close"}
INVARIANT QueueGauge
PROPERTIES ImplementsJobLine JobsComplete CloseReturns
CHECK_DEADLOCK FALSE

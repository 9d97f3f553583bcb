SPECIFICATION Spec
CONSTANTS
    j1 = j1
    j2 = j2
    NoJob = NoJob
    Jobs = {j1}
    MinWorkers = 1
    MaxWorkers = 3
    QueueSize = 1
    ScaleUpThreshold = 1
    ScaleDownThreshold = 1
    Steps = {2}
    MaxCreated = 3
    Events = {"AutoScale", "Scale", "Close", "Force"}
INVARIANTS WorkerGauges WorkerLimits ChannelsClosedLast
CHECK_DEADLOCK FALSE

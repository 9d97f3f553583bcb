SPECIFICATION FairSpec
CONSTANTS
    j1 = j1
    j2 = j2
    NoJob = NoJob
    Jobs = {j1, j2}
    MinWorkers = 1
    MaxWorkers = 1
    QueueSize = 2
    ScaleUpThreshold = 1
    ScaleDownThreshold = 1
    Steps = {1}
    MaxCreated = 1
    Events = {}
PROPERTY AllJobsComplete
CHECK_DEADLOCK FALSE

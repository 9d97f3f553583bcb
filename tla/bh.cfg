SPECIFICATION FairSpec
CONSTANTS
    c1 = c1
    c2 = c2
    c3 = c3
    Callers = {c1, c2, c3}
    MaxConcurrentCalls = 1
    MaxQueueSize = 1
    Controls = {"Close", "Force", "ResetMetrics"}
INVARIANTS ConcurrencyLimit CounterCoversRunning
PROPERTIES ImplementsAdmission WaitEnds GracefulClose
CHECK_DEADLOCK FALSE

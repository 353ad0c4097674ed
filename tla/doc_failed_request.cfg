SPECIFICATION Spec
CONSTANTS
    Task = {t1}
    MaxRetry = 1
    MaxFaults = 1
    MaxQueueSize = 1
    Concurrency = 1
    SlowPlatform = FALSE
    MaxCrashes = 0
INVARIANT FailedRequestIsMarked
CHECK_DEADLOCK FALSE

\* A synchronous prediction that outlasts TASK_TIMEOUT, without any failure.
SPECIFICATION CheckedSpec
CONSTANTS
    Task = {t1}
    NoTask = NoTask
    MaxRetry = 1
    MaxFaults = 0
    MaxQueueSize = 1
    Concurrency = 1
    SlowPlatform = TRUE
    MaxCrashes = 0
INVARIANT OnlyFailuresCondemned
CHECK_DEADLOCK FALSE

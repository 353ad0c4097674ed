\* The check and a cancel handler at one record, without any failure.
SPECIFICATION CheckedSpec
CONSTANTS
    Task = {t1}
    NoTask = NoTask
    MaxRetry = 1
    MaxFaults = 0
    MaxQueueSize = 1
    Concurrency = 1
    SlowPlatform = FALSE
    MaxCrashes = 0
INVARIANT CondemnedIsUnchanged
CHECK_DEADLOCK FALSE

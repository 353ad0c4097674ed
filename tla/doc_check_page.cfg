\* Two requests admitted at once, one entry more than a page holds.
SPECIFICATION CheckedSpec
CONSTANTS
    Task = {t1, t2}
    NoTask = NoTask
    MaxRetry = 1
    MaxFaults = 0
    MaxQueueSize = 1
    Concurrency = 1
    SlowPlatform = FALSE
    MaxCrashes = 0
INVARIANT CondemnedIsDequeued
CHECK_DEADLOCK FALSE

\* One task, every kind of failure twice, deadlines and a restart.
SPECIFICATION Spec
CONSTANTS
    Task = {t1}
    MaxRetry = 1
    MaxFaults = 2
    MaxQueueSize = 1
    Concurrency = 1
    SlowPlatform = TRUE
    MaxCrashes = 1
INVARIANTS
    TypeOK
    AttemptsMatchRetries
    CanceledIsDequeued
    CanceledNeverRan
    UndisturbedRunsOnce
    ConfirmedCancelHolds
    NoOrphan
    AcceptedIsLinked
PROPERTIES
    LifecycleHolds
    GoneStaysGone
    EntriesAdvance
CHECK_DEADLOCK FALSE

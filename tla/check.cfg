\* One task of either kind, one failure, a restart, with the periodic check.
SPECIFICATION RoundFairSpec
CONSTANTS
    Task = {t1}
    NoTask = NoTask
    MaxRetry = 1
    MaxFaults = 1
    MaxQueueSize = 1
    Concurrency = 1
    SlowPlatform = FALSE
    MaxCrashes = 1
INVARIANTS
    CheckedTypeOK
    HealthyTaskSpared
    SyncResultStands
    CheckedNoOrphan
    CheckedCancelHolds
    LostIsSettled
PROPERTIES
    CheckedLifecycleHolds
    GivenUpNeverRuns
    EveryRecordSettles
CHECK_DEADLOCK FALSE

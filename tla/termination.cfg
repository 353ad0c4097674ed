\* Two tasks, one worker, one place in the queue, either kind of redis.
SPECIFICATION TerminationFairSpec
CONSTANTS
    Task = {t1, t2}
    MaxRetry = 1
    MaxFaults = 0
    MaxQueueSize = 1
    Concurrency = 1
    SlowPlatform = FALSE
    MaxCrashes = 0
INVARIANTS
    TerminationTypeOK
    HandedOver
    PromisedIsSettled
PROPERTIES
    StopProtectsResults
    TerminationEnds
CHECK_DEADLOCK FALSE

\* One task, one failure, deadlines and a restart, under fairness.
SPECIFICATION FairSpec
CONSTANTS
    Task = {t1}
    MaxRetry = 1
    MaxFaults = 1
    MaxQueueSize = 2
    Concurrency = 1
    SlowPlatform = TRUE
    MaxCrashes = 1
PROPERTIES
    QueueDrains
    UndisturbedSettles
CHECK_DEADLOCK FALSE

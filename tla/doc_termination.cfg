\* One task, a local redis, no failure.
SPECIFICATION TerminationSpec
CONSTANTS
    Task = {t1}
    MaxRetry = 1
    MaxFaults = 0
    MaxQueueSize = 1
    Concurrency = 1
    SlowPlatform = FALSE
    MaxCrashes = 0
PROPERTY ResultsSurviveShutdown
CHECK_DEADLOCK FALSE

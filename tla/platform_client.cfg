\* Each of the clients, with a request timeout of three seconds.
SPECIFICATION FairSpec
CONSTANTS
    RequestTimeout = 3
    TaskTimeout = 3
    MaxMessages = 3
    MaxStall = 2
INVARIANTS
    TypeOK
    DurationBounded
    SuccessIsReal
    ExecutionsBounded
PROPERTY PredictReturns
CHECK_DEADLOCK FALSE

\* One job whose poll is answered 429.
SPECIFICATION Spec
CONSTANTS
    RequestTimeout = 2
    TaskTimeout = 2
    MaxMessages = 1
    MaxStall = 0
INVARIANT ThrottledIsRetried
CHECK_DEADLOCK FALSE

\* One write with the three attempts of webhook.go, every failure at each.
SPECIFICATION ClientFairSpec
CONSTANT
    Attempts = 3
INVARIANTS
    ClientTypeOK
    RefusalIsFinal
PROPERTIES
    ContractHolds
    EveryCallReturns
CHECK_DEADLOCK FALSE

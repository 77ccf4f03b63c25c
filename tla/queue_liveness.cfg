SPECIFICATION PoolFairSpec
CONSTANTS
    Keys = {k1, k2}
    Workers = {w1, w2}
    Callers = {c1}
    MaxAttempts = 2
    RetryBase = 1
    MinFresh = 1
    Expiries = {1}
    NoExpiry = NoExpiry
    NoKey = NoKey
    MaxTime = 1
    MaxFaults = 1
    Lifetimes = {0, 2}
    Margin = 1
    NoWorker = NoWorker
INVARIANTS
    PoolTypeOK
    FetchedOnlyWhenStale
    LockIsUsed
PROPERTIES
    ImplementsQueue
    EveryJobEnds

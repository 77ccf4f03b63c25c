SPECIFICATION Spec
CONSTANTS
    Keys = {k1}
    Workers = {w1}
    Callers = {c1}
    MaxAttempts = 2
    RetryBase = 1
    MinFresh = 1
    Expiries = {1, 4}
    NoExpiry = NoExpiry
    NoKey = NoKey
    MaxTime = 2
    MaxFaults = 0
INVARIANTS
    RejectedTokenIsStale

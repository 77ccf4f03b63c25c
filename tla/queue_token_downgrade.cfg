SPECIFICATION Spec
CONSTANTS
    Keys = {k1}
    Workers = {w1}
    Callers = {c1, c2}
    MaxAttempts = 2
    RetryBase = 1
    MinFresh = 1
    Expiries = {1, 2, 4}
    NoExpiry = NoExpiry
    NoKey = NoKey
    MaxTime = 1
    MaxFaults = 0
PROPERTIES
    TokenNeverDowngraded

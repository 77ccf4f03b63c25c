SPECIFICATION FairSpec
CONSTANTS
    Requests = {r1, r2}
    Workers = {w1}
    Key = k1
    MaxAttempts = 2
    CopyOnHeadMiss = TRUE
    VerifyETag = FALSE
    Ops = {"GET", "POST"}
    Tokens = {"none", "undated"}
    MaxFaults = 1
INVARIANTS
    SucceededMeansMigrated
PROPERTIES
    EveryRequestAnswered
    FallbackMigrates

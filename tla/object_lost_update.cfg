SPECIFICATION Spec
CONSTANTS
    Requests = {r1, r2}
    Workers = {w1}
    Key = k1
    MaxAttempts = 2
    CopyOnHeadMiss = TRUE
    VerifyETag = FALSE
    Ops = {"GET", "PUT", "POST"}
    Tokens = {"none"}
    MaxFaults = 0
PROPERTIES
    WritesSurviveMigration

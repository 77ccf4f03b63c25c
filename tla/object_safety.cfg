SPECIFICATION Spec
CONSTANTS
    Requests = {r1, r2}
    Workers = {w1}
    Key = k1
    MaxAttempts = 2
    CopyOnHeadMiss = FALSE
    VerifyETag = TRUE
    Ops = {"GET", "HEAD", "PUT", "POST", "DELETE", "LIST", "SCAN"}
    Tokens = {"dated", "undated"}
    MaxFaults = 1
SYMMETRY Symmetry
VIEW View
INVARIANTS
    TypeOK
PROPERTIES
    RepliesAreHonest
    QuietForGood
    GoneForGood

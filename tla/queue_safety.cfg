SPECIFICATION Spec
CONSTANTS
    Keys = {k1, k2}
    Workers = {w1, w2}
    Callers = {c1, c2}
    MaxAttempts = 2
    RetryBase = 1
    MinFresh = 1
    Expiries = {1, 2}
    NoExpiry = NoExpiry
    NoKey = NoKey
    MaxTime = 1
    MaxFaults = 1
SYMMETRY Symmetry
INVARIANTS
    TypeOK
    ExclusiveClaim
    HolderSeesItsClaim
    AttemptsBounded
    OrphanNeedsFault
    TokenHasExpiry
    IInv
PROPERTIES
    FinalStatusKept
    CallerIdentityKept
    ImplementsLifecycle

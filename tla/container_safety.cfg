SPECIFICATION Spec
CONSTANTS
    Requests = {r1, r2}
    Copiers = {c1}
    Dated = {r1, r2}
    Headers = {h1}
    MaxFaults = 1
SYMMETRY Symmetry
VIEW View
INVARIANTS
    TypeOK
PROPERTIES
    HeadersCarried
    ClientHeadersKept
    EnsureFailsForCause
    RepliesAreHonest
    GoneForGood

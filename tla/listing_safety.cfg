SPECIFICATION Spec
CONSTANTS
    NameCount = 4
    ClientLimits = {0, 2}
    NoLimit = 0
    Cap = 2
    ScanLimit = 2
    MaxFaults = 1
    MaxChanges = 1
INVARIANTS
    TypeOK
    ListingComplete
    ScanComplete
PROPERTIES
    CephPreferred

SPECIFICATION Spec
CONSTANTS
    NameCount = 2
    ClientLimits = {2}
    NoLimit = 0
    Cap = 2
    ScanLimit = 2
    MaxFaults = 1
    MaxChanges = 0
INVARIANTS
    ListingNotPartial

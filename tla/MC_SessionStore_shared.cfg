SPECIFICATION Spec
CONSTANTS
    Ryters = {p, q}
    None = None
    MaxRows = 3
    MaxCalls = 3
    MaxTears = 1
    MaxFullDisks = 1
SYMMETRY Alike
INVARIANTS
    TypeOK
    NothingLost
    AloneStaysIncomplete
PROPERTIES
    OpenCountsTheLedger
CHECK_DEADLOCK FALSE

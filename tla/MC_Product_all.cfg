SPECIFICATION Spec
CONSTANTS
    Ryters = {p, q}
    Stops = {down}
    Files <- TwoFiles
    None = None
    MaxStarts = 2
SYMMETRY Alike
INVARIANTS
    TypeOK
    NothingRunsUnapproved
    RunningIsKnown
PROPERTIES
    FailedCleanupHolds
    NotesEndNobodyElse

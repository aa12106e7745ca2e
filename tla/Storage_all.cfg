SPECIFICATION Spec
CONSTANTS
    Sessions = {s, t}
    Active = {t}
    Mine = s
    Readers = {}
    None = None
    CheckpointCap = 3
    RedoCap = 2
    Also = {"undo", "revert"}
    MaxCommits = 7
    MaxDays = 1
    MaxRows = 1
    MaxCrashes = 1
    MaxDuring = 4
INVARIANTS
    TypeOK
    RefsHold
    RemovedStaysCounted
CHECK_DEADLOCK FALSE

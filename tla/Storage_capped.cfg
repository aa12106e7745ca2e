SPECIFICATION Spec
CONSTANTS
    Sessions = {s, t}
    Active = {t}
    Mine = s
    Readers = {}
    None = None
    CheckpointCap = 2
    RedoCap = 2
    Also = {}
    MaxCommits = 10
    MaxDays = 0
    MaxRows = 0
    MaxCrashes = 0
    MaxDuring = 4
INVARIANTS
    CheckpointsKeepTheirRefs
CHECK_DEADLOCK FALSE

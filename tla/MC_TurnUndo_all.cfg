SPECIFICATION Spec
CONSTANTS
    Tracked = {a, b}
    Ignored = {env}
    Content = {x}
    Absent = Absent
    None = None
    CheckpointCap = 2
    RedoCap = 2
    Seconds = {1}
    MaxTurns = 2
    MaxEdits = 1
    Others = {"unkept", "revert", "failed revert", "audit", "crash"}
    MaxOthers = 1
SYMMETRY Alike
INVARIANTS
    TypeOK
    NoFalseRefusal
    RecordsSayWhatHappened
PROPERTIES
    UndoPutsBackTheTurn
    ForcedUndoKeepsOtherFiles
    UndoPutsBackIgnored
    RedoReversesTheUndo

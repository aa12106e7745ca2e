SPECIFICATION Spec
CONSTANTS
    Tracked = {a, b}
    Ignored = {}
    Content = {x}
    Absent = Absent
    None = None
    CheckpointCap = 2
    RedoCap = 2
    Seconds = {1}
    MaxTurns = 2
    MaxEdits = 1
    Others = {"failed revert", "crash"}
    MaxOthers = 1
SYMMETRY Alike
PROPERTIES
    UndoPutsBackOnlyTheTurn

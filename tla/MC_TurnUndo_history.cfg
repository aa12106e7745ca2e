SPECIFICATION Spec
CONSTANTS
    Tracked = {a, b}
    Ignored = {}
    Content = {x, y}
    Absent = Absent
    None = None
    CheckpointCap = 2
    RedoCap = 2
    Seconds = {1}
    MaxTurns = 2
    MaxEdits = 1
    Others = {"unkept", "revert", "audit"}
    MaxOthers = 1
SYMMETRY Alike
PROPERTIES
    ImplementsTurnHistory

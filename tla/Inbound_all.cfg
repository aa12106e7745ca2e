SPECIFICATION FairSpec
CONSTANTS
    Sessions = {s, z}
    Screen = Screen
    None = None
    MaxPrompts = 2
    MaxWork = 1
    MaxCommands = 1
    MaxCancels = 1
    MaxLag = 1
INVARIANTS
    TypeOK
    CancelledPromptStops
    CancelSparesOthers
    DisconnectCancelsItsOwn
    CancelReachesTheCommand
PROPERTIES
    DisconnectFreesTheHost
CHECK_DEADLOCK FALSE

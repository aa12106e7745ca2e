SPECIFICATION FairSpec
CONSTANTS
    Hats = {"build", "plan"}
    MaxRounds = 3
    MaxCutoffs = 2
    RepeatStop = 2
    CheckRounds = 1
    Budget = 3
    Prices = {2}
    MaxCalls = 2
    MaxTurns = 2
    MaxFaults = 1
INVARIANTS
    TypeOK
    RequestsAreAnswered
    TurnsCloseTheirCalls
    OverrunIsBounded
    DoneIsChecked
PROPERTIES
    CancelEndsTheTurn

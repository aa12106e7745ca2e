SPECIFICATION FairSpec
CONSTANTS
    Scopes = {"edit", "test"}
    None = None
    Wait = 1
    MaxRequests = 2
    MaxSessions = 2
INVARIANTS
    TypeOK
    NothingRunsUnasked
    DeniedMeansNo
PROPERTIES
    StopEndsTheTurn
    SilenceEnds

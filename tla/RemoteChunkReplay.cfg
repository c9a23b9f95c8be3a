CONSTANTS
    NumEnvs = 2
    OpenLoopHorizon = 2
    MaxReconnectAttempts = 3
    MaxSteps = 4
    MaxConnections = 4
    None = None
SPECIFICATION FairSpec
INVARIANTS ActionsOfTheEpisode RowsFollowTheClock NoChunkOutlivesItsConnection
PROPERTY CallsReturn
CHECK_DEADLOCK FALSE

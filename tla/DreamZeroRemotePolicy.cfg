CONSTANTS
    NumEnvs = 2
    OpenLoopHorizon = 2
    MaxReconnectAttempts = 3
    MaxDrain = 3
    InferReplies = {"actions"}
    MaxSteps = 3
    MaxLosses = 2
    MaxConnections = 4
    None = None
SPECIFICATION PolicySpec
INVARIANTS HistoriesDoNotMix AnswerIsDue
PROPERTY ReplaysChunks
CHECK_DEADLOCK FALSE

CONSTANTS
    NumEnvs = 1
    OpenLoopHorizon = 2
    MaxReconnectAttempts = 3
    MaxDrain = 3
    InferReplies = {"actions", "error"}
    MaxSteps = 2
    MaxLosses = 0
    MaxConnections = 4
    None = None
SPECIFICATION PolicySpec
PROPERTY DrainsOnlyAcknowledgements
CHECK_DEADLOCK FALSE

CONSTANTS
    NumEnvs = 2
    MaxAttempts = 2
    MaxRetries = 1
    ChunkSize = 2
    MaxStepsPerGoal = 2
    MaxEpisodeLength = 4
    MaxEpisodes = 2
    None = None
SPECIFICATION Spec
INVARIANT PreviousGoalReported
PROPERTIES OwnPredictionsInOrder PredictionCallsEnd
CHECK_DEADLOCK FALSE

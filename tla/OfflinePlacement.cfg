CONSTANTS
    NumEnvs = 2
    PoolSize = 3
    MaxAttempts = 2
    MaxRounds = 3
    MaxSolves = 4
    MinLayouts = 3
    MaxBatches = 3
    None = None
SPECIFICATION OfflineSpec
CHECK_DEADLOCK FALSE
INVARIANTS
    NoLayoutTwice
    RefillSuffices
    RecordingIsSound
    AttemptsAddUp

CONSTANTS
    NumEnvs = 3
    NumRecords = 0
    MaxEpisodeLength = 3
    MaxLimit = 5
    MaxStarted = 15
    MaxBuilds = 1
    NoLimit = NoLimit
    Live = Live
    MaxSteps = 4
SPECIFICATION RolloutSpec
CHECK_DEADLOCK FALSE
INVARIANTS
    PolicyKnowsTheEpisode
    ReturnsWithEveryEpisode
PROPERTIES
    RolloutEnds

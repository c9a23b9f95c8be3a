CONSTANTS
    NumEnvs = 3
    NumRecords = 2
    MaxEpisodeLength = 3
    MaxLimit = 4
    MaxStarted = 3
    MaxBuilds = 2
    NoLimit = NoLimit
    Live = Live
    Nothing = Nothing
SPECIFICATION VideosSpec
INVARIANTS
    CollaboratorsAgree OneRowPerFinishedEpisode
    RowsPairDrawAndSource ReplayedInTurns
    ProgressFollowsEpisodes DatasetMatchesRows ClipsMatchRows
PROPERTY BudgetSpec
CHECK_DEADLOCK FALSE

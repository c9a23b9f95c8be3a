CONSTANTS
    NumRuns = 2
    EpisodeLimits = {4}
    EpisodeLists <- MCEpisodeLists
    ReplayLists <- MCReplayLists
    Replays = {1}
    MaxRebuilds = 3
    None = None
SPECIFICATION Spec
CHECK_DEADLOCK FALSE
INVARIANTS
    
    CompletedRanEverything
    ResultsMatchTheRuns
    

CONSTANTS
    Envs = {e1, e2}
    ChunkLength = 2
    MaxFetches = 2
    MaxResets = 1
    Zeros = Zeros
    None = None
SPECIFICATION Spec
INVARIANT FetchCountersCount
CHECK_DEADLOCK FALSE

CONSTANTS
    Envs = {e1, e2, e3}
    ChunkLength = 3
    MaxFetches = 7
    MaxResets = 2
    Zeros = Zeros
    None = None
    Hold = Hold
SPECIFICATION SelectedSpec
INVARIANTS ReadyToReplay ActTogether HoldBounded
PROPERTY ReplaysInOrder
CHECK_DEADLOCK FALSE

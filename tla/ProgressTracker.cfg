CONSTANTS
    lifted = lifted
    placed = placed
    Preds <- MCPreds
    Criteria <- MCCriteria
    SequencesOf <- MCSequencesOf
    TrackedEvents <- MCTrackedEvents
    Chain <- MCChain
    Logical <- MCLogical
    K <- MCK
    NumSubtasks = 2
    SubtaskOf <- MCSubtaskOf
    Configurations <- MCConfigurations
    Desired <- UnmetThenMet
    MaxSteps = 6
SPECIFICATION Spec
INVARIANTS MilestonesExact SuccessMeansFinalState SummaryConsistent OccurrencesSeparate

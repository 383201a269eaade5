SPECIFICATION FairSpec
CONSTANTS
    MaxCalls = 3
    Batches = 2
    BatchSize = 2
    Height = 2
    MaxTurns = 2
    MaxPlans = 2
    MaxFaults = 1
INVARIANTS
    LateWorkIsOneBlock
    CursorCountsBuiltBatches
    ScaffoldsAreKnown
PROPERTIES
    CancelledTurnIsStopped
CHECK_DEADLOCK FALSE

SPECIFICATION Spec
CONSTANTS
    t1 = t1
    t2 = t2
    e1 = e1
    e2 = e2
    Turns <- OneTurn
    NoTurn = NoTurn
    Executors <- TwoExecutors
    Steps <- OneStep
    Kinds <- AllKinds
    Modes <- AnyMode
    MaxContext = 9
    MaxCancels = 1
    MaxFaults = 2
SYMMETRY Symmetry
CHECK_DEADLOCK FALSE
INVARIANTS
    CreatedOpensLog
    DeliveredIsDurable
    ResolverIsReleased
    CancelTakesEffect
    ShutdownAbortsRuns

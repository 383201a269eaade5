SPECIFICATION FairSpec
CONSTANTS
    t1 = t1
    t2 = t2
    e1 = e1
    e2 = e2
    Turns <- OneTurn
    NoTurn = NoTurn
    Executors <- OneExecutor
    Steps <- TwoSteps
    Kinds <- AllKinds
    Modes <- AnyMode
    MaxContext = 9
    MaxCancels = 2
    MaxFaults = 0
CHECK_DEADLOCK FALSE
PROPERTIES
    RunningEnds
    ShutdownExits
    StreamsEnd

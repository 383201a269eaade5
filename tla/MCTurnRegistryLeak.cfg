SPECIFICATION Spec
CONSTANTS
    t1 = t1
    t2 = t2
    e1 = e1
    e2 = e2
    Turns <- OneTurn
    NoTurn = NoTurn
    Executors <- OneExecutor
    Steps <- OneStep
    Kinds <- ThreadKind
    Modes <- StreamOnly
    MaxContext = 9
    MaxCancels = 1
    MaxFaults = 1
CHECK_DEADLOCK FALSE
INVARIANTS
    RegistryIsReleased

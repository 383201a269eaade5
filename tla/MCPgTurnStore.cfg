SPECIFICATION Spec
CONSTANTS
    t1 = t1
    t2 = t2
    c1 = c1
    c2 = c2
    c3 = c3
    Turns <- MCTurns
    NoTurn = NoTurn
    Outcomes <- MCOutcomes
    Reasons <- MCReasons
    MaxLog = 9
    MaxContext = 9
    Conns <- MCConns
    MaxCalls = 6
SYMMETRY Symmetry
CHECK_DEADLOCK FALSE
INVARIANTS
    FreezeReadsFinal
    DeadlockNeedsDelete
PROPERTIES
    StoreSpec

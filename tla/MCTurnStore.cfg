SPECIFICATION Spec
CONSTANTS
    t1 = t1
    t2 = t2
    t3 = t3
    Turns <- MCTurns
    NoTurn = NoTurn
    Events <- MCEvents
    Outcomes <- MCOutcomes
    Reasons <- MCReasons
    MaxLog = 1
    MaxContext = 3
SYMMETRY Symmetry
CHECK_DEADLOCK FALSE
INVARIANTS
    LogAgreesWithState
    ContextComesFromAncestry
PROPERTIES
    FrozenStaysFinal

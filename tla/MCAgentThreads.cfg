SPECIFICATION Spec
CONSTANTS
    p1 = p1
    a1 = a1
    k1 = k1
    s1 = s1
    s2 = s2
    w1 = w1
    w2 = w2
    Main = Main
    NoCall = NoCall
    Children = {w1, w2}
    Calls = {p1, a1, k1, s1, s2}
    Kind <- MCKind
    MaxParallel = 2
    CompactAt = 4
    MaxTurns = 2
    MaxPerReply = 2
    MaxCalls = 4
SYMMETRY Symmetry
CHECK_DEADLOCK FALSE
INVARIANTS
    ContextsAreWellFormed
    SubAgentsHaveOneCallEach
    HandedAnswerFits
    DoneTurnSaysWhatItNeeds

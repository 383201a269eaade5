SPECIFICATION ListingSpec
CONSTANTS
    t1 = t1
    t2 = t2
    t3 = t3
    t4 = t4
    Turns <- MCTurns
    NoTurn = NoTurn
    MaxAncestors = 2
    Limits = {1, 2}
    MaxEvents = 1
SYMMETRY Symmetry
CHECK_DEADLOCK FALSE
INVARIANTS
    ChainIsAncestry
    WalkShowsWhatItFound

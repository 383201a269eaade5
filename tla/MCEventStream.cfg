SPECIFICATION FairSpec
CONSTANTS
    Clients = {c1, c2}
    Backends <- BothBackends
    RunTTL = 3
    PostTTL = 3
    Threshold = 2
    PollItems = 1
    MaxEvents = 3
CHECK_DEADLOCK FALSE
INVARIANTS
    ResumesInOrder
    ParkedSawAll
PROPERTIES
    ClientsSettle

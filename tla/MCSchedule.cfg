SPECIFICATION FairSpec
CONSTANTS
    Schedules = {s1, s2}
    Crons = {1, 2}
    NextAfter <- MCNextAfter
    Clients = {u1}
    BatchLimit = 1
    MaxClock = 1
    MaxRuns = 5
    MaxPuts = 1
    MaxStops = 1
    MaxFaults = 1
INVARIANTS
    PendingIffActive
    TriggeredWasHandedOff
    OneHandOffPerFault
    AtMostOneExtraRun
PROPERTIES
    DueRunsEnd

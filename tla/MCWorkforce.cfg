SPECIFICATION FairSpec
CONSTANTS
    MaxBots = 2
    MaxSessions = 12
    MaxSpawns = 3
    MaxFaults = 3
    MaxDeletes = 1
INVARIANTS
    RosterIsContiguous
    ServedAgreesWithFile
    ListedSessionsAreKept
    RolledBackIsRemembered
    UnplacedAreFaults
PROPERTIES
    PluginIsReleased
CHECK_DEADLOCK FALSE

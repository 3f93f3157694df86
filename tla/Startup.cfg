\* One doctor and one start of the daemon.
CONSTANTS
    Configs <- MCConfigs
    Worlds <- MCWorlds
    Changes <- MCChanges
    QueueMax = 100000000
    SecondsMax = 100000000
SPECIFICATION Spec
\* the daemon stops, or serves
CHECK_DEADLOCK FALSE
INVARIANTS
    VerdictIsWhole
    GoodVerdictStarts
    AcceptedIsComplete

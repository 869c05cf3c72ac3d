SPECIFICATION Spec
CONSTANTS
    Keys = {k1, k2}
    Tasks = {t1, t2}
    Capacity = 1
    IdleTimeout = 1
    MaxTime = 3
    MaxClients = 3
SYMMETRY Symmetry
CHECK_DEADLOCK FALSE
INVARIANT CallsShareAClient
INVARIANT CleanupIsThorough
PROPERTY OnlyCrowdingRemovesRecentClients

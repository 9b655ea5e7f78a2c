SPECIFICATION Spec
CONSTANTS
    MaxLines = 1
    MaxDrops = 2
    Chunks = 5
    Capacity = 2
    Requests <- MCRequests
    Limited <- MCLimited
    PathLimit <- MCPathLimit
    Surfaces <- MCSurfaces
    Excluded <- MCExcluded
    Free <- MCFree
    Clients = {home}
    PerMinute = 1
    PerHour = 2
    Minute = 1
    Hour = 3
    CleanUpEvery = 2
    MaxTime = 4
    Calls = {first, second}
    AllowedHosts = {}
INVARIANTS
    TypesOK
    StreamComplete
    NeverOverLimit
    NothingLeftBehind
PROPERTIES
    EndShown
    ThreadFreed
CHECK_DEADLOCK FALSE

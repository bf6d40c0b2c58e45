SPECIFICATION Spec
CONSTANTS
    m1 = m1
    Addrs = {w1}
    Models <- MCModels
    SupportLists <- MCSupportLists
    Memories = {8}
    Models0 <- MCModels0
    Memory0 = 8
    NoId = NoId
    MaxStamp = 2
    MaxClock = 5
    HeartbeatTimeout = 1
    FirstHeartbeat = 1
    HeartbeatPeriod = 2
    ReconnectDelay = 1
    ScanPeriod = 2
    MaxSessions = 2
    Prompt = FALSE
    Crashes = TRUE
    Breaks = TRUE
    MaxRestarts = 1
    Destructs = TRUE
    DestroyInLoop = FALSE
    Moments = {1, 3}
INVARIANTS
    TypeOK
    OfflineIsFinal
    DeadForgotten
    WillReconnect
    UsesNewest
SYMMETRY MCSymmetry
CHECK_DEADLOCK FALSE

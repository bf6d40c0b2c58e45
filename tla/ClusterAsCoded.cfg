SPECIFICATION Spec
CONSTANTS
    m1 = m1
    Addrs = {w1}
    Models <- MCModels
    SupportLists <- MCSupportLists
    Memories = {8}
    Models0 <- MCModels0
    Memory0 = 8
    NoId = NoId
    MaxStamp = 2
    MaxClock = 12000
    HeartbeatTimeout = 30
    FirstHeartbeat = 1000
    HeartbeatPeriod = 30000
    ReconnectDelay = 3000
    ScanPeriod = 10000
    MaxSessions = 1
    Prompt = TRUE
    Crashes = FALSE
    Breaks = FALSE
    MaxRestarts = 0
    Destructs = FALSE
    DestroyInLoop = TRUE
    Moments = {}
INVARIANT LiveRegistered
SYMMETRY MCSymmetry
CHECK_DEADLOCK FALSE

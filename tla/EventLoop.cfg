SPECIFICATION FairSpec
CONSTANTS
    Threads = {main, io}
    Owner = main
    Self = self
    Delays = {0, 1}
    MaxFunctors = 3
    MaxTimers = 1
    MaxClock = 1
INVARIANTS
    TypeOK
    NoSleepOnWork
    
PROPERTIES
    QueueSpec
    EveryFunctorRuns
    TimersFire
CHECK_DEADLOCK FALSE

SPECIFICATION FairSpec
CONSTANTS
    m1 = m1
    m2 = m2
    Addrs = {a1}
    Models <- MCModels
    SupportLists <- MCSupportLists
    Memories <- MCMemories
    HeartbeatTimeout = 1
    MaxStamp = 2
    MaxClock = 3
INVARIANTS
    TypeOK
    HeardFromStays
    ListedAsRegistered
    DismissedUnlisted
    QueryExact
PROPERTIES
    MembershipSpec
    SilentEvicted

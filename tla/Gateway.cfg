SPECIFICATION FairSpec
CONSTANTS
    r1 = r1
    r2 = r2
    r3 = r3
    Requests <- MCRequests
    Path <- MCPath
    MaxTraffic = 3
    TextLength = 10
    NoPacket = NoPacket
INVARIANTS
    TypeOK
    OwnAnswer
    PendingUnanswered

    
CHECK_DEADLOCK FALSE

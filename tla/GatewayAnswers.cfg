SPECIFICATION FairSpec
CONSTANTS
    r1 = r1
    r2 = r2
    r3 = r3
    Requests <- MCTwo
    Path <- MCTwoPaths
    MaxTraffic = 2
    TextLength = 10
    NoPacket = NoPacket
PROPERTY ReturnedToUser
CHECK_DEADLOCK FALSE

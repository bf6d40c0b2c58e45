SPECIFICATION FairSpec
CONSTANTS
    l1 = l1
    l2 = l2
    Main = main
    None = None
    Setups <- MCSmallEcho
    Conns = {c1, c2}
    Fds = {f1, f2}
    MaxOut = 1
PROPERTIES
    PeerCloseReclaimed
    BufferDrains
CHECK_DEADLOCK FALSE

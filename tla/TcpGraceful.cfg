SPECIFICATION FairSpec
CONSTANTS
    l1 = l1
    l2 = l2
    Main = main
    None = None
    Setups <- MCShutdown
    Conns = {c1, c2}
    Fds = {f1}
    MaxOut = 1
PROPERTY ShutdownCompletes
CHECK_DEADLOCK FALSE

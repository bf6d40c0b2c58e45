SPECIFICATION Spec
CONSTANTS
    l1 = l1
    l2 = l2
    Main = main
    None = None
    Setups <- MCServers
    Conns = {c1, c2, c3}
    Fds = {f1, f2}
    MaxOut = 1
INVARIANTS
    TypeOK
    
    DescriptorsOwned
    PollTargets
    Watched
    NoUseAfterFree
    
SYMMETRY MCSymmetry
CHECK_DEADLOCK FALSE

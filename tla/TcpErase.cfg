SPECIFICATION Spec
CONSTANTS
    l1 = l1
    l2 = l2
    Main = main
    None = None
    Setups <- MCSmallEcho
    Conns = {c1, c2}
    Fds = {f1}
    MaxOut = 1
INVARIANT ErasesFound
CHECK_DEADLOCK FALSE

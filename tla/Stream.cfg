SPECIFICATION FairSpec
CONSTANTS
    p1 = p1
    p2 = p2
    NoPacket = NoPacket
    Packets <- MCPackets
    Body <- MCBody
    TextLength = 20
    Bytes <- Symbols
    Zero <- MCZero
    InitialSize = 2
    ExtraSize = 2
    Noise <- MCNoise
    KernelSize = 3
    MaxBytes = 7
INVARIANTS
    TypeOK
    InputBounded
    InOrder
PROPERTIES
    PipeSpec
    PacketsArrive
CHECK_DEADLOCK FALSE

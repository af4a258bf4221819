SPECIFICATION Spec
CONSTANTS
    s1 = s1
    s2 = s2
    b1 = b1
    b2 = b2
    Sock <- MCSock
    Buf <- MCBuf
    NoBuf = NoBuf
    IPTask = IPTask
    QLen = 2
    ErrLen = 1
    MaxSends <- MCMaxSends
INVARIANT StampsOwnFrames
CHECK_DEADLOCK FALSE

SPECIFICATION FairSpec
CONSTANTS
    s1 = s1
    s2 = s2
    b1 = b1
    b2 = b2
    Sock <- MCOneSock
    Buf <- MCBuf
    NoBuf = NoBuf
    IPTask = IPTask
    QLen = 2
    ErrLen = 1
    MaxSends <- MCMaxSends
INVARIANTS TypeOK OneOwner WireInOrder StampsInOrder
PROPERTY BuffersReturn
CHECK_DEADLOCK FALSE

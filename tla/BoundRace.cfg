SPECIFICATION UnitsSpec
CONSTANTS
    Units = {"BoundSockets"}
    N = 4
    MaxIPV = 2
    Bandwidth = 8000
    MaxCredit = 24
    TickRate = 1000
    Lengths = {1, 2}
    NullLengths = {0, 5}
    QueueLength = 2
    Packets = 4
    Horizon = 7
    W = 8
    NS = 4
    Slot = {"clock", "ts"}
    Clock = "clock"
    MaxDivisor = 3
    LongSize = 8
    HdrSize = 12
    DataLens = {5, 16, 24}
    MaxMsgs = 3
    UserSizes = {0, 11, 24, 40, 72, 200}
    Contents <- MCContents
    TCIs = {0, 40965, 24582}
    Classes = {0, 46, 63, 255}
    Layouts <- MCLayouts
    QueueLen = 2
    PayloadLengths = {0, 1, 18, 19, 1472, 1473}
    BufferSizes = {0, 8, 18, 26, 100, 2000}
    MTU = 1500
    Sockets = {s1, s2}
    Ports = {1, 2}
    Tasks = {t1, t2}
    Readers = {r1}
INVARIANTS
    BoundAreListed
CHECK_DEADLOCK FALSE

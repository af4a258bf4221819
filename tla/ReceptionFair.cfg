CONSTANTS
    tsn = tsn
    plain = plain
    arp = arp
    other = other
    b1 = b1
    b2 = b2
    b3 = b3
    h1 = h1
    h2 = h2
    h3 = h3
    None = None
    Socket = {tsn, plain}
    TSN = {tsn}
    Port = {tsn, plain}
    NoPort = arp
    Buffer = {b1, b2}
    Header = {h1, h2}
    QueueLength = 2
    EventQueueLength = 1
    ViaIPTask = TRUE
    Calls = {}
SPECIFICATION FairSpec
INVARIANTS
    RecvFindsHeader
    AssertionsFailOnlyShort
PROPERTIES
    FIFODelivery
    EveryFrameReceived
CHECK_DEADLOCK FALSE

CONSTANTS
    tsn = tsn
    plain = plain
    arp = arp
    other = other
    b1 = b1
    b2 = b2
    b3 = b3
    h1 = h1
    h2 = h2
    h3 = h3
    None = None
    Socket = {tsn}
    TSN = {tsn}
    Port = {tsn, arp}
    NoPort = arp
    Buffer = {b1, b2}
    Header = {h1, h2}
    QueueLength = 1
    EventQueueLength = 1
    ViaIPTask = FALSE
    Calls = {"bind"}
SPECIFICATION Spec
SYMMETRY Symmetry
INVARIANTS
    AssertionsFailOnlyShort
CHECK_DEADLOCK FALSE

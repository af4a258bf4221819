CONSTANTS
    tsn = tsn
    plain = plain
    arp = arp
    other = other
    b1 = b1
    b2 = b2
    b3 = b3
    h1 = h1
    h2 = h2
    h3 = h3
    None = None
    Socket = {tsn, plain}
    TSN = {tsn}
    Port = {tsn, plain, arp, other}
    NoPort = arp
    Buffer = {b1, b2}
    Header = {h1, h2}
    QueueLength = 1
    EventQueueLength = 1
    ViaIPTask = FALSE
    Calls = {"bind", "close"}
SPECIFICATION Spec
SYMMETRY Symmetry
INVARIANTS
    TypeOK
    OneOwner
    
PROPERTIES
    FIFODelivery
CHECK_DEADLOCK FALSE

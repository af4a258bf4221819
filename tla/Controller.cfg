SPECIFICATION FairSpec
CONSTANTS
    app = app
    ip = ip
    queue1 = queue1
    queue2 = queue2
    queue3 = queue3
    txHigh = txHigh
    rxHigh = rxHigh
    txLow = txLow
    rxLow = rxLow
    NoItem = NoItem
    NoQueue = NoQueue
    Task = {app, ip}
    IPTask = ip
    Queue = {queue1, queue2, queue3}
    Item = {rxHigh, txLow, rxLow}
    List <- List3
    Leaf <- Leaf3
    IPV <- IPV3
    Policy <- Policy3
    Filter <- Filter3
    EventType <- Types
    QueueLength = 2
    EventQueueLength = 1
    Shaped = {queue2}
    DynamicPrio = TRUE
    BasePrio = 1
INVARIANTS
    TypeOK
    NoLostWakeup
    HighestWaitingFirst
    PopFindsPacket
PROPERTIES
    EveryQueueServed

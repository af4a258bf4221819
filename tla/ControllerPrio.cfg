SPECIFICATION Spec
CONSTANTS
    app = app
    ip = ip
    queue1 = queue1
    queue2 = queue2
    queue3 = queue3
    txHigh = txHigh
    rxHigh = rxHigh
    txLow = txLow
    rxLow = rxLow
    NoItem = NoItem
    NoQueue = NoQueue
    Task = {app, ip}
    IPTask = ip
    Queue = {queue1, queue3}
    Item = {txHigh, rxHigh, txLow, rxLow}
    List <- List2
    Leaf <- Leaf2
    IPV <- IPV2
    Policy <- Policy2
    Filter <- Filter2
    EventType <- Types
    QueueLength = 1
    EventQueueLength = 1
    Shaped = {}
    DynamicPrio = TRUE
    BasePrio = 1
INVARIANTS
    PriorityCoversPending

\* The clock is bounded: at the last tick the controller may sleep for good.
CHECK_DEADLOCK FALSE
SPECIFICATION TimedSpec
CONSTANTS
    app = app
    ip = ip
    queue1 = queue1
    queue2 = queue2
    queue3 = queue3
    tx1 = tx1
    tx2 = tx2
    NoItem = NoItem
    NoQueue = NoQueue
    Task = {app, ip}
    IPTask = ip
    Queue = {queue1, queue2, queue3}
    Item = {tx1}
    List <- List3
    Leaf <- Leaf3
    IPV <- IPV3
    Policy <- Policy3
    Filter <- Filter3
    EventType <- Types
    QueueLength = 1
    EventQueueLength = 1
    Shaped = {queue1, queue2}
    DynamicPrio = FALSE
    BasePrio = 1
    Cost = {0, 2}
    MaxDelay <- Delays
    MaxEventWait = 3
    portMAX_DELAY = 9
    Horizon = 4
INVARIANTS
    TimedTypeOK
    SleepCoversRequests
PROPERTIES
    Spec

--------------------------- MODULE TSNController ---------------------------
(***************************************************************************)
(* The TSN controller task, the tasks that push packets to it, and the     *)
(* FreeRTOS-Plus-TCP IP task it hands received frames to                   *)
(* (FreeRTOS_TSN_Controller.c, FreeRTOS_TSN_NetworkScheduler.c).           *)
(*                                                                         *)
(* Every access to state another task can touch is a step of its own: a    *)
(* push is send, read priority, set priority, notify; the walk of the      *)
(* scheduler tree polls one leaf per step; the priority scan reads one     *)
(* queue per step.  Tasks interleave freely, which covers every priority   *)
(* assignment of the FreeRTOS scheduler and interrupt-driven drivers.      *)
(***************************************************************************)
EXTENDS NetworkQueues

CONSTANTS
    Task,              \* tasks that push: applications, MAC driver, IP task
    IPTask,            \* the IP task, one of Task
    QueueLength,       \* capacity of a network queue
    EventQueueLength,  \* capacity of the IP task's event queue
    Shaped,            \* queues whose leaf has a ready function that may say no
    DynamicPrio,       \* tsnconfigCONTROLLER_HAS_DYNAMIC_PRIO
    BasePrio,          \* controllerTSN_TASK_BASE_PRIO
    NoItem, NoQueue    \* NULL

ASSUME ControllerAssumption ==
    /\ IPTask \in Task
    /\ QueueLength \in Nat \ {0}
    /\ EventQueueLength \in Nat \ {0}
    /\ Shaped \subseteq Queue
    /\ DynamicPrio \in BOOLEAN
    /\ BasePrio \in Nat
    /\ NoItem \notin Item
    /\ NoQueue \notin Queue

VARIABLES
    queue,     \* contents of each network queue
    notified,  \* the controller's notification value is not zero
    pc,        \* where each pushing task is in xNetworkQueuePush()
    item,      \* the item each task is blocked with, NoItem once it is sent
    dest,      \* the queue each task pushes to
    ipq,       \* the IP task's event queue
    ctl,       \* where the controller is in prvTSNController()
    leaf,      \* the next leaf that the walk of the tree polls
    sel,       \* pxQueue: the queue the walk returned
    cur,       \* xItem: the item popped and not yet handled
    deferred,  \* leaves that were not ready in this walk: each one has called
               \* vNetworkQueueAddWakeupEvent()
    prio,      \* the controller's task priority
    scan,      \* vTSNControllerComputePriority(): next position on the list
    top,       \*   and uxPriority, the maximum found so far
    seen       \* history: the queues with packets when this walk started

taskVars == <<pc, item, dest>>
ctlVars  == <<ctl, leaf, sel, cur, deferred, scan, top, seen>>
vars     == <<queue, notified, pc, item, dest, ipq, ctl, leaf, sel, cur,
              deferred, prio, scan, top, seen>>

TaskStates == {"idle", "send", "getprio", "setprio", "notify"}
CtlStates  == {"sleep", "poll", "pop", "dispatch", "ipsend", "recheck", "scan"}

Elements(s) == {s[k] : k \in 1..Len(s)}

\* A buffer is in the hands of one party; only free ones start a journey.
Free(i) ==
    /\ \A t \in Task : item[t] # i
    /\ \A q \in Queue : i \notin Elements(queue[q])
    /\ i \notin Elements(ipq)
    /\ i # cur

TypeOK ==
    /\ queue \in [Queue -> Seq(Item)]
    /\ \A q \in Queue : Len(queue[q]) <= QueueLength
    /\ notified \in BOOLEAN
    /\ pc \in [Task -> TaskStates]
    /\ item \in [Task -> Item \cup {NoItem}]
    /\ dest \in [Task -> Queue \cup {NoQueue}]
    /\ ipq \in Seq(Item)
    /\ Len(ipq) <= EventQueueLength
    /\ ctl \in CtlStates
    /\ leaf \in 1..(Len(Leaf) + 1)
    /\ sel \in Queue \cup {NoQueue}
    /\ cur \in Item \cup {NoItem}
    /\ deferred \subseteq Shaped
    /\ prio \in Nat
    /\ scan \in 1..(Len(List) + 1)
    /\ top \in Nat
    /\ seen \subseteq Queue
    /\ \A t \in Task : pc[t] = "send" => item[t] \in Item
    /\ \A t \in Task : pc[t] # "idle" => dest[t] \in Queue
    /\ ctl \in {"pop", "dispatch", "ipsend", "recheck"} => sel \in Queue
    /\ ctl \in {"dispatch", "ipsend"} => cur \in Item

Init ==
    /\ queue = [q \in Queue |-> <<>>]
    /\ notified = FALSE
    /\ pc = [t \in Task |-> "idle"]
    /\ item = [t \in Task |-> NoItem]
    /\ dest = [t \in Task |-> NoQueue]
    /\ ipq = <<>>
    /\ ctl = "sleep"
    /\ leaf = 1
    /\ sel = NoQueue
    /\ cur = NoItem
    /\ deferred = {}
    /\ prio = BasePrio
    /\ scan = 1
    /\ top = BasePrio
    /\ seen = {}
-----------------------------------------------------------------------------
(***************************************************************************)
(* xNetworkQueuePush(): a task t inserts item i.                           *)
(***************************************************************************)

\* Task t starts pushing item i to queue q.
StartPush(t, i, q) ==
    /\ pc' = [pc EXCEPT ![t] = "send"]
    /\ item' = [item EXCEPT ![t] = i]
    /\ dest' = [dest EXCEPT ![t] = q]

\* xNetworkQueueInsertPacketByFilter(), from FreeRTOS_TSN_sendto(), from the
\* wrapper's output function or, for received frames, from the MAC driver.
\* An item no queue takes comes back with pdFAIL and changes nothing.
InsertPacketByFilter(t, i, q) ==
    /\ t # IPTask
    /\ pc[t] = "idle"
    /\ Free(i)
    /\ IsChosenQueue(i, q)
    /\ StartPush(t, i, q)
    /\ UNCHANGED <<queue, notified, ipq, prio, ctlVars>>

\* xNetworkQueueInsertPacketByName(): the caller names the queue; the filter
\* is not consulted, the policy is.
InsertPacketByName(t, i, q) ==
    /\ t # IPTask
    /\ pc[t] = "idle"
    /\ Free(i)
    /\ prvMatchQueuePolicy(i, q)
    /\ StartPush(t, i, q)
    /\ UNCHANGED <<queue, notified, ipq, prio, ctlVars>>

AfterSend == IF DynamicPrio THEN "getprio" ELSE "notify"

\* Mutant of SendToBack: the capacity of the queue is not respected.
SendToBackUnbounded(t) ==
    /\ pc[t] = "send"
    /\ queue' = [queue EXCEPT ![dest[t]] = Append(@, item[t])]
    /\ pc' = [pc EXCEPT ![t] = AfterSend]
    /\ item' = [item EXCEPT ![t] = NoItem]
    /\ UNCHANGED <<notified, dest, ipq, prio, ctlVars>>

\* xQueueSendToBack() succeeds, possibly after blocking.
SendToBack(t) ==
    /\ pc[t] = "send"
    /\ Len(queue[dest[t]]) < QueueLength
    /\ queue' = [queue EXCEPT ![dest[t]] = Append(@, item[t])]
    /\ pc' = [pc EXCEPT ![t] = AfterSend]
    /\ item' = [item EXCEPT ![t] = NoItem]
    /\ UNCHANGED <<notified, dest, ipq, prio, ctlVars>>

\* xQueueSendToBack() gives up: the queue stayed full for uxTimeout ticks.
SendTimeout(t) ==
    /\ pc[t] = "send"
    /\ Len(queue[dest[t]]) = QueueLength
    /\ pc' = [pc EXCEPT ![t] = "idle"]
    /\ item' = [item EXCEPT ![t] = NoItem]
    /\ dest' = [dest EXCEPT ![t] = NoQueue]
    /\ UNCHANGED <<queue, notified, ipq, prio, ctlVars>>

\* xTSNControllerUpdatePriority(), the read and the comparison.
GetPriority(t) ==
    /\ pc[t] = "getprio"
    /\ pc' = [pc EXCEPT ![t] =
                IF prio < IPV[dest[t]] THEN "setprio" ELSE "notify"]
    /\ UNCHANGED <<queue, notified, item, dest, ipq, prio, ctlVars>>

\* xTSNControllerUpdatePriority(), the write.
SetPriority(t) ==
    /\ pc[t] = "setprio"
    /\ prio' = IPV[dest[t]]
    /\ pc' = [pc EXCEPT ![t] = "notify"]
    /\ UNCHANGED <<queue, notified, item, dest, ipq, ctlVars>>

\* xNotifyController(): xTaskNotifyGive().  The value is a count, of which only
\* "not zero" is ever observed.
Notify(t) ==
    /\ pc[t] = "notify"
    /\ notified' = TRUE
    /\ pc' = [pc EXCEPT ![t] = "idle"]
    /\ dest' = [dest EXCEPT ![t] = NoQueue]
    /\ UNCHANGED <<queue, item, ipq, prio, ctlVars>>
-----------------------------------------------------------------------------
(***************************************************************************)
(* prvTSNController().                                                     *)
(***************************************************************************)

\* Enter xNetworkQueueSchedule() at the root of the tree.
StartWalk ==
    /\ ctl' = "poll"
    /\ leaf' = 1
    /\ sel' = NoQueue
    /\ deferred' = {}
    /\ seen' = {q \in Queue : queue[q] # <<>>}

\* ulTaskNotifyTake( pdTRUE, uxTimeToSleep ) returns: the notification value
\* is cleared.
TakeNotification ==
    /\ ctl = "sleep"
    /\ notified
    /\ notified' = FALSE
    /\ StartWalk
    /\ UNCHANGED <<queue, taskVars, ipq, cur, prio, scan, top>>

\* ulTaskNotifyTake() returns because uxTimeToSleep has elapsed.
TakeTimeout ==
    /\ ctl = "sleep"
    /\ ~notified
    /\ StartWalk
    /\ UNCHANGED <<queue, notified, taskVars, ipq, cur, prio, scan, top>>

\* Mutant of PollSelect: the leaf's queue is not tested for emptiness.
PollSelectUntested ==
    /\ ctl = "poll"
    /\ leaf <= Len(Leaf)
    /\ sel' = Leaf[leaf]
    /\ ctl' = "pop"
    /\ UNCHANGED <<queue, notified, taskVars, ipq, leaf, cur, deferred, prio,
                   scan, top, seen>>

\* pxNetworkSchedulerCall() on a ready leaf whose queue has packets.
PollSelect ==
    /\ ctl = "poll"
    /\ leaf <= Len(Leaf)
    /\ queue[Leaf[leaf]] # <<>>
    /\ sel' = Leaf[leaf]
    /\ ctl' = "pop"
    /\ UNCHANGED <<queue, notified, taskVars, ipq, leaf, cur, deferred, prio,
                   scan, top, seen>>

\* Mutant of PollEmpty: the walk goes past a leaf that has packets.
PollEmptySkips ==
    /\ ctl = "poll"
    /\ leaf <= Len(Leaf)
    /\ leaf' = leaf + 1
    /\ UNCHANGED <<queue, notified, taskVars, ipq, ctl, sel, cur, deferred,
                   prio, scan, top, seen>>

\* pxNetworkSchedulerCall() on a ready leaf whose queue is empty.
PollEmpty ==
    /\ ctl = "poll"
    /\ leaf <= Len(Leaf)
    /\ queue[Leaf[leaf]] = <<>>
    /\ leaf' = leaf + 1
    /\ UNCHANGED <<queue, notified, taskVars, ipq, ctl, sel, cur, deferred,
                   prio, scan, top, seen>>

\* Mutant of PollNotReady: the ready function asks for no wakeup.
PollNotReadySilent ==
    /\ ctl = "poll"
    /\ leaf <= Len(Leaf)
    /\ Leaf[leaf] \in Shaped
    /\ leaf' = leaf + 1
    /\ UNCHANGED <<queue, notified, taskVars, ipq, ctl, sel, cur, deferred, prio,
                   scan, top, seen>>

\* pxNetworkSchedulerCall() on a leaf that is not ready; its ready function
\* has asked for a wakeup.
PollNotReady ==
    /\ ctl = "poll"
    /\ leaf <= Len(Leaf)
    /\ Leaf[leaf] \in Shaped
    /\ deferred' = deferred \cup {Leaf[leaf]}
    /\ leaf' = leaf + 1
    /\ UNCHANGED <<queue, notified, taskVars, ipq, ctl, sel, cur, prio, scan,
                   top, seen>>

\* Mutant of WalkEnds: the notification is cleared after the queues are
\* drained, not before.
WalkEndsAndClears ==
    /\ ctl = "poll"
    /\ leaf = Len(Leaf) + 1
    /\ ctl' = "sleep"
    /\ notified' = FALSE
    /\ seen' = {}
    /\ UNCHANGED <<queue, taskVars, ipq, leaf, sel, cur, deferred, prio, scan,
                   top>>

\* xNetworkQueueSchedule() has returned NULL: break, and sleep again.
WalkEnds ==
    /\ ctl = "poll"
    /\ leaf = Len(Leaf) + 1
    /\ ctl' = "sleep"
    /\ seen' = {}
    /\ UNCHANGED <<queue, notified, taskVars, ipq, leaf, sel, cur, deferred,
                   prio, scan, top>>

\* xNetworkQueuePop( pxQueue, &xItem, 0 ).  If it fails the loop goes on.
Pop ==
    /\ ctl = "pop"
    /\ IF queue[sel] # <<>>
         THEN /\ cur' = Head(queue[sel])
              /\ queue' = [queue EXCEPT ![sel] = Tail(@)]
              /\ ctl' = "dispatch"
              /\ leaf' = 1
              /\ deferred' = {}
              /\ seen' = {}
              /\ UNCHANGED sel
         ELSE StartWalk /\ UNCHANGED <<queue, cur>>
    /\ UNCHANGED <<notified, taskVars, ipq, prio, scan, top>>

\* The item is handled.  With a dynamic priority the queue is looked at again.
EndDispatch ==
    /\ cur' = NoItem
    /\ IF DynamicPrio
         THEN ctl' = "recheck" /\ UNCHANGED <<leaf, sel, deferred, seen>>
         ELSE StartWalk

\* pxInterface->pfOutput(): the wrapper sees the controller as its caller and
\* gives the frame to the MAC.
OutputFrame ==
    /\ ctl = "dispatch"
    /\ EventType[cur] = "eNetworkTxEvent"
    /\ EndDispatch
    /\ UNCHANGED <<queue, notified, taskVars, ipq, prio, scan, top>>

\* prvDeliverFrame() ends in a socket or drops the frame: no other task waits.
DeliverToSocket ==
    /\ ctl = "dispatch"
    /\ EventType[cur] = "eNetworkRxEvent"
    /\ EndDispatch
    /\ UNCHANGED <<queue, notified, taskVars, ipq, prio, scan, top>>

\* prvDeliverFrame() decides to hand the frame to the IP task.
DeliverToIPTask ==
    /\ ctl = "dispatch"
    /\ EventType[cur] = "eNetworkRxEvent"
    /\ ctl' = "ipsend"
    /\ UNCHANGED <<queue, notified, taskVars, ipq, leaf, sel, cur, deferred,
                   prio, scan, top, seen>>

\* xSendEventStructToIPTask() succeeds, possibly after blocking.
SendEventToIPTask ==
    /\ ctl = "ipsend"
    /\ Len(ipq) < EventQueueLength
    /\ ipq' = Append(ipq, cur)
    /\ EndDispatch
    /\ UNCHANGED <<queue, notified, taskVars, prio, scan, top>>

\* xSendEventStructToIPTask() gives up after tsnconfigCONTROLLER_MAX_EVENT_WAIT
\* ticks and the frame is released.
SendEventTimeout ==
    /\ ctl = "ipsend"
    /\ Len(ipq) = EventQueueLength
    /\ EndDispatch
    /\ UNCHANGED <<queue, notified, taskVars, ipq, prio, scan, top>>

\* The last packet of the queue was handled: vTSNControllerComputePriority().
Recheck ==
    /\ ctl = "recheck"
    /\ IF queue[sel] = <<>>
         THEN /\ ctl' = "scan"
              /\ scan' = 1
              /\ top' = BasePrio
              /\ UNCHANGED <<leaf, sel, deferred, seen>>
         ELSE StartWalk /\ UNCHANGED <<scan, top>>
    /\ UNCHANGED <<queue, notified, taskVars, ipq, cur, prio>>

\* One iteration of the scan of pxNetworkQueueList.
ScanQueue ==
    /\ ctl = "scan"
    /\ scan <= Len(List)
    /\ top' = IF queue[List[scan]] # <<>> /\ IPV[List[scan]] > top
                THEN IPV[List[scan]] ELSE top
    /\ scan' = scan + 1
    /\ UNCHANGED <<queue, notified, taskVars, ipq, ctl, leaf, sel, cur,
                   deferred, prio, seen>>

\* The vTaskPrioritySet() at the end of the scan.
ScanEnds ==
    /\ ctl = "scan"
    /\ scan = Len(List) + 1
    /\ prio' = top
    /\ scan' = 1
    /\ top' = BasePrio
    /\ StartWalk
    /\ UNCHANGED <<queue, notified, taskVars, ipq, cur>>
-----------------------------------------------------------------------------
(***************************************************************************)
(* FreeRTOS-Plus-TCP, external.  The event queue carries the controller's  *)
(* received frames and the transmissions of plain sockets (eStackTxEvent); *)
(* the IP task takes one event at a time and outputs a transmission with   *)
(* pfOutput(), which the wrapper turns into a push.                        *)
(***************************************************************************)
StackTxEvent(i) ==
    /\ Free(i)
    /\ EventType[i] = "eNetworkTxEvent"
    /\ Len(ipq) < EventQueueLength
    /\ ipq' = Append(ipq, i)
    /\ UNCHANGED <<queue, notified, taskVars, prio, ctlVars>>

\* A received frame is processed; a transmission no queue takes is lost.
IPTaskConsumes ==
    /\ pc[IPTask] = "idle"
    /\ ipq # <<>>
    /\ \/ EventType[Head(ipq)] = "eNetworkRxEvent"
       \/ NoQueueFor(Head(ipq))
    /\ ipq' = Tail(ipq)
    /\ UNCHANGED <<queue, notified, taskVars, prio, ctlVars>>

IPTaskOutputs ==
    /\ pc[IPTask] = "idle"
    /\ ipq # <<>>
    /\ EventType[Head(ipq)] = "eNetworkTxEvent"
    /\ \E q \in Queue : /\ IsChosenQueue(Head(ipq), q)
                        /\ StartPush(IPTask, Head(ipq), q)
    /\ ipq' = Tail(ipq)
    /\ UNCHANGED <<queue, notified, prio, ctlVars>>
-----------------------------------------------------------------------------
Push(t) ==
    \/ SendToBack(t)
    \/ SendTimeout(t)
    \/ GetPriority(t)
    \/ SetPriority(t)
    \/ Notify(t)

Dispatch ==
    \/ OutputFrame
    \/ DeliverToSocket
    \/ DeliverToIPTask
    \/ SendEventToIPTask
    \/ SendEventTimeout

\* Every step of the controller except the expiry of its sleep.
Controller ==
    \/ TakeNotification
    \/ PollSelect
    \/ PollEmpty
    \/ PollNotReady
    \/ WalkEnds
    \/ Pop
    \/ Dispatch
    \/ Recheck
    \/ ScanQueue
    \/ ScanEnds

IPTaskLoop == IPTaskConsumes \/ IPTaskOutputs

Next ==
    \/ \E t \in Task, i \in Item, q \in Queue : InsertPacketByFilter(t, i, q)
    \/ \E t \in Task, i \in Item, q \in Queue : InsertPacketByName(t, i, q)
    \/ \E t \in Task : Push(t)
    \/ Controller
    \/ TakeTimeout
    \/ \E i \in Item : StackTxEvent(i)
    \/ IPTaskLoop

Spec == Init /\ [][Next]_vars

(***************************************************************************)
(* Once inside a push, a task goes on: its blocking call either finds room *)
(* or times out.  The controller and the IP task are scheduled when they   *)
(* can run.  Nothing is assumed of TakeTimeout: service must not depend on *)
(* the periodic wakeup.                                                    *)
(***************************************************************************)
Fairness ==
    /\ \A t \in Task : WF_vars(Push(t))
    /\ WF_vars(Controller)
    /\ WF_vars(IPTaskLoop)

FairSpec == Spec /\ Fairness
-----------------------------------------------------------------------------
\* Task t has sent to q and has not notified the controller yet.
InFlight(q) ==
    \E t \in Task : pc[t] \in {"getprio", "setprio", "notify"} /\ dest[t] = q

(***************************************************************************)
(* No lost wakeup.  When the controller is asleep with no notification     *)
(* pending, every queue with packets either has a push that has yet to     *)
(* notify, or a ready function that asked for a timed wakeup.  (Send, then *)
(* notify, against take, then drain: Controller.c:283-296,                 *)
(* NetworkScheduler.c:231-239.)                                            *)
(***************************************************************************)
NoLostWakeup ==
    ctl = "sleep" /\ ~notified =>
        \A q \in Queue : queue[q] # <<>> => InFlight(q) \/ q \in deferred

(***************************************************************************)
(* Strict priority.  When a walk has picked the queue of some leaf, no     *)
(* earlier leaf had packets at the start of the walk, unless its ready     *)
(* function deferred it: only a packet that arrives during the walk can be *)
(* overtaken.  (prvPrioritySelect(), BasicSchedulers.c:23-38.)             *)
(***************************************************************************)
HighestWaitingFirst ==
    ctl = "pop" =>
        \A j \in 1..(leaf - 1) : Leaf[j] \in seen => Leaf[j] \in deferred

(***************************************************************************)
(* A queue that the walk returned still has a packet when it is popped:    *)
(* the pop with timeout 0 cannot fail, whatever the pushing tasks do       *)
(* (Controller.c:287-294).                                                 *)
(***************************************************************************)
PopFindsPacket == ctl = "pop" => queue[sel] # <<>>

(***************************************************************************)
(* A packet in a queue with an always-ready leaf is served if the queues   *)
(* of the earlier leaves and the pushes to them fall silent: strict        *)
(* priority may starve a lower queue, nothing else may.  No notification   *)
(* is lost, a push blocked on a full queue and a delivery blocked on the   *)
(* IP task's full event queue do not wait for each other for ever          *)
(* (Controller.c:270-337).                                                 *)
(***************************************************************************)
EarlierQuiet(k) ==
    \A j \in 1..(k - 1) :
        Leaf[j] # Leaf[k] =>
            queue[Leaf[j]] = <<>> /\ \A t \in Task : dest[t] # Leaf[j]

EveryQueueServed ==
    \A k \in 1..Len(Leaf) :
        Leaf[k] \notin Shaped =>
            (<>[]EarlierQuiet(k) =>
                (queue[Leaf[k]] # <<>> ~> ctl = "pop" /\ sel = Leaf[k]))

\* Nobody is changing the priority or has sent and not yet raised it.
PrioritySettled ==
    /\ \A t \in Task : pc[t] \notin {"getprio", "setprio"}
    /\ ctl \in {"sleep", "poll", "pop"}

(***************************************************************************)
(* The documented meaning of the dynamic priority: at least the IPV of     *)
(* every queue with pending packets ("the maximum IPV among all the queues *)
(* which has pending messages", Controller.c:373-374).  It fails when a    *)
(* push overlaps the scan.                                                 *)
(***************************************************************************)
PriorityCoversPending ==
    DynamicPrio /\ PrioritySettled =>
        \A q \in Queue : queue[q] # <<>> => prio >= IPV[q]
=============================================================================

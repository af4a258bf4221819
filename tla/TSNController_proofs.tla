----------------------- MODULE TSNController_proofs -----------------------
(***************************************************************************)
(* Proofs about TSNController for every set of queues, tasks and packets   *)
(* and every hierarchy of leaves.                                          *)
(***************************************************************************)
EXTENDS TSNController, SequenceTheorems, TLAPS

LEMMA TailKeepsType ==
    ASSUME NEW s \in Seq(Item), s # <<>>
    PROVE  /\ Head(s) \in Item
           /\ Tail(s) \in Seq(Item)
           /\ Len(Tail(s)) = Len(s) - 1
           /\ Len(s) \in Nat
  BY HeadTailProperties, LenProperties

LEMMA LeafInQueue ==
    ASSUME NEW k \in 1..Len(Leaf)
    PROVE  Leaf[k] \in Queue
  BY ElementOfSeq, QueueAssumption

LEMMA ListInQueue ==
    ASSUME NEW k \in 1..Len(List)
    PROVE  List[k] \in Queue
  BY ElementOfSeq, QueueAssumption

LEMMA Lengths == Len(List) \in Nat /\ Len(Leaf) \in Nat
  BY LenProperties, QueueAssumption

LEMMA InitType == Init => TypeOK
<1> SUFFICES ASSUME Init PROVE TypeOK
  OBVIOUS
<1>1. <<>> \in Seq(Item) /\ Len(<<>>) = 0
  BY EmptySeq
<1>2. /\ queue \in [Queue -> Seq(Item)]
      /\ \A q \in Queue : Len(queue[q]) <= QueueLength
      /\ ipq \in Seq(Item)
      /\ Len(ipq) <= EventQueueLength
  BY <1>1, ControllerAssumption DEF Init
<1>3. /\ leaf \in 1..(Len(Leaf) + 1)
      /\ scan \in 1..(Len(List) + 1)
      /\ prio \in Nat
      /\ top \in Nat
  BY Lengths, ControllerAssumption DEF Init
<1>4. /\ pc \in [Task -> TaskStates]
      /\ item \in [Task -> Item \cup {NoItem}]
      /\ dest \in [Task -> Queue \cup {NoQueue}]
      /\ \A t \in Task : pc[t] = "idle"
  BY DEF Init, TaskStates
<1> QED
  BY <1>2, <1>3, <1>4 DEF Init, TypeOK, CtlStates

LEMMA PushType ==
    ASSUME TypeOK, NEW t \in Task, Push(t)
    PROVE  TypeOK'
<1>1. CASE SendToBack(t)
  <2>1. item[t] \in Item /\ dest[t] \in Queue /\ queue[dest[t]] \in Seq(Item)
    BY <1>1 DEF SendToBack, TypeOK
  <2>2. /\ Append(queue[dest[t]], item[t]) \in Seq(Item)
        /\ Len(Append(queue[dest[t]], item[t])) = Len(queue[dest[t]]) + 1
    BY <2>1, AppendProperties
  <2>3. Len(queue[dest[t]]) \in Nat
    BY <2>1, LenProperties
  <2> QED
    BY <1>1, <2>1, <2>2, <2>3, ControllerAssumption
    DEF SendToBack, TypeOK, AfterSend, TaskStates, ctlVars
<1>2. CASE SendTimeout(t)
  BY <1>2 DEF SendTimeout, TypeOK, TaskStates, ctlVars
<1>3. CASE GetPriority(t)
  BY <1>3 DEF GetPriority, TypeOK, TaskStates, ctlVars
<1>4. CASE SetPriority(t)
  BY <1>4, QueueAssumption DEF SetPriority, TypeOK, TaskStates, ctlVars
<1>5. CASE Notify(t)
  BY <1>5 DEF Notify, TypeOK, TaskStates, ctlVars
<1> QED
  BY <1>1, <1>2, <1>3, <1>4, <1>5 DEF Push

\* What StartWalk leaves typed: the walk's own variables.
LEMMA StartWalkType ==
    ASSUME TypeOK, StartWalk
    PROVE  /\ ctl' = "poll"
           /\ leaf' \in 1..(Len(Leaf) + 1)
           /\ sel' \in Queue \cup {NoQueue}
           /\ deferred' \subseteq Shaped
           /\ seen' \subseteq Queue
  BY Lengths DEF StartWalk

LEMMA WalkType ==
    ASSUME TypeOK,
           \/ TakeNotification \/ TakeTimeout \/ PollSelect \/ PollEmpty
           \/ PollNotReady \/ WalkEnds
    PROVE  TypeOK'
<1>1. CASE TakeNotification
  BY <1>1, StartWalkType DEF TakeNotification, TypeOK, CtlStates, taskVars
<1>2. CASE TakeTimeout
  BY <1>2, StartWalkType DEF TakeTimeout, TypeOK, CtlStates, taskVars
<1>3. CASE PollSelect
  <2>1. Leaf[leaf] \in Queue
    BY <1>3, LeafInQueue, Lengths DEF PollSelect, TypeOK
  <2> QED
    BY <1>3, <2>1 DEF PollSelect, TypeOK, CtlStates, taskVars
<1>4. CASE PollEmpty
  BY <1>4, Lengths DEF PollEmpty, TypeOK, CtlStates, taskVars
<1>5. CASE PollNotReady
  BY <1>5, Lengths DEF PollNotReady, TypeOK, CtlStates, taskVars
<1>6. CASE WalkEnds
  BY <1>6 DEF WalkEnds, TypeOK, CtlStates, taskVars
<1> QED
  BY <1>1, <1>2, <1>3, <1>4, <1>5, <1>6

LEMMA PopType ==
    ASSUME TypeOK, Pop
    PROVE  TypeOK'
<1>1. CASE queue[sel] # <<>>
  <2>1. queue[sel] \in Seq(Item) /\ sel \in Queue
    BY DEF Pop, TypeOK
  <2>2. /\ Head(queue[sel]) \in Item
        /\ Tail(queue[sel]) \in Seq(Item)
        /\ Len(Tail(queue[sel])) = Len(queue[sel]) - 1
        /\ Len(queue[sel]) \in Nat
    BY <1>1, <2>1, TailKeepsType
  <2>3. /\ queue' \in [Queue -> Seq(Item)]
        /\ \A q \in Queue : Len(queue'[q]) <= QueueLength
    <3>1. queue' = [queue EXCEPT ![sel] = Tail(queue[sel])]
      BY <1>1 DEF Pop
    <3>2. /\ queue \in [Queue -> Seq(Item)]
          /\ \A q \in Queue : Len(queue[q]) <= QueueLength
          /\ QueueLength \in Nat
      BY ControllerAssumption DEF TypeOK
    <3>3. Len(Tail(queue[sel])) <= QueueLength
      BY <2>1, <2>2, <3>2
    <3> QED
      BY <2>1, <2>2, <3>1, <3>2, <3>3
  <2>4. 1 \in 1..(Len(Leaf) + 1)
    BY Lengths
  <2>5. /\ cur' \in Item
        /\ sel' \in Queue
        /\ ctl' = "dispatch"
        /\ leaf' \in 1..(Len(Leaf) + 1)
        /\ deferred' \subseteq Shaped
        /\ seen' \subseteq Queue
    BY <1>1, <2>1, <2>2, <2>4 DEF Pop
  <2>6. UNCHANGED <<notified, pc, item, dest, ipq, prio, scan, top>>
    BY DEF Pop, taskVars
  <2> QED
    BY <2>3, <2>5, <2>6 DEF TypeOK, CtlStates
<1>2. CASE queue[sel] = <<>>
  BY <1>2, StartWalkType DEF Pop, TypeOK, CtlStates, taskVars
<1> QED
  BY <1>1, <1>2

\* What EndDispatch leaves typed.
LEMMA EndDispatchType ==
    ASSUME TypeOK, EndDispatch, sel \in Queue
    PROVE  /\ cur' = NoItem
           /\ ctl' \in {"recheck", "poll"}
           /\ leaf' \in 1..(Len(Leaf) + 1)
           /\ sel' \in Queue \cup {NoQueue}
           /\ ctl' = "recheck" => sel' \in Queue
           /\ deferred' \subseteq Shaped
           /\ seen' \subseteq Queue
  BY StartWalkType DEF EndDispatch, TypeOK

LEMMA DispatchType ==
    ASSUME TypeOK, Dispatch
    PROVE  TypeOK'
<1>0. sel \in Queue /\ cur \in Item
  BY DEF Dispatch, OutputFrame, DeliverToSocket, DeliverToIPTask,
     SendEventToIPTask, SendEventTimeout, TypeOK
<1>1. CASE OutputFrame
  BY <1>0, <1>1, EndDispatchType DEF OutputFrame, TypeOK, CtlStates, taskVars
<1>2. CASE DeliverToSocket
  BY <1>0, <1>2, EndDispatchType DEF DeliverToSocket, TypeOK, CtlStates, taskVars
<1>3. CASE DeliverToIPTask
  BY <1>0, <1>3 DEF DeliverToIPTask, TypeOK, CtlStates, taskVars
<1>4. CASE SendEventToIPTask
  <2>1. /\ Append(ipq, cur) \in Seq(Item)
        /\ Len(Append(ipq, cur)) = Len(ipq) + 1
        /\ Len(ipq) \in Nat
    BY <1>0, AppendProperties, LenProperties DEF TypeOK
  <2> QED
    BY <1>0, <1>4, <2>1, EndDispatchType, ControllerAssumption
    DEF SendEventToIPTask, TypeOK, CtlStates, taskVars
<1>5. CASE SendEventTimeout
  BY <1>0, <1>5, EndDispatchType DEF SendEventTimeout, TypeOK, CtlStates, taskVars
<1> QED
  BY <1>1, <1>2, <1>3, <1>4, <1>5 DEF Dispatch

LEMMA PriorityType ==
    ASSUME TypeOK, Recheck \/ ScanQueue \/ ScanEnds
    PROVE  TypeOK'
<1>1. CASE Recheck
  BY <1>1, StartWalkType, Lengths, ControllerAssumption, SMTT(30)
  DEF Recheck, TypeOK, CtlStates, taskVars
<1>2. CASE ScanQueue
  <2>1. List[scan] \in Queue
    BY <1>2, ListInQueue, Lengths DEF ScanQueue, TypeOK
  <2>2. top' \in Nat
    BY <1>2, <2>1, QueueAssumption DEF ScanQueue, TypeOK
  <2>3. scan' \in 1..(Len(List) + 1)
    BY <1>2, Lengths DEF ScanQueue, TypeOK
  <2>4. UNCHANGED <<queue, notified, pc, item, dest, ipq, ctl, leaf, sel, cur,
                    deferred, prio, seen>>
    BY <1>2 DEF ScanQueue, taskVars
  <2> QED
    BY <2>2, <2>3, <2>4 DEF TypeOK
<1>3. CASE ScanEnds
  BY <1>3, StartWalkType, Lengths, ControllerAssumption
  DEF ScanEnds, TypeOK, CtlStates, taskVars
<1> QED
  BY <1>1, <1>2, <1>3

LEMMA EnvironmentType ==
    ASSUME TypeOK,
           \/ \E t \in Task, i \in Item, q \in Queue : InsertPacketByFilter(t, i, q)
           \/ \E t \in Task, i \in Item, q \in Queue : InsertPacketByName(t, i, q)
           \/ \E i \in Item : StackTxEvent(i)
           \/ IPTaskLoop
    PROVE  TypeOK'
<1>1. CASE \E t \in Task, i \in Item, q \in Queue : InsertPacketByFilter(t, i, q)
  BY <1>1 DEF InsertPacketByFilter, StartPush, TypeOK, TaskStates, ctlVars
<1>2. CASE \E t \in Task, i \in Item, q \in Queue : InsertPacketByName(t, i, q)
  BY <1>2 DEF InsertPacketByName, StartPush, TypeOK, TaskStates, ctlVars
<1>3. CASE \E i \in Item : StackTxEvent(i)
  <2>1. PICK i \in Item : StackTxEvent(i)
    BY <1>3
  <2>2. /\ Append(ipq, i) \in Seq(Item)
        /\ Len(Append(ipq, i)) = Len(ipq) + 1
        /\ Len(ipq) \in Nat
    BY AppendProperties, LenProperties DEF TypeOK
  <2> QED
    BY <2>1, <2>2, ControllerAssumption DEF StackTxEvent, TypeOK, taskVars, ctlVars
<1>4. CASE IPTaskLoop
  <2>1. /\ Head(ipq) \in Item
        /\ Tail(ipq) \in Seq(Item)
        /\ Len(Tail(ipq)) = Len(ipq) - 1
        /\ Len(ipq) \in Nat
    BY <1>4, TailKeepsType DEF IPTaskLoop, IPTaskConsumes, IPTaskOutputs, TypeOK
  <2>2. CASE IPTaskConsumes
    BY <2>1, <2>2, ControllerAssumption
    DEF IPTaskConsumes, TypeOK, taskVars, ctlVars
  <2>3. CASE IPTaskOutputs
    BY <2>1, <2>3, ControllerAssumption
    DEF IPTaskOutputs, StartPush, TypeOK, TaskStates, ctlVars
  <2> QED
    BY <1>4, <2>2, <2>3 DEF IPTaskLoop
<1> QED
  BY <1>1, <1>2, <1>3, <1>4

LEMMA StepType == TypeOK /\ [Next]_vars => TypeOK'
<1> SUFFICES ASSUME TypeOK, [Next]_vars PROVE TypeOK'
  OBVIOUS
<1>1. CASE UNCHANGED vars
  BY <1>1 DEF vars, TypeOK
<1>2. CASE Next
  BY <1>2, PushType, WalkType, PopType, DispatchType, PriorityType,
     EnvironmentType DEF Next, Controller
<1> QED
  BY <1>1, <1>2

\* Every variable keeps its type, queues and the IP task's event queue stay
\* within their capacity, and a task or the controller that is in the middle
\* of an operation holds the item and the queue the operation needs.
THEOREM TypeCorrect == Spec => []TypeOK
  BY InitType, StepType, PTL DEF Spec
-----------------------------------------------------------------------------
(***************************************************************************)
(* No lost wakeup.  The property speaks of the sleeping controller only;   *)
(* what carries it there is that a leaf the current walk has left behind   *)
(* is already covered: whatever was added to its queue since is still in   *)
(* flight or has notified, and the notification is not cleared before the  *)
(* next walk starts at the first leaf.                                     *)
(***************************************************************************)
Visited(k) == ctl = "sleep" \/ (ctl = "poll" /\ k < leaf)

Covered(q) == queue[q] # <<>> => notified \/ InFlight(q) \/ q \in deferred

WakeupInv == \A k \in 1..Len(Leaf) : Visited(k) => Covered(Leaf[k])

\* The covering of a queue survives a step that neither adds to it, nor takes
\* its pusher out of flight, nor clears the notification or the deferral.
LEMMA CoveredStays ==
    ASSUME NEW q \in Queue, Covered(q),
           queue'[q] # <<>> => queue[q] # <<>>,
           notified => notified',
           \A t \in Task :
              pc[t] \in {"getprio", "setprio", "notify"} /\ dest[t] = q =>
                 \/ pc'[t] \in {"getprio", "setprio", "notify"} /\ dest'[t] = q
                 \/ notified',
           deferred \subseteq deferred'
    PROVE  Covered(q)'
  BY DEF Covered, InFlight

LEMMA WakeupPush ==
    ASSUME TypeOK, WakeupInv, NEW t \in Task, Push(t)
    PROVE  WakeupInv'
<1> SUFFICES ASSUME NEW k \in 1..Len(Leaf), Visited(k)'
             PROVE  Covered(Leaf[k])'
  BY DEF WakeupInv
<1> DEFINE q == Leaf[k]
<1>1. q \in Queue
  BY LeafInQueue
<1>2. UNCHANGED <<ctl, leaf, deferred>>
  BY DEF Push, SendToBack, SendTimeout, GetPriority, SetPriority, Notify, ctlVars
<1>3. Covered(q)
  BY <1>2 DEF WakeupInv, Visited
<1>4. CASE SendToBack(t)
  <2>1. CASE dest[t] = q
    <3>1. pc'[t] \in {"getprio", "setprio", "notify"} /\ dest'[t] = q
      BY <1>4, <2>1 DEF SendToBack, AfterSend, TypeOK
    <3> QED
      BY <3>1 DEF Covered, InFlight
  <2>2. CASE dest[t] # q
    BY <1>1, <1>2, <1>3, <1>4, <2>2, CoveredStays DEF SendToBack, TypeOK
  <2> QED
    BY <2>1, <2>2
<1>5. CASE SendTimeout(t) \/ GetPriority(t) \/ SetPriority(t) \/ Notify(t)
  BY <1>1, <1>2, <1>3, <1>5, CoveredStays
  DEF SendTimeout, GetPriority, SetPriority, Notify, TypeOK
<1> QED
  BY <1>4, <1>5 DEF Push

LEMMA WakeupController ==
    ASSUME TypeOK, WakeupInv, Controller \/ TakeTimeout
    PROVE  WakeupInv'
<1> SUFFICES ASSUME NEW k \in 1..Len(Leaf), Visited(k)'
             PROVE  Covered(Leaf[k])'
  BY DEF WakeupInv
<1> DEFINE q == Leaf[k]
<1>1. q \in Queue
  BY LeafInQueue
\* A walk that starts has visited no leaf.
<1>2. ~StartWalk
  BY DEF StartWalk, Visited
<1>3. CASE TakeNotification \/ TakeTimeout \/ ScanEnds
  BY <1>2, <1>3 DEF TakeNotification, TakeTimeout, ScanEnds
<1>4. CASE PollSelect \/ Pop \/ Dispatch \/ Recheck \/ ScanQueue
  BY <1>2, <1>4
  DEF PollSelect, Pop, Dispatch, OutputFrame, DeliverToSocket, DeliverToIPTask,
      SendEventToIPTask, SendEventTimeout, EndDispatch, Recheck, ScanQueue,
      Visited, TypeOK
<1>5. CASE PollEmpty
  <2>1. k < leaf \/ k = leaf
    BY <1>5, Lengths DEF PollEmpty, Visited, TypeOK
  <2>2. CASE k = leaf
    BY <1>5, <2>2 DEF PollEmpty, Covered
  <2>3. CASE k < leaf
    <3>1. Covered(q)
      BY <1>5, <2>3 DEF WakeupInv, Visited, PollEmpty
    <3> QED
      BY <1>1, <1>5, <3>1, CoveredStays DEF PollEmpty, taskVars
  <2> QED
    BY <2>1, <2>2, <2>3
<1>6. CASE PollNotReady
  <2>1. k < leaf \/ k = leaf
    BY <1>6, Lengths DEF PollNotReady, Visited, TypeOK
  <2>2. CASE k = leaf
    BY <1>6, <2>2 DEF PollNotReady, Covered
  <2>3. CASE k < leaf
    <3>1. Covered(q)
      BY <1>6, <2>3 DEF WakeupInv, Visited, PollNotReady
    <3> QED
      BY <1>1, <1>6, <3>1, CoveredStays DEF PollNotReady, taskVars
  <2> QED
    BY <2>1, <2>2, <2>3
<1>7. CASE WalkEnds
  <2>1. k < leaf
    BY <1>7, Lengths DEF WalkEnds
  <2>2. Covered(q)
    BY <1>7, <2>1 DEF WakeupInv, Visited, WalkEnds
  <2> QED
    BY <1>1, <1>7, <2>2, CoveredStays DEF WalkEnds, taskVars
<1> QED
  BY <1>3, <1>4, <1>5, <1>6, <1>7 DEF Controller

LEMMA WakeupEnvironment ==
    ASSUME TypeOK, WakeupInv,
           \/ \E t \in Task, i \in Item, q \in Queue : InsertPacketByFilter(t, i, q)
           \/ \E t \in Task, i \in Item, q \in Queue : InsertPacketByName(t, i, q)
           \/ \E i \in Item : StackTxEvent(i)
           \/ IPTaskLoop
    PROVE  WakeupInv'
<1> SUFFICES ASSUME NEW k \in 1..Len(Leaf), Visited(k)'
             PROVE  Covered(Leaf[k])'
  BY DEF WakeupInv
<1>1. Leaf[k] \in Queue
  BY LeafInQueue
<1>2. UNCHANGED <<queue, notified, ctl, leaf, deferred>>
  BY DEF InsertPacketByFilter, InsertPacketByName, StackTxEvent, IPTaskLoop,
     IPTaskConsumes, IPTaskOutputs, ctlVars
<1>3. Covered(Leaf[k])
  BY <1>2 DEF WakeupInv, Visited
<1>4. \A t \in Task : pc[t] # "idle" => pc'[t] = pc[t] /\ dest'[t] = dest[t]
  BY DEF InsertPacketByFilter, InsertPacketByName, StackTxEvent, IPTaskLoop,
     IPTaskConsumes, IPTaskOutputs, StartPush, taskVars, TypeOK
<1> QED
  BY <1>1, <1>2, <1>3, <1>4, CoveredStays

LEMMA WakeupStep == TypeOK /\ WakeupInv /\ [Next]_vars => WakeupInv'
<1> SUFFICES ASSUME TypeOK, WakeupInv, [Next]_vars PROVE WakeupInv'
  OBVIOUS
<1>1. CASE UNCHANGED vars
  BY <1>1 DEF vars, WakeupInv, Visited, Covered, InFlight
<1>2. CASE Next
  BY <1>2, WakeupPush, WakeupController, WakeupEnvironment DEF Next
<1> QED
  BY <1>1, <1>2

\* A sleeping controller with no notification pending has no queue with
\* packets, but for queues whose pusher is about to notify and queues whose
\* ready function asked for a timed wakeup.
THEOREM WakeupNeverLost == Spec => []NoLostWakeup
<1>1. Init => WakeupInv
  BY LeafInQueue DEF Init, WakeupInv, Covered
<1>2. TypeOK /\ WakeupInv => NoLostWakeup
  <2> SUFFICES ASSUME WakeupInv, ctl = "sleep", ~notified,
                      NEW q \in Queue, queue[q] # <<>>
               PROVE  InFlight(q) \/ q \in deferred
    BY DEF NoLostWakeup
  <2>1. PICK k \in 1..Len(Leaf) : Leaf[k] = q
    BY QueueAssumption
  <2>2. Covered(q)
    BY <2>1 DEF WakeupInv, Visited
  <2> QED
    BY <2>2 DEF Covered
<1> QED
  BY <1>1, <1>2, TypeCorrect, WakeupStep, PTL DEF Spec
-----------------------------------------------------------------------------
(***************************************************************************)
(* Strict priority.  Only the controller takes packets out, and it takes   *)
(* none during a walk: a queue that had packets when the walk started has  *)
(* packets when its leaf is polled.                                        *)
(***************************************************************************)
WalkInv ==
    /\ ctl \in {"poll", "pop"} =>
          /\ \A q \in seen : queue[q] # <<>>
          /\ \A j \in 1..(leaf - 1) : Leaf[j] \in seen => Leaf[j] \in deferred
    /\ ctl = "pop" => queue[sel] # <<>>

\* A walk that starts satisfies the invariant.
LEMMA StartWalkInv ==
    ASSUME StartWalk, UNCHANGED queue
    PROVE  WalkInv'
  BY DEF StartWalk, WalkInv

\* So does a step in which the controller and the deferrals stay put and no
\* queue loses its packets.
LEMMA WalkInvStays ==
    ASSUME WalkInv, UNCHANGED ctlVars, TypeOK,
           \A q \in Queue : queue[q] # <<>> => queue'[q] # <<>>
    PROVE  WalkInv'
  BY DEF WalkInv, ctlVars, TypeOK

LEMMA WalkController ==
    ASSUME TypeOK, WalkInv, Controller \/ TakeTimeout
    PROVE  WalkInv'
<1>1. CASE TakeNotification \/ TakeTimeout \/ ScanEnds
  BY <1>1, StartWalkInv DEF TakeNotification, TakeTimeout, ScanEnds
<1>2. CASE PollSelect
  BY <1>2 DEF PollSelect, WalkInv
<1>3. CASE PollEmpty
  <2>1. Leaf[leaf] \notin seen
    BY <1>3 DEF PollEmpty, WalkInv
  <2>2. \A j \in 1..(leaf' - 1) : j \in 1..(leaf - 1) \/ j = leaf
    BY <1>3, Lengths DEF PollEmpty, TypeOK
  <2> QED
    BY <1>3, <2>1, <2>2 DEF PollEmpty, WalkInv
<1>4. CASE PollNotReady
  <2>1. \A j \in 1..(leaf' - 1) : j \in 1..(leaf - 1) \/ j = leaf
    BY <1>4, Lengths DEF PollNotReady, TypeOK
  <2> QED
    BY <1>4, <2>1 DEF PollNotReady, WalkInv
<1>5. CASE WalkEnds
  BY <1>5 DEF WalkEnds, WalkInv
<1>6. CASE Pop
  <2>1. CASE queue[sel] # <<>>
    BY <1>6, <2>1 DEF Pop, WalkInv
  <2>2. CASE queue[sel] = <<>>
    BY <1>6, <2>2, StartWalkInv DEF Pop
  <2> QED
    BY <2>1, <2>2
<1>7. CASE Dispatch
  <2>1. CASE EndDispatch /\ UNCHANGED queue
    BY <2>1, StartWalkInv DEF EndDispatch, WalkInv
  <2>2. CASE DeliverToIPTask
    BY <2>2 DEF DeliverToIPTask, WalkInv
  <2> QED
    BY <1>7, <2>1, <2>2
    DEF Dispatch, OutputFrame, DeliverToSocket, SendEventToIPTask, SendEventTimeout
<1>8. CASE Recheck
  <2>1. CASE queue[sel] = <<>>
    BY <1>8, <2>1 DEF Recheck, WalkInv
  <2>2. CASE queue[sel] # <<>>
    BY <1>8, <2>2, StartWalkInv DEF Recheck
  <2> QED
    BY <2>1, <2>2
<1>9. CASE ScanQueue
  BY <1>9 DEF ScanQueue, WalkInv
<1> QED
  BY <1>1, <1>2, <1>3, <1>4, <1>5, <1>6, <1>7, <1>8, <1>9 DEF Controller

LEMMA WalkStep == TypeOK /\ WalkInv /\ [Next]_vars => WalkInv'
<1> SUFFICES ASSUME TypeOK, WalkInv, [Next]_vars PROVE WalkInv'
  OBVIOUS
<1>1. CASE UNCHANGED vars
  BY <1>1, WalkInvStays DEF vars, ctlVars
<1>2. CASE \E t \in Task : Push(t)
  <2>1. PICK t \in Task : Push(t)
    BY <1>2
  <2>2. UNCHANGED ctlVars
    BY <2>1 DEF Push, SendToBack, SendTimeout, GetPriority, SetPriority, Notify
  <2>3. \A q \in Queue : queue[q] # <<>> => queue'[q] # <<>>
    <3>1. CASE SendToBack(t)
      <4>1. /\ dest[t] \in Queue
            /\ queue[dest[t]] \in Seq(Item)
            /\ item[t] \in Item
        BY <3>1 DEF SendToBack, TypeOK
      <4>2. Append(queue[dest[t]], item[t]) # <<>>
        BY <4>1, AppendProperties
      <4> QED
        BY <3>1, <4>1, <4>2 DEF SendToBack, TypeOK
    <3>2. CASE UNCHANGED queue
      BY <3>2
    <3> QED
      BY <2>1, <3>1, <3>2 DEF Push, SendTimeout, GetPriority, SetPriority, Notify
  <2> QED
    BY <2>2, <2>3, WalkInvStays
<1>3. CASE Controller \/ TakeTimeout
  BY <1>3, WalkController
<1>4. CASE UNCHANGED <<queue, ctlVars>>
  BY <1>4, WalkInvStays
<1> QED
  BY <1>1, <1>2, <1>3, <1>4
  DEF Next, InsertPacketByFilter, InsertPacketByName, StackTxEvent, IPTaskLoop,
      IPTaskConsumes, IPTaskOutputs

LEMMA InvariantOfWalk == Spec => []WalkInv
<1>1. Init => WalkInv
  BY DEF Init, WalkInv
<1> QED
  BY <1>1, TypeCorrect, WalkStep, PTL DEF Spec

\* The queue a walk picks is preceded by no queue that had packets when the
\* walk started, but for the leaves that were not ready.
THEOREM StrictPriority == Spec => []HighestWaitingFirst
<1>1. WalkInv => HighestWaitingFirst
  BY DEF WalkInv, HighestWaitingFirst
<1> QED
  BY <1>1, InvariantOfWalk, PTL

\* The pop with timeout 0 always finds the packet the walk has seen.
THEOREM PopCannotFail == Spec => []PopFindsPacket
<1>1. WalkInv => PopFindsPacket
  BY DEF WalkInv, PopFindsPacket
<1> QED
  BY <1>1, InvariantOfWalk, PTL
=============================================================================

--------------------------- MODULE SchedulerTree ---------------------------
(***************************************************************************)
(* The tree of network nodes: how vNetworkQueueInit() builds it from the   *)
(* calls of the scheduler's API (FreeRTOS_TSN_NetworkSchedulerBlock.c,     *)
(* FreeRTOS_TSN_NetworkSchedulerQueue.c, BasicSchedulers.c, SchedCBS.c),   *)
(* and how the controller walks it by the mutual recursion of              *)
(* pxNetworkSchedulerCall() and the select functions, while other tasks    *)
(* insert packets in the queues.  TSNController takes the order of the     *)
(* leaves as a constant; this module shows where the order comes from.     *)
(*                                                                         *)
(* Abstractions: a queue holds a number of packets; whether the time of a  *)
(* node with prvCBSReady has come is a free choice (CreditBasedScheduler   *)
(* has its arithmetic); the memory of the configuration is never           *)
(* exhausted.                                                              *)
(***************************************************************************)
EXTENDS Integers, Sequences

CONSTANTS
    Layouts,   \* the configurations: the calls that build one, in order, and
               \* the drawing of the tree its author has in mind
    QueueLen   \* length of the FreeRTOS queues; bounds the packets waiting

NoPtr == "NULL"

\* Whom a queue takes: PolicyEvents of NetworkQueues, by policy.
Takes(policy, event) ==
    \/ policy \in {"eSendRecv", "eIPTaskEvents"}
    \/ policy = "eSendOnly" /\ event = "eNetworkTxEvent"
    \/ policy = "eRecvOnly" /\ event = "eNetworkRxEvent"

VARIABLES
    layout,    \* the configuration being built and used
    callNo,    \* the next call of vNetworkQueueInit()
    queueList, \* pxNetworkQueueList: the queues with their names and policies
    nodes,     \* the network nodes: children, queue and scheduler functions
    root,      \* pxNetworkQueueRoot
    waiting,   \* number of packets in each queue
    walk,      \* what the controller does in the tree
    frames,    \* the select functions under way: node and usIter of each
    arg,       \* pxNode of the pxNetworkSchedulerCall() under way
    result,    \* the value being returned
    fresh,     \* ghost: the queues inserted in since the walk began
    blocked    \* ghost: the nodes found not ready since the walk began

treeVars == <<layout, callNo, queueList, nodes, root, waiting, walk, frames,
              arg, result, fresh, blocked>>
walkVars == <<walk, frames, arg, result, fresh, blocked>>
-----------------------------------------------------------------------------
\* ucNumChildren is an uint8_t, the argument it is assigned from is not.
uint8(n) == n % 256

\* A node with n children, not linked yet, and the default functions
\* (pxNetworkNodeCreate() and pvNetworkSchedulerGenericCreate()).
pxNetworkNodeCreate(n) ==
    [ pxNext  |-> [p \in 0..(uint8(n) - 1) |-> NoPtr],
      pxQueue |-> NoPtr,
      fnSelect |-> "prvSelectFirst",
      fnReady |-> "prvAlwaysReady" ]

TreeInit ==
    /\ layout \in Layouts
    /\ callNo = 1
    /\ queueList = <<>>
    /\ nodes = <<>>
    /\ root = NoPtr
    /\ waiting = <<>>
    /\ walk = "init"
    /\ frames = <<>>
    /\ arg = NoPtr
    /\ result = NoPtr
    /\ fresh = {}
    /\ blocked = {}

\* The next call of vNetworkQueueInit() is a call of f.
Calls(f) ==
    /\ callNo <= Len(layout.calls)
    /\ layout.calls[callNo].fn = f
    /\ callNo' = callNo + 1
    /\ UNCHANGED <<layout, walkVars>>

With(table, key, value) ==
    [k \in DOMAIN table \cup {key} |-> IF k = key THEN value ELSE table[k]]

\* A queue is allocated, appended to the list and then configured.
pxNetworkQueueCreate ==
    /\ Calls("pxNetworkQueueCreate")
    /\ LET c == layout.calls[callNo] IN
        /\ queueList' = Append(queueList,
                          [queue |-> c.queue, cName |-> c.cName, ePolicy |-> c.ePolicy])
        /\ waiting' = With(waiting, c.queue, 0)
    /\ UNCHANGED <<nodes, root>>

pxNetworkNodeCreateFIFO ==
    /\ Calls("pxNetworkNodeCreateFIFO")
    /\ nodes' = With(nodes, layout.calls[callNo].node, pxNetworkNodeCreate(1))
    /\ UNCHANGED <<queueList, root, waiting>>

pxNetworkNodeCreateCBS ==
    /\ Calls("pxNetworkNodeCreateCBS")
    /\ nodes' = With(nodes, layout.calls[callNo].node,
                     [pxNetworkNodeCreate(1) EXCEPT !.fnReady = "prvCBSReady"])
    /\ UNCHANGED <<queueList, root, waiting>>

pxNetworkNodeCreatePrio ==
    /\ Calls("pxNetworkNodeCreatePrio")
    /\ LET c == layout.calls[callNo] IN
        nodes' = With(nodes, c.node,
                      [pxNetworkNodeCreate(c.uxNumChildren) EXCEPT
                          !.fnSelect = "prvPrioritySelect"])
    /\ UNCHANGED <<queueList, root, waiting>>

xNetworkSchedulerLinkQueue ==
    /\ Calls("xNetworkSchedulerLinkQueue")
    /\ LET c == layout.calls[callNo] IN nodes' = [nodes EXCEPT ![c.node].pxQueue = c.queue]
    /\ UNCHANGED <<queueList, root, waiting>>

\* Mutant of CanLink: the bound is off by one.
CanLinkAllButLast(node, position) == position + 1 \in DOMAIN node.pxNext /\ node.pxQueue = NoPtr

\* pxNode takes a child at this position; otherwise the call returns pdFAIL,
\* which vNetworkQueueInit() ignores.
CanLink(node, position) == position \in DOMAIN node.pxNext /\ node.pxQueue = NoPtr

xNetworkSchedulerLinkChild ==
    /\ Calls("xNetworkSchedulerLinkChild")
    /\ LET c == layout.calls[callNo] IN
        nodes' = IF CanLink(nodes[c.node], c.uxPosition)
                   THEN [nodes EXCEPT ![c.node].pxNext[c.uxPosition] = c.child]
                   ELSE nodes
    /\ UNCHANGED <<queueList, root, waiting>>

xNetworkQueueAssignRoot ==
    /\ Calls("xNetworkQueueAssignRoot")
    /\ root' = IF root = NoPtr THEN layout.calls[callNo].node ELSE root
    /\ UNCHANGED <<queueList, nodes, waiting>>

\* vNetworkQueueInit() returns and the controller starts.
TreeReady ==
    /\ walk = "init"
    /\ callNo = Len(layout.calls) + 1
    /\ walk' = "idle"
    /\ UNCHANGED <<layout, callNo, queueList, nodes, root, waiting, frames, arg,
                   result, fresh, blocked>>
-----------------------------------------------------------------------------
\* The first queue on the list with this name whose policy takes the event.
pxNetworkQueueFindByName(name, event) ==
    LET Found == {i \in DOMAIN queueList :
                    /\ Takes(queueList[i].ePolicy, event)
                    /\ queueList[i].cName = name}
    IN  IF Found = {} THEN NoPtr
        ELSE queueList[CHOOSE i \in Found : \A j \in Found : i <= j].queue

\* Another task inserts a packet in a queue by name; a full queue refuses it.
InsertPacketByName(name, event) ==
    /\ walk # "init"
    /\ LET q == pxNetworkQueueFindByName(name, event) IN
        /\ q # NoPtr
        /\ waiting[q] < QueueLen
        /\ waiting' = [waiting EXCEPT ![q] = @ + 1]
        /\ fresh' = fresh \cup {q}
    /\ UNCHANGED <<layout, callNo, queueList, nodes, root, walk, frames, arg, result, blocked>>

\* The controller calls xNetworkQueueSchedule().
xNetworkQueueSchedule ==
    /\ walk = "idle"
    /\ frames' = <<>>
    /\ arg' = root
    /\ result' = NoPtr
    /\ walk' = IF root # NoPtr THEN "call" ELSE "return"
    /\ fresh' = {}
    /\ blocked' = {}
    /\ UNCHANGED <<layout, callNo, queueList, nodes, root, waiting>>

Return(r) == walk' = "return" /\ result' = r /\ UNCHANGED <<frames, arg>>

Call(n, stack) == walk' = "call" /\ arg' = n /\ frames' = stack /\ UNCHANGED result

Walking == UNCHANGED <<layout, callNo, queueList, nodes, root, waiting, fresh>>

\* fnReady of the node says no.
SchedulerNotReady ==
    /\ walk = "call" /\ arg # NoPtr
    /\ nodes[arg].fnReady = "prvCBSReady"
    /\ Return(NoPtr)
    /\ blocked' = blocked \cup {arg}
    /\ Walking

\* The node is ready and has a queue: it is the result unless it is empty.
SchedulerLeaf ==
    /\ walk = "call" /\ arg # NoPtr
    /\ LET q == nodes[arg].pxQueue IN
        /\ q # NoPtr
        /\ Return(IF waiting[q] > 0 THEN q ELSE NoPtr)
    /\ UNCHANGED blocked
    /\ Walking

\* The time of a CBS node without a queue has come: pxPeekNextPacket() reads
\* the queue through the NULL pointer, and what is modelled ends.
PeeksNullQueue ==
    /\ nodes[arg].fnReady = "prvCBSReady"
    /\ walk' = "fault" /\ UNCHANGED <<frames, arg, result>>

\* The node is ready and has no queue: its select function calls the first
\* child.
SelectsFirst ==
    /\ nodes[arg].fnReady # "prvCBSReady"
    /\ IF nodes[arg].fnSelect = "prvPrioritySelect" /\ DOMAIN nodes[arg].pxNext = {}
         THEN Return(NoPtr)
         ELSE Call(nodes[arg].pxNext[0], Append(frames, [pxNode |-> arg, usIter |-> 0]))

SchedulerSelect ==
    /\ walk = "call" /\ arg # NoPtr
    /\ nodes[arg].pxQueue = NoPtr
    /\ PeeksNullQueue \/ SelectsFirst
    /\ UNCHANGED blocked
    /\ Walking

Top == frames[Len(frames)]
Pop == SubSeq(frames, 1, Len(frames) - 1)

\* The loop of prvPrioritySelect() has another child to try.
TriesNext(r) ==
    /\ nodes[Top.pxNode].fnSelect = "prvPrioritySelect"
    /\ r = NoPtr
    /\ Top.usIter + 1 \in DOMAIN nodes[Top.pxNode].pxNext

\* Mutant of SelectResumes: the loop does not stop at the queue it found.
SelectForgets ==
    /\ walk = "return" /\ frames # <<>>
    /\ IF TriesNext(NoPtr)
         THEN Call(nodes[Top.pxNode].pxNext[Top.usIter + 1],
                   Append(Pop, [Top EXCEPT !.usIter = @ + 1]))
         ELSE frames' = Pop /\ UNCHANGED <<walk, arg, result>>
    /\ UNCHANGED blocked
    /\ Walking

\* The called child returned to the select function of its parent.
SelectResumes ==
    /\ walk = "return" /\ frames # <<>>
    /\ IF TriesNext(result)
         THEN Call(nodes[Top.pxNode].pxNext[Top.usIter + 1],
                   Append(Pop, [Top EXCEPT !.usIter = @ + 1]))
         ELSE frames' = Pop /\ UNCHANGED <<walk, arg, result>>
    /\ UNCHANGED blocked
    /\ Walking

\* The controller takes a packet of the queue selected, or goes to sleep.
ControllerPops ==
    /\ walk = "return" /\ frames = <<>>
    /\ walk' = "idle"
    /\ waiting' = IF result = NoPtr THEN waiting ELSE [waiting EXCEPT ![result] = @ - 1]
    /\ UNCHANGED <<layout, callNo, queueList, nodes, root, frames, arg, result, fresh, blocked>>

TreeNext ==
    \/ pxNetworkQueueCreate
    \/ pxNetworkNodeCreateFIFO
    \/ pxNetworkNodeCreateCBS
    \/ pxNetworkNodeCreatePrio
    \/ xNetworkSchedulerLinkQueue
    \/ xNetworkSchedulerLinkChild
    \/ xNetworkQueueAssignRoot
    \/ TreeReady
    \/ \E i \in DOMAIN queueList, e \in {"eNetworkTxEvent", "eNetworkRxEvent"} :
            InsertPacketByName(queueList[i].cName, e)
    \/ xNetworkQueueSchedule
    \/ SchedulerNotReady
    \/ SchedulerLeaf
    \/ SchedulerSelect
    \/ SelectResumes
    \/ ControllerPops

TreeSpec == TreeInit /\ [][TreeNext]_treeVars
-----------------------------------------------------------------------------
(***************************************************************************)
(* What the template asks of a configuration, and no call checks.          *)
(***************************************************************************)
NodeCreations == {"pxNetworkNodeCreateFIFO", "pxNetworkNodeCreateCBS",
                  "pxNetworkNodeCreatePrio"}

\* Call k of a layout creates node n, or gives it a queue or a child.
Creates(l, k, n) == l.calls[k].fn \in NodeCreations /\ l.calls[k].node = n

GivesQueue(l, k, n) ==
    l.calls[k].fn = "xNetworkSchedulerLinkQueue" /\ l.calls[k].node = n

GivesChild(l, k, n, p) ==
    /\ l.calls[k].fn = "xNetworkSchedulerLinkChild"
    /\ l.calls[k].node = n /\ l.calls[k].uxPosition = p

CreatedBefore(l, k, n) == \E j \in 1..(k - 1) : Creates(l, j, n)

\* The places for children of the node that call k creates.
Positions(l, k) ==
    IF l.calls[k].fn = "pxNetworkNodeCreatePrio"
      THEN 0..(l.calls[k].uxNumChildren - 1) ELSE 0..0

\* Call k is the first that assigns a root.
AssignsRoot(l, k) ==
    /\ l.calls[k].fn = "xNetworkQueueAssignRoot"
    /\ \A j \in 1..(k - 1) : l.calls[j].fn # "xNetworkQueueAssignRoot"

\* "A scheduler should have all of its children correctly linked"
\* (NetworkQueueExample.c:13): handles are used after they were created, and
\* every node is given a queue, or a child at each of its places.  A node has
\* at most as many children as ucNumChildren can count, and a CBS node, whose
\* readiness depends on the packet it sends next, is given a queue.
CorrectlyLinked(l) ==
    /\ Len(l.calls) \in Nat
    /\ \A j, k \in 1..Len(l.calls) :
          l.calls[k].fn \in NodeCreations /\ Creates(l, j, l.calls[k].node) => j = k
    /\ \A k \in 1..Len(l.calls) :
          /\ l.calls[k].fn = "pxNetworkNodeCreatePrio" =>
                l.calls[k].uxNumChildren \in 0..255
          /\ l.calls[k].fn = "pxNetworkNodeCreateCBS" =>
                \E j \in 1..Len(l.calls) : GivesQueue(l, j, l.calls[k].node)
          /\ l.calls[k].fn = "xNetworkSchedulerLinkQueue" =>
                CreatedBefore(l, k, l.calls[k].node) /\ l.calls[k].queue # NoPtr
          /\ l.calls[k].fn = "xNetworkSchedulerLinkChild" =>
                CreatedBefore(l, k, l.calls[k].node)
                /\ CreatedBefore(l, k, l.calls[k].child)
          /\ l.calls[k].fn = "xNetworkQueueAssignRoot" =>
                CreatedBefore(l, k, l.calls[k].node)
          /\ l.calls[k].fn \in NodeCreations =>
                LET n == l.calls[k].node IN
                /\ n # NoPtr
                /\ \/ \E j \in 1..Len(l.calls) : GivesQueue(l, j, n)
                   \/ \A p \in Positions(l, k) :
                         \E j \in 1..Len(l.calls) : GivesChild(l, j, n, p)

\* The queues drawn below a node, by their place in the drawing.
Below(l, n) == {i \in DOMAIN l.drawn : n \in l.drawn[i].above}

\* The drawing shows the queue of a node below the node.
QueueAsDrawn(l) ==
    \A k \in 1..Len(l.calls) :
        l.calls[k].fn = "xNetworkSchedulerLinkQueue" =>
            /\ Below(l, l.calls[k].node) # {}
            /\ \A i \in Below(l, l.calls[k].node) :
                  l.drawn[i].queue = l.calls[k].queue

\* The drawing shows below a node without a queue what it shows below its
\* children, the children in the order of their places.
ChildrenAsDrawn(l) ==
    \A k \in 1..Len(l.calls) :
        LET n == l.calls[k].node IN
        l.calls[k].fn \in NodeCreations =>
            \/ \E j \in 1..Len(l.calls) : GivesQueue(l, j, n)
            \/ /\ Below(l, n) =
                     UNION {Below(l, l.calls[j].child) :
                              j \in {j \in 1..Len(l.calls) :
                                       \E p \in Positions(l, k) : GivesChild(l, j, n, p)}}
               /\ \A j1, j2 \in 1..Len(l.calls), p1, p2 \in Positions(l, k) :
                     GivesChild(l, j1, n, p1) /\ GivesChild(l, j2, n, p2) =>
                        /\ p1 = p2 => l.calls[j1].child = l.calls[j2].child
                        /\ p1 < p2 => \A i1 \in Below(l, l.calls[j1].child),
                                         i2 \in Below(l, l.calls[j2].child) : i1 < i2

\* The drawing shows every queue, and all of them below the root.
RootAsDrawn(l) ==
    /\ \E k \in 1..Len(l.calls) :
          AssignsRoot(l, k) /\ Below(l, l.calls[k].node) = DOMAIN l.drawn
    /\ Len(l.drawn) \in Nat /\ DOMAIN l.drawn = 1..Len(l.drawn)
    /\ \A i \in DOMAIN l.drawn :
          \E k \in 1..Len(l.calls) :
             l.calls[k].fn = "pxNetworkQueueCreate" /\ l.calls[k].queue = l.drawn[i].queue

AsDrawn(l) == QueueAsDrawn(l) /\ ChildrenAsDrawn(l) /\ RootAsDrawn(l)

ASSUME LayoutsAssumption == \A l \in Layouts : CorrectlyLinked(l) /\ AsDrawn(l)
-----------------------------------------------------------------------------
(***************************************************************************)
(* However insertions interleave with the walk, its result is right for    *)
(* the tree as drawn ("Schema of the desired layout",                      *)
(* NetworkQueueExample.c:52): a queue drawn above another is passed over   *)
(* only if it was empty, was filled after the walk began, or lies below a  *)
(* node found not ready; and the queue returned still holds a packet for   *)
(* the controller to pop.                                                  *)
(***************************************************************************)
ServesAsDrawn ==
    walk = "return" /\ frames = <<>> =>
        /\ result # NoPtr => waiting[result] > 0
        /\ \A i \in DOMAIN layout.drawn :
             LET q == layout.drawn[i].queue IN
               \/ \E j \in 1..i : layout.drawn[j].queue = result
               \/ waiting[q] = 0
               \/ q \in fresh
               \/ layout.drawn[i].above \cap blocked # {}

(***************************************************************************)
(* The walk of a tree built by the rules of the template ("A scheduler     *)
(* should have all of its children correctly linked",                      *)
(* NetworkQueueExample.c:13) never calls the scheduler of a NULL node      *)
(* (FreeRTOS_TSN_NetworkSchedulerBlock.c:189) nor peeks the NULL queue of  *)
(* one (FreeRTOS_TSN_NetworkSchedulerBlock.c:226), although no call of the *)
(* construction checks the rules.                                          *)
(***************************************************************************)
NoNullNode == walk # "fault" /\ (walk = "call" => arg \in DOMAIN nodes)
=============================================================================

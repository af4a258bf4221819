------------------------------ MODULE MCUnits ------------------------------
(***************************************************************************)
(* The parts of the code that keep their own state and are checked each by *)
(* itself: a behaviour exercises one of them, and the others stay at a     *)
(* state they start in.  Their state spaces add up instead of multiplying. *)
(***************************************************************************)
EXTENDS QueueSelection, CreditBasedScheduler, Timebase, ControlMessages, Frames,
        SchedulerTree, Datagrams, BoundSockets

CONSTANT Units   \* the parts this run exercises

VARIABLE unit    \* the one this behaviour exercises

\* Frames of the IP stack: type, first word of the network header, payload.
\* An IPv4 and an IPv6 packet with a class, and an ARP packet whose content
\* looks like the types the code compares with.
MCContents == { <<IPv4, 69 * 256 + 186, 7, 8, 9>>,
                <<IPv6, 6 * 4096 + 46 * 64 + 37, 7, 8, 9>>,
                <<2054, 1, IPv4, 6, 5>> }

\* The calls of the template, in its order.
Queue(q, policy) ==
    [fn |-> "pxNetworkQueueCreate", queue |-> q, cName |-> q, ePolicy |-> policy]
FIFO(n) == [fn |-> "pxNetworkNodeCreateFIFO", node |-> n]
CBS(n) == [fn |-> "pxNetworkNodeCreateCBS", node |-> n]
Prio(n, k) == [fn |-> "pxNetworkNodeCreatePrio", node |-> n, uxNumChildren |-> k]
LinkQueue(n, q) == [fn |-> "xNetworkSchedulerLinkQueue", node |-> n, queue |-> q]
LinkChild(n, c, p) ==
    [fn |-> "xNetworkSchedulerLinkChild", node |-> n, child |-> c, uxPosition |-> p]
AssignRoot(n) == [fn |-> "xNetworkQueueAssignRoot", node |-> n]
Drawn(q, above) == [queue |-> q, above |-> above]

Template ==
    [ calls |-> <<
        Queue("queue1", "eSendRecv"), Queue("queue2_s", "eSendOnly"),
        Queue("queue2_r", "eRecvOnly"), Queue("queue3", "eIPTaskEvents"),
        FIFO("fifoHP"), LinkQueue("fifoHP", "queue1"),
        CBS("cbs"), LinkQueue("cbs", "queue2_s"),
        FIFO("fifo2"), LinkQueue("fifo2", "queue2_r"),
        FIFO("fifo"), LinkQueue("fifo", "queue3"),
        Prio("prio_cbs", 2), LinkChild("prio_cbs", "cbs", 0),
        LinkChild("prio_cbs", "fifo2", 1),
        Prio("prio", 3), LinkChild("prio", "fifoHP", 0),
        LinkChild("prio", "prio_cbs", 1), LinkChild("prio", "fifo", 2),
        AssignRoot("prio") >>,
      drawn |-> <<
        Drawn("queue1", {"prio", "fifoHP"}),
        Drawn("queue2_s", {"prio", "prio_cbs", "cbs"}),
        Drawn("queue2_r", {"prio", "prio_cbs", "fifo2"}),
        Drawn("queue3", {"prio", "fifo"}) >> ]

\* Linked from the root downwards and backwards, below a FIFO node; the link
\* outside the children and the second root are refused.
Refusals ==
    [ calls |-> <<
        Queue("low", "eIPTaskEvents"), Queue("mid", "eRecvOnly"),
        Queue("high", "eSendOnly"),
        FIFO("top"), AssignRoot("top"), Prio("prio", 3), AssignRoot("prio"),
        LinkChild("top", "prio", 0),
        FIFO("c"), LinkChild("prio", "c", 2), LinkQueue("c", "low"),
        CBS("b"), LinkChild("prio", "b", 1), LinkQueue("b", "mid"),
        FIFO("a"), LinkChild("prio", "a", 0), LinkQueue("a", "high"),
        LinkChild("prio", "c", 3), LinkChild("a", "c", 0),
        AssignRoot("c") >>,
      drawn |-> <<
        Drawn("high", {"top", "prio", "a"}),
        Drawn("mid", {"top", "prio", "b"}),
        Drawn("low", {"top", "prio", "c"}) >> ]

MCLayouts == {Template, Refusals}
-----------------------------------------------------------------------------
IdleSelection ==
    /\ match = [k \in 1..N |-> FALSE]
    /\ ipv = [k \in 1..N |-> 0]
    /\ iter = 1
    /\ chosen = 0

UnitsInit ==
    /\ unit \in Units
    /\ IF unit = "QueueSelection" THEN SelectionInit ELSE IdleSelection
    /\ Init   \* of CreditBasedScheduler
    /\ TimebaseInit
    /\ ControlInit
    /\ FramesInit /\ (unit # "Frames" => rest = CHOOSE c \in Contents : TRUE)
    /\ TreeInit /\ (unit # "SchedulerTree" => layout = CHOOSE l \in Layouts : TRUE)
    /\ DatagramsInit
    /\ BoundInit

UnitsNext ==
    \/ /\ unit = "QueueSelection" /\ SelectionNext
       /\ UNCHANGED <<unit, vars, timebaseVars, controlVars, frameVars,
                      treeVars, dgramVars, boundVars>>
    \/ /\ unit = "CreditBasedScheduler" /\ Next
       /\ UNCHANGED <<unit, selectionVars, timebaseVars, controlVars, frameVars,
                      treeVars, dgramVars, boundVars>>
    \/ /\ unit = "Timebase" /\ TimebaseNext
       /\ UNCHANGED <<unit, selectionVars, vars, controlVars, frameVars,
                      treeVars, dgramVars, boundVars>>
    \/ /\ unit = "ControlMessages" /\ ControlNext
       /\ UNCHANGED <<unit, selectionVars, vars, timebaseVars, frameVars,
                      treeVars, dgramVars, boundVars>>
    \/ /\ unit = "Frames" /\ FramesNext
       /\ UNCHANGED <<unit, selectionVars, vars, timebaseVars, controlVars,
                      treeVars, dgramVars, boundVars>>
    \/ /\ unit = "SchedulerTree" /\ TreeNext
       /\ UNCHANGED <<unit, selectionVars, vars, timebaseVars, controlVars,
                      frameVars, dgramVars, boundVars>>
    \/ /\ unit = "Datagrams" /\ DatagramsNext
       /\ UNCHANGED <<unit, selectionVars, vars, timebaseVars, controlVars,
                      frameVars, treeVars, boundVars>>
    \/ /\ unit = "BoundSockets" /\ BoundNext
       /\ UNCHANGED <<unit, selectionVars, vars, timebaseVars, controlVars,
                      frameVars, treeVars, dgramVars>>

UnitsSpec ==
    UnitsInit /\ [][UnitsNext]_<<unit, selectionVars, vars, timebaseVars, controlVars,
                                frameVars, treeVars, dgramVars, boundVars>>
=============================================================================

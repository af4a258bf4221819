------------------------ MODULE CreditBasedScheduler ------------------------
(***************************************************************************)
(* One credit based scheduler node and its queue                           *)
(* (modules/CreditBasedScheduler/SchedCBS.c).  The controller calls the    *)
(* ready function again and again, at times it does not control; ticks and *)
(* pushes happen between any two of its steps.                             *)
(*                                                                         *)
(* A packet is its length in bytes.  Time is the tick count; it does not   *)
(* wrap in this model.                                                     *)
(***************************************************************************)
EXTENDS Naturals, Sequences

CONSTANTS
    Bandwidth,    \* uxBandwidth, bits per second
    MaxCredit,    \* uxMaxCredit, bits
    TickRate,     \* configTICK_RATE_HZ
    Lengths,      \* lengths of the packets that are pushed
    NullLengths,  \* what reading xDataLength through a NULL pointer can yield
    QueueLength,  \* capacity of the queue
    Packets,      \* bound: packets pushed in a behaviour
    Horizon       \* bound: last tick of a behaviour

ASSUME CBSAssumption ==
    /\ Bandwidth \in Nat \ {0}
    /\ MaxCredit \in Nat
    /\ TickRate \in Nat \ {0}
    /\ Lengths \subseteq Nat
    /\ NullLengths \subseteq Nat
    /\ QueueLength \in Nat
    /\ Packets \in Nat
    /\ Horizon \in Nat

VARIABLES
    now,       \* xTaskGetTickCount()
    queue,     \* the packets in the leaf's queue
    supply,    \* packets that can still be pushed
    pc,        \* where the controller is
    at,        \* uxNow of the last call of prvCBSReady()
    next,      \* uxNextActivation
    open,      \* history: an observation window is open, since tick start,
    start,     \*   on a call that found the node ready
    before,    \* history: ticks charged in the window before the last charge
    charged    \* history: ticks charged in the window

history == <<open, start, before, charged>>
vars    == <<now, queue, supply, pc, at, next, open, start, before, charged>>

pdMS_TO_TICKS(ms) == (ms * TickRate) \div 1000

\* The ticks a packet costs, and the ticks the credit is worth.
Delay(len) == pdMS_TO_TICKS((len * 8 * 1000) \div Bandwidth)
MaxDelay   == pdMS_TO_TICKS((MaxCredit * 1000) \div Bandwidth)

TypeOK ==
    /\ now \in Nat
    /\ queue \in Seq(Lengths)
    /\ supply \in Nat
    /\ pc \in {"idle", "ready", "select"}
    /\ at \in Nat /\ at <= now
    /\ next \in Nat
    /\ open \in BOOLEAN
    /\ start \in Nat /\ before \in Nat /\ charged \in Nat

\* pxNetworkNodeCreateCBS() takes the current tick as the first activation.
Init ==
    /\ now = 0
    /\ queue = <<>>
    /\ supply = Packets
    /\ pc = "idle"
    /\ at = 0
    /\ next = 0
    /\ open = FALSE
    /\ start = 0 /\ before = 0 /\ charged = 0

Tick ==
    /\ now < Horizon
    /\ now' = now + 1
    /\ UNCHANGED <<queue, supply, pc, at, next, history>>

Push(len) ==
    /\ supply > 0
    /\ Len(queue) < QueueLength
    /\ queue' = Append(queue, len)
    /\ supply' = supply - 1
    /\ UNCHANGED <<now, pc, at, next, history>>

\* prvCBSReady() reads the clock.
CallReady ==
    /\ pc = "idle"
    /\ at' = now
    /\ pc' = "ready"
    /\ UNCHANGED <<now, queue, supply, next, history>>

\* The next activation is in the future: a wakeup is requested, pdFALSE.
NotReady ==
    /\ pc = "ready"
    /\ at < next
    /\ pc' = "idle"
    /\ UNCHANGED <<now, queue, supply, at, next, history>>

\* The window may open with this charge; an open one goes on.
Observe(d) ==
    \/ /\ ~open
       /\ open' \in BOOLEAN
       /\ start' = IF open' THEN at ELSE 0
       /\ before' = 0
       /\ charged' = IF open' THEN d ELSE 0
    \/ /\ open
       /\ before' = charged
       /\ charged' = charged + d
       /\ UNCHANGED <<open, start>>

\* Mutant of Charged: the activation always moves up to the credit.
ChargedAlwaysCapped(d) == at - MaxDelay + d

\* Mutant of Charged: the credit is never capped.
ChargedUncapped(d) == next + d

\* uxNextActivation after a charge of d ticks: credit older than MaxDelay is
\* forgotten first.
Charged(d) ==
    (IF next + MaxDelay < at THEN at - MaxDelay ELSE next) + d

\* The node is ready and pays for the packet at the head of the queue.  On an
\* empty queue pxPeekNextPacket() returns NULL, which is read all the same.
Charge(len) ==
    /\ pc = "ready"
    /\ next <= at
    /\ IF queue # <<>> THEN len = Head(queue) ELSE len \in NullLengths
    /\ next' = Charged(Delay(len))
    /\ Observe(Delay(len))
    /\ pc' = "select"
    /\ UNCHANGED <<now, queue, supply, at>>

\* pxNetworkSchedulerCall() looks whether the queue is empty, after the ready
\* function; the controller sends the packet.
Select ==
    /\ pc = "select"
    /\ queue' = IF queue # <<>> THEN Tail(queue) ELSE queue
    /\ pc' = "idle"
    /\ UNCHANGED <<now, supply, at, next, history>>

Next ==
    \/ Tick
    \/ \E len \in Lengths : Push(len)
    \/ CallReady
    \/ NotReady
    \/ \E len \in Lengths \cup NullLengths : Charge(len)
    \/ Select

Spec == Init /\ [][Next]_vars
-----------------------------------------------------------------------------
(***************************************************************************)
(* Conformance.  In any window that starts with the node ready, the ticks  *)
(* charged before the current packet do not exceed the time elapsed plus   *)
(* the credit: however the controller is delayed, whatever is charged on   *)
(* an empty queue, and however long the node was idle before, a burst is   *)
(* worth MaxDelay ticks at most (SchedCBS.c:24-40).                        *)
(***************************************************************************)
BurstBounded == open /\ pc = "select" => before <= (at - start) + MaxDelay
=============================================================================

-------------------------- MODULE TimedController --------------------------
(***************************************************************************)
(* The TSN controller with a clock: when it goes back to sleep, for how    *)
(* long, and who asked for that (uxNextWakeup,                             *)
(* FreeRTOS_TSN_NetworkSchedulerBlock.c; prvCBSReady(), SchedCBS.c).       *)
(*                                                                         *)
(* TSNController polls a leaf in one step.  Here a poll of a shaped leaf   *)
(* is the sequence the code runs: the ready function reads the clock; it   *)
(* charges the leaf, or asks for a wakeup; only then is the queue tested.  *)
(* A tick may come between any two of them.  Costs and credits are in      *)
(* ticks; CreditBasedScheduler models where these come from.               *)
(*                                                                         *)
(* Going to sleep is a sequence too.  configMIN() is a macro (external), so *)
(* that uxNetworkQueueGetTicksUntilWakeup() is called once to compare and  *)
(* once more for its value; what it returns is relative, and counts only   *)
(* from the moment ulTaskNotifyTake() begins to wait.                      *)
(***************************************************************************)
EXTENDS TSNController

CONSTANTS
    Cost,          \* the delays, in ticks, that a charge may add
    MaxDelay,      \* uxMaxDelay of each shaped queue
    MaxEventWait,  \* tsnconfigCONTROLLER_MAX_EVENT_WAIT, in ticks
    portMAX_DELAY, \* no wakeup; as a time to wait, no limit
    Horizon        \* bound: the last tick of a behaviour

ASSUME TimedAssumption ==
    /\ Cost \subseteq Nat
    /\ MaxDelay \in [Shaped -> Nat]
    /\ MaxEventWait \in Nat \ {0}
    /\ portMAX_DELAY \in Nat /\ MaxEventWait < portMAX_DELAY
    /\ Horizon \in Nat

VARIABLES
    now,      \* xTaskGetTickCount()
    wakeup,   \* uxNextWakeup
    sleep,    \* uxTimeToSleep
    until,    \* the tick at which ulTaskNotifyTake() times out, while it waits
    phase,    \* where the controller is inside the state ctl
    at,       \* uxNow of the last call of prvCBSReady()
    next,     \* uxNextActivation of each shaped queue
    read,     \* history: uxNow of the last call of
              \*   uxNetworkQueueGetTicksUntilWakeup(), until the sleep ends
    missed    \* history: with a leaf deferred in this walk, the wakeup came
              \*   due before that call, or a leaf asked for one already due

clockVars == <<now, wakeup, sleep, until, at, next, read, missed>>
timedVars == <<vars, clockVars, phase>>

\* "compare", "compute", "wait" and "take": the two calls behind configMIN(),
\* and before and in ulTaskNotifyTake().  "call": the next leaf.  "charge",
\* "ask", "test": inside the call of a leaf's ready function and after it.
Asleep == {"compare", "compute", "wait", "take"}
Phases == Asleep \cup {"call", "charge", "ask", "test"}

TimedTypeOK ==
    /\ TypeOK
    /\ now \in Nat /\ wakeup \in Nat /\ at \in 0..now /\ read \in 0..now
    /\ sleep \in Nat /\ until \in Nat
    /\ phase \in Phases
    /\ phase \in Asleep <=> ctl = "sleep"
    /\ phase \in {"charge", "ask", "test"} => ctl = "poll" /\ leaf <= Len(Leaf)
    /\ phase \in {"charge", "ask"} => Leaf[leaf] \in Shaped
    /\ next \in [Shaped -> Nat]
    /\ missed \in BOOLEAN

TimedInit ==
    /\ Init
    /\ now = 0 /\ wakeup = 0 /\ at = 0 /\ read = 0
    /\ sleep = 0 /\ until = 0
    /\ phase = "compare"
    /\ next = [q \in Shaped |-> 0]
    /\ missed = FALSE

\* The tick interrupt.
Tick ==
    /\ now < Horizon
    /\ now' = now + 1
    /\ missed' = \/ missed
                 \/ deferred # {} /\ wakeup = now' /\ phase \notin {"wait", "take"}
    /\ UNCHANGED <<vars, wakeup, sleep, until, phase, at, next, read>>

\* What uxNetworkQueueGetTicksUntilWakeup() returns: a wakeup that is due
\* counts as none.
TicksUntilWakeup == IF now < wakeup THEN wakeup - now ELSE portMAX_DELAY

\* The comparison of configMIN(): unless there is a wakeup within the period,
\* the period is its value.
CompareSleep ==
    /\ phase = "compare"
    /\ read' = now
    /\ IF TicksUntilWakeup < MaxEventWait
         THEN phase' = "compute" /\ UNCHANGED sleep
         ELSE phase' = "wait" /\ sleep' = MaxEventWait
    /\ UNCHANGED <<vars, now, wakeup, until, at, next, missed>>

\* The value of configMIN() otherwise: the ticks are counted again.
ComputeSleep ==
    /\ phase = "compute"
    /\ read' = now
    /\ sleep' = TicksUntilWakeup
    /\ phase' = "wait"
    /\ UNCHANGED <<vars, now, wakeup, until, at, next, missed>>

\* ulTaskNotifyTake() begins to wait for uxTimeToSleep from now on.
BeginWait ==
    /\ phase = "wait"
    /\ until' = now + sleep
    /\ phase' = "take"
    /\ UNCHANGED <<vars, now, wakeup, sleep, at, next, read, missed>>

\* ulTaskNotifyTake() returns, for one of its two reasons.
Wake ==
    /\ phase = "take"
    /\ \/ TakeNotification
       \/ sleep # portMAX_DELAY /\ until <= now /\ TakeTimeout
    /\ phase' = "call"
    /\ until' = 0 /\ read' = 0 /\ missed' = FALSE
    /\ UNCHANGED <<now, wakeup, sleep, at, next>>

\* netschedCALL_READY_FROM_NODE(): an unshaped leaf is always ready; that of a
\* shaped one reads the clock and compares it with the next activation.
CallReady ==
    /\ ctl = "poll" /\ phase = "call"
    /\ leaf <= Len(Leaf)
    /\ IF Leaf[leaf] \in Shaped
         THEN /\ at' = now
              /\ phase' = IF next[Leaf[leaf]] <= now THEN "charge" ELSE "ask"
         ELSE phase' = "test" /\ UNCHANGED at
    /\ UNCHANGED <<vars, now, wakeup, sleep, until, next, read, missed>>

\* Mutant of Charge: the activation always moves up to the credit.
ChargeAlwaysCapped(c) ==
    /\ phase = "charge"
    /\ LET q == Leaf[leaf]
       IN  next' = [next EXCEPT ![q] = at - MaxDelay[q] + c]
    /\ phase' = "test"
    /\ UNCHANGED <<vars, now, wakeup, sleep, until, at, read, missed>>

\* The charge, for the packet at the head of the queue or for whatever is read
\* when there is none.
Charge(c) ==
    /\ phase = "charge"
    /\ LET q == Leaf[leaf]
       IN  next' = [next EXCEPT ![q] =
                      (IF @ + MaxDelay[q] < at THEN at - MaxDelay[q] ELSE @) + c]
    /\ phase' = "test"
    /\ UNCHANGED <<vars, now, wakeup, sleep, until, at, read, missed>>

\* Mutant of Earliest: a wakeup that has passed still counts.
EarliestStale(t) == IF t < wakeup THEN t ELSE wakeup

\* What vNetworkQueueAddWakeupEvent() keeps, of the request t and the wakeup
\* that is set.
Earliest(t) == IF t < wakeup \/ wakeup <= now THEN t ELSE wakeup

\* The leaf is not ready: vNetworkQueueAddWakeupEvent() reads the clock again.
AskWakeup ==
    /\ phase = "ask"
    /\ PollNotReady
    /\ wakeup' = Earliest(next[Leaf[leaf]])
    /\ missed' = (missed \/ next[Leaf[leaf]] <= now)
    /\ phase' = "call"
    /\ UNCHANGED <<now, sleep, until, at, next, read>>

\* Mutant of TestQueue: a leaf that was charged is taken to have packets.
TestQueueTrusting ==
    /\ phase = "test"
    /\ PollSelectUntested \/ PollEmpty
    /\ phase' = "call"
    /\ UNCHANGED clockVars

\* pxNetworkSchedulerCall() tests the queue after the ready function.
TestQueue ==
    /\ phase = "test"
    /\ PollSelect \/ PollEmpty
    /\ phase' = "call"
    /\ UNCHANGED clockVars

TimedWalkEnds ==
    /\ phase = "call"
    /\ WalkEnds
    /\ phase' = "compare"
    /\ UNCHANGED clockVars

\* The walk starts anew after a packet was handled: what was deferred before
\* is polled again.
Handle ==
    /\ Pop \/ Dispatch \/ Recheck \/ ScanQueue \/ ScanEnds
    /\ missed' = (missed /\ deferred' # {})
    /\ UNCHANGED <<now, wakeup, sleep, until, phase, at, next, read>>

\* The other tasks, of which the clock sees nothing.
Environment ==
    /\ \/ \E t \in Task, i \in Item, q \in Queue : InsertPacketByFilter(t, i, q)
       \/ \E t \in Task, i \in Item, q \in Queue : InsertPacketByName(t, i, q)
       \/ \E t \in Task : Push(t)
       \/ \E i \in Item : StackTxEvent(i)
       \/ IPTaskLoop
    /\ UNCHANGED <<clockVars, phase>>

TimedNext ==
    \/ Tick
    \/ CompareSleep
    \/ ComputeSleep
    \/ BeginWait
    \/ Wake
    \/ CallReady
    \/ \E c \in Cost : Charge(c)
    \/ AskWakeup
    \/ TestQueue
    \/ TimedWalkEnds
    \/ Handle
    \/ Environment

TimedSpec == TimedInit /\ [][TimedNext]_timedVars
-----------------------------------------------------------------------------
\* The ticks between the last reading of the clock and the begin of the wait.
\* Nothing makes up for them: the time to sleep is relative.
LostTicks == (until - sleep) - read

(***************************************************************************)
(* The wakeups of several leaves share one variable, which no one clears.  *)
(* Whatever is left in it from earlier walks, the wait ends no later than  *)
(* the next activation of any leaf deferred in the last walk, but for the  *)
(* ticks lost before it began, in all cases but one: the wakeup came due   *)
(* before it was read, with a leaf deferred already, or as a leaf asked    *)
(* for it.  And the wait has no limit only if the wakeup came due between  *)
(* the two readings of configMIN(); else it is no longer than the period.  *)
(* (Block.c:243-275, Controller.c:280-283.)                                *)
(***************************************************************************)
SleepCoversRequests ==
    phase = "take" =>
        /\ ~missed => \A q \in deferred : until <= next[q] + LostTicks
        /\ sleep > MaxEventWait => sleep = portMAX_DELAY /\ wakeup <= read

(***************************************************************************)
(* The documented behaviour: the controller "will wake up every time a     *)
(* packet is pushed on its queues or until the next expected wakeup"       *)
(* (FreeRTOSTSNConfigDefaults.h:25-26).  Even if the ticks lost before the *)
(* wait are forgiven, it fails if a tick makes the wakeup due before       *)
(* uxNetworkQueueGetTicksUntilWakeup() compares: a wakeup that is due      *)
(* counts as no wakeup, and later ones are forgotten with it.              *)
(***************************************************************************)
WakesForRequests ==
    phase = "take" =>
        \A q \in deferred : next[q] >= read => until <= next[q] + LostTicks
=============================================================================

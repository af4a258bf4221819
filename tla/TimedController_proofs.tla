----------------------- MODULE TimedController_proofs -----------------------
(***************************************************************************)
(* The controller with a clock implements the one without, so that what is *)
(* proved of TSNController holds of it; and the shared wakeup covers every *)
(* leaf that was deferred.                                                 *)
(***************************************************************************)
EXTENDS TimedController, TSNController_proofs

LEMMA StepImplements == [TimedNext]_timedVars => [Next]_vars
<1> SUFFICES ASSUME [TimedNext]_timedVars PROVE [Next]_vars
  OBVIOUS
<1>1. CASE UNCHANGED timedVars \/ Tick \/ CompareSleep \/ ComputeSleep
           \/ BeginWait \/ CallReady \/ \E c \in Cost : Charge(c)
  BY <1>1 DEF timedVars, Tick, CompareSleep, ComputeSleep, BeginWait,
              CallReady, Charge
<1>2. CASE Wake
  BY <1>2 DEF Wake, Next, Controller
<1>3. CASE AskWakeup
  BY <1>3 DEF AskWakeup, Next, Controller
<1>4. CASE TestQueue
  BY <1>4 DEF TestQueue, Next, Controller
<1>5. CASE TimedWalkEnds
  BY <1>5 DEF TimedWalkEnds, Next, Controller
<1>6. CASE Handle
  BY <1>6 DEF Handle, Next, Controller
<1>7. CASE Environment
  BY <1>7 DEF Environment, Next
<1> QED
  BY <1>1, <1>2, <1>3, <1>4, <1>5, <1>6, <1>7 DEF TimedNext

\* Every behaviour of the controller with a clock, in which a poll of a leaf is
\* up to three steps, is a behaviour of the controller that polls in one step.
THEOREM TimedImplementsController == TimedSpec => Spec
<1>1. TimedInit => Init
  BY DEF TimedInit
<1> QED
  BY <1>1, StepImplements, PTL DEF TimedSpec, Spec

(***************************************************************************)
(* Type correctness.  What TSNController assumes is typed by TypeCorrect;  *)
(* the rest is about phase, which follows ctl, and next.                   *)
(***************************************************************************)
LEMMA TimedInitType == TimedInit => TimedTypeOK
<1> SUFFICES ASSUME TimedInit PROVE TimedTypeOK
  OBVIOUS
<1>1. TypeOK /\ ctl = "sleep"
  BY InitType DEF TimedInit, Init
<1>2. next \in [Shaped -> Nat]
  BY DEF TimedInit
<1>3. /\ now \in Nat /\ wakeup \in Nat /\ at \in 0..now /\ read \in 0..now
      /\ sleep \in Nat /\ until \in Nat
  BY DEF TimedInit
<1>4. phase = "compare" /\ missed = FALSE
  BY DEF TimedInit
<1> QED
  BY <1>1, <1>2, <1>3, <1>4 DEF TimedTypeOK, Phases, Asleep

\* The actions of TSNController outside the walk of the tree leave ctl outside
\* sleep, and are not taken there.
LEMMA HandleStaysAwake ==
    ASSUME Pop \/ Dispatch \/ Recheck \/ ScanQueue \/ ScanEnds
    PROVE  /\ ctl \notin {"sleep", "poll"} /\ ctl' # "sleep"
           /\ deferred' = {} \/ deferred' = deferred
<1>1. CASE Pop
  BY <1>1 DEF Pop, StartWalk
<1>2. CASE Dispatch
  BY <1>2 DEF Dispatch, OutputFrame, DeliverToSocket, DeliverToIPTask,
              SendEventToIPTask, SendEventTimeout, EndDispatch, StartWalk
<1>3. CASE Recheck \/ ScanQueue \/ ScanEnds
  BY <1>3 DEF Recheck, ScanQueue, ScanEnds, StartWalk
<1> QED
  BY <1>1, <1>2, <1>3

LEMMA EnvironmentKeepsController ==
    ASSUME Environment
    PROVE  UNCHANGED <<ctlVars, clockVars, phase>>
<1> USE DEF Environment, ctlVars
<1>1. CASE \E t \in Task, i \in Item, q \in Queue :
              InsertPacketByFilter(t, i, q) \/ InsertPacketByName(t, i, q)
  BY <1>1 DEF InsertPacketByFilter, InsertPacketByName
<1>2. CASE \E t \in Task : Push(t)
  BY <1>2 DEF Push, SendToBack, SendTimeout, GetPriority, SetPriority, Notify
<1>3. CASE \/ \E i \in Item : StackTxEvent(i)
           \/ IPTaskLoop
  BY <1>3 DEF StackTxEvent, IPTaskLoop, IPTaskConsumes, IPTaskOutputs
<1> QED
  BY <1>1, <1>2, <1>3

\* A charge never moves the next activation back.
LEMMA ChargeAdvances ==
    ASSUME TimedTypeOK, NEW c \in Cost, Charge(c)
    PROVE  /\ next' \in [Shaped -> Nat]
           /\ \A q \in Shaped : next[q] <= next'[q]
<1> DEFINE q == Leaf[leaf]
           base == IF next[q] + MaxDelay[q] < at THEN at - MaxDelay[q] ELSE next[q]
<1>1. next[q] \in Nat /\ MaxDelay[q] \in Nat /\ at \in Nat /\ c \in Nat
  <2>1. q \in Shaped
    BY DEF TimedTypeOK, Charge
  <2>2. next[q] \in Nat /\ MaxDelay[q] \in Nat
    BY <2>1, TimedAssumption DEF TimedTypeOK
  <2>3. at \in Nat
    BY DEF TimedTypeOK
  <2>4. c \in Nat
    BY TimedAssumption
  <2> QED
    BY <2>2, <2>3, <2>4
<1>2. base + c \in Nat /\ next[q] <= base + c
  <2> HIDE DEF q
  <2> QED BY <1>1
<1>3. next' = [next EXCEPT ![q] = base + c]
  BY DEF Charge
<1> HIDE DEF q, base
<1>4. next \in [Shaped -> Nat]
  BY DEF TimedTypeOK
<1>5. \A p \in Shaped : next[p] <= next[p]
  BY <1>4
<1>6. q \in Shaped
  BY DEF q, Charge, TimedTypeOK
<1>7. \A p \in Shaped : next[p] <= next'[p]
  BY <1>2, <1>3, <1>4, <1>5, <1>6
<1> QED
  BY <1>2, <1>3, <1>4, <1>7

LEMMA TimedStepType == TimedTypeOK /\ [TimedNext]_timedVars => TimedTypeOK'
<1> SUFFICES ASSUME TimedTypeOK, [TimedNext]_timedVars PROVE TimedTypeOK'
  OBVIOUS
<1>0. TypeOK'
  BY StepImplements, StepType DEF TimedTypeOK
<1>1. CASE UNCHANGED timedVars
  BY <1>0, <1>1 DEF timedVars, vars, clockVars, TimedTypeOK
<1>2. CASE Tick
  <2>1. now' \in Nat /\ at \in 0..now' /\ read \in 0..now' /\ missed' \in BOOLEAN
    BY <1>2 DEF Tick, TimedTypeOK
  <2> QED
    BY <1>0, <1>2, <2>1 DEF Tick, vars, TimedTypeOK
<1>3. CASE CompareSleep
  <2>1. sleep' \in Nat /\ read' \in 0..now
    BY <1>3, TimedAssumption DEF CompareSleep, TimedTypeOK
  <2>2. phase \in Asleep /\ phase' \in Asleep
    BY <1>3 DEF CompareSleep, Asleep
  <2>3. phase' \in Phases \ {"charge", "ask", "test"}
    BY <1>3 DEF CompareSleep, Phases, Asleep
  <2> QED
    BY <1>0, <1>3, <2>1, <2>2, <2>3 DEF CompareSleep, vars, TimedTypeOK, Phases
<1>12. CASE ComputeSleep
  <2>1. sleep' \in Nat /\ read' \in 0..now
    BY <1>12, TimedAssumption DEF ComputeSleep, TicksUntilWakeup, TimedTypeOK
  <2> QED
    BY <1>0, <1>12, <2>1 DEF ComputeSleep, vars, TimedTypeOK, Phases, Asleep
<1>13. CASE BeginWait
  <2>1. until' \in Nat
    BY <1>13 DEF BeginWait, TimedTypeOK
  <2> QED
    BY <1>0, <1>13, <2>1 DEF BeginWait, vars, TimedTypeOK, Phases, Asleep
<1>4. CASE Wake
  <2>1. ctl' = "poll"
    BY <1>4 DEF Wake, TakeNotification, TakeTimeout, StartWalk
  <2>2. phase' = "call" /\ missed' = FALSE /\ until' = 0 /\ read' = 0
        /\ UNCHANGED <<now, wakeup, sleep, at, next>>
    BY <1>4 DEF Wake
  <2>3. now' \in Nat /\ at' \in 0..now' /\ read' \in 0..now' /\ until' \in Nat
    BY <2>2 DEF TimedTypeOK
  <2>4. phase' \in Phases \ Asleep /\ phase' \notin {"charge", "ask", "test"}
    BY <2>2 DEF Phases, Asleep
  <2> QED
    BY <1>0, <2>1, <2>2, <2>3, <2>4 DEF TimedTypeOK
<1>5. CASE CallReady
  <2>1. at' \in 0..now'
    BY <1>5 DEF CallReady, TimedTypeOK
  <2> QED
    BY <1>0, <1>5, <2>1 DEF CallReady, vars, TimedTypeOK, Phases, Asleep
<1>6. CASE \E c \in Cost : Charge(c)
  <2>1. next' \in [Shaped -> Nat]
    BY <1>6, ChargeAdvances
  <2> QED
    BY <1>0, <1>6, <2>1 DEF Charge, vars, TimedTypeOK, Phases, Asleep
<1>7. CASE AskWakeup
  <2>1. wakeup' \in Nat
    BY <1>7 DEF AskWakeup, Earliest, TimedTypeOK
  <2>2. missed' \in BOOLEAN
    BY <1>7, Zenon DEF AskWakeup
  <2> QED
    BY <1>0, <1>7, <2>1, <2>2 DEF AskWakeup, PollNotReady, TimedTypeOK, Phases, Asleep
<1>8. CASE TestQueue
  BY <1>0, <1>8 DEF TestQueue, PollSelect, PollEmpty, clockVars, TimedTypeOK,
                    Phases, Asleep
<1>9. CASE TimedWalkEnds
  BY <1>0, <1>9 DEF TimedWalkEnds, WalkEnds, clockVars, TimedTypeOK, Phases, Asleep
<1>10. CASE Handle
  <2>1. UNCHANGED <<now, wakeup, sleep, until, phase, at, next, read>>
        /\ missed' \in BOOLEAN
    BY <1>10 DEF Handle, TimedTypeOK
  <2>2. ctl \notin {"sleep", "poll"} /\ ctl' # "sleep"
    BY <1>10, HandleStaysAwake DEF Handle
  <2> QED
    BY <1>0, <2>1, <2>2 DEF TimedTypeOK, Phases, Asleep
<1>11. CASE Environment
  BY <1>0, <1>11, EnvironmentKeepsController DEF ctlVars, clockVars, TimedTypeOK
<1> QED
  BY <1>1, <1>2, <1>3, <1>4, <1>5, <1>6, <1>7, <1>8, <1>9, <1>10, <1>11,
     <1>12, <1>13 DEF TimedNext

\* The controller's phase agrees with its state, no next activation goes below
\* zero when the credit is capped, and everything TypeOK says still holds.
THEOREM TimedTypeCorrect == TimedSpec => []TimedTypeOK
  BY TimedInitType, TimedStepType, PTL DEF TimedSpec

(***************************************************************************)
(* The wakeup covers the deferred leaves.  As long as it has not come due  *)
(* before it was read, it is in the future and no later than the next      *)
(* activation of any deferred leaf; then the time to sleep, counted from   *)
(* the reading, ends no later than that, wherever the ticks come.          *)
(***************************************************************************)
RequestsCovered ==
    phase \notin {"wait", "take"} /\ ~missed =>
        \A q \in deferred : now < wakeup /\ wakeup <= next[q]

SleepIsShort ==
    phase \in {"wait", "take"} =>
        /\ ~missed => \A q \in deferred : read + sleep <= next[q]
        /\ sleep > MaxEventWait => sleep = portMAX_DELAY /\ wakeup <= read

CompareRead == phase = "compute" => read < wakeup /\ wakeup < read + MaxEventWait

CoverInv == RequestsCovered /\ SleepIsShort /\ CompareRead

LEMMA CoverStep == TimedTypeOK /\ CoverInv /\ [TimedNext]_timedVars => CoverInv'
<1> SUFFICES ASSUME TimedTypeOK, CoverInv, [TimedNext]_timedVars
             PROVE  CoverInv'
  OBVIOUS
<1> USE DEF CoverInv, RequestsCovered, SleepIsShort, CompareRead
<1>t. /\ deferred \subseteq Shaped
      /\ now \in Nat /\ wakeup \in Nat /\ sleep \in Nat /\ read \in 0..now
      /\ MaxEventWait \in Nat /\ portMAX_DELAY \in Nat
      /\ \A q \in Shaped : next[q] \in Nat
  BY TimedAssumption DEF TimedTypeOK, TypeOK
<1>1. CASE UNCHANGED timedVars
  BY <1>1 DEF timedVars, vars, clockVars
<1>2. CASE Tick
  <2>1. /\ now' = now + 1
        /\ missed' = \/ missed
                     \/ deferred # {} /\ wakeup = now'
                          /\ phase \notin {"wait", "take"}
        /\ UNCHANGED <<deferred, wakeup, sleep, phase, next, read>>
    BY <1>2 DEF Tick, vars
  <2>2. RequestsCovered'
    BY <1>t, <2>1
  <2>3. SleepIsShort' /\ CompareRead'
    BY <2>1
  <2> QED
    BY <2>2, <2>3
<1>3. CASE CompareSleep
  <2>1. /\ phase = "compare" /\ read' = now
        /\ UNCHANGED <<deferred, now, wakeup, next, missed>>
    BY <1>3 DEF CompareSleep, vars
  <2>2. CASE TicksUntilWakeup < MaxEventWait
    <3>1. phase' = "compute" /\ sleep' = sleep
      BY <1>3, <2>2 DEF CompareSleep
    <3>2. now < wakeup /\ wakeup - now < MaxEventWait
      BY <2>2, TimedAssumption DEF TicksUntilWakeup
    <3> QED
      BY <1>t, <2>1, <3>1, <3>2
  <2>3. CASE ~(TicksUntilWakeup < MaxEventWait)
    <3>1. phase' = "wait" /\ sleep' = MaxEventWait
      BY <1>3, <2>3 DEF CompareSleep
    <3>2. now < wakeup => now + MaxEventWait <= wakeup
      BY <1>t, <2>3 DEF TicksUntilWakeup
    <3>3. ~missed => \A q \in deferred : now + MaxEventWait <= next[q]
      BY <1>t, <2>1, <3>2
    <3> QED
      BY <1>t, <2>1, <3>1, <3>3
  <2> QED
    BY <2>2, <2>3
<1>12. CASE ComputeSleep
  <2>1. /\ phase = "compute" /\ phase' = "wait" /\ read' = now
        /\ sleep' = TicksUntilWakeup
        /\ UNCHANGED <<deferred, now, wakeup, next, missed>>
    BY <1>12 DEF ComputeSleep, vars
  <2>2. ~missed => \A q \in deferred : now + sleep' <= next[q]
    BY <1>t, <2>1 DEF TicksUntilWakeup
  <2>3. sleep' > MaxEventWait => sleep' = portMAX_DELAY /\ wakeup <= now
    BY <1>t, <2>1 DEF TicksUntilWakeup
  <2> QED
    BY <2>1, <2>2, <2>3
<1>13. CASE BeginWait
  BY <1>13 DEF BeginWait, vars
<1>4. CASE Wake
  <2>1. phase' = "call" /\ deferred' = {}
    BY <1>4 DEF Wake, TakeNotification, TakeTimeout, StartWalk
  <2> QED
    BY <2>1
<1>5. CASE CallReady
  <2>1. /\ phase = "call" /\ phase' \in {"charge", "ask", "test"}
        /\ UNCHANGED <<deferred, now, wakeup, next, missed>>
    BY <1>5 DEF CallReady, vars
  <2> QED
    BY <2>1
<1>6. CASE \E c \in Cost : Charge(c)
  <2>1. PICK c \in Cost : Charge(c)
    BY <1>6
  <2>2. /\ \A q \in Shaped : next[q] <= next'[q] /\ next'[q] \in Nat
        /\ phase = "charge" /\ phase' = "test"
        /\ UNCHANGED <<deferred, now, wakeup, missed>>
    BY <2>1, ChargeAdvances DEF Charge, vars
  <2>3. ~missed => \A q \in deferred : now < wakeup /\ wakeup <= next'[q]
    BY <1>t, <2>2
  <2> QED
    BY <2>2, <2>3
<1>7. CASE AskWakeup
  <2>1. /\ phase = "ask" /\ phase' = "call"
        /\ deferred' = deferred \cup {Leaf[leaf]}
        /\ wakeup' = Earliest(next[Leaf[leaf]])
        /\ missed' = (missed \/ next[Leaf[leaf]] <= now)
        /\ UNCHANGED <<now, next>>
    BY <1>7 DEF AskWakeup, PollNotReady
  <2>2. Leaf[leaf] \in Shaped
    BY <2>1 DEF TimedTypeOK
  <2>3. wakeup' \in Nat
    BY <1>t, <2>1, <2>2 DEF Earliest
  <2>4. phase' # "compute" /\ phase' \notin {"wait", "take"}
    BY <2>1
  <2>5. ASSUME ~missed'
        PROVE  \A q \in deferred' : now < wakeup' /\ wakeup' <= next[q]
    <3>5. ~missed /\ ~(next[Leaf[leaf]] <= now)
      BY <2>1, <2>5, Zenon
    <3>1. ~missed /\ now < wakeup'
      BY <1>t, <2>1, <2>2, <2>3, <3>5 DEF Earliest
    <3>2. \A q \in deferred : now < wakeup /\ wakeup <= next[q]
      BY <2>1, <3>1
    <3>3. wakeup' <= next[Leaf[leaf]]
      BY <1>t, <2>1, <2>2 DEF Earliest
    <3>4. \A q \in deferred : wakeup' <= next[q]
      BY <1>t, <2>1, <2>2, <3>2 DEF Earliest
    <3> QED
      BY <2>1, <3>1, <3>3, <3>4
  <2> QED
    BY <2>1, <2>4, <2>5
<1>8. CASE TestQueue
  <2>1. /\ phase = "test" /\ phase' = "call"
        /\ UNCHANGED <<deferred, now, wakeup, next, missed>>
    BY <1>8 DEF TestQueue, PollSelect, PollEmpty, clockVars
  <2> QED
    BY <2>1
<1>9. CASE TimedWalkEnds
  <2>1. /\ phase = "call" /\ phase' = "compare"
        /\ UNCHANGED <<deferred, now, wakeup, next, missed>>
    BY <1>9 DEF TimedWalkEnds, WalkEnds, clockVars
  <2> QED
    BY <2>1
<1>10. CASE Handle
  <2>1. /\ ctl \notin {"sleep", "poll"}
        /\ deferred' = {} \/ deferred' = deferred
    BY <1>10, HandleStaysAwake DEF Handle
  <2>2. phase \notin Asleep
    BY <2>1 DEF TimedTypeOK
  <2>3. /\ UNCHANGED <<now, wakeup, sleep, phase, next, read>>
        /\ missed' = (missed /\ deferred' # {})
    BY <1>10 DEF Handle
  <2>4. CASE deferred' = {}
    BY <2>2, <2>3, <2>4 DEF Asleep
  <2>5. CASE deferred' = deferred
    BY <2>2, <2>3, <2>5 DEF Asleep
  <2> QED
    BY <2>1, <2>4, <2>5
<1>11. CASE Environment
  BY <1>11, EnvironmentKeepsController DEF ctlVars, clockVars
<1> QED
  BY <1>1, <1>2, <1>3, <1>4, <1>5, <1>6, <1>7, <1>8, <1>9, <1>10, <1>11,
     <1>12, <1>13 DEF TimedNext

(***************************************************************************)
(* A wait begins where the clock stood, at the latest reading or after it. *)
(***************************************************************************)
WaitInv == phase = "take" => until - sleep \in read..now

LEMMA WaitStep == TimedTypeOK /\ WaitInv /\ [TimedNext]_timedVars => WaitInv'
<1> SUFFICES ASSUME TimedTypeOK, WaitInv, [TimedNext]_timedVars, phase' = "take"
             PROVE  (until - sleep \in read..now)'
  BY DEF WaitInv
<1>t. now \in Nat /\ sleep \in Nat /\ until \in Nat /\ read \in 0..now
  BY DEF TimedTypeOK
<1>1. CASE UNCHANGED <<phase, until, sleep, read>> /\ now' \in {now, now + 1}
  BY <1>t, <1>1 DEF WaitInv
<1>2. CASE BeginWait
  BY <1>t, <1>2 DEF BeginWait
<1>3. UNCHANGED timedVars \/ Tick \/ Environment \/ Handle
         => UNCHANGED <<phase, until, sleep, read>> /\ now' \in {now, now + 1}
  BY EnvironmentKeepsController
     DEF timedVars, clockVars, Tick, Handle
<1>4. ~(CompareSleep \/ ComputeSleep \/ Wake \/ CallReady \/ AskWakeup
         \/ TestQueue \/ TimedWalkEnds \/ \E c \in Cost : Charge(c))
  BY DEF CompareSleep, ComputeSleep, Wake, CallReady, AskWakeup, TestQueue,
         TimedWalkEnds, Charge
<1> QED
  BY <1>1, <1>2, <1>3, <1>4 DEF TimedNext

\* The controller's wait ends by the next activation of every deferred leaf, but
\* for the ticks lost before it began, or the wakeup came due before it was read
\* or as it was asked for; it has no limit only if the wakeup came due between two readings.
THEOREM SleepCovers == TimedSpec => []SleepCoversRequests
<1>1. TimedInit => CoverInv /\ WaitInv
  BY DEF TimedInit, Init, CoverInv, RequestsCovered, SleepIsShort, CompareRead, WaitInv
<1>2. TimedTypeOK /\ CoverInv /\ WaitInv => SleepCoversRequests
  <2> SUFFICES ASSUME TimedTypeOK, CoverInv, phase = "take"
               PROVE  /\ ~missed => \A q \in deferred : until <= next[q] + LostTicks
                      /\ sleep > MaxEventWait
                           => sleep = portMAX_DELAY /\ wakeup <= read
    BY DEF SleepCoversRequests
  <2>1. /\ deferred \subseteq Shaped
        /\ sleep \in Nat /\ until \in Nat /\ read \in Nat
        /\ \A q \in Shaped : next[q] \in Nat
    BY DEF TimedTypeOK, TypeOK
  <2> QED
    BY <2>1 DEF CoverInv, SleepIsShort, LostTicks
<1> QED
  BY <1>1, <1>2, TimedTypeCorrect, CoverStep, WaitStep, PTL DEF TimedSpec

\* No notification is lost by the controller with a clock either.
THEOREM TimedWakeupNeverLost == TimedSpec => []NoLostWakeup
  BY TimedImplementsController, WakeupNeverLost, PTL
=============================================================================

--------------------- MODULE CreditBasedScheduler_proofs ---------------------
(***************************************************************************)
(* The credit bounds every burst, for every bandwidth, credit, tick rate   *)
(* and packet length, and whatever a read through NULL yields.             *)
(***************************************************************************)
EXTENDS CreditBasedScheduler, SequenceTheorems, TLAPS

\* Division truncates, but not below zero.
LEMMA DivNat ==
    ASSUME NEW a \in Nat, NEW b \in Nat \ {0}
    PROVE  a \div b \in Nat
  OBVIOUS

LEMMA DelayNat ==
    ASSUME NEW len \in Lengths \cup NullLengths
    PROVE  Delay(len) \in Nat
<1>1. len * 8 * 1000 \in Nat
  BY CBSAssumption
<1>2. (len * 8 * 1000) \div Bandwidth \in Nat
  BY <1>1, DivNat, CBSAssumption
<1> DEFINE ms == (len * 8 * 1000) \div Bandwidth
<1>3. ms * TickRate \in Nat
  <2> HIDE DEF ms
  <2> QED BY <1>2, CBSAssumption DEF ms
<1> HIDE DEF ms
<1>4. (ms * TickRate) \div 1000 \in Nat
  BY <1>3, DivNat
<1> QED
  BY <1>4 DEF Delay, pdMS_TO_TICKS, ms

LEMMA MaxDelayNat == MaxDelay \in Nat
<1>1. MaxCredit * 1000 \in Nat
  BY CBSAssumption
<1> DEFINE ms == (MaxCredit * 1000) \div Bandwidth
<1>2. ms \in Nat
  BY <1>1, DivNat, CBSAssumption
<1> HIDE DEF ms
<1>3. ms * TickRate \in Nat
  BY <1>2, CBSAssumption
<1>4. (ms * TickRate) \div 1000 \in Nat
  BY <1>3, DivNat
<1> QED
  BY <1>4 DEF MaxDelay, pdMS_TO_TICKS, ms

(***************************************************************************)
(* What makes the bound inductive: the next activation is never earlier    *)
(* than the start of the window, plus all that was charged in it, minus    *)
(* the credit.                                                             *)
(***************************************************************************)
BurstInv ==
    /\ open => start <= at /\ start + charged <= next + MaxDelay
    /\ BurstBounded

\* A charge moves the next activation by d from a point not earlier than the
\* old one, nor than the tick of the call minus the credit.
LEMMA ChargedBounds ==
    ASSUME at \in Nat, next \in Nat, NEW d \in Nat
    PROVE  /\ Charged(d) \in Nat
           /\ next + d <= Charged(d)
           /\ at + d <= Charged(d) + MaxDelay
  BY MaxDelayNat DEF Charged

LEMMA ChargeStep ==
    ASSUME TypeOK, BurstInv, NEW len \in Lengths \cup NullLengths, Charge(len)
    PROVE  TypeOK' /\ BurstInv'
<1> DEFINE d == Delay(len)
<1>1. d \in Nat
  BY DelayNat
<1>2. /\ Charged(d) \in Nat
      /\ next + d <= Charged(d)
      /\ at + d <= Charged(d) + MaxDelay
  BY <1>1, ChargedBounds DEF TypeOK
<1>3. next' = Charged(d) /\ next <= at /\ pc' = "select"
  BY DEF Charge
<1>4. UNCHANGED <<now, queue, supply, at>>
  BY DEF Charge
<1>5. Observe(d)
  BY DEF Charge
<1> HIDE DEF d
<1>6. CASE ~open
  <2>1. /\ open' \in BOOLEAN
        /\ start' = IF open' THEN at ELSE 0
        /\ before' = 0
        /\ charged' = IF open' THEN d ELSE 0
    BY <1>5, <1>6 DEF Observe
  <2>2. TypeOK'
    BY <1>1, <1>2, <1>3, <1>4, <2>1 DEF TypeOK
  <2>3. BurstInv'
    BY <1>1, <1>2, <1>3, <1>4, <2>1, MaxDelayNat DEF TypeOK, BurstInv, BurstBounded
  <2> QED
    BY <2>2, <2>3
<1>7. CASE open
  <2>1. /\ before' = charged
        /\ charged' = charged + d
        /\ UNCHANGED <<open, start>>
    BY <1>5, <1>7 DEF Observe
  <2>2. TypeOK'
    BY <1>1, <1>2, <1>3, <1>4, <2>1 DEF TypeOK
  <2>3. BurstInv'
    BY <1>1, <1>2, <1>3, <1>4, <1>7, <2>1, MaxDelayNat DEF TypeOK, BurstInv, BurstBounded
  <2> QED
    BY <2>2, <2>3
<1> QED
  BY <1>6, <1>7

LEMMA OtherSteps ==
    ASSUME TypeOK, BurstInv,
           \/ Tick
           \/ \E len \in Lengths : Push(len)
           \/ CallReady \/ NotReady \/ Select
           \/ UNCHANGED vars
    PROVE  TypeOK' /\ BurstInv'
<1>1. CASE Tick
  BY <1>1 DEF Tick, TypeOK, BurstInv, BurstBounded, history
<1>2. CASE \E len \in Lengths : Push(len)
  BY <1>2, AppendProperties DEF Push, TypeOK, BurstInv, BurstBounded, history
<1>3. CASE CallReady
  BY <1>3 DEF CallReady, TypeOK, BurstInv, BurstBounded, history
<1>4. CASE NotReady
  BY <1>4 DEF NotReady, TypeOK, BurstInv, BurstBounded, history
<1>5. CASE Select
  <2>1. queue # <<>> => /\ Tail(queue) \in Seq(Lengths)
                        /\ Head(queue) \in Nat
    BY HeadTailProperties, CBSAssumption DEF TypeOK
  <2>2. queue' \in Seq(Lengths)
    BY <1>5, <2>1 DEF Select, TypeOK
  <2>3. UNCHANGED <<now, supply, at, next, open, start, before, charged>>
    BY <1>5 DEF Select, history
  <2>4. pc' = "idle"
    BY <1>5 DEF Select
  <2> QED
    BY <2>2, <2>3, <2>4 DEF TypeOK, BurstInv, BurstBounded
<1>6. CASE UNCHANGED vars
  BY <1>6 DEF vars, TypeOK, BurstInv, BurstBounded
<1> QED
  BY <1>1, <1>2, <1>3, <1>4, <1>5, <1>6

LEMMA BurstInvariant == Spec => [](TypeOK /\ BurstInv)
<1>1. Init => TypeOK /\ BurstInv
  <2> SUFFICES ASSUME Init PROVE TypeOK /\ BurstInv
    OBVIOUS
  <2>1. <<>> \in Seq(Lengths)
    OBVIOUS
  <2>2. TypeOK
    <3>1. queue \in Seq(Lengths)
      BY <2>1 DEF Init
    <3>2. open \in BOOLEAN
      BY DEF Init
    <3>3. /\ now \in Nat /\ supply \in Nat
          /\ at \in Nat /\ at <= now
          /\ next \in Nat
          /\ start \in Nat /\ before \in Nat /\ charged \in Nat
      BY CBSAssumption DEF Init
    <3> QED
      BY <3>1, <3>2, <3>3 DEF Init, TypeOK
  <2>3. BurstInv
    BY DEF Init, BurstInv, BurstBounded
  <2> QED
    BY <2>2, <2>3
<1>2. TypeOK /\ BurstInv /\ [Next]_vars => TypeOK' /\ BurstInv'
  <2> SUFFICES ASSUME TypeOK, BurstInv, [Next]_vars PROVE TypeOK' /\ BurstInv'
    OBVIOUS
  <2>1. CASE \E len \in Lengths \cup NullLengths : Charge(len)
    BY <2>1, ChargeStep
  <2>2. \/ \E len \in Lengths \cup NullLengths : Charge(len)
        \/ Tick
        \/ \E len \in Lengths : Push(len)
        \/ CallReady \/ NotReady \/ Select
        \/ UNCHANGED vars
    BY DEF Next
  <2> QED
    BY <2>1, <2>2, OtherSteps
<1> QED
  BY <1>1, <1>2, PTL DEF Spec

\* Packets are lengths that were pushed, the clock and the counters are
\* naturals: no subtraction in the ready function goes below zero.
THEOREM CBSTypeCorrect == Spec => []TypeOK
  BY BurstInvariant, PTL

\* In no window that starts with the node ready do the ticks charged before
\* the current packet exceed the time elapsed plus the credit.
THEOREM CBSBurstBounded == Spec => []BurstBounded
<1>1. BurstInv => BurstBounded
  BY DEF BurstInv
<1> QED
  BY <1>1, BurstInvariant, PTL
=============================================================================

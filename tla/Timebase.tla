------------------------------ MODULE Timebase ------------------------------
(***************************************************************************)
(* Time stamps: struct freertos_timespec, its arithmetic, and the clock of *)
(* the timebase (FreeRTOS_TSN_Timebase.c).                                 *)
(*                                                                         *)
(* A program owns some timespecs and calls the functions on them, results  *)
(* and operands overlapping as it likes.  One more timespec, Clock, is the *)
(* time the timer keeps.  exact is a history variable: the nanoseconds     *)
(* each timespec should stand for, reckoned modulo the range of the type.  *)
(***************************************************************************)
EXTENDS Integers

CONSTANTS
    W,           \* values of a uint32_t
    NS,          \* NS_IN_ONE_SEC
    Slot,        \* the timespecs
    Clock,       \* the one behind the functions of the timebase handle
    MaxDivisor   \* bound on xOp2 of xTimespecDiv()

ASSUME TimebaseAssumption ==
    /\ W \in Nat
    /\ NS \in Nat
    /\ NS > 0
    /\ 2 * NS <= W
    /\ Clock \in Slot
    /\ MaxDivisor \in Nat

VARIABLES
    xTimebaseState,
    tv_sec, tv_nsec,   \* the fields of each timespec
    exact,
    div,               \* the call of xTimespecDiv() in progress
    sum                \* the last xTimespecSum(): did it return pdPASS, did it
                       \* exceed the range, were both operands in the last second

timebaseVars == <<xTimebaseState, tv_sec, tv_nsec, exact, div, sum>>

Uint == 0..(W - 1)
Span == W * NS
NoDiv == [active |-> FALSE, out |-> Clock, by |-> 1, left |-> 0, of |-> 0]

Value(s) == tv_sec[s] * NS + tv_nsec[s]
Normalised == \A s \in Slot : tv_nsec[s] < NS
-----------------------------------------------------------------------------
(***************************************************************************)
(* The arithmetic of unsigned integers.  The nanoseconds of a sum are      *)
(* reduced first; that they came out smaller is how a carry shows.         *)
(***************************************************************************)
SumNsec(n1, n2) == ((n1 + n2) % W) % NS

Carry(n1, n2) == IF SumNsec(n1, n2) < n1 \/ SumNsec(n1, n2) < n2 THEN 1 ELSE 0

\* Mutant of SumSec: the carry is not added.
SumSecNoCarry(s1, n1, s2, n2) == (s1 + s2) % W

SumSec(s1, n1, s2, n2) == (((s1 + s2) % W) + Carry(n1, n2)) % W

\* Mutant of SumPasses: only the first operand is compared.
SumPassesFirst(s1, n1, s2, n2) == SumSec(s1, n1, s2, n2) > s1

\* pdFAIL when the seconds came out smaller than an operand.
SumPasses(s1, n1, s2, n2) ==
    /\ SumSec(s1, n1, s2, n2) >= s1
    /\ SumSec(s1, n1, s2, n2) >= s2

DiffNsec(n1, n2) == IF n1 >= n2 THEN n1 - n2 ELSE NS - (n2 - n1)

DiffSec(s1, n1, s2, n2) ==
    IF n1 >= n2 THEN (s1 - s2) % W ELSE (((s1 - s2) % W) - 1) % W

Order(x, y) == IF x > y THEN 1 ELSE IF x < y THEN -1 ELSE 0

\* Mutant of xTimespecCmp: nanoseconds are compared first.
CmpNsecFirst(a, b) ==
    IF tv_nsec[a] # tv_nsec[b] THEN Order(tv_nsec[a], tv_nsec[b])
                               ELSE Order(tv_sec[a], tv_sec[b])

xTimespecCmp(a, b) ==
    IF tv_sec[a] # tv_sec[b] THEN Order(tv_sec[a], tv_sec[b])
                             ELSE Order(tv_nsec[a], tv_nsec[b])
-----------------------------------------------------------------------------
TimebaseInit ==
    /\ xTimebaseState = "eTimebaseNotInitialised"
    /\ tv_sec = [s \in Slot |-> 0]
    /\ tv_nsec = [s \in Slot |-> 0]
    /\ exact = [s \in Slot |-> 0]
    /\ div = NoDiv
    /\ sum = [pass |-> TRUE, over |-> FALSE, last |-> FALSE]

Idle == ~div.active

Store(o, s, n, e) ==
    /\ tv_sec' = [tv_sec EXCEPT ![o] = s]
    /\ tv_nsec' = [tv_nsec EXCEPT ![o] = n]
    /\ exact' = [exact EXCEPT ![o] = e]

\* xTimebaseHandleSet(): once, and only with all the functions.
xTimebaseHandleSet(complete) ==
    /\ Idle
    /\ xTimebaseState' =
         IF xTimebaseState = "eTimebaseNotInitialised" /\ complete
           THEN "eTimebaseEnabled" ELSE xTimebaseState
    /\ UNCHANGED <<tv_sec, tv_nsec, exact, div, sum>>

\* vTimebaseSetTime() and vTimebaseGetTime(): the timer copies a timespec.
\* They call through the handle, so it must have been set.
Copy(o, a) ==
    /\ Idle
    /\ xTimebaseState = "eTimebaseEnabled"
    /\ o = Clock \/ a = Clock
    /\ Store(o, tv_sec[a], tv_nsec[a], exact[a])
    /\ UNCHANGED <<xTimebaseState, div, sum>>

Sum(o, a, b) ==
    /\ Idle
    /\ LET e == exact[a] + exact[b]
       IN  /\ Store(o, SumSec(tv_sec[a], tv_nsec[a], tv_sec[b], tv_nsec[b]),
                       SumNsec(tv_nsec[a], tv_nsec[b]),
                       IF e >= Span THEN e - Span ELSE e)
           /\ sum' = [pass |-> SumPasses(tv_sec[a], tv_nsec[a],
                                         tv_sec[b], tv_nsec[b]),
                      over |-> e >= Span,
                      last |-> tv_sec[a] = W - 1 /\ tv_sec[b] = W - 1]
    /\ UNCHANGED <<xTimebaseState, div>>

Diff(o, a, b) ==
    /\ Idle
    /\ LET e == exact[a] - exact[b]
       IN  Store(o, DiffSec(tv_sec[a], tv_nsec[a], tv_sec[b], tv_nsec[b]),
                    DiffNsec(tv_nsec[a], tv_nsec[b]),
                    IF e < 0 THEN e + Span ELSE e)
    /\ UNCHANGED <<xTimebaseState, div, sum>>

\* The timer's own time passes, or is set by vTimebaseAdjTime() (external).
ClockMoves(n) ==
    /\ Idle
    /\ xTimebaseState = "eTimebaseEnabled"
    /\ n \in 0..(Span - 1)
    /\ Store(Clock, n \div NS, n % NS, n)
    /\ UNCHANGED <<xTimebaseState, div, sum>>

\* Mutant of DivBegin: the remainder of the seconds is dropped.
DivDropsRemainder(o, a, n) ==
    /\ Idle
    /\ LET s == tv_sec[a] \div n
           ns == tv_nsec[a] \div n
       IN  Store(o, s, ns, s * NS + ns)
    /\ div' = [active |-> TRUE, out |-> o, by |-> n, left |-> 0, of |-> Value(a)]
    /\ UNCHANGED <<xTimebaseState, sum>>

\* xTimespecDiv(): both fields are divided; the loop that follows shares out
\* the seconds that are left over.
DivBegin(o, a, n) ==
    /\ Idle
    /\ LET s == tv_sec[a] \div n
           ns == tv_nsec[a] \div n
       IN  Store(o, s, ns, s * NS + ns)
    /\ div' = [active |-> TRUE, out |-> o, by |-> n,
               left |-> tv_sec[a] % n, of |-> Value(a)]
    /\ UNCHANGED <<xTimebaseState, sum>>

\* One iteration: the n-th part of a second is added.
DivIterate ==
    /\ div.left > 0
    /\ LET o == div.out
           ns == NS \div div.by
       IN  Store(o, SumSec(tv_sec[o], tv_nsec[o], 0, ns),
                    SumNsec(tv_nsec[o], ns), exact[o] + ns)
    /\ div' = [active |-> TRUE, out |-> div.out, by |-> div.by,
               left |-> div.left - 1, of |-> div.of]
    /\ UNCHANGED <<xTimebaseState, sum>>

DivReturn ==
    /\ div.active
    /\ div.left = 0
    /\ div' = NoDiv
    /\ UNCHANGED <<xTimebaseState, tv_sec, tv_nsec, exact, sum>>

TimebaseNext ==
    \/ \E c \in BOOLEAN : xTimebaseHandleSet(c)
    \/ \E n \in 0..(Span - 1) : ClockMoves(n)
    \/ \E o, a \in Slot : Copy(o, a)
    \/ \E o, a, b \in Slot : Sum(o, a, b) \/ Diff(o, a, b)
    \/ \E o, a \in Slot, n \in 1..MaxDivisor : DivBegin(o, a, n)
    \/ DivIterate
    \/ DivReturn

TimebaseSpec == TimebaseInit /\ [][TimebaseNext]_timebaseVars
-----------------------------------------------------------------------------
(***************************************************************************)
(* After any sequence of calls, with operands and results shared in any    *)
(* way, each timespec stands for the time it should, modulo the range of   *)
(* the type, and its nanoseconds are less than a second: no carry or       *)
(* borrow is lost or counted twice (Timebase.c:92-168).                    *)
(***************************************************************************)
Exact ==
    \A s \in Slot : Value(s) = exact[s] /\ tv_nsec[s] < NS

(***************************************************************************)
(* xTimespecSum() raises no false alarm, and misses an overflow only if    *)
(* both operands are in the last second there is: then the carry makes the *)
(* seconds come out equal to theirs (Timebase.c:98-111).                   *)
(***************************************************************************)
OverflowReported ==
    /\ sum.over /\ ~sum.last => ~sum.pass
    /\ ~sum.over => sum.pass

(***************************************************************************)
(* xTimespecDiv() loses a remainder in each step of its loop, but all in   *)
(* all less than n nanoseconds, and it never exceeds the quotient          *)
(* (Timebase.c:151-168).                                                   *)
(***************************************************************************)
DivLosesLittle ==
    div.active /\ div.left = 0 =>
        LET n == div.by
        IN  div.of - n * Value(div.out) \in 0..(n * (n - 1))

(***************************************************************************)
(* xTimespecCmp() orders timespecs as the times they stand for             *)
(* (Timebase.c:178-204).                                                   *)
(***************************************************************************)
CmpOrders ==
    \A a, b \in Slot :
        /\ xTimespecCmp(a, b) = 1 <=> exact[a] > exact[b]
        /\ xTimespecCmp(a, b) = 0 <=> exact[a] = exact[b]
=============================================================================

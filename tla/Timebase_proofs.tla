--------------------------- MODULE Timebase_proofs ---------------------------
(***************************************************************************)
(* The arithmetic of time stamps is exact, for every width of the counter, *)
(* every number of nanoseconds in a second, and every sequence of calls.   *)
(***************************************************************************)
EXTENDS Timebase, TLAPS

Below(n) == 0..(n - 1)
Time(s, n) == s * NS + n

\* x % w for the numbers that a single wrap produces.
LEMMA ModWraps ==
    ASSUME NEW w \in Nat, NEW x \in Int, w > 0
    PROVE  /\ 0 <= x /\ x < w => x % w = x
           /\ w <= x /\ x < 2 * w => x % w = x - w
           /\ -w <= x /\ x < 0 => x % w = x + w
BY SMT

LEMMA Monotone ==
    ASSUME NEW n \in Nat, NEW a \in Int, NEW b \in Int, a <= b
    PROVE  a * n <= b * n
BY SMT

LEMMA Division ==
    ASSUME NEW n \in Nat, NEW a \in Nat, n > 0
    PROVE  /\ a = n * (a \div n) + (a % n)
           /\ a % n \in Below(n)
           /\ a \div n \in Nat
           /\ a \div n <= a
BY SMT DEF Below

\* Seconds and nanoseconds denote at most one time.
LEMMA TimeInRange ==
    ASSUME NEW s \in Int, NEW n \in Below(NS)
    PROVE  /\ s * NS + n < Span <=> s < W
           /\ s * NS + n >= 0 <=> s >= 0
<1>1. s >= W => s * NS >= Span
  BY TimebaseAssumption, Monotone DEF Span
<1>2. s < W => s * NS + NS <= Span
  <2>1. s < W => (s + 1) * NS <= W * NS
    BY TimebaseAssumption, Monotone
  <2> QED
    BY <2>1, TimebaseAssumption DEF Span
<1>3. s < 0 => s * NS + NS <= 0
  <2>1. s < 0 => (s + 1) * NS <= 0 * NS
    BY TimebaseAssumption, Monotone
  <2> QED
    BY <2>1, TimebaseAssumption
<1>4. s >= 0 => s * NS >= 0
  BY TimebaseAssumption, Monotone
<1> QED
  BY <1>1, <1>2, <1>3, <1>4, TimebaseAssumption DEF Below, Span

\* The nanoseconds of a sum, and the carry.
LEMMA SumNsecIs ==
    ASSUME NEW n1 \in Below(NS), NEW n2 \in Below(NS)
    PROVE  /\ n1 + n2 < NS => SumNsec(n1, n2) = n1 + n2 /\ Carry(n1, n2) = 0
           /\ n1 + n2 >= NS => /\ SumNsec(n1, n2) = n1 + n2 - NS
                               /\ Carry(n1, n2) = 1
           /\ SumNsec(n1, n2) \in Below(NS)
<1>1. (n1 + n2) % W = n1 + n2
  BY ModWraps, TimebaseAssumption DEF Below
<1>2. n1 + n2 < NS => SumNsec(n1, n2) = n1 + n2
  BY <1>1, ModWraps, TimebaseAssumption DEF Below, SumNsec
<1>3. n1 + n2 >= NS => SumNsec(n1, n2) = n1 + n2 - NS
  BY <1>1, ModWraps, TimebaseAssumption DEF Below, SumNsec
<1> QED
  BY <1>2, <1>3, TimebaseAssumption DEF Below, Carry

\* The seconds of a sum.
LEMMA SumSecIs ==
    ASSUME NEW s1 \in Uint, NEW s2 \in Uint,
           NEW n1 \in Below(NS), NEW n2 \in Below(NS)
    PROVE  \E t \in Nat :
             /\ t = s1 + s2 + Carry(n1, n2)
             /\ SumSec(s1, n1, s2, n2) = IF t >= W THEN t - W ELSE t
             /\ SumSec(s1, n1, s2, n2) \in Uint
<1> DEFINE t == s1 + s2 + Carry(n1, n2)
<1>1. Carry(n1, n2) \in {0, 1}
  BY DEF Carry
<1>2. CASE s1 + s2 < W
  <2>1. (s1 + s2) % W = s1 + s2
    BY <1>2, ModWraps, TimebaseAssumption DEF Uint
  <2>2. t % W = IF t >= W THEN t - W ELSE t
    BY <1>1, <1>2, ModWraps, TimebaseAssumption DEF Uint
  <2> QED
    BY <1>1, <1>2, <2>1, <2>2, TimebaseAssumption DEF SumSec, Uint
<1>3. CASE s1 + s2 >= W
  <2>1. (s1 + s2) % W = s1 + s2 - W
    BY <1>3, ModWraps, TimebaseAssumption DEF Uint
  <2>2. (t - W) % W = t - W
    BY <1>1, <1>3, ModWraps, TimebaseAssumption DEF Uint
  <2> QED
    BY <1>1, <1>3, <2>1, <2>2, TimebaseAssumption DEF SumSec, Uint
<1> QED
  BY <1>2, <1>3, TimebaseAssumption DEF Uint

\* xTimespecSum() is addition modulo the range, and says when it wrapped.
LEMMA SumIs ==
    ASSUME NEW s1 \in Uint, NEW s2 \in Uint,
           NEW n1 \in Below(NS), NEW n2 \in Below(NS),
           NEW e \in Int, e = Time(s1, n1) + Time(s2, n2)
    PROVE  /\ SumSec(s1, n1, s2, n2) \in Uint
           /\ SumNsec(n1, n2) \in Below(NS)
           /\ Time(SumSec(s1, n1, s2, n2), SumNsec(n1, n2)) =
                IF e >= Span THEN e - Span ELSE e
           /\ e < Span => SumPasses(s1, n1, s2, n2)
           /\ e >= Span /\ ~(s1 = W - 1 /\ s2 = W - 1)
                => ~SumPasses(s1, n1, s2, n2)
<1> DEFINE c == Carry(n1, n2)
           m == SumNsec(n1, n2)
           q == SumSec(s1, n1, s2, n2)
<1>1. PICK t \in Nat :
        /\ t = s1 + s2 + c
        /\ q = IF t >= W THEN t - W ELSE t
        /\ q \in Uint
  BY SumSecIs
<1>2. /\ m \in Below(NS)
      /\ n1 + n2 < NS => m = n1 + n2 /\ c = 0
      /\ n1 + n2 >= NS => m = n1 + n2 - NS /\ c = 1
  BY SumNsecIs
<1>3. /\ t \in Nat
      /\ q \in Uint
      /\ q = IF t >= W THEN t - W ELSE t
  BY <1>1
<1>4. e = t * NS + m
  <2>1. CASE n1 + n2 < NS
    BY <2>1, <1>1, <1>2, TimebaseAssumption DEF Uint, Below, Time
  <2>2. CASE n1 + n2 >= NS
    <3>1. t * NS = s1 * NS + s2 * NS + NS
      BY <2>2, <1>1, <1>2, TimebaseAssumption DEF Uint
    <3> QED
      BY <2>2, <3>1, <1>2, TimebaseAssumption DEF Uint, Below, Time
  <2> QED
    BY <2>1, <2>2, TimebaseAssumption DEF Below
<1>5. e >= Span <=> t >= W
  BY <1>2, <1>3, <1>4, TimeInRange, TimebaseAssumption DEF Span, Below
<1>6. (t - W) * NS = t * NS - Span
  BY <1>3, TimebaseAssumption DEF Span
<1>7. q * NS + m = IF e >= Span THEN e - Span ELSE e
  <2>1. CASE t >= W
    BY <2>1, <1>2, <1>3, <1>4, <1>5, <1>6, TimebaseAssumption DEF Span, Below
  <2>2. CASE ~(t >= W)
    BY <2>2, <1>2, <1>3, <1>4, <1>5, TimebaseAssumption
  <2> QED
    BY <2>1, <2>2
<1>8. c \in {0, 1}
  BY DEF Carry
<1>9. e < Span \/ e >= Span
  BY <1>2, <1>3, <1>4, TimebaseAssumption DEF Span, Below
<1>10. ~(t >= W) => SumPasses(s1, n1, s2, n2)
  BY <1>1, <1>3, <1>8, TimebaseAssumption DEF SumPasses, Uint
<1>11. t >= W /\ ~(s1 = W - 1 /\ s2 = W - 1) => ~SumPasses(s1, n1, s2, n2)
  BY <1>1, <1>3, <1>8, TimebaseAssumption DEF SumPasses, Uint
<1>12. e < Span => ~(e >= Span)
  BY <1>2, <1>3, <1>4, TimebaseAssumption DEF Span, Below
<1> QED
  BY <1>2, <1>3, <1>5, <1>7, <1>10, <1>11, <1>12 DEF Time

\* xTimespecDiff() is subtraction modulo the range.
LEMMA DiffIs ==
    ASSUME NEW s1 \in Uint, NEW s2 \in Uint,
           NEW n1 \in Below(NS), NEW n2 \in Below(NS),
           NEW e \in Int, e = Time(s1, n1) - Time(s2, n2)
    PROVE  /\ DiffSec(s1, n1, s2, n2) \in Uint
           /\ DiffNsec(n1, n2) \in Below(NS)
           /\ Time(DiffSec(s1, n1, s2, n2), DiffNsec(n1, n2)) =
                IF e < 0 THEN e + Span ELSE e
<1>1. PICK b \in {0, 1} : b = IF n1 >= n2 THEN 0 ELSE 1
  OBVIOUS
<1>2. PICK t \in Int : t = s1 - s2 - b
  <2>1. s1 - s2 - b \in Int
    BY <1>1, TimebaseAssumption DEF Uint
  <2> QED
    BY <2>1
<1>3. PICK m \in Below(NS) : m = DiffNsec(n1, n2) /\ m = n1 - n2 + b * NS
  BY <1>1, TimebaseAssumption DEF Below, DiffNsec
<1>4. DiffSec(s1, n1, s2, n2) = IF t < 0 THEN t + W ELSE t
  <2>1. (s1 - s2) % W = IF s1 < s2 THEN s1 - s2 + W ELSE s1 - s2
    BY ModWraps, TimebaseAssumption DEF Uint
  <2>2. s1 < s2 => (s1 - s2 + W - 1) % W = s1 - s2 + W - 1
    BY ModWraps, TimebaseAssumption DEF Uint
  <2>3. s1 >= s2 => (s1 - s2 - 1) % W = IF s1 - s2 - 1 < 0
                                           THEN s1 - s2 - 1 + W ELSE s1 - s2 - 1
    BY ModWraps, TimebaseAssumption DEF Uint
  <2>4. CASE n1 >= n2
    BY <1>1, <1>2, <2>1, <2>4, TimebaseAssumption DEF DiffSec, Uint
  <2>5. CASE ~(n1 >= n2)
    BY <1>1, <1>2, <2>1, <2>2, <2>3, <2>5, TimebaseAssumption DEF DiffSec, Uint
  <2> QED
    BY <2>4, <2>5
<1>5. DiffSec(s1, n1, s2, n2) \in Uint
  BY <1>1, <1>2, <1>4, TimebaseAssumption DEF Uint
<1>6. e = t * NS + m
  <2>1. t * NS = s1 * NS - s2 * NS - b * NS
    BY <1>1, <1>2, TimebaseAssumption DEF Uint
  <2> QED
    BY <1>1, <1>3, <2>1, TimebaseAssumption DEF Uint, Below, Time
<1>7. e < 0 <=> t < 0
  BY <1>2, <1>3, <1>6, TimeInRange, TimebaseAssumption DEF Below
<1>8. (t + W) * NS = t * NS + Span
  BY <1>2, TimebaseAssumption DEF Span
<1>9. Time(DiffSec(s1, n1, s2, n2), DiffNsec(n1, n2)) =
        IF e < 0 THEN e + Span ELSE e
  <2>1. CASE t < 0
    BY <2>1, <1>3, <1>4, <1>6, <1>7, <1>8, TimebaseAssumption DEF Span, Below, Time
  <2>2. CASE ~(t < 0)
    BY <2>2, <1>3, <1>4, <1>6, <1>7, TimebaseAssumption DEF Time
  <2> QED
    BY <2>1, <2>2
<1> QED
  BY <1>3, <1>5, <1>9
-----------------------------------------------------------------------------
\* The times in the timespecs, without the call of xTimespecDiv().
TimesOK ==
    /\ tv_sec \in [Slot -> Uint]
    /\ tv_nsec \in [Slot -> Below(NS)]
    /\ exact \in [Slot -> Int]
    /\ Exact

\* Of the dividend, what neither the result nor the iterations left account
\* for: the remainder of the nanoseconds, and that of each second shared out.
Lost == div.of - div.by * Value(div.out) - div.left * NS

DivInv ==
    /\ div \in [active : BOOLEAN, out : Slot, by : Nat, left : Nat, of : Nat]
    /\ div.left > 0 => div.active
    /\ div.active =>
         /\ div.left < div.by
         /\ div.of < Span
         /\ Lost \in 0..((div.by - 1) * (div.by - div.left))

TimebaseInv == TimesOK /\ OverflowReported /\ DivInv

\* A normalised time is stored in one timespec.
LEMMA StoreKeeps ==
    ASSUME TimesOK, NEW o \in Slot, NEW s \in Uint, NEW n \in Below(NS),
           NEW e \in Int, e = Time(s, n), Store(o, s, n, e)
    PROVE  TimesOK' /\ Value(o)' = e
<1>1. /\ tv_sec' \in [Slot -> Uint]
      /\ tv_nsec' \in [Slot -> Below(NS)]
      /\ exact' \in [Slot -> Int]
  BY DEF TimesOK, Store
<1>2. \A x \in Slot : x # o => /\ tv_sec'[x] = tv_sec[x]
                               /\ tv_nsec'[x] = tv_nsec[x]
                               /\ exact'[x] = exact[x]
  BY DEF TimesOK, Store
<1>3. tv_sec'[o] = s /\ tv_nsec'[o] = n /\ exact'[o] = e
  BY DEF TimesOK, Store
<1>4. ASSUME NEW x \in Slot PROVE Value(x)' = exact'[x] /\ tv_nsec'[x] < NS
  <2>1. CASE x = o
    BY <1>3, <2>1, TimebaseAssumption DEF Value, Below, Time
  <2>2. CASE x # o
    BY <1>2, <2>2 DEF TimesOK, Exact, Value
  <2> QED
    BY <2>1, <2>2
<1> QED
  BY <1>1, <1>3, <1>4 DEF TimesOK, Exact, Value

LEMMA InitTimebase == TimebaseInit => TimebaseInv
<1> SUFFICES ASSUME TimebaseInit PROVE TimebaseInv
  OBVIOUS
<1>1. TimesOK
  BY TimebaseAssumption
  DEF TimebaseInit, TimesOK, Exact, Value, Uint, Below
<1>2. OverflowReported
  BY DEF TimebaseInit, OverflowReported
<1>3. DivInv
  BY TimebaseAssumption DEF TimebaseInit, DivInv, NoDiv
<1> QED
  BY <1>1, <1>2, <1>3 DEF TimebaseInv

LEMMA IdleKeepsDiv ==
    ASSUME DivInv, Idle, UNCHANGED div
    PROVE  DivInv'
BY DEF DivInv, Idle

\* What the fields of one timespec are.
LEMMA Fields ==
    ASSUME TimesOK, NEW s \in Slot
    PROVE  /\ tv_sec[s] \in Uint
           /\ tv_nsec[s] \in Below(NS)
           /\ exact[s] = tv_sec[s] * NS + tv_nsec[s]
           /\ Value(s) = exact[s]
           /\ exact[s] \in 0..(Span - 1)
<1>1. /\ tv_sec[s] \in Uint
      /\ tv_nsec[s] \in Below(NS)
      /\ exact[s] = tv_sec[s] * NS + tv_nsec[s]
      /\ Value(s) = exact[s]
      /\ exact[s] \in Int
  BY DEF TimesOK, Exact, Value
<1>2. tv_sec[s] \in Int /\ tv_sec[s] < W /\ tv_sec[s] >= 0
  BY <1>1, TimebaseAssumption DEF Uint
<1>3. exact[s] < Span /\ exact[s] >= 0
  BY <1>1, <1>2, TimeInRange
<1> QED
  BY <1>1, <1>3, TimebaseAssumption DEF Span

LEMMA CopyStep ==
    ASSUME TimebaseInv, NEW o \in Slot, NEW a \in Slot, Copy(o, a)
    PROVE  TimebaseInv'
<1>1. TimesOK'
  BY Fields, StoreKeeps DEF TimebaseInv, Copy, TimesOK, Time
<1> QED
  BY <1>1, IdleKeepsDiv DEF TimebaseInv, Copy, OverflowReported

LEMMA SumStep ==
    ASSUME TimebaseInv, NEW o \in Slot, NEW a \in Slot, NEW b \in Slot,
           Sum(o, a, b)
    PROVE  TimebaseInv'
<1>0. /\ tv_sec[a] \in Uint /\ tv_nsec[a] \in Below(NS)
      /\ tv_sec[b] \in Uint /\ tv_nsec[b] \in Below(NS)
      /\ exact[a] = tv_sec[a] * NS + tv_nsec[a]
      /\ exact[b] = tv_sec[b] * NS + tv_nsec[b]
  BY Fields DEF TimebaseInv
<1>1. PICK e \in Int : e = exact[a] + exact[b]
  BY DEF TimebaseInv, TimesOK
<1>2. PICK r \in Int : r = IF e >= Span THEN e - Span ELSE e
  BY <1>1, TimebaseAssumption DEF Span
<1>e. e = Time(tv_sec[a], tv_nsec[a]) + Time(tv_sec[b], tv_nsec[b])
  BY <1>0, <1>1 DEF Time
<1>3. /\ SumSec(tv_sec[a], tv_nsec[a], tv_sec[b], tv_nsec[b]) \in Uint
      /\ SumNsec(tv_nsec[a], tv_nsec[b]) \in Below(NS)
      /\ Time(SumSec(tv_sec[a], tv_nsec[a], tv_sec[b], tv_nsec[b]),
              SumNsec(tv_nsec[a], tv_nsec[b])) = r
      /\ e < Span => SumPasses(tv_sec[a], tv_nsec[a], tv_sec[b], tv_nsec[b])
      /\ e >= Span /\ ~(tv_sec[a] = W - 1 /\ tv_sec[b] = W - 1)
           => ~SumPasses(tv_sec[a], tv_nsec[a], tv_sec[b], tv_nsec[b])
  BY <1>0, <1>e, <1>2, SumIs
<1>4. TimesOK'
  BY <1>1, <1>2, <1>3, StoreKeeps DEF TimebaseInv, Sum
<1>5. OverflowReported'
  <2>1. e < Span <=> ~(e >= Span)
    BY <1>1, TimebaseAssumption DEF Span
  <2> QED
    BY <1>1, <1>3, <2>1 DEF Sum, OverflowReported
<1> QED
  BY <1>4, <1>5, IdleKeepsDiv DEF TimebaseInv, Sum

LEMMA DiffStep ==
    ASSUME TimebaseInv, NEW o \in Slot, NEW a \in Slot, NEW b \in Slot,
           Diff(o, a, b)
    PROVE  TimebaseInv'
<1>0. /\ tv_sec[a] \in Uint /\ tv_nsec[a] \in Below(NS)
      /\ tv_sec[b] \in Uint /\ tv_nsec[b] \in Below(NS)
      /\ exact[a] = tv_sec[a] * NS + tv_nsec[a]
      /\ exact[b] = tv_sec[b] * NS + tv_nsec[b]
  BY Fields DEF TimebaseInv
<1>1. PICK e \in Int : e = exact[a] - exact[b]
  BY DEF TimebaseInv, TimesOK
<1>2. PICK r \in Int : r = IF e < 0 THEN e + Span ELSE e
  BY <1>1, TimebaseAssumption DEF Span
<1>e. e = Time(tv_sec[a], tv_nsec[a]) - Time(tv_sec[b], tv_nsec[b])
  BY <1>0, <1>1 DEF Time
<1>3. /\ DiffSec(tv_sec[a], tv_nsec[a], tv_sec[b], tv_nsec[b]) \in Uint
      /\ DiffNsec(tv_nsec[a], tv_nsec[b]) \in Below(NS)
      /\ Time(DiffSec(tv_sec[a], tv_nsec[a], tv_sec[b], tv_nsec[b]),
              DiffNsec(tv_nsec[a], tv_nsec[b])) = r
  BY <1>0, <1>e, <1>2, DiffIs
<1>4. TimesOK'
  BY <1>1, <1>2, <1>3, StoreKeeps DEF TimebaseInv, Diff
<1> QED
  BY <1>4, IdleKeepsDiv DEF TimebaseInv, Diff, OverflowReported

LEMMA ClockStep ==
    ASSUME TimebaseInv, NEW n \in 0..(Span - 1), ClockMoves(n)
    PROVE  TimebaseInv'
<1>1. /\ n = Time(n \div NS, n % NS)
      /\ n % NS \in Below(NS)
      /\ n \div NS \in Nat
  BY Division, TimebaseAssumption DEF Span, Time
<1>2. n \div NS \in Uint
  BY <1>1, TimeInRange, TimebaseAssumption DEF Uint, Span, Time
<1>3. TimesOK'
  BY <1>1, <1>2, StoreKeeps, TimebaseAssumption
  DEF TimebaseInv, ClockMoves, Span
<1> QED
  BY <1>3, IdleKeepsDiv DEF TimebaseInv, ClockMoves, OverflowReported

\* A smaller time in normal form, of the fields of a larger one.
LEMMA QuotientFields ==
    ASSUME NEW s \in Uint, NEW m \in Below(NS), NEW n \in Nat, n > 0
    PROVE  /\ s \div n \in Uint
           /\ m \div n \in Below(NS)
           /\ s % n \in Below(n)
           /\ m % n \in Below(n)
           /\ Time(s, m) - n * Time(s \div n, m \div n) - (s % n) * NS = m % n
<1>1. /\ s = n * (s \div n) + (s % n)
      /\ s \div n \in Uint
      /\ s % n \in Below(n)
  BY Division, TimebaseAssumption DEF Uint, Below
<1>2. /\ m = n * (m \div n) + (m % n)
      /\ m \div n \in Below(NS)
      /\ m % n \in Below(n)
  BY Division, TimebaseAssumption DEF Below
<1>3. \A q \in Int, r \in Int : (n * q + r) * NS = n * (q * NS) + r * NS
  BY TimebaseAssumption, SMT
<1>4. s * NS = n * ((s \div n) * NS) + (s % n) * NS
  <2>1. s \div n \in Int /\ s % n \in Int
    BY <1>1, TimebaseAssumption DEF Uint, Below
  <2> QED
    BY <1>1, <1>3, <2>1
<1>5. n * Time(s \div n, m \div n) = n * ((s \div n) * NS) + n * (m \div n)
  BY <1>1, <1>2, TimebaseAssumption DEF Uint, Below, Time
<1> QED
  BY <1>1, <1>2, <1>4, <1>5, TimebaseAssumption DEF Uint, Below, Time

LEMMA DivBeginStep ==
    ASSUME TimebaseInv, NEW o \in Slot, NEW a \in Slot,
           NEW n \in 1..MaxDivisor, DivBegin(o, a, n)
    PROVE  TimebaseInv'
<1> DEFINE s == tv_sec[a]
           m == tv_nsec[a]
           v == Time(s \div n, m \div n)
<1>1. /\ s \in Uint /\ m \in Below(NS)
      /\ Value(a) = Time(s, m)
      /\ Value(a) \in 0..(Span - 1)
  BY Fields DEF TimebaseInv, Time
<1>2. /\ s \div n \in Uint
      /\ m \div n \in Below(NS)
      /\ s % n \in Below(n)
      /\ m % n \in Below(n)
      /\ Value(a) - n * v - (s % n) * NS = m % n
  BY <1>1, QuotientFields, TimebaseAssumption
<1>3. v \in Int
  BY <1>2, TimebaseAssumption DEF Uint, Below, Time
<1>4. Store(o, s \div n, m \div n, v)
  BY DEF DivBegin, Time
<1>5. TimesOK' /\ Value(o)' = v
  BY <1>2, <1>3, <1>4, StoreKeeps DEF TimebaseInv
<1>6. div' = [active |-> TRUE, out |-> o, by |-> n,
              left |-> s % n, of |-> Value(a)]
  BY DEF DivBegin
<1>7. div' \in [active : BOOLEAN, out : Slot, by : Nat, left : Nat, of : Nat]
  BY <1>1, <1>2, <1>6, TimebaseAssumption DEF Below, Span
<1>8. Lost' = m % n
  BY <1>2, <1>5, <1>6 DEF Lost
<1>9. m % n \in 0..((n - 1) * (n - (s % n)))
  <2>1. n - (s % n) >= 1 /\ n - (s % n) \in Int
    BY <1>2, TimebaseAssumption DEF Below
  <2>2. 1 * (n - 1) <= (n - (s % n)) * (n - 1)
    BY <2>1, Monotone, TimebaseAssumption
  <2> QED
    BY <1>2, <2>1, <2>2, TimebaseAssumption DEF Below
<1>10. DivInv'
  BY <1>1, <1>2, <1>6, <1>7, <1>8, <1>9, TimebaseAssumption
  DEF DivInv, Below, Span
<1> QED
  BY <1>5, <1>10 DEF TimebaseInv, DivBegin, OverflowReported

LEMMA DivIterateStep ==
    ASSUME TimebaseInv, DivIterate
    PROVE  TimebaseInv'
<1>1. /\ div.active
      /\ div.out \in Slot /\ div.by \in Nat /\ div.left \in Nat
      /\ div.of \in Nat
      /\ div.left > 0
      /\ div.left < div.by
      /\ div.of < Span
      /\ Lost \in 0..((div.by - 1) * (div.by - div.left))
  BY DEF TimebaseInv, DivInv, DivIterate
<1>2. PICK o \in Slot, n \in Nat, k \in Nat, d \in Nat :
        o = div.out /\ n = div.by /\ k = div.left /\ d = div.of
  BY <1>1
<1>3. PICK l \in Int : l = Lost
  BY <1>1
<1>4. /\ tv_sec[o] \in Uint /\ tv_nsec[o] \in Below(NS)
      /\ Value(o) = exact[o]
      /\ exact[o] = Time(tv_sec[o], tv_nsec[o])
      /\ exact[o] \in 0..(Span - 1)
  BY Fields DEF TimebaseInv, Time
<1>5. PICK v \in Nat : v = exact[o]
  BY <1>4, TimebaseAssumption DEF Span
<1>6. PICK t \in Nat : t = NS \div n
  BY <1>1, <1>2, Division, TimebaseAssumption
<1>7. PICK r \in Below(n) : NS = n * t + r
  <2>1. n > 0 /\ NS \in Nat
    BY <1>1, <1>2, TimebaseAssumption
  <2>2. NS = n * (NS \div n) + (NS % n) /\ NS % n \in Below(n)
    BY ONLY <2>1, Division, n \in Nat
  <2> QED
    BY <1>6, <2>2
<1>8. l = d - n * v - k * NS
  BY <1>2, <1>3, <1>4, <1>5 DEF Lost
<1>9. t \in Below(NS)
  <2>1. CASE t >= NS
    <3>1. NS * n <= t * n /\ 2 * NS <= n * NS
      BY <1>1, <1>2, <2>1, Monotone, TimebaseAssumption
    <3> QED
      BY <1>7, <3>1, TimebaseAssumption DEF Below
  <2> QED
    BY <2>1, TimebaseAssumption DEF Below
<1>10. v + t < Span
  <2>1. 1 * NS <= k * NS
    BY <1>1, <1>2, Monotone, TimebaseAssumption
  <2>2. n * (v + t) = n * v + n * t
    BY SMT
  <2>3. 1 * (v + t) <= n * (v + t)
    BY <1>1, <1>2, Monotone
  <2>4. l >= 0
    BY <1>1, <1>3
  <2>5. n * v \in Int /\ n * t \in Int /\ k * NS \in Int
    BY TimebaseAssumption
  <2>6. d < Span
    BY <1>1, <1>2
  <2>7. n * v + n * t <= d
    BY <1>7, <1>8, <2>1, <2>4, <2>5, TimebaseAssumption DEF Below
  <2> QED
    BY <2>2, <2>3, <2>5, <2>6, <2>7, TimebaseAssumption DEF Span
<1>11. /\ SumSec(tv_sec[o], tv_nsec[o], 0, t) \in Uint
       /\ SumNsec(tv_nsec[o], t) \in Below(NS)
       /\ Time(SumSec(tv_sec[o], tv_nsec[o], 0, t), SumNsec(tv_nsec[o], t))
            = v + t
  <2>1. 0 \in Uint
    BY TimebaseAssumption DEF Uint
  <2>2. v + t = Time(tv_sec[o], tv_nsec[o]) + Time(0, t)
    BY <1>4, <1>5, TimebaseAssumption DEF Time
  <2>3. PICK e \in Int : e = v + t
    OBVIOUS
  <2>4. ~(e >= Span)
    BY <1>10, <2>3, TimebaseAssumption DEF Span
  <2>5. e = Time(tv_sec[o], tv_nsec[o]) + Time(0, t)
    BY <2>2, <2>3
  <2>6. /\ SumSec(tv_sec[o], tv_nsec[o], 0, t) \in Uint
        /\ SumNsec(tv_nsec[o], t) \in Below(NS)
        /\ Time(SumSec(tv_sec[o], tv_nsec[o], 0, t), SumNsec(tv_nsec[o], t))
             = IF e >= Span THEN e - Span ELSE e
    <3>1. PICK s \in Uint, m \in Below(NS) : s = tv_sec[o] /\ m = tv_nsec[o]
      BY <1>4
    <3>2. e = Time(s, m) + Time(0, t)
      BY <2>5, <3>1
    <3>3. /\ SumSec(s, m, 0, t) \in Uint
          /\ SumNsec(m, t) \in Below(NS)
          /\ Time(SumSec(s, m, 0, t), SumNsec(m, t))
               = IF e >= Span THEN e - Span ELSE e
      BY ONLY <1>9, <2>1, <3>2, SumIs, s \in Uint, m \in Below(NS), e \in Int
    <3> QED
      BY <3>1, <3>3
  <2> QED
    BY <2>3, <2>4, <2>6
<1>12. Store(o, SumSec(tv_sec[o], tv_nsec[o], 0, t),
                SumNsec(tv_nsec[o], t), v + t)
  BY <1>2, <1>5, <1>6 DEF DivIterate
<1>13. TimesOK' /\ Value(o)' = v + t
  BY <1>11, <1>12, StoreKeeps DEF TimebaseInv
<1>14. div' = [active |-> TRUE, out |-> o, by |-> n, left |-> k - 1, of |-> d]
  BY <1>2 DEF DivIterate
<1>15. Lost' = l + r
  <2>1. Lost' = d - n * (v + t) - (k - 1) * NS
    BY <1>13, <1>14 DEF Lost
  <2>2. n * (v + t) = n * v + n * t /\ (k - 1) * NS = k * NS - NS
    BY TimebaseAssumption
  <2>3. n * v \in Int /\ n * t \in Int /\ k * NS \in Int
    BY TimebaseAssumption
  <2> QED
    BY <1>7, <1>8, <2>1, <2>2, <2>3, TimebaseAssumption DEF Below
<1>16. l + r \in 0..((n - 1) * (n - (k - 1)))
  <2>1. (n - 1) * (n - (k - 1)) = (n - 1) * (n - k) + (n - 1)
    BY SMT
  <2>2. (n - 1) * (n - k) \in Int
    BY SMT
  <2>3. l \in 0..((n - 1) * (n - k))
    BY <1>1, <1>2, <1>3
  <2> QED
    BY <2>1, <2>2, <2>3, <1>7 DEF Below
<1>17. DivInv'
  BY <1>1, <1>2, <1>14, <1>15, <1>16 DEF DivInv
<1> QED
  BY <1>13, <1>17 DEF TimebaseInv, DivIterate, OverflowReported

LEMMA DivReturnStep ==
    ASSUME TimebaseInv, DivReturn
    PROVE  TimebaseInv'
<1>1. TimesOK'
  BY DEF TimebaseInv, DivReturn, TimesOK, Exact, Value
<1>2. DivInv'
  BY TimebaseAssumption DEF DivReturn, DivInv, NoDiv
<1> QED
  BY <1>1, <1>2 DEF TimebaseInv, DivReturn, OverflowReported

LEMMA TimebaseInvariant == TimebaseSpec => []TimebaseInv
<1>1. TimebaseInv /\ [TimebaseNext]_timebaseVars => TimebaseInv'
  <2> SUFFICES ASSUME TimebaseInv, [TimebaseNext]_timebaseVars
               PROVE  TimebaseInv'
    OBVIOUS
  <2>1. ASSUME NEW c \in BOOLEAN, xTimebaseHandleSet(c) PROVE TimebaseInv'
    BY <2>1 DEF xTimebaseHandleSet, TimebaseInv, TimesOK, Exact, Value,
                OverflowReported, DivInv, Lost
  <2>2. CASE \E n \in 0..(Span - 1) : ClockMoves(n)
    BY <2>2, ClockStep
  <2>3. CASE \E o, a \in Slot : Copy(o, a)
    BY <2>3, CopyStep
  <2>4. CASE \E o, a, b \in Slot : Sum(o, a, b) \/ Diff(o, a, b)
    BY <2>4, SumStep, DiffStep
  <2>5. CASE \E o, a \in Slot, n \in 1..MaxDivisor : DivBegin(o, a, n)
    BY <2>5, DivBeginStep
  <2>6. CASE DivIterate
    BY <2>6, DivIterateStep
  <2>7. CASE DivReturn
    BY <2>7, DivReturnStep
  <2>8. CASE UNCHANGED timebaseVars
    BY <2>8 DEF timebaseVars, TimebaseInv, TimesOK, Exact, Value,
                OverflowReported, DivInv, Lost
  <2> QED
    BY <2>1, <2>2, <2>3, <2>4, <2>5, <2>6, <2>7, <2>8 DEF TimebaseNext
<1> QED
  BY <1>1, InitTimebase, PTL DEF TimebaseSpec

\* Sums and differences are exact modulo the range, after any sequence of
\* calls with any sharing of operands and results.
THEOREM TimebaseExact == TimebaseSpec => []Exact
<1>1. TimebaseInv => Exact
  BY DEF TimebaseInv, TimesOK
<1> QED
  BY <1>1, TimebaseInvariant, PTL

\* An overflow of a sum is reported, save in the last second.
THEOREM TimebaseOverflow == TimebaseSpec => []OverflowReported
<1>1. TimebaseInv => OverflowReported
  BY DEF TimebaseInv
<1> QED
  BY <1>1, TimebaseInvariant, PTL

\* A quotient is never too large, and less than n nanoseconds too small.
THEOREM TimebaseDiv == TimebaseSpec => []DivLosesLittle
<1>1. TimebaseInv => DivLosesLittle
  <2> SUFFICES ASSUME TimebaseInv, div.active, div.left = 0
               PROVE  div.of - div.by * Value(div.out)
                        \in 0..(div.by * (div.by - 1))
    BY DEF DivLosesLittle
  <2>1. /\ div.by \in Nat /\ div.of \in Nat /\ div.out \in Slot
        /\ Lost \in 0..((div.by - 1) * (div.by - 0))
    BY DEF TimebaseInv, DivInv
  <2>2. Value(div.out) \in Int
    BY <2>1, Fields DEF TimebaseInv, TimesOK
  <2>3. Lost = div.of - div.by * Value(div.out)
    BY <2>1, <2>2, TimebaseAssumption DEF Lost
  <2> QED
    BY <2>1, <2>3
<1> QED
  BY <1>1, TimebaseInvariant, PTL

\* Seconds weigh more than any nanoseconds.
LEMMA Lexicographic ==
    ASSUME NEW s1 \in Nat, NEW n1 \in Below(NS),
           NEW s2 \in Nat, NEW n2 \in Below(NS), s1 > s2
    PROVE  s1 * NS + n1 > s2 * NS + n2
<1>1. (s2 + 1) * NS <= s1 * NS
  BY TimebaseAssumption, Monotone
<1>2. (s2 + 1) * NS = s2 * NS + NS /\ s1 * NS \in Int /\ s2 * NS \in Int
  BY TimebaseAssumption
<1> QED
  BY <1>1, <1>2, TimebaseAssumption DEF Below

(***************************************************************************)
(* xTimespecCmp(), which compares the seconds and then the nanoseconds,    *)
(* orders any two timespecs the calls can produce as the times they stand  *)
(* for: no result is left with more nanoseconds than a second has          *)
(* (Timebase.c:178-204).                                                   *)
(***************************************************************************)
THEOREM TimebaseCmp == TimebaseSpec => []CmpOrders
<1>1. TimebaseInv => CmpOrders
  <2> SUFFICES ASSUME TimebaseInv, NEW a \in Slot, NEW b \in Slot
               PROVE  /\ xTimespecCmp(a, b) = 1 <=> exact[a] > exact[b]
                      /\ xTimespecCmp(a, b) = 0 <=> exact[a] = exact[b]
    BY DEF CmpOrders
  <2>1. /\ tv_sec[a] \in Nat /\ tv_nsec[a] \in Below(NS)
        /\ tv_sec[b] \in Nat /\ tv_nsec[b] \in Below(NS)
        /\ exact[a] = tv_sec[a] * NS + tv_nsec[a]
        /\ exact[b] = tv_sec[b] * NS + tv_nsec[b]
    BY Fields DEF TimebaseInv, TimesOK, Exact, Value, Below, Uint
  <2>2. exact[a] \in Int /\ exact[b] \in Int
    BY <2>1, TimebaseAssumption DEF Below
  <2>3. CASE tv_sec[a] # tv_sec[b]
    <3>1. /\ tv_sec[a] > tv_sec[b] => exact[a] > exact[b]
          /\ tv_sec[a] < tv_sec[b] => exact[a] < exact[b]
      BY <2>1, <2>2, Lexicographic
    <3>2. xTimespecCmp(a, b) = Order(tv_sec[a], tv_sec[b])
      BY <2>3 DEF xTimespecCmp
    <3> QED
      BY <2>1, <2>2, <2>3, <3>1, <3>2 DEF Order
  <2>4. CASE tv_sec[a] = tv_sec[b]
    <3> DEFINE base == tv_sec[a] * NS
    <3>1. base \in Int /\ exact[a] = base + tv_nsec[a]
          /\ exact[b] = base + tv_nsec[b]
      BY <2>1, <2>4, TimebaseAssumption
    <3> HIDE DEF base
    <3>2. tv_nsec[a] \in Int /\ tv_nsec[b] \in Int
      BY <2>1, TimebaseAssumption DEF Below
    <3>3. xTimespecCmp(a, b) = Order(tv_nsec[a], tv_nsec[b])
      BY <2>4 DEF xTimespecCmp
    <3> QED
      BY <3>1, <3>2, <3>3 DEF Order
  <2> QED
    BY <2>3, <2>4
<1> QED
  BY <1>1, TimebaseInvariant, PTL
=============================================================================

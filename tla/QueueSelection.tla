--------------------------- MODULE QueueSelection ---------------------------
(***************************************************************************)
(* The iteration of xNetworkQueueInsertPacketByFilter() over               *)
(* pxNetworkQueueList, for any list (FreeRTOS_TSN_NetworkScheduler.c).     *)
(* TSNController takes the result, IsChosenQueue, in one step; this module *)
(* shows that the loop computes it.                                        *)
(***************************************************************************)
EXTENDS BestMatch, TLAPS

CONSTANTS
    N,        \* number of queues on the list
    MaxIPV    \* largest uxIPV

ASSUME SelectionAssumption == N \in Nat /\ MaxIPV \in Nat

VARIABLES
    match,    \* for each position: fnFilter && prvMatchQueuePolicy
    ipv,      \* for each position: uxIPV
    iter,     \* pxIterator: a position, N + 1 for NULL
    chosen    \* pxChosenQueue: a position, 0 for NULL

selectionVars == <<match, ipv, iter, chosen>>

SelectionTypeOK ==
    /\ match \in [1..N -> BOOLEAN]
    /\ ipv \in [1..N -> 0..MaxIPV]
    /\ iter \in 1..(N + 1)
    /\ chosen \in 0..N

SelectionInit ==
    /\ match \in [1..N -> BOOLEAN]
    /\ ipv \in [1..N -> 0..MaxIPV]
    /\ iter = 1
    /\ chosen = 0

\* Mutant of Iterate: an equal IPV replaces the queue chosen so far.
IterateReplacingTies ==
    /\ iter <= N
    /\ iter' = iter + 1
    /\ chosen' = IF match[iter] /\ (chosen = 0 \/ ipv[iter] >= ipv[chosen])
                   THEN iter ELSE chosen
    /\ UNCHANGED <<match, ipv>>

\* One iteration: a queue that matches is chosen unless the one chosen so far
\* has at least its IPV.
Iterate ==
    /\ iter <= N
    /\ iter' = iter + 1
    /\ chosen' = IF match[iter] /\ ~(chosen # 0 /\ ipv[iter] <= ipv[chosen])
                   THEN iter ELSE chosen
    /\ UNCHANGED <<match, ipv>>

\* pxIterator is NULL: the item is pushed to the chosen queue, if any.
Done == iter = N + 1 /\ UNCHANGED selectionVars

SelectionNext == Iterate \/ Done

SelectionSpec == SelectionInit /\ [][SelectionNext]_selectionVars
-----------------------------------------------------------------------------
\* The chosen queue is the best of the positions visited so far.
BestSoFar ==
    \/ IsBest(chosen, iter - 1, match, ipv)
    \/ (chosen = 0 /\ \A j \in 1..(iter - 1) : ~match[j])

(***************************************************************************)
(* The loop ends with the matching queue of highest IPV, the earliest of   *)
(* them on the list, and with NULL exactly when no queue matches: nobody   *)
(* is starved of its queue by a later one of the same IPV                  *)
(* (NetworkScheduler.c:123-151).                                           *)
(***************************************************************************)
ChoosesBest ==
    iter = N + 1 =>
        \/ IsBest(chosen, N, match, ipv)
        \/ (chosen = 0 /\ \A j \in 1..N : ~match[j])
-----------------------------------------------------------------------------
LEMMA SelectionType == SelectionSpec => []SelectionTypeOK
<1>1. SelectionInit => SelectionTypeOK
  BY SelectionAssumption DEF SelectionInit, SelectionTypeOK
<1>2. SelectionTypeOK /\ [SelectionNext]_selectionVars => SelectionTypeOK'
  BY SelectionAssumption DEF SelectionTypeOK, SelectionNext, Iterate, Done, selectionVars
<1> QED
  BY <1>1, <1>2, PTL DEF SelectionSpec

\* One iteration extends the visited prefix by one position.
LEMMA IterateKeepsBest ==
    ASSUME SelectionTypeOK, BestSoFar, Iterate
    PROVE  BestSoFar'
<1>1. /\ iter \in 1..N
      /\ iter' - 1 = iter
      /\ \A j \in 1..iter : j \in 1..(iter - 1) \/ j = iter
      /\ \A j \in 1..(iter - 1) : j \in 1..iter /\ j \in 1..N
  BY SelectionAssumption DEF SelectionTypeOK, Iterate
<1>2. \A j \in 1..N : ipv[j] \in Nat /\ j \in Nat
  BY SelectionAssumption DEF SelectionTypeOK
<1>3. CASE ~match[iter]
  BY <1>1, <1>3 DEF Iterate, BestSoFar, IsBest
<1>4. CASE match[iter] /\ chosen = 0
  BY <1>1, <1>2, <1>4 DEF Iterate, BestSoFar, IsBest
<1>5. CASE match[iter] /\ chosen # 0
  <2>1. IsBest(chosen, iter - 1, match, ipv) /\ chosen \in 1..N
    BY <1>1, <1>5 DEF BestSoFar, IsBest
  <2>2. CASE ipv[iter] <= ipv[chosen]
    <3>1. chosen' = chosen
      BY <1>5, <2>2 DEF Iterate
    <3> QED
      BY <1>1, <1>2, <2>1, <2>2, <3>1 DEF Iterate, BestSoFar, IsBest
  <2>3. CASE ~(ipv[iter] <= ipv[chosen])
    <3>1. chosen' = iter
      BY <1>5, <2>3 DEF Iterate
    <3>2. IsBest(iter, iter, match, ipv)
      BY <1>1, <1>2, <1>5, <2>1, <2>3 DEF IsBest
    <3> QED
      BY <1>1, <3>1, <3>2 DEF Iterate, BestSoFar
  <2> QED
    BY <2>2, <2>3
<1> QED
  BY <1>3, <1>4, <1>5

\* For a list of any length, any filters and any IPVs, the loop chooses the
\* matching queue of highest IPV, first on the list among equals.
THEOREM SelectionCorrect == SelectionSpec => []ChoosesBest
<1>1. SelectionInit => BestSoFar
  BY DEF SelectionInit, BestSoFar
<1>2. SelectionTypeOK /\ BestSoFar /\ [SelectionNext]_selectionVars => BestSoFar'
  <2> SUFFICES ASSUME SelectionTypeOK, BestSoFar, [SelectionNext]_selectionVars PROVE BestSoFar'
    OBVIOUS
  <2>1. CASE Iterate
    BY <2>1, IterateKeepsBest
  <2>2. CASE UNCHANGED selectionVars
    BY <2>2 DEF selectionVars, BestSoFar
  <2> QED
    BY <2>1, <2>2 DEF SelectionNext, Done
<1>3. SelectionTypeOK /\ BestSoFar => ChoosesBest
  BY SelectionAssumption DEF BestSoFar, ChoosesBest
<1> QED
  BY <1>1, <1>2, <1>3, SelectionType, PTL DEF SelectionSpec
=============================================================================

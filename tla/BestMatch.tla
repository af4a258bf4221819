------------------------------ MODULE BestMatch ------------------------------
(***************************************************************************)
(* What xNetworkQueueInsertPacketByFilter() looks for on a list.           *)
(***************************************************************************)
EXTENDS Naturals

\* Position k is the best of the first n: it matches, and every other match
\* has a lower IPV, or the same IPV and comes later.
IsBest(k, n, match, ipv) ==
    /\ k \in 1..n
    /\ match[k]
    /\ \A j \in 1..n :
          match[j] => \/ ipv[j] < ipv[k]
                      \/ (ipv[j] = ipv[k] /\ k <= j)
==============================================================================

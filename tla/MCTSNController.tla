-------------------------- MODULE MCTSNController --------------------------
(***************************************************************************)
(* Instances of TSNController cut down from the hierarchy of               *)
(* templates/NetworkQueueExample.c: a high-priority send and receive       *)
(* queue, and the queue of the IP task that takes everything else.         *)
(***************************************************************************)
EXTENDS TSNController, TLC

CONSTANTS app, ip, queue1, queue2, queue3, txHigh, rxHigh, txLow, rxLow

\* Two queues: queue1 (filtered, high IPV) and queue3 (the rest).
List2   == <<queue1, queue3>>
Leaf2   == <<queue1, queue3>>
IPV2    == (queue1 :> 3) @@ (queue3 :> 0)
Policy2 == (queue1 :> "eSendRecv") @@ (queue3 :> "eIPTaskEvents")
Filter2 == (queue1 :> {txHigh, rxHigh} \cap Item) @@ (queue3 :> Item)

\* Three queues: queue2 is the shaped, send-only one in between.
List3   == <<queue1, queue2, queue3>>
Leaf3   == <<queue1, queue2, queue3>>
IPV3    == (queue1 :> 3) @@ (queue2 :> 2) @@ (queue3 :> 0)
Policy3 == (queue1 :> "eSendRecv") @@ (queue2 :> "eSendOnly")
           @@ (queue3 :> "eIPTaskEvents")
Filter3 == (queue1 :> {txHigh, rxHigh} \cap Item)
           @@ (queue2 :> {txLow, rxLow} \cap Item)
           @@ (queue3 :> Item)

Types == [i \in Item |-> IF i \in {txHigh, txLow} THEN "eNetworkTxEvent"
                                                  ELSE "eNetworkRxEvent"]
=============================================================================

------------------------- MODULE MCTimedController -------------------------
(***************************************************************************)
(* Instances of TimedController: two shaped queues, so that two leaves     *)
(* share the wakeup, and the queue of the IP task behind them.             *)
(***************************************************************************)
EXTENDS TimedController, TLC

CONSTANTS app, ip, queue1, queue2, queue3, tx1, tx2

List3   == <<queue1, queue2, queue3>>
Leaf3   == <<queue1, queue2, queue3>>
IPV3    == (queue1 :> 3) @@ (queue2 :> 2) @@ (queue3 :> 0)
Policy3 == (queue1 :> "eSendOnly") @@ (queue2 :> "eSendOnly")
           @@ (queue3 :> "eIPTaskEvents")
Filter3 == (queue1 :> {tx1} \cap Item) @@ (queue2 :> {tx2} \cap Item) @@ (queue3 :> Item)

Types   == [i \in Item |-> "eNetworkTxEvent"]
Delays  == [q \in Shaped |-> 1]
=============================================================================

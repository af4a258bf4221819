--------------------------- MODULE NetworkQueues ---------------------------
(***************************************************************************)
(* The static part of the network scheduler: the queues that               *)
(* vNetworkQueueInit() creates, the list they are kept on, the order in    *)
(* which the scheduler tree reaches them, and the choice of the queue a    *)
(* packet is inserted in (FreeRTOS_TSN_NetworkScheduler.c).                *)
(*                                                                         *)
(* An Item stands for a NetworkQueueItem_t: an event type and a network    *)
(* buffer.  Filters read the buffer only, so a filter is the set of items  *)
(* it lets in.                                                             *)
(***************************************************************************)
EXTENDS BestMatch, Sequences

CONSTANTS
    Queue,      \* the NetworkQueue_t objects
    Item,       \* the packets
    List,       \* pxNetworkQueueList: every queue, in creation order
    Leaf,       \* the queues in the order the scheduler tree visits them
    IPV,        \* uxIPV of each queue
    Policy,     \* ePolicy of each queue
    Filter,     \* the items that fnFilter of each queue lets in
    EventType   \* eEventType of each item

EventTypes == {"eNetworkTxEvent", "eNetworkRxEvent"}

\* The event types each policy takes.
PolicyEvents ==
    [ eSendRecv     |-> {"eNetworkTxEvent", "eNetworkRxEvent"},
      eSendOnly     |-> {"eNetworkTxEvent"},
      eRecvOnly     |-> {"eNetworkRxEvent"},
      eIPTaskEvents |-> EventTypes ]

ASSUME QueueAssumption ==
    /\ List \in Seq(Queue)
    /\ Leaf \in Seq(Queue)
    \* pxNetworkQueueMalloc() puts every queue on the list, and the rules of
    \* the template ask that every queue is linked into the tree.
    /\ \A q \in Queue : \E k \in 1..Len(List) : List[k] = q
    /\ \A q \in Queue : \E k \in 1..Len(Leaf) : Leaf[k] = q
    /\ IPV \in [Queue -> Nat]
    /\ Policy \in [Queue -> DOMAIN PolicyEvents]
    /\ Filter \in [Queue -> SUBSET Item]
    /\ EventType \in [Item -> EventTypes]

prvMatchQueuePolicy(i, q) == EventType[i] \in PolicyEvents[Policy[q]]

\* The condition under which the iteration considers a queue.
Matches(i, q) == i \in Filter[q] /\ prvMatchQueuePolicy(i, q)

\* The queue xNetworkQueueInsertPacketByFilter() pushes item i to.
IsChosenQueue(i, q) ==
    \E k \in 1..Len(List) :
        /\ q = List[k]
        /\ IsBest(k, Len(List),
                  [j \in 1..Len(List) |-> Matches(i, List[j])],
                  [j \in 1..Len(List) |-> IPV[List[j]]])

\* No queue takes item i: the insertion returns pdFAIL.
NoQueueFor(i) == \A q \in Queue : ~Matches(i, q)
=============================================================================

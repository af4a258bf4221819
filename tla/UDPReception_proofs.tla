------------------------ MODULE UDPReception_proofs ------------------------
(***************************************************************************)
(* Proofs about UDPReception for every set of sockets, ports, buffers and  *)
(* headers, every capacity and whatever calls the applications make.       *)
(***************************************************************************)
EXTENDS UDPReception, SequenceTheorems, TLAPS

\* A task has a buffer in its hands exactly when its control state says so,
\* and a header only when it may.
Shape ==
    /\ drv.pc = "idle" <=> drv.buf = None
    /\ ctl.pc \in {"idle", "event"} <=> ctl.buf = None
    /\ drv.pc # "insert" => drv.msgh = None
    /\ ctl.pc \in {"deliver", "event"} => ctl.sock \in TSN
    /\ ctl.pc \notin {"lookup", "lookupBase", "deliver", "halted"} =>
          ctl.msgh = None
    /\ \A s \in Socket :
          app[s].pc \in {"return", "faulted"} <=> app[s].buf # None
    /\ \A s \in Socket : app[s].pc = "binding" => s \in TSN

WellFormed == TypeOK /\ Shape

LEMMA HeadTail ==
    ASSUME NEW S, NEW q \in Seq(S), q # <<>>
    PROVE  /\ Head(q) \in S
           /\ Head(q) = q[1]
           /\ Tail(q) \in Seq(S)
           /\ Len(q) \in Nat \ {0}
           /\ Len(Tail(q)) = Len(q) - 1
           /\ \A k \in 1..Len(Tail(q)) : Tail(q)[k] = q[k + 1]
  BY HeadTailProperties, LenProperties, EmptySeq

LEMMA Appended ==
    ASSUME NEW S, NEW q \in Seq(S), NEW x \in S
    PROVE  /\ Append(q, x) \in Seq(S)
           /\ Len(q) \in Nat
           /\ Len(Append(q, x)) = Len(q) + 1
           /\ \A k \in 1..Len(q) : Append(q, x)[k] = q[k]
           /\ Append(q, x)[Len(q) + 1] = x
  BY AppendProperties, LenProperties

LEMMA InitWellFormed == Init => WellFormed
<1> SUFFICES ASSUME Init PROVE WellFormed
  OBVIOUS
<1>1. <<>> \in Seq(Item) /\ <<>> \in Seq(IPEvent) /\ <<>> \in Seq(Buffer)
      /\ Len(<<>>) = 0
  BY EmptySeq
<1>2. TypeOK
  BY <1>1, ReceptionAssumption
  DEF Init, TypeOK, IdleDriver, IdleController, NullOr
<1>3. Shape
  BY DEF Init, Shape, IdleDriver, IdleController
<1> QED
  BY <1>2, <1>3 DEF WellFormed

LEMMA QueueItem ==
    ASSUME TypeOK, NEW k \in 1..Len(queue)
    PROVE  queue[k].buf \in Buffer /\ queue[k].msgh \in Header \cup {None}
<1>1. queue \in Seq(Item)
  BY DEF TypeOK
<1>2. queue[k] \in Item
  BY <1>1, ElementOfSeq
<1> QED
  BY <1>2 DEF Item

LEMMA DriverWellFormed ==
    ASSUME WellFormed, Driver
    PROVE  WellFormed'
<1> USE ReceptionAssumption DEF WellFormed, NullOr, sockets
<1>1. ASSUME NEW b \in Buffer, NEW p \in Port, ReceiveFrame(b, p)
      PROVE  WellFormed'
  BY <1>1 DEF ReceiveFrame, TypeOK, Shape
<1>2. ASSUME NEW h \in Header, FillAncillary(h) \/ FillPayloadFails(h)
      PROVE  WellFormed'
  <2>1. drv.buf \in Buffer /\ eth[drv.buf] \in Buffer \cup Header \cup {None}
    BY <1>2 DEF FillAncillary, FillPayloadFails, TypeOK, Shape
  <2>2. TypeOK'
    <3>1. CASE FillAncillary(h)
      BY <2>1, <3>1 DEF FillAncillary, DriverAt, TypeOK
    <3>2. CASE FillPayloadFails(h)
      BY <2>1, <3>2 DEF FillPayloadFails, DriverAt, TypeOK
    <3> QED
      BY <1>2, <3>1, <3>2
  <2>3. Shape'
    BY <1>2 DEF FillAncillary, FillPayloadFails, DriverAt, Shape, TypeOK
  <2> QED
    BY <2>2, <2>3
<1>3. ASSUME HeaderMallocFails \/ DriverMiss \/ DriverFindsBase
      PROVE  WellFormed'
  BY <1>3
  DEF HeaderMallocFails, DriverMiss, DriverFindsBase, DriverAt, memory, TypeOK,
      Shape
<1>4. ASSUME NoReceiver \/ InsertFails
      PROVE  WellFormed'
  BY <1>4 DEF NoReceiver, InsertFails, IdleDriver, TypeOK, Shape
<1>5. ASSUME InsertPacket
      PROVE  WellFormed'
  <2> DEFINE x == [buf |-> drv.buf, msgh |-> drv.msgh]
  <2>1. x \in Item
    BY <1>5 DEF InsertPacket, TypeOK, Shape, Item
  <2>2. /\ queue' \in Seq(Item)
        /\ Len(queue) \in Nat
        /\ Len(queue') = Len(queue) + 1
        /\ \A k \in 1..Len(queue) : queue'[k] = queue[k]
        /\ queue'[Len(queue) + 1] = x
    BY <1>5, <2>1, Appended DEF InsertPacket, TypeOK
  <2>3. TypeOK'
    BY <1>5, <2>2 DEF InsertPacket, memory, IdleDriver, TypeOK
  <2>4. Shape'
    BY <1>5 DEF InsertPacket, IdleDriver, Shape
  <2> QED
    BY <2>3, <2>4
<1> QED
  BY <1>1, <1>2, <1>3, <1>4, <1>5 DEF Driver

\* What becomes of a buffer that Plus-TCP processes.
LEMMA ProcessTyped ==
    ASSUME TypeOK, NEW b \in Buffer, ProcessUDP(b)
    PROVE  /\ waiting' \in [Socket -> Seq(Buffer)]
           /\ event' \in [Socket -> BOOLEAN]
           /\ free' \subseteq Buffer
<1>1. CASE Found(port[b])
  <2>1. port[b] \in Socket
    BY <1>1 DEF Found
  <2>2. Append(waiting[port[b]], b) \in Seq(Buffer)
    BY <2>1, Appended DEF TypeOK
  <2>3. /\ waiting' = [waiting EXCEPT
                        ![port[b]] = Append(waiting[port[b]], b)]
        /\ event' = [event EXCEPT ![port[b]] = TRUE]
        /\ free' = free
    BY <1>1 DEF ProcessUDP, InsertEnd
  <2> QED
    BY <2>1, <2>2, <2>3 DEF TypeOK
<1>2. CASE ~Found(port[b])
  BY <1>2 DEF ProcessUDP, TypeOK
<1> QED
  BY <1>1, <1>2

LEMMA ControllerWellFormed ==
    ASSUME WellFormed, Controller
    PROVE  WellFormed'
<1> USE ReceptionAssumption DEF WellFormed, NullOr, sockets
<1>1. ASSUME PopFrame
      PROVE  WellFormed'
  <2>1. /\ Head(queue) \in Item
        /\ Head(queue) = queue[1]
        /\ queue' \in Seq(Item)
        /\ Len(queue) \in Nat \ {0}
        /\ Len(queue') = Len(queue) - 1
        /\ \A k \in 1..Len(queue') : queue'[k] = queue[k + 1]
    BY <1>1, HeadTail DEF PopFrame, TypeOK
  <2>2. Head(queue).buf \in Buffer /\ Head(queue).msgh \in Header \cup {None}
    BY <2>1 DEF Item
  <2>3. TypeOK'
    BY <1>1, <2>1, <2>2 DEF PopFrame, memory, TypeOK
  <2>4. Shape'
    BY <1>1, <2>2 DEF PopFrame, Shape
  <2> QED
    BY <2>3, <2>4
<1>2. ASSUME FindTSN \/ ControllerMiss \/ AssertFails
      PROVE  WellFormed'
  BY <1>2 DEF FindTSN, ControllerMiss, AssertFails, ControllerAt, memory,
              TypeOK, Shape
<1>3. ASSUME DeliverTSN
      PROVE  WellFormed'
  <2>1. /\ ctl.buf \in Buffer
        /\ ctl.msgh \in Header
        /\ ctl.sock \in Socket
    BY <1>3 DEF DeliverTSN, AssertionsHold, TypeOK, Shape
  <2>2. Append(waiting[ctl.sock], ctl.buf) \in Seq(Buffer)
    BY <2>1, Appended DEF TypeOK
  <2>3. TypeOK'
    BY <1>3, <2>1, <2>2 DEF DeliverTSN, InsertEnd, TypeOK
  <2>4. Shape'
    BY <1>3, <2>1 DEF DeliverTSN, TypeOK, Shape
  <2> QED
    BY <2>3, <2>4
<1>4. ASSUME SetEvent
      PROVE  WellFormed'
  BY <1>4 DEF SetEvent, IdleController, memory, TypeOK, Shape
<1>5. ASSUME FindPlain \/ FindNone
      PROVE  WellFormed'
  BY <1>5 DEF FindPlain, FindNone, ControllerAt, memory, TypeOK, Shape
<1>6. ASSUME SendToIPTask
      PROVE  WellFormed'
  <2> DEFINE x == [type |-> "rx", buf |-> ctl.buf]
  <2>1. x \in IPEvent
    BY <1>6 DEF SendToIPTask, TypeOK, Shape, IPEvent
  <2>2. /\ ipq' \in Seq(IPEvent)
        /\ Len(ipq) \in Nat
        /\ Len(ipq') = Len(ipq) + 1
    BY <1>6, <2>1, Appended DEF SendToIPTask, TypeOK
  <2> QED
    BY <1>6, <2>2
    DEF SendToIPTask, IdleController, memory, TypeOK, Shape
<1>7. ASSUME SendToIPTaskFails
      PROVE  WellFormed'
  BY <1>7 DEF SendToIPTaskFails, IdleController, TypeOK, Shape
<1>8. ASSUME ProcessPlain
      PROVE  WellFormed'
  <2>1. ctl.buf \in Buffer
    BY <1>8 DEF ProcessPlain, TypeOK, Shape
  <2>2. /\ waiting' \in [Socket -> Seq(Buffer)]
        /\ event' \in [Socket -> BOOLEAN]
        /\ free' \subseteq Buffer
    BY <1>8, <2>1, ProcessTyped DEF ProcessPlain
  <2> QED
    BY <1>8, <2>2 DEF ProcessPlain, IdleController, TypeOK, Shape
<1> QED
  BY <1>1, <1>2, <1>3, <1>4, <1>5, <1>6, <1>7, <1>8 DEF Controller

LEMMA IPTaskWellFormed ==
    ASSUME WellFormed, IPTask
    PROVE  WellFormed'
<1> USE ReceptionAssumption DEF WellFormed, NullOr, sockets
<1>1. ipq # <<>>
  BY DEF IPTask, IPTaskReceives, IPTaskCloses
<1>2. /\ Head(ipq) \in IPEvent
      /\ Tail(ipq) \in Seq(IPEvent)
      /\ Len(ipq) \in Nat
      /\ Len(Tail(ipq)) = Len(ipq) - 1
  BY <1>1, HeadTail DEF TypeOK
<1>3. ASSUME IPTaskReceives
      PROVE  WellFormed'
  <2> DEFINE b == Head(ipq).buf
  <2>1. b \in Buffer
    BY <1>2, <1>3 DEF IPTaskReceives, IPEvent
  <2>2. /\ waiting' \in [Socket -> Seq(Buffer)]
        /\ event' \in [Socket -> BOOLEAN]
        /\ free' \subseteq Buffer
    BY <1>3, <2>1, ProcessTyped DEF IPTaskReceives
  <2> QED
    BY <1>2, <1>3, <2>2 DEF IPTaskReceives, TypeOK, Shape
<1>4. ASSUME IPTaskCloses
      PROVE  WellFormed'
  <2> DEFINE s == Head(ipq).sock
  <2>1. s \in Socket
    BY <1>2, <1>4 DEF IPTaskCloses, IPEvent
  <2>2. \A k \in 1..Len(waiting[s]) : waiting[s][k] \in Buffer
    BY <2>1, ElementOfSeq DEF TypeOK
  <2>3. <<>> \in Seq(Buffer)
    BY EmptySeq
  <2>4. InList(s) \subseteq Buffer
    BY <2>2 DEF InList
  <2>5. UNCHANGED <<port, eth, heap, iov, short, drv, queue, ctl, listed,
                    event, app>>
    BY <1>4 DEF IPTaskCloses
  <2>6. TypeOK'
    BY <1>2, <1>4, <2>1, <2>3, <2>4, <2>5 DEF IPTaskCloses, TypeOK
  <2>7. Shape'
    BY <2>5 DEF Shape
  <2> QED
    BY <2>6, <2>7
<1> QED
  BY <1>3, <1>4 DEF IPTask

\* A step of an application that changes nothing but its control state.
LEMMA GotoTyped ==
    ASSUME TypeOK, Shape, NEW s \in Socket,
           app[s].pc \notin {"return", "faulted"},
           NEW label \in {"binding", "ready", "blocked", "recount", "expired",
                         "take", "closing", "closed"},
           label = "binding" => s \in TSN,
           Goto(s, label)
    PROVE  /\ app' \in [Socket ->
                         [pc : {"created", "binding", "ready", "blocked",
                                "recount", "expired", "take", "return",
                                "faulted", "closing", "closed"},
                          buf : NullOr(Buffer)]]
           /\ \A t \in Socket :
                app'[t].pc \in {"return", "faulted"} <=> app'[t].buf # None
           /\ \A t \in Socket : app'[t].pc = "binding" => t \in TSN
           /\ \A t \in Socket : app'[t].buf = app[t].buf
  BY DEF TypeOK, Shape, Goto

LEMMA ApplicationWellFormed ==
    ASSUME WellFormed, NEW s \in Socket, Application(s)
    PROVE  WellFormed'
<1> USE ReceptionAssumption DEF WellFormed, NullOr, sockets
<1>1. ASSUME BindBase(s) \/ BindTSN(s) \/ CloseTSN(s)
      PROVE  WellFormed'
  <2>1. /\ app' \in [Socket ->
                      [pc : {"created", "binding", "ready", "blocked",
                             "recount", "expired", "take", "return",
                             "faulted", "closing", "closed"},
                       buf : NullOr(Buffer)]]
        /\ \A t \in Socket :
                app'[t].pc \in {"return", "faulted"} <=> app'[t].buf # None
        /\ \A t \in Socket : app'[t].pc = "binding" => t \in TSN
    BY <1>1, GotoTyped DEF BindBase, BindTSN, CloseTSN
  <2>2. /\ base' \in [Socket -> {"unbound", "bound", "closing", "freed"}]
        /\ listed' \subseteq TSN
    BY <1>1 DEF BindBase, BindTSN, CloseTSN, TypeOK, Shape
  <2>3. UNCHANGED <<memory, drv, queue, ctl, waiting, event, ipq>>
    BY <1>1 DEF BindBase, BindTSN, CloseTSN
  <2> QED
    BY <2>1, <2>2, <2>3 DEF memory, TypeOK, Shape
<1>2. ASSUME Recv(s) \/ Wake(s) \/ Expire(s) \/ Recount(s)
      PROVE  WellFormed'
  <2>1. /\ app' \in [Socket ->
                      [pc : {"created", "binding", "ready", "blocked",
                             "recount", "expired", "take", "return",
                             "faulted", "closing", "closed"},
                       buf : NullOr(Buffer)]]
        /\ \A t \in Socket :
                app'[t].pc \in {"return", "faulted"} <=> app'[t].buf # None
        /\ \A t \in Socket : app'[t].pc = "binding" => t \in TSN
    BY <1>2, GotoTyped DEF Recv, Wake, Expire, Recount
  <2>2. event' \in [Socket -> BOOLEAN]
    BY <1>2 DEF Recv, Wake, Expire, Recount, TypeOK
  <2>3. UNCHANGED <<memory, drv, queue, ctl, base, listed, waiting, ipq>>
    BY <1>2 DEF Recv, Wake, Expire, Recount
  <2> QED
    BY <2>1, <2>2, <2>3 DEF memory, TypeOK, Shape
<1>3. ASSUME Take(s)
      PROVE  WellFormed'
  <2>1. Head(waiting[s]) \in Buffer /\ Tail(waiting[s]) \in Seq(Buffer)
    BY <1>3, HeadTail DEF Take, TypeOK
  <2> QED
    BY <1>3, <2>1 DEF Take, memory, TypeOK, Shape
<1>4. ASSUME ReturnTSN(s)
      PROVE  WellFormed'
  <2> DEFINE b == app[s].buf
  <2>1. /\ b \in Buffer
        /\ eth[b] \in Header
        /\ iov[eth[b]] \in Buffer \cup Header \cup {None}
    BY <1>4 DEF ReturnTSN, TypeOK, Shape
  <2>2. TypeOK'
    BY <1>4, <2>1 DEF ReturnTSN, TypeOK
  <2>3. Shape'
    BY <1>4 DEF ReturnTSN, Shape, TypeOK
  <2> QED
    BY <2>2, <2>3
<1>5. ASSUME RecvFaults(s) \/ ReturnPlain(s)
      PROVE  WellFormed'
  <2>1. CASE RecvFaults(s)
    BY <2>1 DEF RecvFaults, Goto, memory, TypeOK, Shape
  <2>2. CASE ReturnPlain(s)
    BY <2>2 DEF ReturnPlain, TypeOK, Shape
  <2> QED
    BY <1>5, <2>1, <2>2
<1>6. ASSUME CloseBase(s)
      PROVE  WellFormed'
  <2>1. [type |-> "close", sock |-> s] \in IPEvent
    BY DEF IPEvent
  <2>2. /\ ipq' \in Seq(IPEvent)
        /\ Len(ipq) \in Nat
        /\ Len(ipq') = Len(ipq) + 1
    BY <1>6, <2>1, Appended DEF CloseBase, TypeOK
  <2> QED
    BY <1>6, <2>2 DEF CloseBase, Goto, memory, TypeOK, Shape
<1> QED
  BY <1>1, <1>2, <1>3, <1>4, <1>5, <1>6 DEF Application, Receiver

LEMMA StepWellFormed == WellFormed /\ [Next]_vars => WellFormed'
<1> SUFFICES ASSUME WellFormed, [Next]_vars PROVE WellFormed'
  OBVIOUS
<1>1. CASE Next
  BY <1>1, DriverWellFormed, ControllerWellFormed, IPTaskWellFormed,
     ApplicationWellFormed DEF Next
<1>2. CASE UNCHANGED vars
  BY <1>2 DEF vars, WellFormed, TypeOK, Shape
<1> QED
  BY <1>1, <1>2

(***************************************************************************)
(* Every state is well formed: no queue exceeds its capacity, and every    *)
(* pointer points to a buffer or a header (Wrapper.c:477-627,              *)
(* Controller.c:46-259, Sockets.c:526-575, 738-916).                       *)
(***************************************************************************)
THEOREM ReceptionTypeCorrect == Spec => []TypeOK
<1>1. WellFormed => TypeOK
  BY DEF WellFormed
<1> QED
  BY InitWellFormed, StepWellFormed, <1>1, PTL DEF Spec

-----------------------------------------------------------------------------
(***************************************************************************)
(* Ownership.  The invariant says that each buffer has a place p, of a     *)
(* socket s if the place is a socket's list or its application, such that  *)
(* the places hold exactly the buffers that have them as their place, and  *)
(* that no list holds a buffer twice.  A step then moves one buffer, or,   *)
(* when a socket is closed, those of one list, to another place.           *)
(***************************************************************************)
InQueue == {queue[k].buf : k \in 1..Len(queue)}

Received == {k \in 1..Len(ipq) : ipq[k].type = "rx"}

InEvents == {ipq[k].buf : k \in Received}

\* No list holds the same buffer twice.
QueueDistinct ==
    \A j, k \in 1..Len(queue) : queue[j].buf = queue[k].buf => j = k

EventsDistinct == \A j, k \in Received : ipq[j].buf = ipq[k].buf => j = k

WaitsDistinct ==
    \A s \in Socket : \A j, k \in 1..Len(waiting[s]) :
        waiting[s][j] = waiting[s][k] => j = k

Distinct == QueueDistinct /\ EventsDistinct /\ WaitsDistinct

Places == {"pool", "driver", "controller", "queue", "ip", "list", "app"}

At(b, p, s) ==
    /\ b \in free <=> p = "pool"
    /\ b = drv.buf <=> p = "driver"
    /\ b = ctl.buf <=> p = "controller"
    /\ b \in InQueue <=> p = "queue"
    /\ b \in InEvents <=> p = "ip"
    /\ \A t \in Socket :
        /\ b \in InList(t) <=> p = "list" /\ s = t
        /\ b = app[t].buf <=> p = "app" /\ s = t

Place(p, s) ==
    /\ p \in Places
    /\ p \in {"list", "app"} => s \in Socket

Placed(b) == \E p, s : Place(p, s) /\ At(b, p, s)

OwnerInv == Distinct /\ \A b \in Buffer : Placed(b)

LEMMA QueueSame ==
    ASSUME QueueDistinct, queue' = queue
    PROVE  InQueue' = InQueue /\ QueueDistinct'
  BY DEF InQueue, QueueDistinct

LEMMA EventsSame ==
    ASSUME EventsDistinct, ipq' = ipq
    PROVE  InEvents' = InEvents /\ EventsDistinct'
  BY DEF InEvents, EventsDistinct, Received

LEMMA WaitsSame ==
    ASSUME WaitsDistinct, waiting' = waiting
    PROVE  /\ \A t \in Socket : InList(t)' = InList(t)
           /\ WaitsDistinct'
  BY DEF InList, WaitsDistinct

LEMMA QueueGrows ==
    ASSUME TypeOK, QueueDistinct,
           NEW x \in Item, x.buf \notin InQueue, queue' = Append(queue, x)
    PROVE  InQueue' = InQueue \cup {x.buf} /\ QueueDistinct'
<1>1. /\ Len(queue) \in Nat
      /\ Len(queue') = Len(queue) + 1
      /\ \A k \in 1..Len(queue) : queue'[k] = queue[k]
      /\ queue'[Len(queue) + 1] = x
  BY Appended DEF TypeOK
<1>2. /\ \A k \in 1..Len(queue') : k \in 1..Len(queue) \/ k = Len(queue) + 1
      /\ \A k \in 1..Len(queue) : k \in 1..Len(queue')
      /\ Len(queue) + 1 \in 1..Len(queue')
  BY <1>1
<1>3. InQueue' = InQueue \cup {x.buf}
  BY <1>1, <1>2 DEF InQueue
<1>4. \A k \in 1..Len(queue) : queue[k].buf # x.buf
  BY DEF InQueue
<1>5. QueueDistinct'
  BY <1>1, <1>2, <1>4 DEF QueueDistinct
<1> QED
  BY <1>3, <1>5

LEMMA QueueShrinks ==
    ASSUME TypeOK, QueueDistinct, queue # <<>>, queue' = Tail(queue)
    PROVE  /\ Head(queue).buf \in InQueue
           /\ InQueue' = InQueue \ {Head(queue).buf}
           /\ QueueDistinct'
<1>1. /\ Head(queue) = queue[1]
      /\ Len(queue) \in Nat \ {0}
      /\ Len(queue') = Len(queue) - 1
      /\ \A k \in 1..Len(queue') : queue'[k] = queue[k + 1]
  BY HeadTail DEF TypeOK
<1>2. /\ 1 \in 1..Len(queue)
      /\ \A k \in 1..Len(queue') : k + 1 \in 1..Len(queue) /\ k + 1 # 1
      /\ \A k \in 1..Len(queue) :
            k = 1 \/ \E j \in 1..Len(queue') : k = j + 1
      /\ \A j, k \in 1..Len(queue') : j + 1 = k + 1 => j = k
  BY <1>1
<1>3. Head(queue).buf \in InQueue
  BY <1>1, <1>2 DEF InQueue
<1>4. InQueue' \subseteq InQueue \ {Head(queue).buf}
  BY <1>1, <1>2 DEF InQueue, QueueDistinct
<1>5. ASSUME NEW k \in 1..Len(queue), queue[k].buf # Head(queue).buf
      PROVE  queue[k].buf \in InQueue'
  <2>1. PICK j \in 1..Len(queue') : k = j + 1
    BY <1>1, <1>2, <1>5
  <2> QED
    BY <1>1, <2>1 DEF InQueue
<1>6. InQueue \ {Head(queue).buf} \subseteq InQueue'
  BY <1>5 DEF InQueue
<1>7. QueueDistinct'
  BY <1>1, <1>2 DEF QueueDistinct
<1> QED
  BY <1>3, <1>4, <1>6, <1>7

LEMMA EventsGrow ==
    ASSUME TypeOK, EventsDistinct,
           NEW x \in IPEvent, ipq' = Append(ipq, x),
           x.type = "rx" => x.buf \notin InEvents
    PROVE  /\ InEvents' = IF x.type = "rx" THEN InEvents \cup {x.buf}
                          ELSE InEvents
           /\ EventsDistinct'
<1>1. /\ Len(ipq) \in Nat
      /\ Len(ipq') = Len(ipq) + 1
      /\ \A k \in 1..Len(ipq) : ipq'[k] = ipq[k]
      /\ ipq'[Len(ipq) + 1] = x
  BY Appended DEF TypeOK
<1>2. /\ \A k \in 1..Len(ipq') : k \in 1..Len(ipq) \/ k = Len(ipq) + 1
      /\ \A k \in 1..Len(ipq) : k \in 1..Len(ipq')
      /\ Len(ipq) + 1 \in 1..Len(ipq')
  BY <1>1
<1>3. Received' = IF x.type = "rx" THEN Received \cup {Len(ipq) + 1}
                  ELSE Received
  BY <1>1, <1>2 DEF Received
<1>4. \A k \in Received : k \in 1..Len(ipq)
  BY DEF Received
<1>5. CASE x.type = "rx"
  <2>1. InEvents' = InEvents \cup {x.buf}
    BY <1>1, <1>3, <1>4, <1>5 DEF InEvents
  <2>2. \A k \in Received : ipq[k].buf # x.buf
    BY <1>5 DEF InEvents
  <2>3. EventsDistinct'
    BY <1>1, <1>3, <1>4, <1>5, <2>2 DEF EventsDistinct
  <2> QED
    BY <1>5, <2>1, <2>3
<1>6. CASE x.type # "rx"
  BY <1>1, <1>3, <1>4, <1>6 DEF InEvents, EventsDistinct
<1> QED
  BY <1>5, <1>6

LEMMA EventsShrink ==
    ASSUME TypeOK, EventsDistinct, ipq # <<>>, ipq' = Tail(ipq)
    PROVE  /\ Head(ipq).type = "rx" => Head(ipq).buf \in InEvents
           /\ InEvents' = IF Head(ipq).type = "rx"
                            THEN InEvents \ {Head(ipq).buf} ELSE InEvents
           /\ EventsDistinct'
<1>1. /\ Head(ipq) = ipq[1]
      /\ Len(ipq) \in Nat \ {0}
      /\ Len(ipq') = Len(ipq) - 1
      /\ \A k \in 1..Len(ipq') : ipq'[k] = ipq[k + 1]
  BY HeadTail DEF TypeOK
<1>2. /\ 1 \in 1..Len(ipq)
      /\ \A k \in 1..Len(ipq') : k \in Nat /\ k + 1 \in 1..Len(ipq) /\ k + 1 # 1
      /\ \A k \in 1..Len(ipq) :
            k = 1 \/ \E j \in 1..Len(ipq') : k = j + 1
      /\ \A j, k \in 1..Len(ipq') : j + 1 = k + 1 => j = k
  BY <1>1
<1>3. Head(ipq).type = "rx" => 1 \in Received /\ Head(ipq).buf \in InEvents
  BY <1>1, <1>2 DEF Received, InEvents
<1>4. \A k \in Received' : k \in 1..Len(ipq') /\ k + 1 \in Received /\ k + 1 # 1
  BY <1>1, <1>2 DEF Received
<1>5. \A k \in Received :
         k = 1 \/ \E j \in Received' : ipq'[j] = ipq[k]
  <2> SUFFICES ASSUME NEW k \in Received, k # 1
               PROVE  \E j \in Received' : ipq'[j] = ipq[k]
    OBVIOUS
  <2>1. PICK j \in 1..Len(ipq') : k = j + 1
    BY <1>2 DEF Received
  <2>2. ipq'[j] = ipq[k]
    BY <1>1, <2>1
  <2>3. j \in Received'
    BY <2>1, <2>2 DEF Received
  <2> QED
    BY <2>2, <2>3
<1>6. 1 \in Received => Head(ipq).type = "rx"
  BY <1>1 DEF Received
<1>7. InEvents' \subseteq InEvents
  BY <1>1, <1>4 DEF InEvents
<1>8. Head(ipq).type = "rx" => Head(ipq).buf \notin InEvents'
  BY <1>1, <1>3, <1>4 DEF InEvents, EventsDistinct
<1>9. ASSUME NEW b \in InEvents, Head(ipq).type = "rx" => b # Head(ipq).buf
      PROVE  b \in InEvents'
  <2>1. PICK k \in Received : b = ipq[k].buf
    BY DEF InEvents
  <2>2. k # 1
    BY <1>1, <1>6, <1>9, <2>1
  <2>3. PICK j \in Received' : ipq'[j] = ipq[k]
    BY <1>5, <2>2
  <2> QED
    BY <2>1, <2>3 DEF InEvents
<1>10. EventsDistinct'
  BY <1>1, <1>2, <1>4 DEF EventsDistinct
<1> QED
  BY <1>3, <1>7, <1>8, <1>9, <1>10

LEMMA WaitsGrow ==
    ASSUME TypeOK, WaitsDistinct, NEW s \in Socket, NEW b \in Buffer,
           b \notin InList(s), InsertEnd(s, b)
    PROVE  /\ InList(s)' = InList(s) \cup {b}
           /\ \A t \in Socket \ {s} : InList(t)' = InList(t)
           /\ WaitsDistinct'
<1>1. waiting[s] \in Seq(Buffer)
  BY DEF TypeOK
<1>2. /\ Len(waiting[s]) \in Nat
      /\ waiting'[s] = Append(waiting[s], b)
      /\ \A t \in Socket : t # s => waiting'[t] = waiting[t]
  BY <1>1, Appended DEF InsertEnd, TypeOK
<1> DEFINE n == Len(waiting[s])
           q == waiting'[s]
<1>3. /\ Len(q) = n + 1
      /\ \A k \in 1..n : q[k] = waiting[s][k]
      /\ q[n + 1] = b
  BY <1>1, <1>2, Appended
<1>4. /\ \A k \in 1..Len(q) : k \in 1..n \/ k = n + 1
      /\ \A k \in 1..n : k \in 1..Len(q)
      /\ n + 1 \in 1..Len(q)
  BY <1>2, <1>3
<1> HIDE DEF n, q
<1>5. \A k \in 1..n : q[k] # b
  BY <1>3 DEF InList, n
<1>6. {q[k] : k \in 1..Len(q)} = {waiting[s][k] : k \in 1..n} \cup {b}
  BY <1>3, <1>4
<1>7. InList(s)' = InList(s) \cup {b}
  BY <1>6 DEF InList, n, q
<1>8. \A t \in Socket \ {s} : InList(t)' = InList(t)
  BY <1>2 DEF InList
<1>9. \A j, k \in 1..n : q[j] = q[k] => j = k
  BY <1>3 DEF WaitsDistinct, n
<1>10. \A j, k \in 1..Len(q) : q[j] = q[k] => j = k
  BY <1>3, <1>4, <1>5, <1>9
<1>11. WaitsDistinct'
  BY <1>2, <1>10 DEF WaitsDistinct, q
<1> QED
  BY <1>7, <1>8, <1>11

LEMMA WaitsShrink ==
    ASSUME TypeOK, WaitsDistinct, NEW s \in Socket, waiting[s] # <<>>,
           waiting' = [waiting EXCEPT ![s] = Tail(@)]
    PROVE  /\ Head(waiting[s]) \in InList(s)
           /\ InList(s)' = InList(s) \ {Head(waiting[s])}
           /\ \A t \in Socket \ {s} : InList(t)' = InList(t)
           /\ WaitsDistinct'
<1> DEFINE h == Head(waiting[s])
           w == waiting[s]
           q == waiting'[s]
<1>1. w \in Seq(Buffer) /\ w # <<>> /\ h = Head(w)
  BY DEF TypeOK
<1>2. /\ q = Tail(w)
      /\ \A t \in Socket : t # s => waiting'[t] = waiting[t]
  BY DEF TypeOK
<1> HIDE DEF h, q, w
<1>3. /\ h = w[1]
      /\ Len(w) \in Nat \ {0}
      /\ Len(q) = Len(w) - 1
      /\ \A k \in 1..Len(q) : q[k] = w[k + 1]
  BY <1>1, <1>2, HeadTail
<1>4. \A j, k \in 1..Len(w) : w[j] = w[k] => j = k
  BY DEF WaitsDistinct, w
<1>5. /\ 1 \in 1..Len(w)
      /\ \A k \in 1..Len(q) : k + 1 \in 1..Len(w) /\ k + 1 # 1
      /\ \A k \in 1..Len(w) :
            k = 1 \/ \E j \in 1..Len(q) : k = j + 1
      /\ \A j, k \in 1..Len(q) : j + 1 = k + 1 => j = k
  BY <1>3
<1>6. \A k \in 1..Len(q) :
         q[k] \in {w[j] : j \in 1..Len(w)} /\ q[k] # h
  BY <1>3, <1>4, <1>5
<1>7. ASSUME NEW k \in 1..Len(w), w[k] # h
      PROVE  w[k] \in {q[j] : j \in 1..Len(q)}
  <2>1. PICK j \in 1..Len(q) : k = j + 1
    BY <1>3, <1>5, <1>7
  <2> QED
    BY <1>3, <2>1
<1>8. {q[k] : k \in 1..Len(q)} = {w[k] : k \in 1..Len(w)} \ {h}
  BY <1>6, <1>7
<1>9. h \in InList(s)
  BY <1>3, <1>5 DEF InList, w
<1>10. InList(s)' = InList(s) \ {h}
  BY <1>8 DEF InList, q, w
<1>11. \A t \in Socket \ {s} : InList(t)' = InList(t)
  BY <1>2 DEF InList
<1>12. \A j, k \in 1..Len(q) : q[j] = q[k] => j = k
  BY <1>3, <1>4, <1>5
<1>13. WaitsDistinct'
  BY <1>2, <1>12 DEF WaitsDistinct, q
<1> QED
  BY <1>9, <1>10, <1>11, <1>13 DEF h

LEMMA WaitsCleared ==
    ASSUME TypeOK, WaitsDistinct, NEW s \in Socket,
           waiting' = [waiting EXCEPT ![s] = <<>>]
    PROVE  /\ InList(s)' = {}
           /\ \A t \in Socket \ {s} : InList(t)' = InList(t)
           /\ WaitsDistinct'
<1>1. /\ waiting'[s] = <<>>
      /\ \A t \in Socket : t # s => waiting'[t] = waiting[t]
  BY DEF TypeOK
<1>2. 1..Len(waiting'[s]) = {}
  BY <1>1, EmptySeq
<1>3. InList(s)' = {}
  BY <1>2 DEF InList
<1>4. \A t \in Socket \ {s} : InList(t)' = InList(t)
  BY <1>1 DEF InList
<1>5. WaitsDistinct'
  BY <1>1, <1>2 DEF WaitsDistinct
<1> QED
  BY <1>3, <1>4, <1>5

\* A step that moves buffer b to place p of socket s, and no other.
LEMMA Moved ==
    ASSUME OwnerInv, Distinct', NEW b \in Buffer, NEW p, NEW s,
           Place(p, s), At(b, p, s)',
           \A c \in Buffer \ {b} : \A q, t : At(c, q, t) => At(c, q, t)'
    PROVE  OwnerInv'
<1> SUFFICES ASSUME NEW c \in Buffer PROVE Placed(c)'
  BY DEF OwnerInv
<1>1. CASE c = b
  BY <1>1 DEF Placed, Place
<1>2. CASE c # b
  <2>1. PICK q, t : Place(q, t) /\ At(c, q, t)
    BY DEF OwnerInv, Placed
  <2>2. At(c, q, t)'
    BY <1>2, <2>1
  <2> QED
    BY <2>1, <2>2 DEF Placed, Place
<1> QED
  BY <1>1, <1>2

\* A step that moves none.
LEMMA Stays ==
    ASSUME OwnerInv, Distinct',
           free' = free, drv'.buf = drv.buf, ctl'.buf = ctl.buf,
           InQueue' = InQueue, InEvents' = InEvents,
           \A t \in Socket :
              InList(t)' = InList(t) /\ app'[t].buf = app[t].buf
    PROVE  OwnerInv'
<1>1. ASSUME NEW c, NEW p, NEW s, At(c, p, s)
      PROVE  At(c, p, s)'
  BY <1>1 DEF At
<1> QED
  BY <1>1 DEF OwnerInv, Placed, Place

\* The same when no list changes.
LEMMA Untouched ==
    ASSUME OwnerInv, UNCHANGED <<free, queue, ipq, waiting>>,
           drv'.buf = drv.buf, ctl'.buf = ctl.buf,
           \A t \in Socket : app'[t].buf = app[t].buf
    PROVE  OwnerInv'
  BY Stays, QueueSame, EventsSame, WaitsSame DEF OwnerInv, Distinct

LEMMA InitOwner == Init => OwnerInv
<1> SUFFICES ASSUME Init PROVE OwnerInv
  OBVIOUS
<1>1. Len(<<>>) = 0 /\ 1..0 = {}
  BY EmptySeq
<1>2. InQueue = {} /\ Received = {} /\ InEvents = {}
  BY <1>1 DEF Init, InQueue, Received, InEvents
<1>3. \A t \in Socket : waiting[t] = <<>> /\ InList(t) = {}
  BY <1>1 DEF Init, InList
<1>4. Distinct
  BY <1>1, <1>2, <1>3
  DEF Init, Distinct, QueueDistinct, EventsDistinct, WaitsDistinct
<1>5. ASSUME NEW b \in Buffer
      PROVE  At(b, "pool", None)
  BY <1>2, <1>3, ReceptionAssumption
  DEF Init, IdleDriver, IdleController, At
<1>6. Place("pool", None)
  BY DEF Place, Places
<1> QED
  BY <1>4, <1>5, <1>6 DEF OwnerInv, Placed

LEMMA DriverOwner ==
    ASSUME WellFormed, OwnerInv, Driver
    PROVE  OwnerInv'
<1> USE ReceptionAssumption DEF NullOr, sockets
<1>1. TypeOK /\ Shape /\ QueueDistinct /\ EventsDistinct /\ WaitsDistinct
  BY DEF WellFormed, OwnerInv, Distinct
<1>2. ASSUME NEW b \in Buffer, NEW p \in Port, ReceiveFrame(b, p)
      PROVE  OwnerInv'
  <2>1. PICK q, t : Place(q, t) /\ At(b, q, t)
    BY DEF OwnerInv, Placed
  <2>2. q = "pool" /\ drv.buf = None
    BY <1>1, <1>2, <2>1 DEF ReceiveFrame, At, Shape
  <2>3. UNCHANGED <<queue, ipq, waiting, ctl, app>>
    BY <1>2 DEF ReceiveFrame
  <2>4. /\ InQueue' = InQueue
        /\ InEvents' = InEvents
        /\ \A s \in Socket : InList(s)' = InList(s)
        /\ Distinct'
    BY <1>1, <2>3, QueueSame, EventsSame, WaitsSame DEF Distinct
  <2>5. free' = free \ {b} /\ drv'.buf = b
    BY <1>2 DEF ReceiveFrame
  <2>6. At(b, "driver", None)'
    BY <2>1, <2>2, <2>3, <2>4, <2>5 DEF At
  <2>7. ASSUME NEW c \in Buffer \ {b}, NEW r, NEW s, At(c, r, s)
        PROVE  At(c, r, s)'
    BY <2>2, <2>3, <2>4, <2>5, <2>7 DEF At
  <2> QED
    BY <2>4, <2>6, <2>7, Moved DEF Place, Places
<1>3. ASSUME NEW h \in Header, FillAncillary(h) \/ FillPayloadFails(h)
      PROVE  OwnerInv'
  BY <1>3, Untouched DEF FillAncillary, FillPayloadFails, DriverAt
<1>4. ASSUME HeaderMallocFails \/ DriverMiss \/ DriverFindsBase
      PROVE  OwnerInv'
  BY <1>4, Untouched
  DEF HeaderMallocFails, DriverMiss, DriverFindsBase, DriverAt, memory
<1>5. ASSUME NoReceiver \/ InsertFails
      PROVE  OwnerInv'
  <2>0. PICK b \in Buffer : b = drv.buf
    BY <1>1, <1>5 DEF NoReceiver, InsertFails, Shape, TypeOK
  <2>1. PICK q, t : Place(q, t) /\ At(b, q, t)
    BY DEF OwnerInv, Placed
  <2>2. q = "driver"
    BY <2>0, <2>1 DEF At
  <2>3. UNCHANGED <<queue, ipq, waiting, ctl, app>>
    BY <1>5 DEF NoReceiver, InsertFails
  <2>4. /\ InQueue' = InQueue
        /\ InEvents' = InEvents
        /\ \A s \in Socket : InList(s)' = InList(s)
        /\ Distinct'
    BY <1>1, <2>3, QueueSame, EventsSame, WaitsSame DEF Distinct
  <2>5. free' = free \cup {b} /\ drv'.buf = None
    BY <1>5, <2>0 DEF NoReceiver, InsertFails, IdleDriver
  <2>6. At(b, "pool", None)'
    BY <2>0, <2>1, <2>2, <2>3, <2>4, <2>5 DEF At
  <2>7. ASSUME NEW c \in Buffer \ {b}, NEW r, NEW s, At(c, r, s)
        PROVE  At(c, r, s)'
    BY <2>0, <2>3, <2>4, <2>5, <2>7 DEF At
  <2> QED
    BY <2>4, <2>6, <2>7, Moved DEF Place, Places
<1>6. ASSUME InsertPacket
      PROVE  OwnerInv'
  <2>0. PICK b \in Buffer, x \in Item :
           b = drv.buf /\ x = [buf |-> drv.buf, msgh |-> drv.msgh]
    BY <1>1, <1>6 DEF InsertPacket, Shape, TypeOK, Item
  <2>1. PICK q, t : Place(q, t) /\ At(b, q, t)
    BY DEF OwnerInv, Placed
  <2>2. q = "driver" /\ b \notin InQueue /\ x.buf = b
    BY <2>0, <2>1 DEF At
  <2>3. UNCHANGED <<free, ipq, waiting, ctl, app>> /\ queue' = Append(queue, x)
    BY <1>6, <2>0 DEF InsertPacket, memory
  <2>4. InQueue' = InQueue \cup {b} /\ QueueDistinct'
    BY <1>1, <2>2, <2>3, QueueGrows
  <2>5. /\ InEvents' = InEvents
        /\ \A s \in Socket : InList(s)' = InList(s)
        /\ Distinct'
    BY <1>1, <2>3, <2>4, EventsSame, WaitsSame DEF Distinct
  <2>6. drv'.buf = None
    BY <1>6 DEF InsertPacket, IdleDriver
  <2>7. At(b, "queue", None)'
    BY <2>0, <2>1, <2>2, <2>3, <2>4, <2>5, <2>6 DEF At
  <2>8. ASSUME NEW c \in Buffer \ {b}, NEW r, NEW s, At(c, r, s)
        PROVE  At(c, r, s)'
    BY <2>0, <2>3, <2>4, <2>5, <2>6, <2>8 DEF At
  <2> QED
    BY <2>5, <2>7, <2>8, Moved DEF Place, Places
<1> QED
  BY <1>2, <1>3, <1>4, <1>5, <1>6 DEF Driver

\* A buffer Plus-TCP processes goes to a list or to the pool.
LEMMA ProcessMoves ==
    ASSUME TypeOK, WaitsDistinct, NEW b \in Buffer, ProcessUDP(b),
           \A t \in Socket : b \notin InList(t)
    PROVE  /\ WaitsDistinct'
           /\ \/ \E s \in Socket :
                   /\ free' = free
                   /\ InList(s)' = InList(s) \cup {b}
                   /\ \A t \in Socket \ {s} : InList(t)' = InList(t)
              \/ /\ free' = free \cup {b}
                 /\ \A t \in Socket : InList(t)' = InList(t)
<1>1. CASE Found(port[b])
  <2>1. PICK s \in Socket : s = port[b]
    BY <1>1 DEF Found
  <2>2. free' = free /\ InsertEnd(s, b)
    BY <1>1, <2>1 DEF ProcessUDP
  <2> QED
    BY <2>2, WaitsGrow
<1>2. CASE ~Found(port[b])
  BY <1>2, WaitsSame DEF ProcessUDP
<1> QED
  BY <1>1, <1>2

LEMMA ControllerOwner ==
    ASSUME WellFormed, OwnerInv, Controller
    PROVE  OwnerInv'
<1> USE ReceptionAssumption DEF NullOr, sockets
<1>1. TypeOK /\ Shape /\ QueueDistinct /\ EventsDistinct /\ WaitsDistinct
  BY DEF WellFormed, OwnerInv, Distinct
<1>2. ASSUME PopFrame
      PROVE  OwnerInv'
  <2>0. queue \in Seq(Item) /\ queue # <<>>
    BY <1>1, <1>2 DEF PopFrame, TypeOK
  <2>1. PICK b \in Buffer : b = Head(queue).buf
    <3>1. Head(queue) \in Item
      BY <2>0, HeadTail
    <3> QED
      BY <3>1 DEF Item
  <2>2. PICK p, s : Place(p, s) /\ At(b, p, s)
    BY DEF OwnerInv, Placed
  <2>3. /\ b \in InQueue
        /\ InQueue' = InQueue \ {b}
        /\ QueueDistinct'
    BY <1>1, <1>2, <2>1, QueueShrinks DEF PopFrame
  <2>4. ctl.buf = None /\ ctl'.buf = b
    BY <1>1, <1>2, <2>1 DEF PopFrame, Shape
  <2>5. UNCHANGED <<free, drv, ipq, waiting, app>>
    BY <1>2 DEF PopFrame, memory
  <2>6. /\ InEvents' = InEvents
        /\ \A t \in Socket : InList(t)' = InList(t)
        /\ Distinct'
    BY <1>1, <2>3, <2>5, EventsSame, WaitsSame DEF Distinct
  <2>7. At(b, "controller", None)'
    BY <2>2, <2>3, <2>4, <2>5, <2>6 DEF At
  <2>8. ASSUME NEW c \in Buffer \ {b}, NEW q, NEW t, At(c, q, t)
        PROVE  At(c, q, t)'
    BY <2>3, <2>4, <2>5, <2>6, <2>8 DEF At
  <2> QED
    BY <2>6, <2>7, <2>8, Moved DEF Place, Places
<1>3. ASSUME FindTSN \/ ControllerMiss \/ AssertFails \/ FindPlain \/ FindNone
      PROVE  OwnerInv'
  BY <1>3, Untouched
  DEF FindTSN, ControllerMiss, AssertFails, FindPlain, FindNone, ControllerAt,
      memory
<1>4. ASSUME SetEvent
      PROVE  OwnerInv'
  BY <1>1, <1>4, Untouched DEF SetEvent, IdleController, memory, Shape
<1>5. ASSUME DeliverTSN
      PROVE  OwnerInv'
  <2>1. PICK b \in Buffer, s \in Socket : b = ctl.buf /\ s = ctl.sock
    BY <1>1, <1>5 DEF DeliverTSN, Shape, TypeOK
  <2>2. PICK p, r : Place(p, r) /\ At(b, p, r)
    BY DEF OwnerInv, Placed
  <2>3. p = "controller" /\ b \notin InList(s)
    BY <2>1, <2>2 DEF At
  <2>4. /\ InList(s)' = InList(s) \cup {b}
        /\ \A t \in Socket \ {s} : InList(t)' = InList(t)
        /\ WaitsDistinct'
    BY <1>1, <1>5, <2>1, <2>3, WaitsGrow DEF DeliverTSN
  <2>5. UNCHANGED <<free, drv, queue, ipq, app>> /\ ctl'.buf = None
    BY <1>5 DEF DeliverTSN
  <2>6. InQueue' = InQueue /\ InEvents' = InEvents /\ Distinct'
    BY <1>1, <2>4, <2>5, QueueSame, EventsSame DEF Distinct
  <2>7. At(b, "list", s)'
    BY <2>2, <2>3, <2>4, <2>5, <2>6 DEF At
  <2>8. ASSUME NEW c \in Buffer \ {b}, NEW q, NEW t, At(c, q, t)
        PROVE  At(c, q, t)'
    BY <2>1, <2>4, <2>5, <2>6, <2>8 DEF At
  <2> QED
    BY <2>6, <2>7, <2>8, Moved DEF Place, Places
<1>6. ASSUME SendToIPTask
      PROVE  OwnerInv'
  <2>1. PICK b \in Buffer, x \in IPEvent :
           b = ctl.buf /\ x = [type |-> "rx", buf |-> ctl.buf]
    BY <1>1, <1>6 DEF SendToIPTask, Shape, TypeOK, IPEvent
  <2>2. PICK p, s : Place(p, s) /\ At(b, p, s)
    BY DEF OwnerInv, Placed
  <2>3. /\ p = "controller"
        /\ b \notin InEvents
        /\ x.type = "rx"
        /\ x.buf = b
    BY <2>1, <2>2 DEF At
  <2>4. /\ UNCHANGED <<free, drv, queue, waiting, app>>
        /\ ipq' = Append(ipq, x)
        /\ ctl'.buf = None
    BY <1>6, <2>1 DEF SendToIPTask, memory, IdleController
  <2>5. InEvents' = InEvents \cup {b} /\ EventsDistinct'
    BY <1>1, <2>3, <2>4, EventsGrow
  <2>6. /\ InQueue' = InQueue
        /\ \A t \in Socket : InList(t)' = InList(t)
        /\ Distinct'
    BY <1>1, <2>4, <2>5, QueueSame, WaitsSame DEF Distinct
  <2>7. At(b, "ip", None)'
    BY <2>2, <2>3, <2>4, <2>5, <2>6 DEF At
  <2>8. ASSUME NEW c \in Buffer \ {b}, NEW q, NEW t, At(c, q, t)
        PROVE  At(c, q, t)'
    BY <2>1, <2>4, <2>5, <2>6, <2>8 DEF At
  <2> QED
    BY <2>6, <2>7, <2>8, Moved DEF Place, Places
<1>7. ASSUME SendToIPTaskFails
      PROVE  OwnerInv'
  <2>1. PICK b \in Buffer : b = ctl.buf
    BY <1>1, <1>7 DEF SendToIPTaskFails, Shape, TypeOK
  <2>2. PICK p, s : Place(p, s) /\ At(b, p, s)
    BY DEF OwnerInv, Placed
  <2>3. p = "controller"
    BY <2>1, <2>2 DEF At
  <2>4. /\ UNCHANGED <<drv, queue, ipq, waiting, app>>
        /\ free' = free \cup {b}
        /\ ctl'.buf = None
    BY <1>7, <2>1 DEF SendToIPTaskFails, IdleController
  <2>5. /\ InQueue' = InQueue
        /\ InEvents' = InEvents
        /\ \A t \in Socket : InList(t)' = InList(t)
        /\ Distinct'
    BY <1>1, <2>4, QueueSame, EventsSame, WaitsSame DEF Distinct
  <2>6. At(b, "pool", None)'
    BY <2>2, <2>3, <2>4, <2>5 DEF At
  <2>7. ASSUME NEW c \in Buffer \ {b}, NEW q, NEW t, At(c, q, t)
        PROVE  At(c, q, t)'
    BY <2>1, <2>4, <2>5, <2>7 DEF At
  <2> QED
    BY <2>5, <2>6, <2>7, Moved DEF Place, Places
<1>8. ASSUME ProcessPlain
      PROVE  OwnerInv'
  <2>1. PICK b \in Buffer : b = ctl.buf
    BY <1>1, <1>8 DEF ProcessPlain, Shape, TypeOK
  <2>2. PICK p, s : Place(p, s) /\ At(b, p, s)
    BY DEF OwnerInv, Placed
  <2>3. p = "controller" /\ \A t \in Socket : b \notin InList(t)
    BY <2>1, <2>2 DEF At
  <2>4. UNCHANGED <<drv, queue, ipq, app>> /\ ctl'.buf = None
    BY <1>8 DEF ProcessPlain, IdleController
  <2>5. ProcessUDP(b)
    BY <1>8, <2>1 DEF ProcessPlain
  <2>6. WaitsDistinct'
    BY <1>1, <2>3, <2>5, ProcessMoves
  <2>7. InQueue' = InQueue /\ InEvents' = InEvents /\ Distinct'
    BY <1>1, <2>4, <2>6, QueueSame, EventsSame DEF Distinct
  <2>8. ASSUME NEW t \in Socket, free' = free, InList(t)' = InList(t) \cup {b},
               \A u \in Socket \ {t} : InList(u)' = InList(u)
        PROVE  OwnerInv'
    <3>1. At(b, "list", t)'
      BY <2>2, <2>3, <2>4, <2>7, <2>8 DEF At
    <3>2. ASSUME NEW c \in Buffer \ {b}, NEW q, NEW u, At(c, q, u)
          PROVE  At(c, q, u)'
      BY <2>1, <2>4, <2>7, <2>8, <3>2 DEF At
    <3> QED
      BY <2>7, <3>1, <3>2, Moved DEF Place, Places
  <2>9. ASSUME free' = free \cup {b},
               \A u \in Socket : InList(u)' = InList(u)
        PROVE  OwnerInv'
    <3>1. At(b, "pool", None)'
      BY <2>2, <2>3, <2>4, <2>7, <2>9 DEF At
    <3>2. ASSUME NEW c \in Buffer \ {b}, NEW q, NEW u, At(c, q, u)
          PROVE  At(c, q, u)'
      BY <2>1, <2>4, <2>7, <2>9, <3>2 DEF At
    <3> QED
      BY <2>7, <3>1, <3>2, Moved DEF Place, Places
  <2> QED
    BY <1>1, <2>3, <2>5, <2>8, <2>9, ProcessMoves
<1> QED
  BY <1>2, <1>3, <1>4, <1>5, <1>6, <1>7, <1>8 DEF Controller

LEMMA IPTaskOwner ==
    ASSUME WellFormed, OwnerInv, IPTask
    PROVE  OwnerInv'
<1> USE ReceptionAssumption DEF NullOr, sockets
<1>1. TypeOK /\ Shape /\ QueueDistinct /\ EventsDistinct /\ WaitsDistinct
  BY DEF WellFormed, OwnerInv, Distinct
<1>2. ipq # <<>> /\ ipq' = Tail(ipq)
  BY DEF IPTask, IPTaskReceives, IPTaskCloses
<1>3. Head(ipq) \in IPEvent
  BY <1>1, <1>2, HeadTail DEF TypeOK
<1>4. ASSUME IPTaskReceives
      PROVE  OwnerInv'
  <2>1. PICK b \in Buffer : b = Head(ipq).buf
    BY <1>3, <1>4 DEF IPTaskReceives, IPEvent
  <2>2. PICK p, s : Place(p, s) /\ At(b, p, s)
    BY DEF OwnerInv, Placed
  <2>3. /\ b \in InEvents
        /\ InEvents' = InEvents \ {b}
        /\ EventsDistinct'
    BY <1>1, <1>2, <1>4, <2>1, EventsShrink DEF IPTaskReceives
  <2>4. p = "ip" /\ \A t \in Socket : b \notin InList(t)
    BY <2>2, <2>3 DEF At
  <2>5. UNCHANGED <<drv, queue, ctl, app>> /\ ProcessUDP(b)
    BY <1>4, <2>1 DEF IPTaskReceives
  <2>6. InQueue' = InQueue /\ Distinct'
    BY <1>1, <2>3, <2>4, <2>5, QueueSame, ProcessMoves DEF Distinct
  <2>7. ASSUME NEW t \in Socket, free' = free, InList(t)' = InList(t) \cup {b},
               \A u \in Socket \ {t} : InList(u)' = InList(u)
        PROVE  OwnerInv'
    <3>1. At(b, "list", t)'
      BY <2>2, <2>3, <2>4, <2>5, <2>6, <2>7 DEF At
    <3>2. ASSUME NEW c \in Buffer \ {b}, NEW q, NEW u, At(c, q, u)
          PROVE  At(c, q, u)'
      BY <2>3, <2>5, <2>6, <2>7, <3>2 DEF At
    <3> QED
      BY <2>6, <3>1, <3>2, Moved DEF Place, Places
  <2>8. ASSUME free' = free \cup {b},
               \A u \in Socket : InList(u)' = InList(u)
        PROVE  OwnerInv'
    <3>1. At(b, "pool", None)'
      BY <2>2, <2>3, <2>4, <2>5, <2>6, <2>8 DEF At
    <3>2. ASSUME NEW c \in Buffer \ {b}, NEW q, NEW u, At(c, q, u)
          PROVE  At(c, q, u)'
      BY <2>3, <2>5, <2>6, <2>8, <3>2 DEF At
    <3> QED
      BY <2>6, <3>1, <3>2, Moved DEF Place, Places
  <2> QED
    BY <1>1, <2>4, <2>5, <2>7, <2>8, ProcessMoves
<1>5. ASSUME IPTaskCloses
      PROVE  OwnerInv'
  <2>1. PICK s \in Socket : s = Head(ipq).sock
    BY <1>3, <1>5 DEF IPTaskCloses, IPEvent
  <2>2. /\ waiting' = [waiting EXCEPT ![s] = <<>>]
        /\ free' = free \cup InList(s)
        /\ UNCHANGED <<drv, queue, ctl, app>>
    BY <1>5, <2>1 DEF IPTaskCloses, InList
  <2>3. /\ InList(s)' = {}
        /\ \A t \in Socket \ {s} : InList(t)' = InList(t)
        /\ WaitsDistinct'
    BY <1>1, <2>2, WaitsCleared
  <2>4. InEvents' = InEvents /\ EventsDistinct'
    BY <1>1, <1>2, <1>5, EventsShrink DEF IPTaskCloses
  <2>5. InQueue' = InQueue /\ Distinct'
    BY <1>1, <2>2, <2>3, <2>4, QueueSame DEF Distinct
  <2>6. ASSUME NEW c \in Buffer
        PROVE  Placed(c)'
    <3>1. PICK p, r : Place(p, r) /\ At(c, p, r)
      BY DEF OwnerInv, Placed
    <3>2. CASE c \in InList(s)
      <4>1. p = "list" /\ r = s
        BY <3>1, <3>2 DEF At
      <4>2. At(c, "pool", None)'
        BY <2>2, <2>3, <2>4, <2>5, <3>1, <3>2, <4>1 DEF At
      <4> QED
        BY <4>2 DEF Placed, Place, Places
    <3>3. CASE c \notin InList(s)
      <4>1. At(c, p, r)'
        BY <2>2, <2>3, <2>4, <2>5, <3>1, <3>3 DEF At
      <4> QED
        BY <3>1, <4>1 DEF Placed, Place
    <3> QED
      BY <3>2, <3>3
  <2> QED
    BY <2>5, <2>6 DEF OwnerInv
<1> QED
  BY <1>4, <1>5 DEF IPTask

LEMMA ApplicationOwner ==
    ASSUME WellFormed, OwnerInv, NEW s \in Socket, Application(s)
    PROVE  OwnerInv'
<1> USE ReceptionAssumption DEF NullOr, sockets
<1>1. TypeOK /\ Shape /\ QueueDistinct /\ EventsDistinct /\ WaitsDistinct
  BY DEF WellFormed, OwnerInv, Distinct
<1>2. ASSUME \/ BindBase(s) \/ BindTSN(s) \/ CloseTSN(s)
             \/ Recv(s) \/ Wake(s) \/ Expire(s) \/ Recount(s)
             \/ RecvFaults(s)
      PROVE  OwnerInv'
  <2>1. PICK label : Goto(s, label)
    BY <1>2 DEF BindBase, BindTSN, CloseTSN, Recv, Wake, Expire, Recount,
        RecvFaults
  <2>2. \A t \in Socket : app'[t].buf = app[t].buf
    BY <1>1, <2>1 DEF Goto, TypeOK
  <2>3. UNCHANGED <<free, queue, ipq, waiting, drv, ctl>>
    BY <1>2
    DEF BindBase, BindTSN, CloseTSN, Recv, Wake, Expire, Recount, RecvFaults,
        memory
  <2> QED
    BY <2>2, <2>3, Untouched
<1>3. ASSUME CloseBase(s)
      PROVE  OwnerInv'
  <2>1. PICK x \in IPEvent : x = [type |-> "close", sock |-> s]
    BY DEF IPEvent
  <2>2. /\ ipq' = Append(ipq, x)
        /\ x.type # "rx"
        /\ UNCHANGED <<free, queue, waiting, drv, ctl>>
    BY <1>3, <2>1 DEF CloseBase, memory
  <2>3. \A t \in Socket : app'[t].buf = app[t].buf
    BY <1>1, <1>3 DEF CloseBase, Goto, TypeOK
  <2>4. InEvents' = InEvents /\ EventsDistinct'
    BY <1>1, <2>2, EventsGrow
  <2>5. /\ InQueue' = InQueue
        /\ \A t \in Socket : InList(t)' = InList(t)
        /\ Distinct'
    BY <1>1, <2>2, <2>4, QueueSame, WaitsSame DEF Distinct
  <2> QED
    BY <2>2, <2>3, <2>4, <2>5, Stays
<1>4. ASSUME Take(s)
      PROVE  OwnerInv'
  <2>1. waiting[s] \in Seq(Buffer) /\ waiting[s] # <<>>
    BY <1>1, <1>4 DEF Take, TypeOK
  <2>2. PICK b \in Buffer : b = Head(waiting[s])
    BY <2>1, HeadTail
  <2>3. PICK p, r : Place(p, r) /\ At(b, p, r)
    BY DEF OwnerInv, Placed
  <2>4. /\ b \in InList(s)
        /\ InList(s)' = InList(s) \ {b}
        /\ \A t \in Socket \ {s} : InList(t)' = InList(t)
        /\ WaitsDistinct'
    BY <1>1, <1>4, <2>1, <2>2, WaitsShrink DEF Take
  <2>5. /\ app[s].buf = None
        /\ app'[s].buf = b
        /\ \A t \in Socket \ {s} : app'[t] = app[t]
    BY <1>1, <1>4, <2>2 DEF Take, Shape, TypeOK
  <2>6. UNCHANGED <<free, queue, ipq, drv, ctl>>
    BY <1>4 DEF Take, memory
  <2>7. InQueue' = InQueue /\ InEvents' = InEvents /\ Distinct'
    BY <1>1, <2>4, <2>6, QueueSame, EventsSame DEF Distinct
  <2>8. At(b, "app", s)'
    BY <2>3, <2>4, <2>5, <2>6, <2>7 DEF At
  <2>9. ASSUME NEW c \in Buffer \ {b}, NEW q, NEW t, At(c, q, t)
        PROVE  At(c, q, t)'
    BY <2>4, <2>5, <2>6, <2>7, <2>9 DEF At
  <2> QED
    BY <2>7, <2>8, <2>9, Moved DEF Place, Places
<1>5. ASSUME ReturnTSN(s) \/ ReturnPlain(s)
      PROVE  OwnerInv'
  <2>1. PICK b \in Buffer : b = app[s].buf
    BY <1>1, <1>5 DEF ReturnTSN, ReturnPlain, Shape, TypeOK
  <2>2. PICK p, r : Place(p, r) /\ At(b, p, r)
    BY DEF OwnerInv, Placed
  <2>3. p = "app"
    BY <2>1, <2>2 DEF At
  <2>4. /\ free' = free \cup {b}
        /\ app'[s].buf = None
        /\ \A t \in Socket \ {s} : app'[t] = app[t]
    BY <1>1, <1>5, <2>1 DEF ReturnTSN, ReturnPlain, TypeOK
  <2>5. UNCHANGED <<queue, ipq, waiting, drv, ctl>>
    BY <1>5 DEF ReturnTSN, ReturnPlain
  <2>6. /\ InQueue' = InQueue
        /\ InEvents' = InEvents
        /\ \A t \in Socket : InList(t)' = InList(t)
        /\ Distinct'
    BY <1>1, <2>5, QueueSame, EventsSame, WaitsSame DEF Distinct
  <2>7. At(b, "pool", None)'
    BY <2>1, <2>2, <2>3, <2>4, <2>5, <2>6 DEF At
  <2>8. ASSUME NEW c \in Buffer \ {b}, NEW q, NEW t, At(c, q, t)
        PROVE  At(c, q, t)'
    BY <2>1, <2>4, <2>5, <2>6, <2>8 DEF At
  <2> QED
    BY <2>6, <2>7, <2>8, Moved DEF Place, Places
<1> QED
  BY <1>2, <1>3, <1>4, <1>5 DEF Application, Receiver

LEMMA StepOwner == WellFormed /\ OwnerInv /\ [Next]_vars => OwnerInv'
<1> SUFFICES ASSUME WellFormed, OwnerInv, [Next]_vars PROVE OwnerInv'
  OBVIOUS
<1>1. CASE Next
  BY <1>1, DriverOwner, ControllerOwner, IPTaskOwner, ApplicationOwner DEF Next
<1>2. CASE UNCHANGED vars
  BY <1>2, Untouched DEF vars
<1> QED
  BY <1>1, <1>2

\* One place in the sense of OwnerInv is one element of Whereabouts(b).
LEMMA OwnerInvSuffices ==
    ASSUME OwnerInv, NEW b \in Buffer
    PROVE  \E w \in Whereabouts(b) : Whereabouts(b) = {w}
<1> DEFINE inPool == When(b \in free, <<"pool">>)
           atDriver == When(b = drv.buf, <<"driver">>)
           atController == When(b = ctl.buf, <<"controller">>)
           inQueue == {<<"queue", k>> :
                         k \in {j \in 1..Len(queue) : queue[j].buf = b}}
           inEvents == {<<"ip", k>> :
                          k \in {j \in 1..Len(ipq) :
                                   ipq[j].type = "rx" /\ ipq[j].buf = b}}
           atApp(t) == When(b = app[t].buf, <<"app", t>>)
           inSocket(t) == {<<"socket", t, k>> :
                             k \in {j \in 1..Len(waiting[t]) :
                                      waiting[t][j] = b}}
           atApps == UNION {atApp(t) : t \in Socket}
           inSockets == UNION {inSocket(t) : t \in Socket}
           all == inPool \cup atDriver \cup atController \cup inQueue
                    \cup inEvents \cup atApps \cup inSockets
<1>1. Whereabouts(b) = all
  BY DEF Whereabouts
<1>2. PICK p, s : Place(p, s) /\ At(b, p, s)
  BY DEF OwnerInv, Placed
<1>3. /\ inPool = IF p = "pool" THEN {<<"pool">>} ELSE {}
      /\ atDriver = IF p = "driver" THEN {<<"driver">>} ELSE {}
      /\ atController = IF p = "controller" THEN {<<"controller">>} ELSE {}
  BY <1>2 DEF When, At
<1>4. p # "queue" => inQueue = {}
  BY <1>2 DEF At, InQueue
<1>5. p = "queue" => \E w : inQueue = {w}
  <2> SUFFICES ASSUME p = "queue" PROVE \E w : inQueue = {w}
    OBVIOUS
  <2>1. PICK k \in 1..Len(queue) : queue[k].buf = b
    BY <1>2 DEF At, InQueue
  <2>2. {j \in 1..Len(queue) : queue[j].buf = b} = {k}
    BY <2>1 DEF OwnerInv, Distinct, QueueDistinct
  <2>3. inQueue = {<<"queue", k>>}
    BY <2>2
  <2> QED
    BY <2>3
<1>6. p # "ip" => inEvents = {}
  BY <1>2 DEF At, InEvents, Received
<1>7. p = "ip" => \E w : inEvents = {w}
  <2> SUFFICES ASSUME p = "ip" PROVE \E w : inEvents = {w}
    OBVIOUS
  <2>1. PICK k \in Received : ipq[k].buf = b
    BY <1>2 DEF At, InEvents
  <2>2. {j \in 1..Len(ipq) : ipq[j].type = "rx" /\ ipq[j].buf = b} = {k}
    BY <2>1 DEF OwnerInv, Distinct, EventsDistinct, Received
  <2>3. inEvents = {<<"ip", k>>}
    BY <2>2
  <2> QED
    BY <2>3
<1>8. \A t \in Socket :
         atApp(t) = IF p = "app" /\ s = t THEN {<<"app", t>>} ELSE {}
  BY <1>2 DEF When, At
<1> HIDE DEF atApp
<1>9. atApps = IF p = "app" THEN {<<"app", s>>} ELSE {}
  <2>1. p = "app" => s \in Socket
    BY <1>2 DEF Place
  <2> QED
    BY <1>8, <2>1
<1>10. \A t \in Socket : ~(p = "list" /\ s = t) => inSocket(t) = {}
  BY <1>2 DEF At, InList
<1>11. p = "list" => \E w : inSocket(s) = {w}
  <2> SUFFICES ASSUME p = "list" PROVE \E w : inSocket(s) = {w}
    OBVIOUS
  <2>1. s \in Socket
    BY <1>2 DEF Place
  <2>2. PICK k \in 1..Len(waiting[s]) : waiting[s][k] = b
    BY <1>2, <2>1 DEF At, InList
  <2>3. {j \in 1..Len(waiting[s]) : waiting[s][j] = b} = {k}
    BY <2>1, <2>2 DEF OwnerInv, Distinct, WaitsDistinct
  <2>4. inSocket(s) = {<<"socket", s, k>>}
    BY <2>3
  <2> QED
    BY <2>4
<1> HIDE DEF inSocket
<1>12. /\ p # "list" => inSockets = {}
       /\ p = "list" => inSockets = inSocket(s)
  <2>1. p = "list" => s \in Socket
    BY <1>2 DEF Place
  <2> QED
    BY <1>10, <2>1
<1> HIDE DEF inPool, atDriver, atController, inQueue, inEvents, atApps,
             inSockets
<1>13. p \in Places
  BY <1>2 DEF Place
<1>14. \E w : all = {w}
  BY <1>3, <1>4, <1>5, <1>6, <1>7, <1>9, <1>11, <1>12, <1>13 DEF Places
<1> QED
  BY <1>1, <1>14

(***************************************************************************)
(* A network buffer always has exactly one owner, whatever frames arrive,  *)
(* however full the queues are, and whichever sockets are bound or closed  *)
(* meanwhile (Wrapper.c:505-627, Controller.c:126-259, Sockets.c:827-911). *)
(***************************************************************************)
THEOREM ReceptionOneOwner == Spec => []OneOwner
<1>1. Init => WellFormed /\ OwnerInv
  BY InitWellFormed, InitOwner
<1>2. WellFormed /\ OwnerInv /\ [Next]_vars => (WellFormed /\ OwnerInv)'
  BY StepWellFormed, StepOwner
<1>3. WellFormed /\ OwnerInv => OneOwner
  BY OwnerInvSuffices DEF OneOwner
<1> QED
  BY <1>1, <1>2, <1>3, PTL DEF Spec

-----------------------------------------------------------------------------
(***************************************************************************)
(* Headers.  When the sockets are bound before traffic and none is closed, *)
(* each place tells what is known of the Ethernet pointer and the header   *)
(* of a buffer that is there, and each header is known to one who will     *)
(* free it.  With "bind" or "close" this is false, as the runs with these  *)
(* calls show.                                                             *)
(***************************************************************************)

\* What an allocation that failed has left a frame with.
Lacking(b, h) ==
    /\ b \in short
    /\ h # None => h \in heap /\ iov[h] = None

\* A buffer on its way, and header h of its item.
WithHeader(b, h) ==
    /\ eth[b] = b
    /\ IF port[b] \in TSN THEN (h \in heap /\ iov[h] = b) \/ Lacking(b, h)
                         ELSE h = None

\* A buffer on its way that no TSN socket is to get.
Plain(b) == eth[b] = b /\ port[b] \notin TSN

\* A buffer that socket s has been given.
Ready(b, s) ==
    /\ port[b] = s
    /\ s \in TSN => eth[b] \in heap /\ iov[eth[b]] = b
    /\ s \notin TSN => eth[b] = b

\* No socket is bound or closed any more.
Settled ==
    /\ listed = TSN
    /\ \A s \in Socket :
          /\ base[s] = "bound"
          /\ app[s].pc \notin {"created", "binding", "closing", "closed"}
    /\ \A k \in 1..Len(ipq) : ipq[k].type = "rx"

PoolSound == \A b \in free : eth[b] = b

DriverSound ==
    /\ drv.pc \in {"lookup", "lookupBase"} => eth[drv.buf] = drv.buf
    /\ drv.pc # "insert" => drv.msgh = None
    /\ drv.pc = "lookupBase" => port[drv.buf] \notin TSN
    /\ drv.pc = "insert" => WithHeader(drv.buf, drv.msgh)

QueueSound == \A k \in 1..Len(queue) : WithHeader(queue[k].buf, queue[k].msgh)

ControllerSound ==
    /\ ctl.pc \notin {"lookup", "deliver", "halted"} => ctl.msgh = None
    /\ ctl.pc \in {"lookup", "deliver"} => WithHeader(ctl.buf, ctl.msgh)
    /\ ctl.pc = "deliver" => ctl.sock \in TSN /\ port[ctl.buf] = ctl.sock
    /\ ctl.pc \in {"lookupBase", "process", "ipsend"} => Plain(ctl.buf)
    /\ ctl.pc = "halted" => ctl.buf \in short

EventsSound == \A k \in 1..Len(ipq) : Plain(ipq[k].buf)

ListsSound ==
    \A s \in Socket : \A k \in 1..Len(waiting[s]) : Ready(waiting[s][k], s)

AppsSound ==
    \A s \in Socket : app[s].pc = "return" => Ready(app[s].buf, s)

BuffersSound ==
    /\ PoolSound /\ DriverSound /\ QueueSound /\ ControllerSound
    /\ EventsSound /\ ListsSound /\ AppsSound

HeaderInv == Settled /\ BuffersSound

\* The step leaves buffer c and its headers as they are.
Keeps(c) ==
    /\ port'[c] = port[c]
    /\ eth'[c] = eth[c]
    /\ c \in short => c \in short'
    /\ \A h : h \in heap /\ iov[h] \in {c, None} =>
                h \in heap' /\ iov'[h] = iov[h]

LEMMA Kept ==
    ASSUME NEW c, Keeps(c)
    PROVE  /\ \A h : WithHeader(c, h) => WithHeader(c, h)'
           /\ Plain(c) => Plain(c)'
           /\ \A s : Ready(c, s) => Ready(c, s)'
           /\ eth[c] = c => eth'[c] = c
  BY DEF Keeps, WithHeader, Lacking, Plain, Ready

LEMMA MemoryKept ==
    ASSUME UNCHANGED <<port, eth, heap, iov, short>>
    PROVE  \A c : Keeps(c)
  BY DEF Keeps

\* What is said of a place that a step leaves alone stays true.
LEMMA PoolKept ==
    ASSUME PoolSound, free' \subseteq free, \A c \in free' : Keeps(c)
    PROVE  PoolSound'
  BY Kept DEF PoolSound

LEMMA DriverKept ==
    ASSUME Shape, DriverSound, drv' = drv, drv.buf # None => Keeps(drv.buf)
    PROVE  DriverSound'
<1>1. CASE drv.buf = None
  BY <1>1 DEF Shape, DriverSound
<1>2. CASE drv.buf # None
  <2>1. Keeps(drv.buf)
    BY <1>2
  <2>2. /\ WithHeader(drv.buf, drv.msgh) => WithHeader(drv.buf, drv.msgh)'
        /\ eth[drv.buf] = drv.buf => eth'[drv.buf] = drv.buf
        /\ port'[drv.buf] = port[drv.buf]
    BY <2>1, Kept DEF Keeps, WithHeader, Lacking
  <2> QED
    BY <2>2 DEF DriverSound
<1> QED
  BY <1>1, <1>2

LEMMA QueueKept ==
    ASSUME QueueSound, queue' = queue, \A c \in InQueue : Keeps(c)
    PROVE  QueueSound'
<1> SUFFICES ASSUME NEW k \in 1..Len(queue)
             PROVE  WithHeader(queue[k].buf, queue[k].msgh)'
  BY DEF QueueSound
<1>1. Keeps(queue[k].buf)
  BY DEF InQueue
<1>2. WithHeader(queue[k].buf, queue[k].msgh)
  BY DEF QueueSound
<1> QED
  BY <1>1, <1>2 DEF Keeps, WithHeader, Lacking

LEMMA ControllerKept ==
    ASSUME Shape, ControllerSound, ctl' = ctl,
           ctl.buf # None => Keeps(ctl.buf)
    PROVE  ControllerSound'
<1>1. CASE ctl.buf = None
  BY <1>1 DEF Shape, ControllerSound
<1>2. CASE ctl.buf # None
  <2>1. Keeps(ctl.buf)
    BY <1>2
  <2>2. /\ WithHeader(ctl.buf, ctl.msgh) => WithHeader(ctl.buf, ctl.msgh)'
        /\ Plain(ctl.buf) => Plain(ctl.buf)'
        /\ port'[ctl.buf] = port[ctl.buf]
        /\ ctl.buf \in short => ctl.buf \in short'
    BY <2>1 DEF Keeps, WithHeader, Lacking, Plain
  <2> QED
    BY <2>2 DEF ControllerSound
<1> QED
  BY <1>1, <1>2

LEMMA EventsKept ==
    ASSUME Settled, EventsSound, ipq' = ipq, \A c \in InEvents : Keeps(c)
    PROVE  EventsSound'
<1> SUFFICES ASSUME NEW k \in 1..Len(ipq)
             PROVE  Plain(ipq[k].buf)'
  BY DEF EventsSound
<1>1. Keeps(ipq[k].buf)
  BY DEF Settled, InEvents, Received
<1>2. Plain(ipq[k].buf)
  BY DEF EventsSound
<1> QED
  BY <1>1, <1>2 DEF Keeps, Plain

LEMMA ListsKept ==
    ASSUME ListsSound, waiting' = waiting,
           \A s \in Socket : \A c \in InList(s) : Keeps(c)
    PROVE  ListsSound'
<1> SUFFICES ASSUME NEW s \in Socket, NEW k \in 1..Len(waiting[s])
             PROVE  Ready(waiting[s][k], s)'
  BY DEF ListsSound
<1>1. Keeps(waiting[s][k])
  BY DEF InList
<1>2. Ready(waiting[s][k], s)
  BY DEF ListsSound
<1> QED
  BY <1>1, <1>2 DEF Keeps, Ready

LEMMA AppKept ==
    ASSUME AppsSound, NEW s \in Socket, app'[s].buf = app[s].buf,
           app'[s].pc = "return" => app[s].pc = "return" /\ Keeps(app[s].buf)
    PROVE  app'[s].pc = "return" => Ready(app[s].buf, s)'
  BY DEF AppsSound, Keeps, Ready

\* The memory of no buffer changes, and a place neither.
LEMMA Unmoved ==
    ASSUME Shape, Settled, BuffersSound,
           UNCHANGED <<port, eth, heap, iov, short>>
    PROVE  /\ free' = free => PoolSound'
           /\ drv' = drv => DriverSound'
           /\ queue' = queue => QueueSound'
           /\ ctl' = ctl => ControllerSound'
           /\ ipq' = ipq => EventsSound'
           /\ waiting' = waiting => ListsSound'
           /\ (\A s \in Socket :
                 app'[s].pc = "return" =>
                    app[s].pc = "return" /\ app'[s].buf = app[s].buf)
                => AppsSound'
<1>1. \A c : Keeps(c)
  BY MemoryKept
<1>2. free' = free => PoolSound'
  BY <1>1, PoolKept DEF BuffersSound
<1>3. drv' = drv => DriverSound'
  BY <1>1, DriverKept DEF BuffersSound
<1>4. queue' = queue => QueueSound'
  BY <1>1, QueueKept DEF BuffersSound
<1>5. ctl' = ctl => ControllerSound'
  BY <1>1, ControllerKept DEF BuffersSound
<1>6. ipq' = ipq => EventsSound'
  BY <1>1, EventsKept DEF BuffersSound
<1>7. waiting' = waiting => ListsSound'
  BY <1>1, ListsKept DEF BuffersSound
<1>8. ASSUME \A s \in Socket :
                app'[s].pc = "return" =>
                   app[s].pc = "return" /\ app'[s].buf = app[s].buf
      PROVE  AppsSound'
  <2> SUFFICES ASSUME NEW s \in Socket, app'[s].pc = "return"
               PROVE  Ready(app[s].buf, s)'
    BY DEF AppsSound
  <2>1. Ready(app[s].buf, s) /\ app'[s].buf = app[s].buf
    BY <1>8 DEF BuffersSound, AppsSound
  <2> QED
    BY <2>1 DEF Ready
<1> QED
  BY <1>2, <1>3, <1>4, <1>5, <1>6, <1>7, <1>8

\* What the places hold are buffers.
LEMMA PlacesOfBuffers ==
    ASSUME TypeOK
    PROVE  /\ InQueue \subseteq Buffer
           /\ InEvents \subseteq Buffer
           /\ \A s \in Socket : InList(s) \subseteq Buffer
<1>1. \A k \in 1..Len(queue) : queue[k].buf \in Buffer
  BY QueueItem
<1>2. \A k \in Received : ipq[k].buf \in Buffer
  BY ElementOfSeq DEF TypeOK, Received, IPEvent
<1>3. \A s \in Socket : \A k \in 1..Len(waiting[s]) :
         waiting[s][k] \in Buffer
  BY ElementOfSeq DEF TypeOK
<1> QED
  BY <1>1, <1>2, <1>3 DEF InQueue, InEvents, InList

\* The steps of the driver.
LEMMA DriverHeaders ==
    ASSUME WellFormed, OwnerInv, HeaderInv, Driver
    PROVE  HeaderInv'
<1> USE ReceptionAssumption
<1>1. TypeOK /\ Shape /\ Settled /\ BuffersSound
  BY DEF WellFormed, HeaderInv
<1>2. UNCHANGED <<base, listed, app, ipq, ctl, waiting>>
  BY DEF Driver, ReceiveFrame, FillAncillary, FillPayloadFails,
         HeaderMallocFails, DriverMiss, DriverFindsBase, NoReceiver,
         InsertPacket, InsertFails, sockets
<1>3. Settled'
  BY <1>1, <1>2 DEF Settled
<1>4. ASSUME NEW b \in Buffer, NEW p \in Port, ReceiveFrame(b, p)
      PROVE  BuffersSound'
  <2>1. b \in free /\ drv.pc = "idle" /\ free' = free \ {b}
    BY <1>4 DEF ReceiveFrame
  <2>2. PICK q, t : Place(q, t) /\ At(b, q, t)
    BY DEF OwnerInv, Placed
  <2>3. /\ b # ctl.buf /\ b \notin InQueue /\ b \notin InEvents
        /\ \A s \in Socket : b \notin InList(s) /\ b # app[s].buf
    BY <2>1, <2>2 DEF At
  <2>4. \A c : c # b => Keeps(c)
    BY <1>1, <1>4 DEF ReceiveFrame, Keeps, TypeOK
  <2>5. PoolSound'
    BY <1>1, <2>1, <2>4, PoolKept DEF BuffersSound
  <2>6. /\ queue' = queue
        /\ eth' = eth /\ port'[b] = p
        /\ drv'.pc = (IF p = NoPort THEN "insert" ELSE "lookup")
        /\ drv'.buf = b /\ drv'.msgh = None
    BY <1>1, <1>4 DEF ReceiveFrame, TypeOK
  <2>7. DriverSound'
    BY <1>1, <2>1, <2>6
    DEF BuffersSound, PoolSound, DriverSound, WithHeader
  <2>8. QueueSound' /\ ControllerSound' /\ EventsSound' /\ ListsSound'
    BY <1>1, <1>2, <2>3, <2>4, <2>6, QueueKept, ControllerKept, EventsKept,
       ListsKept DEF BuffersSound
  <2>9. AppsSound'
    BY <1>1, <1>2, <2>3, <2>4, AppKept DEF BuffersSound, AppsSound
  <2> QED
    BY <2>5, <2>7, <2>8, <2>9 DEF BuffersSound
<1>5. ASSUME NEW h \in Header, FillAncillary(h)
      PROVE  BuffersSound'
  <2>1. /\ drv.pc = "lookup"
        /\ port[drv.buf] \in TSN
        /\ h \notin heap
        /\ heap' = heap \cup {h}
        /\ iov' = [iov EXCEPT ![h] = eth[drv.buf]]
        /\ drv' = [pc |-> "insert", buf |-> drv.buf, msgh |-> h]
        /\ UNCHANGED <<port, eth, free, short, queue>>
    BY <1>1, <1>5 DEF FillAncillary, DriverAt, Settled
  <2>2. \A c : Keeps(c)
    BY <1>1, <2>1 DEF Keeps, TypeOK
  <2>3. eth[drv.buf] = drv.buf
    BY <1>1, <2>1 DEF BuffersSound, DriverSound
  <2>4. iov'[h] = drv.buf
    BY <1>1, <2>1, <2>3 DEF TypeOK
  <2>5. WithHeader(drv.buf, drv.msgh)'
    BY <2>1, <2>3, <2>4 DEF WithHeader
  <2>6. DriverSound'
    BY <2>1, <2>5 DEF DriverSound
  <2>7. PoolSound'
    BY <1>1, <2>1, <2>2, PoolKept DEF BuffersSound
  <2>8. QueueSound' /\ ControllerSound' /\ EventsSound' /\ ListsSound'
    BY <1>1, <1>2, <2>1, <2>2, QueueKept, ControllerKept, EventsKept,
       ListsKept DEF BuffersSound
  <2>9. AppsSound'
    BY <1>1, <1>2, <2>2, AppKept DEF BuffersSound, AppsSound
  <2> QED
    BY <2>6, <2>7, <2>8, <2>9 DEF BuffersSound
<1>6. ASSUME NEW h \in Header, FillPayloadFails(h)
      PROVE  BuffersSound'
  <2>1. /\ drv.pc = "lookup"
        /\ h \notin heap
        /\ heap' = heap \cup {h}
        /\ iov' = [iov EXCEPT ![h] = None]
        /\ short' = short \cup {drv.buf}
        /\ drv' = [pc |-> "insert", buf |-> drv.buf, msgh |-> h]
        /\ UNCHANGED <<port, eth, free, queue>>
        /\ port[drv.buf] \in TSN
    BY <1>1, <1>6 DEF FillPayloadFails, DriverAt, Settled
  <2>2. \A c : Keeps(c)
    BY <1>1, <2>1 DEF Keeps, TypeOK
  <2>3. eth[drv.buf] = drv.buf
    BY <1>1, <2>1 DEF BuffersSound, DriverSound
  <2>4. iov'[h] = None
    BY <1>1, <2>1 DEF TypeOK
  <2>5. WithHeader(drv.buf, drv.msgh)'
    BY <2>1, <2>3, <2>4 DEF WithHeader, Lacking
  <2>6. DriverSound'
    BY <2>1, <2>5 DEF DriverSound
  <2>7. PoolSound'
    BY <1>1, <2>1, <2>2, PoolKept DEF BuffersSound
  <2>8. QueueSound' /\ ControllerSound' /\ EventsSound' /\ ListsSound'
    BY <1>1, <1>2, <2>1, <2>2, QueueKept, ControllerKept, EventsKept,
       ListsKept DEF BuffersSound
  <2>9. AppsSound'
    BY <1>1, <1>2, <2>2, AppKept DEF BuffersSound, AppsSound
  <2> QED
    BY <2>6, <2>7, <2>8, <2>9 DEF BuffersSound
<1>10. ASSUME HeaderMallocFails
       PROVE  BuffersSound'
  <2>1. /\ drv.pc = "lookup"
        /\ short' = short \cup {drv.buf}
        /\ drv' = [pc |-> "insert", buf |-> drv.buf, msgh |-> None]
        /\ UNCHANGED <<port, eth, free, heap, iov, queue>>
        /\ port[drv.buf] \in TSN
    BY <1>1, <1>10 DEF HeaderMallocFails, DriverAt, Settled
  <2>2. \A c : Keeps(c)
    BY <2>1 DEF Keeps
  <2>3. eth[drv.buf] = drv.buf
    BY <1>1, <2>1 DEF BuffersSound, DriverSound
  <2>4. DriverSound'
    BY <2>1, <2>3 DEF DriverSound, WithHeader, Lacking
  <2>5. PoolSound'
    BY <1>1, <2>1, <2>2, PoolKept DEF BuffersSound
  <2>6. QueueSound' /\ ControllerSound' /\ EventsSound' /\ ListsSound'
    BY <1>1, <1>2, <2>1, <2>2, QueueKept, ControllerKept, EventsKept,
       ListsKept DEF BuffersSound
  <2>7. AppsSound'
    BY <1>1, <1>2, <2>2, AppKept DEF BuffersSound, AppsSound
  <2> QED
    BY <2>4, <2>5, <2>6, <2>7 DEF BuffersSound
<1>11. ASSUME UNCHANGED memory, queue' = queue, DriverSound'
       PROVE  BuffersSound'
  BY <1>1, <1>2, <1>11, Unmoved DEF memory, BuffersSound
<1>7. ASSUME DriverMiss \/ DriverFindsBase
      PROVE  BuffersSound'
  <2>1. UNCHANGED memory /\ queue' = queue
    BY <1>7 DEF DriverMiss, DriverFindsBase
  <2>2. CASE DriverMiss
    BY <1>1, <1>11, <2>1, <2>2
    DEF DriverMiss, DriverAt, memory, BuffersSound, DriverSound, Settled
  <2>3. CASE DriverFindsBase
    BY <1>1, <1>11, <2>1, <2>3
    DEF DriverFindsBase, DriverAt, memory, BuffersSound, DriverSound,
        WithHeader, Lacking
  <2> QED
    BY <1>7, <2>2, <2>3
<1>8. ASSUME NoReceiver \/ InsertFails
      PROVE  BuffersSound'
  <2>1. /\ UNCHANGED <<port, eth, heap, iov, short>>
        /\ queue' = queue
        /\ free' = free \cup {drv.buf}
        /\ drv' = IdleDriver
    BY <1>8 DEF NoReceiver, InsertFails
  <2>2. eth[drv.buf] = drv.buf
    BY <1>1, <1>8
    DEF NoReceiver, InsertFails, BuffersSound, DriverSound, WithHeader
  <2>3. PoolSound'
    BY <1>1, <2>1, <2>2 DEF BuffersSound, PoolSound
  <2>4. DriverSound'
    BY <2>1 DEF DriverSound, IdleDriver
  <2> QED
    BY <1>1, <1>2, <2>1, <2>3, <2>4, Unmoved DEF BuffersSound
<1>9. ASSUME InsertPacket
      PROVE  BuffersSound'
  <2>1. PICK x \in Item : x = [buf |-> drv.buf, msgh |-> drv.msgh]
    BY <1>1, <1>9 DEF InsertPacket, Shape, TypeOK, Item, NullOr
  <2>2. /\ UNCHANGED <<port, eth, heap, iov, short, free>>
        /\ drv' = IdleDriver
        /\ queue' = Append(queue, x)
    BY <1>9, <2>1 DEF InsertPacket, memory
  <2>3. WithHeader(x.buf, x.msgh)
    BY <1>1, <1>9, <2>1 DEF InsertPacket, BuffersSound, DriverSound
  <2>4. /\ Len(queue) \in Nat
        /\ Len(queue') = Len(queue) + 1
        /\ \A k \in 1..Len(queue) : queue'[k] = queue[k]
        /\ queue'[Len(queue) + 1] = x
    BY <1>1, <2>2, Appended DEF TypeOK
  <2>5. \A k \in 1..Len(queue') : k \in 1..Len(queue) \/ k = Len(queue) + 1
    BY <2>4
  <2>6. \A k \in 1..Len(queue') : WithHeader(queue'[k].buf, queue'[k].msgh)
    BY <1>1, <2>3, <2>4, <2>5 DEF BuffersSound, QueueSound
  <2>7. QueueSound'
    BY <2>2, <2>6 DEF QueueSound, WithHeader, Lacking
  <2>8. DriverSound'
    BY <2>2 DEF DriverSound, IdleDriver
  <2> QED
    BY <1>1, <1>2, <2>2, <2>7, <2>8, Unmoved DEF BuffersSound
<1> QED
  BY <1>3, <1>4, <1>5, <1>6, <1>7, <1>8, <1>9, <1>10 DEF Driver, HeaderInv

\* Plus-TCP gives a buffer for a plain socket to that socket.
LEMMA ProcessSound ==
    ASSUME TypeOK, Shape, Settled, BuffersSound, NEW b \in Buffer, Plain(b),
           ProcessUDP(b), UNCHANGED <<port, eth, heap, iov, short>>
    PROVE  PoolSound' /\ ListsSound'
<1>1. ASSUME Found(port[b])
      PROVE  PoolSound' /\ ListsSound'
  <2>1. PICK s \in Socket : s = port[b]
    BY <1>1 DEF Found
  <2>2. free' = free /\ InsertEnd(s, b)
    BY <1>1, <2>1 DEF ProcessUDP
  <2>3. waiting[s] \in Seq(Buffer)
    BY DEF TypeOK
  <2>4. /\ waiting'[s] = Append(waiting[s], b)
        /\ \A t \in Socket : t # s => waiting'[t] = waiting[t]
    BY <2>2 DEF InsertEnd, TypeOK
  <2>5. /\ Len(waiting[s]) \in Nat
        /\ Len(waiting'[s]) = Len(waiting[s]) + 1
        /\ \A k \in 1..Len(waiting[s]) : waiting'[s][k] = waiting[s][k]
        /\ waiting'[s][Len(waiting[s]) + 1] = b
    BY <2>3, <2>4, Appended
  <2>6. \A k \in 1..Len(waiting'[s]) :
           k \in 1..Len(waiting[s]) \/ k = Len(waiting[s]) + 1
    BY <2>5
  <2>7. Ready(b, s)
    BY <2>1 DEF Plain, Ready
  <2>8. \A t \in Socket : \A k \in 1..Len(waiting'[t]) :
           Ready(waiting'[t][k], t)
    BY <2>4, <2>5, <2>6, <2>7 DEF BuffersSound, ListsSound
  <2>9. ListsSound'
    BY <2>8 DEF ListsSound, Ready
  <2> QED
    BY <2>2, <2>9, Unmoved
<1>2. CASE ~Found(port[b])
  BY <1>2, Unmoved DEF ProcessUDP, BuffersSound, PoolSound, Plain
<1> QED
  BY <1>1, <1>2

\* The steps of the controller.
LEMMA ControllerHeaders ==
    ASSUME WellFormed, OwnerInv, HeaderInv, Controller
    PROVE  HeaderInv'
<1> USE ReceptionAssumption
<1>1. TypeOK /\ Shape /\ Settled /\ BuffersSound
  BY DEF WellFormed, HeaderInv
<1>2. UNCHANGED <<base, listed, app, drv>>
  BY DEF Controller, PopFrame, FindTSN, ControllerMiss, AssertFails,
         DeliverTSN, SetEvent, FindPlain, FindNone, SendToIPTask,
         SendToIPTaskFails, ProcessPlain, sockets
<1>3. ipq' = ipq => Settled'
  BY <1>1, <1>2 DEF Settled
<1>4. ASSUME UNCHANGED <<port, eth, heap, iov, short>>,
             PoolSound', QueueSound', ListsSound', ControllerSound', ipq' = ipq
      PROVE  HeaderInv'
  BY <1>1, <1>2, <1>3, <1>4, Unmoved DEF HeaderInv, BuffersSound
<1>5. ASSUME PopFrame
      PROVE  HeaderInv'
  <2>1. queue \in Seq(Item) /\ queue # <<>>
    BY <1>1, <1>5 DEF PopFrame, TypeOK
  <2>2. /\ Head(queue) = queue[1]
        /\ Len(queue) \in Nat \ {0}
        /\ Len(Tail(queue)) = Len(queue) - 1
        /\ \A k \in 1..Len(Tail(queue)) : Tail(queue)[k] = queue[k + 1]
    BY <2>1, HeadTail
  <2>3. /\ 1 \in 1..Len(queue)
        /\ \A k \in 1..Len(Tail(queue)) : k + 1 \in 1..Len(queue)
    BY <2>2
  <2>4. /\ UNCHANGED <<port, eth, heap, iov, short, free, waiting, ipq>>
        /\ queue' = Tail(queue)
        /\ ctl' = [pc |-> "lookup", buf |-> queue[1].buf,
                   msgh |-> queue[1].msgh, sock |-> None]
    BY <1>5, <2>2 DEF PopFrame, memory, sockets
  <2>5. WithHeader(queue[1].buf, queue[1].msgh)
    BY <1>1, <2>3 DEF BuffersSound, QueueSound
  <2>6. /\ ctl'.pc = "lookup"
        /\ ctl'.buf = queue[1].buf
        /\ ctl'.msgh = queue[1].msgh
    BY <2>4
  <2>7. WithHeader(ctl.buf, ctl.msgh)'
    BY <2>4, <2>5, <2>6 DEF WithHeader, Lacking
  <2>8. ControllerSound'
    BY <2>6, <2>7 DEF ControllerSound
  <2>9. \A k \in 1..Len(queue') : WithHeader(queue'[k].buf, queue'[k].msgh)
    BY <1>1, <2>2, <2>3, <2>4 DEF BuffersSound, QueueSound
  <2>10. QueueSound'
    BY <2>4, <2>9 DEF QueueSound, WithHeader, Lacking
  <2> QED
    BY <1>1, <1>4, <2>4, <2>8, <2>10, Unmoved
<1>6. ASSUME UNCHANGED <<port, eth, heap, iov, short, free, queue, waiting,
                         ipq>>,
             ControllerSound'
      PROVE  HeaderInv'
  BY <1>1, <1>4, <1>6, Unmoved
<1>7. ASSUME FindTSN
      PROVE  HeaderInv'
  <2>1. ControllerSound'
    BY <1>1, <1>7
    DEF FindTSN, ControllerAt, memory, BuffersSound, ControllerSound,
        WithHeader, Lacking, Settled
  <2> QED
    BY <1>6, <1>7, <2>1 DEF FindTSN, memory, sockets
<1>8. ASSUME ControllerMiss
      PROVE  HeaderInv'
  <2>1. ControllerSound'
    BY <1>1, <1>8
    DEF ControllerMiss, ControllerAt, memory, BuffersSound, ControllerSound,
        WithHeader, Lacking, Plain, Settled
  <2> QED
    BY <1>6, <1>8, <2>1 DEF ControllerMiss, memory, sockets
<1>9. ASSUME AssertFails
      PROVE  HeaderInv'
  <2>1. /\ ctl.pc = "deliver"
        /\ ~AssertionsHold
        /\ ctl' = [pc |-> "halted", buf |-> ctl.buf, msgh |-> ctl.msgh,
                   sock |-> ctl.sock]
        /\ UNCHANGED <<memory, queue, waiting, ipq>>
    BY <1>9 DEF AssertFails, ControllerAt, sockets
  <2>2. /\ WithHeader(ctl.buf, ctl.msgh)
        /\ port[ctl.buf] \in TSN
    BY <1>1, <2>1 DEF BuffersSound, ControllerSound
  <2>3. ctl.msgh \in heap => ctl.msgh # None
    BY <1>1 DEF TypeOK
  <2>4. ctl.buf \in short
    BY <2>1, <2>2, <2>3 DEF AssertionsHold, WithHeader, Lacking
  <2>5. ControllerSound'
    BY <2>1, <2>4 DEF ControllerSound, memory
  <2> QED
    BY <1>6, <2>1, <2>5 DEF memory
<1>10. ASSUME DeliverTSN
       PROVE  HeaderInv'
  <2>1. PICK b \in Buffer, s \in TSN :
           b = ctl.buf /\ s = ctl.sock /\ s \in Socket
    BY <1>1, <1>10
    DEF DeliverTSN, BuffersSound, ControllerSound, Shape, TypeOK, NullOr
  <2>2. /\ UNCHANGED <<port, free, heap, iov, short, queue, ipq>>
        /\ eth' = [eth EXCEPT ![b] = ctl.msgh]
        /\ waiting' = [waiting EXCEPT ![s] = Append(waiting[s], b)]
        /\ ctl' = [pc |-> "event", buf |-> None, msgh |-> None, sock |-> s]
    BY <1>10, <2>1 DEF DeliverTSN, InsertEnd
  <2>3. ctl.msgh \in heap /\ iov[ctl.msgh] = b /\ port[b] = s
    <3>1. /\ WithHeader(b, ctl.msgh) /\ port[b] = s /\ port[b] \in TSN
          /\ ctl.msgh # None /\ iov[ctl.msgh] = eth[b]
      BY <1>1, <1>10, <2>1
      DEF DeliverTSN, AssertionsHold, BuffersSound, ControllerSound
    <3> QED
      BY <3>1 DEF WithHeader, Lacking
  <2>4. eth'[b] = ctl.msgh /\ \A c \in Buffer \ {b} : eth'[c] = eth[c]
    BY <1>1, <2>2 DEF TypeOK
  <2>5. \A c \in Buffer \ {b} : Keeps(c)
    BY <2>2, <2>4 DEF Keeps
  <2>6. PICK p, t : Place(p, t) /\ At(b, p, t)
    BY DEF OwnerInv, Placed
  <2>7. /\ b \notin free /\ b # drv.buf /\ b \notin InQueue
        /\ b \notin InEvents
        /\ \A r \in Socket : b \notin InList(r) /\ b # app[r].buf
    BY <2>1, <2>6 DEF At
  <2>8. free \subseteq Buffer /\ drv.buf \in Buffer \cup {None}
    BY <1>1 DEF TypeOK, NullOr
  <2>9. InQueue \subseteq Buffer /\ InEvents \subseteq Buffer
    BY <1>1, PlacesOfBuffers
  <2>10. \A r \in Socket : \A k \in 1..Len(waiting[r]) :
            waiting[r][k] \in Buffer
    BY <1>1, ElementOfSeq DEF TypeOK
  <2>11. \A r \in Socket : app[r].pc = "return" => app[r].buf \in Buffer
    BY <1>1 DEF TypeOK, Shape, NullOr
  <2>12. PoolSound' /\ DriverSound' /\ QueueSound' /\ EventsSound'
    BY <1>1, <1>2, <2>2, <2>5, <2>7, <2>8, <2>9, PoolKept, DriverKept,
       QueueKept, EventsKept DEF BuffersSound
  <2>13. AppsSound'
    <3>1. \A r \in Socket : app[r].pc = "return" => Keeps(app[r].buf)
      BY <2>5, <2>7, <2>11
    <3> QED
      BY <1>1, <1>2, <3>1, AppKept DEF BuffersSound, AppsSound
  <2>14. ControllerSound'
    BY <2>2 DEF ControllerSound
  <2>15. Ready(b, s)'
    BY <2>1, <2>2, <2>3, <2>4 DEF Ready
  <2>16. \A r \in Socket : \A k \in 1..Len(waiting[r]) :
            Ready(waiting[r][k], r)
    BY <1>1 DEF BuffersSound, ListsSound
  <2>17. \A r \in Socket : \A c \in InList(r) :
            Ready(c, r) /\ Keeps(c)
    BY <2>5, <2>7, <2>10, <2>16 DEF InList
  <2>18. \A r \in Socket : \A c \in InList(r) : Ready(c, r)'
    BY <2>17, Kept
  <2>19. \A r \in Socket : \A k \in 1..Len(waiting'[r]) :
            waiting'[r][k] \in InList(r) \/ (r = s /\ waiting'[r][k] = b)
    <3>1. waiting[s] \in Seq(Buffer)
      BY <1>1, <2>1 DEF TypeOK
    <3>2. /\ waiting'[s] = Append(waiting[s], b)
          /\ \A t1 \in Socket : t1 # s => waiting'[t1] = waiting[t1]
      BY <1>1, <2>1, <2>2 DEF TypeOK
    <3>3. /\ Len(waiting[s]) \in Nat
          /\ Len(waiting'[s]) = Len(waiting[s]) + 1
          /\ \A k \in 1..Len(waiting[s]) : waiting'[s][k] = waiting[s][k]
          /\ waiting'[s][Len(waiting[s]) + 1] = b
      BY <3>1, <3>2, Appended
    <3>4. \A k \in 1..Len(waiting'[s]) :
             k \in 1..Len(waiting[s]) \/ k = Len(waiting[s]) + 1
      BY <3>3
    <3> QED
      BY <3>2, <3>3, <3>4 DEF InList
  <2>20. ListsSound'
    BY <2>15, <2>18, <2>19 DEF ListsSound
  <2> QED
    BY <1>3, <2>2, <2>12, <2>13, <2>14, <2>20 DEF HeaderInv, BuffersSound
<1>11. ASSUME SetEvent
       PROVE  HeaderInv'
  <2>1. ControllerSound'
    BY <1>11 DEF SetEvent, IdleController, ControllerSound
  <2> QED
    BY <1>6, <1>11, <2>1 DEF SetEvent, memory
<1>12. ASSUME FindPlain \/ FindNone
       PROVE  HeaderInv'
  <2>1. ctl.pc = "lookupBase" /\ ctl.msgh = None
    BY <1>1, <1>12
    DEF FindPlain, FindNone, BuffersSound, ControllerSound
  <2>2. heap' = heap
    <3>1. heap \ {None} = heap
      BY <1>1 DEF TypeOK
    <3>2. CASE FindPlain
      BY <2>1, <3>1, <3>2 DEF FindPlain
    <3>3. CASE FindNone
      BY <3>3 DEF FindNone, memory
    <3> QED
      BY <1>12, <3>2, <3>3
  <2>3. ControllerSound'
    BY <1>1, <1>12, <2>1
    DEF FindPlain, FindNone, ControllerAt, memory, BuffersSound,
        ControllerSound, Plain
  <2> QED
    BY <1>6, <1>12, <2>2, <2>3 DEF FindPlain, FindNone, memory, sockets
<1>13. ASSUME SendToIPTask
       PROVE  HeaderInv'
  <2>0. PICK x \in IPEvent : x = [type |-> "rx", buf |-> ctl.buf]
    BY <1>1, <1>13 DEF SendToIPTask, Shape, TypeOK, IPEvent, NullOr
  <2>1. x.type = "rx" /\ x.buf = ctl.buf
    BY <2>0
  <2>2. /\ UNCHANGED <<port, eth, heap, iov, short, free, queue, waiting>>
        /\ ipq' = Append(ipq, x)
        /\ ctl' = IdleController
    BY <1>13, <2>0 DEF SendToIPTask, memory, sockets
  <2>3. /\ Len(ipq) \in Nat
        /\ Len(ipq') = Len(ipq) + 1
        /\ \A k \in 1..Len(ipq) : ipq'[k] = ipq[k]
        /\ ipq'[Len(ipq) + 1] = x
    BY <1>1, <2>2, Appended DEF TypeOK
  <2>4. \A k \in 1..Len(ipq') : k \in 1..Len(ipq) \/ k = Len(ipq) + 1
    BY <2>3
  <2>5. Plain(x.buf)
    BY <1>1, <1>13, <2>1 DEF SendToIPTask, BuffersSound, ControllerSound
  <2>6. \A k \in 1..Len(ipq') : ipq'[k].type = "rx" /\ Plain(ipq'[k].buf)
    BY <1>1, <2>1, <2>3, <2>4, <2>5 DEF Settled, BuffersSound, EventsSound
  <2>7. Settled'
    BY <1>1, <1>2, <2>6 DEF Settled
  <2>8. EventsSound'
    BY <2>2, <2>6 DEF EventsSound, Plain
  <2>9. ControllerSound'
    BY <2>2 DEF ControllerSound, IdleController
  <2> QED
    BY <1>1, <1>2, <2>2, <2>7, <2>8, <2>9, Unmoved
    DEF HeaderInv, BuffersSound
<1>14. ASSUME SendToIPTaskFails
       PROVE  HeaderInv'
  <2>1. /\ UNCHANGED <<port, eth, heap, iov, short, queue, waiting, ipq>>
        /\ free' = free \cup {ctl.buf}
        /\ ctl' = IdleController
    BY <1>14 DEF SendToIPTaskFails, sockets
  <2>2. eth[ctl.buf] = ctl.buf
    BY <1>1, <1>14
    DEF SendToIPTaskFails, BuffersSound, ControllerSound, Plain
  <2>3. PoolSound'
    BY <1>1, <2>1, <2>2 DEF BuffersSound, PoolSound
  <2>4. ControllerSound'
    BY <2>1 DEF ControllerSound, IdleController
  <2> QED
    BY <1>1, <1>4, <2>1, <2>3, <2>4, Unmoved
<1>15. ASSUME ProcessPlain
       PROVE  HeaderInv'
  <2>1. PICK b \in Buffer : b = ctl.buf
    BY <1>1, <1>15 DEF ProcessPlain, Shape, TypeOK, NullOr
  <2>2. /\ UNCHANGED <<port, eth, heap, iov, short, queue, ipq>>
        /\ ProcessUDP(b)
        /\ ctl' = IdleController
    BY <1>15, <2>1 DEF ProcessPlain
  <2>3. Plain(b)
    BY <1>1, <1>15, <2>1 DEF ProcessPlain, BuffersSound, ControllerSound
  <2>4. PoolSound' /\ ListsSound'
    BY <1>1, <2>2, <2>3, ProcessSound
  <2>5. ControllerSound'
    BY <2>2 DEF ControllerSound, IdleController
  <2> QED
    BY <1>1, <1>4, <2>2, <2>4, <2>5, Unmoved
<1> QED
  BY <1>5, <1>7, <1>8, <1>9, <1>10, <1>11, <1>12, <1>13, <1>14, <1>15
  DEF Controller

\* The steps of the IP task: no socket is closed.
LEMMA IPTaskHeaders ==
    ASSUME WellFormed, HeaderInv, IPTask
    PROVE  HeaderInv'
<1>1. TypeOK /\ Shape /\ Settled /\ BuffersSound
  BY DEF WellFormed, HeaderInv
<1>2. ipq # <<>> /\ ipq \in Seq(IPEvent)
  BY <1>1 DEF IPTask, IPTaskReceives, IPTaskCloses, TypeOK
<1>3. /\ Head(ipq) \in IPEvent
      /\ Head(ipq) = ipq[1]
      /\ Len(ipq) \in Nat \ {0}
      /\ Len(Tail(ipq)) = Len(ipq) - 1
      /\ \A k \in 1..Len(Tail(ipq)) : Tail(ipq)[k] = ipq[k + 1]
  BY <1>2, HeadTail
<1>4. /\ 1 \in 1..Len(ipq)
      /\ \A k \in 1..Len(Tail(ipq)) : k + 1 \in 1..Len(ipq)
  BY <1>3
<1>5. Head(ipq).type = "rx" /\ Plain(Head(ipq).buf)
  BY <1>1, <1>3, <1>4 DEF Settled, BuffersSound, EventsSound
<1>6. IPTaskReceives
  BY <1>5 DEF IPTask, IPTaskCloses
<1>7. PICK b \in Buffer : b = Head(ipq).buf
  BY <1>3, <1>5 DEF IPEvent
<1>8. /\ UNCHANGED <<port, eth, heap, iov, short, drv, queue, ctl, base,
                     listed, app>>
      /\ ProcessUDP(b)
      /\ ipq' = Tail(ipq)
  BY <1>6, <1>7 DEF IPTaskReceives
<1>9. PoolSound' /\ ListsSound'
  BY <1>1, <1>5, <1>7, <1>8, ProcessSound
<1>10. \A k \in 1..Len(ipq') : ipq'[k].type = "rx" /\ Plain(ipq'[k].buf)
  BY <1>1, <1>3, <1>4, <1>8 DEF Settled, BuffersSound, EventsSound
<1>11. Settled'
  BY <1>1, <1>8, <1>10 DEF Settled
<1>12. EventsSound'
  BY <1>8, <1>10 DEF EventsSound, Plain
<1> QED
  BY <1>1, <1>8, <1>9, <1>11, <1>12, Unmoved DEF HeaderInv, BuffersSound

\* The steps of an application.
LEMMA ApplicationHeaders ==
    ASSUME Calls = {}, WellFormed, OwnerInv, HeaderInv,
           NEW s \in Socket, Application(s)
    PROVE  HeaderInv'
<1> USE ReceptionAssumption
<1>1. TypeOK /\ Shape /\ Settled /\ BuffersSound
  BY DEF WellFormed, HeaderInv
<1>2. ~BindBase(s) /\ ~BindTSN(s) /\ ~CloseTSN(s) /\ ~CloseBase(s)
  BY <1>1 DEF BindBase, BindTSN, CloseTSN, CloseBase, Settled
<1>7. ~RecvFaults(s)
  BY <1>1, ReceptionAssumption
  DEF RecvFaults, BuffersSound, AppsSound, Ready, TypeOK
<1>3. ASSUME Recv(s) \/ Wake(s) \/ Expire(s) \/ Recount(s)
      PROVE  HeaderInv'
  <2>1. UNCHANGED <<memory, drv, queue, ctl, base, listed, waiting, ipq>>
    BY <1>3 DEF Recv, Wake, Expire, Recount, sockets
  <2>2. PICK label \in {"ready", "blocked", "recount", "expired", "take"} :
           Goto(s, label)
    BY <1>3 DEF Recv, Wake, Expire, Recount
  <2>3. app'[s].pc = label /\ \A t \in Socket : t # s => app'[t] = app[t]
    BY <1>1, <2>2 DEF Goto, TypeOK
  <2>4. Settled'
    BY <1>1, <2>1, <2>3 DEF Settled
  <2> QED
    BY <1>1, <2>1, <2>3, <2>4, Unmoved DEF memory, HeaderInv, BuffersSound
<1>4. ASSUME Take(s)
      PROVE  HeaderInv'
  <2>1. waiting[s] \in Seq(Buffer) /\ waiting[s] # <<>>
    BY <1>1, <1>4 DEF Take, TypeOK
  <2>2. PICK b \in Buffer : b = Head(waiting[s])
    BY <2>1, HeadTail
  <2>3. /\ UNCHANGED <<port, eth, heap, iov, short, free, drv, queue, ctl, base,
                       listed, ipq>>
        /\ app' = [app EXCEPT ![s] = [pc |-> "return", buf |-> b]]
        /\ waiting' = [waiting EXCEPT ![s] = Tail(waiting[s])]
    BY <1>4, <2>2 DEF Take, memory
  <2>4. /\ app'[s] = [pc |-> "return", buf |-> b]
        /\ waiting'[s] = Tail(waiting[s])
        /\ \A t \in Socket :
              t # s => app'[t] = app[t] /\ waiting'[t] = waiting[t]
    BY <1>1, <2>3 DEF TypeOK
  <2>5. /\ b = waiting[s][1]
        /\ Len(waiting[s]) \in Nat \ {0}
        /\ Len(waiting'[s]) = Len(waiting[s]) - 1
        /\ \A k \in 1..Len(waiting'[s]) : waiting'[s][k] = waiting[s][k + 1]
    BY <2>1, <2>2, <2>4, HeadTail
  <2>6. /\ 1 \in 1..Len(waiting[s])
        /\ \A k \in 1..Len(waiting'[s]) : k + 1 \in 1..Len(waiting[s])
    BY <2>5
  <2>7. Settled'
    BY <1>1, <2>3, <2>4 DEF Settled
  <2>8. \A t \in Socket : InList(t)' \subseteq InList(t)
    <3>1. InList(s)' \subseteq InList(s)
      <4> SUFFICES ASSUME NEW k \in 1..Len(waiting'[s])
                   PROVE  waiting'[s][k] \in InList(s)
        BY DEF InList
      <4>1. PICK j \in 1..Len(waiting[s]) : j = k + 1
        BY <2>6
      <4>2. waiting'[s][k] = waiting[s][j]
        BY <2>5, <4>1
      <4> QED
        BY <4>2 DEF InList
    <3>2. \A t \in Socket : t # s => InList(t)' = InList(t)
      BY <2>4 DEF InList
    <3> QED
      BY <3>1, <3>2
  <2>9. ListsSound'
    <3>1. \A t \in Socket : \A c \in InList(t) : Ready(c, t)
      BY <1>1 DEF BuffersSound, ListsSound, InList
    <3>2. \A c : Keeps(c)
      BY <2>3, MemoryKept
    <3>3. \A t \in Socket : \A c \in InList(t) : Ready(c, t)'
      BY <3>1, <3>2, Kept
    <3>4. \A t \in Socket : \A k \in 1..Len(waiting'[t]) :
             waiting'[t][k] \in InList(t)
      BY <2>8 DEF InList
    <3> QED
      BY <3>3, <3>4 DEF ListsSound
  <2>10. Ready(b, s)
    BY <1>1, <2>5, <2>6 DEF BuffersSound, ListsSound
  <2>11. \A t \in Socket : app'[t].pc = "return" => Ready(app'[t].buf, t)
    BY <1>1, <2>4, <2>10 DEF BuffersSound, AppsSound
  <2>12. AppsSound'
    BY <2>3, <2>11 DEF AppsSound, Ready
  <2> QED
    BY <1>1, <2>3, <2>7, <2>9, <2>12, Unmoved DEF HeaderInv, BuffersSound
<1>5. ASSUME ReturnPlain(s)
      PROVE  HeaderInv'
  <2>1. /\ UNCHANGED <<port, eth, heap, iov, short, drv, queue, ctl, base,
                       listed, waiting, ipq>>
        /\ free' = free \cup {app[s].buf}
        /\ app' = [app EXCEPT ![s] = [pc |-> "ready", buf |-> None]]
    BY <1>5 DEF ReturnPlain, sockets
  <2>2. eth[app[s].buf] = app[s].buf
    BY <1>1, <1>5 DEF ReturnPlain, BuffersSound, AppsSound, Ready
  <2>3. PoolSound'
    BY <1>1, <2>1, <2>2 DEF BuffersSound, PoolSound
  <2>4. app'[s].pc = "ready" /\ \A t \in Socket : t # s => app'[t] = app[t]
    BY <1>1, <2>1 DEF TypeOK
  <2>5. Settled'
    BY <1>1, <2>1, <2>4 DEF Settled
  <2> QED
    BY <1>1, <2>1, <2>3, <2>4, <2>5, Unmoved DEF HeaderInv, BuffersSound
<1>6. ASSUME ReturnTSN(s)
      PROVE  HeaderInv'
  <2>1. PICK b \in Buffer, h \in Header : b = app[s].buf /\ h = eth[b]
    BY <1>1, <1>6 DEF ReturnTSN, Shape, TypeOK, NullOr
  <2>2. /\ UNCHANGED <<port, iov, short, drv, queue, ctl, base, listed, waiting,
                       ipq>>
        /\ eth' = [eth EXCEPT ![b] = iov[h]]
        /\ heap' = heap \ {h}
        /\ free' = free \cup {b}
        /\ app' = [app EXCEPT ![s] = [pc |-> "ready", buf |-> None]]
    BY <1>6, <2>1 DEF ReturnTSN, sockets
  <2>3. iov[h] = b
    BY <1>1, <1>6, <2>1 DEF ReturnTSN, BuffersSound, AppsSound, Ready
  <2>4. eth'[b] = b /\ \A c \in Buffer \ {b} : eth'[c] = eth[c]
    BY <1>1, <2>2, <2>3 DEF TypeOK
  <2>5. \A c \in Buffer \ {b} : Keeps(c)
    BY <2>2, <2>3, <2>4 DEF Keeps
  <2>6. PICK p, t : Place(p, t) /\ At(b, p, t)
    BY DEF OwnerInv, Placed
  <2>7. /\ b # drv.buf /\ b # ctl.buf /\ b \notin InQueue /\ b \notin InEvents
        /\ \A r \in Socket : b \notin InList(r) /\ (r # s => b # app[r].buf)
    BY <2>1, <2>6 DEF At
  <2>8. /\ free \subseteq Buffer
        /\ drv.buf \in Buffer \cup {None}
        /\ ctl.buf \in Buffer \cup {None}
    BY <1>1 DEF TypeOK, NullOr
  <2>9. InQueue \subseteq Buffer /\ InEvents \subseteq Buffer
    BY <1>1, PlacesOfBuffers
  <2>10. \A r \in Socket : \A c \in InList(r) : Keeps(c)
    BY <1>1, <2>5, <2>7, PlacesOfBuffers
  <2>11. PoolSound'
    <3>1. \A c \in free' : eth'[c] = c
      BY <1>1, <2>2, <2>4, <2>8 DEF BuffersSound, PoolSound
    <3> QED
      BY <3>1 DEF PoolSound
  <2>12. DriverSound' /\ ControllerSound'
    BY <1>1, <2>2, <2>5, <2>7, <2>8, DriverKept, ControllerKept
    DEF BuffersSound
  <2>13. QueueSound' /\ EventsSound' /\ ListsSound'
    BY <1>1, <2>2, <2>5, <2>7, <2>9, <2>10, QueueKept, EventsKept, ListsKept
    DEF BuffersSound
  <2>14. app'[s].pc = "ready" /\ \A r \in Socket : r # s => app'[r] = app[r]
    BY <1>1, <2>2 DEF TypeOK
  <2>15. AppsSound'
    <3>1. \A r \in Socket : app[r].pc = "return" => app[r].buf \in Buffer
      BY <1>1 DEF TypeOK, Shape, NullOr
    <3>2. ASSUME NEW r \in Socket, app'[r].pc = "return"
          PROVE  Ready(app[r].buf, r)'
      <4>1. r # s /\ app'[r] = app[r]
        BY <2>14, <3>2
      <4>2. Ready(app[r].buf, r) /\ Keeps(app[r].buf)
        BY <1>1, <2>5, <2>7, <3>1, <3>2, <4>1 DEF BuffersSound, AppsSound
      <4> QED
        BY <4>1, <4>2 DEF Ready, Keeps
    <3> QED
      BY <3>2 DEF AppsSound
  <2>16. Settled'
    BY <1>1, <2>2, <2>14 DEF Settled
  <2> QED
    BY <2>11, <2>12, <2>13, <2>15, <2>16 DEF HeaderInv, BuffersSound
<1> QED
  BY <1>2, <1>3, <1>4, <1>5, <1>6, <1>7 DEF Application, Receiver

LEMMA InitHeaders == Calls = {} /\ Init => HeaderInv
<1> SUFFICES ASSUME Calls = {}, Init PROVE HeaderInv
  OBVIOUS
<1>1. Len(<<>>) = 0 /\ 1..0 = {}
  BY EmptySeq
<1>2. /\ 1..Len(ipq) = {}
      /\ 1..Len(queue) = {}
      /\ \A s \in Socket : 1..Len(waiting[s]) = {}
  BY <1>1 DEF Init
<1>3. Settled
  BY <1>2 DEF Init, Settled
<1>4. BuffersSound
  BY <1>2
  DEF Init, IdleDriver, IdleController, BuffersSound, PoolSound, DriverSound,
      QueueSound, ControllerSound, EventsSound, ListsSound, AppsSound
<1> QED
  BY <1>3, <1>4 DEF HeaderInv

LEMMA StepHeaders ==
    ASSUME Calls = {}
    PROVE  WellFormed /\ OwnerInv /\ HeaderInv /\ [Next]_vars => HeaderInv'
<1> SUFFICES ASSUME WellFormed, OwnerInv, HeaderInv, [Next]_vars
             PROVE  HeaderInv'
  OBVIOUS
<1>1. CASE Next
  BY <1>1, DriverHeaders, ControllerHeaders, IPTaskHeaders,
     ApplicationHeaders DEF Next
<1>2. CASE UNCHANGED vars
  <2>1. Settled'
    BY <1>2 DEF vars, HeaderInv, Settled
  <2> QED
    BY <1>2, <2>1, Unmoved DEF vars, WellFormed, HeaderInv, BuffersSound
<1> QED
  BY <1>1, <1>2

(***************************************************************************)
(* When the sockets are bound before frames arrive and none is closed,     *)
(* what recvmsg() takes for a message header is one, allocated and built   *)
(* for this buffer, for any number of sockets, buffers and headers         *)
(* (Controller.c:62-94, Sockets.c:827-911).                                *)
(***************************************************************************)
THEOREM ReceptionRecvFindsHeader ==
    ASSUME Calls = {}
    PROVE  Spec => []RecvFindsHeader
<1>1. Init => WellFormed /\ OwnerInv /\ HeaderInv
  BY InitWellFormed, InitOwner, InitHeaders
<1>2. WellFormed /\ OwnerInv /\ HeaderInv /\ [Next]_vars
        => (WellFormed /\ OwnerInv /\ HeaderInv)'
  BY StepWellFormed, StepOwner, StepHeaders
<1>3. WellFormed /\ OwnerInv /\ HeaderInv => RecvFindsHeader
  BY ReceptionAssumption
  DEF HeaderInv, BuffersSound, AppsSound, Ready, RecvFindsHeader
<1> QED
  BY <1>1, <1>2, <1>3, PTL DEF Spec

(***************************************************************************)
(* Then an assertion of prvReceiveUDPPacketTSN() fails only for a frame    *)
(* whose header or payload could not be allocated (Controller.c:56, 80):   *)
(* while memory lasts, no order of the tasks makes one fail.               *)
(***************************************************************************)
THEOREM ReceptionAssertions ==
    ASSUME Calls = {}
    PROVE  Spec => []AssertionsFailOnlyShort
<1>1. Init => WellFormed /\ OwnerInv /\ HeaderInv
  BY InitWellFormed, InitOwner, InitHeaders
<1>2. WellFormed /\ OwnerInv /\ HeaderInv /\ [Next]_vars
        => (WellFormed /\ OwnerInv /\ HeaderInv)'
  BY StepWellFormed, StepOwner, StepHeaders
<1>3. WellFormed /\ OwnerInv /\ HeaderInv => AssertionsFailOnlyShort
  BY DEF HeaderInv, BuffersSound, ControllerSound, AssertionsFailOnlyShort
<1> QED
  BY <1>1, <1>2, <1>3, PTL DEF Spec

(***************************************************************************)
(* And a buffer that is released owns its memory again                     *)
(* (Controller.c:76-78).                                                   *)
(***************************************************************************)
THEOREM ReceptionReverted ==
    ASSUME Calls = {}
    PROVE  Spec => []ReleasedReverted
<1>1. Init => WellFormed /\ OwnerInv /\ HeaderInv
  BY InitWellFormed, InitOwner, InitHeaders
<1>2. WellFormed /\ OwnerInv /\ HeaderInv /\ [Next]_vars
        => (WellFormed /\ OwnerInv /\ HeaderInv)'
  BY StepWellFormed, StepOwner, StepHeaders
<1>3. WellFormed /\ OwnerInv /\ HeaderInv => ReleasedReverted
  BY DEF HeaderInv, BuffersSound, PoolSound, ReleasedReverted
<1> QED
  BY <1>1, <1>2, <1>3, PTL DEF Spec

-----------------------------------------------------------------------------
(***************************************************************************)
(* Headers that are dropped.  Whoever has a header hands it on, frees it,  *)
(* or drops it in one of the places that the history counts.  That an      *)
(* Ethernet pointer is overwritten loses no header, since the buffer is    *)
(* then with the controller, and not in a list or with an application.     *)
(***************************************************************************)

\* Places that a step leaves alone keep what they know.
LEMMA StillKnown ==
    ASSUME NEW h, h # None, Known(h),
           drv'.msgh = drv.msgh \/ drv.msgh = None,
           ctl'.msgh = ctl.msgh \/ ctl.msgh = None,
           InItems \subseteq InItems',
           \A s \in TSN :
              /\ \A b \in InList(s) : b \in InList(s)' /\ eth'[b] = eth[b]
              /\ app'[s].buf = app[s].buf
              /\ app[s].buf # None => eth'[app[s].buf] = eth[app[s].buf]
    PROVE  Known(h)'
<1>1. CASE h \in {drv.msgh, ctl.msgh} \cup InItems
  BY <1>1 DEF Known
<1>2. ASSUME NEW s \in TSN, NEW b \in InList(s), eth[b] = h
      PROVE  Known(h)'
  BY <1>2 DEF Known
<1>3. ASSUME NEW s \in TSN, app[s].buf # None, eth[app[s].buf] = h
      PROVE  Known(h)'
  <2>1. app'[s].buf # None /\ eth'[app'[s].buf] = h
    BY <1>3
  <2> QED
    BY <2>1 DEF Known
<1> QED
  BY <1>1, <1>2, <1>3 DEF Known

LEMMA DriverKnown ==
    ASSUME WellFormed, HeadersAccountedFor, Driver
    PROVE  HeadersAccountedFor'
<1> USE ReceptionAssumption
<1>1. TypeOK /\ Shape
  BY DEF WellFormed
<1>2. \A h \in heap \ leaked : h # None /\ Known(h)
  BY <1>1 DEF TypeOK, HeadersAccountedFor
<1>3. UNCHANGED <<eth, ctl, app, waiting>>
  BY DEF Driver, ReceiveFrame, FillAncillary, FillPayloadFails,
         HeaderMallocFails, DriverMiss, DriverFindsBase, NoReceiver,
         InsertPacket, InsertFails, memory, sockets
<1>4. \A s \in TSN : InList(s)' = InList(s)
  BY <1>3 DEF InList
<1>5. ASSUME heap' = heap, leaked' = leaked, queue' = queue,
             drv'.msgh = drv.msgh \/ drv.msgh = None
      PROVE  HeadersAccountedFor'
  <2>1. InItems' = InItems
    BY <1>5 DEF InItems
  <2>2. \A h \in heap \ leaked : Known(h)'
    BY <1>2, <1>3, <1>4, <1>5, <2>1, StillKnown
  <2> QED
    BY <1>5, <2>2 DEF HeadersAccountedFor
<1>6. ASSUME NEW b \in Buffer, NEW p \in Port, ReceiveFrame(b, p)
      PROVE  HeadersAccountedFor'
  <2>1. UNCHANGED <<heap, leaked, queue>> /\ drv.msgh = None
    BY <1>1, <1>6 DEF ReceiveFrame, Shape
  <2> QED
    BY <1>5, <2>1
<1>7. ASSUME NEW h \in Header, FillAncillary(h) \/ FillPayloadFails(h)
      PROVE  HeadersAccountedFor'
  <2>1. /\ heap' = heap \cup {h}
        /\ leaked' = leaked \ {h}
        /\ h \notin heap
        /\ queue' = queue
        /\ drv.msgh = None
        /\ drv'.msgh = h
    BY <1>1, <1>7 DEF FillAncillary, FillPayloadFails, DriverAt, Shape
  <2>2. InItems' = InItems
    BY <2>1 DEF InItems
  <2>3. \A g \in heap \ leaked : Known(g)'
    BY <1>2, <1>3, <1>4, <2>1, <2>2, StillKnown
  <2>4. Known(h)'
    BY <2>1 DEF Known
  <2> QED
    BY <2>1, <2>3, <2>4 DEF HeadersAccountedFor
<1>8. ASSUME HeaderMallocFails
      PROVE  HeadersAccountedFor'
  <2>1. UNCHANGED <<heap, leaked, queue>> /\ drv.msgh = None
    BY <1>1, <1>8 DEF HeaderMallocFails, Shape
  <2> QED
    BY <1>5, <2>1
<1>9. ASSUME DriverMiss \/ DriverFindsBase
      PROVE  HeadersAccountedFor'
  <2>1. UNCHANGED <<heap, leaked, queue>> /\ drv'.msgh = drv.msgh
    BY <1>9 DEF DriverMiss, DriverFindsBase, DriverAt, memory
  <2> QED
    BY <1>5, <2>1
<1>10. ASSUME NoReceiver
       PROVE  HeadersAccountedFor'
  <2>1. UNCHANGED <<heap, leaked, queue>> /\ drv.msgh = None
    BY <1>1, <1>10 DEF NoReceiver, Shape
  <2> QED
    BY <1>5, <2>1
<1>11. ASSUME InsertFails
       PROVE  HeadersAccountedFor'
  <2>1. /\ UNCHANGED <<heap, queue>>
        /\ leaked' = leaked \cup ({drv.msgh} \ {None})
    BY <1>11 DEF InsertFails
  <2>2. InItems' = InItems
    BY <2>1 DEF InItems
  <2>3. ASSUME NEW h \in heap' \ leaked'
        PROVE  Known(h)'
    <3>1. h \in heap \ leaked /\ h # drv.msgh
      BY <1>2, <2>1
    <3> QED
      BY <1>2, <1>3, <1>4, <2>2, <3>1 DEF Known
  <2> QED
    BY <2>3 DEF HeadersAccountedFor
<1>12. ASSUME InsertPacket
       PROVE  HeadersAccountedFor'
  <2>1. PICK x \in Item : x = [buf |-> drv.buf, msgh |-> drv.msgh]
    BY <1>1, <1>12 DEF InsertPacket, Shape, TypeOK, Item, NullOr
  <2>2. UNCHANGED <<heap, leaked>> /\ queue' = Append(queue, x)
    BY <1>12, <2>1 DEF InsertPacket, memory
  <2>3. /\ Len(queue) \in Nat
        /\ Len(queue') = Len(queue) + 1
        /\ \A k \in 1..Len(queue) : queue'[k] = queue[k]
        /\ queue'[Len(queue) + 1] = x
    BY <1>1, <2>2, Appended DEF TypeOK
  <2>4. /\ \A k \in 1..Len(queue) : k \in 1..Len(queue')
        /\ Len(queue) + 1 \in 1..Len(queue')
    BY <2>3
  <2>5. InItems \subseteq InItems' /\ x.msgh \in InItems'
    BY <2>3, <2>4 DEF InItems
  <2>6. ASSUME NEW h \in heap \ leaked
        PROVE  Known(h)'
    <3>1. CASE h = drv.msgh
      BY <2>1, <2>5, <3>1 DEF Known
    <3>2. CASE h # drv.msgh
      BY <1>2, <1>3, <1>4, <2>5, <3>2 DEF Known
    <3> QED
      BY <3>1, <3>2
  <2> QED
    BY <2>2, <2>6 DEF HeadersAccountedFor
<1> QED
  BY <1>6, <1>7, <1>8, <1>9, <1>10, <1>11, <1>12 DEF Driver

\* The lists of the sockets only grow.
LEMMA ListsGrow ==
    ASSUME HeadersAccountedFor, TypeOK, heap' = heap, leaked' = leaked,
           eth' = eth, drv' = drv, app' = app, InItems \subseteq InItems',
           ctl'.msgh = ctl.msgh \/ ctl.msgh = None,
           \A s \in TSN : InList(s) \subseteq InList(s)'
    PROVE  HeadersAccountedFor'
<1>1. \A h \in heap \ leaked : h # None /\ Known(h)
  BY ReceptionAssumption DEF TypeOK, HeadersAccountedFor
<1>2. \A h \in heap \ leaked : Known(h)'
  BY <1>1, StillKnown
<1> QED
  BY <1>2 DEF HeadersAccountedFor

LEMMA ControllerKnown ==
    ASSUME WellFormed, OwnerInv, HeadersAccountedFor, Controller
    PROVE  HeadersAccountedFor'
<1> USE ReceptionAssumption
<1>1. TypeOK /\ Shape /\ WaitsDistinct
  BY DEF WellFormed, OwnerInv, Distinct
<1>2. \A h \in heap \ leaked : h # None /\ Known(h)
  BY <1>1 DEF TypeOK, HeadersAccountedFor
<1>3. UNCHANGED <<app, drv>>
  BY DEF Controller, PopFrame, FindTSN, ControllerMiss, AssertFails,
         DeliverTSN, SetEvent, FindPlain, FindNone, SendToIPTask,
         SendToIPTaskFails, ProcessPlain
<1>4. waiting' = waiting => \A s \in TSN : InList(s)' = InList(s)
  BY DEF InList
<1>5. queue' = queue => InItems' = InItems
  BY DEF InItems
<1>6. ASSUME PopFrame
      PROVE  HeadersAccountedFor'
  <2>1. queue \in Seq(Item) /\ queue # <<>>
    BY <1>1, <1>6 DEF PopFrame, TypeOK
  <2>2. /\ Head(queue) = queue[1]
        /\ Len(queue) \in Nat \ {0}
        /\ Len(Tail(queue)) = Len(queue) - 1
        /\ \A k \in 1..Len(Tail(queue)) : Tail(queue)[k] = queue[k + 1]
    BY <2>1, HeadTail
  <2>3. \A k \in 1..Len(queue) :
           k = 1 \/ \E j \in 1..Len(Tail(queue)) : k = j + 1
    BY <2>2
  <2>4. /\ UNCHANGED <<heap, leaked, eth, waiting>>
        /\ queue' = Tail(queue)
        /\ ctl'.msgh = queue[1].msgh
    BY <1>6, <2>2 DEF PopFrame, memory, sockets
  <2>5. ctl.msgh = None
    BY <1>1, <1>6 DEF PopFrame, Shape
  <2>6. InItems \subseteq InItems' \cup {ctl'.msgh}
    <3> SUFFICES ASSUME NEW k \in 1..Len(queue), k # 1
                 PROVE  queue[k].msgh \in InItems'
      BY <2>4 DEF InItems
    <3>1. PICK j \in 1..Len(Tail(queue)) : k = j + 1
      BY <2>3
    <3>2. queue'[j] = queue[k]
      BY <2>2, <2>4, <3>1
    <3> QED
      BY <2>4, <3>1, <3>2 DEF InItems
  <2>7. \A s \in TSN : InList(s)' = InList(s)
    BY <1>4, <2>4
  <2>8. \A h \in heap \ leaked : Known(h)'
    BY <1>2, <1>3, <2>4, <2>5, <2>6, <2>7 DEF Known
  <2> QED
    BY <2>4, <2>8 DEF HeadersAccountedFor
<1>7. ASSUME FindTSN \/ ControllerMiss \/ AssertFails \/ SetEvent
      PROVE  HeadersAccountedFor'
  <2>1. UNCHANGED <<heap, leaked, eth, queue, waiting>>
    BY <1>7 DEF FindTSN, ControllerMiss, AssertFails, SetEvent, memory, sockets
  <2>2. ctl'.msgh = ctl.msgh \/ ctl.msgh = None
    BY <1>1, <1>7
    DEF FindTSN, ControllerMiss, AssertFails, SetEvent, ControllerAt, Shape
  <2> QED
    BY <1>1, <1>3, <1>4, <1>5, <2>1, <2>2, ListsGrow
<1>9. ASSUME DeliverTSN
      PROVE  HeadersAccountedFor'
  <2>1. PICK b \in Buffer, s \in TSN : b = ctl.buf /\ s = ctl.sock
    BY <1>1, <1>9 DEF DeliverTSN, Shape, TypeOK, NullOr
  <2>2. PICK p, t : Place(p, t) /\ At(b, p, t)
    BY DEF OwnerInv, Placed
  <2>3. \A r \in Socket : b \notin InList(r) /\ b # app[r].buf
    BY <2>1, <2>2 DEF At
  <2>4. /\ UNCHANGED <<heap, leaked, queue>>
        /\ eth' = [eth EXCEPT ![b] = ctl.msgh]
        /\ InsertEnd(s, b)
    BY <1>9, <2>1 DEF DeliverTSN
  <2>5. /\ InList(s)' = InList(s) \cup {b}
        /\ \A r \in Socket \ {s} : InList(r)' = InList(r)
    BY <1>1, <2>3, <2>4, WaitsGrow
  <2>6. eth'[b] = ctl.msgh /\ \A c \in Buffer \ {b} : eth'[c] = eth[c]
    BY <1>1, <2>4 DEF TypeOK
  <2>7. \A r \in Socket : InList(r) \subseteq Buffer
    BY <1>1, PlacesOfBuffers
  <2>8. \A r \in Socket : app[r].buf # None => app[r].buf \in Buffer
    BY <1>1 DEF TypeOK, NullOr
  <2>9. \A r \in TSN : \A c \in InList(r) :
           c \in InList(r)' /\ eth'[c] = eth[c]
    BY <2>3, <2>5, <2>6, <2>7
  <2>10. \A r \in TSN :
            app[r].buf # None => eth'[app[r].buf] = eth[app[r].buf]
    BY <2>3, <2>6, <2>8
  <2>11. ASSUME NEW h \in heap \ leaked
         PROVE  Known(h)'
    <3>1. CASE h = ctl.msgh
      <4>1. b \in InList(s)' /\ eth'[b] = h
        BY <2>5, <2>6, <3>1
      <4> QED
        BY <4>1 DEF Known
    <3>2. CASE h # ctl.msgh
      <4>1. h = drv.msgh \/ h \in InItems => Known(h)'
        BY <1>3, <1>5, <2>4 DEF Known
      <4>2. ASSUME NEW r \in TSN, NEW c \in InList(r), eth[c] = h
            PROVE  Known(h)'
        BY <2>9, <4>2 DEF Known
      <4>3. ASSUME NEW r \in TSN, app[r].buf # None, eth[app[r].buf] = h
            PROVE  Known(h)'
        BY <1>3, <2>10, <4>3 DEF Known
      <4> QED
        BY <1>2, <3>2, <4>1, <4>2, <4>3 DEF Known
    <3> QED
      BY <3>1, <3>2
  <2> QED
    BY <2>4, <2>11 DEF HeadersAccountedFor
<1>8. ASSUME heap' \subseteq heap, leaked \subseteq leaked',
             ctl.msgh \notin heap' \ leaked',
             UNCHANGED <<eth, queue, waiting>>
      PROVE  HeadersAccountedFor'
  <2>1. \A s \in TSN : InList(s)' = InList(s)
    BY <1>4, <1>8
  <2>2. ASSUME NEW h \in heap' \ leaked'
        PROVE  Known(h)'
    <3>1. h \in heap \ leaked /\ h # ctl.msgh
      BY <1>8
    <3> QED
      BY <1>2, <1>3, <1>5, <1>8, <2>1, <3>1 DEF Known
  <2> QED
    BY <2>2 DEF HeadersAccountedFor
<1>10. ASSUME FindPlain \/ FindNone
       PROVE  HeadersAccountedFor'
  <2>1. /\ heap' \subseteq heap /\ leaked \subseteq leaked'
        /\ UNCHANGED <<eth, queue, waiting>>
    BY <1>10 DEF FindPlain, FindNone, sockets
  <2>2. ctl.msgh \notin heap' \ leaked'
    BY <1>1, <1>10 DEF FindPlain, FindNone, TypeOK
  <2> QED
    BY <1>8, <2>1, <2>2
<1>11. ASSUME SendToIPTask \/ SendToIPTaskFails
       PROVE  HeadersAccountedFor'
  <2>1. UNCHANGED <<heap, leaked, eth, queue, waiting>> /\ ctl.msgh = None
    BY <1>1, <1>11 DEF SendToIPTask, SendToIPTaskFails, Shape, memory, sockets
  <2> QED
    BY <1>1, <1>3, <1>4, <1>5, <2>1, ListsGrow
<1>12. ASSUME ProcessPlain
       PROVE  HeadersAccountedFor'
  <2>1. PICK b \in Buffer : b = ctl.buf
    BY <1>1, <1>12 DEF ProcessPlain, Shape, TypeOK, NullOr
  <2>2. PICK p, t : Place(p, t) /\ At(b, p, t)
    BY DEF OwnerInv, Placed
  <2>3. \A r \in Socket : b \notin InList(r)
    BY <2>1, <2>2 DEF At
  <2>4. /\ UNCHANGED <<heap, leaked, eth, queue>>
        /\ ctl.msgh = None
        /\ ProcessUDP(b)
    BY <1>1, <1>12, <2>1 DEF ProcessPlain, Shape
  <2>5. \A r \in Socket : InList(r) \subseteq InList(r)'
    BY <1>1, <2>3, <2>4, ProcessMoves
  <2> QED
    BY <1>1, <1>3, <1>5, <2>4, <2>5, ReceptionAssumption, ListsGrow
<1> QED
  BY <1>6, <1>7, <1>9, <1>10, <1>11, <1>12 DEF Controller

LEMMA IPTaskKnown ==
    ASSUME WellFormed, OwnerInv, HeadersAccountedFor, IPTask
    PROVE  HeadersAccountedFor'
<1> USE ReceptionAssumption
<1>1. TypeOK /\ EventsDistinct /\ WaitsDistinct
  BY DEF WellFormed, OwnerInv, Distinct
<1>2. ipq # <<>> /\ ipq \in Seq(IPEvent)
  BY <1>1 DEF IPTask, IPTaskReceives, IPTaskCloses, TypeOK
<1>3. Head(ipq) \in IPEvent
  BY <1>2, HeadTail
<1>4. UNCHANGED <<heap, eth, drv, queue, ctl, app>>
  BY DEF IPTask, IPTaskReceives, IPTaskCloses
<1>5. InItems' = InItems
  BY <1>4 DEF InItems
<1>6. ASSUME IPTaskReceives
      PROVE  HeadersAccountedFor'
  <2>1. PICK b \in Buffer : b = Head(ipq).buf
    BY <1>3, <1>6 DEF IPTaskReceives, IPEvent
  <2>2. leaked' = leaked /\ ProcessUDP(b) /\ ipq' = Tail(ipq)
    BY <1>6, <2>1 DEF IPTaskReceives
  <2>3. b \in InEvents
    BY <1>1, <1>2, <1>6, <2>1, <2>2, EventsShrink DEF IPTaskReceives
  <2>4. PICK p, t : Place(p, t) /\ At(b, p, t)
    BY DEF OwnerInv, Placed
  <2>5. \A r \in Socket : b \notin InList(r)
    BY <2>3, <2>4 DEF At
  <2>6. \A r \in Socket : InList(r) \subseteq InList(r)'
    BY <1>1, <2>2, <2>5, ProcessMoves
  <2> QED
    BY <1>1, <1>4, <1>5, <2>2, <2>6, ListsGrow
<1>7. ASSUME IPTaskCloses
      PROVE  HeadersAccountedFor'
  <2>1. PICK s \in Socket : s = Head(ipq).sock
    BY <1>3, <1>7 DEF IPTaskCloses, IPEvent
  <2>2. /\ waiting' = [waiting EXCEPT ![s] = <<>>]
        /\ leaked' = leaked \cup (Header \cap {eth[b] : b \in InList(s)})
    BY <1>7, <2>1 DEF IPTaskCloses
  <2>3. \A t \in Socket \ {s} : InList(t)' = InList(t)
    BY <1>1, <2>2, WaitsCleared
  <2>4. ASSUME NEW h \in heap' \ leaked'
        PROVE  Known(h)'
    <3>1. /\ h \in heap \ leaked /\ h \in Header
          /\ \A b \in InList(s) : eth[b] # h
      BY <1>1, <1>4, <2>2 DEF TypeOK
    <3>2. Known(h)
      BY <3>1 DEF HeadersAccountedFor
    <3> QED
      BY <1>4, <1>5, <2>3, <3>1, <3>2 DEF Known
  <2> QED
    BY <2>4 DEF HeadersAccountedFor
<1> QED
  BY <1>6, <1>7 DEF IPTask

LEMMA ApplicationKnown ==
    ASSUME WellFormed, OwnerInv, HeadersAccountedFor,
           NEW s \in Socket, Application(s)
    PROVE  HeadersAccountedFor'
<1> USE ReceptionAssumption
<1>1. TypeOK /\ Shape /\ WaitsDistinct
  BY DEF WellFormed, OwnerInv, Distinct
<1>2. \A h \in heap \ leaked : h # None /\ Known(h)
  BY <1>1 DEF TypeOK, HeadersAccountedFor
<1>3. UNCHANGED <<drv, queue, ctl, leaked>>
  BY DEF Application, Receiver, BindBase, BindTSN, Recv, Wake, Expire,
         Recount, Take, ReturnTSN, RecvFaults, ReturnPlain, CloseTSN,
         CloseBase, memory
<1>4. InItems' = InItems
  BY <1>3 DEF InItems
<1>5. waiting' = waiting => \A t \in TSN : InList(t)' = InList(t)
  BY DEF InList
<1>6. ASSUME \/ BindBase(s) \/ BindTSN(s) \/ CloseTSN(s) \/ CloseBase(s)
             \/ Recv(s) \/ Wake(s) \/ Expire(s) \/ Recount(s) \/ RecvFaults(s)
      PROVE  HeadersAccountedFor'
  <2>1. UNCHANGED <<heap, eth, waiting>>
    BY <1>6
    DEF BindBase, BindTSN, CloseTSN, CloseBase, Recv, Wake, Expire, Recount,
        RecvFaults, memory, sockets
  <2>2. PICK label : Goto(s, label)
    BY <1>6
    DEF BindBase, BindTSN, CloseTSN, CloseBase, Recv, Wake, Expire, Recount,
        RecvFaults
  <2>3. \A t \in Socket : app'[t].buf = app[t].buf
    BY <1>1, <2>2 DEF Goto, TypeOK
  <2>4. \A h \in heap \ leaked : Known(h)'
    BY <1>2, <1>3, <1>4, <1>5, <2>1, <2>3, StillKnown
  <2> QED
    BY <1>3, <2>1, <2>4 DEF HeadersAccountedFor
<1>8. ASSUME Take(s)
      PROVE  HeadersAccountedFor'
  <2>1. PICK b \in Buffer : b = Head(waiting[s])
    BY <1>1, <1>8, HeadTail DEF Take, TypeOK
  <2>2. /\ UNCHANGED <<heap, eth>>
        /\ waiting[s] # <<>>
        /\ waiting' = [waiting EXCEPT ![s] = Tail(@)]
        /\ app' = [app EXCEPT ![s] = [pc |-> "return", buf |-> b]]
    BY <1>8, <2>1 DEF Take, memory
  <2>3. /\ InList(s)' = InList(s) \ {b}
        /\ \A t \in Socket \ {s} : InList(t)' = InList(t)
    BY <1>1, <2>1, <2>2, WaitsShrink
  <2>4. /\ app'[s].buf = b /\ app[s].buf = None
        /\ \A t \in Socket : t # s => app'[t] = app[t]
    <3>1. app[s].buf = None
      BY <1>1, <1>8 DEF Take, Shape
    <3> QED
      BY <1>1, <2>2, <3>1 DEF TypeOK
  <2>6. PICK p, r : Place(p, r) /\ At(b, p, r)
    BY DEF OwnerInv, Placed
  <2>7. b \in InList(s) /\ \A t \in Socket : b \in InList(t) => t = s
    BY <1>1, <2>1, <2>2, <2>6, WaitsShrink DEF At
  <2>5. ASSUME NEW h \in heap \ leaked
        PROVE  Known(h)'
    <3>1. h = drv.msgh \/ h = ctl.msgh \/ h \in InItems => Known(h)'
      BY <1>3, <1>4 DEF Known
    <3>2. ASSUME NEW t \in TSN, NEW c \in InList(t), eth[c] = h
          PROVE  Known(h)'
      <4>1. CASE c = b
        <5>1. t = s
          BY <2>7, <3>2, <4>1
        <5>2. app'[t].buf = b /\ b # None /\ eth'[b] = h
          BY <2>2, <2>4, <3>2, <4>1, <5>1
        <5> QED
          BY <5>2 DEF Known
      <4>2. CASE c # b
        <5>1. c \in InList(t)' /\ eth'[c] = h
          BY <2>2, <2>3, <3>2, <4>2
        <5> QED
          BY <5>1 DEF Known
      <4> QED
        BY <4>1, <4>2
    <3>3. ASSUME NEW t \in TSN, app[t].buf # None, eth[app[t].buf] = h
          PROVE  Known(h)'
      <4>1. app'[t] = app[t] /\ eth' = eth
        BY <2>2, <2>4, <3>3
      <4> QED
        BY <3>3, <4>1 DEF Known
    <3> QED
      BY <1>2, <3>1, <3>2, <3>3 DEF Known
  <2> QED
    BY <1>3, <2>2, <2>5 DEF HeadersAccountedFor
<1>9. ASSUME ReturnTSN(s) \/ ReturnPlain(s)
      PROVE  HeadersAccountedFor'
  <2>1. PICK b \in Buffer : b = app[s].buf
    BY <1>1, <1>9 DEF ReturnTSN, ReturnPlain, Shape, TypeOK, NullOr
  <2>2. /\ waiting' = waiting
        /\ app' = [app EXCEPT ![s] = [pc |-> "ready", buf |-> None]]
    BY <1>9 DEF ReturnTSN, ReturnPlain, sockets
  <2>3. \A t \in Socket : t # s => app'[t] = app[t]
    BY <1>1, <2>2 DEF TypeOK
  <2>4. \A c \in Buffer \ {b} : eth'[c] = eth[c]
    BY <1>1, <1>9, <2>1 DEF ReturnTSN, ReturnPlain, TypeOK
  <2>5. heap' \subseteq heap /\ (s \in TSN => eth[b] \notin heap')
    BY <1>9, <2>1 DEF ReturnTSN, ReturnPlain
  <2>6. PICK p, t : Place(p, t) /\ At(b, p, t)
    BY DEF OwnerInv, Placed
  <2>7. \A r \in Socket : b \notin InList(r) /\ (r # s => b # app[r].buf)
    BY <2>1, <2>6 DEF At
  <2>8. /\ \A r \in Socket : InList(r) \subseteq Buffer
        /\ \A r \in Socket : app[r].buf # None => app[r].buf \in Buffer
    BY <1>1, PlacesOfBuffers DEF TypeOK, NullOr
  <2>9. ASSUME NEW h \in heap' \ leaked'
        PROVE  Known(h)'
    <3>1. h \in heap \ leaked /\ (s \in TSN => h # eth[b])
      BY <1>3, <2>5
    <3>2. h = drv.msgh \/ h = ctl.msgh \/ h \in InItems => Known(h)'
      BY <1>3, <1>4 DEF Known
    <3>3. ASSUME NEW r \in TSN, NEW c \in InList(r), eth[c] = h
          PROVE  Known(h)'
      <4>1. c \in InList(r)' /\ eth'[c] = h
        BY <1>5, <2>2, <2>4, <2>7, <2>8, <3>3
      <4> QED
        BY <4>1 DEF Known
    <3>4. ASSUME NEW r \in TSN, app[r].buf # None, eth[app[r].buf] = h
          PROVE  Known(h)'
      <4>1. r # s
        BY <2>1, <3>1, <3>4
      <4>2. app'[r] = app[r] /\ eth'[app[r].buf] = h
        BY <2>3, <2>4, <2>7, <2>8, <3>4, <4>1
      <4> QED
        BY <3>4, <4>2 DEF Known
    <3> QED
      BY <1>2, <3>1, <3>2, <3>3, <3>4 DEF Known
  <2> QED
    BY <2>9 DEF HeadersAccountedFor
<1> QED
  BY <1>6, <1>8, <1>9 DEF Application, Receiver

LEMMA StepKnown ==
    WellFormed /\ OwnerInv /\ HeadersAccountedFor /\ [Next]_vars
      => HeadersAccountedFor'
<1> SUFFICES ASSUME WellFormed, OwnerInv, HeadersAccountedFor, [Next]_vars
             PROVE  HeadersAccountedFor'
  OBVIOUS
<1>1. CASE Next
  BY <1>1, DriverKnown, ControllerKnown, IPTaskKnown, ApplicationKnown
  DEF Next
<1>2. CASE UNCHANGED vars
  <2>1. InItems' = InItems /\ \A s \in TSN : InList(s)' = InList(s)
    BY <1>2 DEF vars, InItems, InList
  <2> QED
    BY <1>2, <2>1 DEF vars, HeadersAccountedFor, Known
<1> QED
  BY <1>1, <1>2

(***************************************************************************)
(* Whichever queues are full, whichever allocations fail and whoever binds *)
(* or closes meanwhile, a header is dropped only in the three places that  *)
(* the history counts: by an insertion that fails (Wrapper.c:614-619), for *)
(* a frame without a socket (Controller.c:236-258), and by the closing of  *)
(* a socket with packets waiting.  Every other header is known to one who  *)
(* will free it.                                                           *)
(***************************************************************************)
THEOREM ReceptionNoLeak == Spec => []HeadersAccountedFor
<1>1. Init => WellFormed /\ OwnerInv /\ HeadersAccountedFor
  BY InitWellFormed, InitOwner DEF Init, HeadersAccountedFor
<1>2. WellFormed /\ OwnerInv /\ HeadersAccountedFor /\ [Next]_vars
        => (WellFormed /\ OwnerInv /\ HeadersAccountedFor)'
  BY StepWellFormed, StepOwner, StepKnown
<1> QED
  BY <1>1, <1>2, PTL DEF Spec

=============================================================================

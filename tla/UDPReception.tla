---------------------------- MODULE UDPReception ----------------------------
(***************************************************************************)
(* The way of a received frame from the MAC driver to an application:      *)
(* prvHandleReceive() in the driver's task, prvDeliverFrame() in the TSN   *)
(* controller, FreeRTOS_TSN_recvmsg() in the application, with bind and    *)
(* close of the sockets going on meanwhile, and FreeRTOS-Plus-TCP's IP     *)
(* task (external).  The subject is who owns a network buffer and its      *)
(* message header; the scheduling of queues is left to TSNController, so   *)
(* one network queue stands here for the one whose filter takes the frame. *)
(*                                                                         *)
(* pucEthernetBuffer and iov_base are pointers: the memory a buffer was    *)
(* created with is denoted by the buffer itself, a msghdr by a Header.     *)
(* Any allocation may fail.  Where the code then uses NULL, a processor    *)
(* that faults stops the system, which is a behaviour that goes no further; *)
(* the model follows those that go on.                                     *)
(* Frames have an end point, and are as long as their headers say.         *)
(***************************************************************************)
EXTENDS Naturals, Sequences

CONSTANTS
    Socket,            \* sockets; a socket's name is also its local port
    TSN,               \* those made by FreeRTOS_TSN_socket()
    Port,              \* the destination ports frames arrive with
    NoPort,            \* port 0: the frame is not UDP and not TCP
    Buffer,            \* network buffers
    Header,            \* memory for struct msghdr
    None,              \* NULL
    QueueLength,       \* capacity of the network queue
    EventQueueLength,  \* capacity of the IP task's event queue
    ViaIPTask,         \* the queue's policy is eIPTaskEvents
    Calls              \* API calls made while frames arrive

ASSUME ReceptionAssumption ==
    /\ TSN \subseteq Socket
    /\ Socket \subseteq Port
    /\ NoPort \notin Socket
    /\ Buffer \cap Header = {}
    /\ None \notin Buffer \cup Header \cup Socket
    /\ QueueLength \in Nat \ {0}
    /\ EventQueueLength \in Nat \ {0}
    /\ ViaIPTask \in BOOLEAN
    /\ Calls \subseteq {"bind", "close"}

VARIABLES
    port,      \* usBoundPort of each buffer
    eth,       \* pucEthernetBuffer of each buffer
    free,      \* the buffers that are not allocated
    heap,      \* the headers that are allocated
    iov,       \* msg_iov[0].iov_base of each header
    drv,       \* the driver's task in prvHandleReceive(): pc, pxBuf, pxMsgh
    queue,     \* the network queue: items with pxBuf and pxMsgh
    ctl,       \* the controller in prvDeliverFrame(): pc, item, socket
    base,      \* the Plus-TCP socket under each socket
    listed,    \* xTSNBoundUDPSocketList
    waiting,   \* xWaitingPacketsList of each base socket
    event,     \* eSOCKET_RECEIVE in the event group of each base socket
    ipq,       \* the IP task's event queue
    app,       \* each socket's application: pc, and the buffer in its hands
    leaked,    \* history: headers that were dropped without being freed
    short      \* history: buffers whose frame lacks a header, or the header
               \*   a payload, because an allocation failed

vars == <<port, eth, free, heap, iov, drv, queue, ctl, base, listed, waiting,
          event, ipq, app, leaked, short>>
memory  == <<port, eth, free, heap, iov, leaked, short>>
sockets == <<base, listed, waiting, event>>

Item == [buf : Buffer, msgh : Header \cup {None}]
IPEvent == [type : {"rx"}, buf : Buffer] \cup [type : {"close"}, sock : Socket]
NullOr(S) == S \cup {None}

TypeOK ==
    /\ port \in [Buffer -> Port \cup {NoPort}]
    /\ eth \in [Buffer -> NullOr(Buffer \cup Header)]
    /\ free \subseteq Buffer
    /\ heap \subseteq Header
    /\ iov \in [Header -> NullOr(Buffer \cup Header)]
    /\ drv \in [pc : {"idle", "lookup", "lookupBase", "insert"},
                buf : NullOr(Buffer), msgh : NullOr(Header)]
    /\ queue \in Seq(Item)
    /\ Len(queue) <= QueueLength
    /\ ctl \in [pc : {"idle", "lookup", "lookupBase", "deliver", "event",
                      "process", "ipsend", "halted"},
                buf : NullOr(Buffer), msgh : NullOr(Header),
                sock : NullOr(Socket)]
    /\ base \in [Socket -> {"unbound", "bound", "closing", "freed"}]
    /\ listed \subseteq TSN
    /\ waiting \in [Socket -> Seq(Buffer)]
    /\ event \in [Socket -> BOOLEAN]
    /\ ipq \in Seq(IPEvent)
    /\ Len(ipq) <= EventQueueLength
    /\ app \in [Socket -> [pc : {"created", "binding", "ready", "blocked",
                                 "recount", "expired", "take", "return",
                                 "faulted", "closing", "closed"},
                           buf : NullOr(Buffer)]]
    /\ leaked \subseteq Header
    /\ short \subseteq Buffer

IdleDriver     == [pc |-> "idle", buf |-> None, msgh |-> None]
IdleController == [pc |-> "idle", buf |-> None, msgh |-> None, sock |-> None]

\* Unless "bind" is among the calls, the sockets were bound before traffic.
Init ==
    /\ port = [b \in Buffer |-> NoPort]
    /\ eth = [b \in Buffer |-> b]
    /\ free = Buffer
    /\ heap = {}
    /\ iov = [h \in Header |-> None]
    /\ drv = IdleDriver
    /\ queue = <<>>
    /\ ctl = IdleController
    /\ base = [s \in Socket |-> IF "bind" \in Calls THEN "unbound" ELSE "bound"]
    /\ listed = IF "bind" \in Calls THEN {} ELSE TSN
    /\ waiting = [s \in Socket |-> <<>>]
    /\ event = [s \in Socket |-> FALSE]
    /\ ipq = <<>>
    /\ app = [s \in Socket |->
                [pc |-> IF "bind" \in Calls THEN "created" ELSE "ready",
                 buf |-> None]]
    /\ leaked = {}
    /\ short = {}

\* pxUDPSocketLookup(): a socket is found until the IP task has closed it.
Found(p) == p \in Socket /\ base[p] \in {"bound", "closing"}

\* The waiting list of socket s gets buffer b at its end (vListInsertEnd()).
InsertEnd(s, b) == waiting' = [waiting EXCEPT ![s] = Append(@, b)]
-----------------------------------------------------------------------------
(***************************************************************************)
(* The MAC driver's task: xSendEventStructToTSNController().               *)
(***************************************************************************)

\* The driver goes on with its buffer.
DriverAt(label, h) ==
    drv' = [pc |-> label, buf |-> drv.buf, msgh |-> h]

\* A frame for port p has arrived in buffer b.
ReceiveFrame(b, p) ==
    /\ drv.pc = "idle"
    /\ b \in free
    /\ free' = free \ {b}
    /\ port' = [port EXCEPT ![b] = p]
    /\ drv' = [pc |-> IF p = NoPort THEN "insert" ELSE "lookup",
               buf |-> b, msgh |-> None]
    /\ short' = short \ {b}
    /\ UNCHANGED <<eth, heap, iov, leaked, queue, ctl, sockets, ipq, app>>

\* Mutant of FillAncillary: the payload is what the memory held before.
FillAncillaryStale(h) ==
    /\ drv.pc = "lookup"
    /\ port[drv.buf] \in listed
    /\ h \notin heap
    /\ heap' = heap \cup {h}
    /\ leaked' = leaked \ {h}
    /\ DriverAt("insert", h)
    /\ UNCHANGED <<port, eth, free, iov, short, queue, ctl, sockets, ipq, app>>

\* vSocketFromPort() finds a TSN socket: the frame gets a message header.
FillAncillary(h) ==
    /\ drv.pc = "lookup"
    /\ port[drv.buf] \in listed
    /\ h \notin heap
    /\ heap' = heap \cup {h}
    /\ leaked' = leaked \ {h}
    /\ iov' = [iov EXCEPT ![h] = eth[drv.buf]]
    /\ DriverAt("insert", h)
    /\ UNCHANGED <<port, eth, free, short, queue, ctl, sockets, ipq, app>>

\* The same, with no memory for the iovec: xAncillaryMsgFillPayload() fails,
\* which nobody notices.
FillPayloadFails(h) ==
    /\ drv.pc = "lookup"
    /\ port[drv.buf] \in listed
    /\ h \notin heap
    /\ heap' = heap \cup {h}
    /\ leaked' = leaked \ {h}
    /\ iov' = [iov EXCEPT ![h] = None]
    /\ short' = short \cup {drv.buf}
    /\ DriverAt("insert", h)
    /\ UNCHANGED <<port, eth, free, queue, ctl, sockets, ipq, app>>

\* The same, with no memory for the header: pxAncillaryMsgMalloc() clears what
\* NULL points to and returns NULL, and the frame goes on without a header.
HeaderMallocFails ==
    /\ drv.pc = "lookup"
    /\ port[drv.buf] \in listed
    /\ short' = short \cup {drv.buf}
    /\ DriverAt("insert", None)
    /\ UNCHANGED <<port, eth, free, heap, iov, leaked, queue, ctl, sockets, ipq,
                   app>>

\* vSocketFromPort() has searched the list of TSN sockets in vain.
DriverMiss ==
    /\ drv.pc = "lookup"
    /\ port[drv.buf] \notin listed
    /\ DriverAt("lookupBase", drv.msgh)
    /\ UNCHANGED <<memory, queue, ctl, sockets, ipq, app>>

\* pxUDPSocketLookup() finds a socket: the frame goes on without a header.
DriverFindsBase ==
    /\ drv.pc = "lookupBase"
    /\ Found(port[drv.buf])
    /\ DriverAt("insert", drv.msgh)
    /\ UNCHANGED <<memory, queue, ctl, sockets, ipq, app>>

\* No receiving socket: pdFAIL, and the driver releases the buffer.
NoReceiver ==
    /\ drv.pc = "lookupBase"
    /\ ~Found(port[drv.buf])
    /\ free' = free \cup {drv.buf}
    /\ drv' = IdleDriver
    /\ UNCHANGED <<port, eth, heap, iov, leaked, short, queue, ctl, sockets,
                   ipq, app>>

\* xNetworkQueueInsertPacketByFilter() copies the item into the queue.
InsertPacket ==
    /\ drv.pc = "insert"
    /\ Len(queue) < QueueLength
    /\ queue' = Append(queue, [buf |-> drv.buf, msgh |-> drv.msgh])
    /\ drv' = IdleDriver
    /\ UNCHANGED <<memory, ctl, sockets, ipq, app>>

\* The queue is full, or there is no memory for the item, which may be so at
\* any time: pdFAIL, and the driver releases the buffer.  Nobody frees the
\* header.
InsertFails ==
    /\ drv.pc = "insert"
    /\ free' = free \cup {drv.buf}
    /\ leaked' = leaked \cup ({drv.msgh} \ {None})
    /\ drv' = IdleDriver
    /\ UNCHANGED <<port, eth, heap, iov, short, queue, ctl, sockets, ipq, app>>
-----------------------------------------------------------------------------
(***************************************************************************)
(* The TSN controller: prvDeliverFrame().                                  *)
(***************************************************************************)

\* The controller goes on with its buffer.
ControllerAt(label, h, s) ==
    ctl' = [pc |-> label, buf |-> ctl.buf, msgh |-> h, sock |-> s]

PopFrame ==
    /\ ctl.pc = "idle"
    /\ queue # <<>>
    /\ ctl' = [pc |-> "lookup", buf |-> Head(queue).buf,
               msgh |-> Head(queue).msgh, sock |-> None]
    /\ queue' = Tail(queue)
    /\ UNCHANGED <<memory, drv, sockets, ipq, app>>

\* vSocketFromPort() finds a TSN socket.
FindTSN ==
    /\ ctl.pc = "lookup"
    /\ port[ctl.buf] \in listed
    /\ ControllerAt("deliver", ctl.msgh, port[ctl.buf])
    /\ UNCHANGED <<memory, drv, queue, sockets, ipq, app>>

\* vSocketFromPort() has searched the list of TSN sockets in vain.
ControllerMiss ==
    /\ ctl.pc = "lookup"
    /\ port[ctl.buf] \notin listed
    /\ ControllerAt("lookupBase", ctl.msgh, ctl.sock)
    /\ UNCHANGED <<memory, drv, queue, sockets, ipq, app>>

\* The two assertions of prvReceiveUDPPacketTSN().  Of a header without an
\* iovec the second reads what NULL points to, which is not the buffer's memory.
AssertionsHold == ctl.msgh # None /\ iov[ctl.msgh] = eth[ctl.buf]

\* prvReceiveUDPPacketTSN(): configASSERT() fails and stops the system.
AssertFails ==
    /\ ctl.pc = "deliver"
    /\ ~AssertionsHold
    /\ ControllerAt("halted", ctl.msgh, ctl.sock)
    /\ UNCHANGED <<memory, drv, queue, sockets, ipq, app>>

\* Mutant of DeliverTSN: the Ethernet pointer is left alone.
DeliverUnswapped ==
    /\ ctl.pc = "deliver"
    /\ AssertionsHold
    /\ InsertEnd(ctl.sock, ctl.buf)
    /\ ctl' = [pc |-> "event", buf |-> None, msgh |-> None, sock |-> ctl.sock]
    /\ UNCHANGED <<memory, drv, queue, base, listed, event, ipq, app>>

\* Mutant of DeliverTSN: no event is set for a receiver that waits.
DeliverUnsignalled ==
    /\ ctl.pc = "deliver"
    /\ AssertionsHold
    /\ eth' = [eth EXCEPT ![ctl.buf] = ctl.msgh]
    /\ InsertEnd(ctl.sock, ctl.buf)
    /\ ctl' = IdleController
    /\ UNCHANGED <<port, free, heap, iov, leaked, short, drv, queue, base,
                   listed, event, ipq, app>>

\* prvReceiveUDPPacketTSN(): the buffer carries the header into the list of
\* the base socket found above, whatever has become of that socket since.
DeliverTSN ==
    /\ ctl.pc = "deliver"
    /\ AssertionsHold
    /\ eth' = [eth EXCEPT ![ctl.buf] = ctl.msgh]
    /\ InsertEnd(ctl.sock, ctl.buf)
    /\ ctl' = [pc |-> "event", buf |-> None, msgh |-> None, sock |-> ctl.sock]
    /\ UNCHANGED <<port, free, heap, iov, leaked, short, drv, queue, base,
                   listed, event, ipq, app>>

\* xEventGroupSetBits( xEventGroup, eSOCKET_RECEIVE ).
SetEvent ==
    /\ ctl.pc = "event"
    /\ event' = [event EXCEPT ![ctl.sock] = TRUE]
    /\ ctl' = IdleController
    /\ UNCHANGED <<memory, drv, queue, base, listed, waiting, ipq, app>>

\* The receiving socket is a plain one: the header, if any, is freed.
FindPlain ==
    /\ ctl.pc = "lookupBase"
    /\ Found(port[ctl.buf])
    /\ heap' = heap \ {ctl.msgh}
    /\ ControllerAt(IF ViaIPTask THEN "ipsend" ELSE "process", None, None)
    /\ UNCHANGED <<port, eth, free, iov, leaked, short, drv, queue, sockets,
                   ipq, app>>

\* No socket: the frame is left to the IP task.  Nobody frees the header.
FindNone ==
    /\ ctl.pc = "lookupBase"
    /\ ~Found(port[ctl.buf])
    /\ leaked' = leaked \cup ({ctl.msgh} \ {None})
    /\ ControllerAt("ipsend", None, None)
    /\ UNCHANGED <<port, eth, free, heap, iov, short, drv, queue, sockets,
                   ipq, app>>

\* Mutant of SendToIPTask: the capacity of the event queue is not respected.
SendToIPTaskUnbounded ==
    /\ ctl.pc = "ipsend"
    /\ ipq' = Append(ipq, [type |-> "rx", buf |-> ctl.buf])
    /\ ctl' = IdleController
    /\ UNCHANGED <<memory, drv, queue, sockets, app>>

\* xSendEventStructToIPTask( eNetworkRxEvent ) succeeds.
SendToIPTask ==
    /\ ctl.pc = "ipsend"
    /\ Len(ipq) < EventQueueLength
    /\ ipq' = Append(ipq, [type |-> "rx", buf |-> ctl.buf])
    /\ ctl' = IdleController
    /\ UNCHANGED <<memory, drv, queue, sockets, app>>

\* Mutant of SendToIPTaskFails: the buffer is not released.
SendToIPTaskFailsSilently ==
    /\ ctl.pc = "ipsend"
    /\ Len(ipq) = EventQueueLength
    /\ ctl' = IdleController
    /\ UNCHANGED <<memory, drv, queue, sockets, ipq, app>>

\* xSendEventStructToIPTask() fails: the buffer is released.
SendToIPTaskFails ==
    /\ ctl.pc = "ipsend"
    /\ Len(ipq) = EventQueueLength
    /\ free' = free \cup {ctl.buf}
    /\ ctl' = IdleController
    /\ UNCHANGED <<port, eth, heap, iov, leaked, short, drv, queue, sockets,
                   ipq, app>>

\* xProcessReceivedUDPPacket(), external: a socket gets the buffer as it is;
\* without one the caller releases it.
ProcessUDP(b) ==
    IF Found(port[b])
      THEN /\ InsertEnd(port[b], b)
           /\ event' = [event EXCEPT ![port[b]] = TRUE]
           /\ UNCHANGED free
      ELSE free' = free \cup {b} /\ UNCHANGED <<waiting, event>>

\* A plain socket, served by the controller itself.
ProcessPlain ==
    /\ ctl.pc = "process"
    /\ ProcessUDP(ctl.buf)
    /\ ctl' = IdleController
    /\ UNCHANGED <<port, eth, heap, iov, leaked, short, drv, queue, base,
                   listed, ipq, app>>
-----------------------------------------------------------------------------
(***************************************************************************)
(* The IP task (external).                                                 *)
(***************************************************************************)

\* eNetworkRxEvent: a UDP frame goes to its socket, others are consumed.
IPTaskReceives ==
    /\ ipq # <<>>
    /\ Head(ipq).type = "rx"
    /\ ProcessUDP(Head(ipq).buf)
    /\ ipq' = Tail(ipq)
    /\ UNCHANGED <<port, eth, heap, iov, leaked, short, drv, queue, ctl, base,
                   listed, app>>

\* The buffers that wait at socket s.
InList(s) == {waiting[s][k] : k \in 1..Len(waiting[s])}

\* eSocketCloseEvent: the waiting buffers are released, then the socket.  The
\* headers they carry are dropped.
IPTaskCloses ==
    /\ ipq # <<>>
    /\ Head(ipq).type = "close"
    /\ LET s == Head(ipq).sock
       IN  /\ free' = free \cup InList(s)
           /\ leaked' = leaked \cup (Header \cap {eth[b] : b \in InList(s)})
           /\ waiting' = [waiting EXCEPT ![s] = <<>>]
           /\ base' = [base EXCEPT ![s] = "freed"]
    /\ ipq' = Tail(ipq)
    /\ UNCHANGED <<port, eth, heap, iov, short, drv, queue, ctl, listed, event,
                   app>>
-----------------------------------------------------------------------------
(***************************************************************************)
(* The application of socket s: one task, which is also the only receiver  *)
(* ("should always be at most one", FreeRTOS_TSN_Sockets.h:99).           *)
(***************************************************************************)
Goto(s, label) ==
    app' = [app EXCEPT ![s] = [pc |-> label, buf |-> app[s].buf]]

\* FreeRTOS_TSN_bind(): FreeRTOS_bind() on the base socket.
BindBase(s) ==
    /\ app[s].pc = "created"
    /\ base' = [base EXCEPT ![s] = "bound"]
    /\ Goto(s, IF s \in TSN THEN "binding" ELSE "ready")
    /\ UNCHANGED <<memory, drv, queue, ctl, listed, waiting, event, ipq>>

\* FreeRTOS_TSN_bind(): the TSN socket is put on the list.
BindTSN(s) ==
    /\ app[s].pc = "binding"
    /\ listed' = listed \cup {s}
    /\ Goto(s, "ready")
    /\ UNCHANGED <<memory, drv, queue, ctl, base, waiting, event, ipq>>

\* FreeRTOS_TSN_recvmsg(): is a packet waiting?  If not, wait for the event;
\* a call that does not block returns and changes nothing.
Recv(s) ==
    /\ app[s].pc = "ready"
    /\ Goto(s, IF waiting[s] # <<>> THEN "take" ELSE "blocked")
    /\ UNCHANGED <<memory, drv, queue, ctl, sockets, ipq>>

\* xEventGroupWaitBits() returns the bit and clears it.
Wake(s) ==
    /\ app[s].pc = "blocked"
    /\ event[s]
    /\ event' = [event EXCEPT ![s] = FALSE]
    /\ Goto(s, "recount")
    /\ UNCHANGED <<memory, drv, queue, ctl, base, listed, waiting, ipq>>

\* xEventGroupWaitBits() returns after xRemainingTime.
Expire(s) ==
    /\ app[s].pc = "blocked"
    /\ ~event[s]
    /\ Goto(s, "expired")
    /\ UNCHANGED <<memory, drv, queue, ctl, sockets, ipq>>

\* The packets are counted again; without one, the loop goes on or the call
\* returns -pdFREERTOS_ERRNO_EWOULDBLOCK.
Recount(s) ==
    /\ app[s].pc \in {"recount", "expired"}
    /\ Goto(s, IF waiting[s] # <<>> THEN "take"
               ELSE IF app[s].pc = "expired" THEN "ready" ELSE "blocked")
    /\ UNCHANGED <<memory, drv, queue, ctl, sockets, ipq>>

\* Mutant of Take: the last packet is taken off the list.
TakeLast(s) ==
    /\ app[s].pc = "take"
    /\ waiting[s] # <<>>
    /\ app' = [app EXCEPT ![s] =
                 [pc |-> "return", buf |-> waiting[s][Len(waiting[s])]]]
    /\ waiting' = [waiting EXCEPT ![s] = SubSeq(@, 1, Len(@) - 1)]
    /\ UNCHANGED <<memory, drv, queue, ctl, base, listed, event, ipq>>

\* With the scheduler suspended, the first packet is taken off the list.
Take(s) ==
    /\ app[s].pc = "take"
    /\ waiting[s] # <<>>
    /\ app' = [app EXCEPT ![s] = [pc |-> "return", buf |-> Head(waiting[s])]]
    /\ waiting' = [waiting EXCEPT ![s] = Tail(@)]
    /\ UNCHANGED <<memory, drv, queue, ctl, base, listed, event, ipq>>

\* Mutant of ReturnTSN: the header is not freed.
ReturnLeaking(s) ==
    /\ app[s].pc = "return"
    /\ s \in TSN
    /\ eth[app[s].buf] \in Header
    /\ eth' = [eth EXCEPT ![app[s].buf] = iov[@]]
    /\ free' = free \cup {app[s].buf}
    /\ app' = [app EXCEPT ![s] = [pc |-> "ready", buf |-> None]]
    /\ UNCHANGED <<port, heap, iov, leaked, short, drv, queue, ctl, sockets,
                   ipq>>

\* recvmsg() on a TSN socket: the Ethernet pointer is restored, the message
\* is copied, header and buffer are released.
ReturnTSN(s) ==
    /\ app[s].pc = "return"
    /\ s \in TSN
    /\ eth[app[s].buf] \in Header
    /\ eth' = [eth EXCEPT ![app[s].buf] = iov[@]]
    /\ heap' = heap \ {eth[app[s].buf]}
    /\ free' = free \cup {app[s].buf}
    /\ app' = [app EXCEPT ![s] = [pc |-> "ready", buf |-> None]]
    /\ UNCHANGED <<port, iov, leaked, short, drv, queue, ctl, sockets, ipq>>

\* The same for a frame that was delivered without a header: recvmsg() takes
\* the frame itself for one, and follows what it finds there.
RecvFaults(s) ==
    /\ app[s].pc = "return"
    /\ s \in TSN
    /\ eth[app[s].buf] \notin Header
    /\ Goto(s, "faulted")
    /\ UNCHANGED <<memory, drv, queue, ctl, sockets, ipq>>

\* FreeRTOS_recvfrom() on a plain socket, external.
ReturnPlain(s) ==
    /\ app[s].pc = "return"
    /\ s \notin TSN
    /\ free' = free \cup {app[s].buf}
    /\ app' = [app EXCEPT ![s] = [pc |-> "ready", buf |-> None]]
    /\ UNCHANGED <<port, eth, heap, iov, leaked, short, drv, queue, ctl,
                   sockets, ipq>>

\* FreeRTOS_TSN_closesocket(): the TSN socket leaves the list.
CloseTSN(s) ==
    /\ "close" \in Calls
    /\ app[s].pc = "ready"
    /\ listed' = listed \ {s}
    /\ Goto(s, "closing")
    /\ UNCHANGED <<memory, drv, queue, ctl, base, waiting, event, ipq>>

\* FreeRTOS_closesocket() on the base socket: the IP task is asked to close.
CloseBase(s) ==
    /\ app[s].pc = "closing"
    /\ Len(ipq) < EventQueueLength
    /\ ipq' = Append(ipq, [type |-> "close", sock |-> s])
    /\ base' = [base EXCEPT ![s] = "closing"]
    /\ Goto(s, "closed")
    /\ UNCHANGED <<memory, drv, queue, ctl, listed, waiting, event>>
-----------------------------------------------------------------------------
Driver ==
    \/ \E b \in Buffer, p \in Port : ReceiveFrame(b, p)
    \/ \E h \in Header : FillAncillary(h) \/ FillPayloadFails(h)
    \/ HeaderMallocFails
    \/ DriverMiss \/ DriverFindsBase \/ NoReceiver
    \/ InsertPacket \/ InsertFails

Controller ==
    \/ PopFrame \/ FindTSN \/ ControllerMiss
    \/ AssertFails \/ DeliverTSN \/ SetEvent
    \/ FindPlain \/ FindNone
    \/ SendToIPTask \/ SendToIPTaskFails \/ ProcessPlain

IPTask == IPTaskReceives \/ IPTaskCloses

Receiver(s) ==
    \/ Recv(s) \/ Wake(s) \/ Recount(s)
    \/ Take(s) \/ ReturnTSN(s) \/ RecvFaults(s) \/ ReturnPlain(s)

Application(s) ==
    \/ BindBase(s) \/ BindTSN(s)
    \/ Receiver(s) \/ Expire(s)
    \/ CloseTSN(s) \/ CloseBase(s)

Next ==
    /\ ctl.pc # "halted"
    /\ Driver \/ Controller \/ IPTask \/ \E s \in Socket : Application(s)

Spec == Init /\ [][Next]_vars

(***************************************************************************)
(* Fairness: the tasks of the stack run when they can, and the application *)
(* keeps calling recvmsg().  Nothing is assumed of its block time: a wait  *)
(* need not expire, a frame need not arrive.                               *)
(***************************************************************************)
FairSpec ==
    /\ Spec
    /\ WF_vars(Driver /\ drv.pc # "idle")
    /\ WF_vars(Controller)
    /\ WF_vars(IPTask)
    /\ \A s \in Socket : WF_vars(Receiver(s))
-----------------------------------------------------------------------------
(***************************************************************************)
(* A network buffer has exactly one owner: the pool, the driver, the       *)
(* network queue, the controller, one socket, the IP task, or one          *)
(* application.  No path of reception drops a buffer or releases it twice  *)
(* (Wrapper.c:505-627, Controller.c:126-259, Sockets.c:827-911).           *)
(***************************************************************************)
When(condition, place) == IF condition THEN {place} ELSE {}

Whereabouts(b) ==
    When(b \in free, <<"pool">>)
    \cup When(b = drv.buf, <<"driver">>)
    \cup When(b = ctl.buf, <<"controller">>)
    \cup {<<"queue", k>> : k \in {j \in 1..Len(queue) : queue[j].buf = b}}
    \cup {<<"ip", k>> : k \in {j \in 1..Len(ipq) :
                                 ipq[j].type = "rx" /\ ipq[j].buf = b}}
    \cup (UNION {When(b = app[s].buf, <<"app", s>>) : s \in Socket})
    \cup (UNION {{<<"socket", s, k>> :
                    k \in {j \in 1..Len(waiting[s]) : waiting[s][j] = b}} :
                  s \in Socket})

OneOwner == \A b \in Buffer : \E w \in Whereabouts(b) : Whereabouts(b) = {w}

(***************************************************************************)
(* What recvmsg() takes for a message header is one: allocated, and built  *)
(* for this buffer, which came for this socket (Sockets.c:854-856).        *)
(***************************************************************************)
RecvFindsHeader ==
    \A s \in TSN : app[s].pc = "return" =>
        LET b == app[s].buf
        IN  /\ eth[b] \in heap
            /\ iov[eth[b]] = b
            /\ port[b] = s

(***************************************************************************)
(* Every allocated header is still known to somebody who will free it: to  *)
(* the driver, the item in the queue, the controller, or the buffer that   *)
(* carries it to a TSN socket.  Otherwise it was dropped in one of the     *)
(* three places that do so: an insertion that fails, for want of room or   *)
(* of memory (Wrapper.c:614-619); a frame whose socket has gone            *)
(* (Controller.c:236-258); and the closing of a socket with packets        *)
(* waiting, by the IP task.  Nothing else leaks, whatever else fails and   *)
(* whoever binds or closes meanwhile.                                      *)
(***************************************************************************)
InItems == {queue[k].msgh : k \in 1..Len(queue)}

Known(h) ==
    \/ h \in {drv.msgh, ctl.msgh} \cup InItems
    \/ \E s \in TSN : \E b \in InList(s) : eth[b] = h
    \/ \E s \in TSN : app[s].buf # None /\ eth[app[s].buf] = h

HeadersAccountedFor == \A h \in heap \ leaked : Known(h)

(***************************************************************************)
(* Reception is a lossy FIFO to each socket.  The datagrams on their way   *)
(* to s are, oldest first, those in its list, in the IP task's queue, with *)
(* the controller, in the network queue and with the driver.  (With the    *)
(* policy eIPTaskEvents it fails while a TSN socket is being bound: what   *)
(* came before goes through the IP task, what comes after does not.)       *)
(***************************************************************************)
InTransit ==
    [k \in 1..Len(ipq) |->
        IF ipq[k].type = "rx" THEN ipq[k].buf ELSE None]
    \o <<ctl.buf>> \o [k \in 1..Len(queue) |-> queue[k].buf] \o <<drv.buf>>

OnTheWay(s) ==
    LET ForS(b) == b # None /\ port[b] = s
    IN  waiting[s] \o SelectSeq(InTransit, ForS)

Abstract == INSTANCE DatagramService WITH
    Datagram <- Buffer, NoDatagram <- None,
    fifo <- [s \in Socket |-> OnTheWay(s)],
    got <- [s \in Socket |-> app[s].buf]

FIFODelivery == Abstract!Service

(***************************************************************************)
(* An application that keeps receiving gets every frame for its socket     *)
(* that the network queue took: recvmsg() never sleeps while a packet      *)
(* waits (Controller.c:83-90, Sockets.c:782-826).  Unless an assertion     *)
(* stops the system first.                                                 *)
(***************************************************************************)
EveryFrameReceived ==
    \A s \in TSN, b \in Buffer :
        (\E k \in 1..Len(queue) : queue[k].buf = b /\ port[b] = s)
            ~> (app[s].buf = b \/ ctl.pc = "halted")

(***************************************************************************)
(* configASSERT( pxItem->pxMsgh != NULL ): "For receptions, the ancillary  *)
(* message should always be present" (NetworkSchedulerQueue.h:36), and the *)
(* assertion on its payload (Controller.c:56, 80).  When memory runs out   *)
(* they fail, as the code then goes on without.  When it does not, they    *)
(* hold unless sockets are bound or closed while frames arrive: the first  *)
(* fails when the socket is bound between the lookup of the driver and     *)
(* that of the controller.                                                 *)
(***************************************************************************)
AssertionsFailOnlyShort == ctl.pc = "halted" => ctl.buf \in short

(***************************************************************************)
(* "This must be reverted back before releasing the network buffer!"       *)
(* (Controller.c:76-78): a free buffer owns its memory again.  It fails    *)
(* when a socket is closed with packets waiting.                           *)
(***************************************************************************)
ReleasedReverted == \A b \in free : eth[b] = b

=============================================================================

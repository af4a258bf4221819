# Verification of the FreeRTOS TSN Compatibility Layer

TLA+ models of the compatibility layer, the TLC runs that check them on small
instances, and the theorems about them that TLAPS proves for every instance.
Line numbers refer to files under `src/source/` unless a path says otherwise.

## The system

The layer sits between FreeRTOS-Plus-TCP and a MAC driver. One task, the **TSN
controller**, is the only one that talks to the MAC; every packet, sent or
received, passes through a **network queue** that the controller drains in the
order of a **scheduler tree**.

| component | state it keeps | operations |
|---|---|---|
| network queues, `FreeRTOS_TSN_NetworkScheduler.c`, `...Queue.c` | the list of queues, each with a FreeRTOS queue, an IPV, a policy and a filter | create, insert by filter or by name, push, pop, is-empty |
| scheduler tree, `...SchedulerBlock.c`, `BasicSchedulers.c` | nodes with a ready and a select function, `uxNextWakeup` | call (the walk), link, add a wakeup, ticks until wakeup |
| credit based scheduler, `SchedCBS.c` | `uxNextActivation` per node | ready: charge the packet at the head, or ask for a wakeup |
| controller task, `FreeRTOS_TSN_Controller.c` | notification value, task priority | sleep, walk, pop, deliver or output, recompute the priority |
| network wrapper, `NetworkWrapper.c` | VLAN settings of an interface | output (push, or MAC if the caller is the controller), reception, ancillary data, time stamps |
| TSN sockets, `FreeRTOS_TSN_Sockets.c` | list of bound sockets, waiting packets, error queue, options | socket, bind, close, setsockopt, sendto, recvmsg, recvfrom |
| ancillary messages, `FreeRTOS_TSN_Ancillary.c` | a `msghdr` with its parts | allocate, fill, free |
| timebase, `FreeRTOS_TSN_Timebase.c`, `...Timestamp.c` | handle and state of the timebase | set, start, stop, adjust; sums and differences of times |
| VLAN tags and DiffServ, `FreeRTOS_TSN_VLANTags.c`, `..._DS.c` | none: they edit a frame | find, set, get a tag; set and get the class |

Interaction: applications (`FreeRTOS_TSN_sendto()`), the IP task (`pfOutput()`,
which is the wrapper) and the MAC driver (`xSendEventStructToTSNController()`)
push items; a push sends to a FreeRTOS queue, raises the controller's priority
when that is dynamic, and notifies the controller. The controller outputs
transmissions through the wrapper, delivers received frames to sockets, or
sends them to the IP task's event queue. So the controller waits for the IP
task when that queue is full, and the IP task waits for the controller when a
network queue is full.

What is hard: tasks of any priority interleave with the controller; the walk of
the tree is not atomic; checks and uses are apart (is-empty and pop, lookup and
delivery, read and write of the priority); wakeups are ticks in one shared
variable; the ready function of a shaper runs before the queue is tested;
buffers and message headers change hands between tasks that may close the
socket meanwhile. `PROJECT.json` lists each hazard at its line.

## Modules

`NetworkQueues` (with `BestMatch`) is the static part: queues, list, leaves,
policies, filters, and the choice of the queue a packet goes to. A packet is a
model value with an event type; a filter is the set of packets it lets in.

`TSNController` is the core. Its state is the contents of the queues, the
notification value, the program counter of each pushing task (`pc`, `item`,
`dest`), the IP task's event queue (`ipq`), and the controller's own: `ctl` is
where it is in `prvTSNController()`, `leaf` the next leaf of the walk, `sel`
and `cur` its `pxQueue` and `xItem`, `deferred` the leaves whose ready function
said no in this walk, `scan` and `top` the loop of
`vTSNControllerComputePriority()`. Every access to state that another task can
touch is an action of its own:

| code | actions |
|---|---|
| `xNetworkQueueInsertPacketByFilter/ByName`, `xNetworkQueuePush` | `InsertPacketByFilter`, `InsertPacketByName`, `SendToBack`, `SendTimeout`, `GetPriority`, `SetPriority`, `Notify` |
| `ulTaskNotifyTake` | `TakeNotification`, `TakeTimeout` |
| `pxNetworkSchedulerCall` at each leaf, `prvPrioritySelect` | `PollSelect`, `PollEmpty`, `PollNotReady`, `WalkEnds` |
| `xNetworkQueuePop` and the handling of the item | `Pop`, `OutputFrame`, `DeliverToSocket`, `DeliverToIPTask`, `SendEventToIPTask`, `SendEventTimeout` |
| `vTSNControllerComputePriority` | `Recheck`, `ScanQueue`, `ScanEnds` |
| Plus-TCP (external) | `StackTxEvent`, `IPTaskConsumes`, `IPTaskOutputs` |

The tree is flattened to the sequence of leaves a depth-first walk polls; that
is exact for the select functions that exist (priority and FIFO). The
notification value is a count of which the code only sees zero or not zero.
`seen` is a history variable.

`TimedController` extends `TSNController` with the clock. A poll of a shaped
leaf is the sequence the code runs (read the clock, charge or ask for a wakeup,
test the queue); a tick may come between any two steps. So may one between the
steps of a sleep (`phase`): `configMIN()` compares the ticks until the wakeup
with the period (`CompareSleep`), counts them a second time if they are fewer
(`ComputeSleep`), and only then does `ulTaskNotifyTake()` begin to wait for that
many ticks (`BeginWait`, `Wake`). `sleep` is relative, as in the code; `read` is
when the clock was last read for it, and the ticks from then to the begin of the
wait are lost (`LostTicks`). `missed` is a history variable: the wakeup came due
with a leaf deferred already, before it was read, or a leaf asked for one
already due. `TimedController` implements
`TSNController`, with the same variables as refinement mapping: what is a step
of several there is one step here.

`CreditBasedScheduler` is one shaped node seen from the inside: the arithmetic
of delays, the charge and the cap, under a controller that calls it at any
time. `QueueSelection` is the loop of `xNetworkQueueInsertPacketByFilter()`;
`TSNController` uses its result in one step.

`SchedulerTree` is where the sequence of leaves comes from. It runs the calls of
a configuration one by one, with what each refuses (`pxNetworkQueueCreate`,
`pxNetworkNodeCreateFIFO`, `...Prio`, `...CBS`, `xNetworkSchedulerLinkQueue`,
`...LinkChild`, `xNetworkQueueAssignRoot`), then walks the tree they made:
`arg`, `frames` and `result` are the argument of `pxNetworkSchedulerCall()`, the
select functions under way with their `usIter`, and the value being returned
(`Call`, `SchedulerNotReady`, `SchedulerLeaf`, `SchedulerSelect`,
`SelectResumes`, `Return`), while `InsertPacketByName` goes on. The number of
children is cut to 8 bits, as `ucNumChildren` is, and the ready function of a
CBS node without a queue peeks a NULL queue (`PeeksNullQueue`, which ends the
walk in `"fault"`). A layout carries
the drawing its author had in mind, and the walk is compared with that. The
layouts (`MCUnits`) are the one of `src/templates/NetworkQueueExample.c`, and
one linked backwards with refused calls in it.

`UDPReception` follows a received frame from the driver to the application and
asks who owns its buffer and its message header. The scheduling of queues is
left out: one network queue stands for the one whose filter takes the frame. A
TSN socket keeps its packets in the list of the Plus-TCP socket under it, and
between delivery and receive the buffer's `pucEthernetBuffer` points to the
header, whose payload points to the Ethernet memory; `eth` and `iov` are those
two pointers, and `heap` says which headers are allocated. The header, its
payload and the queue item may each find no memory, at any time. Two histories
tell the consequences apart: `short` has the buffers whose frame went on without
a header or a payload, `leaked` the headers dropped where the code drops them.

| code | actions |
|---|---|
| `prvHandleReceive` and the insertion that follows | `ReceiveFrame`, `FillAncillary`, `FillPayloadFails`, `HeaderMallocFails`, `DriverMiss`, `DriverFindsBase`, `NoReceiver`, `InsertPacket`, `InsertFails` (no room, or no memory for the item) |
| `prvDeliverFrame`, `prvReceiveUDPPacketTSN` | `PopFrame`, `FindTSN`, `ControllerMiss`, `AssertFails`, `DeliverTSN`, `SetEvent`, `FindPlain`, `FindNone`, `SendToIPTask`, `SendToIPTaskFails`, `ProcessPlain` |
| `FreeRTOS_TSN_bind`, `..._closesocket` | `BindBase`, `BindTSN`, `CloseTSN`, `CloseBase` |
| `FreeRTOS_TSN_recvmsg` | `Recv`, `Wake`, `Expire`, `Recount`, `Take`, `ReturnTSN`, `RecvFaults` (no header where one is dereferenced) |
| Plus-TCP (external) | `IPTaskReceives`, `IPTaskCloses`, `ProcessUDP`, `ReturnPlain` |

The two searches of `vSocketFromPort()` are two steps, in the driver and again
in the controller, since a socket may be bound or closed between them. `Calls`
chooses which of bind and close happen while frames arrive. Left out:
`FREERTOS_MSG_PEEK`, receivers in two tasks of one socket, frames without an end
point or cut short (the controller returns on some of those without releasing
them, `Controller.c:143-151`, but drivers do not pass them on), and TCP segments
whose port is that of a UDP socket.

`DatagramService` is what reception promises: a lossy queue of datagrams per
socket, handed to its application in order. In `UDPReception` the queue of a
socket is everything on its way to it: its list, the IP task's event queue, the
controller, the network queue and the driver.

`UDPTransmission` is the other direction, from `sendto()` or the IP task through
a network queue and the controller to the MAC, and the time stamp back to the
error queue of a socket. `held` is the buffer a task is sending, `queue` the
network queue, `ctl` where the controller is in the wrapper's output function,
`mac` what the MAC has still to release. A header in an error queue is the index
on `wire` of the frame it was made for. An item carries `xReleaseAfterSend`.
`sendto()` always sets it; the IP task may call with `bReleaseAfterSend` either
way, and without it keeps the buffer (`kept`) while the item waits and goes out,
and may release it or send its next frame in it meanwhile. A frame goes out with
what its buffer carries by then.

| code | actions |
|---|---|
| `FreeRTOS_TSN_socket`, `_bind`, `_setsockopt`, `_recvmsg( MSG_ERRQUEUE )` | the actions of the same names, `RecvErrQueue` |
| `FreeRTOS_TSN_sendto` | `Allocate`, `Insert`, `SendFails` (no address, payload too long, time-out) |
| `xTSN_NetworkInterfaceOutput` in the IP task | `Allocate`, `Insert`, `IPTaskInsertFails` |
| the same in the controller | `PopItem`, `NoRoomForTag`, `OutputFails`, `Output`, `Lookup`, `Fill`, `InsertHeader` |
| a buffer the IP task keeps (external) | `KeeperReleases`, `KeeperSends` |
| the MAC driver (external) | `MACReleases` |

`BoundSockets` opens up what those two take for one step, the list of bound
sockets: each assignment of the kernel's `vListInsertEnd()` and
`uxListRemove()` is a step, and so is each item a search of `vSocketFromPort()`
looks at.

Four modules are about data. `Timebase`: the state of the timebase and the
functions on time stamps, where result and operands are slots that may be the
same one; seconds are modulo `W` and a second has `NS` nanoseconds.
`ControlMessages`: the life of one header, with pointers as offsets in its
control buffer. Any allocation may fail, that of the header itself included, and
each caller that ends its life is an action: `Receive`, `FreeForPlainSocket` and
`FreeUnfilled` free it, `LeaveReceived` and `LeaveStamp` drop it,
`DeliverNoPayload` follows the NULL pointer of a payload that was not allocated.
`Frames`: the words of a frame behind the MAC addresses, with the history
variables `tags` and `rest` saying what a reader of IEEE 802.1Q should find.
`reach` is how far the buffer has been written, since `memmove()` moves a tag's
length too much; `astray` records that the class was set by a type that was
never read from the frame (the type of an untagged frame is a parameter
`garbage`, any value), or tags stripped by the wrong count. The functions that
get or check a tag change nothing and are left out. `Datagrams`: the lengths in
the headers of a datagram, from `prvPrepareBufferUDPv4()`, which computes the
payload back from the size of the buffer and cuts it to 16 bits before the MTU
is tested, to `prvMoveToStartOfPayload()`; with 0 to 3 tags of the socket.

`MCUnits` puts the parts that have their own state side by side: a behaviour
exercises one of them and leaves the others alone, so that their state spaces
add up and one run checks them all.

## Runs

| run | bounds | shows |
|---|---|---|
| `Controller` | 3 queues of length 2, the middle one shaped, event queue of 1, 2 tasks, 3 packets, dynamic priority, fairness | types, no lost wakeup, strict priority, a pop always finds its packet; a queue is served once earlier ones fall silent |
| `ControllerPrio` | 2 queues of length 1, 4 packets | violated: the dynamic priority is not what the comments say |
| `Timed` | 3 queues, two shaped, one packet, 4 ticks | a sleep covers every deferred leaf up to the ticks lost before it, unless the wakeup was missed; refinement of `TSNController` |
| `TimedWakeup` | as `Timed` | violated: a wakeup that comes due too soon is lost, even if lost ticks are forgiven |
| `Reception` | a TSN and a plain socket, 2 buffers, queues of 1, bind and close | types, every buffer has one owner, every header is known to somebody or counted as dropped, refinement of `DatagramService` |
| `ReceptionFair` | the same sockets, bound all along, queue of 2 served through the IP task, fairness | the header `recvmsg()` finds is the frame's own, an assertion fails only for want of memory, order is kept, every frame queued for a TSN socket is received |
| `ReceptionBind`, `ReceptionClose` | 1 TSN socket, 2 buffers | violated, see below |
| `Transmission` | a socket and the IP task, which gives its buffers away or keeps them, 2 buffers, queue of 2, error queue of 1, 2 frames each, fairness | every buffer has one owner and comes back; frames go out in order; stamps follow the wire |
| `TransmissionStamp` | the same with 2 sockets | violated: a stamp reaches the wrong socket |
| `Units` | see below | 17 invariants of eight parts |
| `BoundRace` | 2 tasks, 2 sockets | violated: a bound socket is not listed |

In `Units`:

| part | bounds | shows |
|---|---|---|
| `QueueSelection` | lists of 4 queues, 3 IPVs | the loop chooses the best queue |
| `CreditBasedScheduler` | 8 kbit/s, credit of 3 ticks, 7 ticks, 4 packets | the burst bound, whatever is read through NULL on an empty queue |
| `SchedulerTree` | 2 layouts, queues of 2 | the walk serves the tree as drawn, and no NULL node is called |
| `Timebase` | 8 seconds of 4 ns, 2 slots, divisors up to 3 | exact sums and differences; overflow reported except in the last second; what a division loses; comparison |
| `ControlMessages` | up to 3 messages of 3 lengths, 6 sizes of the user's buffer | the space suffices, the walk finds every message that was copied, who frees a header frees all of it |
| `Frames` | 3 frames of the stack, 3 TCIs, 4 classes | frames intact under every sequence of calls, but for what an unread type does to the class; the class is found behind any tags; no more than a tag is written past the frame |
| `Datagrams` | payloads at 0, 1, the minimum frame, the MTU and 16 bits, with neighbours; up to 3 tags; 6 buffer sizes | lengths agree; `recvmsg()` copies the payload and 8 bytes more |
| `BoundSockets` | 3 sockets, 2 ports, 1 task that binds and closes, 1 that searches | a search finds a socket bound all the while, and none closed before it began |

The bounds of the parts are the smallest at which each branch is taken: seconds
and nanoseconds that carry, wrap and borrow at once, message lengths below, at
and above a multiple of `sizeof( long )`, a user's buffer that ends inside a
header, inside data, and at a boundary, an ARP frame whose content looks like
tags. `Transmission` needs two buffers, so that one can be reused while the
other's stamp is on its way, and an error queue that can be full.

A network queue of length 2 can be full, empty, and neither, so the blocked
push, the emptied queue and the pop that leaves a packet behind all occur; two
pushing tasks are enough for every race of two pushes with the controller. The
clock is bounded by `Horizon`; runs with a clock do not check deadlock, because
at the last tick the controller may rightly sleep for good.

For reception, two buffers show every race of one frame with another. Headers
that the code drops stay allocated and are counted, in `leaked`; when all are
lost, the next frame finds no memory, which is one of its cases anyway. Buffers
and headers are interchangeable, so runs without liveness use symmetry. Runs of
`UDPReception` do not check deadlock: closed sockets stay closed, and an
assertion that fails stops the system. Nor do `Transmission` and the parts of
`Units`, whose sends and calls are bounded. With kept buffers a second socket in
`Transmission` does not fit in the time a run should take; the two sockets of
`TransmissionStamp` show what only two can do, and `TransmissionOneOwner`,
`TransmissionWireInOrder` and `TransmissionStampsInOrder` hold for any number.

Fairness (`FairSpec`): a task inside a push goes on (its blocking call finds
room or times out), the controller and the IP task run when they can. The
FreeRTOS scheduler gives that to tasks that do not starve each other by
priority. Nothing is assumed of the expiry of the controller's sleep, so
liveness does not rest on the periodic wakeup, nor of applications, so it does
not rest on new packets. In `UDPReception` the driver finishes what it began,
the controller and the IP task run, and the application keeps calling
`recvmsg()`, as `EveryFrameReceived` says in words; no wait is assumed to
expire, so a packet is received because of its event and not of a timeout. In
`UDPTransmission` a task that has started a call ends it, the controller runs,
and the MAC releases what it accepted; nobody need send, bind or receive.

## What the violations show

- `ControllerPrio`: the scan of the queues and the write at its end are not
  atomic; a push in between raises the priority and is overwritten. The update
  of a push is not atomic either: of two at once, the lower can win.
- `TimedWakeup`: `uxNetworkQueueGetTicksUntilWakeup()` answers `portMAX_DELAY`
  for a wakeup that is due, so a tick between the request and the computation of
  the sleep costs a whole period (one second by default). `configMIN()` is a
  macro and counts the ticks twice: when the wakeup comes due between the two,
  the wait has no limit. `SleepCoversRequests` says that these are the only ways
  to oversleep, but for the ticks between the computation and the wait.
- `ReceptionBind`: `FreeRTOS_TSN_bind()` makes the base socket reachable first.
  A frame the driver looks up then gets no header; when the controller looks it
  up the TSN socket is listed, and the assertion on the header fails, though
  there was memory for everything (`AssertionsFailOnlyShort`).
- `ReceptionClose`: packets that wait at a socket are released by the IP task,
  which knows nothing of the header their Ethernet pointer points to.
- `TransmissionStamp`: the wrapper gives a buffer to the MAC, then reads from it
  the port of the socket that is to get the time stamp. If the MAC has released
  the buffer and another socket sends with it meanwhile, that socket gets the
  stamp of a frame it did not send, and the sender none.
- `BoundRace`: `vListInsertEnd()` reads and writes the end marker in several
  steps and nothing locks the list. Of two sockets bound at once, one is not on
  it: the wrapper finds no TSN socket for its port, so it gets no ancillary
  data and no time stamps. With one task that binds and closes, searches are
  right (`SearchFindsBound` in `Units`): a socket removed under a search still
  leads it back into the list, because its item is left as it was.

Seen while modelling, plain from the code and not run:

- The ready function of the shaper is called before its queue is tested, and
  reads a length through NULL when it is empty (`SchedCBS.c:28`).
- `recvmsg()` takes the length of the UDP header, which counts itself, so it
  copies and returns 8 bytes more than "the length of the payload" that the
  comments promise (`Sockets.c:330` against 299, 736 and 930); `PayloadAndEight`
  states what it copies exactly. Of several elements only the first is used.
- Without memory for a header, `pxAncillaryMsgMalloc()` clears what NULL points
  to (`Ancillary.c:45-47`), and the frame goes on without one to the assertion
  of `Controller.c:56`; without memory for its payload, a NULL pointer is
  followed at `Controller.c:80`; without memory for the item, the header is
  dropped (`NetworkWrapper.c:614`).
- A tag that finds no room releases the buffer whatever `bReleaseAfterSend` says
  (`NetworkWrapper.c:80-84`). An inserted tag moves four bytes too many, past
  the end of the frame (`NetworkWrapper.c:92`). The MAC gets `pxBuffer` and not
  `pxNewBuffer` (line 330), the same descriptor as Plus-TCP resizes it.
- The type of an untagged frame is not set by `prvGetIPVersionAndOffset()`, so
  what reading or setting the class of one does depends on the stack
  (`DS.c:24-61`).
- A peeked packet is freed and released like a received one, though it stays on
  the list (`Sockets.c:837-906`).
- `setsockopt()` resets the error queue without freeing the headers in it, and
  the output function ignores that the queue is full (`Sockets.c:493`,
  `NetworkWrapper.c:348`). An error queue that cannot be created orphans the
  base socket, and `ulTSFlags` starts with whatever the memory held.
- The functions that look for a tag fall through their cases and never find
  one, although their comments promise its fields, or ~0 only "if the VLAN S-Tag
  is not present" (`VLANTags.c:192`); and 1 and 2 tags are swapped
  (`VLANTags.c:33-40`). So tags are never read, and setting one writes through
  NULL (`fault` in `Frames`).
- `msg_namelen` is the size of a pointer (`Ancillary.c:131`).
- A frame of the IP task that no queue takes is never released
  (`NetworkWrapper.c:373`).
- Closing a TSN socket that was never bound removes an item that is on no list
  (`Sockets.c:571`).

And further: delays are truncated to milliseconds and to ticks, so short packets
at a high bandwidth cost nothing (`SchedCBS.c:28`); the driver looks TCP ports up among the UDP sockets and drops
the segment if it finds none (`NetworkWrapper.c:565-604`), although the header
of the queues says TCP is always passed to Plus-TCP; with `eIPTaskEvents`,
frames that arrive before and after a TSN socket is listed take different ways
and can change places, so `FIFODelivery` holds for that policy only when
sockets are bound before traffic.

## Proofs

`TSNController_proofs`: for every hierarchy, number of tasks and packets and
capacity (`QueueAssumption`, `ControllerAssumption`), type correctness, then
two inductive invariants. `WakeupInv`: a leaf the walk has passed has packets
only if some push to it has yet to notify, a notification is pending, or the
leaf is deferred; it carries `NoLostWakeup` through the walk. `WalkInv`: the
packets seen at the start of a walk stay where they are until the controller
itself pops, so earlier leaves seen with packets must be deferred, and the
selected queue is not empty; it gives `HighestWaitingFirst` and
`PopFindsPacket`.

`QueueSelection` holds its own proof: the chosen queue is the best of the
positions visited so far. `CreditBasedScheduler_proofs`: the next activation is
never earlier than the start of the window plus all that was charged in it,
minus the credit. `TimedController_proofs`: each step of the controller with a
clock is a step of `TSNController` or leaves its variables alone, so its
theorems carry over. `CoverInv` gives `SleepCovers`: unless it was missed, the
wakeup is in the future and no later than any deferred activation until it is
read (`RequestsCovered`); from then on the time to sleep, counted from the
reading, ends no later than that (`SleepIsShort`), and it is short because the
first reading found it so (`CompareRead`). `WaitInv` bounds the ticks lost by
those since the reading.

`UDPReception_proofs`: for every set of sockets, buffers and headers, every
capacity and every choice of calls (`ReceptionAssumption`), type correctness,
strengthened by `Shape` (a task holds a buffer exactly in the states that say
so). Then
`ReceptionOneOwner`, from `OwnerInv`: each buffer has a place, the places hold
exactly the buffers that have them as their place, and no queue or list holds a
buffer twice. Each step moves one buffer to another place (lemma `Moved`), none
(`Stays`), or, when a socket is closed, those of one list to the pool. Lemmas
such as `QueueGrows` and `WaitsShrink` say what `Append` and `Tail` do to the
set of buffers of a queue.

`ReceptionRecvFindsHeader` says when a reader finds the header of a packet. It
follows from `HeaderInv`: every place a buffer can be in holds it as the code
there expects it; an item of the queue for a TSN socket carries a header built
for its buffer, or its buffer is among those short of memory (`Lacking`); a
packet that is delivered or waits at a socket has an allocated header in place
of its memory; and every other buffer owns its memory. It assumes that sockets
are neither bound nor closed while frames arrive (`Calls = {}`), and is false
otherwise: `ReceptionBind` and `ReceptionClose` show headers missing after
`bind` and `close` with frames on their way. From `HeaderInv` too, and again
without those calls: an assertion of `prvReceiveUDPPacketTSN()` fails only for a
frame that was short of memory (`ReceptionAssertions`), and a buffer that is
released owns its memory again (`ReceptionReverted`). `ReceptionFair` checks the
instance without the calls.

`ReceptionNoLeak` needs no such condition. Every allocated header is known to
somebody who will free it, the driver, the controller, an item of the queue, the
list of a socket or a receiving call, or was dropped in one of three places: an
insertion that fails, a frame whose socket has gone, a close with packets
waiting. `HeadersAccountedFor` is inductive with the shape of the state and the
owners of the buffers.

`UDPTransmission_proofs`: types, then `OneOwner` from the places a buffer can be
in, as in reception, for both values of `bReleaseAfterSend`: an item that is not
to be released only points to its buffer. Where a tag finds no room for such an
item the code releases a buffer that has another owner, and the model stops
there (`"fault"`). `OrderInv`: the frames of a task in buffers that are given
away keep the order in which they were numbered while they are held, queued, in
the controller's hand and on the wire, which gives `WireInOrder`; `StampInv`, the time stamps a socket has and
will receive are in order and none is later than the last frame stamped, which
gives `StampsInOrder`.

`Timebase_proofs`: for every width of the seconds and length of a second.
`Exact` is inductive with the types; each function is a lemma about its fields
(`Value` of a sum, a difference, a step of a division), with the carry and the
borrow as cases. `DivLosesLittle` follows from an invariant of the loop: what is
lost so far is at most what the steps taken can lose. `CmpOrders` rests on
`Lexicographic`: for normal time stamps the order of the fields is that of the
values.

`Units_proofs` has the parts that `MCUnits` checks each by itself.

- `Datagrams` (`DatagramsAssumption`: an MTU that the length of an IP packet can
  say): a frame that passes the test of the MTU has a payload that the cut to 16
  bits leaves alone, so its lengths agree; `recvmsg()` copies from the start of
  the payload exactly what fits of it and of 8 bytes more.
- `ControlMessages` (`ControlAssumption`). `LeakInv` says which phase holds what
  memory, and that a header freed alone has no field left. `PlaceInv` says where
  the messages written so far lie in the buffer: each at the aligned end of the
  one before it (lemma `Aligned`), so the walk of the reader, which computes the
  same places, finds all that fit and nothing else.
- `Frames` (`FramesAssumption`): a frame has no, one or two tags (`FramesInv`),
  and in each shape the functions of the class look at the word behind the type,
  so inserting and stripping tags and setting the class leave all other words
  alone; with a type that was read from the frame, or that the stack happens to
  hold, the class is that of the packet. What is written past the frame is what
  the last `memmove()` moved too much.
- `BoundSockets` (`BoundSocketsAssumption`): readers walk the list of sockets
  pointer by pointer while a task binds and closes. `ListInv` describes the list
  between the two stores of an insertion or a removal. `RankInv` numbers the
  sockets in order of insertion: links lead to higher ranks, and a reader that
  has not passed the rank of a socket will reach it, which gives
  `SearchFindsBound`. It assumes `OneTask`: the walk is not protected, nor is the
  list against two writers, and `BoundRace` shows the list broken by two tasks.
- `SchedulerTree` (`LayoutsAssumption`): trees of any shape. The assumption is
  what the template asks of its author and no call checks: `CorrectlyLinked`,
  handles are used after they were created, every node is given a queue or all
  of its children, of which there are at most 255, and a CBS node a queue;
  `AsDrawn`, the drawing shows the accepted links. TLC
  evaluates both for the two configurations of `MCUnits`. `TreeInv` says that
  the nodes have what the calls so far gave them, so once all calls are done a
  node without a queue has no place left empty, and that the select functions
  under way are those of such nodes; it gives `NoNullNode`. `BuiltInv` says that
  every link comes from a call, so the drawing shows it. `ServeInv` follows the
  recursion: each select function on the stack was called by the one below it
  (`Chained`), every queue drawn below a child it tried before may be passed over
  (`Tried`), and what a node returns is right for the queues drawn below that
  node (`RightBelow`); lemma `RightAbove` carries it from a child to its parent.
  An insertion only adds reasons to pass over (`MoreWaiting`). At the root this
  is `ServesAsDrawn`. The induction is over the steps of the walk, not over the
  tree.

The proofs also corrected the models: where guards of a `CASE` overlap, its value
is any of those that apply, and TLC takes the first; such expressions became
`IF`s in the order of the code.

Only model-checked: liveness (`EveryQueueServed`, `EveryFrameReceived`,
`BuffersReturn`), which needs fairness and enabledness; the refinement of
`DatagramService`, whose mapping selects with `SelectSeq` the packets of a socket
from a queue, so that each step needs an induction over that sequence; and the
runs that expect a violation.

## Not modelled, and what is left

1. Theorems: the refinement of `DatagramService`, with the packets of a socket as
   a function of their place in the queue instead of `SelectSeq`.
2. An abstract priority server that `TSNController` and `SchedulerTree` both
   implement; liveness of shaped queues with a relative clock.
3. `FREERTOS_MSG_PEEK`, options passed on to the base socket, two receivers of
   one socket, the wrap of the tick count, and widths in the arithmetic of the
   shaper.

Left aside: `configUSE`-style options that do not compile as they are
(`tsnconfigINCLUDE_QUEUE_EVENT_CALLBACKS` uses a field `pvData` that the item
does not have, `tsnconfigSOCKET_INSERTS_VLAN_TAGS` a variable `ucTagsSize` that
is not declared), debug dumps, IPv6 (marked to be completed), and the user's
templates.

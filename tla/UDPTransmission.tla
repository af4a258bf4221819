--------------------------- MODULE UDPTransmission ---------------------------
(***************************************************************************)
(* Transmission over TSN sockets and the time stamps of sent frames:       *)
(* sendto(), setsockopt() and recvmsg( MSG_ERRQUEUE ) of                   *)
(* FreeRTOS_TSN_Sockets.c, and both sides of the wrapper's output          *)
(* function, as each task calls it.  One network queue carries the frames. *)
(* The DS class and the tags of a frame are in module Frames, the contents *)
(* of a message header in module ControlMessages.                          *)
(***************************************************************************)
EXTENDS Integers, Sequences

CONSTANTS
    Sock,        \* TSN sockets, each with its own port and task
    Buf,         \* network buffer descriptors
    NoBuf,
    IPTask,      \* stands for the IP task where a socket could
    QLen,        \* length of the network queue
    ErrLen,      \* tsnconfigERRQUEUE_LENGTH
    MaxSends     \* bound on the frames of each task

ASSUME TransmissionAssumption ==
    /\ NoBuf \notin Buf
    /\ IPTask \notin Sock
    /\ QLen \in Nat \ {0}
    /\ ErrLen \in Nat \ {0}
    /\ MaxSends \in [Sock \cup {IPTask} -> Nat]

VARIABLES
    sock,           \* whether each socket is created and bound
    ulTSFlags,      \* whether SOF_TIMESTAMPING_TX_SOFTWARE is set
    xErrQueue,      \* headers waiting in each error queue, see got
    usBoundPort,    \* of each buffer; a port is named for its socket
    frame,          \* history: the frame each buffer is to carry
    held,           \* the buffer each task is sending
    sends,          \* calls started by each task
    free,           \* buffers in the pool
    queue,          \* items of the network queue: pxBuf, xReleaseAfterSend
    kept,           \* buffers the IP task keeps, queued or not
    mac,            \* buffers the MAC has to release
    lost,           \* buffers that nothing refers to any more
    ctl,            \* the controller: step, item, socket found, stamp taken
    wire,           \* history: the frames the MAC accepted, and whether it
                    \* released their buffers
    got             \* history: the headers each socket received, as the
                    \* index on the wire of the frame they were made for

sockets == <<sock, ulTSFlags>>
vars == <<sock, ulTSFlags, xErrQueue, usBoundPort, frame, held, sends,
          free, queue, kept, mac, lost, ctl, wire, got>>

Task == Sock \cup {IPTask}
Frame == [from : Task, k : Nat]
Item == [buf : Buf, release : BOOLEAN]
Sent == [from : Task, k : Nat, release : BOOLEAN]
Idle == [at |-> "pop", buf |-> NoBuf, release |-> TRUE, to |-> IPTask,
         stamp |-> 0]

NoFrame == [from |-> IPTask, k |-> 0]

\* No port: what usBoundPort holds in a frame of the IP stack.
NoPort == IPTask

TypeOK ==
    /\ sock \in [Sock -> {"none", "open", "bound", "orphan"}]
    /\ ulTSFlags \in [Sock -> BOOLEAN]
    /\ xErrQueue \in [Sock -> Seq(Nat)]
    /\ usBoundPort \in [Buf -> Task]
    /\ frame \in [Buf -> Frame]
    /\ held \in [Task -> Buf \cup {NoBuf}]
    /\ sends \in [Task -> Nat]
    /\ free \subseteq Buf /\ kept \subseteq Buf
    /\ mac \subseteq Buf /\ lost \subseteq Buf
    /\ queue \in Seq(Item)
    /\ ctl \in [at : {"pop", "output", "lookup", "fill", "insert", "fault"},
                buf : Buf \cup {NoBuf}, release : BOOLEAN, to : Task,
                stamp : Nat]
    /\ wire \in Seq(Sent)
    /\ got \in [Sock -> Seq(Nat)]

Init ==
    /\ sock = [s \in Sock |-> "none"]
    /\ ulTSFlags = [s \in Sock |-> FALSE]
    /\ xErrQueue = [s \in Sock |-> <<>>]
    /\ usBoundPort = [b \in Buf |-> NoPort]
    /\ frame = [b \in Buf |-> NoFrame]
    /\ held = [t \in Task |-> NoBuf]
    /\ sends = [t \in Task |-> 0]
    /\ free = Buf
    /\ queue = <<>>
    /\ kept = {}
    /\ mac = {}
    /\ lost = {}
    /\ ctl = Idle
    /\ wire = <<>>
    /\ got = [s \in Sock |-> <<>>]
-----------------------------------------------------------------------------
(***************************************************************************)
(* Sockets.                                                                *)
(***************************************************************************)

\* FreeRTOS_TSN_socket(): the memory is not cleared, so the flags are
\* anything.  Without memory for the error queue the base socket is orphaned.
FreeRTOS_TSN_socket(s, flags, ok) ==
    /\ sock[s] = "none"
    /\ sock' = [sock EXCEPT ![s] = IF ok THEN "open" ELSE "orphan"]
    /\ ulTSFlags' = [ulTSFlags EXCEPT ![s] = flags]
    /\ UNCHANGED <<xErrQueue, usBoundPort, frame, held, sends, free,
                   queue, kept, mac, lost, ctl, wire, got>>

FreeRTOS_TSN_bind(s) ==
    /\ sock[s] = "open"
    /\ sock' = [sock EXCEPT ![s] = "bound"]
    /\ UNCHANGED <<ulTSFlags, xErrQueue, usBoundPort, frame, held, sends,
                   free, queue, kept, mac, lost, ctl, wire, got>>

\* FREERTOS_SO_TIMESTAMPING with a legal value: the reset drops the headers
\* in the queue, which nobody frees.
FreeRTOS_TSN_setsockopt(s, flags) ==
    /\ sock[s] \in {"open", "bound"}
    /\ held[s] = NoBuf
    /\ xErrQueue' = [xErrQueue EXCEPT ![s] = <<>>]
    /\ ulTSFlags' = [ulTSFlags EXCEPT ![s] = flags]
    /\ UNCHANGED <<sock, usBoundPort, frame, held, sends, free, queue,
                   kept, mac, lost, ctl, wire, got>>

\* FreeRTOS_TSN_recvmsg() with FREERTOS_MSG_ERRQUEUE, which does not wait.
RecvErrQueue(s) ==
    /\ sock[s] = "bound"
    /\ held[s] = NoBuf
    /\ xErrQueue[s] # <<>>
    /\ got' = [got EXCEPT ![s] = Append(@, Head(xErrQueue[s]))]
    /\ xErrQueue' = [xErrQueue EXCEPT ![s] = Tail(@)]
    /\ UNCHANGED <<sock, ulTSFlags, usBoundPort, frame, held, sends, free,
                   queue, kept, mac, lost, ctl, wire>>
-----------------------------------------------------------------------------
(***************************************************************************)
(* Sending: sendto() by the task of a socket, and the output function of   *)
(* the interface called by the IP task.                                    *)
(***************************************************************************)

\* vReleaseNetworkBufferAndDescriptor() (external); the port is not cleared.
Release(b) ==
    /\ free' = free \cup {b}
    /\ frame' = [frame EXCEPT ![b] = NoFrame]

\* The buffer is allocated and its headers are written.
Allocate(t, b) ==
    /\ held[t] = NoBuf
    /\ sends[t] < MaxSends[t]
    /\ b \in free
    /\ t \in Sock => sock[t] = "bound"
    /\ free' = free \ {b}
    /\ held' = [held EXCEPT ![t] = b]
    /\ sends' = [sends EXCEPT ![t] = @ + 1]
    /\ usBoundPort' = [usBoundPort EXCEPT ![b] = t]
    /\ frame' = [frame EXCEPT ![b] = [from |-> t, k |-> sends[t] + 1]]
    /\ UNCHANGED <<sock, ulTSFlags, xErrQueue, queue, kept, mac, lost, ctl,
                   wire, got>>

\* Mutant of SendFails: the buffer is forgotten before it is released.
SendFailsForgets(s) ==
    /\ held[s] # NoBuf
    /\ held' = [held EXCEPT ![s] = NoBuf]
    /\ Release(held'[s])
    /\ UNCHANGED <<sock, ulTSFlags, xErrQueue, usBoundPort, sends, queue, kept,
                   mac, lost, ctl, wire, got>>

\* The address is not in the ARP cache, or an IPv6 one; the payload is too
\* long; the time has run out, before or in the insertion.
SendFails(s) ==
    /\ held[s] # NoBuf
    /\ Release(held[s])
    /\ held' = [held EXCEPT ![s] = NoBuf]
    /\ UNCHANGED <<sock, ulTSFlags, xErrQueue, usBoundPort, sends, queue, kept,
                   mac, lost, ctl, wire, got>>

\* Mutant of Enqueue: the item overtakes the others.
EnqueueFirst(b, release) ==
    queue' = <<[buf |-> b, release |-> release]>> \o queue

Enqueue(b, release) ==
    queue' = Append(queue, [buf |-> b, release |-> release])

\* sendto() always asks for a release after sending.  The IP task may not:
\* then the buffer stays its own and the item only points to it.
Insert(t, release) ==
    /\ held[t] # NoBuf
    /\ t \in Sock => release
    /\ Len(queue) < QLen
    /\ Enqueue(held[t], release)
    /\ held' = [held EXCEPT ![t] = NoBuf]
    /\ kept' = IF release THEN kept ELSE kept \cup {held[t]}
    /\ UNCHANGED <<sock, ulTSFlags, xErrQueue, usBoundPort, frame, sends, free,
                   mac, lost, ctl, wire, got>>

\* When the wrapper cannot insert the item, nobody releases the buffer for
\* an IP task that asked for it.
IPTaskInsertFails(release) ==
    /\ held[IPTask] # NoBuf
    /\ IF release THEN lost' = lost \cup {held[IPTask]} /\ kept' = kept
       ELSE kept' = kept \cup {held[IPTask]} /\ lost' = lost
    /\ held' = [held EXCEPT ![IPTask] = NoBuf]
    /\ UNCHANGED <<sock, ulTSFlags, xErrQueue, usBoundPort, frame, sends, free,
                   queue, mac, ctl, wire, got>>

\* The IP task releases a buffer that it kept, at any time (external).
KeeperReleases(b) ==
    /\ b \in kept
    /\ kept' = kept \ {b}
    /\ Release(b)
    /\ UNCHANGED <<sock, ulTSFlags, xErrQueue, usBoundPort, held, sends, queue,
                   mac, lost, ctl, wire, got>>

\* The IP task makes its next frame in a buffer that it kept (external).
KeeperSends(b) ==
    /\ b \in kept
    /\ held[IPTask] = NoBuf
    /\ sends[IPTask] < MaxSends[IPTask]
    /\ kept' = kept \ {b}
    /\ held' = [held EXCEPT ![IPTask] = b]
    /\ sends' = [sends EXCEPT ![IPTask] = @ + 1]
    /\ frame' = [frame EXCEPT ![b] = [from |-> IPTask, k |-> sends[IPTask] + 1]]
    /\ UNCHANGED <<sock, ulTSFlags, xErrQueue, usBoundPort, free, queue, mac,
                   lost, ctl, wire, got>>
-----------------------------------------------------------------------------
(***************************************************************************)
(* The controller, in the wrapper's output function.                       *)
(***************************************************************************)
Controller(next) ==
    /\ ctl' = next
    /\ UNCHANGED <<sock, ulTSFlags, usBoundPort, held, sends, lost, got>>

\* What the controller goes on with.
Taken(item) == [at |-> "output", buf |-> item.buf, release |-> item.release,
                to |-> IPTask, stamp |-> 0]

\* Mutant of PopItem: the last item is left in the queue.
PopAllButOne ==
    /\ ctl.at = "pop"
    /\ Len(queue) > 1
    /\ Controller(Taken(Head(queue)))
    /\ queue' = Tail(queue)
    /\ UNCHANGED <<xErrQueue, frame, free, kept, mac, wire>>

PopItem ==
    /\ ctl.at = "pop"
    /\ queue # <<>>
    /\ Controller(Taken(Head(queue)))
    /\ queue' = Tail(queue)
    /\ UNCHANGED <<xErrQueue, frame, free, kept, mac, wire>>

\* prvInsertVLANTag() finds no room for a tag of the interface and releases
\* the buffer without a look at bReleaseAfterSend.  When it was not to be
\* released, it belongs to the IP task, or to whoever has it by now: it has
\* two owners from here on, and the model stops.
NoRoomForTag ==
    /\ ctl.at = "output"
    /\ Release(ctl.buf)
    /\ Controller(IF ctl.release THEN Idle ELSE [ctl EXCEPT !.at = "fault"])
    /\ UNCHANGED <<xErrQueue, queue, kept, mac, wire>>

\* The MAC refuses the frame; it releases what it was asked to (external).
OutputFails ==
    /\ ctl.at = "output"
    /\ IF ctl.release THEN Release(ctl.buf) ELSE UNCHANGED <<free, frame>>
    /\ Controller(Idle)
    /\ UNCHANGED <<xErrQueue, queue, kept, mac, wire>>

\* The frame goes out with what the buffer carries by now.
Passed == [from |-> frame[ctl.buf].from, k |-> frame[ctl.buf].k,
           release |-> ctl.release]

\* Mutant of Output: every buffer is given away, a kept one too.
OutputAlways ==
    /\ ctl.at = "output"
    /\ mac' = mac \cup {ctl.buf}
    /\ wire' = Append(wire, Passed)
    /\ Controller([ctl EXCEPT !.at = "lookup", !.stamp = Len(wire) + 1])
    /\ UNCHANGED <<xErrQueue, frame, free, kept, queue>>

\* xMAC_NetworkInterfaceOutput(): with the flag the buffer is the MAC's from
\* here on, without it the MAC takes a copy.
Output ==
    /\ ctl.at = "output"
    /\ mac' = IF ctl.release THEN mac \cup {ctl.buf} ELSE mac
    /\ wire' = Append(wire, Passed)
    /\ Controller([ctl EXCEPT !.at = "lookup", !.stamp = Len(wire) + 1])
    /\ UNCHANGED <<xErrQueue, frame, free, kept, queue>>

\* vSocketFromPort() with the port the buffer has now.
Lookup ==
    /\ ctl.at = "lookup"
    /\ LET s == usBoundPort[ctl.buf]
       IN  Controller(IF s \in Sock THEN [ctl EXCEPT !.at = "fill", !.to = s]
                      ELSE Idle)
    /\ UNCHANGED <<xErrQueue, frame, free, kept, queue, mac, wire>>

\* prvAncillaryMsgControlFillForTx(), which takes the time stamp; without the
\* flag, or without memory, there is no header.
Fill(ok) ==
    /\ ctl.at = "fill"
    /\ Controller(IF ok /\ ulTSFlags[ctl.to] THEN [ctl EXCEPT !.at = "insert"]
                  ELSE Idle)
    /\ UNCHANGED <<xErrQueue, frame, free, kept, queue, mac, wire>>

\* Mutant of ErrorQueueInsert: an insertion that failed is tried again, but
\* the first had not.
InsertTwice(s, h) == Append(Append(xErrQueue[s], h), h)

\* xSocketErrorQueueInsert(): the header is lost when the queue is full.
ErrorQueueInsert(s, h) ==
    IF Len(xErrQueue[s]) < ErrLen THEN Append(xErrQueue[s], h) ELSE xErrQueue[s]

InsertHeader ==
    /\ ctl.at = "insert"
    /\ xErrQueue' = [xErrQueue EXCEPT ![ctl.to] =
                       ErrorQueueInsert(ctl.to, ctl.stamp)]
    /\ Controller(Idle)
    /\ UNCHANGED <<frame, free, kept, queue, mac, wire>>

\* The MAC has copied or sent the frame (external).
MACReleases(b) ==
    /\ b \in mac
    /\ mac' = mac \ {b}
    /\ Release(b)
    /\ UNCHANGED <<sock, ulTSFlags, xErrQueue, usBoundPort, held, sends, queue,
                   kept, lost, ctl, wire, got>>
-----------------------------------------------------------------------------
SocketCalls(s) ==
    \/ \E flags, ok \in BOOLEAN : FreeRTOS_TSN_socket(s, flags, ok)
    \/ FreeRTOS_TSN_bind(s)
    \/ \E flags \in BOOLEAN : FreeRTOS_TSN_setsockopt(s, flags)
    \/ RecvErrQueue(s)

Sending(t) ==
    \/ \E release \in BOOLEAN : Insert(t, release)
    \/ t \in Sock /\ SendFails(t)
    \/ t = IPTask /\ \E release \in BOOLEAN : IPTaskInsertFails(release)

Transmit ==
    \/ PopItem
    \/ NoRoomForTag
    \/ OutputFails
    \/ Output
    \/ Lookup
    \/ \E ok \in BOOLEAN : Fill(ok)
    \/ InsertHeader

Next ==
    /\ ctl.at # "fault"
    /\ \/ \E s \in Sock : SocketCalls(s)
       \/ \E t \in Task : Sending(t) \/ \E b \in Buf : Allocate(t, b)
       \/ \E b \in Buf : KeeperReleases(b) \/ KeeperSends(b)
       \/ Transmit
       \/ \E b \in Buf : MACReleases(b)

Spec == Init /\ [][Next]_vars

\* A task that has started a call goes on with it, the controller is not kept
\* from running for ever, and the MAC sends what it accepted.
Fairness ==
    /\ \A t \in Task : WF_vars(Sending(t))
    /\ WF_vars(Transmit)
    /\ \A b \in Buf : WF_vars(MACReleases(b))

FairSpec == Spec /\ Fairness
-----------------------------------------------------------------------------
Held(b) == \E t \in Task : held[t] = b
Queued(b) == \E i \in DOMAIN queue : queue[i].buf = b /\ queue[i].release
AtController(b) == ctl.at = "output" /\ ctl.buf = b /\ ctl.release

SingleOwners ==
    /\ \A b \in Buf :
          /\ \/ Held(b) \/ Queued(b) \/ AtController(b)
             \/ b \in free \cup kept \cup mac \cup lost
          /\ Held(b) => ~Queued(b) /\ ~AtController(b)
                         /\ b \notin free \cup kept \cup mac \cup lost
          /\ Queued(b) => ~AtController(b)
                           /\ b \notin free \cup kept \cup mac \cup lost
          /\ AtController(b) => b \notin free \cup kept \cup mac \cup lost
          /\ b \in free => b \notin kept \cup mac \cup lost
          /\ b \in kept => b \notin mac \cup lost
          /\ b \in mac => b \notin lost
    /\ \A t, u \in Task : held[t] = held[u] /\ held[t] # NoBuf => t = u
    /\ \A i, j \in DOMAIN queue :
          /\ queue[i].release /\ queue[j].release
          /\ queue[i].buf = queue[j].buf
          => i = j

(***************************************************************************)
(* On every path, the failing ones included, a buffer has exactly one      *)
(* owner: the pool, a task, the IP task that keeps it, the MAC, or an item *)
(* that is to be released after sending; none is released twice or while   *)
(* another has it.  It holds until a tag finds no room in a buffer that is *)
(* not to be released (Sockets.c:663-722, NetworkWrapper.c:80-84, 289-374).*)
(***************************************************************************)
OneOwner == ctl.at # "fault" => SingleOwners

(***************************************************************************)
(* The frames whose buffers are given away go out in the order each task   *)
(* sent them, each at most once, however the tasks interleave.  A buffer   *)
(* that the IP task keeps may be filled anew, by another task even, while  *)
(* an item still points to it (Sockets.c:704-716, NetworkWrapper.c:371).   *)
(***************************************************************************)
WireInOrder ==
    \A i, j \in DOMAIN wire :
        i < j /\ wire[i].release /\ wire[j].release
          /\ wire[i].from = wire[j].from
        => wire[i].k < wire[j].k

(***************************************************************************)
(* Headers reach a socket in the order in which the frames they stamp went *)
(* out, and no frame is stamped twice, for one socket or for two           *)
(* (NetworkWrapper.c:330-357, Sockets.c:45-51, 776-783).                   *)
(***************************************************************************)
Stamps(s) == got[s] \o xErrQueue[s]

StampsInOrder ==
    \A s \in Sock :
        /\ \A i, j \in DOMAIN Stamps(s) : i < j => Stamps(s)[i] < Stamps(s)[j]
        /\ \A i \in DOMAIN Stamps(s) : Stamps(s)[i] \in DOMAIN wire
        /\ \A r \in Sock \ {s}, i \in DOMAIN Stamps(s) :
              \A j \in DOMAIN Stamps(r) : Stamps(s)[i] # Stamps(r)[j]

(***************************************************************************)
(* A buffer taken from the pool comes back, or is kept by the IP task, or  *)
(* was lost by its failing output: no socket, queue or MAC keeps it        *)
(* (Sockets.c:663-722, NetworkWrapper.c:371-374).                          *)
(***************************************************************************)
BuffersReturn ==
    \A b \in Buf :
        (b \notin free) ~> (b \in free \cup kept \cup lost \/ ctl.at = "fault")

(***************************************************************************)
(* xErrQueue will "Contain errqueue with ancillary msgs" of its socket     *)
(* (FreeRTOS_TSN_Sockets.h:86): a header says that a frame of the socket   *)
(* was passed on.  Said of the frames whose buffers the MAC releases.      *)
(***************************************************************************)
StampsOwnFrames ==
    \A s \in Sock : \A i \in DOMAIN Stamps(s) :
        wire[Stamps(s)[i]].release => wire[Stamps(s)[i]].from = s
=============================================================================

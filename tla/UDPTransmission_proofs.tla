----------------------- MODULE UDPTransmission_proofs -----------------------
(***************************************************************************)
(* Proofs about UDPTransmission for every set of sockets and buffers, any  *)
(* lengths of the queues and any number of frames.                         *)
(***************************************************************************)
EXTENDS UDPTransmission, SequenceTheorems, TLAPS

\* What the control state of the controller says about its variables.
Shape ==
    /\ ctl.at # "pop" => ctl.buf \in Buf
    /\ ctl.at \in {"fill", "insert"} => ctl.to \in Sock
    /\ ctl.at \in {"lookup", "fill", "insert"} =>
          ctl.stamp = Len(wire) /\ wire # <<>>

WellFormed == TypeOK /\ Shape

LEMMA HeadTail ==
    ASSUME NEW S, NEW q \in Seq(S), q # <<>>
    PROVE  /\ Head(q) \in S
           /\ Head(q) = q[1]
           /\ Tail(q) \in Seq(S)
           /\ Len(q) \in Nat \ {0}
           /\ Len(Tail(q)) = Len(q) - 1
           /\ \A k \in 1..Len(Tail(q)) : Tail(q)[k] = q[k + 1]
  BY HeadTailProperties, LenProperties, EmptySeq

LEMMA Appended ==
    ASSUME NEW S, NEW q \in Seq(S), NEW x \in S
    PROVE  /\ Append(q, x) \in Seq(S)
           /\ Len(q) \in Nat
           /\ Len(Append(q, x)) = Len(q) + 1
           /\ \A k \in 1..Len(q) : Append(q, x)[k] = q[k]
           /\ Append(q, x)[Len(q) + 1] = x
  BY AppendProperties, LenProperties

LEMMA InitWellFormed == Init => WellFormed
<1> SUFFICES ASSUME Init PROVE WellFormed
  OBVIOUS
<1>1. <<>> \in Seq(Nat) /\ <<>> \in Seq(Item) /\ <<>> \in Seq(Sent)
  BY EmptySeq
<1> QED
  BY <1>1, TransmissionAssumption
  DEF Init, WellFormed, TypeOK, Shape, Idle, Task, Frame, NoFrame, NoPort

LEMMA SocketCallsWellFormed ==
    ASSUME WellFormed, NEW s \in Sock, SocketCalls(s)
    PROVE  WellFormed'
<1> USE DEF WellFormed, TypeOK, Shape
<1>1. ASSUME NEW flags \in BOOLEAN, NEW ok \in BOOLEAN,
             FreeRTOS_TSN_socket(s, flags, ok)
      PROVE  WellFormed'
  BY <1>1 DEF FreeRTOS_TSN_socket
<1>2. CASE FreeRTOS_TSN_bind(s)
  BY <1>2 DEF FreeRTOS_TSN_bind
<1>3. ASSUME NEW flags \in BOOLEAN, FreeRTOS_TSN_setsockopt(s, flags)
      PROVE  WellFormed'
  <2>1. <<>> \in Seq(Nat)
    BY EmptySeq
  <2> QED
    BY <1>3, <2>1 DEF FreeRTOS_TSN_setsockopt
<1>4. CASE RecvErrQueue(s)
  <2>1. xErrQueue[s] \in Seq(Nat) /\ xErrQueue[s] # <<>> /\ got[s] \in Seq(Nat)
    BY <1>4 DEF RecvErrQueue
  <2>2. Head(xErrQueue[s]) \in Nat /\ Tail(xErrQueue[s]) \in Seq(Nat)
    BY <2>1, HeadTail
  <2>3. Append(got[s], Head(xErrQueue[s])) \in Seq(Nat)
    BY <2>1, <2>2, Appended
  <2> QED
    BY <1>4, <2>2, <2>3 DEF RecvErrQueue
<1> QED
  BY <1>1, <1>2, <1>3, <1>4 DEF SocketCalls

LEMMA SendingWellFormed ==
    ASSUME WellFormed, NEW t \in Task, Sending(t)
    PROVE  WellFormed'
<1> USE TransmissionAssumption DEF WellFormed, TypeOK, Shape
<1>1. ASSUME NEW release \in BOOLEAN, Insert(t, release)
      PROVE  WellFormed'
  <2> DEFINE item == [buf |-> held[t], release |-> release]
  <2>1. held[t] \in Buf /\ queue \in Seq(Item) /\ item \in Item
    BY <1>1 DEF Insert, Item
  <2>2. Append(queue, item) \in Seq(Item)
    BY <2>1, Appended
  <2> HIDE DEF item
  <2>3. queue' \in Seq(Item)
    BY <1>1, <2>2 DEF Insert, Enqueue, item
  <2>4. kept' \subseteq Buf
    BY <1>1, <2>1 DEF Insert
  <2> QED
    BY <1>1, <2>3, <2>4 DEF Insert
<1>2. CASE t \in Sock /\ SendFails(t)
  BY <1>2, SMTT(30) DEF SendFails, Release, NoFrame, Frame, Task
<1>3. ASSUME NEW release \in BOOLEAN, t = IPTask, IPTaskInsertFails(release)
      PROVE  WellFormed'
  BY <1>3 DEF IPTaskInsertFails
<1> QED
  BY <1>1, <1>2, <1>3 DEF Sending

LEMMA KeeperWellFormed ==
    ASSUME WellFormed, NEW b \in Buf, KeeperReleases(b) \/ KeeperSends(b)
    PROVE  WellFormed'
<1> USE TransmissionAssumption DEF WellFormed, TypeOK, Shape
<1>1. CASE KeeperReleases(b)
  BY <1>1, SMTT(30) DEF KeeperReleases, Release, NoFrame, Frame, Task
<1>2. CASE KeeperSends(b)
  BY <1>2, SMTT(30) DEF KeeperSends, Frame, Task
<1> QED
  BY <1>1, <1>2

LEMMA AllocateWellFormed ==
    ASSUME WellFormed, NEW t \in Task, NEW b \in Buf, Allocate(t, b)
    PROVE  WellFormed'
  BY TransmissionAssumption, SMTT(30)
  DEF WellFormed, TypeOK, Shape, Allocate, Frame

LEMMA TransmitWellFormed ==
    ASSUME WellFormed, Transmit
    PROVE  WellFormed'
<1> USE TransmissionAssumption
    DEF WellFormed, TypeOK, Shape, Controller, Idle, Task
<1>1. CASE PopItem
  <2>1. Head(queue) \in Item /\ Tail(queue) \in Seq(Item)
    BY <1>1, HeadTail DEF PopItem
  <2>2. Taken(Head(queue)) \in [at : {"output"}, buf : Buf, release : BOOLEAN,
                                to : Task, stamp : {0}]
    <3>1. Head(queue).buf \in Buf /\ Head(queue).release \in BOOLEAN
      BY <2>1 DEF Item
    <3> QED
      BY <3>1, Zenon DEF Taken, Task
  <2>3. ctl' = Taken(Head(queue)) /\ queue' = Tail(queue)
        /\ UNCHANGED <<sock, ulTSFlags, xErrQueue, usBoundPort, frame, held,
                       sends, free, kept, mac, lost, wire, got>>
    BY <1>1 DEF PopItem
  <2>4. ctl'.at = "output" /\ ctl'.buf \in Buf
        /\ ctl' \in [at : {"pop", "output", "lookup", "fill", "insert", "fault"},
                     buf : Buf \cup {NoBuf}, release : BOOLEAN, to : Task,
                     stamp : Nat]
    BY <2>2, <2>3
  <2> HIDE DEF Shape
  <2>5. Shape'
    BY <2>4 DEF Shape
  <2> QED
    BY <2>1, <2>3, <2>4, <2>5
<1>7. ASSUME ctl.at = "output",
             ctl' = Idle \/ ctl' = [ctl EXCEPT !.at = "fault"],
             Release(ctl.buf) \/ UNCHANGED <<free, frame>>,
             UNCHANGED <<sock, ulTSFlags, xErrQueue, usBoundPort, held, sends,
                         queue, kept, mac, lost, wire, got>>
      PROVE  WellFormed'
  <2>1. ctl.buf \in Buf
    BY <1>7
  <2>2. free' \subseteq Buf /\ frame' \in [Buf -> Frame]
    <3>1. CASE Release(ctl.buf)
      BY <2>1, <3>1 DEF Release, NoFrame, Frame
    <3>2. CASE UNCHANGED <<free, frame>>
      BY <3>2
    <3> QED
      BY <1>7, <3>1, <3>2
  <2>3. CASE ctl' = Idle
    <3>1. ctl'.at = "pop" /\ ctl' \in [at : {"pop"}, buf : {NoBuf},
             release : {TRUE}, to : Task, stamp : {0}]
      BY <2>3
    <3>2. ctl' \in [at : {"pop", "output", "lookup", "fill", "insert", "fault"},
                    buf : Buf \cup {NoBuf}, release : BOOLEAN, to : Task,
                    stamp : Nat]
      BY <2>3
    <3>3. Shape'
      BY <3>1
    <3> QED
      BY <1>7, <2>2, <3>2, <3>3
  <2>4. CASE ctl' = [ctl EXCEPT !.at = "fault"]
    BY <1>7, <2>1, <2>2, <2>4
  <2> QED
    BY <1>7, <2>3, <2>4
<1>2. CASE OutputFails \/ NoRoomForTag
  BY <1>2, <1>7 DEF OutputFails, NoRoomForTag
<1>3. CASE Output
  <2>1. wire \in Seq(Sent) /\ Passed \in Sent
    BY <1>3 DEF Output, Passed, Sent, Frame
  <2>2. wire' \in Seq(Sent) /\ Len(wire) \in Nat /\ Len(wire') = Len(wire) + 1
    BY <1>3, <2>1, Appended DEF Output
  <2>3. /\ ctl' \in [at : {"lookup"}, buf : Buf, release : BOOLEAN,
                     to : Task, stamp : Nat]
        /\ ctl'.at = "lookup" /\ ctl'.buf = ctl.buf
        /\ ctl'.stamp = Len(wire) + 1 /\ ctl.buf \in Buf
    <3>1. /\ ctl' = [ctl EXCEPT !.at = "lookup", !.stamp = Len(wire) + 1]
          /\ Len(wire) + 1 \in Nat /\ ctl.buf \in Buf
      BY <1>3, <2>2 DEF Output
    <3> QED
      BY <3>1
  <2>4. mac' \subseteq Buf
    BY <1>3, <2>3 DEF Output
  <2>5. UNCHANGED <<sock, ulTSFlags, xErrQueue, usBoundPort, frame, held,
                    sends, free, kept, lost, queue, got>>
    BY <1>3 DEF Output
  <2> QED
    BY <2>2, <2>3, <2>4, <2>5, SMTT(30)
<1>4. CASE Lookup
  BY <1>4 DEF Lookup
<1>5. ASSUME NEW ok \in BOOLEAN, Fill(ok)
      PROVE  WellFormed'
  BY <1>5 DEF Fill
<1>6. CASE InsertHeader
  <2>1. xErrQueue[ctl.to] \in Seq(Nat) /\ ctl.stamp \in Nat
    BY <1>6 DEF InsertHeader
  <2>2. ErrorQueueInsert(ctl.to, ctl.stamp) \in Seq(Nat)
    BY <2>1, Appended DEF ErrorQueueInsert
  <2> QED
    BY <1>6, <2>2 DEF InsertHeader
<1> QED
  BY <1>1, <1>2, <1>3, <1>4, <1>5, <1>6, <1>7 DEF Transmit

LEMMA StepWellFormed == WellFormed /\ [Next]_vars => WellFormed'
<1> SUFFICES ASSUME WellFormed, [Next]_vars PROVE WellFormed'
  OBVIOUS
<1>1. ASSUME NEW b \in Buf, MACReleases(b)
      PROVE  WellFormed'
  BY <1>1, TransmissionAssumption
  DEF MACReleases, Release, WellFormed, TypeOK, Shape, NoFrame, Frame, Task
<1>2. CASE UNCHANGED vars
  BY <1>2 DEF vars, WellFormed, TypeOK, Shape
<1> QED
  BY <1>1, <1>2, SocketCallsWellFormed, SendingWellFormed,
     KeeperWellFormed, AllocateWellFormed, TransmitWellFormed DEF Next

(***************************************************************************)
(* Whatever the tasks, the controller and the MAC do, every pointer points *)
(* to a buffer and every header carries a stamp (Sockets.c:663-722,        *)
(* NetworkWrapper.c:330-374).                                              *)
(***************************************************************************)
THEOREM TransmissionTypeCorrect == Spec => []TypeOK
<1>1. WellFormed => TypeOK
  BY DEF WellFormed
<1> QED
  BY <1>1, InitWellFormed, StepWellFormed, PTL DEF Spec

-----------------------------------------------------------------------------
\* Ownership is inductive as it stands, with the shape of the state, until
\* the wrapper releases a buffer that the IP task keeps.
LEMMA Domain ==
    ASSUME NEW S, NEW q \in Seq(S)
    PROVE  DOMAIN q = 1..Len(q) /\ Len(q) \in Nat
  BY LenProperties

LEMMA InitSingleOwners == Init => SingleOwners
<1> SUFFICES ASSUME Init PROVE SingleOwners
  OBVIOUS
<1>1. \A b \in Buf : ~Held(b) /\ ~Queued(b) /\ ~AtController(b)
  BY TransmissionAssumption DEF Init, Held, Queued, AtController, Idle
<1> QED
  BY <1>1, TransmissionAssumption DEF Init, SingleOwners

\* What a step does that moves no buffer.
LEMMA NoBufferMoves ==
    ASSUME SingleOwners, UNCHANGED <<held, queue, free, kept, mac, lost>>,
           ctl' = ctl \/ (ctl.at # "output" /\ ctl'.at # "output")
    PROVE  SingleOwners'
  BY DEF SingleOwners, Held, Queued, AtController

LEMMA SocketCallsSingleOwners ==
    ASSUME SingleOwners, NEW s \in Sock, SocketCalls(s)
    PROVE  SingleOwners'
<1>1. UNCHANGED <<held, queue, free, kept, mac, lost, ctl>>
  BY DEF SocketCalls, FreeRTOS_TSN_socket, FreeRTOS_TSN_bind,
         FreeRTOS_TSN_setsockopt, RecvErrQueue
<1> QED
  BY <1>1, NoBufferMoves

LEMMA InsertSingleOwners ==
    ASSUME WellFormed, SingleOwners, NEW t \in Task,
           NEW release \in BOOLEAN, Insert(t, release)
    PROVE  SingleOwners'
<1> DEFINE n == Len(queue)
           item == [buf |-> held[t], release |-> release]
<1>1. /\ queue \in Seq(Item) /\ held[t] \in Buf /\ item \in Item
      /\ held \in [Task -> Buf \cup {NoBuf}]
  BY DEF WellFormed, TypeOK, Insert, Item
<1>0. item.buf = held[t] /\ item.release = release
  OBVIOUS
<1>00. queue' = Append(queue, item)
  BY DEF Insert, Enqueue
<1> HIDE DEF item
<1>2. /\ n \in Nat /\ DOMAIN queue = 1..n /\ DOMAIN queue' = 1..(n + 1)
      /\ \A k \in 1..n : queue'[k] = queue[k]
      /\ queue'[n + 1] = item
  BY <1>1, <1>00, Appended, Domain
<1>3. /\ held' = [held EXCEPT ![t] = NoBuf] /\ held[t] # NoBuf
      /\ kept' = IF release THEN kept ELSE kept \cup {held[t]}
      /\ UNCHANGED <<free, mac, lost, ctl>>
  BY DEF Insert
<1>4. \A b \in Buf : Held(b)' <=> Held(b) /\ b # held[t]
  BY <1>1, <1>3, TransmissionAssumption DEF Held, SingleOwners
<1>5. \A b \in Buf : Queued(b)' <=> Queued(b) \/ (b = held[t] /\ release)
  <2>1. 1..(n + 1) = 1..n \cup {n + 1}
    BY <1>2
  <2> QED
    BY <1>0, <1>2, <2>1 DEF Queued
<1>6. Held(held[t])
  BY DEF Held
<1>7. \A i, j \in DOMAIN queue' :
         /\ queue'[i].release /\ queue'[j].release
         /\ queue'[i].buf = queue'[j].buf
         => i = j
  <2> SUFFICES ASSUME NEW i \in 1..(n + 1), NEW j \in 1..(n + 1),
                      queue'[i].release, queue'[j].release,
                      queue'[i].buf = queue'[j].buf
               PROVE  i = j
    BY <1>2
  <2>1. \A k \in 1..n : queue[k].release => queue[k].buf # held[t]
    BY <1>1, <1>2, <1>6 DEF SingleOwners, Queued
  <2>2. (i \in 1..n \/ i = n + 1) /\ (j \in 1..n \/ j = n + 1)
    BY <1>2
  <2> QED
    BY <1>0, <1>2, <2>1, <2>2 DEF SingleOwners
<1>8. \A u, v \in Task : held'[u] = held'[v] /\ held'[u] # NoBuf => u = v
  BY <1>1, <1>3 DEF SingleOwners
<1>9. \A b \in Buf : AtController(b)' <=> AtController(b)
  BY <1>3 DEF AtController
<1> QED
  BY <1>1, <1>3, <1>4, <1>5, <1>6, <1>7, <1>8, <1>9 DEF SingleOwners

\* A buffer that changes hands outside the queue and the controller.
LEMMA SendingSingleOwners ==
    ASSUME WellFormed, SingleOwners, NEW t \in Task, Sending(t)
    PROVE  SingleOwners'
<1> USE TransmissionAssumption
<1>1. held \in [Task -> Buf \cup {NoBuf}]
  BY DEF WellFormed, TypeOK
<1>2. ASSUME held[t] # NoBuf, held' = [held EXCEPT ![t] = NoBuf],
             UNCHANGED <<queue, mac, ctl>>,
             \/ free' = free \cup {held[t]} /\ UNCHANGED <<kept, lost>>
             \/ kept' = kept \cup {held[t]} /\ UNCHANGED <<free, lost>>
             \/ lost' = lost \cup {held[t]} /\ UNCHANGED <<free, kept>>
      PROVE  SingleOwners'
  <2>1. held[t] \in Buf /\ Held(held[t])
    BY <1>1, <1>2 DEF Held
  <2>2. \A b \in Buf : Held(b)' <=> Held(b) /\ b # held[t]
    BY <1>1, <1>2 DEF Held, SingleOwners
  <2>3. \A b \in Buf : /\ Queued(b)' <=> Queued(b)
                       /\ AtController(b)' <=> AtController(b)
    BY <1>2 DEF Queued, AtController
  <2>4. \A u, v \in Task : held'[u] = held'[v] /\ held'[u] # NoBuf => u = v
    BY <1>1, <1>2 DEF SingleOwners
  <2>5. \A i, j \in DOMAIN queue' :
           /\ queue'[i].release /\ queue'[j].release
           /\ queue'[i].buf = queue'[j].buf
           => i = j
    BY <1>2 DEF SingleOwners
  <2> QED
    BY <1>2, <2>1, <2>2, <2>3, <2>4, <2>5 DEF SingleOwners
<1>3. ASSUME NEW release \in BOOLEAN, Insert(t, release)
      PROVE  SingleOwners'
  BY <1>3, InsertSingleOwners
<1>4. CASE t \in Sock /\ SendFails(t)
  BY <1>2, <1>4 DEF SendFails, Release
<1>5. ASSUME NEW release \in BOOLEAN, t = IPTask, IPTaskInsertFails(release)
      PROVE  SingleOwners'
  BY <1>2, <1>5 DEF IPTaskInsertFails
<1> QED
  BY <1>3, <1>4, <1>5 DEF Sending

\* A task takes a buffer from the pool, or the IP task one that it kept.
LEMMA TakesSingleOwners ==
    ASSUME WellFormed, SingleOwners, NEW t \in Task, NEW b \in Buf,
           held[t] = NoBuf, held' = [held EXCEPT ![t] = b],
           \/ b \in free /\ free' = free \ {b} /\ kept' = kept
           \/ b \in kept /\ kept' = kept \ {b} /\ free' = free,
           UNCHANGED <<queue, mac, lost, ctl>>
    PROVE  SingleOwners'
<1> USE TransmissionAssumption
<1>1. held \in [Task -> Buf \cup {NoBuf}]
  BY DEF WellFormed, TypeOK
<1>3. \A c \in Buf : Held(c)' <=> Held(c) \/ c = b
  BY <1>1 DEF Held
<1>4. \A c \in Buf : /\ Queued(c)' <=> Queued(c)
                     /\ AtController(c)' <=> AtController(c)
  BY DEF Queued, AtController
<1>5. \A u \in Task : held[u] # b
  BY DEF SingleOwners, Held
<1>6. \A u, v \in Task : held'[u] = held'[v] /\ held'[u] # NoBuf => u = v
  BY <1>1, <1>5 DEF SingleOwners
<1>7. \A i, j \in DOMAIN queue' :
         /\ queue'[i].release /\ queue'[j].release
         /\ queue'[i].buf = queue'[j].buf
         => i = j
  BY DEF SingleOwners
<1> QED
  BY <1>3, <1>4, <1>6, <1>7 DEF SingleOwners

LEMMA PopItemSingleOwners ==
    ASSUME WellFormed, SingleOwners, PopItem
    PROVE  SingleOwners'
<1> DEFINE n == Len(queue)
           h == queue[1]
<1>1. queue \in Seq(Item) /\ queue # <<>>
  BY DEF WellFormed, TypeOK, PopItem
<1>2. /\ n \in Nat \ {0} /\ h \in Item /\ Head(queue) = h
      /\ DOMAIN queue = 1..n /\ DOMAIN queue' = 1..(n - 1)
      /\ \A k \in 1..(n - 1) : queue'[k] = queue[k + 1]
  BY <1>1, HeadTail, Domain DEF PopItem
<1>3. /\ ctl.at = "pop" /\ ctl'.at = "output" /\ ctl'.buf = h.buf
      /\ ctl'.release = h.release /\ h.buf \in Buf /\ h.release \in BOOLEAN
      /\ UNCHANGED <<held, free, kept, mac, lost>>
  BY <1>2 DEF PopItem, Controller, Taken, Item
<1>4. \A b \in Buf : /\ AtController(b)' <=> b = h.buf /\ h.release
                     /\ ~AtController(b)
                     /\ Held(b)' <=> Held(b)
  BY <1>3 DEF AtController, Held
<1>5. \A b \in Buf :
         Queued(b)' <=> Queued(b) /\ (b # h.buf \/ ~h.release)
  <2>1. ASSUME NEW b \in Buf, Queued(b)'
        PROVE  Queued(b) /\ (b # h.buf \/ ~h.release)
    <3>1. PICK k \in 1..(n - 1) : queue'[k].buf = b /\ queue'[k].release
      BY <1>2, <2>1 DEF Queued
    <3>2. /\ k + 1 \in 1..n /\ k + 1 # 1 /\ 1 \in 1..n
          /\ queue[k + 1].buf = b /\ queue[k + 1].release
      BY <1>2, <3>1
    <3> QED
      BY <1>2, <3>2 DEF Queued, SingleOwners
  <2>2. ASSUME NEW b \in Buf, Queued(b), b # h.buf \/ ~h.release
        PROVE  Queued(b)'
    <3>1. PICK k \in 1..n : queue[k].buf = b /\ queue[k].release
      BY <1>2, <2>2 DEF Queued
    <3>2. k - 1 \in 1..(n - 1) /\ (k - 1) + 1 = k
      BY <1>2, <2>2, <3>1
    <3> QED
      BY <1>2, <3>1, <3>2 DEF Queued
  <2> QED
    BY <2>1, <2>2
<1>6. h.release => Queued(h.buf)
  BY <1>2 DEF Queued
<1>7. \A i, j \in DOMAIN queue' :
         /\ queue'[i].release /\ queue'[j].release
         /\ queue'[i].buf = queue'[j].buf
         => i = j
  <2> SUFFICES ASSUME NEW i \in 1..(n - 1), NEW j \in 1..(n - 1),
                      queue'[i].release, queue'[j].release,
                      queue'[i].buf = queue'[j].buf
               PROVE  i = j
    BY <1>2
  <2>1. i + 1 \in 1..n /\ j + 1 \in 1..n
    BY <1>2
  <2>2. i + 1 = j + 1
    BY <1>2, <2>1 DEF SingleOwners
  <2> QED
    BY <1>2, <2>2
<1> QED
  BY <1>2, <1>3, <1>4, <1>5, <1>6, <1>7 DEF SingleOwners

\* The buffer at the controller, when it is to be released.
LEMMA LeavesController ==
    ASSUME WellFormed, SingleOwners, ctl.at = "output", ctl'.at # "output",
           UNCHANGED <<held, queue, kept, lost>>,
           IF ctl.release
           THEN \/ free' = free \cup {ctl.buf} /\ mac' = mac
                \/ mac' = mac \cup {ctl.buf} /\ free' = free
           ELSE free' = free /\ mac' = mac
    PROVE  SingleOwners'
<1>1. ctl.buf \in Buf
  BY DEF WellFormed, Shape
<1>2. \A b \in Buf : /\ Queued(b)' <=> Queued(b)
                     /\ Held(b)' <=> Held(b)
                     /\ ~AtController(b)'
                     /\ AtController(b) <=> b = ctl.buf /\ ctl.release
  BY DEF Queued, Held, AtController
<1>3. \A t, u \in Task : held'[t] = held'[u] /\ held'[t] # NoBuf => t = u
  BY DEF SingleOwners
<1>4. \A i, j \in DOMAIN queue' :
         /\ queue'[i].release /\ queue'[j].release
         /\ queue'[i].buf = queue'[j].buf
         => i = j
  BY DEF SingleOwners
<1>5. CASE ctl.release
  BY <1>1, <1>2, <1>3, <1>4, <1>5 DEF SingleOwners
<1>6. CASE ~ctl.release
  BY <1>1, <1>2, <1>3, <1>4, <1>6 DEF SingleOwners
<1> QED
  BY <1>5, <1>6

LEMMA TransmitSingleOwners ==
    ASSUME WellFormed, SingleOwners, Transmit
    PROVE  OneOwner'
<1> USE DEF OneOwner
<1>1. CASE NoRoomForTag
  BY <1>1, LeavesController
  DEF NoRoomForTag, Release, Controller, Idle, WellFormed, TypeOK
<1>2. CASE OutputFails
  BY <1>2, LeavesController DEF OutputFails, Release, Controller, Idle
<1>3. CASE Output
  BY <1>3, LeavesController DEF Output, Controller, WellFormed, TypeOK
<1>4. CASE Lookup
  BY <1>4, NoBufferMoves DEF Lookup, Controller, Idle, WellFormed, TypeOK
<1>5. ASSUME NEW ok \in BOOLEAN, Fill(ok)
      PROVE  SingleOwners'
  BY <1>5, NoBufferMoves DEF Fill, Controller, Idle, WellFormed, TypeOK
<1>6. CASE InsertHeader
  BY <1>6, NoBufferMoves DEF InsertHeader, Controller, Idle
<1> QED
  BY <1>1, <1>2, <1>3, <1>4, <1>5, <1>6, PopItemSingleOwners DEF Transmit

\* What the MAC or the IP task has goes back to the pool.
LEMMA GoesBackSingleOwners ==
    ASSUME WellFormed, SingleOwners, NEW b \in Buf,
           MACReleases(b) \/ KeeperReleases(b)
    PROVE  SingleOwners'
<1>1. /\ \/ b \in mac /\ mac' = mac \ {b} /\ kept' = kept
         \/ b \in kept /\ kept' = kept \ {b} /\ mac' = mac
      /\ free' = free \cup {b}
      /\ UNCHANGED <<held, queue, lost, ctl>>
  BY DEF MACReleases, KeeperReleases, Release
<1>2. \A c \in Buf : /\ Queued(c)' <=> Queued(c)
                     /\ Held(c)' <=> Held(c)
                     /\ AtController(c)' <=> AtController(c)
  BY <1>1 DEF Queued, Held, AtController
<1>3. /\ \A t, u \in Task : held'[t] = held'[u] /\ held'[t] # NoBuf => t = u
      /\ \A i, j \in DOMAIN queue' :
            /\ queue'[i].release /\ queue'[j].release
            /\ queue'[i].buf = queue'[j].buf
            => i = j
  BY <1>1 DEF SingleOwners
<1> QED
  BY <1>1, <1>2, <1>3 DEF SingleOwners

LEMMA StepOneOwner == WellFormed /\ OneOwner /\ [Next]_vars => OneOwner'
<1> SUFFICES ASSUME WellFormed, OneOwner, [Next]_vars PROVE OneOwner'
  OBVIOUS
<1>1. CASE UNCHANGED vars
  BY <1>1 DEF vars, OneOwner, SingleOwners, Held, Queued, AtController
<1>2. CASE Next
  <2>1. SingleOwners
    BY <1>2 DEF Next, OneOwner
  <2>2. ASSUME NEW t \in Task, NEW b \in Buf, Allocate(t, b)
        PROVE  SingleOwners'
    BY <2>1, <2>2, TakesSingleOwners DEF Allocate
  <2>3. ASSUME NEW b \in Buf, KeeperSends(b)
        PROVE  SingleOwners'
    BY <2>1, <2>3, TakesSingleOwners DEF KeeperSends, Task
  <2> QED
    BY <1>2, <2>1, <2>2, <2>3, SocketCallsSingleOwners, SendingSingleOwners,
       TransmitSingleOwners, GoesBackSingleOwners DEF Next, OneOwner
<1> QED
  BY <1>1, <1>2

(***************************************************************************)
(* Each buffer has exactly one owner on every path of sendto() and of the  *)
(* wrapper's output function, however the tasks, the controller and the    *)
(* MAC interleave, and whether the IP task asks for a release after        *)
(* sending or keeps its buffer, to be released or filled anew while an     *)
(* item points to it; up to the release of a kept buffer for want of room  *)
(* for a tag (Sockets.c:663-722, NetworkWrapper.c:80-84, 289-374).         *)
(***************************************************************************)
THEOREM TransmissionOneOwner == Spec => []OneOwner
<1>1. Init => OneOwner
  BY InitSingleOwners DEF OneOwner
<1> QED
  BY <1>1, InitWellFormed, StepWellFormed, StepOneOwner, PTL DEF Spec

-----------------------------------------------------------------------------
\* The frames a task has got rid of: all it sent but the one it holds.
Last(t) == IF held[t] = NoBuf THEN sends[t] ELSE sends[t] - 1

Ahead(f, g) == f.from = g.from => f.k < g.k

Gone(f) == f.k <= Last(f.from)

\* A task's frames are numbered as it sends them and keep that order through
\* the queue and the controller to the wire, in buffers to be released.
HeldInOrder ==
    \A t \in Task : held[t] # NoBuf =>
        frame[held[t]] = [from |-> t, k |-> sends[t]]

QueueInOrder ==
    /\ \A i \in 1..Len(queue) :
          queue[i].release => Gone(frame[queue[i].buf])
    /\ \A i, j \in 1..Len(queue) :
          i < j /\ queue[i].release /\ queue[j].release
          => Ahead(frame[queue[i].buf], frame[queue[j].buf])

ControllerInOrder ==
    ctl.at = "output" /\ ctl.release =>
        /\ Gone(frame[ctl.buf])
        /\ \A j \in 1..Len(queue) :
              queue[j].release => Ahead(frame[ctl.buf], frame[queue[j].buf])
        /\ \A i \in 1..Len(wire) :
              wire[i].release => Ahead(wire[i], frame[ctl.buf])

SentInOrder ==
    /\ \A i \in 1..Len(wire) : wire[i].release => Gone(wire[i])
    /\ \A i \in 1..Len(wire), j \in 1..Len(queue) :
          wire[i].release /\ queue[j].release
          => Ahead(wire[i], frame[queue[j].buf])
    /\ \A i, j \in 1..Len(wire) :
          i < j /\ wire[i].release /\ wire[j].release => Ahead(wire[i], wire[j])

OrderInv == HeldInOrder /\ QueueInOrder /\ ControllerInOrder /\ SentInOrder

LEMMA InitOrder == Init => OrderInv
<1> SUFFICES ASSUME Init PROVE OrderInv
  OBVIOUS
<1>1. 1..Len(queue) = {} /\ 1..Len(wire) = {}
  BY EmptySeq DEF Init
<1> QED
  BY <1>1 DEF Init, OrderInv, HeldInOrder, QueueInOrder, ControllerInOrder,
              SentInOrder, Idle

\* The elements of the sequences are of their types.
LEMMA Elements ==
    ASSUME WellFormed
    PROVE  /\ Len(queue) \in Nat /\ Len(wire) \in Nat
           /\ \A i \in 1..Len(queue) :
                 /\ queue[i] \in Item /\ queue[i].buf \in Buf
                 /\ queue[i].release => Queued(queue[i].buf)
                 /\ frame[queue[i].buf] \in Frame
           /\ \A i \in 1..Len(wire) :
                 wire[i].from \in Task /\ wire[i].k \in Nat
<1>1. queue \in Seq(Item) /\ wire \in Seq(Sent) /\ frame \in [Buf -> Frame]
  BY DEF WellFormed, TypeOK
<1>2. /\ \A i \in 1..Len(queue) : queue[i] \in Item
      /\ \A i \in 1..Len(wire) : wire[i] \in Sent
      /\ Len(queue) \in Nat /\ Len(wire) \in Nat
      /\ DOMAIN queue = 1..Len(queue)
  BY <1>1, ElementOfSeq, LenProperties
<1> QED
  BY <1>1, <1>2 DEF Queued, Item, Sent

\* A frame that is gone stays gone when no task takes one back.
LEMMA StaysGone ==
    ASSUME WellFormed, WellFormed',
           \A t \in Task : Last(t)' >= Last(t),
           NEW k \in Nat, NEW t \in Task, k <= Last(t)
    PROVE  k <= Last(t)'
<1>2. Last(t) \in Int /\ Last(t)' \in Int
  BY DEF Last, WellFormed, TypeOK
<1> QED
  BY <1>2

\* What a step does that moves no frame in a buffer to be released.
LEMMA NoFrameMoves ==
    ASSUME WellFormed, WellFormed', OrderInv, UNCHANGED <<queue, wire>>,
           ctl'.at = "output" /\ ctl'.release =>
               /\ ctl.at = "output" /\ ctl.release /\ ctl'.buf = ctl.buf
               /\ frame'[ctl.buf] = frame[ctl.buf],
           \A i \in 1..Len(queue) : queue[i].release =>
               frame'[queue[i].buf] = frame[queue[i].buf],
           \A t \in Task : Last(t)' >= Last(t),
           HeldInOrder'
    PROVE  OrderInv'
<1>0. \A f \in Frame : f.k \in Nat /\ f.from \in Task
  BY DEF Frame
<1>1. QueueInOrder'
  <2>1. \A i \in 1..Len(queue) :
           queue[i].release => Gone(frame[queue[i].buf])'
    BY <1>0, Elements, StaysGone DEF OrderInv, QueueInOrder, Gone
  <2> QED
    BY <2>1 DEF OrderInv, QueueInOrder, Ahead
<1>2. ControllerInOrder'
  <2> SUFFICES ASSUME ctl'.at = "output", ctl'.release PROVE ControllerInOrder'
    BY DEF ControllerInOrder
  <2>1. frame[ctl.buf] \in Frame /\ Gone(frame[ctl.buf])
    BY DEF WellFormed, TypeOK, Shape, OrderInv, ControllerInOrder
  <2>2. Gone(frame[ctl.buf])'
    BY <1>0, <2>1, StaysGone DEF Gone
  <2> QED
    BY <2>2 DEF OrderInv, ControllerInOrder, Ahead
<1>3. SentInOrder'
  <2>1. \A i \in 1..Len(wire) : wire[i].release => Gone(wire[i])'
    BY Elements, StaysGone DEF OrderInv, SentInOrder, Gone
  <2> QED
    BY <2>1 DEF OrderInv, SentInOrder, Ahead
<1> QED
  BY <1>1, <1>2, <1>3 DEF OrderInv

LEMMA SocketCallsOrder ==
    ASSUME WellFormed, WellFormed', OrderInv, NEW s \in Sock, SocketCalls(s)
    PROVE  OrderInv'
<1>1. UNCHANGED <<held, sends, frame, queue, wire, ctl>>
  BY DEF SocketCalls, FreeRTOS_TSN_socket, FreeRTOS_TSN_bind,
         FreeRTOS_TSN_setsockopt, RecvErrQueue
<1>2. HeldInOrder'
  BY <1>1 DEF OrderInv, HeldInOrder
<1>3. \A t \in Task : Last(t)' = Last(t) /\ Last(t) \in Int
  BY <1>1 DEF Last, WellFormed, TypeOK
<1> QED
  BY <1>1, <1>2, <1>3, NoFrameMoves

\* A task gives up the buffer it holds, which no other item is to release.
LEMMA SendingOrder ==
    ASSUME WellFormed, WellFormed', SingleOwners, OrderInv, NEW t \in Task,
           \/ t \in Sock /\ SendFails(t)
           \/ t = IPTask /\ \E release \in BOOLEAN : IPTaskInsertFails(release)
    PROVE  OrderInv'
<1>1. /\ held[t] # NoBuf /\ held' = [held EXCEPT ![t] = NoBuf]
      /\ frame' = [frame EXCEPT ![held[t]] = NoFrame] \/ frame' = frame
      /\ UNCHANGED <<queue, wire, ctl, sends>>
  BY DEF SendFails, Release, IPTaskInsertFails
<1>2. /\ held \in [Task -> Buf \cup {NoBuf}] /\ sends \in [Task -> Nat]
      /\ frame \in [Buf -> Frame] /\ held[t] \in Buf
  BY <1>1 DEF WellFormed, TypeOK
<1>3. \A b \in Buf : b # held[t] => frame'[b] = frame[b]
  BY <1>1, <1>2
<1>4. \A i \in 1..Len(queue) : queue[i].release =>
         frame'[queue[i].buf] = frame[queue[i].buf]
  BY <1>2, <1>3, Elements DEF SingleOwners, Held
<1>5. \A u \in Task : Last(u)' >= Last(u)
  BY <1>1, <1>2 DEF Last
<1>6. ctl.at = "output" /\ ctl.release => ctl.buf \in Buf /\ AtController(ctl.buf)
  BY DEF WellFormed, Shape, AtController
<1>7. ctl.at = "output" /\ ctl.release => frame'[ctl.buf] = frame[ctl.buf]
  BY <1>2, <1>3, <1>6 DEF SingleOwners, Held
<1>8. HeldInOrder'
  <2> SUFFICES ASSUME NEW u \in Task, held'[u] # NoBuf
               PROVE  frame'[held'[u]] = [from |-> u, k |-> sends'[u]]
    BY DEF HeldInOrder
  <2>1. u # t /\ held'[u] = held[u] /\ held[u] \in Buf
    BY <1>1, <1>2
  <2>2. held[u] # held[t]
    BY <1>1, <2>1 DEF SingleOwners
  <2> QED
    BY <1>1, <1>3, <2>1, <2>2 DEF OrderInv, HeldInOrder
<1> QED
  BY <1>1, <1>4, <1>5, <1>7, <1>8, NoFrameMoves

\* A task makes its next frame in a buffer of the pool, or the IP task in one
\* that it kept: no item is to release it.
LEMMA TakesOrder ==
    ASSUME WellFormed, WellFormed', SingleOwners, OrderInv,
           NEW t \in Task, NEW b \in Buf,
           Allocate(t, b) \/ (t = IPTask /\ KeeperSends(b))
    PROVE  OrderInv'
<1>1. /\ held[t] = NoBuf /\ b \in free \cup kept
      /\ held' = [held EXCEPT ![t] = b]
      /\ sends' = [sends EXCEPT ![t] = sends[t] + 1]
      /\ frame' = [frame EXCEPT ![b] = [from |-> t, k |-> sends[t] + 1]]
      /\ UNCHANGED <<queue, wire, ctl>>
  BY DEF Allocate, KeeperSends
<1>2. /\ held \in [Task -> Buf \cup {NoBuf}] /\ sends \in [Task -> Nat]
      /\ frame \in [Buf -> Frame] /\ b # NoBuf
  BY TransmissionAssumption DEF WellFormed, TypeOK
<1>3. \A c \in Buf : c # b => frame'[c] = frame[c]
  BY <1>1, <1>2
<1>4. \A i \in 1..Len(queue) : queue[i].release =>
         frame'[queue[i].buf] = frame[queue[i].buf]
  BY <1>1, <1>3, Elements DEF SingleOwners
<1>5. \A u \in Task : Last(u)' >= Last(u)
  BY <1>1, <1>2 DEF Last
<1>6. ctl.at = "output" /\ ctl.release => frame'[ctl.buf] = frame[ctl.buf]
  BY <1>1, <1>3 DEF WellFormed, Shape, AtController, SingleOwners
<1>7. HeldInOrder'
  <2> SUFFICES ASSUME NEW u \in Task, held'[u] # NoBuf
               PROVE  frame'[held'[u]] = [from |-> u, k |-> sends'[u]]
    BY DEF HeldInOrder
  <2>1. CASE u = t
    BY <1>1, <1>2, <2>1
  <2>2. CASE u # t
    <3>1. held'[u] = held[u] /\ held[u] \in Buf /\ sends'[u] = sends[u]
      BY <1>1, <1>2, <2>2
    <3>2. held[u] # b
      BY <1>1 DEF SingleOwners, Held
    <3> QED
      BY <1>3, <3>1, <3>2 DEF OrderInv, HeldInOrder
  <2> QED
    BY <2>1, <2>2
<1> QED
  BY <1>1, <1>4, <1>5, <1>6, <1>7, NoFrameMoves

\* The frame inserted is the last the task has sent.
LEMMA InsertOrder ==
    ASSUME WellFormed, WellFormed', OrderInv,
           NEW t \in Task, NEW release \in BOOLEAN, Insert(t, release)
    PROVE  OrderInv'
<1> DEFINE n == Len(queue)
           f == [from |-> t, k |-> sends[t]]
           item == [buf |-> held[t], release |-> release]
<1>1. /\ held[t] # NoBuf /\ held' = [held EXCEPT ![t] = NoBuf]
      /\ queue' = Append(queue, item)
      /\ UNCHANGED <<frame, wire, ctl, sends>>
  BY DEF Insert, Enqueue
<1>2. /\ held \in [Task -> Buf \cup {NoBuf}] /\ sends \in [Task -> Nat]
      /\ frame \in [Buf -> Frame] /\ queue \in Seq(Item) /\ held[t] \in Buf
  BY <1>1 DEF WellFormed, TypeOK
<1>20. item \in Item /\ item.buf = held[t] /\ item.release = release
  BY <1>2 DEF Item
<1> HIDE DEF item
<1>3. /\ n \in Nat /\ Len(queue') = n + 1 /\ queue'[n + 1] = item
      /\ \A k \in 1..n : queue'[k] = queue[k]
  BY <1>1, <1>2, <1>20, Appended
<1>4. /\ \A i \in 1..n : frame'[queue'[i].buf] = frame[queue[i].buf]
                          /\ queue'[i].release = queue[i].release
      /\ frame'[queue'[n + 1].buf] = f
      /\ \A i \in 1..Len(queue') : i \in 1..n \/ i = n + 1
  BY <1>1, <1>3, <1>20 DEF OrderInv, HeldInOrder
<1>5. \A u \in Task : Last(u)' >= Last(u)
  BY <1>1, <1>2 DEF Last
<1>6. /\ sends[t] <= Last(t)' /\ f.k = sends[t] /\ f.k \in Nat
      /\ f.from = t
      /\ \A g : g.k \in Nat /\ g.from \in Task /\ Gone(g) => Ahead(g, f)
  <2>1. Last(t) = sends[t] - 1 /\ Last(t)' = sends[t] /\ sends[t] \in Nat
    BY <1>1, <1>2, TransmissionAssumption DEF Last
  <2> QED
    BY <2>1 DEF Gone, Ahead
<1> HIDE DEF f
<1>60. \A g \in Frame : g.k \in Nat /\ g.from \in Task
  BY DEF Frame
<1>7. QueueInOrder'
  <2>1. \A i \in 1..n : /\ queue[i].release => Gone(frame[queue[i].buf])
                        /\ frame[queue[i].buf].k \in Nat
                        /\ frame[queue[i].buf].from \in Task
    BY <1>60, Elements DEF OrderInv, QueueInOrder
  <2>2. ASSUME NEW i \in 1..Len(queue'), queue'[i].release
        PROVE  Gone(frame[queue[i].buf])'
    <3>1. CASE i \in 1..n
      <4>1. /\ frame[queue[i].buf].k <= Last(frame[queue[i].buf].from)
            /\ frame'[queue'[i].buf] = frame[queue[i].buf]
        BY <1>4, <2>1, <2>2, <3>1 DEF Gone
      <4>2. frame[queue[i].buf].k <= Last(frame[queue[i].buf].from)'
        BY <1>5, <2>1, <3>1, <4>1, StaysGone
      <4> QED
        BY <4>1, <4>2 DEF Gone
    <3>2. CASE i = n + 1
      BY <1>4, <1>6, <3>2 DEF Gone
    <3> QED
      BY <1>4, <3>1, <3>2
  <2>3. ASSUME NEW i \in 1..Len(queue'), NEW j \in 1..Len(queue'), i < j,
               queue'[i].release, queue'[j].release
        PROVE  Ahead(frame'[queue'[i].buf], frame'[queue'[j].buf])
    <3>1. i \in 1..n /\ (j \in 1..n \/ j = n + 1)
      BY <1>3, <1>4, <2>3
    <3>2. CASE j \in 1..n
      BY <1>4, <2>3, <3>1, <3>2 DEF OrderInv, QueueInOrder
    <3>3. CASE j = n + 1
      BY <1>4, <1>6, <2>1, <2>3, <3>1, <3>3
    <3> QED
      BY <3>1, <3>2, <3>3
  <2> QED
    BY <2>2, <2>3 DEF QueueInOrder, Ahead
<1>8. ControllerInOrder'
  <2> SUFFICES ASSUME ctl.at = "output", ctl.release PROVE ControllerInOrder'
    BY <1>1 DEF ControllerInOrder
  <2>1. /\ frame[ctl.buf].k \in Nat /\ frame[ctl.buf].from \in Task
        /\ Gone(frame[ctl.buf])
    BY <1>2, <1>60 DEF WellFormed, Shape, OrderInv, ControllerInOrder
  <2>2. Gone(frame[ctl.buf])'
    BY <1>1, <1>5, <2>1, StaysGone DEF Gone
  <2>3. \A j \in 1..Len(queue') : queue'[j].release =>
           Ahead(frame[ctl.buf], frame'[queue'[j].buf])
    BY <1>4, <1>6, <2>1 DEF OrderInv, ControllerInOrder
  <2> QED
    BY <1>1, <2>2, <2>3 DEF OrderInv, ControllerInOrder, Ahead
<1>9. SentInOrder'
  <2>1. \A i \in 1..Len(wire) : /\ wire[i].release => Gone(wire[i])
                                /\ wire[i].k \in Nat /\ wire[i].from \in Task
    BY Elements DEF OrderInv, SentInOrder
  <2>2. \A i \in 1..Len(wire') : wire[i].release => Gone(wire[i])'
    BY <1>1, <1>5, <2>1, StaysGone DEF Gone
  <2>3. \A i \in 1..Len(wire), j \in 1..Len(queue') :
           wire[i].release /\ queue'[j].release
           => Ahead(wire[i], frame'[queue'[j].buf])
    BY <1>4, <1>6, <2>1 DEF OrderInv, SentInOrder
  <2> QED
    BY <1>1, <2>2, <2>3 DEF OrderInv, SentInOrder, Ahead
<1>10. HeldInOrder'
  BY <1>1, <1>2 DEF OrderInv, HeldInOrder
<1> QED
  BY <1>7, <1>8, <1>9, <1>10 DEF OrderInv

LEMMA PopItemOrder ==
    ASSUME WellFormed, OrderInv, PopItem
    PROVE  OrderInv'
<1> DEFINE n == Len(queue)
<1>1. queue \in Seq(Item) /\ queue # <<>>
  BY DEF WellFormed, TypeOK, PopItem
<1>2. /\ n \in Nat \ {0} /\ Head(queue) = queue[1] /\ Len(queue') = n - 1
      /\ \A k \in 1..Len(queue') : queue'[k] = queue[k + 1]
  BY <1>1, HeadTail DEF PopItem
<1>3. /\ ctl'.at = "output" /\ ctl'.buf = queue[1].buf
      /\ ctl'.release = queue[1].release
      /\ UNCHANGED <<held, sends, frame, wire>>
  BY <1>2 DEF PopItem, Controller, Taken
<1>4. \A k \in 1..Len(queue') : k + 1 \in 1..n /\ 1 < k + 1
  BY <1>2
<1>5. 1 \in 1..n
  BY <1>2
<1>6. \A t \in Task : Last(t)' = Last(t)
  BY <1>3 DEF Last
<1>7. HeldInOrder'
  BY <1>3 DEF OrderInv, HeldInOrder
<1>8. QueueInOrder'
  <2>1. \A i, j \in 1..Len(queue') : i < j => i + 1 < j + 1
    BY <1>2
  <2> QED
    BY <1>2, <1>3, <1>4, <2>1, SMTT(60)
    DEF OrderInv, QueueInOrder, Gone, Last, Ahead
<1>9. ControllerInOrder'
  <2> DEFINE f == frame[queue[1].buf]
  <2>1. frame'[ctl'.buf] = f
    BY <1>3
  <2>2. queue[1].release =>
          f.k =< (IF held[f.from] = NoBuf THEN sends[f.from]
                  ELSE sends[f.from] - 1)
    BY <1>5 DEF OrderInv, QueueInOrder, Gone, Last
  <2>3. \A j \in 1..Len(queue') : queue[1].release /\ queue[j + 1].release
           => Ahead(f, frame[queue[j + 1].buf])
    BY <1>4, <1>5 DEF OrderInv, QueueInOrder
  <2>4. \A i \in 1..Len(wire) : wire[i].release /\ queue[1].release
           => Ahead(wire[i], f)
    BY <1>5 DEF OrderInv, SentInOrder
  <2>5. ctl'.release => Gone(frame[ctl.buf])'
    BY <1>3, <2>1, <2>2 DEF Gone, Last
  <2>6. ctl'.release => \A j \in 1..Len(queue') : queue'[j].release
           => Ahead(frame'[ctl'.buf], frame'[queue'[j].buf])
    BY <1>2, <1>3, <2>1, <2>3 DEF Ahead
  <2>7. ctl'.release => \A i \in 1..Len(wire') : wire'[i].release
           => Ahead(wire'[i], frame'[ctl'.buf])
    BY <1>3, <2>1, <2>4
  <2> QED
    BY <2>5, <2>6, <2>7 DEF ControllerInOrder, Ahead
<1>10. SentInOrder'
  BY <1>2, <1>3, <1>4 DEF OrderInv, SentInOrder, Gone, Last, Ahead
<1> QED
  BY <1>7, <1>8, <1>9, <1>10 DEF OrderInv

LEMMA OutputOrder ==
    ASSUME WellFormed, OrderInv, Output
    PROVE  OrderInv'
<1> DEFINE n == Len(wire)
<1>1. /\ ctl.at = "output" /\ wire \in Seq(Sent) /\ Passed \in Sent
      /\ Passed.from = frame[ctl.buf].from /\ Passed.k = frame[ctl.buf].k
      /\ Passed.release = ctl.release
  BY DEF WellFormed, TypeOK, Shape, Output, Passed, Sent, Frame
<1>2. /\ n \in Nat /\ Len(wire') = n + 1 /\ wire'[n + 1] = Passed
      /\ \A k \in 1..n : wire'[k] = wire[k]
  BY <1>1, Appended DEF Output
<1>3. ctl'.at = "lookup" /\ UNCHANGED <<held, sends, frame, queue>>
  BY DEF Output, Controller, WellFormed, TypeOK
<1>4. \A i \in 1..Len(wire') : i \in 1..n \/ i = n + 1
  BY <1>2
<1>5. HeldInOrder' /\ QueueInOrder' /\ ControllerInOrder'
  BY <1>3 DEF OrderInv, HeldInOrder, QueueInOrder, ControllerInOrder, Gone,
              Last, Ahead
<1>6. SentInOrder'
  <2>1. \A i \in 1..Len(wire') : wire'[i].release => Gone(wire[i])'
    BY <1>1, <1>2, <1>3, <1>4
    DEF OrderInv, SentInOrder, ControllerInOrder, Gone, Last
  <2>2. \A i \in 1..Len(wire'), j \in 1..Len(queue) :
           wire'[i].release /\ queue[j].release
           => Ahead(wire'[i], frame[queue[j].buf])
    BY <1>1, <1>2, <1>4 DEF OrderInv, SentInOrder, ControllerInOrder, Ahead
  <2>3. ASSUME NEW i \in 1..Len(wire'), NEW j \in 1..Len(wire'), i < j,
               wire'[i].release, wire'[j].release
        PROVE  Ahead(wire'[i], wire'[j])
    <3>1. i \in 1..n /\ (j \in 1..n \/ j = n + 1)
      BY <1>2, <1>4, <2>3
    <3> QED
      BY <1>1, <1>2, <2>3, <3>1
      DEF OrderInv, SentInOrder, ControllerInOrder, Ahead
  <2> QED
    BY <1>3, <2>1, <2>2, <2>3 DEF SentInOrder, Ahead
<1> QED
  BY <1>5, <1>6 DEF OrderInv

\* The controller, the MAC and the IP task release buffers that no task holds
\* and no other item is to release.
LEMMA ReleasesOrder ==
    ASSUME WellFormed, WellFormed', SingleOwners, OrderInv, ctl'.at # "fault",
           \/ NoRoomForTag \/ OutputFails
           \/ \E b \in Buf : MACReleases(b) \/ KeeperReleases(b)
    PROVE  OrderInv'
<1>2. /\ held \in [Task -> Buf \cup {NoBuf}] /\ sends \in [Task -> Nat]
      /\ frame \in [Buf -> Frame]
  BY DEF WellFormed, TypeOK
<1>1. /\ UNCHANGED <<held, sends, queue, wire>>
      /\ \/ frame' = frame /\ ctl'.at # "output"
         \/ \E b \in Buf :
               /\ \/ b \in mac \cup kept /\ ctl' = ctl
                  \/ AtController(b) /\ ctl'.at # "output"
               /\ frame' = [frame EXCEPT ![b] = NoFrame]
  <2>1. CASE NoRoomForTag \/ OutputFails
    <3>1. ctl.buf \in Buf /\ ctl.at = "output"
      BY <2>1 DEF NoRoomForTag, OutputFails, WellFormed, Shape
    <3>2. CASE ctl.release
      BY <2>1, <3>1, <3>2
      DEF NoRoomForTag, OutputFails, Release, Controller, Idle, AtController
    <3>3. CASE ~ctl.release
      <4>1. ~NoRoomForTag
        BY <3>3 DEF NoRoomForTag, Controller, WellFormed, TypeOK
      <4> QED
        BY <2>1, <3>3, <4>1 DEF OutputFails, Controller, Idle
    <3> QED
      BY <3>2, <3>3
  <2>2. ASSUME NEW b \in Buf, MACReleases(b) \/ KeeperReleases(b)
        PROVE  /\ UNCHANGED <<held, sends, queue, wire>>
               /\ b \in mac \cup kept /\ ctl' = ctl
               /\ frame' = [frame EXCEPT ![b] = NoFrame]
    BY <2>2 DEF MACReleases, KeeperReleases, Release
  <2> QED
    BY <2>1, <2>2
<1>3. ASSUME NEW b \in Buf,
             \/ b \in mac \cup kept /\ ctl' = ctl
             \/ AtController(b) /\ ctl'.at # "output",
             frame' = [frame EXCEPT ![b] = NoFrame]
      PROVE  OrderInv'
  <2>1. ~Held(b) /\ ~Queued(b)
    BY <1>3 DEF SingleOwners
  <2>2. \A c \in Buf : c # b => frame'[c] = frame[c]
    BY <1>2, <1>3
  <2>3. \A i \in 1..Len(queue) : queue[i].release =>
           frame'[queue[i].buf] = frame[queue[i].buf]
    BY <2>1, <2>2, Elements
  <2>4. HeldInOrder'
    BY <1>1, <1>2, <2>1, <2>2 DEF OrderInv, HeldInOrder, Held
  <2>5. \A t \in Task : Last(t)' >= Last(t)
    BY <1>1, <1>2 DEF Last
  <2>6. ctl'.at = "output" /\ ctl'.release =>
           /\ ctl.at = "output" /\ ctl.release /\ ctl'.buf = ctl.buf
           /\ frame'[ctl.buf] = frame[ctl.buf]
    BY <1>3, <2>2 DEF WellFormed, Shape, AtController, SingleOwners
  <2> QED
    BY <1>1, <2>3, <2>4, <2>5, <2>6, NoFrameMoves
<1>4. ASSUME frame' = frame, ctl'.at # "output"
      PROVE  OrderInv'
  <2>1. HeldInOrder'
    BY <1>1, <1>4 DEF OrderInv, HeldInOrder
  <2>2. \A t \in Task : Last(t)' >= Last(t)
    BY <1>1, <1>2 DEF Last
  <2> QED
    BY <1>1, <1>4, <2>1, <2>2, NoFrameMoves
<1> QED
  BY <1>1, <1>3, <1>4

LEMMA HeaderOrder ==
    ASSUME WellFormed, WellFormed', OrderInv,
           Lookup \/ (\E ok \in BOOLEAN : Fill(ok)) \/ InsertHeader
             \/ UNCHANGED vars
    PROVE  OrderInv'
<1>1. /\ ctl' = ctl \/ ctl'.at # "output"
      /\ UNCHANGED <<held, sends, frame, queue, wire>>
  <2>1. CASE Lookup
    BY <2>1 DEF Lookup, Controller, Idle, WellFormed, TypeOK
  <2>2. ASSUME NEW ok \in BOOLEAN, Fill(ok)
        PROVE  ctl'.at # "output" /\ UNCHANGED <<held, sends, frame, queue, wire>>
    BY <2>2 DEF Fill, Controller, Idle, WellFormed, TypeOK
  <2>3. CASE InsertHeader
    BY <2>3 DEF InsertHeader, Controller, Idle
  <2>4. CASE UNCHANGED vars
    BY <2>4 DEF vars
  <2> QED
    BY <2>1, <2>2, <2>3, <2>4
<1>2. HeldInOrder'
  BY <1>1 DEF OrderInv, HeldInOrder
<1>3. \A t \in Task : Last(t)' >= Last(t)
  BY <1>1 DEF Last, WellFormed, TypeOK
<1> QED
  BY <1>1, <1>2, <1>3, NoFrameMoves

LEMMA NextOrder ==
    ASSUME WellFormed, WellFormed', SingleOwners, OrderInv, Next
    PROVE  \/ OrderInv'
           \/ ctl'.at = "fault" /\ wire' = wire
<1>1. ASSUME NoRoomForTag \/ OutputFails
             \/ \E b \in Buf : MACReleases(b) \/ KeeperReleases(b)
      PROVE  OrderInv' \/ (ctl'.at = "fault" /\ wire' = wire)
  <2>1. CASE ctl'.at # "fault"
    BY <1>1, <2>1, ReleasesOrder
  <2>2. wire' = wire
    BY <1>1 DEF NoRoomForTag, OutputFails, MACReleases, KeeperReleases
  <2> QED
    BY <2>1, <2>2
<1>2. ASSUME NEW t \in Task, Sending(t)
      PROVE  OrderInv'
  BY <1>2, SendingOrder, InsertOrder DEF Sending
<1>3. ASSUME NEW t \in Task, NEW b \in Buf, Allocate(t, b)
      PROVE  OrderInv'
  BY <1>3, TakesOrder
<1>4. ASSUME NEW b \in Buf, KeeperSends(b)
      PROVE  OrderInv'
  BY <1>4, TakesOrder DEF Task
<1> QED
  BY <1>1, <1>2, <1>3, <1>4, SocketCallsOrder, PopItemOrder, OutputOrder,
     HeaderOrder DEF Next, Transmit

\* Nothing goes out after the fault.
Ordered == WireInOrder /\ (ctl.at # "fault" => OrderInv)

LEMMA OrderedWire == WellFormed /\ OrderInv => WireInOrder
  BY Domain DEF WellFormed, TypeOK, OrderInv, SentInOrder, Ahead, WireInOrder

LEMMA StepOrder ==
    WellFormed /\ WellFormed' /\ OneOwner /\ Ordered /\ [Next]_vars => Ordered'
<1> SUFFICES ASSUME WellFormed, WellFormed', OneOwner, Ordered, [Next]_vars
             PROVE  Ordered'
  OBVIOUS
<1>1. WellFormed' /\ OrderInv' => WireInOrder'
  BY OrderedWire, PTL
<1>2. CASE Next
  <2>1. SingleOwners /\ OrderInv
    BY <1>2 DEF Next, OneOwner, Ordered
  <2>2. OrderInv' \/ (ctl'.at = "fault" /\ wire' = wire)
    BY <1>2, <2>1, NextOrder
  <2> QED
    BY <1>1, <2>2 DEF Ordered, WireInOrder
<1>3. CASE UNCHANGED vars
  <2>1. OrderInv => OrderInv'
    BY <1>3, HeaderOrder
  <2>2. wire' = wire /\ ctl' = ctl
    BY <1>3 DEF vars
  <2> QED
    BY <2>1, <2>2 DEF Ordered, WireInOrder
<1> QED
  BY <1>2, <1>3

(***************************************************************************)
(* The frames of a task whose buffers are to be released reach the wire in *)
(* the order it sent them and each at most once: the queue and the         *)
(* controller keep the order, and such a buffer is never written again     *)
(* while they have it, whatever becomes of the buffers that the IP task    *)
(* keeps (Sockets.c:704-716, NetworkWrapper.c:330-374).                    *)
(***************************************************************************)
THEOREM TransmissionWireInOrder == Spec => []WireInOrder
<1>1. Init => Ordered
  BY InitOrder, InitWellFormed, OrderedWire DEF Ordered
<1>2. Ordered => WireInOrder
  BY DEF Ordered
<1>3. Init => OneOwner
  BY InitSingleOwners DEF OneOwner
<1> QED
  BY <1>1, <1>2, <1>3, InitWellFormed, StepWellFormed, StepOneOwner,
     StepOrder, PTL DEF Spec

-----------------------------------------------------------------------------
\* The frames whose stamps have been given away.
Stamped == IF ctl.at \in {"lookup", "fill", "insert"} THEN Len(wire) - 1
                                                      ELSE Len(wire)

StampInv ==
    /\ StampsInOrder
    /\ \A s \in Sock : \A i \in DOMAIN Stamps(s) : Stamps(s)[i] <= Stamped

\* The stamps a socket has and will receive, as one sequence.
LEMMA StampsSequence ==
    ASSUME WellFormed, NEW s \in Sock
    PROVE  /\ got[s] \in Seq(Nat) /\ xErrQueue[s] \in Seq(Nat)
           /\ Stamps(s) \in Seq(Nat)
           /\ DOMAIN Stamps(s) = 1..Len(Stamps(s))
           /\ Len(Stamps(s)) \in Nat
           /\ \A i \in DOMAIN Stamps(s) : Stamps(s)[i] \in Nat
<1>1. got[s] \in Seq(Nat) /\ xErrQueue[s] \in Seq(Nat)
  BY DEF WellFormed, TypeOK
<1>2. Stamps(s) \in Seq(Nat)
  BY <1>1, ConcatProperties DEF Stamps
<1> QED
  BY <1>1, <1>2, Domain, ElementOfSeq

LEMMA Joined ==
    ASSUME NEW S, NEW q \in Seq(S), NEW r \in Seq(S)
    PROVE  /\ q \o r \in Seq(S)
           /\ Len(q) \in Nat /\ Len(r) \in Nat
           /\ Len(q \o r) = Len(q) + Len(r)
           /\ \A i \in 1..Len(q) : (q \o r)[i] = q[i]
           /\ \A i \in 1..Len(r) : (q \o r)[Len(q) + i] = r[i]
<1>1. Len(q) \in Nat /\ Len(r) \in Nat
  BY LenProperties
<1>2. /\ q \o r \in Seq(S)
      /\ Len(q \o r) = Len(q) + Len(r)
      /\ \A i \in 1..(Len(q) + Len(r)) :
            (q \o r)[i] = IF i <= Len(q) THEN q[i] ELSE r[i - Len(q)]
  BY ConcatProperties
<1>3. ASSUME NEW i \in 1..Len(q) PROVE (q \o r)[i] = q[i]
  <2>1. i \in 1..(Len(q) + Len(r)) /\ i <= Len(q)
    BY <1>1
  <2> QED
    BY <1>2, <2>1
<1>4. ASSUME NEW i \in 1..Len(r) PROVE (q \o r)[Len(q) + i] = r[i]
  <2>1. /\ Len(q) + i \in 1..(Len(q) + Len(r)) /\ ~(Len(q) + i <= Len(q))
        /\ (Len(q) + i) - Len(q) = i
    BY <1>1
  <2> QED
    BY <1>2, <2>1
<1> QED
  BY <1>1, <1>2, <1>3, <1>4

LEMMA Prefix ==
    ASSUME NEW q \in Seq(Nat), NEW r \in Seq(Nat)
    PROVE  /\ Len(q) <= Len(q \o r)
           /\ \A i \in 1..Len(q) : (q \o r)[i] = q[i]
<1>1. /\ Len(q) \in Nat /\ Len(r) \in Nat
      /\ Len(q \o r) = Len(q) + Len(r)
      /\ \A i \in 1..Len(q) : (q \o r)[i] = q[i]
  BY Joined
<1> QED
  BY <1>1

\* Moving the first header from the queue to the receiver moves no stamp.
LEMMA HeadMoves ==
    ASSUME NEW q \in Seq(Nat), NEW r \in Seq(Nat), r # <<>>
    PROVE  Append(q, Head(r)) \o Tail(r) = q \o r
<1>1. PICK x \in Seq(Nat), y \in Seq(Nat) : x = Append(q, Head(r)) /\ y = Tail(r)
  BY HeadTail, Appended
<1>2. PICK n \in Nat, m \in Nat : n = Len(q) /\ m = Len(y)
  BY LenProperties
<1>3. /\ Len(r) = m + 1 /\ \A k \in 1..m : y[k] = r[k + 1]
      /\ r[1] \in Nat /\ r[1] = Head(r)
  BY <1>1, <1>2, HeadTail
<1>4. /\ Len(x) = n + 1 /\ \A k \in 1..n : x[k] = q[k]
      /\ x[n + 1] = r[1]
  BY <1>1, <1>2, <1>3, Appended
<1> DEFINE u == x \o y
<1>5. /\ u \in Seq(Nat)
      /\ Len(u) = Len(x) + Len(y)
      /\ \A i \in 1..Len(x) : u[i] = x[i]
      /\ \A i \in 1..Len(y) : u[Len(x) + i] = y[i]
  BY Joined
<1> HIDE DEF u
<1> DEFINE v == q \o r
<1>6. /\ v \in Seq(Nat)
      /\ Len(v) = Len(q) + Len(r)
      /\ \A i \in 1..Len(q) : v[i] = q[i]
      /\ \A i \in 1..Len(r) : v[Len(q) + i] = r[i]
  BY Joined
<1> HIDE DEF v
<1>7. Len(u) = n + (m + 1) /\ Len(v) = n + (m + 1)
  BY <1>2, <1>3, <1>4, <1>5, <1>6
<1>8. ASSUME NEW i \in 1..(n + (m + 1))
      PROVE  u[i] = v[i]
  <2>1. CASE i <= n
    BY <1>2, <1>4, <1>5, <1>6, <2>1
  <2>2. CASE i = n + 1
    BY <1>2, <1>3, <1>4, <1>5, <1>6, <2>2
  <2>3. CASE i > n + 1
    <3>1. /\ i - (n + 1) \in 1..m /\ (n + 1) + (i - (n + 1)) = i
          /\ i - n \in 1..(m + 1) /\ n + (i - n) = i
          /\ (i - (n + 1)) + 1 = i - n
      BY <2>3
    <3>2. u[(n + 1) + (i - (n + 1))] = y[i - (n + 1)]
      BY <1>2, <1>4, <1>5, <3>1
    <3>3. v[n + (i - n)] = r[i - n]
      BY <1>2, <1>3, <1>6, <3>1
    <3>4. y[i - (n + 1)] = r[(i - (n + 1)) + 1]
      BY <1>3, <3>1
    <3> QED
      BY <3>1, <3>2, <3>3, <3>4
  <2> QED
    BY <2>1, <2>2, <2>3
<1>9. u = v
  <2>1. Len(u) = Len(v) /\ \A i \in 1..Len(u) : u[i] = v[i]
    BY <1>7, <1>8
  <2> QED
    BY <1>5, <1>6, <2>1, SeqEqual
<1> QED
  BY <1>1, <1>9 DEF u, v

\* A header put at the end of the queue is the last stamp.
LEMMA LastStamp ==
    ASSUME NEW q \in Seq(Nat), NEW r \in Seq(Nat), NEW h \in Nat
    PROVE  /\ Len(q \o r) \in Nat
           /\ Len(q \o Append(r, h)) = Len(q \o r) + 1
           /\ \A i \in 1..Len(q \o r) : (q \o Append(r, h))[i] = (q \o r)[i]
           /\ (q \o Append(r, h))[Len(q \o r) + 1] = h
<1>1. PICK x \in Seq(Nat) : x = Append(r, h)
  BY Appended
<1>2. PICK n \in Nat, m \in Nat : n = Len(q) /\ m = Len(r)
  BY LenProperties
<1>3. Len(x) = m + 1 /\ (\A k \in 1..m : x[k] = r[k]) /\ x[m + 1] = h
  BY <1>1, <1>2, Appended
<1> DEFINE u == q \o x
<1>4. /\ u \in Seq(Nat)
      /\ Len(u) = Len(q) + Len(x)
      /\ \A i \in 1..Len(q) : u[i] = q[i]
      /\ \A i \in 1..Len(x) : u[Len(q) + i] = x[i]
  BY Joined
<1> HIDE DEF u
<1> DEFINE v == q \o r
<1>5. /\ v \in Seq(Nat)
      /\ Len(v) = Len(q) + Len(r)
      /\ \A i \in 1..Len(q) : v[i] = q[i]
      /\ \A i \in 1..Len(r) : v[Len(q) + i] = r[i]
  BY Joined
<1> HIDE DEF v
<1>6. Len(v) = n + m /\ Len(u) = (n + m) + 1
  BY <1>2, <1>3, <1>4, <1>5
<1>7. ASSUME NEW i \in 1..(n + m)
      PROVE  u[i] = v[i]
  <2>1. CASE i <= n
    BY <1>2, <1>4, <1>5, <2>1
  <2>2. CASE i > n
    <3>1. i - n \in 1..m /\ i - n \in 1..(m + 1) /\ n + (i - n) = i
      BY <2>2
    <3>2. u[n + (i - n)] = x[i - n]
      BY <1>2, <1>3, <1>4, <3>1
    <3>3. v[n + (i - n)] = r[i - n]
      BY <1>2, <1>5, <3>1
    <3> QED
      BY <1>3, <3>1, <3>2, <3>3
  <2> QED
    BY <2>1, <2>2
<1>8. u[(n + m) + 1] = h
  <2>1. (n + m) + 1 = n + (m + 1) /\ m + 1 \in 1..(m + 1)
    OBVIOUS
  <2> QED
    BY <1>2, <1>3, <1>4, <2>1
<1> QED
  BY <1>1, <1>2, <1>6, <1>7, <1>8 DEF u, v

LEMMA InitStamps == Init => StampInv
<1> SUFFICES ASSUME Init PROVE StampInv
  OBVIOUS
<1>1. <<>> \in Seq(Nat) /\ DOMAIN <<>> = {}
  BY EmptySeq
<1>2. \A s \in Sock : DOMAIN Stamps(s) = {}
  BY <1>1, ConcatEmptySeq DEF Init, Stamps
<1> QED
  BY <1>2 DEF StampInv, StampsInOrder

\* What a step does that makes no header; headers can be dropped.
LEMMA NoStampMade ==
    ASSUME WellFormed, WellFormed', StampInv,
           \A s \in Sock :
              /\ Len(Stamps(s)') <= Len(Stamps(s))
              /\ \A i \in 1..Len(Stamps(s)') : Stamps(s)'[i] = Stamps(s)[i],
           Len(wire') >= Len(wire), Stamped' >= Stamped
    PROVE  StampInv'
<1>1. /\ DOMAIN wire = 1..Len(wire) /\ DOMAIN wire' = 1..Len(wire')
      /\ Len(wire) \in Nat /\ Len(wire') \in Nat
  BY Domain DEF WellFormed, TypeOK
<1>2. Stamped \in Int /\ Stamped' \in Int
  BY <1>1 DEF Stamped
<1>3. \A s \in Sock :
         /\ DOMAIN Stamps(s) = 1..Len(Stamps(s)) /\ Len(Stamps(s)) \in Nat
         /\ \A i \in DOMAIN Stamps(s) : Stamps(s)[i] \in Nat
         /\ DOMAIN Stamps(s)' = 1..Len(Stamps(s)') /\ Len(Stamps(s)') \in Nat
  <2> SUFFICES ASSUME NEW s \in Sock
               PROVE  /\ DOMAIN Stamps(s) = 1..Len(Stamps(s))
                      /\ Len(Stamps(s)) \in Nat
                      /\ \A i \in DOMAIN Stamps(s) : Stamps(s)[i] \in Nat
                      /\ DOMAIN Stamps(s)' = 1..Len(Stamps(s)')
                      /\ Len(Stamps(s)') \in Nat
    OBVIOUS
  <2>1. got'[s] \in Seq(Nat) /\ xErrQueue'[s] \in Seq(Nat)
    BY DEF WellFormed, TypeOK
  <2>2. Stamps(s)' \in Seq(Nat)
    BY <2>1, ConcatProperties DEF Stamps
  <2> QED
    BY <2>2, StampsSequence, Domain
<1>4. \A s \in Sock : \A i \in DOMAIN Stamps(s)' :
         i \in DOMAIN Stamps(s) /\ Stamps(s)'[i] = Stamps(s)[i]
  BY <1>3
<1>5. \A s \in Sock : \A i, j \in DOMAIN Stamps(s)' :
         i < j => Stamps(s)'[i] < Stamps(s)'[j]
  BY <1>4 DEF StampInv, StampsInOrder
<1>6. \A s \in Sock : \A i \in DOMAIN Stamps(s)' :
         Stamps(s)'[i] \in DOMAIN wire' /\ Stamps(s)'[i] <= Stamped'
  BY <1>1, <1>2, <1>3, <1>4 DEF StampInv, StampsInOrder
<1>7. \A s \in Sock : \A r \in Sock \ {s}, i \in DOMAIN Stamps(s)' :
         \A j \in DOMAIN Stamps(r)' : Stamps(s)'[i] # Stamps(r)'[j]
  BY <1>4 DEF StampInv, StampsInOrder
<1> QED
  BY <1>5, <1>6, <1>7 DEF StampInv, StampsInOrder

LEMMA SocketCallsStamps ==
    ASSUME WellFormed, WellFormed', StampInv, NEW s \in Sock, SocketCalls(s)
    PROVE  StampInv'
<1>1. UNCHANGED <<wire, ctl>>
  BY DEF SocketCalls, FreeRTOS_TSN_socket, FreeRTOS_TSN_bind,
         FreeRTOS_TSN_setsockopt, RecvErrQueue
<1>2. /\ Len(wire) \in Nat /\ Stamped' = Stamped
      /\ Len(wire') >= Len(wire) /\ Stamped' >= Stamped
  BY <1>1, Elements DEF Stamped
<1>3. xErrQueue \in [Sock -> Seq(Nat)] /\ got \in [Sock -> Seq(Nat)]
  BY DEF WellFormed, TypeOK
<1>4. \A r \in Sock : Len(Stamps(r)) \in Nat
  BY StampsSequence
<1>5. ASSUME \A r \in Sock : Stamps(r)' = Stamps(r)
      PROVE  StampInv'
  BY <1>2, <1>4, <1>5, NoStampMade
<1>6. ASSUME UNCHANGED <<xErrQueue, got>>
      PROVE  StampInv'
  BY <1>5, <1>6 DEF Stamps
<1>7. ASSUME NEW flags \in BOOLEAN, FreeRTOS_TSN_setsockopt(s, flags)
      PROVE  StampInv'
  <2>1. got' = got /\ xErrQueue' = [xErrQueue EXCEPT ![s] = <<>>]
    BY <1>7 DEF FreeRTOS_TSN_setsockopt
  <2>2. \A r \in Sock : r # s => Stamps(r)' = Stamps(r)
    BY <1>3, <2>1 DEF Stamps
  <2>3. Stamps(s)' = got[s]
    BY <1>3, <2>1, ConcatEmptySeq DEF Stamps
  <2>4. /\ Len(got[s]) <= Len(Stamps(s))
        /\ \A i \in 1..Len(got[s]) : Stamps(s)[i] = got[s][i]
    <3>1. got[s] \in Seq(Nat) /\ xErrQueue[s] \in Seq(Nat)
      BY <1>3
    <3> QED
      BY <3>1, Prefix DEF Stamps
  <2> QED
    BY <1>2, <1>4, <2>2, <2>3, <2>4, NoStampMade
<1>8. CASE RecvErrQueue(s)
  <2>1. /\ xErrQueue[s] # <<>>
        /\ got' = [got EXCEPT ![s] = Append(got[s], Head(xErrQueue[s]))]
        /\ xErrQueue' = [xErrQueue EXCEPT ![s] = Tail(xErrQueue[s])]
    BY <1>8 DEF RecvErrQueue
  <2>2. \A r \in Sock : r # s => Stamps(r)' = Stamps(r)
    BY <1>3, <2>1 DEF Stamps
  <2>3. Stamps(s)' = Append(got[s], Head(xErrQueue[s])) \o Tail(xErrQueue[s])
    BY <1>3, <2>1 DEF Stamps
  <2>4. Stamps(s)' = Stamps(s)
    BY <1>3, <2>1, <2>3, HeadMoves DEF Stamps
  <2> QED
    BY <1>5, <2>2, <2>4
<1>9. ASSUME NEW flags \in BOOLEAN, NEW ok \in BOOLEAN,
             FreeRTOS_TSN_socket(s, flags, ok)
      PROVE  StampInv'
  BY <1>6, <1>9 DEF FreeRTOS_TSN_socket
<1>10. CASE FreeRTOS_TSN_bind(s)
  BY <1>6, <1>10 DEF FreeRTOS_TSN_bind
<1> QED
  BY <1>7, <1>8, <1>9, <1>10 DEF SocketCalls

\* The header made for the last frame on the wire.
LEMMA InsertHeaderStamps ==
    ASSUME WellFormed, WellFormed', StampInv, InsertHeader
    PROVE  StampInv'
<1>1. PICK s \in Sock, h \in Nat : s = ctl.to /\ h = ctl.stamp
  BY DEF WellFormed, TypeOK, Shape, InsertHeader
<1>2. /\ ctl.at = "insert" /\ h = Len(wire) /\ wire # <<>>
      /\ xErrQueue \in [Sock -> Seq(Nat)] /\ got \in [Sock -> Seq(Nat)]
      /\ wire \in Seq(Sent)
  BY <1>1 DEF WellFormed, TypeOK, Shape, InsertHeader
<1>3. /\ got' = got /\ wire' = wire /\ ctl'.at = "pop"
      /\ xErrQueue' = [xErrQueue EXCEPT ![s] = ErrorQueueInsert(s, h)]
  BY <1>1 DEF InsertHeader, Controller, Idle
<1>4. Stamped = h - 1 /\ Stamped' = h
  BY <1>2, <1>3 DEF Stamped
<1>5. \A r \in Sock : r # s => Stamps(r)' = Stamps(r)
  BY <1>2, <1>3 DEF Stamps
<1>6. CASE ~(Len(xErrQueue[s]) < ErrLen)
  <2>1. \A r \in Sock : Stamps(r)' = Stamps(r)
    BY <1>2, <1>3, <1>5, <1>6 DEF Stamps, ErrorQueueInsert
  <2>2. Len(wire') >= Len(wire) /\ Stamped' >= Stamped
    BY <1>2, <1>3, <1>4
  <2>3. \A r \in Sock : /\ Len(Stamps(r)') <= Len(Stamps(r))
                        /\ \A i \in 1..Len(Stamps(r)') :
                              Stamps(r)'[i] = Stamps(r)[i]
    BY <2>1, StampsSequence
  <2> QED
    BY <2>2, <2>3, NoStampMade
<1>7. CASE Len(xErrQueue[s]) < ErrLen
  <2>1. Stamps(s)' = got[s] \o Append(xErrQueue[s], h)
    BY <1>2, <1>3, <1>7 DEF Stamps, ErrorQueueInsert
  <2>2. PICK n \in Nat : n = Len(Stamps(s))
    BY StampsSequence
  <2>3. /\ Len(Stamps(s)') = n + 1
        /\ \A i \in 1..n : Stamps(s)'[i] = Stamps(s)[i]
        /\ Stamps(s)'[n + 1] = h
    BY <1>2, <2>1, <2>2, LastStamp, SMTT(30) DEF Stamps
  <2>4. DOMAIN Stamps(s) = 1..n /\ DOMAIN Stamps(s)' = 1..(n + 1)
    <3>1. Append(xErrQueue[s], h) \in Seq(Nat) /\ got[s] \in Seq(Nat)
      BY <1>2, Appended
    <3>2. Stamps(s)' \in Seq(Nat)
      BY <2>1, <3>1, Joined
    <3> QED
      BY <2>2, <2>3, <3>2, Domain, StampsSequence
  <2>5. h \in DOMAIN wire
    <3>1. Len(wire) # 0 /\ DOMAIN wire = 1..Len(wire)
      BY <1>2, EmptySeq, LenProperties
    <3> QED
      BY <1>2, <3>1
  <2>6. \A r \in Sock : \A i \in DOMAIN Stamps(r) :
           Stamps(r)[i] \in Nat /\ Stamps(r)[i] < h
             /\ Stamps(r)[i] \in DOMAIN wire
    BY <1>4, StampsSequence DEF StampInv, StampsInOrder
  <2>7. \A i \in DOMAIN Stamps(s)' :
           \/ i \in DOMAIN Stamps(s) /\ Stamps(s)'[i] = Stamps(s)[i]
           \/ i = n + 1 /\ Stamps(s)'[i] = h
    BY <2>3, <2>4
  <2>8. \A r \in Sock : \A i, j \in DOMAIN Stamps(r)' :
           i < j => Stamps(r)'[i] < Stamps(r)'[j]
    <3>1. ASSUME NEW i \in DOMAIN Stamps(s)', NEW j \in DOMAIN Stamps(s)', i < j
          PROVE  Stamps(s)'[i] < Stamps(s)'[j]
      <4>1. i \in DOMAIN Stamps(s)
        BY <2>4, <3>1
      <4> QED
        BY <2>3, <2>4, <2>6, <2>7, <3>1, <4>1 DEF StampInv, StampsInOrder
    <3> QED
      BY <1>5, <3>1 DEF StampInv, StampsInOrder
  <2>9. \A r \in Sock : \A i \in DOMAIN Stamps(r)' :
           Stamps(r)'[i] \in DOMAIN wire /\ Stamps(r)'[i] <= h
    BY <1>5, <2>5, <2>6, <2>7
  <2>10. \A r \in Sock : \A p \in Sock \ {r}, i \in DOMAIN Stamps(r)' :
            \A j \in DOMAIN Stamps(p)' : Stamps(r)'[i] # Stamps(p)'[j]
    <3>1. ASSUME NEW p \in Sock \ {s}, NEW i \in DOMAIN Stamps(s)',
                 NEW j \in DOMAIN Stamps(p)
          PROVE  Stamps(s)'[i] # Stamps(p)[j]
      BY <2>6, <2>7 DEF StampInv, StampsInOrder
    <3> QED
      BY <1>5, <3>1 DEF StampInv, StampsInOrder
  <2> QED
    BY <1>3, <1>4, <2>8, <2>9, <2>10 DEF StampInv, StampsInOrder
<1> QED
  BY <1>6, <1>7

LEMMA StepStamps ==
    WellFormed /\ WellFormed' /\ StampInv /\ [Next]_vars => StampInv'
<1> SUFFICES ASSUME WellFormed, WellFormed', StampInv, [Next]_vars
             PROVE  StampInv'
  OBVIOUS
<1>1. Len(wire) \in Nat
  BY Elements
<1>2. ASSUME UNCHANGED <<xErrQueue, got>>,
             Len(wire') >= Len(wire), Stamped' >= Stamped
      PROVE  StampInv'
  BY <1>2, NoStampMade, StampsSequence DEF Stamps
<1>3. ASSUME UNCHANGED <<xErrQueue, got, wire>>,
             \/ ctl' = ctl
             \/ /\ ctl.at \in {"pop", "output"}
                /\ ctl'.at \in {"pop", "output", "fault"}
             \/ ctl'.at \in {"pop", "fill", "insert"}
                  /\ ctl.at \in {"lookup", "fill"}
      PROVE  StampInv'
  BY <1>1, <1>2, <1>3 DEF Stamped
<1>4. ASSUME NEW s \in Sock, SocketCalls(s)
      PROVE  StampInv'
  BY <1>4, SocketCallsStamps
<1>5. ASSUME NEW t \in Task, Sending(t) \/ \E b \in Buf : Allocate(t, b)
      PROVE  StampInv'
  BY <1>3, <1>5 DEF Sending, Insert, SendFails, IPTaskInsertFails, Allocate
<1>9. ASSUME NEW b \in Buf, KeeperReleases(b) \/ KeeperSends(b)
      PROVE  StampInv'
  BY <1>3, <1>9 DEF KeeperReleases, KeeperSends
<1>6. CASE Transmit
  <2>1. CASE PopItem
    BY <1>3, <2>1 DEF PopItem, Controller, Taken
  <2>7. CASE NoRoomForTag
    BY <1>3, <2>7 DEF NoRoomForTag, Controller, Idle, WellFormed, TypeOK
  <2>2. CASE OutputFails
    BY <1>3, <2>2 DEF OutputFails, Controller, Idle
  <2>3. CASE Output
    <3>1. wire \in Seq(Sent) /\ Passed \in Sent
      BY <2>3 DEF Output, Passed, Sent, Frame, WellFormed, TypeOK, Shape
    <3>2. Len(wire') = Len(wire) + 1
      BY <2>3, <3>1, Appended DEF Output
    <3>3. ctl.at = "output" /\ ctl'.at = "lookup" /\ UNCHANGED <<xErrQueue, got>>
      BY <2>3 DEF Output, Controller, WellFormed, TypeOK
    <3> QED
      BY <1>1, <1>2, <3>2, <3>3 DEF Stamped
  <2>4. CASE Lookup
    BY <1>3, <2>4 DEF Lookup, Controller, Idle, WellFormed, TypeOK
  <2>5. ASSUME NEW ok \in BOOLEAN, Fill(ok)
        PROVE  StampInv'
    BY <1>3, <2>5 DEF Fill, Controller, Idle, WellFormed, TypeOK
  <2>6. CASE InsertHeader
    BY <2>6, InsertHeaderStamps
  <2> QED
    BY <1>6, <2>1, <2>2, <2>3, <2>4, <2>5, <2>6, <2>7 DEF Transmit
<1>7. ASSUME NEW b \in Buf, MACReleases(b)
      PROVE  StampInv'
  BY <1>3, <1>7 DEF MACReleases
<1>8. CASE UNCHANGED vars
  BY <1>3, <1>8 DEF vars
<1> QED
  BY <1>4, <1>5, <1>6, <1>7, <1>8, <1>9 DEF Next

(***************************************************************************)
(* A socket reads its time stamps in the order its frames left, each frame *)
(* is stamped at most once and only after it left, whatever happens to the *)
(* error queue meanwhile: overflow, a reset by setsockopt(), a reader      *)
(* (NetworkWrapper.c:330-357, Sockets.c:45-51, 776-783).                   *)
(***************************************************************************)
THEOREM TransmissionStampsInOrder == Spec => []StampsInOrder
<1>1. StampInv => StampsInOrder
  BY DEF StampInv
<1> QED
  BY <1>1, InitWellFormed, StepWellFormed, InitStamps, StepStamps, PTL DEF Spec
=============================================================================

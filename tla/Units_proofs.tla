---------------------------- MODULE Units_proofs ----------------------------
(***************************************************************************)
(* Proofs about the modules that are checked each by itself: Datagrams,    *)
(* ControlMessages, Frames, BoundSockets and SchedulerTree.                *)
(***************************************************************************)
EXTENDS Datagrams, ControlMessages, Frames, BoundSockets, SchedulerTree,
        SequenceTheorems, TLAPS

(***************************************************************************)
(* Datagrams.                                                              *)
(***************************************************************************)

\* What is known of a frame under way besides its lengths.
OnTheWay(f) ==
    /\ f.data \in Nat /\ f.len \in Nat
    /\ f.udp = f.data + UDPHeader
    /\ f.len >= PayloadOffset(f.family) + f.data

DatagramsInv ==
    /\ wire # Nothing => OnTheWay(wire)
    /\ LengthsAgree
    /\ PayloadAndEight

\* The frames that sendto() and other hosts put on the wire.
LEMMA Sent ==
    ASSUME NEW family \in {"IPv4", "IPv6"}, NEW data \in PayloadLengths,
           UNCHANGED user, DatagramsInv,
           \/ \E vlans \in 0..3, cached \in BOOLEAN : sendto(family, data, vlans, cached)
           \/ \E proto \in {"UDP", "TCP"} : FrameArrives(family, proto, data)
    PROVE  DatagramsInv'
<1>1. /\ data \in Nat /\ MTU \in Nat /\ MTU >= 46 /\ MTU <= 65535
      /\ PayloadOffset("IPv4") = 42 /\ PayloadOffset("IPv6") = 62
      /\ MaxPayload("IPv4") = MTU - 28 /\ MaxPayload("IPv6") = MTU - 48
      /\ UDPHeader = 8 /\ ETHHeader = 14 /\ TagSize = 4
      /\ IPHeader("IPv4") = 20 /\ MinimumPacket = 60
  BY DatagramsAssumption
  DEF ETHHeader, UDPHeader, IPHeader, MinimumPacket, PayloadOffset, MaxPayload,
      TagSize
<1>2. PayloadAndEight'
  BY DEF DatagramsInv, PayloadAndEight
<1>3. ASSUME NEW vlans \in 0..3, NEW cached \in BOOLEAN,
             sendto(family, data, vlans, cached)
      PROVE  (wire' # Nothing => OnTheWay(wire')) /\ LengthsAgree'
  <2>1. CASE wire' = Nothing
    BY <2>1 DEF LengthsAgree
  <2>2. CASE wire' # Nothing
    <3>1. /\ family = "IPv4" /\ vlans \in Nat /\ data <= MaxPayload(family)
          /\ wire' = prvPrepareBufferUDPv4(data, vlans,
                        data + (PayloadOffset(family) + TagSize * vlans))
      BY <1>3, <2>2 DEF sendto
    <3>2. PICK x \in Nat : x = data + (42 + 4 * vlans)
      BY <1>1, <3>1
    <3>3. x - 42 - 4 * vlans = data
      BY <1>1, <3>1, <3>2
    <3>4. wire' = [ family |-> "IPv4", proto |-> "UDP", to |-> "peer",
                    data |-> data, tags |-> vlans,
                    ip |-> uint16(data + 20 + 8), udp |-> uint16(data + 8),
                    len |-> Larger(x, 60) ]
      <4>1. wire' = [ family |-> "IPv4", proto |-> "UDP", to |-> "peer",
                      data |-> data, tags |-> vlans,
                      ip |-> uint16(x - 42 - 4 * vlans + 20 + 8),
                      udp |-> uint16(x - 42 - 4 * vlans + 8),
                      len |-> Larger(x, 60) ]
        BY <1>1, <3>1, <3>2 DEF prvPrepareBufferUDPv4
      <4> QED
        BY <3>3, <4>1
    <3>5. ASSUME NEW n \in Nat, n <= 65535 PROVE uint16(n) = n
      BY <3>5 DEF uint16
    <3>6. uint16(data + 20 + 8) = data + 28 /\ uint16(data + 8) = data + 8
      <4>1. /\ data + 20 + 8 = data + 28 /\ data + 28 \in Nat /\ data + 8 \in Nat
            /\ data + 28 <= 65535 /\ data + 8 <= 65535
        BY <1>1, <3>1
      <4> QED
        BY <3>5, <4>1
    <3>7. /\ Larger(x, 60) \in Nat /\ Larger(x, 60) >= data + 42 + 4 * vlans
          /\ Larger(x, 60) <= MTU + 14 + 4 * vlans
      BY <1>1, <3>1, <3>2 DEF Larger
    <3>8. /\ wire'.family = "IPv4" /\ wire'.data = data /\ wire'.tags = vlans
          /\ wire'.ip = data + 28 /\ wire'.udp = data + 8
          /\ wire'.len = Larger(x, 60)
      BY <3>4, <3>6
    <3> QED
      BY <1>1, <3>1, <3>7, <3>8 DEF LengthsAgree, OnTheWay
  <2> QED
    BY <2>1, <2>2
<1>4. ASSUME NEW proto \in {"UDP", "TCP"}, FrameArrives(family, proto, data)
      PROVE  (wire' # Nothing => OnTheWay(wire')) /\ LengthsAgree'
  <2> DEFINE len == Larger(data + PayloadOffset(family), MinimumPacket)
  <2>1. /\ wire'.family = family /\ wire'.data = data /\ wire'.tags = 0
        /\ wire'.udp = data + UDPHeader /\ wire'.len = len
        /\ family = "IPv4" => wire'.ip = data + UDPHeader + 20
        /\ data <= MaxPayload(family)
    BY <1>1, <1>4 DEF FrameArrives
  <2>2. /\ len \in Nat /\ len >= PayloadOffset(family) + data
        /\ len <= MTU + 14
    <3>1. CASE family = "IPv4"
      BY <1>1, <2>1, <3>1 DEF Larger
    <3>2. CASE family = "IPv6"
      BY <1>1, <2>1, <3>2 DEF Larger
    <3> QED
      BY <3>1, <3>2
  <2> HIDE DEF len
  <2>3. PayloadOffset(family) \in Nat
    BY <1>1
  <2> QED
    BY <1>1, <2>1, <2>2, <2>3 DEF LengthsAgree, OnTheWay
<1> QED
  BY <1>2, <1>3, <1>4 DEF DatagramsInv

\* What recvmsg() hands over.
LEMMA Received ==
    ASSUME NEW n \in {0, 1, 2}, NEW size \in BufferSizes, DatagramsInv,
           recvmsg(n, size)
    PROVE  DatagramsInv'
<1>1. wire' = Nothing /\ OnTheWay(wire)
  BY DEF recvmsg, DatagramsInv
<1>2. (wire' # Nothing => OnTheWay(wire')) /\ LengthsAgree'
  BY <1>1 DEF LengthsAgree
<1> DEFINE f == wire
           src == prvMoveToStartOfPayload(f)
           len == IF n = 0 THEN 0 ELSE Smaller(size, src.size)
<1>3. user' = [at |-> src.at, len |-> len, iovlen |-> n, size |-> size, f |-> f]
  BY DEF recvmsg
<1>4. /\ user'.at = src.at /\ user'.iovlen = n /\ user'.size = size
      /\ user'.f = f /\ user'.len = len
  BY <1>3
<1>5. /\ size \in Nat /\ f.data \in Nat /\ f.len \in Nat
      /\ f.udp = f.data + UDPHeader
      /\ PayloadOffset(f.family) \in Nat
      /\ f.len >= PayloadOffset(f.family) + f.data
  BY <1>1, DatagramsAssumption DEF OnTheWay, PayloadOffset, IPHeader, ETHHeader,
     UDPHeader
<1>6. /\ src.at \in Nat /\ src.size \in Nat
      /\ src.at + src.size <= f.len + UDPHeader
      /\ f.proto = "UDP" => /\ src.at = PayloadOffset(f.family)
                            /\ src.size = f.data + UDPHeader
  <2> HIDE DEF f
  <2> QED
    BY <1>5 DEF prvMoveToStartOfPayload, UDPHeader
<1> HIDE DEF f, src
<1>7. /\ len \in Nat /\ (n > 0 => len <= size) /\ (n = 0 => len = 0)
      /\ len <= src.size
  BY <1>5, <1>6 DEF Smaller
<1>8. len <= n * size
  <2> HIDE DEF len
  <2>1. n = 0 \/ n = 1 \/ n = 2
    OBVIOUS
  <2> QED
    BY <1>5, <1>7, <2>1
<1>9. src.at + len <= f.len + UDPHeader
  <2> HIDE DEF len
  <2> QED
    BY <1>5, <1>6, <1>7 DEF UDPHeader
<1>10. f.proto = "UDP" /\ n > 0 => len = Smaller(size, f.data + UDPHeader)
  BY <1>6
<1> HIDE DEF len
<1>11. PayloadAndEight'
  BY <1>4, <1>6, <1>8, <1>9, <1>10 DEF PayloadAndEight, Smaller, PayloadOffset,
     IPHeader
<1> QED
  BY <1>2, <1>11 DEF DatagramsInv

LEMMA DatagramsInvariant == DatagramsSpec => []DatagramsInv
<1>1. DatagramsInit => DatagramsInv
  BY DEF DatagramsInit, DatagramsInv, LengthsAgree, PayloadAndEight
<1>2. DatagramsInv /\ [DatagramsNext]_dgramVars => DatagramsInv'
  <2> SUFFICES ASSUME DatagramsInv, [DatagramsNext]_dgramVars
               PROVE  DatagramsInv'
    OBVIOUS
  <2>1. CASE UNCHANGED dgramVars
    BY <2>1 DEF dgramVars, DatagramsInv, LengthsAgree, PayloadAndEight
  <2>2. ASSUME NEW size \in BufferSizes,
               recvfrom(size) \/ \E n \in {0, 2} : recvmsg(n, size)
        PROVE  DatagramsInv'
    BY <2>2, Received DEF recvfrom
  <2>3. ASSUME NEW family \in {"IPv4", "IPv6"}, NEW data \in PayloadLengths,
               \/ \E vlans \in 0..3, cached \in BOOLEAN :
                     sendto(family, data, vlans, cached)
               \/ \E proto \in {"UDP", "TCP"} : FrameArrives(family, proto, data)
        PROVE  DatagramsInv'
    BY <2>3, Sent DEF sendto, FrameArrives
  <2>4. CASE PeerReceives
    BY <2>4 DEF PeerReceives, DatagramsInv, LengthsAgree, PayloadAndEight
  <2> QED
    BY <2>1, <2>2, <2>3, <2>4 DEF DatagramsNext
<1> QED
  BY <1>1, <1>2, PTL DEF DatagramsSpec

(***************************************************************************)
(* Whatever the payload, the tags and the MTU, as long as 16 bits hold the *)
(* MTU, the headers of a frame that sendto() let through tell its payload, *)
(* none is cut short, and the frame keeps the MTU (Sockets.c:135, 195-248, *)
(* 658-699).                                                               *)
(***************************************************************************)
THEOREM DatagramLengths == DatagramsSpec => []LengthsAgree
<1>1. DatagramsInv => LengthsAgree
  BY DEF DatagramsInv
<1> QED
  BY <1>1, DatagramsInvariant, PTL

(***************************************************************************)
(* recvmsg() never writes past the buffers of its user, of any size: it    *)
(* delivers what fits of the payload and of the 8 bytes behind it, and     *)
(* reads no further past the frame (Sockets.c:301-344, 869-888, 932-963).  *)
(***************************************************************************)
THEOREM DatagramPayload == DatagramsSpec => []PayloadAndEight
<1>1. DatagramsInv => PayloadAndEight
  BY DEF DatagramsInv
<1> QED
  BY <1>1, DatagramsInvariant, PTL
-----------------------------------------------------------------------------
(***************************************************************************)
(* Control messages: ownership of the blocks.                              *)
(***************************************************************************)
LeakInv ==
    /\ FreedWhole
    /\ phase \in {"none", "space", "discard"} => fields = {}
    /\ fields \subseteq {"msg_control", "msg_name", "msg_iov"}
    /\ phase = "fill" => fields = {"msg_control"}

LEMMA LeakStep ==
    ASSUME LeakInv, [ControlNext]_controlVars
    PROVE  LeakInv'
<1> USE DEF LeakInv, FreedWhole
<1>1. ASSUME NEW k \in {"Rx", "Tx"}, NEW m \in 0..MaxMsgs,
             NEW vec \in [1..m -> DataLens], pxAncillaryMsgMalloc(k, vec)
      PROVE  LeakInv'
  BY <1>1 DEF pxAncillaryMsgMalloc
<1>2. CASE SpaceIterate
  BY <1>2 DEF SpaceIterate
<1>3. ASSUME NEW ok \in BOOLEAN, ControlMalloc(ok)
      PROVE  LeakInv'
  BY <1>3 DEF ControlMalloc, Allocate, Filled
<1>4. CASE FillIterate
  BY <1>4 DEF FillIterate, Filled
<1>5. CASE FillReturn
  BY <1>5 DEF FillReturn, Filled
<1>6. ASSUME NEW ok \in BOOLEAN,
             xAncillaryMsgFillName(ok) \/ xAncillaryMsgFillPayload(ok)
      PROVE  LeakInv'
  BY <1>6 DEF xAncillaryMsgFillName, xAncillaryMsgFillPayload, FillField,
              Allocate
<1>7. ASSUME FreeUnfilled \/ FreeForPlainSocket \/ LeaveReceived \/ LeaveStamp
             \/ DeliverNoPayload
      PROVE  LeakInv'
  BY <1>7 DEF FreeUnfilled, FreeForPlainSocket, LeaveReceived, LeaveStamp,
              DeliverNoPayload, Leaves, vAncillaryMsgFree, vAncillaryMsgFreeAll
<1>11. ASSUME NEW k \in {"Rx", "Tx"}, HeaderMallocFails(k)
       PROVE  LeakInv'
  BY <1>11 DEF HeaderMallocFails
<1>8. ASSUME NEW size \in UserSizes, Receive(size)
      PROVE  LeakInv'
  BY <1>8 DEF Receive, vAncillaryMsgFreeAll
<1>9. ASSUME NEW k \in DOMAIN cmsgs, WalkIterate(k)
      PROVE  LeakInv'
  BY <1>9 DEF WalkIterate
<1>10. CASE UNCHANGED controlVars
  BY <1>10 DEF controlVars
<1> QED
  BY <1>1, <1>2, <1>3, <1>4, <1>5, <1>6, <1>7, <1>8, <1>9, <1>10,
     <1>11
  DEF ControlNext

(***************************************************************************)
(* Whichever allocations fail, every block can be reached from the header  *)
(* while it is in use, and a caller that frees it leaves none behind, the  *)
(* one included that frees the header alone: an unfilled header has no     *)
(* other block (Ancillary.c:74-92, 242-268, NetworkWrapper.c:352).  The    *)
(* callers that leave a header behind lose it and its blocks.              *)
(***************************************************************************)
THEOREM ControlFreedWhole == ControlSpec => []FreedWhole
<1>1. ControlInit => LeakInv
  BY DEF ControlInit, LeakInv, FreedWhole
<1>2. LeakInv => FreedWhole
  BY DEF LeakInv
<1> QED
  BY <1>1, <1>2, LeakStep, PTL DEF ControlSpec

(***************************************************************************)
(* Control messages: their places.                                         *)
(***************************************************************************)
ControlTypes ==
    /\ phase \in {"none", "space", "fill", "name", "payload", "queued",
                  "discard", "walk", "done", "leaked", "fault"}
    /\ kind \in {"Rx", "Tx"}
    /\ lens \in Seq(Nat) /\ plan \in Seq(Nat)
    /\ cmsgs \in Seq(Nat) /\ found \in Seq(Nat)
    /\ msg_controllen \in Nat /\ copied \in Nat
    /\ pxCmsghIter \in Nat \cup {NULL}

LEMMA HeadTail ==
    ASSUME NEW S, NEW q \in Seq(S), q # <<>>
    PROVE  /\ Head(q) \in S
           /\ Head(q) = q[1]
           /\ Tail(q) \in Seq(S)
           /\ Len(q) \in Nat \ {0}
           /\ Len(Tail(q)) = Len(q) - 1
           /\ \A k \in 1..Len(Tail(q)) : Tail(q)[k] = q[k + 1]
  BY HeadTailProperties, LenProperties, EmptySeq

LEMMA Appended ==
    ASSUME NEW S, NEW q \in Seq(S), NEW x \in S
    PROVE  /\ Append(q, x) \in Seq(S)
           /\ Len(q) \in Nat
           /\ Len(Append(q, x)) = Len(q) + 1
           /\ \A k \in 1..Len(q) : Append(q, x)[k] = q[k]
           /\ Append(q, x)[Len(q) + 1] = x
  BY AppendProperties, LenProperties

LEMMA Quotient ==
    ASSUME NEW x \in Nat, x > 0, NEW q \in Nat, NEW r \in 0..(x - 1)
    PROVE  (q * x + r) \div x = q
BY SMT

LEMMA Divided ==
    ASSUME NEW x \in Nat, x > 0, NEW a \in Nat
    PROVE  \E q \in Nat, r \in 0..(x - 1) : a = q * x + r /\ q = a \div x
<1>1. /\ a \div x \in Nat /\ a % x \in 0..(x - 1)
      /\ a = x * (a \div x) + (a % x)
  BY SMT
<1>2. x * (a \div x) = (a \div x) * x
  BY <1>1
<1> QED
  BY <1>1, <1>2

\* What CMSG_ALIGN() returns: enough, and a multiple, which can be taken out
\* of what is aligned again.
LEMMA Aligned ==
    ASSUME NEW a \in Nat
    PROVE  /\ CMSG_ALIGN(a) \in Nat
           /\ CMSG_ALIGN(a) >= a
           /\ \A b \in Nat : CMSG_ALIGN(CMSG_ALIGN(a) + b)
                                = CMSG_ALIGN(a) + CMSG_ALIGN(b)
<1> DEFINE x == LongSize
<1>1. x \in Nat /\ x > 0
  BY ControlAssumption
<1>2. PICK q \in Nat, r \in 0..(x - 1) :
         a + x - 1 = q * x + r /\ q = (a + x - 1) \div x
  <2>1. a + x - 1 \in Nat
    BY <1>1
  <2> HIDE DEF x
  <2> QED
    BY <1>1, <2>1, Divided
<1>3. q * x \in Nat
  BY <1>1
<1>4. CMSG_ALIGN(a) = q * x
  BY <1>2 DEF CMSG_ALIGN
<1>5. CMSG_ALIGN(a) >= a
  <2> HIDE DEF x
  <2> DEFINE p == q * x
  <2>1. p \in Nat /\ a + x - 1 = p + r
    BY <1>2, <1>3
  <2> HIDE DEF p
  <2>2. p >= a
    BY <1>1, <2>1
  <2> QED
    BY <1>4, <2>2 DEF p
<1>6. ASSUME NEW b \in Nat
      PROVE  CMSG_ALIGN(q * x + b) = q * x + CMSG_ALIGN(b)
  <2>1. PICK u \in Nat, v \in 0..(x - 1) :
           b + x - 1 = u * x + v /\ u = (b + x - 1) \div x
    <3>1. b + x - 1 \in Nat
      BY <1>1
    <3> HIDE DEF x
    <3> QED
      BY <1>1, <3>1, Divided
  <2>2. CMSG_ALIGN(b) = u * x
    BY <2>1 DEF CMSG_ALIGN
  <2>3. (q + u) * x = q * x + u * x
    BY <1>1
  <2>4. (q * x + b) + x - 1 = (q + u) * x + v
    <3> DEFINE p == q * x
               w == u * x
    <3>1. p \in Nat /\ w \in Nat /\ b + x - 1 = w + v /\ (q + u) * x = p + w
      BY <1>1, <2>1, <2>3
    <3> HIDE DEF p, w, x
    <3>2. (p + b) + x - 1 = (p + w) + v
      BY <1>1, <3>1
    <3> QED
      BY <3>1, <3>2 DEF p
  <2>5. ((q * x + b) + x - 1) \div x = q + u
    <3> HIDE DEF x
    <3>1. ((q + u) * x + v) \div x = q + u
      BY <1>1, Quotient
    <3> QED
      BY <2>4, <3>1
  <2> QED
    BY <2>2, <2>3, <2>5 DEF CMSG_ALIGN
<1> QED
  BY <1>3, <1>4, <1>5, <1>6

\* The end of the k-th message, planned at p[k] for l[k] bytes of data.
EndIn(p, l, k) == p[k] + CMSG_SPACE(l[k])

\* The places p follow each other from the start of a buffer of t bytes to
\* its end.
PlannedIn(p, l, t) ==
    /\ Len(p) <= Len(l)
    /\ Len(p) = 0 => t = 0
    /\ Len(p) > 0 => p[1] = 0 /\ EndIn(p, l, Len(p)) = t
    /\ \A k \in 1..Len(p) : k < Len(p) => p[k + 1] = EndIn(p, l, k)
    /\ \A k \in 1..Len(p) : EndIn(p, l, k) <= t
    /\ \A i, k \in 1..Len(p) : i < k => EndIn(p, l, i) <= p[k]

Planned == PlannedIn(plan, lens, msg_controllen)

\* The messages written are at the places planned for them.
AsPlanned ==
    /\ Len(cmsgs) <= Len(plan)
    /\ \A k \in 1..Len(cmsgs) : cmsgs[k] = plan[k]

Complete ==
    /\ Planned /\ AsPlanned
    /\ Len(plan) = Len(lens) /\ Len(cmsgs) = Len(plan)

\* The first message the walk has not found, if its header was copied.
NextFound ==
    LET n == Len(found) + 1
    IN  IF n <= Len(cmsgs) /\ cmsgs[n] + HdrSize <= copied THEN cmsgs[n] ELSE NULL

PlaceInv ==
    /\ phase = "none" => /\ plan = <<>> /\ cmsgs = <<>> /\ found = <<>>
                         /\ msg_controllen = 0 /\ copied = 0
    /\ phase = "space" => Planned /\ cmsgs = <<>> /\ lens # <<>>
    /\ phase = "fill" =>
         /\ Planned /\ AsPlanned
         /\ Len(plan) = Len(lens)
         /\ Len(cmsgs) < Len(plan) => pxCmsghIter = plan[Len(cmsgs) + 1]
    /\ phase \in {"name", "payload", "queued", "walk"} =>
         Complete \/ (cmsgs = <<>> /\ msg_controllen = 0)
    /\ phase # "walk" => found = <<>>
    /\ phase = "walk" =>
         /\ copied <= msg_controllen
         /\ Len(found) <= Len(cmsgs)
         /\ \A k \in 1..Len(found) : found[k] = k
         /\ pxCmsghIter = NextFound

ControlInv == ControlTypes /\ PlaceInv

LEMMA Spaces ==
    ASSUME NEW l \in Nat
    PROVE  /\ CMSG_SPACE(l) \in Nat /\ CMSG_SPACE(l) >= HdrSize
           /\ CMSG_LEN(l) \in Nat /\ CMSG_LEN(l) <= CMSG_SPACE(l)
           /\ CMSG_ALIGN(CMSG_LEN(l)) = CMSG_SPACE(l)
<1> DEFINE h == CMSG_ALIGN(HdrSize)
           d == CMSG_ALIGN(l)
<1>1. h \in Nat /\ h >= HdrSize /\ HdrSize \in Nat
  BY Aligned, ControlAssumption
<1>2. d \in Nat /\ d >= l
  BY Aligned
<1>3. CMSG_ALIGN(h + l) = h + d
  BY Aligned, ControlAssumption
<1>4. CMSG_SPACE(l) = h + d /\ CMSG_LEN(l) = h + l
  BY DEF CMSG_SPACE, CMSG_LEN
<1> HIDE DEF h, d
<1> QED
  BY <1>1, <1>2, <1>3, <1>4

\* The numbers in the sequences.
LEMMA Numbers ==
    ASSUME ControlTypes
    PROVE  /\ Len(lens) \in Nat /\ Len(plan) \in Nat
           /\ Len(cmsgs) \in Nat /\ Len(found) \in Nat
           /\ \A k \in 1..Len(lens) : lens[k] \in Nat
           /\ \A k \in 1..Len(plan) : plan[k] \in Nat
           /\ \A k \in 1..Len(cmsgs) : cmsgs[k] \in Nat
           /\ DOMAIN cmsgs = 1..Len(cmsgs)
           /\ DOMAIN found = 1..Len(found)
  BY LenProperties, ElementOfSeq DEF ControlTypes

LEMMA Ends ==
    ASSUME NEW p \in Seq(Nat), NEW l \in Seq(Nat), Len(p) <= Len(l),
           NEW k \in 1..Len(p)
    PROVE  /\ p[k] \in Nat /\ l[k] \in Nat /\ k \in 1..Len(l)
           /\ EndIn(p, l, k) \in Nat /\ EndIn(p, l, k) >= p[k] + HdrSize
<1>1. k \in 1..Len(l)
  BY LenProperties
<1>2. p[k] \in Nat /\ l[k] \in Nat
  BY <1>1, ElementOfSeq
<1>3. CMSG_SPACE(l[k]) \in Nat /\ CMSG_SPACE(l[k]) >= HdrSize
  BY <1>2, Spaces
<1> QED
  BY <1>1, <1>2, <1>3, ControlAssumption, SMTT(30) DEF EndIn

\* One more message is planned, after the others.
LEMMA OneMore ==
    ASSUME NEW p \in Seq(Nat), NEW l \in Seq(Nat), NEW t \in Nat,
           PlannedIn(p, l, t), Len(p) < Len(l),
           NEW q, q = Append(p, t),
           NEW s, s = t + CMSG_SPACE(l[Len(p) + 1])
    PROVE  q \in Seq(Nat) /\ s \in Nat /\ PlannedIn(q, l, s)
<1>1. PICK n \in Nat : n = Len(p)
  BY LenProperties
<1>2. /\ q \in Seq(Nat) /\ Len(q) = n + 1
      /\ \A k \in 1..n : q[k] = p[k]
      /\ q[n + 1] = t
  BY <1>1, Appended
<1>3. Len(l) \in Nat /\ n + 1 \in 1..Len(l) /\ l[n + 1] \in Nat
  BY <1>1, LenProperties, ElementOfSeq
<1>4. PICK c \in Nat : c = CMSG_SPACE(l[n + 1])
  BY <1>3, Spaces
<1>5. s = t + c /\ s \in Nat
  BY <1>1, <1>4
<1>6. \A k \in 1..n : EndIn(q, l, k) = EndIn(p, l, k)
  BY <1>2 DEF EndIn
<1>7. EndIn(q, l, n + 1) = s
  BY <1>2, <1>4, <1>5 DEF EndIn
<1>8. /\ n = 0 => t = 0
      /\ n > 0 => p[1] = 0 /\ EndIn(p, l, n) = t
      /\ \A k \in 1..n : k < n => p[k + 1] = EndIn(p, l, k)
      /\ \A k \in 1..n : EndIn(p, l, k) <= t
      /\ \A i, k \in 1..n : i < k => EndIn(p, l, i) <= p[k]
  BY <1>1 DEF PlannedIn
<1>9. \A k \in 1..n : EndIn(p, l, k) \in Nat
  BY <1>1, Ends DEF PlannedIn
<1>10. Len(q) <= Len(l) /\ Len(q) # 0
  BY <1>2, <1>3
<1>11. q[1] = 0 /\ EndIn(q, l, Len(q)) = s
  BY <1>2, <1>7, <1>8
<1>12. \A k \in 1..(n + 1) : k \in 1..n \/ k = n + 1
  OBVIOUS
<1>13. ASSUME NEW k \in 1..(n + 1), k < n + 1
       PROVE  q[k + 1] = EndIn(q, l, k)
  <2>1. k \in 1..n
    BY <1>13
  <2>2. CASE k < n
    <3>1. k + 1 \in 1..n
      BY <2>1, <2>2
    <3> QED
      BY <1>2, <1>6, <1>8, <2>1, <2>2, <3>1
  <2>3. CASE k = n
    BY <1>2, <1>6, <1>8, <2>1, <2>3
  <2>4. k < n \/ k = n
    BY <2>1
  <2> HIDE DEF EndIn
  <2> QED
    BY <2>2, <2>3, <2>4
<1>14. ASSUME NEW k \in 1..(n + 1)
       PROVE  EndIn(q, l, k) <= s
  <2>1. CASE k \in 1..n
    <3>1. EndIn(q, l, k) \in Nat /\ EndIn(q, l, k) <= t
      BY <1>6, <1>8, <1>9, <2>1
    <3> QED
      BY <1>5, <3>1
  <2>2. CASE k = n + 1
    BY <1>5, <1>7, <2>2
  <2> QED
    BY <1>12, <2>1, <2>2
<1>15. ASSUME NEW i \in 1..(n + 1), NEW k \in 1..(n + 1), i < k
       PROVE  EndIn(q, l, i) <= q[k]
  <2>1. i \in 1..n
    BY <1>15
  <2>2. CASE k \in 1..n
    BY <1>2, <1>6, <1>8, <1>15, <2>1, <2>2
  <2>3. CASE k = n + 1
    BY <1>2, <1>6, <1>8, <2>1, <2>3
  <2> QED
    BY <1>12, <2>2, <2>3
<1> QED
  BY <1>2, <1>5, <1>10, <1>11, <1>13, <1>14, <1>15 DEF PlannedIn

LEMMA InitControl == ControlInit => ControlInv
<1> SUFFICES ASSUME ControlInit PROVE ControlInv
  OBVIOUS
<1>1. <<>> \in Seq(Nat)
  BY EmptySeq
<1> QED
  BY <1>1 DEF ControlInit, ControlInv, ControlTypes, PlaceInv

LEMMA MallocStep ==
    ASSUME ControlInv, NEW k \in {"Rx", "Tx"}, NEW m \in 0..MaxMsgs,
           NEW vec \in [1..m -> DataLens], pxAncillaryMsgMalloc(k, vec)
    PROVE  ControlInv'
<1>1. /\ phase = "none" /\ kind' = k /\ lens' = vec
      /\ phase' = IF vec # <<>> THEN "space" ELSE IF k = "Rx" THEN "name" ELSE "discard"
      /\ UNCHANGED <<msg_controllen, pxCmsghIter, plan, cmsgs, copied, found>>
  BY DEF pxAncillaryMsgMalloc
<1>2. vec \in Seq(Nat)
  <2>1. vec \in Seq(DataLens)
    BY ControlAssumption, SeqDef
  <2> QED
    BY <2>1, ControlAssumption, SeqMonotonic
<1>3. ControlTypes'
  BY <1>1, <1>2 DEF ControlInv, ControlTypes
<1>4. /\ plan = <<>> /\ cmsgs = <<>> /\ found = <<>> /\ Len(plan) = 0
      /\ msg_controllen = 0 /\ Len(vec) \in Nat
  BY <1>1, <1>2, EmptySeq, LenProperties DEF ControlInv, PlaceInv
<1>5. Planned'
  BY <1>1, <1>4 DEF Planned, PlannedIn
<1> QED
  BY <1>1, <1>3, <1>4, <1>5 DEF ControlInv, PlaceInv

LEMMA SpaceStep ==
    ASSUME ControlInv, SpaceIterate
    PROVE  ControlInv'
<1>1. /\ phase = "space" /\ Len(plan) < Len(lens)
      /\ plan' = Append(plan, msg_controllen)
      /\ msg_controllen' = msg_controllen + CMSG_SPACE(lens[Len(plan) + 1])
      /\ UNCHANGED <<phase, kind, lens, pxCmsghIter, cmsgs, copied, found>>
  BY DEF SpaceIterate
<1>2. ControlTypes /\ Planned /\ cmsgs = <<>> /\ lens # <<>> /\ found = <<>>
  BY <1>1 DEF ControlInv, PlaceInv
<1>3. plan \in Seq(Nat) /\ lens \in Seq(Nat) /\ msg_controllen \in Nat
  BY <1>2 DEF ControlTypes
<1>4. plan' \in Seq(Nat) /\ msg_controllen' \in Nat
      /\ PlannedIn(plan', lens, msg_controllen')
  BY <1>1, <1>2, <1>3, OneMore DEF Planned
<1>5. ControlTypes'
  BY <1>1, <1>2, <1>4 DEF ControlTypes
<1>6. Planned'
  BY <1>1, <1>4 DEF Planned
<1> QED
  BY <1>1, <1>2, <1>5, <1>6 DEF ControlInv, PlaceInv

\* The header after the k-th is where the next message is planned.
LEMMA NextPlanned ==
    ASSUME NEW p \in Seq(Nat), NEW l \in Seq(Nat), NEW t \in Nat,
           PlannedIn(p, l, t), NEW k \in 1..Len(p), NEW size \in Nat, size <= t
    PROVE  CMSG_NXTHDR(size, p[k], CMSG_LEN(l[k])) =
              IF k < Len(p) /\ p[k + 1] + HdrSize <= size THEN p[k + 1] ELSE NULL
<1>1. PICK n \in Nat : n = Len(p)
  BY LenProperties
<1>2. /\ p[k] \in Nat /\ l[k] \in Nat
      /\ EndIn(p, l, k) \in Nat
  BY Ends DEF PlannedIn
<1>3. p[k] + CMSG_ALIGN(CMSG_LEN(l[k])) = EndIn(p, l, k)
  BY <1>2, Spaces DEF EndIn
<1>4. HdrSize \in Nat /\ HdrSize > 0
  BY ControlAssumption
<1>5. CASE k < n
  <2>1. p[k + 1] = EndIn(p, l, k)
    BY <1>1, <1>5 DEF PlannedIn
  <2> HIDE DEF EndIn
  <2> QED
    BY <1>1, <1>2, <1>3, <1>4, <1>5, <2>1 DEF CMSG_NXTHDR
<1>6. CASE k = n
  <2>1. EndIn(p, l, k) = t
    BY <1>1, <1>6 DEF PlannedIn
  <2> HIDE DEF EndIn
  <2> QED
    BY <1>1, <1>2, <1>3, <1>4, <1>6, <2>1 DEF CMSG_NXTHDR
<1> QED
  BY <1>1, <1>5, <1>6

\* What fits before the next place, and where the places start and end.
LEMMA Places ==
    ASSUME NEW p \in Seq(Nat), NEW l \in Seq(Nat), NEW t \in Nat,
           PlannedIn(p, l, t), NEW k \in 1..Len(p)
    PROVE  /\ p[1] = 0
           /\ p[k] \in Nat /\ l[k] \in Nat
           /\ p[k] + HdrSize <= t
           /\ p[k] + CMSG_LEN(l[k]) <= IF k < Len(p) THEN p[k + 1] ELSE t
           /\ \A i \in 1..Len(p) : p[i] = p[k] => i = k
<1>1. PICK n \in Nat : n = Len(p)
  BY LenProperties
<1>2. \A i \in 1..n : /\ p[i] \in Nat /\ l[i] \in Nat
                      /\ EndIn(p, l, i) \in Nat
                      /\ EndIn(p, l, i) >= p[i] + HdrSize
                      /\ EndIn(p, l, i) <= t
  BY <1>1, Ends DEF PlannedIn
<1>3. HdrSize \in Nat /\ HdrSize > 0
  BY ControlAssumption
<1>4. p[1] = 0
  BY <1>1 DEF PlannedIn
<1>5. p[k] + HdrSize <= t
  BY <1>1, <1>2, <1>3
<1>6. CMSG_LEN(l[k]) \in Nat /\ p[k] + CMSG_LEN(l[k]) <= EndIn(p, l, k)
  <2>1. p[k] \in Nat /\ l[k] \in Nat
    BY <1>1, <1>2
  <2>2. /\ CMSG_LEN(l[k]) \in Nat /\ CMSG_SPACE(l[k]) \in Nat
        /\ CMSG_LEN(l[k]) <= CMSG_SPACE(l[k])
    BY <2>1, Spaces
  <2>3. EndIn(p, l, k) = p[k] + CMSG_SPACE(l[k])
    BY DEF EndIn
  <2> QED
    BY <2>1, <2>2, <2>3
<1>7. EndIn(p, l, k) = IF k < Len(p) THEN p[k + 1] ELSE t
  BY <1>1 DEF PlannedIn
<1>8. ASSUME NEW i \in 1..n, NEW j \in 1..n, i < j
      PROVE  p[i] # p[j]
  <2>1. EndIn(p, l, i) <= p[j]
    BY <1>1, <1>8 DEF PlannedIn
  <2> QED
    BY <1>2, <1>3, <2>1, SMTT(30)
<1>9. \A i \in 1..n : p[i] = p[k] => i = k
  <2> SUFFICES ASSUME NEW i \in 1..n, p[i] = p[k], i # k PROVE FALSE
    OBVIOUS
  <2>1. i < k \/ k < i
    BY <1>1
  <2> QED
    BY <1>1, <1>8, <2>1
<1> QED
  BY <1>1, <1>2, <1>4, <1>5, <1>6, <1>7, <1>9

LEMMA ControlMallocStep ==
    ASSUME ControlInv, NEW ok \in BOOLEAN, ControlMalloc(ok)
    PROVE  ControlInv'
<1>1. /\ phase = "space" /\ Len(plan) = Len(lens)
      /\ UNCHANGED <<kind, lens, plan, cmsgs, copied, found>>
  BY DEF ControlMalloc
<1>2. ControlTypes /\ Planned /\ cmsgs = <<>> /\ lens # <<>> /\ found = <<>>
  BY <1>1 DEF ControlInv, PlaceInv
<1>3. plan \in Seq(Nat) /\ lens \in Seq(Nat) /\ msg_controllen \in Nat
  BY <1>2 DEF ControlTypes
<1>4. /\ 1 \in 1..Len(plan) /\ Len(plan) \in Nat
  BY <1>1, <1>2, <1>3, EmptySeq, LenProperties
<1>5. plan[1] = 0 /\ HdrSize \in Nat /\ HdrSize <= msg_controllen
  BY <1>2, <1>3, <1>4, Places, ControlAssumption DEF Planned
<1>6. CASE ok
  <2>1. /\ phase' = "fill" /\ msg_controllen' = msg_controllen
        /\ pxCmsghIter' = 0
    BY <1>3, <1>5, <1>6 DEF ControlMalloc, CMSG_FIRSTHDR
  <2>2. Planned' /\ AsPlanned' /\ Len(cmsgs') = 0 /\ pxCmsghIter' = plan'[1]
    BY <1>1, <1>2, <1>4, <1>5, <2>1 DEF Planned, AsPlanned
  <2>3. ControlTypes'
    BY <1>1, <1>2, <2>1 DEF ControlTypes
  <2> QED
    BY <1>1, <1>2, <2>1, <2>2, <2>3 DEF ControlInv, PlaceInv
<1>7. CASE ~ok
  <2>1. /\ phase' \in {"name", "discard"} /\ msg_controllen' = 0
        /\ pxCmsghIter' = pxCmsghIter
    BY <1>7 DEF ControlMalloc, Filled
  <2>2. ControlTypes'
    BY <1>1, <1>2, <2>1 DEF ControlTypes
  <2> QED
    BY <1>1, <1>2, <2>1, <2>2 DEF ControlInv, PlaceInv
<1> QED
  BY <1>6, <1>7

LEMMA FillIterateStep ==
    ASSUME ControlInv, FillIterate
    PROVE  ControlInv'
<1>1. /\ phase = "fill" /\ Len(cmsgs) < Len(lens)
      /\ UNCHANGED <<kind, lens, plan, copied, found>>
  BY DEF FillIterate
<1>2. /\ ControlTypes /\ Planned /\ AsPlanned /\ found = <<>>
      /\ Len(plan) = Len(lens)
      /\ pxCmsghIter = plan[Len(cmsgs) + 1]
  BY <1>1 DEF ControlInv, PlaceInv
<1>3. /\ plan \in Seq(Nat) /\ lens \in Seq(Nat) /\ cmsgs \in Seq(Nat)
      /\ msg_controllen \in Nat
  BY <1>2 DEF ControlTypes
<1>4. PICK n \in Nat : n = Len(cmsgs)
  BY <1>3, LenProperties
<1>5. PICK m \in Nat : m = Len(plan)
  BY <1>3, LenProperties
<1>6. n + 1 \in 1..m /\ m = Len(lens)
  BY <1>1, <1>2, <1>4, <1>5
<1>7. plan[n + 1] \in Nat /\ lens[n + 1] \in Nat
  BY <1>3, <1>5, <1>6, ElementOfSeq
<1>8. pxCmsghIter # NULL
  BY <1>2, <1>4, <1>7 DEF NULL
<1>9. /\ cmsgs' = Append(cmsgs, plan[n + 1])
      /\ pxCmsghIter' = CMSG_NXTHDR(msg_controllen, plan[n + 1],
                                    CMSG_LEN(lens[n + 1]))
      /\ UNCHANGED <<phase, msg_controllen>>
  BY <1>2, <1>4, <1>8 DEF FillIterate
<1>10. /\ cmsgs' \in Seq(Nat) /\ Len(cmsgs') = n + 1
       /\ \A k \in 1..n : cmsgs'[k] = cmsgs[k]
       /\ cmsgs'[n + 1] = plan[n + 1]
  BY <1>3, <1>4, <1>7, <1>9, Appended
<1>11. AsPlanned'
  <2>1. \A k \in 1..(n + 1) : k \in 1..n \/ k = n + 1
    OBVIOUS
  <2>2. \A k \in 1..n : cmsgs[k] = plan[k]
    BY <1>2, <1>4 DEF AsPlanned
  <2>3. \A k \in 1..(n + 1) : cmsgs'[k] = plan[k]
    BY <1>10, <2>1, <2>2
  <2> QED
    BY <1>1, <1>5, <1>6, <1>10, <2>3 DEF AsPlanned
<1>12. pxCmsghIter' =
          IF n + 1 < m /\ plan[n + 2] + HdrSize <= msg_controllen
          THEN plan[n + 2] ELSE NULL
  <2>1. n + 1 + 1 = n + 2
    OBVIOUS
  <2> QED
    BY <1>2, <1>3, <1>5, <1>6, <1>9, <2>1, NextPlanned DEF Planned
<1>13. n + 1 < m => /\ plan[n + 2] \in Nat
                    /\ plan[n + 2] + HdrSize <= msg_controllen
  <2> SUFFICES ASSUME n + 1 < m
               PROVE  /\ plan[n + 2] \in Nat
                      /\ plan[n + 2] + HdrSize <= msg_controllen
    OBVIOUS
  <2>1. n + 2 \in 1..m
    OBVIOUS
  <2> QED
    BY <1>2, <1>3, <1>5, <2>1, Places DEF Planned
<1>14. Len(cmsgs') < Len(plan') => pxCmsghIter' = plan'[Len(cmsgs') + 1]
  <2>1. n + 1 + 1 = n + 2
    OBVIOUS
  <2> QED
    BY <1>1, <1>5, <1>10, <1>12, <1>13, <2>1
<1>15. pxCmsghIter' \in Nat \cup {NULL}
  BY <1>12, <1>13
<1>16. ControlTypes'
  BY <1>1, <1>2, <1>9, <1>10, <1>15 DEF ControlTypes
<1>17. Planned'
  BY <1>1, <1>2, <1>9 DEF Planned
<1> QED
  BY <1>1, <1>2, <1>9, <1>11, <1>14, <1>16, <1>17 DEF ControlInv, PlaceInv

LEMMA FillReturnStep ==
    ASSUME ControlInv, FillReturn
    PROVE  ControlInv'
<1>1. /\ phase = "fill" /\ Len(cmsgs) = Len(lens)
      /\ phase' \in {"name", "queued"}
      /\ UNCHANGED <<kind, lens, msg_controllen, pxCmsghIter, plan, cmsgs,
                     copied, found>>
  BY DEF FillReturn, Filled
<1>2. ControlTypes /\ Complete /\ found = <<>>
  BY <1>1 DEF ControlInv, PlaceInv, Complete
<1>3. Complete'
  BY <1>1, <1>2 DEF Complete, Planned, AsPlanned
<1>4. ControlTypes'
  BY <1>1, <1>2 DEF ControlTypes
<1> QED
  BY <1>1, <1>2, <1>3, <1>4 DEF ControlInv, PlaceInv

LEMMA FillFieldStep ==
    ASSUME ControlInv, NEW ok \in BOOLEAN,
           xAncillaryMsgFillName(ok) \/ xAncillaryMsgFillPayload(ok)
    PROVE  ControlInv'
<1>1. /\ phase \in {"name", "payload"} /\ phase' \in {"payload", "queued"}
      /\ UNCHANGED <<kind, lens, msg_controllen, pxCmsghIter, plan, cmsgs,
                     copied, found>>
  BY DEF xAncillaryMsgFillName, xAncillaryMsgFillPayload, FillField
<1>2. /\ ControlTypes /\ found = <<>>
      /\ Complete \/ (cmsgs = <<>> /\ msg_controllen = 0)
  BY <1>1 DEF ControlInv, PlaceInv
<1>3. Complete => Complete'
  BY <1>1 DEF Complete, Planned, AsPlanned
<1>4. ControlTypes'
  BY <1>1, <1>2 DEF ControlTypes
<1> QED
  BY <1>1, <1>2, <1>3, <1>4 DEF ControlInv, PlaceInv

\* The callers that free the header or leave it behind.
LEMMA LeaveStep ==
    ASSUME ControlInv,
           FreeUnfilled \/ FreeForPlainSocket \/ LeaveReceived \/ LeaveStamp
              \/ DeliverNoPayload
    PROVE  ControlInv'
<1>1. /\ phase \in {"discard", "queued"} /\ phase' \in {"done", "leaked", "fault"}
      /\ UNCHANGED <<kind, lens, msg_controllen, pxCmsghIter, plan, cmsgs,
                     copied, found>>
  BY DEF FreeUnfilled, FreeForPlainSocket, LeaveReceived, LeaveStamp,
         DeliverNoPayload, Leaves
<1>2. ControlTypes /\ found = <<>>
  BY <1>1 DEF ControlInv, PlaceInv
<1>3. ControlTypes'
  BY <1>1, <1>2 DEF ControlTypes
<1> QED
  BY <1>1, <1>2, <1>3 DEF ControlInv, PlaceInv

LEMMA NoHeaderStep ==
    ASSUME ControlInv, NEW k \in {"Rx", "Tx"}, HeaderMallocFails(k)
    PROVE  ControlInv'
<1>1. /\ phase = "none" /\ phase' = "done" /\ kind' = k
      /\ UNCHANGED <<lens, msg_controllen, pxCmsghIter, plan, cmsgs, copied, found>>
  BY DEF HeaderMallocFails
<1>2. ControlTypes /\ found = <<>>
  BY <1>1 DEF ControlInv, PlaceInv
<1>3. ControlTypes'
  BY <1>1, <1>2 DEF ControlTypes
<1> QED
  BY <1>1, <1>2, <1>3 DEF ControlInv, PlaceInv

\* The walk starts at the first message, if its header was copied whole.
LEMMA ReceiveStep ==
    ASSUME ControlInv, NEW size \in UserSizes, Receive(size)
    PROVE  ControlInv'
<1>1. /\ phase = "queued" /\ phase' = "walk"
      /\ copied' = IF size = 0 \/ "msg_control" \notin fields THEN 0
                   ELSE IF size < msg_controllen THEN size ELSE msg_controllen
      /\ pxCmsghIter' = CMSG_FIRSTHDR(copied')
      /\ UNCHANGED <<kind, lens, msg_controllen, plan, cmsgs, found>>
  BY DEF Receive
<1>2. /\ ControlTypes /\ found = <<>>
      /\ Complete \/ (cmsgs = <<>> /\ msg_controllen = 0)
  BY <1>1 DEF ControlInv, PlaceInv
<1>3. /\ plan \in Seq(Nat) /\ lens \in Seq(Nat) /\ cmsgs \in Seq(Nat)
      /\ msg_controllen \in Nat
  BY <1>2 DEF ControlTypes
<1>4. size \in Nat /\ HdrSize \in Nat /\ HdrSize > 0
  BY ControlAssumption
<1>5. PICK c \in Nat : c = copied' /\ c <= msg_controllen
  BY <1>1, <1>3, <1>4
<1>6. PICK n \in Nat : n = Len(cmsgs)
  BY <1>3, LenProperties
<1>7. IF n > 0 THEN cmsgs[1] = 0 ELSE msg_controllen = 0
  <2>1. CASE Complete
    <3>1. /\ Len(plan) = n /\ PlannedIn(plan, lens, msg_controllen)
          /\ n > 0 => cmsgs[1] = plan[1]
      BY <1>6, <2>1 DEF Complete, Planned, AsPlanned
    <3> QED
      BY <1>3, <1>6, <3>1 DEF PlannedIn
  <2>2. CASE cmsgs = <<>> /\ msg_controllen = 0
    BY <1>6, <2>2
  <2> QED
    BY <1>2, <2>1, <2>2
<1>8. Len(found) = 0
  BY <1>2
<1>9. pxCmsghIter' = IF c >= HdrSize THEN 0 ELSE NULL
  BY <1>1, <1>5 DEF CMSG_FIRSTHDR
<1>10. NextFound' = IF 1 <= n /\ cmsgs[1] + HdrSize <= c THEN cmsgs[1]
                    ELSE NULL
  BY <1>1, <1>5, <1>6, <1>8 DEF NextFound
<1>11. pxCmsghIter' = NextFound'
  BY <1>3, <1>4, <1>5, <1>7, <1>9, <1>10
<1>12. Complete => Complete'
  BY <1>1 DEF Complete, Planned, AsPlanned
<1>13. ControlTypes'
  BY <1>1, <1>2, <1>5, <1>9 DEF ControlTypes
<1>14. /\ copied' <= msg_controllen'
       /\ Len(found') <= Len(cmsgs')
       /\ \A k \in 1..Len(found') : found'[k] = k
  BY <1>1, <1>5, <1>6, <1>8
<1> QED
  BY <1>1, <1>2, <1>11, <1>12, <1>13, <1>14 DEF ControlInv, PlaceInv

\* The message the user reads is the first it has not found, and the next is
\* the one after it.
LEMMA WalkStep ==
    ASSUME ControlInv, NEW k \in DOMAIN cmsgs, WalkIterate(k)
    PROVE  ControlInv'
<1>1. /\ phase = "walk" /\ pxCmsghIter # NULL /\ cmsgs[k] = pxCmsghIter
      /\ found' = Append(found, k)
      /\ pxCmsghIter' = CMSG_NXTHDR(copied, pxCmsghIter, CMSG_LEN(lens[k]))
      /\ UNCHANGED <<phase, kind, lens, msg_controllen, plan, cmsgs, copied>>
  BY DEF WalkIterate
<1>2. /\ ControlTypes
      /\ Complete \/ (cmsgs = <<>> /\ msg_controllen = 0)
      /\ copied <= msg_controllen /\ Len(found) <= Len(cmsgs)
      /\ \A j \in 1..Len(found) : found[j] = j
      /\ pxCmsghIter = NextFound
  BY <1>1 DEF ControlInv, PlaceInv
<1>3. /\ plan \in Seq(Nat) /\ lens \in Seq(Nat) /\ cmsgs \in Seq(Nat)
      /\ found \in Seq(Nat) /\ msg_controllen \in Nat /\ copied \in Nat
  BY <1>2 DEF ControlTypes
<1>4. PICK n \in Nat : n = Len(found)
  BY <1>3, LenProperties
<1>5. PICK m \in Nat : m = Len(cmsgs)
  BY <1>3, LenProperties
<1>6. n + 1 <= m /\ pxCmsghIter = cmsgs[n + 1]
  BY <1>1, <1>2, <1>4, <1>5 DEF NextFound
<1>7. Complete
  <2>1. cmsgs # <<>>
    BY <1>5, <1>6
  <2> QED
    BY <1>2, <2>1
<1>8. /\ PlannedIn(plan, lens, msg_controllen) /\ Len(plan) = m
      /\ \A j \in 1..m : cmsgs[j] = plan[j]
  BY <1>5, <1>7 DEF Complete, Planned, AsPlanned
<1>9. k \in 1..m /\ n + 1 \in 1..m
  BY <1>3, <1>5, <1>6, LenProperties
<1>10. k = n + 1
  <2>1. plan[k] = plan[n + 1]
    BY <1>1, <1>6, <1>8, <1>9
  <2> QED
    BY <1>3, <1>8, <1>9, <2>1, Places
<1>11. /\ found' \in Seq(Nat) /\ Len(found') = n + 1
       /\ \A j \in 1..n : found'[j] = found[j]
       /\ found'[n + 1] = n + 1
  BY <1>1, <1>3, <1>4, <1>10, Appended
<1>12. \A j \in 1..(n + 1) : found'[j] = j
  <2>1. \A j \in 1..(n + 1) : j \in 1..n \/ j = n + 1
    OBVIOUS
  <2> QED
    BY <1>2, <1>4, <1>11, <2>1
<1>13. pxCmsghIter' =
          IF n + 1 < m /\ plan[n + 1 + 1] + HdrSize <= copied
          THEN plan[n + 1 + 1] ELSE NULL
  <2>1. pxCmsghIter' = CMSG_NXTHDR(copied, plan[n + 1], CMSG_LEN(lens[n + 1]))
    BY <1>1, <1>6, <1>8, <1>9, <1>10
  <2>2. n + 1 \in 1..Len(plan) /\ copied \in Nat /\ copied <= msg_controllen
    BY <1>2, <1>3, <1>8, <1>9
  <2>3. CMSG_NXTHDR(copied, plan[n + 1], CMSG_LEN(lens[n + 1])) =
           IF n + 1 < Len(plan) /\ plan[n + 1 + 1] + HdrSize <= copied
           THEN plan[n + 1 + 1] ELSE NULL
    BY <1>3, <1>8, <2>2, NextPlanned, ZenonT(40)
  <2> QED
    BY <1>8, <2>1, <2>3
<1>14. NextFound' =
          IF n + 1 + 1 <= m /\ cmsgs[n + 1 + 1] + HdrSize <= copied
          THEN cmsgs[n + 1 + 1] ELSE NULL
  BY <1>1, <1>5, <1>11 DEF NextFound
<1>15. n + 1 < m => /\ n + 1 + 1 \in 1..m
                    /\ cmsgs[n + 1 + 1] = plan[n + 1 + 1]
                    /\ plan[n + 1 + 1] \in Nat
  BY <1>3, <1>8, ElementOfSeq
<1>16. pxCmsghIter' = NextFound' /\ pxCmsghIter' \in Nat \cup {NULL}
  BY <1>13, <1>14, <1>15
<1>17. Complete'
  BY <1>1, <1>7 DEF Complete, Planned, AsPlanned
<1>18. ControlTypes'
  BY <1>1, <1>2, <1>11, <1>16 DEF ControlTypes
<1>19. /\ copied' <= msg_controllen' /\ Len(found') <= Len(cmsgs')
       /\ \A j \in 1..Len(found') : found'[j] = j
  BY <1>1, <1>2, <1>5, <1>6, <1>11, <1>12
<1> QED
  BY <1>1, <1>16, <1>17, <1>18, <1>19 DEF ControlInv, PlaceInv

LEMMA ControlStep == ControlInv /\ [ControlNext]_controlVars => ControlInv'
<1> SUFFICES ASSUME ControlInv, [ControlNext]_controlVars
             PROVE  ControlInv'
  OBVIOUS
<1>1. CASE UNCHANGED controlVars
  <2>1. Complete => Complete'
    BY <1>1 DEF controlVars, Complete, Planned, AsPlanned
  <2>2. (Planned => Planned') /\ (AsPlanned => AsPlanned')
    BY <1>1 DEF controlVars, Planned, AsPlanned
  <2>3. NextFound' = NextFound
    BY <1>1 DEF controlVars, NextFound
  <2>4. ControlTypes'
    BY <1>1 DEF controlVars, ControlTypes, ControlInv
  <2> QED
    BY <1>1, <2>1, <2>2, <2>3, <2>4 DEF controlVars, ControlInv, PlaceInv
<1> QED
  BY <1>1, MallocStep, SpaceStep, ControlMallocStep, FillIterateStep,
     FillReturnStep, FillFieldStep, LeaveStep, NoHeaderStep, ReceiveStep,
     WalkStep
  DEF ControlNext

(***************************************************************************)
(* The space added up by the first loop is what the second needs: whatever *)
(* the messages and the sizes of long and of the header, each message has  *)
(* its place before the next one and the end (Ancillary.c:235-279).        *)
(***************************************************************************)
THEOREM ControlFillFits == ControlSpec => []FillFits
<1>1. ControlInv => FillFits
  <2> SUFFICES ASSUME ControlInv, phase = "fill" PROVE FillFits
    BY DEF FillFits
  <2>1. /\ ControlTypes /\ Planned /\ AsPlanned
        /\ Len(plan) = Len(lens)
        /\ Len(cmsgs) < Len(plan) => pxCmsghIter = plan[Len(cmsgs) + 1]
    BY DEF ControlInv, PlaceInv
  <2>2. /\ plan \in Seq(Nat) /\ lens \in Seq(Nat) /\ cmsgs \in Seq(Nat)
        /\ PlannedIn(plan, lens, msg_controllen) /\ msg_controllen \in Nat
    BY <2>1 DEF ControlTypes, Planned
  <2>3. PICK n \in Nat : n = Len(cmsgs)
    BY <2>2, LenProperties
  <2>4. PICK m \in Nat : m = Len(plan)
    BY <2>2, LenProperties
  <2>5. n <= m /\ \A k \in 1..n : cmsgs[k] = plan[k]
    BY <2>1, <2>3, <2>4 DEF AsPlanned
  <2>6. Len(cmsgs) < Len(lens) => pxCmsghIter # NULL
    <3> SUFFICES ASSUME n < m PROVE plan[n + 1] # NULL
      BY <2>1, <2>3, <2>4
    <3>1. n + 1 \in 1..m
      OBVIOUS
    <3>2. plan[n + 1] \in Nat
      BY <2>2, <2>4, <3>1, ElementOfSeq
    <3> QED
      BY <3>2 DEF NULL
  <2>7. ASSUME NEW k \in 1..n
        PROVE  cmsgs[k] + CMSG_LEN(lens[k]) <=
                  IF k < n THEN cmsgs[k + 1] ELSE msg_controllen
    <3>1. k \in 1..m /\ cmsgs[k] = plan[k]
      BY <2>5
    <3>2. /\ plan[k] \in Nat /\ lens[k] \in Nat
          /\ plan[k] + HdrSize <= msg_controllen
          /\ plan[k] + CMSG_LEN(lens[k]) <=
                IF k < m THEN plan[k + 1] ELSE msg_controllen
      BY <2>2, <2>4, <3>1, Places
    <3>3. CASE k < n
      <4>1. k + 1 \in 1..n /\ k < m
        BY <2>5, <3>3
      <4> QED
        BY <2>5, <3>1, <3>2, <3>3, <4>1
    <3>4. CASE k = n /\ k < m
      <4>1. k + 1 \in 1..m
        BY <3>4
      <4>2. /\ plan[k + 1] \in Nat /\ HdrSize \in Nat
            /\ plan[k + 1] + HdrSize <= msg_controllen
        BY <2>2, <2>4, <4>1, Places, ControlAssumption
      <4>3. CMSG_LEN(lens[k]) \in Nat
        BY <3>2, Spaces
      <4> QED
        BY <2>2, <3>1, <3>2, <3>4, <4>2, <4>3, SMTT(30)
    <3>5. CASE k = n /\ k = m
      BY <3>1, <3>2, <3>5
    <3> QED
      BY <2>5, <3>3, <3>4, <3>5
  <2>8. DOMAIN cmsgs = 1..n
    BY <2>2, <2>3, LenProperties
  <2> QED
    BY <2>3, <2>6, <2>7, <2>8 DEF FillFits
<1> QED
  BY <1>1, InitControl, ControlStep, PTL DEF ControlSpec

(***************************************************************************)
(* Wherever recvmsg() cut the control messages off, the user's walk finds  *)
(* them in order, each whose header was copied whole and no other          *)
(* (Ancillary.c:18-32, Ancillary.h:59-78).                                 *)
(***************************************************************************)
THEOREM ControlWalk == ControlSpec => []WalkFindsAll
<1>1. ControlInv => WalkFindsAll
  <2> SUFFICES ASSUME ControlInv, phase = "walk" PROVE WalkFindsAll
    BY DEF WalkFindsAll
  <2>1. /\ ControlTypes
        /\ Complete \/ (cmsgs = <<>> /\ msg_controllen = 0)
        /\ copied <= msg_controllen /\ Len(found) <= Len(cmsgs)
        /\ \A j \in 1..Len(found) : found[j] = j
        /\ pxCmsghIter = NextFound
    BY DEF ControlInv, PlaceInv
  <2>2. cmsgs \in Seq(Nat) /\ found \in Seq(Nat) /\ copied \in Nat
    BY <2>1 DEF ControlTypes
  <2>3. PICK n \in Nat : n = Len(found)
    BY <2>2, LenProperties
  <2>4. PICK m \in Nat : m = Len(cmsgs)
    BY <2>2, LenProperties
  <2>5. n < m => n + 1 \in 1..m /\ cmsgs[n + 1] \in Nat
    BY <2>2, <2>4, ElementOfSeq
  <2>6. pxCmsghIter = IF n < m /\ cmsgs[n + 1] + HdrSize <= copied
                      THEN cmsgs[n + 1] ELSE NULL
    BY <2>1, <2>3, <2>4 DEF NextFound
  <2>7. HdrSize \in Nat
    BY ControlAssumption
  <2>8. pxCmsghIter # NULL => /\ n < m /\ cmsgs[n + 1] = pxCmsghIter
                              /\ pxCmsghIter + HdrSize <= copied
    BY <2>6
  <2>9. pxCmsghIter = NULL /\ n < m => cmsgs[n + 1] + HdrSize > copied
    BY <2>2, <2>5, <2>6, <2>7 DEF NULL
  <2>10. \A j \in DOMAIN found : found[j] = j
    BY <2>1, <2>2, LenProperties
  <2> QED
    BY <2>3, <2>4, <2>8, <2>9, <2>10 DEF WalkFindsAll
<1> QED
  BY <1>1, InitControl, ControlStep, PTL DEF ControlSpec

(***************************************************************************)
(* Frames.                                                                 *)
(***************************************************************************)

\* A frame of the IP stack: it has a type, which is no TPID, and the first
\* word of a header.
Untagged(r) ==
    /\ r \in Seq(Nat) /\ Len(r) >= 2
    /\ r[1] \notin {TPID_DEFAULT, TPID_DOUBLE_TAG}

PutWord(f, h, w) == [f EXCEPT ![h] = w]

\* In f, the n tags of two words each are followed by r.
Behind(f, n, r) ==
    /\ f \in Seq(Nat) /\ Len(f) = 2 * n + Len(r)
    /\ \A k \in 1..Len(r) : f[2 * n + k] = r[k]

Tagged(f, t, r) ==
    \/ t = <<>> /\ f = r
    \/ /\ t = << <<f[1], f[2]>> >> /\ f[1] = TPID_DEFAULT
       /\ Behind(f, 1, r)
    \/ /\ t = << <<f[1], f[2]>>, <<f[3], f[4]>> >>
       /\ f[1] = TPID_DOUBLE_TAG /\ f[3] = TPID_DEFAULT
       /\ Behind(f, 2, r)

\* q is behind the tags of the frame, and differs from what should be there
\* in the word of the class at most.
Carries(q) ==
    /\ Untagged(q)
    /\ Tagged(frame, tags, q)
    /\ q = PutWord(rest, 2, q[2])
    /\ "type" \notin astray => q = rest

FramesInv ==
    /\ Untagged(rest)
    /\ frame # <<>> /\ "count" \notin astray =>
          (\E q : Carries(q)) /\ reach \in Nat /\ reach <= Len(frame) + 2

\* What follows the tags.
LEMMA RestBehind ==
    ASSUME NEW n \in {0, 1, 2}, NEW r \in Seq(Nat), NEW f, Behind(f, n, r)
    PROVE  From(f, 2 * n + 1) = r
<1>1. PICK m \in Nat : m = Len(r)
  BY LenProperties
<1>2. f \in Seq(Nat) /\ Len(f) = 2 * n + m
      /\ \A k \in 1..m : f[2 * n + k] = r[k]
  BY <1>1 DEF Behind
<1>3. \A i \in (2 * n + 1)..(2 * n + m) : f[i] \in Nat
  <2> SUFFICES ASSUME NEW i \in (2 * n + 1)..(2 * n + m) PROVE f[i] \in Nat
    OBVIOUS
  <2>1. i \in 1..Len(f)
    BY <1>2
  <2> QED
    BY <1>2, <2>1, ElementOfSeq
<1> DEFINE s == SubSeq(f, 2 * n + 1, 2 * n + m)
<1>4. /\ s \in Seq(Nat)
      /\ Len(s) = IF 2 * n + 1 <= 2 * n + m THEN 2 * n + m - (2 * n + 1) + 1 ELSE 0
      /\ \A i \in 1..(2 * n + m - (2 * n + 1) + 1) : s[i] = f[2 * n + 1 + i - 1]
  <2>1. 2 * n + 1 \in Int /\ 2 * n + m \in Int
    OBVIOUS
  <2> QED
    BY <1>3, <2>1, SubSeqProperties
<1>5. Len(s) = m
  BY <1>4
<1>6. ASSUME NEW k \in 1..m PROVE s[k] = r[k]
  <2>1. 2 * n + 1 + k - 1 = 2 * n + k /\ k \in 1..(2 * n + m - (2 * n + 1) + 1)
    OBVIOUS
  <2> QED
    BY <1>2, <1>4, <2>1
<1> HIDE DEF s
<1>7. s = r
  BY <1>1, <1>4, <1>5, <1>6, SeqEqual
<1> QED
  BY <1>2, <1>7 DEF s, From

LEMMA PlainBehind ==
    ASSUME NEW r \in Seq(Nat)
    PROVE  Behind(r, 0, r)
<1>1. PICK m \in Nat : m = Len(r)
  BY LenProperties
<1> QED
  BY <1>1 DEF Behind

\* One tag more in front.
LEMMA Inserted ==
    ASSUME NEW n \in {0, 1}, NEW r \in Seq(Nat), NEW f, Behind(f, n, r),
           NEW tci \in Nat, NEW tpid \in Nat,
           NEW g, g = prvInsertVLANTag(f, tci, tpid), NEW o, o = n + 1
    PROVE  /\ Behind(g, o, r)
           /\ g[1] = tpid /\ g[2] = tci
           /\ \A k \in 1..Len(f) : g[k + 2] = f[k]
<1>1. PICK m \in Nat : m = Len(r)
  BY LenProperties
<1>2. Len(f) = 2 * n + m
  BY <1>1 DEF Behind
<1>3. f \in Seq(Nat) /\ \A k \in 1..m : f[2 * n + k] = r[k]
  BY <1>1 DEF Behind
<1>11. PICK l \in Nat : l = Len(f) /\ l = 2 * n + m
  BY <1>2, <1>3, LenProperties
<1> DEFINE h == <<tpid, tci>>
<1>4. h \in Seq(Nat) /\ Len(h) = 2 /\ h[1] = tpid /\ h[2] = tci
  OBVIOUS
<1>5. g = h \o f
  BY DEF prvInsertVLANTag
<1> HIDE DEF h
<1>6. /\ g \in Seq(Nat) /\ Len(g) = 2 + l
      /\ \A i \in 1..(2 + l) : g[i] = IF i <= 2 THEN h[i] ELSE f[i - 2]
  <2>1. /\ h \o f \in Seq(Nat) /\ Len(h \o f) = Len(h) + Len(f)
        /\ \A i \in 1..(Len(h) + Len(f)) :
              (h \o f)[i] = IF i <= Len(h) THEN h[i] ELSE f[i - Len(h)]
    BY <1>3, <1>4, ConcatProperties
  <2> QED
    BY <1>11, <1>4, <1>5, <2>1
<1>7. g[1] = tpid /\ g[2] = tci
  BY <1>4, <1>6
<1>8. ASSUME NEW k \in 1..l PROVE g[k + 2] = f[k]
  <2>1. k + 2 \in 1..(2 + l) /\ k + 2 - 2 = k /\ ~(k + 2 <= 2)
    OBVIOUS
  <2> QED
    BY <1>6, <2>1
<1>9. ASSUME NEW k \in 1..m PROVE g[2 * (n + 1) + k] = r[k]
  <2>1. 2 * n + k \in 1..l /\ 2 * (n + 1) + k = 2 * n + k + 2
    BY <1>11
  <2> QED
    BY <1>3, <1>8, <2>1
<1>10. Len(g) = 2 * (n + 1) + m
  BY <1>11, <1>6
<1> QED
  BY <1>1, <1>11, <1>6, <1>7, <1>8, <1>9, <1>10 DEF Behind

\* A word behind the tags is changed.
LEMMA WordChanged ==
    ASSUME NEW n \in {0, 1, 2}, NEW r \in Seq(Nat), NEW f, Behind(f, n, r),
           Len(r) >= 2, NEW w \in Nat, NEW h, h = 2 * n + 2,
           NEW g, g = PutWord(f, h, w), NEW q, q = PutWord(r, 2, w)
    PROVE  /\ Behind(g, n, q)
           /\ n > 0 => g[1] = f[1] /\ g[2] = f[2]
           /\ n > 1 => g[3] = f[3] /\ g[4] = f[4]
           /\ q \in Seq(Nat) /\ Len(q) = Len(r) /\ q[1] = r[1]
<1>1. PICK m \in Nat : m = Len(r) /\ m >= 2
  BY LenProperties
<1>2. /\ f \in Seq(Nat) /\ Len(f) = 2 * n + m
      /\ \A k \in 1..m : f[2 * n + k] = r[k]
  BY <1>1 DEF Behind
<1>3. /\ g \in Seq(Nat) /\ Len(g) = 2 * n + m
      /\ \A j \in 1..(2 * n + m) : g[j] = IF j = 2 * n + 2 THEN w ELSE f[j]
  <2>1. h \in 1..Len(f)
    BY <1>1, <1>2
  <2> QED
    BY <1>2, <2>1, ExceptSeq DEF PutWord
<1>4. /\ q \in Seq(Nat) /\ Len(q) = m
      /\ \A j \in 1..m : q[j] = IF j = 2 THEN w ELSE r[j]
  <2>1. 2 \in 1..Len(r)
    BY <1>1
  <2> QED
    BY <1>1, <2>1, ExceptSeq DEF PutWord
<1>5. ASSUME NEW k \in 1..m PROVE g[2 * n + k] = q[k]
  <2>1. 2 * n + k \in 1..(2 * n + m) /\ (2 * n + k = 2 * n + 2 <=> k = 2)
    OBVIOUS
  <2> QED
    BY <1>2, <1>3, <1>4, <2>1
<1>6. Behind(g, n, q)
  <2>1. g \in Seq(Nat) /\ Len(g) = 2 * n + Len(q)
    BY <1>3, <1>4
  <2>2. \A k \in 1..Len(q) : g[2 * n + k] = q[k]
    BY <1>4, <1>5
  <2> QED
    BY <2>1, <2>2 DEF Behind
<1>7. /\ n > 0 => g[1] = f[1] /\ g[2] = f[2]
      /\ n > 1 => g[3] = f[3] /\ g[4] = f[4]
  <2>1. \A j \in 1..4 : j < 2 * n + 2 =>
           j \in 1..(2 * n + m) /\ j # 2 * n + 2
    BY <1>1
  <2>2. \A j \in 1..4 : j < 2 * n + 2 => g[j] = f[j]
    BY <1>3, <2>1
  <2>3. n > 0 => 1 < 2 * n + 2 /\ 2 < 2 * n + 2
    OBVIOUS
  <2>4. n > 1 => 3 < 2 * n + 2 /\ 4 < 2 * n + 2
    OBVIOUS
  <2> QED
    BY <2>2, <2>3, <2>4
<1>8. q[1] = r[1]
  BY <1>1, <1>4
<1> QED
  BY <1>1, <1>4, <1>6, <1>7, <1>8

\* A word behind two tags is changed.
LEMMA TagsStay ==
    ASSUME NEW f \in Seq(Nat), Len(f) >= 6, NEW w \in Nat,
           NEW g, g = PutWord(f, 6, w)
    PROVE  g[1] = f[1] /\ g[2] = f[2] /\ g[3] = f[3] /\ g[4] = f[4]
<1>1. DOMAIN f = 1..Len(f) /\ Len(f) \in Nat
  OBVIOUS
<1>2. {1, 2, 3, 4} \subseteq DOMAIN f
  BY <1>1
<1>3. \A j \in DOMAIN f : j # 6 => g[j] = f[j]
  BY DEF PutWord
<1> QED
  BY <1>2, <1>3

LEMMA FramesReads ==
    ASSUME NEW f, NEW t, NEW r, Untagged(r), Tagged(f, t, r)
    PROVE  TagsOf(f) = t /\ RestOf(f) = r
<1>1. PICK m \in Nat : m = Len(r) /\ m >= 2 /\ r \in Seq(Nat)
  BY LenProperties DEF Untagged
<1>2. CASE t = <<>> /\ f = r
  <2>1. NumTags(f) = 0
    BY <1>2 DEF Untagged, NumTags
  <2>2. TagsOf(f) = <<>>
    BY <2>1 DEF TagsOf
  <2>3. RestOf(f) = r
    BY <1>1, <1>2, <2>1, PlainBehind, RestBehind DEF RestOf
  <2> QED
    BY <1>2, <2>2, <2>3
<1>3. CASE /\ t = << <<f[1], f[2]>> >> /\ f[1] = TPID_DEFAULT
           /\ Behind(f, 1, r)
  <2>1. NumTags(f) = 1
    BY <1>3 DEF NumTags, TPID_DEFAULT, TPID_DOUBLE_TAG
  <2>2. TagsOf(f) = << <<f[1], f[2]>> >>
    <3>1. TagsOf(f) = [i \in 1..1 |-> <<f[2 * i - 1], f[2 * i]>>]
      BY <2>1 DEF TagsOf
    <3> QED
      BY <3>1
  <2>3. RestOf(f) = r
    BY <1>1, <1>3, <2>1, RestBehind DEF RestOf
  <2> QED
    BY <1>3, <2>2, <2>3
<1>4. CASE /\ t = << <<f[1], f[2]>>, <<f[3], f[4]>> >>
           /\ f[1] = TPID_DOUBLE_TAG /\ f[3] = TPID_DEFAULT
           /\ Behind(f, 2, r)
  <2>1. NumTags(f) = 2
    BY <1>4 DEF NumTags, TPID_DEFAULT, TPID_DOUBLE_TAG
  <2>2. TagsOf(f) = << <<f[1], f[2]>>, <<f[3], f[4]>> >>
    <3>1. TagsOf(f) = [i \in 1..2 |-> <<f[2 * i - 1], f[2 * i]>>]
      BY <2>1 DEF TagsOf
    <3> QED
      BY <3>1
  <2>3. RestOf(f) = r
    BY <1>1, <1>4, <2>1, RestBehind DEF RestOf
  <2> QED
    BY <1>4, <2>2, <2>3
<1> QED
  BY <1>2, <1>3, <1>4 DEF Tagged

LEMMA FramesConstants ==
    /\ \A c \in TCIs : c \in Nat
    /\ \A v \in Classes : v \in 0..255
    /\ \A r \in Contents : Untagged(r)
<1>1. TCIs \subseteq Word /\ Classes \subseteq Byte
  BY FramesAssumption
<1>2. Word \subseteq Nat
  BY DEF Word
<1>3. \A c \in TCIs : c \in Nat
  BY <1>1, <1>2
<1>4. \A v \in Classes : v \in 0..255
  BY <1>1 DEF Byte
<1>5. ASSUME NEW r \in Contents PROVE Untagged(r)
  <2>1. /\ r \in Seq(Word) /\ Len(r) >= 2
        /\ r[1] \notin {TPID_DEFAULT, TPID_DOUBLE_TAG}
    BY FramesAssumption
  <2>2. r \in Seq(Nat)
    BY <1>2, <2>1, SeqMonotonic
  <2> QED
    BY <2>1, <2>2 DEF Untagged
<1> QED
  BY <1>3, <1>4, <1>5

\* The functions that look for a tag find none.
LEMMA NoneFound ==
    ASSUME NEW f, NEW which \in {"S", "C"}
    PROVE  Prepared(f, which).at = NoTag
  BY DEF Prepared, prvGetVLANTag

\* Setting the class of a word sets the class a reader finds in it.
LEMMA ClassSet ==
    ASSUME NEW r, Untagged(r), NEW v \in 0..255
    PROVE  /\ r[2] \in Nat
           /\ \A type \in Nat : SET_DSCLASS(type, r[2], v) \in Nat
           /\ r[1] \in {IPv4, IPv6} =>
                WithClass(r, v) = [r EXCEPT ![2] = SET_DSCLASS(r[1], r[2], v)]
           /\ r[1] \notin {IPv4, IPv6} =>
                r = [r EXCEPT ![2] = SET_DSCLASS(r[1], r[2], v)]
<1>1. PICK w \in Nat : w = r[2]
  <2>1. 2 \in 1..Len(r) /\ r \in Seq(Nat)
    BY LenProperties DEF Untagged
  <2> QED
    BY <2>1, ElementOfSeq
<1>2. v \in Nat
  OBVIOUS
<1>3. ASSUME NEW type PROVE SET_DSCLASS(type, w, v) \in Nat
  <2>1. /\ (w \div 256) * 256 + ((v * 4) % 256) \in Nat
        /\ (w \div 4096) * 4096 + ((v % 64) \div 4) * 256 + (v % 4) * 64
             + (w % 64) \in Nat
    BY <1>2
  <2>2. CASE type = IPv4
    BY <2>1, <2>2 DEF SET_DSCLASS, IPv4, IPv6
  <2>3. CASE type = IPv6
    BY <2>1, <2>3 DEF SET_DSCLASS, IPv4, IPv6
  <2>4. CASE type \notin {IPv4, IPv6}
    BY <2>4 DEF SET_DSCLASS
  <2> QED
    BY <2>2, <2>3, <2>4
<1>4. (v * 4) % 256 = 4 * (v % 64)
  BY <1>2
<1>5. ((v % 64) \div 4) * 256 + (v % 4) * 64 = 64 * (v % 64)
  BY <1>2
<1>6. CASE r[1] = IPv4
  <2>1. WithClass(r, v) = [r EXCEPT ![2] = (w \div 256) * 256 + 4 * (v % 64)]
    BY <1>1, <1>6 DEF WithClass
  <2>2. SET_DSCLASS(r[1], w, v) = (w \div 256) * 256 + 4 * (v % 64)
    BY <1>4, <1>6 DEF SET_DSCLASS, IPv4, IPv6
  <2> QED
    BY <1>1, <1>3, <1>6, <2>1, <2>2
<1>7. CASE r[1] = IPv6
  <2>1. WithClass(r, v) =
           [r EXCEPT ![2] = (w \div 4096) * 4096 + 64 * (v % 64) + (w % 64)]
    BY <1>1, <1>7 DEF WithClass, IPv4, IPv6
  <2>2. SET_DSCLASS(r[1], w, v) =
           (w \div 4096) * 4096 + ((v % 64) \div 4) * 256 + (v % 4) * 64 + (w % 64)
    BY <1>7 DEF SET_DSCLASS, IPv4, IPv6
  <2>3. SET_DSCLASS(r[1], w, v) =
           (w \div 4096) * 4096 + 64 * (v % 64) + (w % 64)
    BY <1>1, <1>2, <1>5, <2>2
  <2> QED
    BY <1>1, <1>3, <1>7, <2>1, <2>3
<1>8. CASE r[1] \notin {IPv4, IPv6}
  <2>1. SET_DSCLASS(r[1], w, v) = w
    BY <1>8 DEF SET_DSCLASS
  <2>2. r = [r EXCEPT ![2] = w]
    <3> DEFINE q == [r EXCEPT ![2] = w]
    <3>1. r \in Seq(Nat) /\ Len(r) \in Nat /\ 2 \in 1..Len(r)
      BY LenProperties DEF Untagged
    <3>2. /\ q \in Seq(Nat) /\ Len(q) = Len(r)
          /\ \A j \in 1..Len(r) : q[j] = IF j = 2 THEN w ELSE r[j]
      BY <3>1, ExceptSeq
    <3> HIDE DEF q
    <3>3. q = r
      BY <1>1, <3>1, <3>2, SeqEqual
    <3> QED
      BY <3>3 DEF q
  <2> QED
    BY <1>1, <1>3, <1>8, <2>1, <2>2
<1> QED
  BY <1>6, <1>7, <1>8

\* Where the class is looked for.
LEMMA HeaderFound ==
    ASSUME NEW f, NEW t, NEW r, Untagged(r), Tagged(f, t, r)
    PROVE  /\ f \in Seq(Nat)
           /\ t = <<>> => HeaderAt(f) = 2 /\ f = r
           /\ t # <<>> =>
                /\ f[HeaderAt(f)] = r[2]
                /\ \A garbage : prvGetIPVersion(f, garbage) = r[1]
                /\ \/ /\ HeaderAt(f) = 4 /\ Behind(f, 1, r)
                      /\ t = << <<f[1], f[2]>> >> /\ f[1] = TPID_DEFAULT
                   \/ /\ HeaderAt(f) = 6 /\ Behind(f, 2, r)
                      /\ t = << <<f[1], f[2]>>, <<f[3], f[4]>> >>
                      /\ f[1] = TPID_DOUBLE_TAG /\ f[3] = TPID_DEFAULT
<1>1. r \in Seq(Nat) /\ 1 \in 1..Len(r) /\ 2 \in 1..Len(r)
  BY LenProperties DEF Untagged
<1>2. CASE t = <<>> /\ f = r
  BY <1>1, <1>2 DEF Untagged, HeaderAt
<1>3. CASE /\ t = << <<f[1], f[2]>> >> /\ f[1] = TPID_DEFAULT
           /\ Behind(f, 1, r)
  <2>1. HeaderAt(f) = 4
    BY <1>3 DEF HeaderAt, TPID_DEFAULT, TPID_DOUBLE_TAG
  <2>2. f \in Seq(Nat) /\ f[3] = r[1] /\ f[4] = r[2]
    <3>1. f \in Seq(Nat) /\ f[2 * 1 + 1] = r[1] /\ f[2 * 1 + 2] = r[2]
      BY <1>1, <1>3 DEF Behind
    <3> QED
      BY <3>1
  <2>3. t # <<>>
    BY <1>3
  <2>4. \A garbage : prvGetIPVersion(f, garbage) = r[1]
    BY <2>1, <2>2 DEF prvGetIPVersion
  <2> QED
    BY <1>3, <2>1, <2>2, <2>3, <2>4
<1>4. CASE /\ t = << <<f[1], f[2]>>, <<f[3], f[4]>> >>
           /\ f[1] = TPID_DOUBLE_TAG /\ f[3] = TPID_DEFAULT
           /\ Behind(f, 2, r)
  <2>1. HeaderAt(f) = 6
    BY <1>4 DEF HeaderAt, TPID_DEFAULT, TPID_DOUBLE_TAG
  <2>2. f \in Seq(Nat) /\ f[5] = r[1] /\ f[6] = r[2]
    <3>1. f \in Seq(Nat) /\ f[2 * 2 + 1] = r[1] /\ f[2 * 2 + 2] = r[2]
      BY <1>1, <1>4 DEF Behind
    <3> QED
      BY <3>1
  <2>3. t # <<>>
    BY <1>4
  <2>4. \A garbage : prvGetIPVersion(f, garbage) = r[1]
    BY <2>1, <2>2 DEF prvGetIPVersion
  <2> QED
    BY <1>4, <2>1, <2>2, <2>3, <2>4
<1> QED
  BY <1>2, <1>3, <1>4 DEF Tagged

LEMMA PutSame ==
    ASSUME NEW r \in Seq(Nat), Len(r) >= 2
    PROVE  /\ r[2] \in Nat
           /\ r = PutWord(r, 2, r[2])
           /\ \A w \in Nat, x \in Nat :
                 PutWord(PutWord(r, 2, w), 2, x) = PutWord(r, 2, x)
                   /\ PutWord(r, 2, w)[2] = w
<1>1. PICK m \in Nat : m = Len(r) /\ m >= 2
  BY LenProperties
<1>2. r[2] \in Nat
  BY <1>1, ElementOfSeq
<1>3. ASSUME NEW f \in Seq(Nat), Len(f) = m, NEW w \in Nat
      PROVE  /\ PutWord(f, 2, w) \in Seq(Nat) /\ Len(PutWord(f, 2, w)) = m
             /\ \A i \in 1..m : PutWord(f, 2, w)[i] = IF i = 2 THEN w ELSE f[i]
  <2>1. 2 \in 1..Len(f)
    BY <1>1, <1>3
  <2> QED
    BY <1>3, <2>1, ExceptSeq DEF PutWord
<1>4. r = PutWord(r, 2, r[2])
  <2> DEFINE q == PutWord(r, 2, r[2])
  <2>1. q \in Seq(Nat) /\ Len(q) = m /\ \A i \in 1..m : q[i] = r[i]
    BY <1>1, <1>2, <1>3
  <2> HIDE DEF q
  <2>2. q = r
    BY <1>1, <2>1, SeqEqual
  <2> QED
    BY <2>2 DEF q
<1>5. ASSUME NEW w \in Nat, NEW x \in Nat
      PROVE  /\ PutWord(PutWord(r, 2, w), 2, x) = PutWord(r, 2, x)
             /\ PutWord(r, 2, w)[2] = w
  <2> DEFINE p == PutWord(r, 2, w)
             q == PutWord(p, 2, x)
             o == PutWord(r, 2, x)
  <2>1. p \in Seq(Nat) /\ Len(p) = m
        /\ \A i \in 1..m : p[i] = IF i = 2 THEN w ELSE r[i]
    BY <1>1, <1>3
  <2>2. o \in Seq(Nat) /\ Len(o) = m
        /\ \A i \in 1..m : o[i] = IF i = 2 THEN x ELSE r[i]
    BY <1>1, <1>3
  <2> HIDE DEF p, o
  <2>3. q \in Seq(Nat) /\ Len(q) = m
        /\ \A i \in 1..m : q[i] = IF i = 2 THEN x ELSE p[i]
    BY <1>3, <2>1
  <2> HIDE DEF q
  <2>6. \A i \in 1..m : q[i] = o[i]
    BY <2>1, <2>2, <2>3
  <2>4. q = o
    BY <2>2, <2>3, <2>6, SeqEqual
  <2>5. p[2] = w
    BY <1>1, <2>1
  <2> QED
    BY <2>4, <2>5 DEF p, q, o
<1> QED
  BY <1>2, <1>4, <1>5

\* A frame, its tags and what is behind them, as long as nothing went astray.
LEMMA CarriesOne ==
    ASSUME FramesInv, InUse
    PROVE  \E q : Carries(q)
  BY DEF FramesInv, InUse

LEMMA OutputStep ==
    ASSUME FramesInv, NEW num \in 0..2, NEW c \in TCIs, NEW s \in TCIs,
           NEW fails \in 0..2, OutputInsertsTags(num, c, s, fails)
    PROVE  FramesInv'
<1> DEFINE single == prvInsertVLANTag(frame, c, TPID_DEFAULT)
           double == prvInsertVLANTag(single, s, TPID_DOUBLE_TAG)
<1>1. /\ frame # <<>> /\ "count" \notin astray /\ tags = <<>>
      /\ rest' = rest /\ astray' = astray
      /\ frame' = IF fails \in 1..num THEN <<>>
                  ELSE CASE num = 0 -> frame
                         [] num = 1 -> single
                         [] num = 2 -> double
      /\ reach' = IF num = 0 \/ fails = 1 THEN reach
                  ELSE IF num = 1 \/ fails = 2 THEN Moved(frame)
                  ELSE Moved(single)
      /\ tags' = CASE num = 0 -> <<>>
                   [] num = 1 -> << <<TPID_DEFAULT, c>> >>
                   [] num = 2 -> << <<TPID_DOUBLE_TAG, s>>, <<TPID_DEFAULT, c>> >>
  BY DEF OutputInsertsTags, InUse
<1>2. PICK q : Carries(q)
  BY <1>1 DEF FramesInv
<1>12. Untagged(q) /\ frame = q
  BY <1>1, <1>2, HeaderFound DEF Carries
<1>3. c \in Nat /\ s \in Nat /\ TPID_DEFAULT \in Nat /\ TPID_DOUBLE_TAG \in Nat
  <2>1. c \in Nat /\ s \in Nat
    BY FramesConstants
  <2> QED
    BY <2>1 DEF TPID_DEFAULT, TPID_DOUBLE_TAG
<1>4. q \in Seq(Nat) /\ Behind(frame, 0, q) /\ Len(q) \in Nat
  BY <1>12, PlainBehind, LenProperties DEF Untagged
<1>5. Behind(single, 1, q) /\ single[1] = TPID_DEFAULT /\ single[2] = c
  <2>1. Behind(single, 1, q)
    BY <1>3, <1>4, Inserted
  <2>2. single[1] = TPID_DEFAULT
    BY <1>3, <1>4, Inserted
  <2>3. single[2] = c
    BY <1>3, <1>4, Inserted
  <2> QED
    BY <2>1, <2>2, <2>3
<1>6. /\ Behind(double, 2, q)
      /\ double[1] = TPID_DOUBLE_TAG /\ double[2] = s
      /\ double[3] = TPID_DEFAULT /\ double[4] = c
  <2> HIDE DEF single
  <2>1. Behind(double, 2, q)
    BY <1>3, <1>4, <1>5, Inserted
  <2>4. double[1] = TPID_DOUBLE_TAG
    BY <1>3, <1>4, <1>5, Inserted
  <2>5. double[2] = s
    BY <1>3, <1>4, <1>5, Inserted
  <2>6. \A k \in 1..Len(single) : double[k + 2] = single[k]
    BY <1>3, <1>4, <1>5, Inserted
  <2>2. 1 \in 1..Len(single) /\ 2 \in 1..Len(single)
    <3>1. Len(single) = 2 * 1 + Len(q)
      BY <1>5 DEF Behind
    <3> QED
      BY <1>4, <3>1
  <2>3. double[1 + 2] = single[1] /\ double[2 + 2] = single[2]
    BY <2>2, <2>6
  <2> QED
    BY <1>5, <2>1, <2>3, <2>4, <2>5
<1> HIDE DEF single, double
<1>13. /\ Len(frame) = Len(q) /\ Len(single) = 2 + Len(q)
       /\ Len(double) = 4 + Len(q)
  <2>1. Len(single) = 2 * 1 + Len(q) /\ Len(double) = 2 * 2 + Len(q)
    BY <1>5, <1>6 DEF Behind
  <2> QED
    BY <1>4, <1>12, <2>1
<1>14. ASSUME Tagged(frame', tags', q), reach' \in Nat, reach' <= Len(frame') + 2
       PROVE  FramesInv'
  <2>1. Carries(q)'
    BY <1>1, <1>2, <1>14 DEF Carries
  <2> QED
    BY <1>1, <1>14, <2>1 DEF FramesInv
<1>7. CASE frame' = <<>>
  BY <1>1, <1>7 DEF FramesInv
<1>8. CASE num = 0 /\ frame' # <<>>
  <2>3. fails \notin 1..num
    BY <1>8
  <2>4. frame' = frame
    BY <1>1, <1>8, <2>3
  <2>1. frame' = frame /\ tags' = <<>> /\ reach' = reach
    BY <1>1, <1>8, <2>4
  <2>2. reach \in Nat /\ reach <= Len(frame) + 2
    BY <1>1 DEF FramesInv
  <2> QED
    BY <1>12, <1>14, <2>1, <2>2 DEF Tagged
<1>9. CASE num = 1 /\ frame' # <<>>
  <2>1. frame' = single /\ tags' = << <<TPID_DEFAULT, c>> >>
        /\ reach' = Moved(frame)
    BY <1>1, <1>9
  <2>2. Tagged(frame', tags', q)
    BY <1>5, <2>1 DEF Tagged
  <2>3. reach' \in Nat /\ reach' <= Len(frame') + 2
    BY <1>4, <1>13, <2>1 DEF Moved, TagWords
  <2> QED
    BY <1>14, <2>2, <2>3
<1>10. CASE num = 2 /\ frame' # <<>>
  <2>1. /\ frame' = double
        /\ tags' = << <<TPID_DOUBLE_TAG, s>>, <<TPID_DEFAULT, c>> >>
        /\ reach' = Moved(single)
    <3>1. fails = 0
      BY <1>1, <1>10
    <3> QED
      BY <1>1, <1>10, <3>1
  <2>2. Tagged(frame', tags', q)
    BY <1>6, <2>1 DEF Tagged
  <2>3. reach' \in Nat /\ reach' <= Len(frame') + 2
    BY <1>4, <1>13, <2>1 DEF Moved, TagWords
  <2> QED
    BY <1>14, <2>2, <2>3
<1>11. num = 0 \/ num = 1 \/ num = 2
  OBVIOUS
<1> QED
  BY <1>7, <1>8, <1>9, <1>10, <1>11

\* A frame without tags is left as it is; of any other the functions count
\* the tags wrong.
LEMMA StripStep ==
    ASSUME FramesInv, prvStripVLANTag
    PROVE  FramesInv'
<1>1. /\ InUse /\ tags' = <<>> /\ rest' = rest /\ reach' = reach
      /\ frame' = From(frame, TagWords * ucGetNumberOfTags(frame) + 1)
      /\ astray' = IF ucGetNumberOfTags(frame) = NumTags(frame) THEN astray
                   ELSE astray \cup {"count"}
  BY DEF prvStripVLANTag
<1>2. PICK q : Carries(q)
  BY <1>1, CarriesOne
<1>3. Untagged(q) /\ Tagged(frame, tags, q)
  BY <1>2 DEF Carries
<1>4. CASE "count" \in astray'
  BY <1>1, <1>4 DEF FramesInv
<1>5. CASE "count" \notin astray'
  <2>1. ucGetNumberOfTags(frame) = NumTags(frame) /\ astray' = astray
    BY <1>1, <1>5
  <2>2. frame[1] \notin {TPID_DEFAULT, TPID_DOUBLE_TAG}
    BY <2>1 DEF ucGetNumberOfTags, NumTags, TPID_DEFAULT, TPID_DOUBLE_TAG
  <2>3. tags = <<>> /\ frame = q
    BY <1>3, <2>2 DEF Tagged
  <2>4. frame' = frame
    <3>1. ucGetNumberOfTags(frame) = 0
      BY <2>2 DEF ucGetNumberOfTags
    <3>2. frame' = From(frame, 2 * 0 + 1)
      BY <1>1, <3>1 DEF TagWords
    <3>3. q \in Seq(Nat) /\ Behind(frame, 0, q)
      BY <1>3, <2>3, PlainBehind DEF Untagged
    <3> QED
      BY <2>3, <3>2, <3>3, RestBehind
  <2>5. Carries(q)'
    BY <1>1, <1>2, <2>1, <2>3, <2>4 DEF Carries
  <2> QED
    BY <1>1, <2>1, <2>4, <2>5 DEF FramesInv, InUse
<1> QED
  BY <1>4, <1>5

\* The class is set in the frame as a right reader would set it, when the
\* type is that of the packet; else the word of the class is spoiled.
LEMMA ClassStep ==
    ASSUME FramesInv, NEW v \in Classes, NEW garbage \in {0, IPv4, IPv6},
           xDSClassSet(v, garbage)
    PROVE  FramesInv'
<1> DEFINE type == prvGetIPVersion(frame, garbage)
<1>1. /\ frame # <<>> /\ "count" \notin astray /\ InUse
      /\ tags' = tags /\ reach' = reach
      /\ frame' = [frame EXCEPT ![HeaderAt(frame)] =
                     SET_DSCLASS(type, frame[HeaderAt(frame)], v)]
      /\ astray' = IF SameType(type, rest[1]) THEN astray
                   ELSE astray \cup {"type"}
      /\ rest' = IF rest[1] \in {IPv4, IPv6} THEN WithClass(rest, v) ELSE rest
  BY DEF xDSClassSet, InUse
<1>2. PICK q : Carries(q)
  BY <1>1, CarriesOne
<1>3. /\ Untagged(q) /\ Tagged(frame, tags, q) /\ q \in Seq(Nat) /\ Len(q) >= 2
      /\ Untagged(rest) /\ rest \in Seq(Nat) /\ Len(rest) >= 2
      /\ q[2] \in Nat /\ q = PutWord(rest, 2, q[2])
  <2>1. /\ Untagged(q) /\ Untagged(rest) /\ Tagged(frame, tags, q)
        /\ q = PutWord(rest, 2, q[2])
    BY <1>2 DEF Carries, FramesInv
  <2> QED
    BY <2>1, PutSame DEF Untagged
<1>4. v \in 0..255
  BY FramesConstants
<1>5. q[1] = rest[1] /\ q[1] \in Nat /\ Len(q) = Len(rest)
  <2>1. q[1] = rest[1] /\ Len(q) = Len(rest)
    BY <1>3, PlainBehind, WordChanged
  <2>2. q[1] \in Nat
    <3>1. 1 \in 1..Len(q)
      BY <1>3, LenProperties
    <3> QED
      BY <1>3, <3>1, ElementOfSeq
  <2> QED
    BY <2>1, <2>2
<1>6. type \in Nat /\ frame[HeaderAt(frame)] = q[2]
  <2>1. CASE tags = <<>>
    <3>1. HeaderAt(frame) = 2 /\ frame = q
      BY <1>3, <2>1, HeaderFound
    <3>2. type = garbage
      BY <3>1 DEF prvGetIPVersion
    <3> QED
      BY <3>1, <3>2 DEF IPv4, IPv6
  <2>2. CASE tags # <<>>
    BY <1>3, <1>5, <2>2, HeaderFound
  <2> QED
    BY <2>1, <2>2
<1> HIDE DEF type
<1>7. PICK w \in Nat : w = SET_DSCLASS(type, q[2], v)
  BY <1>3, <1>4, <1>6, ClassSet
<1> DEFINE p == PutWord(q, 2, w)
<1>8. frame' = PutWord(frame, HeaderAt(frame), w)
  BY <1>1, <1>6, <1>7 DEF PutWord
<1>9. Untagged(p)
  BY <1>3, <1>7, PlainBehind, WordChanged DEF Untagged
<1>10. PICK x \in Nat : rest' = PutWord(rest, 2, x)
       /\ (SameType(type, rest[1]) /\ q = rest => x = w)
  <2>1. CASE rest[1] \in {IPv4, IPv6}
    <3>1. rest' = [rest EXCEPT ![2] = SET_DSCLASS(rest[1], rest[2], v)]
      BY <1>1, <1>3, <1>4, <2>1, ClassSet
    <3>2. SET_DSCLASS(rest[1], rest[2], v) \in Nat
      BY <1>3, <1>4, <1>5, ClassSet
    <3>3. SameType(type, rest[1]) => type = rest[1]
      BY <2>1 DEF SameType
    <3> QED
      BY <1>7, <3>1, <3>2, <3>3 DEF PutWord
  <2>2. CASE rest[1] \notin {IPv4, IPv6}
    <3>1. rest' = PutWord(rest, 2, rest[2]) /\ rest[2] \in Nat
      BY <1>1, <1>3, <2>2, PutSame
    <3>2. SameType(type, rest[1]) => type \notin {IPv4, IPv6}
      BY <2>2 DEF SameType
    <3>3. type \notin {IPv4, IPv6} => w = q[2]
      BY <1>7 DEF SET_DSCLASS
    <3> QED
      BY <3>1, <3>2, <3>3
  <2> QED
    BY <2>1, <2>2
<1>11. Untagged(rest')
  BY <1>3, <1>10, PlainBehind, WordChanged DEF Untagged
<1>12. p = PutWord(rest', 2, p[2])
  <2>1. p = PutWord(rest, 2, w)
    BY <1>3, <1>7, PutSame
  <2>2. p[2] = w
    BY <1>3, <1>7, PutSame
  <2>3. PutWord(rest', 2, w) = PutWord(rest, 2, w)
    BY <1>3, <1>7, <1>10, PutSame
  <2> QED
    BY <2>1, <2>2, <2>3
<1>13. "type" \notin astray' => p = rest'
  <2> SUFFICES ASSUME "type" \notin astray' PROVE p = rest'
    OBVIOUS
  <2>1. SameType(type, rest[1]) /\ "type" \notin astray
    BY <1>1
  <2>2. q = rest
    BY <1>2, <2>1 DEF Carries
  <2> QED
    BY <1>10, <2>1, <2>2
<1>14. Tagged(frame', tags, p) /\ Len(frame') = Len(frame)
  <2>1. CASE tags = <<>>
    <3>1. HeaderAt(frame) = 2 /\ frame = q
      BY <1>3, <2>1, HeaderFound
    <3>2. Len(p) = Len(q)
      BY <1>3, <1>7, PlainBehind, WordChanged
    <3> QED
      BY <1>8, <2>1, <3>1, <3>2 DEF Tagged
  <2>2. CASE /\ HeaderAt(frame) = 4 /\ Behind(frame, 1, q)
             /\ tags = << <<frame[1], frame[2]>> >> /\ frame[1] = TPID_DEFAULT
    <3>1. frame' = PutWord(frame, 4, w)
      BY <1>8, <2>2
    <3>2. Behind(frame', 1, p)
      BY <1>3, <2>2, <3>1, WordChanged
    <3>3. frame'[1] = frame[1] /\ frame'[2] = frame[2]
      BY <1>3, <2>2, <3>1, WordChanged
    <3>4. Len(p) = Len(q)
      BY <1>3, <1>7, PlainBehind, WordChanged
    <3>5. Len(frame') = Len(frame)
      BY <2>2, <3>2, <3>4 DEF Behind
    <3> HIDE DEF p
    <3> QED
      BY <2>2, <3>2, <3>3, <3>5 DEF Tagged
  <2>3. CASE /\ HeaderAt(frame) = 6 /\ Behind(frame, 2, q)
             /\ tags = << <<frame[1], frame[2]>>, <<frame[3], frame[4]>> >>
             /\ frame[1] = TPID_DOUBLE_TAG /\ frame[3] = TPID_DEFAULT
    <3>1. frame' = PutWord(frame, 6, w)
      BY <1>8, <2>3
    <3>2. Behind(frame', 2, p)
      BY <1>3, <2>3, <3>1, WordChanged
    <3>3. /\ frame'[1] = frame[1] /\ frame'[2] = frame[2]
          /\ frame'[3] = frame[3] /\ frame'[4] = frame[4]
      <4>1. frame \in Seq(Nat) /\ Len(frame) >= 6
        <5>1. frame \in Seq(Nat) /\ Len(frame) = 4 + Len(q)
          BY <2>3 DEF Behind
        <5> QED
          BY <1>3, <5>1, LenProperties
      <4> QED
        BY <3>1, <4>1, TagsStay
    <3>4. Len(p) = Len(q)
      BY <1>3, <1>7, PlainBehind, WordChanged
    <3>5. Len(frame') = Len(frame)
      BY <2>3, <3>2, <3>4 DEF Behind
    <3> HIDE DEF p
    <3> QED
      BY <2>3, <3>2, <3>3, <3>5 DEF Tagged
  <2> QED
    BY <1>3, <2>1, <2>2, <2>3, HeaderFound
<1> HIDE DEF p
<1>15. Carries(p)'
  BY <1>1, <1>9, <1>12, <1>13, <1>14 DEF Carries
<1>16. reach \in Nat /\ reach <= Len(frame) + 2
  BY <1>1 DEF FramesInv
<1> QED
  BY <1>1, <1>11, <1>14, <1>15, <1>16 DEF FramesInv

LEMMA FramesInvariant == FramesSpec => []FramesInv
<1>1. FramesInit => FramesInv
  <2> SUFFICES ASSUME FramesInit PROVE FramesInv
    OBVIOUS
  <2>1. Untagged(rest) /\ frame = rest /\ tags = <<>> /\ reach = Len(frame)
    BY FramesConstants DEF FramesInit
  <2>2. rest = PutWord(rest, 2, rest[2])
    BY <2>1, PutSame DEF Untagged
  <2>3. Carries(rest)
    BY <2>1, <2>2 DEF Carries, Tagged
  <2>4. Len(frame) \in Nat
    BY <2>1, LenProperties DEF Untagged
  <2> QED
    BY <2>1, <2>3, <2>4 DEF FramesInv
<1>2. FramesInv /\ [FramesNext]_frameVars => FramesInv'
  <2> SUFFICES ASSUME FramesInv, [FramesNext]_frameVars PROVE FramesInv'
    OBVIOUS
  <2>1. ASSUME UNCHANGED <<frame, tags, rest, astray, reach>> PROVE FramesInv'
    BY <2>1 DEF FramesInv, Carries
  <2>3. ASSUME NEW which \in {"S", "C"}, NEW field \in {"PCP", "DEI", "VID"},
               NEW v \in TCIs, xVLANTagSet(which, field, v)
        PROVE  FramesInv'
    BY <2>1, <2>3, NoneFound DEF xVLANTagSet
  <2>4. CASE UNCHANGED frameVars
    BY <2>1, <2>4 DEF frameVars
  <2> QED
    BY <2>3, <2>4, OutputStep, StripStep, ClassStep DEF FramesNext
<1> QED
  BY <1>1, <1>2, PTL DEF FramesSpec

(***************************************************************************)
(* For every content of the frames, every tag and every class: whatever is *)
(* called in whatever order, a frame reads as the tags of its interface    *)
(* and then the frame of the IP stack, of which only the class was         *)
(* changed, or spoiled when it was set before there were tags, and at most *)
(* one tag's size is written past it (NetworkWrapper.c:70-97,              *)
(* VLANTags.c:364-497, DS.c:24-61, 106-132).                               *)
(***************************************************************************)
THEOREM FramesIntact == FramesSpec => []FrameIntact
<1>1. FramesInv => FrameIntact
  <2> SUFFICES ASSUME FramesInv, frame # <<>>, "count" \notin astray
               PROVE  FrameIntact
    BY DEF FrameIntact
  <2>1. PICK q : Carries(q)
    BY DEF FramesInv
  <2>2. TagsOf(frame) = tags /\ RestOf(frame) = q
    BY <2>1, FramesReads DEF Carries
  <2>3. reach <= Len(frame) + TagWords
    BY DEF FramesInv, TagWords
  <2> QED
    BY <2>1, <2>2, <2>3 DEF FrameIntact, Carries, PutWord
<1> QED
  BY <1>1, FramesInvariant, PTL

(***************************************************************************)
(* For all of them too: the class of a packet is found behind any number   *)
(* of tags, whatever the stack holds, and without tags when the stack      *)
(* happens to hold the type (DS.c:24-95).                                  *)
(***************************************************************************)
THEOREM FramesClassFound == FramesSpec => []ClassFound
<1>1. FramesInv => ClassFound
  <2> SUFFICES ASSUME FramesInv, frame # <<>>, "count" \notin astray,
                      NEW garbage \in {0, IPv4, IPv6},
                      tags # <<>> \/ SameType(garbage, rest[1])
               PROVE  ucDSClassGet(frame, garbage) =
                        IF rest[1] \in {IPv4, IPv6} THEN ClassOf(RestOf(frame))
                        ELSE 255
    BY DEF ClassFound
  <2>1. PICK q : Carries(q)
    BY DEF FramesInv
  <2>2. Untagged(q) /\ Tagged(frame, tags, q) /\ RestOf(frame) = q
    BY <2>1, FramesReads DEF Carries
  <2>3. q \in Seq(Nat) /\ Len(q) >= 2 /\ q[2] \in Nat /\ q[1] = rest[1]
    <3>1. q \in Seq(Nat) /\ Len(q) >= 2 /\ rest \in Seq(Nat) /\ Len(rest) >= 2
          /\ q = PutWord(rest, 2, q[2])
      BY <2>1, <2>2 DEF Untagged, FramesInv, Carries
    <3>2. q[2] \in Nat
      BY <3>1, PutSame
    <3>3. q[1] = rest[1]
      BY <3>1, <3>2, PlainBehind, WordChanged
    <3> QED
      BY <3>1, <3>2, <3>3
  <2>4. /\ SameType(prvGetIPVersion(frame, garbage), q[1])
        /\ frame[HeaderAt(frame)] = q[2]
    <3>1. CASE tags = <<>>
      <4>1. HeaderAt(frame) = 2 /\ frame = q
        BY <2>2, <3>1, HeaderFound
      <4> QED
        BY <2>3, <3>1, <4>1 DEF prvGetIPVersion
    <3>2. CASE tags # <<>>
      BY <2>2, <3>2, HeaderFound DEF SameType
    <3> QED
      BY <3>1, <3>2
  <2>5. ucDSClassGet(frame, garbage) = GET_DSCLASS(q[1], q[2])
    <3>1. ASSUME NEW t, NEW u, SameType(t, u)
          PROVE  GET_DSCLASS(t, q[2]) = GET_DSCLASS(u, q[2])
      BY <3>1 DEF SameType, GET_DSCLASS
    <3> QED
      BY <2>4, <3>1 DEF ucDSClassGet
  <2>6. GET_DSCLASS(q[1], q[2]) =
           IF q[1] \in {IPv4, IPv6} THEN ClassOf(q) ELSE 255
    <3>1. PICK w \in Nat : w = q[2]
      BY <2>3
    <3>2. ((w \div 256) % 16) * 4 + ((w % 256) \div 64) = (w % 4096) \div 64
      <4>1. PICK h \in Nat, b \in 0..255 :
               w = 256 * h + b /\ h = w \div 256 /\ b = w % 256
        <5>1. /\ w \div 256 \in Nat /\ w % 256 \in 0..255
              /\ w = 256 * (w \div 256) + (w % 256)
          OBVIOUS
        <5> QED
          BY <5>1
      <4>2. w % 4096 = 256 * (h % 16) + b
        BY <4>1
      <4>3. (256 * (h % 16) + b) \div 64 = 4 * (h % 16) + (b \div 64)
        OBVIOUS
      <4> QED
        BY <4>1, <4>2, <4>3
    <3> QED
      BY <3>1, <3>2 DEF GET_DSCLASS, ClassOf, IPv4, IPv6
  <2> QED
    BY <2>2, <2>3, <2>5, <2>6
<1> QED
  BY <1>1, FramesInvariant, PTL

(***************************************************************************)
(* BoundSockets: one task binds and closes, any number of tasks search.    *)
(* The sockets that were ever inserted get ranks in the order of their     *)
(* insertion.  A pointer then leads from any item a search may be at to    *)
(* one that is not past any socket still bound.                            *)
(***************************************************************************)
Item == Sockets \cup {ListEnd}

OneTask == \A t, u \in Tasks : t = u

\* The sockets with a status, and whether a task is at one of some steps of a
\* call of fn for socket s.
Having(st, value) == {s \in Sockets : st[s] = value}

InCall(c, t, fn, s, n) == c[t] = [fn |-> fn, s |-> s, step |-> n]

Doing(c, fn, s, steps) ==
    \E t \in Tasks, n \in steps : InCall(c, t, fn, s, n)

\* The items the forward pointers of the list go through: those it holds when
\* no call is under way, and the one being inserted or removed.
Settled(st)       == {ListEnd} \cup Having(st, "bound")
SettledAnd(st, s) == Settled(st) \cup {s}

ListedIn(st, c) ==
    Settled(st)
    \cup {s \in Sockets : \/ Doing(c, "vListInsertEnd", s, {4, 5})
                          \/ Doing(c, "uxListRemove", s, {1, 2})}

\* The items whose pointers are good for a search that begins now.
LiveIn(st, c) ==
    ListedIn(st, c) \cup {s \in Sockets : Doing(c, "uxListRemove", s, {3})}

Listed == ListedIn(status, call)
Live   == LiveIn(status, call)

\* The items that are or were on the list.
Linked == Live \cup Having(status, "closed")

BoundTypes ==
    /\ pxNext \in [Item -> Item]
    /\ pxPrevious \in [Item -> Item]
    /\ status \in [Sockets -> {"new", "binding", "bound", "closing", "closed"}]
    /\ xItemValue \in [Sockets -> Ports \cup {0}]
    /\ search \in [Readers -> [active : BOOLEAN, at : Item,
                               key : Ports \cup {0},
                               throughout : SUBSET Sockets,
                               gone : SUBSET Sockets]]
    /\ call \in [Tasks -> [fn : {"none", "vListInsertEnd", "uxListRemove"},
                           s : Item, step : Nat]]

\* What a task is doing to a socket shows in the status of the socket.
CallInv ==
    /\ \A t \in Tasks :
          \/ call[t] = NoCall
          \/ \E s \in Sockets :
                \/ /\ status[s] = "binding"
                   /\ \E n \in 1..5 :
                         InCall(call, t, "vListInsertEnd", s, n)
                \/ /\ status[s] = "closing"
                   /\ \E n \in 1..3 :
                         InCall(call, t, "uxListRemove", s, n)
    /\ \A s \in Sockets :
          /\ status[s] = "binding" => Doing(call, "vListInsertEnd", s, 1..5)
          /\ status[s] = "closing" => Doing(call, "uxListRemove", s, 1..3)

\* From the items in from, pointers lead upwards, to items in to, and skip
\* none of the items in to.
Leads(next, from, to, rank) ==
    \A x \in from :
        /\ next[x] \in to
        /\ next[x] # ListEnd => rank[x] < rank[next[x]]
        /\ \A t \in to \ {ListEnd} :
              rank[x] < rank[t] =>
                  next[x] # ListEnd /\ rank[next[x]] <= rank[t]

\* The pointers of item e are not yet, or no more, those of its neighbours.
Half(next, prev, list, e) ==
    /\ \A x \in list \ {e} : prev[next[x]] = x
    /\ \A y \in list \ {next[e]} : prev[y] \in list /\ next[prev[y]] = y
    /\ prev[next[e]] = prev[e]

Whole(next, prev, list) ==
    /\ \A x \in list : prev[next[x]] = x
    /\ \A y \in list : prev[y] \in list /\ next[prev[y]] = y

Ranked(rank, m) ==
    /\ rank[ListEnd] = 0
    /\ \A x \in Linked \ {ListEnd} : rank[x] \in 1..m
    /\ \A x, y \in Linked : rank[x] = rank[y] => x = y

\* Both directions of the list, and the pointers of an item being inserted.
ListIn(next, prev, c, list) ==
    /\ \A s \in Sockets :
          Doing(c, "vListInsertEnd", s, {4}) \/ Doing(c, "uxListRemove", s, {2})
              => Half(next, prev, list, s)
    /\ (\A s \in Sockets : ~Doing(c, "vListInsertEnd", s, {4})
                           /\ ~Doing(c, "uxListRemove", s, {2}))
          => Whole(next, prev, list)
    /\ \A s \in Sockets :
          /\ Doing(c, "vListInsertEnd", s, {2, 3, 4}) => next[s] = ListEnd
          /\ Doing(c, "vListInsertEnd", s, {3}) => prev[s] = prev[ListEnd]

ListInv == ListIn(pxNext, pxPrevious, call, Listed)

\* From the items in from, pointers stay in from and pass none in ahead.
Passes(next, from, ahead, rank) ==
    \A x \in from :
        /\ next[x] \in from
        /\ \A t \in ahead :
              rank[x] < rank[t] =>
                  next[x] # ListEnd /\ rank[next[x]] <= rank[t]

\* A search is at an item that was not gone when it began, and has passed no
\* socket that was bound all the while.
SearchInv(r, rank) ==
    LET from  == Linked \ search[r].gone
        ahead == search[r].throughout
        at    == search[r].at
    IN  /\ search[r].gone \subseteq Having(status, "closed")
        /\ ahead \subseteq {s \in Sockets : status[s] = "bound"
                                       /\ xItemValue[s] = search[r].key}
        /\ at \in from
        /\ Passes(pxNext, from, ahead, rank)
        /\ \A t \in ahead : at # ListEnd /\ rank[at] <= rank[t]

RankInv(rank, m) ==
    /\ Ranked(rank, m)
    /\ Leads(pxNext, Live, Listed, rank)
    /\ \A r \in Readers : search[r].active => SearchInv(r, rank)

BoundInv ==
    /\ BoundTypes /\ CallInv /\ ListInv
    /\ \E rank \in [Item -> Nat], m \in Nat : RankInv(rank, m)

\* vListInsertEnd(), third assignment: the last item points to the new one.
LEMMA InsertForward ==
    ASSUME NEW next \in [Item -> Item], NEW prev \in [Item -> Item],
           NEW list, ListEnd \in list, list \subseteq Item,
           NEW rank \in [Item -> Nat], NEW m \in Nat,
           \A x \in list : rank[x] <= m,
           Leads(next, list, list, rank), Whole(next, prev, list),
           NEW s \in Sockets, s \notin list,
           next[s] = ListEnd, prev[s] = prev[ListEnd],
           NEW next2, next2 = [next EXCEPT ![prev[ListEnd]] = s],
           NEW rank2, rank2 = [rank EXCEPT ![s] = m + 1],
           NEW list2, list2 = list \cup {s}
    PROVE  Half(next2, prev, list2, s) /\ Leads(next2, list2, list2, rank2)
<1> DEFINE l == prev[ListEnd]
<1>1. /\ l \in list /\ next[l] = ListEnd /\ s # ListEnd /\ l # s
      /\ \A x \in list : next[x] \in list /\ prev[next[x]] = x
      /\ \A x \in list : next[x] = ListEnd => x = l
  BY BoundSocketsAssumption DEF Whole, Leads
<1>2. /\ next2[l] = s /\ next2[s] = ListEnd
      /\ \A x \in list : x # l => next2[x] = next[x] /\ next[x] # ListEnd
  BY <1>1
<1>3. /\ rank2[s] = m + 1
      /\ \A x \in list : rank2[x] = rank[x] /\ rank[x] \in Nat
  BY <1>1 DEF Item
<1> HIDE DEF l
<1>4. Half(next2, prev, list2, s)
  <2>1. \A x \in list2 \ {s} : prev[next2[x]] = x
    BY <1>1, <1>2 DEF l
  <2>2. \A y \in list2 \ {next2[s]} : prev[y] \in list2 /\ next2[prev[y]] = y
    BY <1>1, <1>2 DEF l, Whole
  <2>3. prev[next2[s]] = prev[s]
    BY <1>2
  <2> QED
    BY <2>1, <2>2, <2>3 DEF Half
<1>5. ASSUME NEW x \in list2
      PROVE  /\ next2[x] \in list2
             /\ next2[x] # ListEnd => rank2[x] < rank2[next2[x]]
             /\ \A t \in list2 \ {ListEnd} :
                   rank2[x] < rank2[t] =>
                       next2[x] # ListEnd /\ rank2[next2[x]] <= rank2[t]
  <2>1. CASE x = s
    BY <1>1, <1>2, <1>3, <2>1
  <2>2. CASE x = l
    <3>1. \A t \in list \ {ListEnd} : ~(rank[l] < rank[t])
      BY <1>1 DEF Leads
    <3> QED
      BY <1>1, <1>2, <1>3, <2>2, <3>1
  <2>3. CASE x \in list /\ x # l
    <3>1. /\ next2[x] = next[x] /\ next[x] \in list /\ next[x] # ListEnd
          /\ rank[x] < rank[next[x]]
          /\ \A t \in list \ {ListEnd} :
                rank[x] < rank[t] => rank[next[x]] <= rank[t]
      BY <1>1, <1>2, <2>3 DEF Leads
    <3> QED
      BY <1>1, <1>3, <2>3, <3>1
  <2> QED
    BY <2>1, <2>2, <2>3
<1> QED
  BY <1>4, <1>5 DEF Leads

\* vListInsertEnd(), last assignment.
LEMMA InsertBackward ==
    ASSUME NEW next \in [Item -> Item], NEW prev \in [Item -> Item],
           NEW list, list \subseteq Item, ListEnd \in list,
           NEW s \in list, s # ListEnd, next[s] = ListEnd,
           Half(next, prev, list, s),
           NEW prev2, prev2 = [prev EXCEPT ![ListEnd] = s]
    PROVE  Whole(next, prev2, list)
<1>1. /\ prev2[ListEnd] = s
      /\ \A x \in list : x # ListEnd => prev2[x] = prev[x]
  BY DEF Half
<1>2. prev[s] \in list /\ next[prev[s]] = s
  BY DEF Half
<1>3. \A x \in list \ {s} : next[x] # ListEnd
  BY <1>2 DEF Half
<1>4. \A x \in list : prev2[next[x]] = x
  BY <1>1, <1>3 DEF Half
<1>5. \A y \in list : prev2[y] \in list /\ next[prev2[y]] = y
  BY <1>1 DEF Half
<1> QED
  BY <1>4, <1>5 DEF Whole

\* uxListRemove(), first assignment.
LEMMA RemoveBackward ==
    ASSUME NEW next \in [Item -> Item], NEW prev \in [Item -> Item],
           NEW list, list \subseteq Item, NEW s \in list, next[s] # s,
           next[s] \in list, Whole(next, prev, list),
           NEW prev2, prev2 = [prev EXCEPT ![next[s]] = prev[s]]
    PROVE  Half(next, prev2, list, s)
<1>1. /\ prev2[next[s]] = prev[s] /\ prev2[s] = prev[s]
      /\ \A x \in list : x # next[s] => prev2[x] = prev[x]
  OBVIOUS
<1>2. \A x \in list \ {s} : next[x] # next[s]
  BY DEF Whole
<1>3. \A x \in list \ {s} : prev2[next[x]] = x
  BY <1>2 DEF Whole
<1> QED
  BY <1>1, <1>3 DEF Half, Whole

\* uxListRemove(), second assignment: the item is passed over.
LEMMA RemoveForward ==
    ASSUME NEW next \in [Item -> Item], NEW prev \in [Item -> Item],
           NEW list, list \subseteq Item, ListEnd \in list,
           NEW rank \in [Item -> Nat],
           \A x, y \in list : rank[x] = rank[y] => x = y,
           Leads(next, list, list, rank),
           NEW s \in list, s # ListEnd, Half(next, prev, list, s),
           NEW next2, next2 = [next EXCEPT ![prev[s]] = next[s]],
           NEW list2, list2 = list \ {s}
    PROVE  Whole(next2, prev, list2) /\ Leads(next2, list, list2, rank)
<1> DEFINE p == prev[s]
           n == next[s]
<1>1. /\ n \in list /\ n # s
      /\ p \in list /\ next[p] = s /\ p # s
      /\ prev[n] = p
      /\ \A x \in list : next[x] \in list
      /\ \A x \in list : next[x] = s => x = p
  BY DEF Half, Leads
<1>2. /\ next2[p] = n
      /\ \A x \in list : x # p => next2[x] = next[x]
  BY <1>1
<1> HIDE DEF p, n
<1>3. \A x \in list2 : prev[next2[x]] = x
  BY <1>1, <1>2 DEF Half, p, n
<1>4. \A y \in list2 : prev[y] \in list2 /\ next2[prev[y]] = y
  <2>1. \A y \in list2 \ {n} :
           prev[y] \in list /\ next[prev[y]] = y /\ prev[y] # s /\ prev[y] # p
    BY <1>1 DEF Half, n
  <2> QED
    BY <1>1, <1>2, <2>1
<1>5. ASSUME NEW x \in list
      PROVE  /\ next2[x] \in list2
             /\ next2[x] # ListEnd => rank[x] < rank[next2[x]]
             /\ \A t \in list2 \ {ListEnd} :
                   rank[x] < rank[t] =>
                       next2[x] # ListEnd /\ rank[next2[x]] <= rank[t]
  <2>1. CASE x = p
    <3>1. rank[p] < rank[s] /\ (n # ListEnd => rank[s] < rank[n])
      BY <1>1 DEF Leads, n
    <3>2. ASSUME NEW t \in list2 \ {ListEnd}, rank[p] < rank[t]
          PROVE  n # ListEnd /\ rank[n] <= rank[t]
      <4>1. rank[s] <= rank[t]
        BY <1>1, <3>2 DEF Leads
      <4>2. rank[s] # rank[t] /\ rank[s] \in Nat /\ rank[t] \in Nat
        BY <3>2
      <4>3. rank[s] < rank[t]
        BY <4>1, <4>2
      <4> QED
        BY <4>3 DEF Leads, n
    <3>3. n # ListEnd => rank[n] \in Nat
      BY <1>1
    <3> QED
      BY <1>1, <1>2, <2>1, <3>1, <3>2, <3>3
  <2>2. CASE x # p
    BY <1>1, <1>2, <2>2 DEF Leads
  <2> QED
    BY <2>1, <2>2
<1> QED
  BY <1>3, <1>4, <1>5 DEF Whole, Leads

\* What the two assignments of next do to a search under way.
LEMMA InsertPasses ==
    ASSUME NEW next \in [Item -> Item], NEW l \in Item, next[l] = ListEnd,
           NEW s \in Sockets, next[s] = ListEnd,
           NEW rank \in [Item -> Nat], NEW m \in Nat,
           NEW from, from \subseteq Item, \A x \in from : rank[x] <= m,
           s \notin from,
           NEW ahead, ahead \subseteq from,
           ListEnd \in from,
           Passes(next, from, ahead, rank),
           NEW next2, next2 = [next EXCEPT ![l] = s],
           NEW rank2, rank2 = [rank EXCEPT ![s] = m + 1],
           NEW from2, from2 = from \cup {s}
    PROVE  Passes(next2, from2, ahead, rank2)
<1>1. s # ListEnd
  BY BoundSocketsAssumption
<1>2. /\ rank2[s] = m + 1
      /\ \A x \in from : rank2[x] = rank[x] /\ rank[x] \in Nat
  BY DEF Item
<1>3. next2[l] = s /\ \A x \in from2 : x # l => next2[x] = next[x]
  OBVIOUS
<1>4. ASSUME NEW x \in from2
      PROVE  /\ next2[x] \in from2
             /\ \A t \in ahead :
                   rank2[x] < rank2[t] =>
                       next2[x] # ListEnd /\ rank2[next2[x]] <= rank2[t]
  <2>1. CASE x = s
    <3>1. next2[x] \in from2
      BY <1>3, <2>1
    <3>2. \A t \in ahead : rank2[t] <= m /\ rank2[t] \in Nat
      BY <1>2
    <3> QED
      BY <1>2, <2>1, <3>1, <3>2
  <2>2. CASE x = l /\ x # s
    <3>1. x \in from
      BY <2>2
    <3>2. \A t \in ahead : ~(rank[x] < rank[t])
      BY <2>2, <3>1 DEF Passes
    <3> QED
      BY <1>2, <1>3, <2>2, <3>1, <3>2
  <2>3. CASE x # l /\ x # s
    <3>1. x \in from /\ next2[x] = next[x]
      BY <1>3, <2>3
    <3>2. next[x] \in from
      BY <3>1 DEF Passes
    <3>3. \A t \in ahead :
             rank[x] < rank[t] => next[x] # ListEnd /\ rank[next[x]] <= rank[t]
      BY <3>1 DEF Passes
    <3> QED
      BY <1>2, <3>1, <3>2, <3>3
  <2> QED
    BY <2>1, <2>2, <2>3
<1> QED
  BY <1>4 DEF Passes

LEMMA RemovePasses ==
    ASSUME NEW next \in [Item -> Item], NEW p \in Item, NEW s \in Sockets,
           next[p] = s,
           NEW rank \in [Item -> Nat],
           NEW from, from \subseteq Item, s \in from,
           NEW ahead, ahead \subseteq from, s \notin ahead,
           \A x, y \in from : rank[x] = rank[y] => x = y,
           Passes(next, from, ahead, rank),
           NEW next2, next2 = [next EXCEPT ![p] = next[s]]
    PROVE  Passes(next2, from, ahead, rank)
<1>1. next2[p] = next[s] /\ \A x \in from : x # p => next2[x] = next[x]
  OBVIOUS
<1>2. ASSUME NEW x \in from
      PROVE  /\ next2[x] \in from
             /\ \A t \in ahead :
                   rank[x] < rank[t] =>
                       next2[x] # ListEnd /\ rank[next2[x]] <= rank[t]
  <2>1. CASE x = p
    <3>1. next[s] \in from
      BY DEF Passes
    <3>2. ASSUME NEW t \in ahead, rank[p] < rank[t]
          PROVE  next[s] # ListEnd /\ rank[next[s]] <= rank[t]
      <4>1. rank[s] <= rank[t]
        BY <2>1, <3>2 DEF Passes
      <4>2. rank[s] # rank[t] /\ rank[s] \in Nat /\ rank[t] \in Nat
        BY <3>2
      <4>3. rank[s] < rank[t]
        BY <4>1, <4>2
      <4> QED
        BY <3>2, <4>3 DEF Passes
    <3> QED
      BY <1>1, <2>1, <3>1, <3>2
  <2>2. CASE x # p
    BY <1>1, <2>2 DEF Passes
  <2> QED
    BY <2>1, <2>2
<1> QED
  BY <1>2 DEF Passes

\* With one task, its call is the only one.
LEMMA DoingOne ==
    ASSUME OneTask, NEW t \in Tasks, NEW c, NEW f, NEW s, NEW n,
           InCall(c, t, f, s, n)
    PROVE  \A g, q, steps :
              Doing(c, g, q, steps) <=> g = f /\ q = s /\ n \in steps
<1> SUFFICES ASSUME NEW g, NEW q, NEW steps
             PROVE  Doing(c, g, q, steps) <=> g = f /\ q = s /\ n \in steps
  OBVIOUS
<1>1. ASSUME Doing(c, g, q, steps)
      PROVE  g = f /\ q = s /\ n \in steps
  <2>1. PICK u \in Tasks, k \in steps : InCall(c, u, g, q, k)
    BY <1>1 DEF Doing
  <2>2. [fn |-> g, s |-> q, step |-> k] = [fn |-> f, s |-> s, step |-> n]
    BY <2>1 DEF OneTask, InCall
  <2> QED
    BY <2>2
<1>2. ASSUME g = f, q = s, n \in steps
      PROVE  Doing(c, g, q, steps)
  BY <1>2 DEF Doing
<1> QED
  BY <1>1, <1>2

LEMMA DoingNone ==
    ASSUME OneTask, NEW t \in Tasks, NEW c, c[t] = NoCall
    PROVE  \A g, q, steps : g # "none" => ~Doing(c, g, q, steps)
<1> SUFFICES ASSUME NEW g, NEW q, NEW steps, g # "none",
                    Doing(c, g, q, steps)
             PROVE  FALSE
  OBVIOUS
<1>1. PICK u \in Tasks, k \in steps : InCall(c, u, g, q, k)
  BY DEF Doing
<1>2. [fn |-> g, s |-> q, step |-> k] = [fn |-> "none", s |-> ListEnd, step |-> 0]
  BY <1>1 DEF OneTask, NoCall, InCall
<1> QED
  BY <1>2

\* The items of the list, by what the task does.
LEMMA SetsIdle ==
    ASSUME OneTask, NEW t \in Tasks, NEW st, NEW c, c[t] = NoCall
    PROVE  /\ ListedIn(st, c) = Settled(st)
           /\ LiveIn(st, c) = ListedIn(st, c)
  BY DoingNone DEF ListedIn, LiveIn, Settled, SettledAnd

LEMMA SetsInsert ==
    ASSUME OneTask, NEW t \in Tasks, NEW st, NEW c, NEW s \in Sockets,
           NEW n \in 1..5,
           InCall(c, t, "vListInsertEnd", s, n)
    PROVE  /\ n \in {4, 5} =>
                ListedIn(st, c) = SettledAnd(st, s)
           /\ n \in {1, 2, 3} =>
                ListedIn(st, c) = Settled(st)
           /\ LiveIn(st, c) = ListedIn(st, c)
<1>1. \A g, q, steps :
         Doing(c, g, q, steps) <=> g = "vListInsertEnd" /\ q = s /\ n \in steps
  BY DoingOne
<1> QED
  BY <1>1 DEF ListedIn, LiveIn, Settled, SettledAnd

LEMMA ListedRemove ==
    ASSUME OneTask, NEW t \in Tasks, NEW st, NEW c, NEW s \in Sockets,
           NEW n \in 1..2, InCall(c, t, "uxListRemove", s, n)
    PROVE  ListedIn(st, c) = SettledAnd(st, s)
<1>1. \A g, q, steps :
         Doing(c, g, q, steps) <=> g = "uxListRemove" /\ q = s /\ n \in steps
  BY DoingOne
<1> QED
  BY <1>1 DEF ListedIn, SettledAnd

LEMMA ListedRemoved ==
    ASSUME OneTask, NEW t \in Tasks, NEW st, NEW c, NEW s \in Sockets,
           InCall(c, t, "uxListRemove", s, 3)
    PROVE  ListedIn(st, c) = Settled(st)
<1>1. \A g, q, steps :
         Doing(c, g, q, steps) <=> g = "uxListRemove" /\ q = s /\ 3 \in steps
  BY DoingOne
<1> QED
  BY <1>1 DEF ListedIn, SettledAnd

LEMMA LiveRemove ==
    ASSUME OneTask, NEW t \in Tasks, NEW st, NEW c, NEW s \in Sockets,
           NEW n \in 1..3, InCall(c, t, "uxListRemove", s, n)
    PROVE  LiveIn(st, c) = SettledAnd(st, s)
<1>1. \A g, q, steps :
         Doing(c, g, q, steps) <=> g = "uxListRemove" /\ q = s /\ n \in steps
  BY DoingOne
<1>2. CASE n = 3
  <2>1. ListedIn(st, c) = Settled(st)
    BY <1>2, ListedRemoved
  <2> QED
    BY <1>1, <1>2, <2>1 DEF LiveIn, SettledAnd
<1>3. CASE n \in 1..2
  <2>1. ListedIn(st, c) = SettledAnd(st, s)
    BY <1>3, ListedRemove
  <2> QED
    BY <1>1, <1>3, <2>1 DEF LiveIn, SettledAnd
<1> QED
  BY <1>2, <1>3

\* Which socket the call of a task is for.
LEMMA Inserting ==
    ASSUME CallInv, NEW t \in Tasks, NEW n \in 1..5,
           AtStep(t, "vListInsertEnd", n)
    PROVE  \E s \in Sockets :
              /\ s = call[t].s
              /\ status[s] = "binding"
              /\ InCall(call, t, "vListInsertEnd", s, n)
<1>1. call[t].fn = "vListInsertEnd" /\ call[t].step = n
  BY DEF AtStep
<1>2. call[t] # NoCall
  BY <1>1 DEF NoCall
<1>3. PICK s \in Sockets :
         \/ /\ status[s] = "binding"
            /\ \E k \in 1..5 :
                  InCall(call, t, "vListInsertEnd", s, k)
         \/ /\ status[s] = "closing"
            /\ \E k \in 1..3 :
                  InCall(call, t, "uxListRemove", s, k)
  BY <1>2 DEF CallInv
<1>4. \A k : ~InCall(call, t, "uxListRemove", s, k)
  BY <1>1 DEF InCall
<1>5. status[s] = "binding"
      /\ \E k \in 1..5 :
            InCall(call, t, "vListInsertEnd", s, k)
  BY <1>3, <1>4
<1>6. PICK k \in 1..5 :
         InCall(call, t, "vListInsertEnd", s, k)
  BY <1>5
<1>7. k = n /\ s = call[t].s
  BY <1>1, <1>6 DEF InCall
<1> QED
  BY <1>5, <1>6, <1>7

LEMMA Removing ==
    ASSUME CallInv, NEW t \in Tasks, NEW n \in 1..3,
           AtStep(t, "uxListRemove", n)
    PROVE  \E s \in Sockets :
              /\ s = call[t].s
              /\ status[s] = "closing"
              /\ InCall(call, t, "uxListRemove", s, n)
<1>1. call[t].fn = "uxListRemove" /\ call[t].step = n
  BY DEF AtStep
<1>2. call[t] # NoCall
  BY <1>1 DEF NoCall
<1>3. PICK s \in Sockets :
         \/ /\ status[s] = "binding"
            /\ \E k \in 1..5 :
                  InCall(call, t, "vListInsertEnd", s, k)
         \/ /\ status[s] = "closing"
            /\ \E k \in 1..3 :
                  InCall(call, t, "uxListRemove", s, k)
  BY <1>2 DEF CallInv
<1>4. \A k : ~InCall(call, t, "vListInsertEnd", s, k)
  BY <1>1 DEF InCall
<1>5. status[s] = "closing"
      /\ \E k \in 1..3 :
            InCall(call, t, "uxListRemove", s, k)
  BY <1>3, <1>4
<1>6. PICK k \in 1..3 :
         InCall(call, t, "uxListRemove", s, k)
  BY <1>5
<1>7. k = n /\ s = call[t].s
  BY <1>1, <1>6 DEF InCall
<1> QED
  BY <1>5, <1>6, <1>7

\* The status of the sockets, by what the task does.
LEMMA StatusOne ==
    ASSUME OneTask, CallInv, NEW t \in Tasks, NEW f, NEW s, NEW n,
           InCall(call, t, f, s, n)
    PROVE  \A q \in Sockets : q # s => status[q] \notin {"binding", "closing"}
  BY DoingOne DEF CallInv

LEMMA StatusNone ==
    ASSUME OneTask, CallInv, NEW t \in Tasks, call[t] = NoCall
    PROVE  \A q \in Sockets : status[q] \notin {"binding", "closing"}
  BY DoingNone DEF CallInv

\* The call after a step: what is to be shown of the calls.
LEMMA CallsAfter ==
    ASSUME OneTask, NEW t \in Tasks, NEW s \in Sockets,
           \A q \in Sockets :
              q # s => status'[q] \notin {"binding", "closing"},
           \/ /\ call'[t] = NoCall
              /\ status'[s] \notin {"binding", "closing"}
           \/ /\ status'[s] = "binding"
              /\ \E n \in 1..5 :
                    InCall(call', t, "vListInsertEnd", s, n)
           \/ /\ status'[s] = "closing"
              /\ \E n \in 1..3 :
                    InCall(call', t, "uxListRemove", s, n)
    PROVE  CallInv'
<1>1. \A u \in Tasks : u = t
  BY DEF OneTask
<1>2. CASE /\ call'[t] = NoCall
           /\ status'[s] \notin {"binding", "closing"}
  BY <1>1, <1>2 DEF CallInv
<1>3. CASE /\ status'[s] = "binding"
           /\ \E n \in 1..5 :
                 InCall(call', t, "vListInsertEnd", s, n)
  BY <1>1, <1>3 DEF CallInv, Doing
<1>4. CASE /\ status'[s] = "closing"
           /\ \E n \in 1..3 :
                 InCall(call', t, "uxListRemove", s, n)
  BY <1>1, <1>4 DEF CallInv, Doing
<1> QED
  BY <1>2, <1>3, <1>4

\* What ListInv says, by what the task does.
LEMMA ListIdle ==
    ASSUME OneTask, NEW t \in Tasks, NEW c, c[t] = NoCall,
           NEW next, NEW prev, NEW list
    PROVE  ListIn(next, prev, c, list) <=> Whole(next, prev, list)
  BY DoingNone DEF ListIn

LEMMA ListInsert ==
    ASSUME OneTask, NEW t \in Tasks, NEW c, NEW s \in Sockets, NEW n \in 1..5,
           InCall(c, t, "vListInsertEnd", s, n),
           NEW next, NEW prev, NEW list
    PROVE  ListIn(next, prev, c, list) <=>
             /\ n = 4 => Half(next, prev, list, s)
             /\ n # 4 => Whole(next, prev, list)
             /\ n \in {2, 3, 4} => next[s] = ListEnd
             /\ n = 3 => prev[s] = prev[ListEnd]
<1>1. \A g, q, steps :
         Doing(c, g, q, steps) <=> g = "vListInsertEnd" /\ q = s /\ n \in steps
  BY DoingOne
<1> QED
  BY <1>1 DEF ListIn

LEMMA ListRemove ==
    ASSUME OneTask, NEW t \in Tasks, NEW c, NEW s \in Sockets, NEW n \in 1..3,
           InCall(c, t, "uxListRemove", s, n),
           NEW next, NEW prev, NEW list
    PROVE  ListIn(next, prev, c, list) <=>
             /\ n = 2 => Half(next, prev, list, s)
             /\ n # 2 => Whole(next, prev, list)
<1>1. \A g, q, steps :
         Doing(c, g, q, steps) <=> g = "uxListRemove" /\ q = s /\ n \in steps
  BY DoingOne
<1> QED
  BY <1>1 DEF ListIn

\* An assignment of a call leads to the next one.
LEMMA Stepped ==
    ASSUME BoundTypes, NEW t \in Tasks, NEW f, NEW s, NEW n \in Nat,
           InCall(call, t, f, s, n), StepOn(t)
    PROVE  /\ InCall(call', t, f, s, n + 1)
           /\ call' \in [Tasks -> [fn : {"none", "vListInsertEnd", "uxListRemove"},
                                   s : Item, step : Nat]]
<1>1. /\ call' = [call EXCEPT ![t] = [call[t] EXCEPT !.step = call[t].step + 1]]
      /\ call \in [Tasks -> [fn : {"none", "vListInsertEnd", "uxListRemove"},
                             s : Item, step : Nat]]
  BY DEF StepOn, BoundTypes
<1>2. [call[t] EXCEPT !.step = call[t].step + 1]
        = [fn |-> f, s |-> s, step |-> n + 1]
  BY DEF InCall
<1>3. call[t] \in [fn : {"none", "vListInsertEnd", "uxListRemove"},
                   s : Item, step : Nat]
  BY <1>1
<1>4. [fn |-> f, s |-> s, step |-> n + 1]
        \in [fn : {"none", "vListInsertEnd", "uxListRemove"},
             s : Item, step : Nat]
  BY <1>2, <1>3
<1> QED
  BY <1>1, <1>2, <1>4 DEF InCall

\* A step that changes no pointer a search may follow, on the same list.
LEMMA Quiet ==
    ASSUME BoundTypes, NEW rank, NEW m, RankInv(rank, m),
           Listed' = Listed, Live' \subseteq Live, Linked' = Linked,
           Having(status, "closed") \subseteq Having(status, "closed")',
           \A x \in Linked : pxNext'[x] = pxNext[x],
           \A r \in Readers : search'[r].active =>
               /\ search[r].active
               /\ search'[r].at = search[r].at
               /\ search'[r].key = search[r].key
               /\ search'[r].gone = search[r].gone
               /\ search'[r].throughout \subseteq search[r].throughout
               /\ \A q \in search'[r].throughout :
                     status'[q] = "bound" /\ xItemValue'[q] = xItemValue[q]
    PROVE  RankInv(rank, m)'
<1>1. Ranked(rank, m)'
  BY DEF RankInv, Ranked
<1>2. Leads(pxNext, Live, Listed, rank)'
  BY DEF RankInv, Leads, Linked
<1>3. ASSUME NEW r \in Readers, search'[r].active
      PROVE  SearchInv(r, rank)'
  <2>1. SearchInv(r, rank)
    BY <1>3 DEF RankInv
  <2>2. /\ search'[r].at = search[r].at
        /\ search'[r].key = search[r].key
        /\ search'[r].gone = search[r].gone
        /\ search'[r].throughout \subseteq search[r].throughout
        /\ \A q \in search'[r].throughout :
              status'[q] = "bound" /\ xItemValue'[q] = xItemValue[q]
    BY <1>3
  <2>3. Passes(pxNext, Linked \ search[r].gone, search[r].throughout, rank)'
    BY <2>1, <2>2 DEF SearchInv, Passes
  <2>4. /\ search'[r].gone \subseteq Having(status, "closed")'
        /\ search'[r].throughout \subseteq
             {q \in Sockets : status'[q] = "bound"
                              /\ xItemValue'[q] = search'[r].key}
    BY <2>1, <2>2 DEF SearchInv
  <2>5. /\ search'[r].at \in Linked' \ search'[r].gone
        /\ \A q \in search'[r].throughout :
              search'[r].at # ListEnd /\ rank[search'[r].at] <= rank[q]
    BY <2>1, <2>2 DEF SearchInv
  <2> QED
    BY <2>2, <2>3, <2>4, <2>5 DEF SearchInv
<1> QED
  BY <1>1, <1>2, <1>3 DEF RankInv

LEMMA QuietForSearches ==
    ASSUME BoundTypes, NEW rank, NEW m, RankInv(rank, m),
           Listed' = Listed, Live' = Live,
           Having(status, "closed")' = Having(status, "closed"),
           \A x \in Linked : pxNext'[x] = pxNext[x],
           search' = search,
           \A q \in Sockets : status[q] = "bound" =>
               status'[q] = "bound" /\ xItemValue'[q] = xItemValue[q]
    PROVE  RankInv(rank, m)'
<1>1. Linked' = Linked
  BY DEF Linked
<1>2. ASSUME NEW r \in Readers, search[r].active, NEW q \in search[r].throughout
      PROVE  status'[q] = "bound" /\ xItemValue'[q] = xItemValue[q]
  <2>1. SearchInv(r, rank)
    BY <1>2 DEF RankInv
  <2> QED
    BY <1>2, <2>1 DEF SearchInv
<1> QED
  BY <1>1, <1>2, Quiet

\* The sets of items before and after an assignment of vListInsertEnd().
LEMMA InsertSets ==
    ASSUME OneTask, CallInv, BoundTypes, NEW t \in Tasks, NEW s \in Sockets,
           NEW n \in 1..4, status[s] = "binding",
           InCall(call, t, "vListInsertEnd", s, n),
           StepOn(t)
    PROVE  /\ InCall(call', t, "vListInsertEnd", s, n + 1)
           /\ CallInv'
           /\ Live = Listed /\ Live' = Listed'
           /\ Having(status, "closed")' = Having(status, "closed")
           /\ n \in {1, 2, 3} => s \notin Linked
           /\ n = 4 => s \in Listed
           /\ n = 3 => Listed' = Listed \cup {s}
           /\ n # 3 => Listed' = Listed
           /\ s # ListEnd /\ s \in Item
<1>1. InCall(call', t, "vListInsertEnd", s, n + 1)
  BY Stepped
<1>2. status' = status /\ n + 1 \in 1..5 /\ n \in 1..5
  BY DEF StepOn
<1>3. CallInv'
  <2>1. \A q \in Sockets : q # s => status'[q] \notin {"binding", "closing"}
    BY <1>2, StatusOne
  <2>2. /\ status'[s] = "binding"
        /\ \E k \in 1..5 :
              InCall(call', t, "vListInsertEnd", s, k)
    BY <1>1, <1>2
  <2> QED
    BY <2>1, <2>2, CallsAfter
<1>4. /\ n \in {4, 5} =>
           ListedIn(status, call) = SettledAnd(status, s)
      /\ n \in {1, 2, 3} =>
           ListedIn(status, call) = Settled(status)
      /\ LiveIn(status, call) = ListedIn(status, call)
  BY <1>2, SetsInsert
<1>5. /\ n + 1 \in {4, 5} =>
           ListedIn(status', call')
             = SettledAnd(status', s)
      /\ n + 1 \in {1, 2, 3} =>
           ListedIn(status', call') = Settled(status')
      /\ LiveIn(status', call') = ListedIn(status', call')
  BY <1>1, <1>2, SetsInsert
<1>6. s # ListEnd /\ s \notin Having(status, "bound")
      /\ s \notin Having(status, "closed")
  BY BoundSocketsAssumption DEF Having
<1>7. Having(status, "closed")' = Having(status, "closed")
  BY <1>2
<1>8. n \in {1, 2, 3} => s \notin Linked
  BY <1>4, <1>6 DEF Linked, Live, Settled
<1>9. /\ Listed = ListedIn(status, call) /\ Listed' = ListedIn(status', call')
      /\ Live = LiveIn(status, call) /\ Live' = LiveIn(status', call')
  BY DEF Listed, Live
<1>10. Live = Listed /\ Live' = Listed'
  BY <1>4, <1>5, <1>9
<1>11. n = 3 => Listed' = Listed \cup {s}
  BY <1>2, <1>4, <1>5, <1>9 DEF SettledAnd
<1>12. n # 3 => Listed' = Listed
  <2>1. n \in {1, 2} \/ n = 4 \/ n = 3
    OBVIOUS
  <2>2. CASE n \in {1, 2}
    BY <1>2, <1>4, <1>5, <1>9, <2>2
  <2>3. CASE n = 4
    BY <1>2, <1>4, <1>5, <1>9, <2>3
  <2> QED
    BY <2>1, <2>2, <2>3
<1>13. n = 4 => s \in Listed
  BY <1>4, <1>9 DEF SettledAnd
<1> QED
  BY <1>1, <1>3, <1>6, <1>7, <1>8, <1>10, <1>11, <1>12, <1>13 DEF Item

\* The pointers of the list stay within it.
LEMMA Inside ==
    ASSUME BoundTypes, NEW rank, NEW m, RankInv(rank, m)
    PROVE  /\ Listed \subseteq Item /\ Live \subseteq Item /\ Linked \subseteq Item
           /\ ListEnd \in Listed /\ ListEnd \in Live /\ ListEnd \in Linked
           /\ Listed \subseteq Live /\ Live \subseteq Linked
           /\ \A x \in Live : pxNext[x] \in Listed
  BY DEF RankInv, Leads, Listed, Live, Linked, ListedIn, LiveIn, Settled, Having, Item

LEMMA InsertTypes ==
    ASSUME BoundTypes, NEW t \in Tasks, NEW s \in Sockets, NEW n \in Nat,
           InCall(call, t, "vListInsertEnd", s, n),
           StepOn(t),
           pxNext' \in [Item -> Item], pxPrevious' \in [Item -> Item]
    PROVE  BoundTypes'
<1>1. call' \in [Tasks -> [fn : {"none", "vListInsertEnd", "uxListRemove"},
                           s : Item, step : Nat]]
  BY Stepped
<1> QED
  BY <1>1 DEF BoundTypes, StepOn

LEMMA InsertStep ==
    ASSUME OneTask, BoundInv, NEW t \in Tasks, vListInsertEnd(t)
    PROVE  BoundInv'
<1>1. BoundTypes /\ CallInv /\ ListInv
  BY DEF BoundInv
<1>2. PICK rank \in [Item -> Nat], m \in Nat : RankInv(rank, m)
  BY DEF BoundInv
<1>3. StepOn(t)
  BY DEF vListInsertEnd
<1>4. search' = search /\ status' = status /\ xItemValue' = xItemValue
  BY <1>3 DEF StepOn
<1>5. CASE /\ AtStep(t, "vListInsertEnd", 1)
           /\ pxNext' = [pxNext EXCEPT ![call[t].s] = ListEnd]
           /\ UNCHANGED pxPrevious
  <2>1. PICK s \in Sockets :
           /\ s = call[t].s
           /\ status[s] = "binding"
           /\ InCall(call, t, "vListInsertEnd", s, 1)
    BY <1>1, <1>5, Inserting
  <2>2. /\ InCall(call', t, "vListInsertEnd", s, 2)
        /\ CallInv' /\ Listed' = Listed /\ Live' = Live
        /\ Having(status, "closed")' = Having(status, "closed")
        /\ s \notin Linked /\ s # ListEnd /\ s \in Item
    BY <1>1, <1>3, <2>1, InsertSets, 1 \in 1..4, 1 + 1 = 2
  <2>3. /\ pxNext'[s] = ListEnd /\ pxPrevious' = pxPrevious
        /\ \A x \in Linked : pxNext'[x] = pxNext[x]
        /\ pxNext' \in [Item -> Item]
    BY <1>1, <1>2, <1>5, <2>1, <2>2, Inside DEF BoundTypes, Item
  <2>4. RankInv(rank, m)'
    BY <1>1, <1>2, <1>4, <2>2, <2>3, QuietForSearches
  <2>5. Whole(pxNext, pxPrevious, Listed)
    BY <1>1, <2>1, ListInsert, 1 \in 1..5 DEF ListInv
  <2>6. Whole(pxNext', pxPrevious', Listed')
    BY <1>1, <1>2, <2>2, <2>3, <2>5, Inside DEF Whole
  <2>7. ListInv'
    BY <2>1, <2>2, <2>3, <2>6, ListInsert, 2 \in 1..5 DEF ListInv
  <2>8. BoundTypes'
    BY <1>1, <1>3, <2>1, <2>3, InsertTypes DEF BoundTypes
  <2> QED
    BY <2>2, <2>4, <2>7, <2>8 DEF BoundInv
<1>6. CASE /\ AtStep(t, "vListInsertEnd", 2)
           /\ pxPrevious' = [pxPrevious EXCEPT ![call[t].s] = pxPrevious[ListEnd]]
           /\ UNCHANGED pxNext
  <2>1. PICK s \in Sockets :
           /\ s = call[t].s
           /\ status[s] = "binding"
           /\ InCall(call, t, "vListInsertEnd", s, 2)
    BY <1>1, <1>6, Inserting
  <2>2. /\ InCall(call', t, "vListInsertEnd", s, 3)
        /\ CallInv' /\ Listed' = Listed /\ Live' = Live
        /\ Having(status, "closed")' = Having(status, "closed")
        /\ s \notin Linked /\ s # ListEnd /\ s \in Item
    BY <1>1, <1>3, <2>1, InsertSets, 2 \in 1..4, 2 + 1 = 3
  <2>3. /\ pxPrevious'[s] = pxPrevious'[ListEnd] /\ pxNext' = pxNext
        /\ \A x \in Linked : pxPrevious'[x] = pxPrevious[x]
        /\ pxPrevious' \in [Item -> Item]
    BY <1>1, <1>2, <1>6, <2>1, <2>2, Inside DEF BoundTypes, Item
  <2>4. RankInv(rank, m)'
    BY <1>1, <1>2, <1>4, <2>2, <2>3, QuietForSearches
  <2>5. Whole(pxNext, pxPrevious, Listed) /\ pxNext[s] = ListEnd
    BY <1>1, <2>1, ListInsert, 2 \in 1..5 DEF ListInv
  <2>6. Whole(pxNext', pxPrevious', Listed')
    BY <1>1, <1>2, <2>2, <2>3, <2>5, Inside DEF Whole
  <2>7. ListInv'
    BY <2>1, <2>2, <2>3, <2>5, <2>6, ListInsert, 3 \in 1..5 DEF ListInv
  <2>8. BoundTypes'
    BY <1>1, <1>3, <2>1, <2>3, InsertTypes DEF BoundTypes
  <2> QED
    BY <2>2, <2>4, <2>7, <2>8 DEF BoundInv
<1>7. CASE /\ AtStep(t, "vListInsertEnd", 3)
           /\ pxNext' = [pxNext EXCEPT ![pxPrevious[ListEnd]] = call[t].s]
           /\ UNCHANGED pxPrevious
  <2>1. PICK s \in Sockets :
           /\ s = call[t].s
           /\ status[s] = "binding"
           /\ InCall(call, t, "vListInsertEnd", s, 3)
    BY <1>1, <1>7, Inserting
  <2>2. /\ InCall(call', t, "vListInsertEnd", s, 4)
        /\ CallInv' /\ Listed' = Listed \cup {s} /\ Live' = Listed'
        /\ Live = Listed
        /\ Having(status, "closed")' = Having(status, "closed")
        /\ s \notin Linked /\ s # ListEnd /\ s \in Item
    BY <1>1, <1>3, <2>1, InsertSets, 3 \in 1..4, 3 + 1 = 4
  <2>3. /\ pxPrevious' = pxPrevious
        /\ pxNext' = [pxNext EXCEPT ![pxPrevious[ListEnd]] = s]
        /\ pxNext' \in [Item -> Item]
    BY <1>1, <1>7, <2>1, <2>2 DEF BoundTypes, Item
  <2>4. /\ Whole(pxNext, pxPrevious, Listed) /\ pxNext[s] = ListEnd
        /\ pxPrevious[s] = pxPrevious[ListEnd]
    BY <1>1, <2>1, ListInsert, 3 \in 1..5 DEF ListInv
  <2>5. /\ Listed \subseteq Item /\ Linked \subseteq Item /\ ListEnd \in Listed
        /\ ListEnd \in Linked
        /\ Listed \subseteq Linked
    BY <1>1, <1>2, Inside
  <2>6. \A x \in Linked : rank[x] <= m
    BY <1>2 DEF RankInv, Ranked
  <2> DEFINE rank2 == [rank EXCEPT ![s] = m + 1]
  <2>7. rank2 \in [Item -> Nat] /\ m + 1 \in Nat
    BY <2>2
  <2>8. /\ Half(pxNext', pxPrevious, Listed \cup {s}, s)
        /\ Leads(pxNext', Listed \cup {s}, Listed \cup {s}, rank2)
    <3>1. Leads(pxNext, Listed, Listed, rank)
      BY <1>2, <2>2 DEF RankInv
    <3>2. pxNext \in [Item -> Item] /\ pxPrevious \in [Item -> Item]
      BY <1>1 DEF BoundTypes
    <3>3. \A x \in Listed : rank[x] <= m
      BY <2>5, <2>6
    <3>4. s \notin Listed
      BY <2>2, <2>5
    <3> HIDE DEF rank2
    <3>5. rank2 = [rank EXCEPT ![s] = m + 1]
      BY DEF rank2
    <3>6. pxNext' = [pxNext EXCEPT ![pxPrevious[ListEnd]] = s]
      BY <2>3
    <3>7. ListEnd \in Listed /\ Listed \subseteq Item
      BY <2>5
    <3> QED
      BY <2>4, <3>1, <3>2, <3>3, <3>4, <3>5, <3>6, <3>7, InsertForward
  <2>9. Linked' = Linked \cup {s}
    BY <2>2 DEF Linked
  <2>10. rank2[s] = m + 1 /\ \A x \in Linked : rank2[x] = rank[x]
    BY <2>2, <2>5
  <2> HIDE DEF rank2
  <2>11. Ranked(rank2, m + 1)'
    <3>1. rank2[ListEnd] = 0
      BY <1>2, <2>5, <2>10 DEF RankInv, Ranked
    <3>2. \A x \in Linked \ {ListEnd} : rank[x] \in 1..m
      BY <1>2 DEF RankInv, Ranked
    <3>3. \A x \in (Linked \cup {s}) \ {ListEnd} : rank2[x] \in 1..(m + 1)
      BY <2>10, <3>2
    <3>4. \A x, y \in Linked : rank[x] = rank[y] => x = y
      BY <1>2 DEF RankInv, Ranked
    <3>5. \A x \in Linked : rank2[x] # m + 1
      <4>1. \A x \in Linked : rank[x] \in Nat
        BY <2>5
      <4> QED
        BY <2>6, <2>10, <4>1
    <3>6. \A x, y \in Linked \cup {s} : rank2[x] = rank2[y] => x = y
      BY <2>10, <3>4, <3>5
    <3> QED
      BY <2>9, <3>1, <3>3, <3>6 DEF Ranked
  <2>12. ASSUME NEW r \in Readers, search'[r].active
         PROVE  SearchInv(r, rank2)'
    <3> DEFINE from  == Linked \ search[r].gone
               ahead == search[r].throughout
    <3>1. SearchInv(r, rank) /\ search'[r] = search[r]
      BY <1>2, <1>4, <2>12 DEF RankInv
    <3>2. /\ ahead \subseteq from /\ from \subseteq Linked
          /\ ListEnd \in from /\ s \notin from
          /\ s \notin search[r].gone
      <4>1. ahead \subseteq Linked
        BY <3>1 DEF SearchInv, Linked, Live, LiveIn, ListedIn, Settled, Having
      <4>2. ahead \cap search[r].gone = {}
        BY <3>1 DEF SearchInv, Having
      <4>3. ListEnd \notin search[r].gone
        BY <3>1, BoundSocketsAssumption DEF SearchInv, Having
      <4>4. s \notin search[r].gone
        BY <2>1, <3>1 DEF SearchInv, Having
      <4> QED
        BY <2>2, <2>5, <4>1, <4>2, <4>3, <4>4
    <3>3. Linked' \ search'[r].gone = from \cup {s}
      BY <2>9, <3>1, <3>2
    <3>4. Passes(pxNext', from \cup {s}, ahead, rank2)
      <4>1. Passes(pxNext, from, ahead, rank)
        BY <3>1 DEF SearchInv
      <4>2. pxNext \in [Item -> Item] /\ pxPrevious[ListEnd] \in Item
        BY <1>1 DEF BoundTypes, Item
      <4>3. pxNext[pxPrevious[ListEnd]] = ListEnd
        BY <2>4, <2>5 DEF Whole
      <4>4. \A x \in from : rank[x] <= m
        BY <2>6, <3>2
      <4>5. rank2 = [rank EXCEPT ![s] = m + 1]
        BY DEF rank2
      <4>6. from \subseteq Item /\ ahead \subseteq from /\ ListEnd \in from
            /\ s \notin from
        BY <2>5, <3>2
      <4>7. pxNext[s] = ListEnd
        BY <2>4
      <4>8. pxNext' = [pxNext EXCEPT ![pxPrevious[ListEnd]] = s]
        BY <2>3
      <4> HIDE DEF from, ahead
      <4> QED
        BY <4>1, <4>2, <4>3, <4>4, <4>5, <4>6, <4>7, <4>8, InsertPasses
    <3>5. search[r].at \in from
          /\ \A q \in ahead : search[r].at # ListEnd /\ rank[search[r].at] <= rank[q]
      BY <3>1 DEF SearchInv
    <3>6. \A q \in ahead : search[r].at # ListEnd
                           /\ rank2[search[r].at] <= rank2[q]
      BY <2>10, <3>2, <3>5
    <3>7. /\ search[r].gone \subseteq Having(status, "closed")
          /\ ahead \subseteq {q \in Sockets : status[q] = "bound"
                                         /\ xItemValue[q] = search[r].key}
      BY <3>1 DEF SearchInv
    <3> HIDE DEF from
    <3> QED
      BY <1>4, <2>2, <3>1, <3>3, <3>4, <3>5, <3>6, <3>7 DEF SearchInv
  <2>13. RankInv(rank2, m + 1)'
    <3>1. Leads(pxNext, Live, Listed, rank2)'
      BY <2>2, <2>8
    <3> QED
      BY <2>11, <2>12, <3>1 DEF RankInv
  <2>14. ListInv'
    <3>1. pxNext'[s] = ListEnd
      <4>1. pxPrevious[ListEnd] \in Listed /\ s \notin Listed
        BY <2>2, <2>4, <2>5 DEF Whole
      <4> QED
        BY <1>1, <2>2, <2>3, <2>4, <4>1 DEF BoundTypes
    <3>2. Half(pxNext', pxPrevious', Listed', s)
      BY <2>2, <2>3, <2>8
    <3> QED
      BY <2>1, <2>2, <3>1, <3>2, ListInsert, 4 \in 1..5 DEF ListInv
  <2>15. BoundTypes'
    BY <1>1, <1>3, <2>1, <2>3, InsertTypes DEF BoundTypes
  <2> QED
    BY <2>2, <2>7, <2>13, <2>14, <2>15 DEF BoundInv
<1>8. CASE /\ AtStep(t, "vListInsertEnd", 4)
           /\ pxPrevious' = [pxPrevious EXCEPT ![ListEnd] = call[t].s]
           /\ UNCHANGED pxNext
  <2>1. PICK s \in Sockets :
           /\ s = call[t].s
           /\ status[s] = "binding"
           /\ InCall(call, t, "vListInsertEnd", s, 4)
    BY <1>1, <1>8, Inserting
  <2>2. /\ InCall(call', t, "vListInsertEnd", s, 5)
        /\ CallInv' /\ Listed' = Listed /\ Live' = Live /\ s \in Listed
        /\ Having(status, "closed")' = Having(status, "closed")
        /\ s # ListEnd /\ s \in Item
    BY <1>1, <1>3, <2>1, InsertSets, 4 \in 1..4, 4 + 1 = 5
  <2>3. /\ pxNext' = pxNext
        /\ pxPrevious' = [pxPrevious EXCEPT ![ListEnd] = s]
        /\ pxPrevious' \in [Item -> Item]
    BY <1>1, <1>8, <2>1, <2>2 DEF BoundTypes, Item
  <2>4. RankInv(rank, m)'
    BY <1>1, <1>2, <1>4, <2>2, <2>3, QuietForSearches
  <2>5. Half(pxNext, pxPrevious, Listed, s) /\ pxNext[s] = ListEnd
    BY <1>1, <2>1, ListInsert, 4 \in 1..5 DEF ListInv
  <2>6. Whole(pxNext', pxPrevious', Listed')
    <3>1. pxNext \in [Item -> Item] /\ pxPrevious \in [Item -> Item]
          /\ Listed \subseteq Item /\ ListEnd \in Listed
      BY <1>1, <1>2, Inside DEF BoundTypes
    <3> QED
      BY <2>2, <2>3, <2>5, <3>1, InsertBackward
  <2>7. ListInv'
    BY <2>1, <2>2, <2>6, ListInsert, 5 \in 1..5 DEF ListInv
  <2>8. BoundTypes'
    BY <1>1, <1>3, <2>1, <2>3, InsertTypes DEF BoundTypes
  <2> QED
    BY <2>2, <2>4, <2>7, <2>8 DEF BoundInv
<1> QED
  BY <1>5, <1>6, <1>7, <1>8 DEF vListInsertEnd

LEMMA BindStep ==
    ASSUME OneTask, BoundInv, NEW t \in Tasks, NEW s \in Sockets,
           NEW port \in Ports, FreeRTOS_TSN_bind(t, s, port)
    PROVE  BoundInv'
<1>1. BoundTypes /\ CallInv /\ ListInv
  BY DEF BoundInv
<1>2. PICK rank \in [Item -> Nat], m \in Nat : RankInv(rank, m)
  BY DEF BoundInv
<1>3. /\ call[t] = NoCall /\ status[s] = "new"
      /\ status' = [status EXCEPT ![s] = "binding"]
      /\ xItemValue' = [xItemValue EXCEPT ![s] = port]
      /\ call' = [call EXCEPT ![t] = [fn |-> "vListInsertEnd", s |-> s, step |-> 1]]
      /\ pxNext' = pxNext /\ pxPrevious' = pxPrevious /\ search' = search
  BY DEF FreeRTOS_TSN_bind
<1>4. /\ InCall(call', t, "vListInsertEnd", s, 1)
      /\ status'[s] = "binding"
      /\ \A q \in Sockets : q # s => status'[q] = status[q]
                                     /\ xItemValue'[q] = xItemValue[q]
  BY <1>1, <1>3 DEF BoundTypes, InCall
<1>5. CallInv'
  BY <1>1, <1>3, <1>4, StatusNone, CallsAfter, 1 \in 1..5
<1>6. /\ Having(status, "bound")' = Having(status, "bound")
      /\ Having(status, "closed")' = Having(status, "closed")
  BY <1>3, <1>4 DEF Having
<1>7. Listed' = Listed /\ Live' = Live
  <2>1. /\ ListedIn(status, call) = Settled(status)
        /\ LiveIn(status, call) = ListedIn(status, call)
    BY <1>3, SetsIdle
  <2>2. /\ ListedIn(status', call') = Settled(status')
        /\ LiveIn(status', call') = ListedIn(status', call')
    BY <1>4, SetsInsert, 1 \in 1..5, 1 \in {1, 2, 3}
  <2> QED
    BY <1>6, <2>1, <2>2 DEF Listed, Live, Settled, SettledAnd
<1>8. RankInv(rank, m)'
  BY <1>1, <1>2, <1>3, <1>4, <1>6, <1>7, QuietForSearches
<1>9. ListInv'
  <2>1. Whole(pxNext, pxPrevious, Listed)
    BY <1>1, <1>3, ListIdle DEF ListInv
  <2> QED
    BY <1>3, <1>4, <1>7, <2>1, ListInsert, 1 \in 1..5 DEF ListInv
<1>10. BoundTypes'
  <2>1. call' \in [Tasks -> [fn : {"none", "vListInsertEnd", "uxListRemove"},
                             s : Item, step : Nat]]
    BY <1>1, <1>3 DEF BoundTypes, Item
  <2> QED
    BY <1>1, <1>3, <2>1 DEF BoundTypes
<1> QED
  BY <1>5, <1>8, <1>9, <1>10 DEF BoundInv

LEMMA BindReturnsStep ==
    ASSUME OneTask, BoundInv, NEW t \in Tasks, BindReturns(t)
    PROVE  BoundInv'
<1>1. BoundTypes /\ CallInv /\ ListInv
  BY DEF BoundInv
<1>2. PICK rank \in [Item -> Nat], m \in Nat : RankInv(rank, m)
  BY DEF BoundInv
<1>3. PICK s \in Sockets :
         /\ s = call[t].s
         /\ status[s] = "binding"
         /\ InCall(call, t, "vListInsertEnd", s, 5)
  BY <1>1, Inserting DEF BindReturns
<1>4. /\ status' = [status EXCEPT ![s] = "bound"]
      /\ call' = [call EXCEPT ![t] = NoCall]
      /\ pxNext' = pxNext /\ pxPrevious' = pxPrevious /\ search' = search
      /\ xItemValue' = xItemValue
  BY <1>3 DEF BindReturns
<1>5. /\ call'[t] = NoCall /\ status'[s] = "bound"
      /\ \A q \in Sockets : q # s => status'[q] = status[q]
  BY <1>1, <1>4 DEF BoundTypes
<1>6. CallInv'
  <2>1. \A q \in Sockets : q # s => status[q] \notin {"binding", "closing"}
    BY <1>1, <1>3, StatusOne
  <2> QED
    BY <1>5, <2>1, CallsAfter
<1>7. /\ Having(status, "bound")' = Having(status, "bound") \cup {s}
      /\ Having(status, "closed")' = Having(status, "closed")
  BY <1>3, <1>5 DEF Having
<1>8. Listed' = Listed /\ Live' = Live
  <2>1. /\ ListedIn(status, call) = SettledAnd(status, s)
        /\ LiveIn(status, call) = ListedIn(status, call)
    <3>1. \A n \in 1..5 : InCall(call, t, "vListInsertEnd", s, n) =>
             /\ n \in {4, 5} => ListedIn(status, call)
                                  = SettledAnd(status, s)
             /\ LiveIn(status, call) = ListedIn(status, call)
      BY SetsInsert
    <3> QED
      BY <1>3, <3>1
  <2>2. /\ ListedIn(status', call') = Settled(status')
        /\ LiveIn(status', call') = ListedIn(status', call')
    BY <1>5, SetsIdle
  <2> QED
    BY <1>7, <2>1, <2>2 DEF Listed, Live, Settled, SettledAnd
<1>9. RankInv(rank, m)'
  BY <1>1, <1>2, <1>3, <1>4, <1>5, <1>7, <1>8, QuietForSearches
<1>10. ListInv'
  <2>1. Whole(pxNext, pxPrevious, Listed)
    BY <1>1, <1>3, ListInsert, 5 \in 1..5 DEF ListInv
  <2> QED
    BY <1>4, <1>5, <1>8, <2>1, ListIdle DEF ListInv
<1>11. BoundTypes'
  <2>1. call' \in [Tasks -> [fn : {"none", "vListInsertEnd", "uxListRemove"},
                             s : Item, step : Nat]]
    BY <1>1, <1>4 DEF BoundTypes, Item, NoCall
  <2> QED
    BY <1>1, <1>4, <2>1 DEF BoundTypes
<1> QED
  BY <1>6, <1>9, <1>10, <1>11 DEF BoundInv

LEMMA CloseStep ==
    ASSUME OneTask, BoundInv, NEW t \in Tasks, NEW s \in Sockets,
           FreeRTOS_TSN_closesocket(t, s)
    PROVE  BoundInv'
<1>1. BoundTypes /\ CallInv /\ ListInv
  BY DEF BoundInv
<1>2. PICK rank \in [Item -> Nat], m \in Nat : RankInv(rank, m)
  BY DEF BoundInv
<1>3. /\ call[t] = NoCall /\ status[s] = "bound"
      /\ status' = [status EXCEPT ![s] = "closing"]
      /\ call' = [call EXCEPT ![t] = [fn |-> "uxListRemove", s |-> s, step |-> 1]]
      /\ search' = [r \in Readers |->
                      [search[r] EXCEPT !.throughout = search[r].throughout \ {s}]]
      /\ pxNext' = pxNext /\ pxPrevious' = pxPrevious /\ xItemValue' = xItemValue
  BY DEF FreeRTOS_TSN_closesocket
<1>4. /\ InCall(call', t, "uxListRemove", s, 1)
      /\ status'[s] = "closing"
      /\ \A q \in Sockets : q # s => status'[q] = status[q]
  BY <1>1, <1>3 DEF BoundTypes, InCall
<1>5. CallInv'
  BY <1>1, <1>3, <1>4, StatusNone, CallsAfter, 1 \in 1..3
<1>6. /\ Having(status, "bound")' \cup {s} = Having(status, "bound")
      /\ Having(status, "closed")' = Having(status, "closed")
  BY <1>3, <1>4 DEF Having
<1>7. Listed' = Listed /\ Live' = Live
  <2>1. /\ ListedIn(status, call) = Settled(status)
        /\ LiveIn(status, call) = ListedIn(status, call)
    BY <1>3, SetsIdle
  <2>2. /\ ListedIn(status', call')
             = SettledAnd(status', s)
        /\ LiveIn(status', call')
             = SettledAnd(status', s)
    BY <1>4, ListedRemove, LiveRemove, 1 \in 1..2, 1 \in 1..3
  <2> QED
    BY <1>6, <2>1, <2>2 DEF Listed, Live, Settled, SettledAnd
<1>8. Linked' = Linked
  BY <1>6, <1>7 DEF Linked
<1>9. ASSUME NEW r \in Readers
      PROVE  /\ search'[r].active = search[r].active
             /\ search'[r].at = search[r].at
             /\ search'[r].key = search[r].key
             /\ search'[r].gone = search[r].gone
             /\ search'[r].throughout = search[r].throughout \ {s}
             /\ search'[r] \in [active : BOOLEAN, at : Item,
                                key : Ports \cup {0},
                                throughout : SUBSET Sockets,
                                gone : SUBSET Sockets]
  <2>1. search[r] \in [active : BOOLEAN, at : Item, key : Ports \cup {0},
                       throughout : SUBSET Sockets, gone : SUBSET Sockets]
    BY <1>1 DEF BoundTypes
  <2>2. search'[r] = [search[r] EXCEPT !.throughout = search[r].throughout \ {s}]
    BY <1>3
  <2> QED
    BY <2>1, <2>2
<1>10. ASSUME NEW r \in Readers, search[r].active,
              NEW q \in search[r].throughout \ {s}
       PROVE  status'[q] = "bound" /\ xItemValue'[q] = xItemValue[q]
  <2>1. SearchInv(r, rank)
    BY <1>2, <1>10 DEF RankInv
  <2>2. q \in Sockets /\ status[q] = "bound"
    BY <1>10, <2>1 DEF SearchInv
  <2> QED
    BY <1>3, <1>4, <1>10, <2>2
<1>11. RankInv(rank, m)'
  <2>1. Having(status, "closed") \subseteq Having(status, "closed")'
    BY <1>6
  <2>2. \A x \in Linked : pxNext'[x] = pxNext[x]
    BY <1>3
  <2>3. \A r \in Readers : search'[r].active =>
           /\ search[r].active
           /\ search'[r].at = search[r].at
           /\ search'[r].key = search[r].key
           /\ search'[r].gone = search[r].gone
           /\ search'[r].throughout \subseteq search[r].throughout
           /\ \A q \in search'[r].throughout :
                 status'[q] = "bound" /\ xItemValue'[q] = xItemValue[q]
    BY <1>9, <1>10
  <2> QED
    BY <1>1, <1>2, <1>7, <1>8, <2>1, <2>2, <2>3, Quiet
<1>12. ListInv'
  <2>1. Whole(pxNext, pxPrevious, Listed)
    BY <1>1, <1>3, ListIdle DEF ListInv
  <2> QED
    BY <1>3, <1>4, <1>7, <2>1, ListRemove, 1 \in 1..3 DEF ListInv
<1>13. BoundTypes'
  <2>1. call' \in [Tasks -> [fn : {"none", "vListInsertEnd", "uxListRemove"},
                             s : Item, step : Nat]]
    BY <1>1, <1>3 DEF BoundTypes, Item
  <2>2. search' \in [Readers -> [active : BOOLEAN, at : Item,
                                 key : Ports \cup {0},
                                 throughout : SUBSET Sockets,
                                 gone : SUBSET Sockets]]
    BY <1>3, <1>9
  <2> QED
    BY <1>1, <1>3, <2>1, <2>2 DEF BoundTypes
<1> QED
  BY <1>5, <1>11, <1>12, <1>13 DEF BoundInv

LEMMA RemoveCalls ==
    ASSUME OneTask, CallInv, BoundTypes, NEW t \in Tasks, NEW s \in Sockets,
           NEW n \in 1..2, status[s] = "closing",
           InCall(call, t, "uxListRemove", s, n), StepOn(t),
           pxNext' \in [Item -> Item], pxPrevious' \in [Item -> Item]
    PROVE  /\ InCall(call', t, "uxListRemove", s, n + 1)
           /\ CallInv' /\ BoundTypes'
<1>1. /\ InCall(call', t, "uxListRemove", s, n + 1)
      /\ call' \in [Tasks -> [fn : {"none", "vListInsertEnd", "uxListRemove"},
                              s : Item, step : Nat]]
  BY Stepped
<1>2. status' = status /\ n + 1 \in 1..3
  BY DEF StepOn
<1>3. CallInv'
  BY <1>1, <1>2, StatusOne, CallsAfter
<1>4. BoundTypes'
  BY <1>1 DEF BoundTypes, StepOn
<1> QED
  BY <1>1, <1>3, <1>4

LEMMA RemoveStep ==
    ASSUME OneTask, BoundInv, NEW t \in Tasks, uxListRemove(t)
    PROVE  BoundInv'
<1>1. BoundTypes /\ CallInv /\ ListInv
  BY DEF BoundInv
<1>2. PICK rank \in [Item -> Nat], m \in Nat : RankInv(rank, m)
  BY DEF BoundInv
<1>3. StepOn(t)
  BY DEF uxListRemove
<1>4. search' = search /\ status' = status /\ xItemValue' = xItemValue
  BY <1>3 DEF StepOn
<1>5. /\ Listed \subseteq Item /\ Live \subseteq Item /\ Linked \subseteq Item
      /\ ListEnd \in Listed /\ Listed \subseteq Live /\ Live \subseteq Linked
      /\ \A x \in Live : pxNext[x] \in Listed
  BY <1>1, <1>2, Inside
<1>6. /\ pxNext \in [Item -> Item] /\ pxPrevious \in [Item -> Item]
      /\ Having(status, "closed")' = Having(status, "closed")
  BY <1>1, <1>4 DEF BoundTypes
<1>7. CASE /\ AtStep(t, "uxListRemove", 1)
           /\ pxPrevious' = [pxPrevious EXCEPT ![pxNext[call[t].s]]
                                                 = pxPrevious[call[t].s]]
           /\ UNCHANGED pxNext
  <2>1. PICK s \in Sockets :
           /\ s = call[t].s
           /\ status[s] = "closing"
           /\ InCall(call, t, "uxListRemove", s, 1)
    BY <1>1, <1>7, Removing
  <2>2. /\ pxNext' = pxNext
        /\ pxPrevious' = [pxPrevious EXCEPT ![pxNext[s]] = pxPrevious[s]]
        /\ pxPrevious' \in [Item -> Item]
    BY <1>6, <1>7, <2>1 DEF Item
  <2>3. InCall(call', t, "uxListRemove", s, 2) /\ CallInv' /\ BoundTypes'
    BY <1>1, <1>3, <1>6, <2>1, <2>2, RemoveCalls, 1 \in 1..2, 1 + 1 = 2
  <2>4. s \in Listed /\ s # ListEnd /\ Listed' = Listed /\ Live' = Live
    <3>1. /\ ListedIn(status, call) = SettledAnd(status, s)
          /\ LiveIn(status, call) = SettledAnd(status, s)
      BY <2>1, ListedRemove, LiveRemove, 1 \in 1..2, 1 \in 1..3
    <3>2. /\ ListedIn(status', call') = SettledAnd(status', s)
          /\ LiveIn(status', call') = SettledAnd(status', s)
      BY <2>3, ListedRemove, LiveRemove, 2 \in 1..2, 2 \in 1..3
    <3> QED
      BY <1>4, <3>1, <3>2, BoundSocketsAssumption DEF Listed, Live, Settled, SettledAnd
  <2>5. RankInv(rank, m)'
    BY <1>1, <1>2, <1>4, <1>6, <2>2, <2>4, QuietForSearches
  <2>6. Whole(pxNext, pxPrevious, Listed)
    BY <1>1, <2>1, ListRemove, 1 \in 1..3 DEF ListInv
  <2>7. pxNext[s] \in Listed /\ pxNext[s] # s
    BY <1>2, <1>5, <2>4 DEF RankInv, Leads
  <2>8. Half(pxNext, pxPrevious', Listed, s)
    BY <1>5, <1>6, <2>2, <2>4, <2>6, <2>7, RemoveBackward
  <2>9. ListInv'
    BY <2>1, <2>2, <2>3, <2>4, <2>8, ListRemove, 2 \in 1..3 DEF ListInv
  <2> QED
    BY <2>3, <2>5, <2>9 DEF BoundInv
<1>8. CASE /\ AtStep(t, "uxListRemove", 2)
           /\ pxNext' = [pxNext EXCEPT ![pxPrevious[call[t].s]] = pxNext[call[t].s]]
           /\ UNCHANGED pxPrevious
  <2>1. PICK s \in Sockets :
           /\ s = call[t].s
           /\ status[s] = "closing"
           /\ InCall(call, t, "uxListRemove", s, 2)
    BY <1>1, <1>8, Removing
  <2>2. /\ pxPrevious' = pxPrevious
        /\ pxNext' = [pxNext EXCEPT ![pxPrevious[s]] = pxNext[s]]
        /\ pxNext' \in [Item -> Item]
    BY <1>6, <1>8, <2>1 DEF Item
  <2>3. InCall(call', t, "uxListRemove", s, 3) /\ CallInv' /\ BoundTypes'
    BY <1>1, <1>3, <1>6, <2>1, <2>2, RemoveCalls, 2 \in 1..2, 2 + 1 = 3
  <2>4. /\ s \in Listed /\ s # ListEnd /\ Listed = Live
        /\ Listed' = Listed \ {s} /\ Live' = Live
    <3>1. /\ ListedIn(status, call) = SettledAnd(status, s)
          /\ LiveIn(status, call) = SettledAnd(status, s)
      BY <2>1, ListedRemove, LiveRemove, 2 \in 1..2, 2 \in 1..3
    <3>2. /\ LiveIn(status', call') = SettledAnd(status', s)
          /\ ListedIn(status', call') = Settled(status')
      BY <2>3, ListedRemoved, LiveRemove, 3 \in 1..3
    <3>3. s \notin Having(status, "bound")
      BY <2>1 DEF Having
    <3> QED
      BY <1>4, <3>1, <3>2, <3>3, BoundSocketsAssumption DEF Listed, Live, Settled, SettledAnd
  <2>5. Linked' = Linked
    BY <1>6, <2>4 DEF Linked
  <2>6. Half(pxNext, pxPrevious, Listed, s)
    BY <1>1, <2>1, ListRemove, 2 \in 1..3 DEF ListInv
  <2>7. \A x, y \in Linked : rank[x] = rank[y] => x = y
    BY <1>2 DEF RankInv, Ranked
  <2>8. /\ Whole(pxNext', pxPrevious, Listed \ {s})
        /\ Leads(pxNext', Listed, Listed \ {s}, rank)
    <3>1. Leads(pxNext, Listed, Listed, rank)
      BY <1>2, <2>4 DEF RankInv
    <3>2. \A x, y \in Listed : rank[x] = rank[y] => x = y
      BY <1>5, <2>7
    <3>3. Listed \subseteq Item /\ ListEnd \in Listed
      BY <1>5
    <3>4. s \in Listed /\ s # ListEnd
      BY <2>4
    <3> QED
      BY <1>6, <2>2, <2>6, <3>1, <3>2, <3>3, <3>4, RemoveForward
  <2>9. ASSUME NEW r \in Readers, search'[r].active
        PROVE  SearchInv(r, rank)'
    <3> DEFINE from  == Linked \ search[r].gone
               ahead == search[r].throughout
    <3>1. SearchInv(r, rank) /\ search'[r] = search[r]
      BY <1>2, <1>4, <2>9 DEF RankInv
    <3>2. Passes(pxNext', from, ahead, rank)
      <4>1. Passes(pxNext, from, ahead, rank)
        BY <3>1 DEF SearchInv
      <4>2. pxPrevious[s] \in Item /\ pxNext[pxPrevious[s]] = s
        <5>1. pxNext[s] # s
          BY <1>2, <1>5, <2>4 DEF RankInv, Leads
        <5> QED
          BY <1>5, <2>4, <2>6, <5>1 DEF Half
      <4>3. from \subseteq Item /\ s \in from
        BY <1>5, <2>1, <2>4, <3>1 DEF SearchInv, Having
      <4>4. ahead \subseteq from /\ s \notin ahead
        <5>1. ahead \subseteq Linked
          BY <3>1 DEF SearchInv, Linked, Live, LiveIn, ListedIn, Settled, Having
        <5> QED
          BY <2>1, <3>1, <5>1 DEF SearchInv, Having
      <4>5. \A x, y \in from : rank[x] = rank[y] => x = y
        BY <2>7
      <4> HIDE DEF from, ahead
      <4> QED
        BY <1>6, <2>2, <4>1, <4>2, <4>3, <4>4, <4>5, RemovePasses
    <3> QED
      BY <1>4, <1>6, <2>5, <3>1, <3>2 DEF SearchInv
  <2>10. RankInv(rank, m)'
    <3>1. Ranked(rank, m)'
      BY <1>2, <2>5 DEF RankInv, Ranked
    <3>2. Leads(pxNext, Live, Listed, rank)'
      BY <2>4, <2>8
    <3> QED
      BY <2>9, <3>1, <3>2 DEF RankInv
  <2>11. ListInv'
    BY <2>1, <2>2, <2>3, <2>4, <2>8, ListRemove, 3 \in 1..3 DEF ListInv
  <2> QED
    BY <2>3, <2>10, <2>11 DEF BoundInv
<1> QED
  BY <1>7, <1>8 DEF uxListRemove

LEMMA CloseReturnsStep ==
    ASSUME OneTask, BoundInv, NEW t \in Tasks, CloseReturns(t)
    PROVE  BoundInv'
<1>1. BoundTypes /\ CallInv /\ ListInv
  BY DEF BoundInv
<1>2. PICK rank \in [Item -> Nat], m \in Nat : RankInv(rank, m)
  BY DEF BoundInv
<1>3. PICK s \in Sockets :
         /\ s = call[t].s
         /\ status[s] = "closing"
         /\ InCall(call, t, "uxListRemove", s, 3)
  BY <1>1, Removing DEF CloseReturns
<1>4. /\ status' = [status EXCEPT ![s] = "closed"]
      /\ call' = [call EXCEPT ![t] = NoCall]
      /\ pxNext' = pxNext /\ pxPrevious' = pxPrevious /\ search' = search
      /\ xItemValue' = xItemValue
  BY <1>3 DEF CloseReturns
<1>5. /\ call'[t] = NoCall /\ status'[s] = "closed"
      /\ \A q \in Sockets : q # s => status'[q] = status[q]
  BY <1>1, <1>4 DEF BoundTypes
<1>6. CallInv'
  <2>1. \A q \in Sockets : q # s => status[q] \notin {"binding", "closing"}
    BY <1>1, <1>3, StatusOne
  <2> QED
    BY <1>5, <2>1, CallsAfter
<1>7. /\ Having(status, "bound")' = Having(status, "bound")
      /\ Having(status, "closed")' = Having(status, "closed") \cup {s}
  BY <1>3, <1>5 DEF Having
<1>8. /\ Listed' = Listed /\ Live' \subseteq Live /\ Live = Listed \cup {s}
      /\ Live' = Listed
  <2>1. /\ LiveIn(status, call) = SettledAnd(status, s)
        /\ ListedIn(status, call) = Settled(status)
    BY <1>3, ListedRemoved, LiveRemove, 3 \in 1..3
  <2>2. /\ ListedIn(status', call') = Settled(status')
        /\ LiveIn(status', call') = ListedIn(status', call')
    BY <1>5, SetsIdle
  <2>3. s \notin Having(status, "bound")
    BY <1>3 DEF Having
  <2> QED
    BY <1>7, <2>1, <2>2, <2>3 DEF Listed, Live, Settled, SettledAnd
<1>9. Linked' = Linked
  BY <1>7, <1>8 DEF Linked
<1>10. ASSUME NEW r \in Readers, search[r].active,
              NEW q \in search[r].throughout
       PROVE  status'[q] = "bound" /\ xItemValue'[q] = xItemValue[q]
  <2>1. SearchInv(r, rank)
    BY <1>2, <1>10 DEF RankInv
  <2>2. q \in Sockets /\ status[q] = "bound"
    BY <1>10, <2>1 DEF SearchInv
  <2> QED
    BY <1>3, <1>4, <1>5, <2>2
<1>11. RankInv(rank, m)'
  <2>1. Having(status, "closed") \subseteq Having(status, "closed")'
    BY <1>7
  <2>2. \A x \in Linked : pxNext'[x] = pxNext[x]
    BY <1>4
  <2>3. \A r \in Readers : search'[r].active =>
           /\ search[r].active
           /\ search'[r].at = search[r].at
           /\ search'[r].key = search[r].key
           /\ search'[r].gone = search[r].gone
           /\ search'[r].throughout \subseteq search[r].throughout
           /\ \A q \in search'[r].throughout :
                 status'[q] = "bound" /\ xItemValue'[q] = xItemValue[q]
    BY <1>4, <1>10
  <2> QED
    BY <1>1, <1>2, <1>8, <1>9, <2>1, <2>2, <2>3, Quiet
<1>12. ListInv'
  <2>1. Whole(pxNext, pxPrevious, Listed)
    BY <1>1, <1>3, ListRemove, 3 \in 1..3 DEF ListInv
  <2> QED
    BY <1>4, <1>5, <1>8, <2>1, ListIdle DEF ListInv
<1>13. BoundTypes'
  <2>1. call' \in [Tasks -> [fn : {"none", "vListInsertEnd", "uxListRemove"},
                             s : Item, step : Nat]]
    BY <1>1, <1>4 DEF BoundTypes, Item, NoCall
  <2> QED
    BY <1>1, <1>4, <2>1 DEF BoundTypes
<1> QED
  BY <1>6, <1>11, <1>12, <1>13 DEF BoundInv

\* The reader's steps: the list is as it was.
LEMMA SameList ==
    ASSUME BoundInv, NEW rank \in [Item -> Nat], NEW m \in Nat,
           RankInv(rank, m),
           UNCHANGED <<pxNext, pxPrevious, xItemValue, status, call>>,
           search' \in [Readers -> [active : BOOLEAN, at : Item,
                                    key : Ports \cup {0},
                                    throughout : SUBSET Sockets,
                                    gone : SUBSET Sockets]],
           \A r \in Readers : search'[r].active => SearchInv(r, rank)'
    PROVE  BoundInv'
<1>1. BoundTypes'
  BY DEF BoundInv, BoundTypes
<1>2. CallInv'
  BY DEF BoundInv, CallInv
<1>3. Listed' = Listed /\ Live' = Live
  BY DEF Listed, Live
<1>4. Linked' = Linked
  BY <1>3 DEF Linked
<1>5. ListInv'
  BY <1>3 DEF BoundInv, ListInv
<1>6. Ranked(rank, m)'
  BY <1>4 DEF RankInv, Ranked
<1>7. Leads(pxNext, Live, Listed, rank)'
  BY <1>3 DEF RankInv
<1>8. RankInv(rank, m)'
  BY <1>6, <1>7 DEF RankInv
<1> QED
  BY <1>1, <1>2, <1>5, <1>8 DEF BoundInv

LEMMA SearchStarts ==
    ASSUME BoundInv, NEW r \in Readers, NEW key \in Ports,
           vSocketFromPort(r, key)
    PROVE  BoundInv'
<1>1. BoundTypes /\ CallInv /\ ListInv
  BY DEF BoundInv
<1>2. PICK rank \in [Item -> Nat], m \in Nat : RankInv(rank, m)
  BY DEF BoundInv
<1> DEFINE ahead == {s \in Sockets : status[s] = "bound" /\ xItemValue[s] = key}
           gone  == {s \in Sockets : status[s] = "closed"}
           new   == [active |-> TRUE, at |-> pxNext[ListEnd], key |-> key,
                     throughout |-> ahead, gone |-> gone]
<1>3. /\ search' = [search EXCEPT ![r] = new]
      /\ UNCHANGED <<pxNext, pxPrevious, xItemValue, status, call>>
  BY DEF vSocketFromPort
<1>4. /\ ListEnd \in Listed /\ ListEnd \in Live /\ Listed \subseteq Item
      /\ Live \subseteq Item
      /\ Listed \subseteq Live /\ Live \subseteq Linked
      /\ pxNext[ListEnd] \in Listed
  BY <1>1, <1>2, Inside
<1>5. /\ new.active = TRUE /\ new.at = pxNext[ListEnd] /\ new.key = key
      /\ new.throughout = ahead /\ new.gone = gone
  OBVIOUS
<1>6. search'[r] = new /\ \A q \in Readers : q # r => search'[q] = search[q]
  BY <1>1, <1>3 DEF BoundTypes
<1>7. search' \in [Readers -> [active : BOOLEAN, at : Item,
                               key : Ports \cup {0},
                               throughout : SUBSET Sockets,
                               gone : SUBSET Sockets]]
  <2>1. new \in [active : BOOLEAN, at : Item, key : Ports \cup {0},
                 throughout : SUBSET Sockets, gone : SUBSET Sockets]
    BY <1>4
  <2> HIDE DEF new
  <2> QED
    BY <1>1, <1>3, <2>1 DEF BoundTypes
<1> HIDE DEF new
<1>8. Linked \ gone = Live
  <2>1. Having(status, "closed") = gone
    BY DEF Having
  <2>2. Live \cap gone = {}
    <3>1. ListEnd \notin gone
      BY BoundSocketsAssumption
    <3>2. ASSUME NEW s \in gone, NEW fn, NEW steps, fn # "none",
                 Doing(call, fn, s, steps)
          PROVE  FALSE
      <4>1. PICK t \in Tasks, n \in steps : InCall(call, t, fn, s, n)
        BY <3>2 DEF Doing
      <4>2. call[t] # NoCall
        BY <3>2, <4>1 DEF InCall, NoCall
      <4>3. PICK q \in Sockets :
               status[q] \in {"binding", "closing"} /\ call[t].s = q
        <5>1. PICK q \in Sockets :
                 \/ /\ status[q] = "binding"
                    /\ \E k \in 1..5 : InCall(call, t, "vListInsertEnd", q, k)
                 \/ /\ status[q] = "closing"
                    /\ \E k \in 1..3 : InCall(call, t, "uxListRemove", q, k)
          BY <1>1, <4>2 DEF CallInv
        <5>2. call[t].s = q
          BY <5>1 DEF InCall
        <5> QED
          BY <5>1, <5>2
      <4>4. q = s
        BY <4>1, <4>3 DEF InCall
      <4> QED
        BY <4>3, <4>4
    <3> QED
      BY <3>1, <3>2 DEF Live, LiveIn, ListedIn, Settled, Having
  <2> QED
    BY <2>1, <2>2 DEF Linked
<1>9. ahead \subseteq Listed \ {ListEnd}
  BY BoundSocketsAssumption DEF Listed, ListedIn, Settled, Having
<1>10. Linked' = Linked
  BY <1>3 DEF Linked, Live
<1>11. SearchInv(r, rank)'
  <2>1. Passes(pxNext, Live, ahead, rank)
    BY <1>2, <1>4, <1>9 DEF RankInv, Leads, Passes
  <2>2. \A t \in ahead : pxNext[ListEnd] # ListEnd
                         /\ rank[pxNext[ListEnd]] <= rank[t]
    <3>1. \A t \in ahead : rank[ListEnd] < rank[t]
      <4>1. \A t \in Linked \ {ListEnd} : rank[t] \in 1..m
        BY <1>2 DEF RankInv, Ranked
      <4>2. \A t \in ahead : rank[t] \in 1..m
        BY <1>4, <1>9, <4>1
      <4>3. rank[ListEnd] = 0
        BY <1>2 DEF RankInv, Ranked
      <4> SUFFICES ASSUME NEW t \in ahead
                   PROVE  rank[ListEnd] < rank[t]
        OBVIOUS
      <4>4. rank[t] \in 1..m
        BY <4>2
      <4> QED
        BY <4>3, <4>4
    <3> QED
      BY <1>2, <1>4, <1>9, <3>1 DEF RankInv, Leads
  <2>3. pxNext[ListEnd] \in Linked \ gone
    BY <1>4, <1>8
  <2>4. gone \subseteq Having(status, "closed")
    BY DEF Having
  <2>5. Passes(pxNext, Linked \ gone, ahead, rank)
    BY <1>8, <2>1
  <2> QED
    <3>1. /\ search'[r].at = pxNext[ListEnd] /\ search'[r].key = key
          /\ search'[r].throughout = ahead /\ search'[r].gone = gone
      BY <1>5, <1>6
    <3>2. /\ search'[r].at \in Linked' \ search'[r].gone
          /\ search'[r].gone \subseteq Having(status', "closed")
      BY <1>3, <1>10, <2>3, <2>4, <3>1
    <3>3. Passes(pxNext', Linked' \ search'[r].gone, search'[r].throughout, rank)
      BY <1>3, <1>10, <2>5, <3>1
    <3>4. \A t \in search'[r].throughout :
             search'[r].at # ListEnd /\ rank[search'[r].at] <= rank[t]
      BY <2>2, <3>1
    <3>5. search'[r].throughout \subseteq
            {s \in Sockets : status'[s] = "bound"
                            /\ xItemValue'[s] = search'[r].key}
      BY <1>3, <3>1
    <3> QED
      BY <3>2, <3>3, <3>4, <3>5 DEF SearchInv
<1>12. ASSUME NEW q \in Readers, search'[q].active
       PROVE  SearchInv(q, rank)'
  <2>1. CASE q = r
    BY <1>11, <2>1
  <2>2. CASE q # r
    <3>1. SearchInv(q, rank) /\ search'[q] = search[q]
      BY <1>2, <1>6, <1>12, <2>2 DEF RankInv
    <3> QED
      BY <1>3, <1>10, <3>1 DEF SearchInv
  <2> QED
    BY <2>1, <2>2
<1> QED
  BY <1>2, <1>3, <1>7, <1>12, SameList

LEMMA SearchGoesOn ==
    ASSUME BoundInv, NEW r \in Readers, LookFurther(r)
    PROVE  BoundInv'
<1>1. BoundTypes
  BY DEF BoundInv
<1>2. PICK rank \in [Item -> Nat], m \in Nat : RankInv(rank, m)
  BY DEF BoundInv
<1> DEFINE at == search[r].at
           new == [search[r] EXCEPT !.at = pxNext[at]]
<1>3. /\ search' = [search EXCEPT ![r] = new]
      /\ UNCHANGED <<pxNext, pxPrevious, xItemValue, status, call>>
      /\ search[r].active /\ at # ListEnd /\ xItemValue[at] # search[r].key
  BY DEF LookFurther, KeyFound
<1>4. search[r] \in [active : BOOLEAN, at : Item, key : Ports \cup {0},
                     throughout : SUBSET Sockets, gone : SUBSET Sockets]
  BY <1>1 DEF BoundTypes
<1>5. pxNext[at] \in Item /\ at \in Item
  BY <1>1, <1>4 DEF BoundTypes
<1>6. /\ new.active = search[r].active /\ new.at = pxNext[at]
      /\ new.key = search[r].key
      /\ new.throughout = search[r].throughout /\ new.gone = search[r].gone
      /\ new \in [active : BOOLEAN, at : Item, key : Ports \cup {0},
                  throughout : SUBSET Sockets, gone : SUBSET Sockets]
  BY <1>4, <1>5
<1> HIDE DEF new
<1>7. search'[r] = new /\ \A q \in Readers : q # r => search'[q] = search[q]
  BY <1>1, <1>3 DEF BoundTypes
<1>8. search' \in [Readers -> [active : BOOLEAN, at : Item,
                               key : Ports \cup {0},
                               throughout : SUBSET Sockets,
                               gone : SUBSET Sockets]]
  BY <1>1, <1>3, <1>6 DEF BoundTypes
<1>9. Linked' = Linked
  BY <1>3 DEF Linked, Live, Listed
<1>10. SearchInv(r, rank)
  BY <1>2, <1>3 DEF RankInv
<1>11. SearchInv(r, rank)'
  <2> DEFINE from  == Linked \ search[r].gone
             ahead == search[r].throughout
  <2>1. at \in from /\ Passes(pxNext, from, ahead, rank)
    BY <1>10 DEF SearchInv
  <2>2. pxNext[at] \in from
    BY <2>1 DEF Passes
  <2>3. ASSUME NEW t \in ahead
        PROVE  pxNext[at] # ListEnd /\ rank[pxNext[at]] <= rank[t]
    <3>1. /\ t \in Sockets /\ status[t] = "bound" /\ xItemValue[t] = search[r].key
          /\ rank[at] <= rank[t]
      BY <1>10, <2>3 DEF SearchInv
    <3>2. at # t
      BY <1>3, <3>1
    <3>3. at \in Linked /\ t \in Linked
      BY <2>1, <3>1 DEF Linked, Live, LiveIn, ListedIn, Settled, Having
    <3>4. rank[at] # rank[t]
      BY <1>2, <3>2, <3>3 DEF RankInv, Ranked
    <3>5. rank[at] \in Nat /\ rank[t] \in Nat
      BY <1>5, <3>1 DEF Item
    <3>6. rank[at] < rank[t]
      BY <3>1, <3>4, <3>5
    <3> QED
      BY <2>1, <2>3, <3>6 DEF Passes
  <2>4. /\ search[r].gone \subseteq Having(status, "closed")
        /\ ahead \subseteq {s \in Sockets : status[s] = "bound"
                                       /\ xItemValue[s] = search[r].key}
    BY <1>10 DEF SearchInv
  <2> QED
    BY <1>3, <1>6, <1>7, <1>9, <2>1, <2>2, <2>3, <2>4 DEF SearchInv
<1>12. ASSUME NEW q \in Readers, search'[q].active
       PROVE  SearchInv(q, rank)'
  <2>1. CASE q = r
    BY <1>11, <2>1
  <2>2. CASE q # r
    <3>1. SearchInv(q, rank) /\ search'[q] = search[q]
      BY <1>2, <1>7, <1>12, <2>2 DEF RankInv
    <3> QED
      BY <1>3, <1>9, <3>1 DEF SearchInv
  <2> QED
    BY <2>1, <2>2
<1> QED
  BY <1>2, <1>3, <1>8, <1>12, SameList

LEMMA SearchEnds ==
    ASSUME BoundInv, NEW r \in Readers, SearchReturns(r)
    PROVE  BoundInv'
<1>1. BoundTypes
  BY DEF BoundInv
<1>2. PICK rank \in [Item -> Nat], m \in Nat : RankInv(rank, m)
  BY DEF BoundInv
<1>3. /\ search' = [search EXCEPT ![r] = NoSearch]
      /\ UNCHANGED <<pxNext, pxPrevious, xItemValue, status, call>>
  BY DEF SearchReturns
<1>4. /\ NoSearch.active = FALSE
      /\ NoSearch \in [active : BOOLEAN, at : Item, key : Ports \cup {0},
                       throughout : SUBSET Sockets, gone : SUBSET Sockets]
  BY DEF NoSearch, Item
<1>5. search'[r] = NoSearch /\ \A q \in Readers : q # r => search'[q] = search[q]
  BY <1>1, <1>3 DEF BoundTypes
<1>6. search' \in [Readers -> [active : BOOLEAN, at : Item,
                               key : Ports \cup {0},
                               throughout : SUBSET Sockets,
                               gone : SUBSET Sockets]]
  BY <1>1, <1>3, <1>4 DEF BoundTypes
<1>7. Linked' = Linked
  BY <1>3 DEF Linked, Live, Listed
<1>8. ASSUME NEW q \in Readers, search'[q].active
      PROVE  SearchInv(q, rank)'
  <2>1. q # r
    BY <1>4, <1>5, <1>8
  <2>2. SearchInv(q, rank) /\ search'[q] = search[q]
    BY <1>2, <1>5, <1>8, <2>1 DEF RankInv
  <2> QED
    BY <1>3, <1>7, <2>2 DEF SearchInv
<1> QED
  BY <1>2, <1>3, <1>6, <1>8, SameList

LEMMA BoundInitially ==
    ASSUME BoundInit
    PROVE  BoundInv
<1> DEFINE rank == [i \in Item |-> 0]
<1>1. /\ pxNext = [i \in Item |-> ListEnd] /\ pxPrevious = [i \in Item |-> ListEnd]
      /\ xItemValue = [s \in Sockets |-> 0]
      /\ status = [s \in Sockets |-> "new"]
      /\ call = [t \in Tasks |-> NoCall]
      /\ search = [r \in Readers |-> NoSearch]
  BY DEF BoundInit, Item
<1>2. BoundTypes
  BY <1>1 DEF BoundTypes, NoCall, NoSearch, Item
<1>3. \A f, s, steps : f # "none" => ~Doing(call, f, s, steps)
  BY <1>1 DEF Doing, InCall, NoCall
<1>4. CallInv
  BY <1>1 DEF CallInv
<1>5. Listed = {ListEnd} /\ Live = {ListEnd} /\ Linked = {ListEnd}
  BY <1>1, <1>3 DEF Listed, Live, Linked, ListedIn, LiveIn, Settled, Having
<1>6. ListInv
  BY <1>1, <1>3, <1>5 DEF ListInv, ListIn, Whole, Item
<1>7. RankInv(rank, 0)
  BY <1>1, <1>5 DEF RankInv, Ranked, Leads, Item, NoSearch
<1>8. rank \in [Item -> Nat]
  OBVIOUS
<1> QED
  BY <1>2, <1>4, <1>6, <1>7, <1>8 DEF BoundInv

LEMMA BoundStep ==
    ASSUME OneTask, BoundInv, [BoundNext]_boundVars
    PROVE  BoundInv'
<1>1. ASSUME NEW t \in Tasks, NEW s \in Sockets, NEW p \in Ports,
             FreeRTOS_TSN_bind(t, s, p)
      PROVE  BoundInv'
  BY <1>1, BindStep
<1>2. ASSUME NEW t \in Tasks, NEW s \in Sockets, FreeRTOS_TSN_closesocket(t, s)
      PROVE  BoundInv'
  BY <1>2, CloseStep
<1>3. ASSUME NEW t \in Tasks, vListInsertEnd(t)
      PROVE  BoundInv'
  BY <1>3, InsertStep
<1>4. ASSUME NEW t \in Tasks, BindReturns(t)
      PROVE  BoundInv'
  BY <1>4, BindReturnsStep
<1>5. ASSUME NEW t \in Tasks, uxListRemove(t)
      PROVE  BoundInv'
  BY <1>5, RemoveStep
<1>6. ASSUME NEW t \in Tasks, CloseReturns(t)
      PROVE  BoundInv'
  BY <1>6, CloseReturnsStep
<1>7. ASSUME NEW r \in Readers, NEW p \in Ports, vSocketFromPort(r, p)
      PROVE  BoundInv'
  BY <1>7, SearchStarts
<1>8. ASSUME NEW r \in Readers, LookFurther(r)
      PROVE  BoundInv'
  BY <1>8, SearchGoesOn
<1>9. ASSUME NEW r \in Readers, SearchReturns(r)
      PROVE  BoundInv'
  BY <1>9, SearchEnds
<1>10. CASE UNCHANGED boundVars
  <2>1. PICK rank \in [Item -> Nat], m \in Nat : RankInv(rank, m)
    BY DEF BoundInv
  <2>2. /\ UNCHANGED <<pxNext, pxPrevious, xItemValue, status, call>>
        /\ search' = search
    BY <1>10 DEF boundVars
  <2>3. Linked' = Linked
    BY <2>2 DEF Linked, Live, Listed
  <2>4. \A r \in Readers : search'[r].active => SearchInv(r, rank)'
    BY <2>1, <2>2, <2>3 DEF RankInv, SearchInv
  <2>5. search' \in [Readers -> [active : BOOLEAN, at : Item,
                                 key : Ports \cup {0},
                                 throughout : SUBSET Sockets,
                                 gone : SUBSET Sockets]]
    BY <2>2 DEF BoundInv, BoundTypes
  <2> QED
    BY <2>1, <2>2, <2>4, <2>5, SameList
<1> QED
  BY <1>1, <1>2, <1>3, <1>4, <1>5, <1>6, <1>7, <1>8, <1>9, <1>10 DEF BoundNext

LEMMA BoundFound ==
    ASSUME BoundInv
    PROVE  SearchFindsBound
<1>1. PICK rank \in [Item -> Nat], m \in Nat : RankInv(rank, m)
  BY DEF BoundInv
<1>2. ASSUME NEW r \in Readers, search[r].active
      PROVE  /\ search[r].at = ListEnd => search[r].throughout = {}
             /\ search[r].at \notin search[r].gone
  <2>1. SearchInv(r, rank)
    BY <1>1, <1>2 DEF RankInv
  <2>2. \A t \in search[r].throughout : search[r].at # ListEnd
    BY <2>1 DEF SearchInv
  <2>3. search[r].at \notin search[r].gone
    BY <2>1 DEF SearchInv
  <2> QED
    BY <2>2, <2>3
<1> QED
  BY <1>2 DEF SearchFindsBound

(***************************************************************************)
(* While a single task binds and closes sockets, any number of tasks that  *)
(* follow the pointers of the list under it, whose every assignment is a   *)
(* step of its own, find the socket of their port and never one closed     *)
(* before they began (Sockets.c:64-99, 540-543, 571).                      *)
(***************************************************************************)
THEOREM BoundSearchFinds ==
    ASSUME OneTask
    PROVE  BoundSpec => []SearchFindsBound
<1>1. BoundInit => BoundInv
  BY BoundInitially
<1>2. BoundInv /\ [BoundNext]_boundVars => BoundInv'
  BY BoundStep
<1>3. BoundInv => SearchFindsBound
  BY BoundFound
<1> QED
  BY <1>1, <1>2, <1>3, PTL DEF BoundSpec

-----------------------------------------------------------------------------
(***************************************************************************)
(* SchedulerTree: the walk of a correctly linked tree.                     *)
(***************************************************************************)
\* A node as its record.
Node(nd, n) ==
    /\ nd[n] = [pxNext |-> nd[n].pxNext, pxQueue |-> nd[n].pxQueue,
                fnSelect |-> nd[n].fnSelect, fnReady |-> nd[n].fnReady]
    /\ nd[n].pxNext = [p \in DOMAIN nd[n].pxNext |-> nd[n].pxNext[p]]

\* The nodes after the calls before done: those created, with their places
\* for children, and with the queues and children they were given.
NodesMade(nd, l, done) ==
    /\ nd = [n \in DOMAIN nd |-> nd[n]]
    /\ \A n : n \in DOMAIN nd <=> CreatedBefore(l, done, n)
    /\ \A n \in DOMAIN nd : Node(nd, n)

NodesShaped(nd, l, done) ==
    \A k \in 1..(done - 1) : l.calls[k].fn \in NodeCreations =>
        LET n == l.calls[k].node IN
        /\ DOMAIN nd[n].pxNext = Positions(l, k)
        /\ nd[n].fnSelect = "prvPrioritySelect" \/ DOMAIN nd[n].pxNext = 0..0
        /\ nd[n].fnReady = "prvCBSReady" => l.calls[k].fn = "pxNetworkNodeCreateCBS"

NodesLinked(nd, l, done) ==
    \A k \in 1..(done - 1), n \in DOMAIN nd :
        /\ GivesQueue(l, k, n) => nd[n].pxQueue # NoPtr
        /\ \A p \in DOMAIN nd[n].pxNext :
              GivesChild(l, k, n, p) =>
                  nd[n].pxQueue # NoPtr \/ nd[n].pxNext[p] \in DOMAIN nd

NodesInv(nd, l, done) ==
    NodesMade(nd, l, done) /\ NodesShaped(nd, l, done) /\ NodesLinked(nd, l, done)

\* The walk, once the tree is built.
WalkInv ==
    /\ walk \in {"init", "idle", "call", "return"}
    /\ walk # "init" => callNo = Len(layout.calls) + 1
    /\ walk = "call" => arg \in DOMAIN nodes
    /\ frames \in Seq([pxNode : DOMAIN nodes, usIter : Nat])
    /\ \A k \in 1..Len(frames) : nodes[frames[k].pxNode].pxQueue = NoPtr
    /\ walk = "init" => frames = <<>>

TreeInv ==
    /\ layout \in Layouts /\ callNo \in 1..(Len(layout.calls) + 1)
    /\ NodesInv(nodes, layout, callNo)
    /\ root = NoPtr \/ root \in DOMAIN nodes
    /\ WalkInv

\* A number of children that ucNumChildren can count.
LEMMA FitsByte == ASSUME NEW n \in 0..255 PROVE n \in Nat /\ uint8(n) = n
<1>1. n \in Nat /\ n <= 255
  OBVIOUS
<1> QED
  BY <1>1 DEF uint8

LEMMA MoreCreated ==
    ASSUME NEW l, NEW done \in Nat \ {0}, NEW n
    PROVE  CreatedBefore(l, done + 1, n)
             <=> CreatedBefore(l, done, n) \/ Creates(l, done, n)
<1>1. \A j : j \in 1..(done + 1 - 1) <=> j \in 1..(done - 1) \/ j = done
  OBVIOUS
<1> QED
  BY <1>1 DEF CreatedBefore

\* A call that neither creates nor links.
LEMMA NodesStay ==
    ASSUME NEW l, NEW done \in Nat \ {0}, NEW nd, NodesInv(nd, l, done),
           l.calls[done].fn \notin NodeCreations,
           l.calls[done].fn # "xNetworkSchedulerLinkQueue",
           l.calls[done].fn # "xNetworkSchedulerLinkChild"
    PROVE  NodesInv(nd, l, done + 1)
<1>1. \A j : j \in 1..(done + 1 - 1) <=> j \in 1..(done - 1) \/ j = done
  OBVIOUS
<1>2. \A n : CreatedBefore(l, done + 1, n) <=> CreatedBefore(l, done, n)
  BY MoreCreated DEF Creates
<1>3. \A n, p : ~GivesQueue(l, done, n) /\ ~GivesChild(l, done, n, p)
  BY DEF GivesQueue, GivesChild
<1>4. \A n : n \in DOMAIN nd <=> CreatedBefore(l, done + 1, n)
  BY <1>2 DEF NodesInv, NodesMade, NodesShaped, NodesLinked
<1>5. \A k \in 1..(done + 1 - 1) : l.calls[k].fn \in NodeCreations =>
         LET n == l.calls[k].node IN
         /\ DOMAIN nd[n].pxNext = Positions(l, k)
         /\ nd[n].fnSelect = "prvPrioritySelect" \/ DOMAIN nd[n].pxNext = 0..0
         /\ nd[n].fnReady = "prvCBSReady" => l.calls[k].fn = "pxNetworkNodeCreateCBS"
  BY <1>1 DEF NodesInv, NodesMade, NodesShaped, NodesLinked
<1>6. \A k \in 1..(done + 1 - 1), n \in DOMAIN nd :
          /\ GivesQueue(l, k, n) => nd[n].pxQueue # NoPtr
          /\ \A p \in DOMAIN nd[n].pxNext :
                GivesChild(l, k, n, p) =>
                    nd[n].pxQueue # NoPtr \/ nd[n].pxNext[p] \in DOMAIN nd
  <2>1. \A k \in 1..(done - 1), n \in DOMAIN nd :
          /\ GivesQueue(l, k, n) => nd[n].pxQueue # NoPtr
          /\ \A p \in DOMAIN nd[n].pxNext :
                GivesChild(l, k, n, p) =>
                    nd[n].pxQueue # NoPtr \/ nd[n].pxNext[p] \in DOMAIN nd
    BY DEF NodesInv, NodesMade, NodesShaped, NodesLinked
  <2> QED
    BY <1>1, <1>3, <2>1
<1> QED
  BY <1>4, <1>5, <1>6 DEF NodesInv, NodesMade, NodesShaped, NodesLinked

LEMMA NodeCreated ==
    ASSUME NEW l, CorrectlyLinked(l), NEW done \in 1..Len(l.calls),
           NEW nd, NodesInv(nd, l, done),
           l.calls[done].fn \in NodeCreations,
           NEW v, NEW n, n = l.calls[done].node,
           v = [pxNext |-> v.pxNext, pxQueue |-> v.pxQueue,
                fnSelect |-> v.fnSelect, fnReady |-> v.fnReady],
           v.pxNext = [p \in Positions(l, done) |-> NoPtr],
           v.fnSelect = "prvPrioritySelect" \/ Positions(l, done) = 0..0,
           v.fnReady = "prvCBSReady" => l.calls[done].fn = "pxNetworkNodeCreateCBS",
           NEW nd2, nd2 = With(nd, n, v)
    PROVE  NodesInv(nd2, l, done + 1)
<1>1. \A j : j \in 1..(done + 1 - 1) <=> j \in 1..(done - 1) \/ j = done
  OBVIOUS
<1>2. done \in Nat \ {0} /\ Len(l.calls) \in Nat
  BY DEF CorrectlyLinked
<1>3. \A j \in 1..(done - 1) : ~Creates(l, j, n)
  <2> SUFFICES ASSUME NEW j \in 1..(done - 1), Creates(l, j, n)
               PROVE  FALSE
    OBVIOUS
  <2>1. j \in 1..Len(l.calls) /\ j # done
    BY <1>2
  <2> QED
    BY <2>1 DEF CorrectlyLinked
<1>4. n \notin DOMAIN nd
  BY <1>3 DEF NodesInv, NodesMade, NodesShaped, NodesLinked, CreatedBefore
<1>5. /\ DOMAIN nd2 = DOMAIN nd \cup {n}
      /\ nd2 = [k \in DOMAIN nd2 |-> nd2[k]]
      /\ nd2[n] = v
      /\ \A k \in DOMAIN nd : nd2[k] = nd[k]
  BY <1>4 DEF With
<1>6. \A k : k \in DOMAIN nd2 <=> CreatedBefore(l, done + 1, k)
  <2>1. \A k : Creates(l, done, k) <=> k = n
    BY DEF Creates
  <2> QED
    BY <1>2, <1>5, <2>1, MoreCreated DEF NodesInv, NodesMade, NodesShaped, NodesLinked
<1>7. \A k \in DOMAIN nd2 : Node(nd2, k)
  <2>1. Node(nd2, n)
    <3>1. v.pxNext = [p \in DOMAIN v.pxNext |-> v.pxNext[p]]
      OBVIOUS
    <3> QED
      BY <1>5, <3>1 DEF Node
  <2>2. \A k \in DOMAIN nd : Node(nd, k)
    BY DEF NodesInv, NodesMade, NodesShaped, NodesLinked
  <2>3. \A k \in DOMAIN nd : Node(nd2, k)
    BY <1>5, <2>2 DEF Node
  <2> QED
    BY <1>5, <2>1, <2>3
<1>8. ASSUME NEW k \in 1..(done + 1 - 1), l.calls[k].fn \in NodeCreations
      PROVE  LET c == l.calls[k].node IN
             /\ DOMAIN nd2[c].pxNext = Positions(l, k)
             /\ nd2[c].fnSelect = "prvPrioritySelect" \/ DOMAIN nd2[c].pxNext = 0..0
             /\ nd2[c].fnReady = "prvCBSReady" => l.calls[k].fn = "pxNetworkNodeCreateCBS"
  <2>1. CASE k = done
    BY <1>5, <2>1
  <2>2. CASE k \in 1..(done - 1)
    <3>1. l.calls[k].node \in DOMAIN nd
      BY <1>8, <2>2 DEF NodesInv, NodesMade, NodesShaped, NodesLinked, CreatedBefore, Creates
    <3>2. LET c == l.calls[k].node IN
          /\ DOMAIN nd[c].pxNext = Positions(l, k)
          /\ nd[c].fnSelect = "prvPrioritySelect" \/ DOMAIN nd[c].pxNext = 0..0
          /\ nd[c].fnReady = "prvCBSReady" => l.calls[k].fn = "pxNetworkNodeCreateCBS"
      BY <1>8, <2>2 DEF NodesInv, NodesMade, NodesShaped, NodesLinked
    <3> QED
      BY <1>5, <3>1, <3>2
  <2> QED
    BY <1>1, <2>1, <2>2
<1>9. ASSUME NEW k \in 1..(done + 1 - 1), NEW c \in DOMAIN nd2
      PROVE  /\ GivesQueue(l, k, c) => nd2[c].pxQueue # NoPtr
             /\ \A p \in DOMAIN nd2[c].pxNext :
                   GivesChild(l, k, c, p) =>
                       nd2[c].pxQueue # NoPtr \/ nd2[c].pxNext[p] \in DOMAIN nd2
  <2>1. CASE k = done
    BY <2>1 DEF GivesQueue, GivesChild, NodeCreations
  <2>2. CASE k \in 1..(done - 1)
    <3>1. (\E p : GivesChild(l, k, c, p)) \/ GivesQueue(l, k, c) => c \in DOMAIN nd
      <4>1. k \in 1..Len(l.calls)
        BY <1>2, <2>2
      <4>2. (\E p : GivesChild(l, k, c, p)) \/ GivesQueue(l, k, c)
              => CreatedBefore(l, k, c)
        BY <4>1 DEF CorrectlyLinked, GivesChild, GivesQueue
      <4>3. CreatedBefore(l, k, c) => CreatedBefore(l, done, c)
        <5>1. \A j \in 1..(k - 1) : j \in 1..(done - 1)
          BY <1>2, <2>2
        <5> QED
          BY <5>1 DEF CreatedBefore
      <4> QED
        BY <4>2, <4>3 DEF NodesInv, NodesMade, NodesShaped, NodesLinked
    <3>2. CASE c \in DOMAIN nd
      <4>1. /\ GivesQueue(l, k, c) => nd[c].pxQueue # NoPtr
            /\ \A p \in DOMAIN nd[c].pxNext :
                  GivesChild(l, k, c, p) =>
                      nd[c].pxQueue # NoPtr \/ nd[c].pxNext[p] \in DOMAIN nd
        BY <2>2, <3>2 DEF NodesInv, NodesMade, NodesShaped, NodesLinked
      <4> QED
        BY <1>5, <3>2, <4>1
    <3> QED
      BY <3>1, <3>2
  <2> QED
    BY <1>1, <2>1, <2>2
<1>10. nd2 = [k \in DOMAIN nd2 |-> nd2[k]]
  BY <1>5
<1>11. NodesMade(nd2, l, done + 1)
  BY <1>6, <1>7, <1>10 DEF NodesMade
<1>12. NodesShaped(nd2, l, done + 1)
  BY <1>8 DEF NodesShaped
<1>13. NodesLinked(nd2, l, done + 1)
  BY <1>9 DEF NodesLinked
<1> QED
  BY <1>11, <1>12, <1>13 DEF NodesInv

\* A call that gives a node a queue or a child, at a place it has.
LEMMA NodeLinked ==
    ASSUME NEW l, NEW done \in Nat \ {0}, NEW nd, NodesInv(nd, l, done),
           NEW n \in DOMAIN nd, NEW v,
           l.calls[done].fn \notin NodeCreations,
           v = [pxNext |-> v.pxNext, pxQueue |-> v.pxQueue,
                fnSelect |-> v.fnSelect, fnReady |-> v.fnReady],
           v.pxNext = [p \in DOMAIN nd[n].pxNext |-> v.pxNext[p]],
           v.fnSelect = nd[n].fnSelect, v.fnReady = nd[n].fnReady,
           nd[n].pxQueue # NoPtr => v.pxQueue # NoPtr,
           \A p \in DOMAIN nd[n].pxNext :
               nd[n].pxNext[p] \in DOMAIN nd => v.pxNext[p] \in DOMAIN nd,
           \A c : GivesQueue(l, done, c) => c = n /\ v.pxQueue # NoPtr,
           \A c : \A p \in DOMAIN nd[n].pxNext :
               GivesChild(l, done, c, p) =>
                   c = n /\ (v.pxQueue # NoPtr \/ v.pxNext[p] \in DOMAIN nd),
           \A c, p : GivesChild(l, done, c, p) => c = n,
           NEW nd2, nd2 = [nd EXCEPT ![n] = v]
    PROVE  NodesInv(nd2, l, done + 1)
<1>1. \A j : j \in 1..(done + 1 - 1) <=> j \in 1..(done - 1) \/ j = done
  OBVIOUS
<1>2. /\ DOMAIN nd2 = DOMAIN nd
      /\ nd2 = [k \in DOMAIN nd2 |-> nd2[k]]
      /\ nd2[n] = v
      /\ \A k \in DOMAIN nd : k # n => nd2[k] = nd[k]
  BY DEF NodesInv, NodesMade, NodesShaped, NodesLinked
<1>3. DOMAIN v.pxNext = DOMAIN nd[n].pxNext
  OBVIOUS
<1>4. \A k : k \in DOMAIN nd2 <=> CreatedBefore(l, done + 1, k)
  BY <1>2, MoreCreated DEF NodesInv, NodesMade, NodesShaped, NodesLinked, Creates
<1>5. \A k \in DOMAIN nd2 : Node(nd2, k)
  <2>1. Node(nd2, n)
    BY <1>2, <1>3 DEF Node
  <2>2. \A k \in DOMAIN nd : Node(nd, k)
    BY DEF NodesInv, NodesMade, NodesShaped, NodesLinked
  <2>3. \A k \in DOMAIN nd : k # n => Node(nd2, k)
    BY <1>2, <2>2 DEF Node
  <2> QED
    BY <1>2, <2>1, <2>3
<1>6. ASSUME NEW k \in 1..(done + 1 - 1), l.calls[k].fn \in NodeCreations
      PROVE  LET c == l.calls[k].node IN
             /\ DOMAIN nd2[c].pxNext = Positions(l, k)
             /\ nd2[c].fnSelect = "prvPrioritySelect" \/ DOMAIN nd2[c].pxNext = 0..0
             /\ nd2[c].fnReady = "prvCBSReady" => l.calls[k].fn = "pxNetworkNodeCreateCBS"
  <2>1. k \in 1..(done - 1)
    BY <1>1, <1>6
  <2>2. l.calls[k].node \in DOMAIN nd
    BY <1>6, <2>1 DEF NodesInv, NodesMade, NodesShaped, NodesLinked, CreatedBefore, Creates
  <2>3. LET c == l.calls[k].node IN
        /\ DOMAIN nd[c].pxNext = Positions(l, k)
        /\ nd[c].fnSelect = "prvPrioritySelect" \/ DOMAIN nd[c].pxNext = 0..0
        /\ nd[c].fnReady = "prvCBSReady" => l.calls[k].fn = "pxNetworkNodeCreateCBS"
    BY <1>6, <2>1 DEF NodesInv, NodesMade, NodesShaped, NodesLinked
  <2>4. CASE l.calls[k].node = n
    BY <1>2, <1>3, <2>3, <2>4
  <2>5. CASE l.calls[k].node # n
    BY <1>2, <2>2, <2>3, <2>5
  <2> QED
    BY <2>4, <2>5
<1>7. ASSUME NEW k \in 1..(done + 1 - 1), NEW c \in DOMAIN nd2
      PROVE  /\ GivesQueue(l, k, c) => nd2[c].pxQueue # NoPtr
             /\ \A p \in DOMAIN nd2[c].pxNext :
                   GivesChild(l, k, c, p) =>
                       nd2[c].pxQueue # NoPtr \/ nd2[c].pxNext[p] \in DOMAIN nd2
  <2>1. CASE k = done
    BY <1>2, <1>3, <2>1
  <2>2. CASE k \in 1..(done - 1)
    <3>1. /\ GivesQueue(l, k, c) => nd[c].pxQueue # NoPtr
          /\ \A p \in DOMAIN nd[c].pxNext :
                GivesChild(l, k, c, p) =>
                    nd[c].pxQueue # NoPtr \/ nd[c].pxNext[p] \in DOMAIN nd
      BY <1>2, <2>2 DEF NodesInv, NodesMade, NodesShaped, NodesLinked
    <3>2. CASE c = n
      BY <1>2, <1>3, <3>1, <3>2
    <3>3. CASE c # n
      BY <1>2, <3>1, <3>3
    <3> QED
      BY <3>2, <3>3
  <2> QED
    BY <1>1, <2>1, <2>2
<1>8. nd2 = [k \in DOMAIN nd2 |-> nd2[k]]
  BY <1>2
<1>9. NodesMade(nd2, l, done + 1)
  BY <1>4, <1>5, <1>8 DEF NodesMade
<1>10. NodesShaped(nd2, l, done + 1)
  BY <1>6 DEF NodesShaped
<1>11. NodesLinked(nd2, l, done + 1)
  BY <1>7 DEF NodesLinked
<1> QED
  BY <1>9, <1>10, <1>11 DEF NodesInv

\* When all calls are done, a node without a queue has all of its children.
LEMMA NodesComplete ==
    ASSUME NEW l, CorrectlyLinked(l), NEW nd, NodesInv(nd, l, Len(l.calls) + 1),
           NEW n \in DOMAIN nd, nd[n].pxQueue = NoPtr
    PROVE  /\ \A p \in DOMAIN nd[n].pxNext : nd[n].pxNext[p] \in DOMAIN nd
           /\ \/ 0 \in DOMAIN nd[n].pxNext
              \/ nd[n].fnSelect = "prvPrioritySelect" /\ DOMAIN nd[n].pxNext = {}
           /\ nd[n].fnReady # "prvCBSReady"
<1>1. Len(l.calls) \in Nat /\ Len(l.calls) + 1 - 1 = Len(l.calls)
  BY DEF CorrectlyLinked
<1>2. PICK k \in 1..Len(l.calls) : Creates(l, k, n)
  BY <1>1 DEF NodesInv, NodesMade, NodesShaped, NodesLinked, CreatedBefore
<1>3. l.calls[k].fn \in NodeCreations /\ l.calls[k].node = n
  BY <1>2 DEF Creates
<1>4. /\ DOMAIN nd[n].pxNext = Positions(l, k)
      /\ nd[n].fnSelect = "prvPrioritySelect" \/ DOMAIN nd[n].pxNext = 0..0
      /\ nd[n].fnReady = "prvCBSReady" => l.calls[k].fn = "pxNetworkNodeCreateCBS"
  BY <1>1, <1>3 DEF NodesInv, NodesMade, NodesShaped, NodesLinked
<1>5. \A j \in 1..Len(l.calls) :
         /\ ~GivesQueue(l, j, n)
         /\ \A p \in DOMAIN nd[n].pxNext :
               GivesChild(l, j, n, p) => nd[n].pxNext[p] \in DOMAIN nd
  BY <1>1 DEF NodesInv, NodesMade, NodesShaped, NodesLinked
<1>6. \A p \in Positions(l, k) : \E j \in 1..Len(l.calls) : GivesChild(l, j, n, p)
  BY <1>3, <1>5 DEF CorrectlyLinked
<1>7. 0 \in Positions(l, k) \/ Positions(l, k) = {}
  <2>1. l.calls[k].fn = "pxNetworkNodeCreatePrio" => l.calls[k].uxNumChildren \in Nat
    BY FitsByte DEF CorrectlyLinked
  <2> QED
    BY <2>1 DEF Positions
<1>8. l.calls[k].fn # "pxNetworkNodeCreateCBS"
  BY <1>3, <1>5 DEF CorrectlyLinked
<1> QED
  BY <1>4, <1>5, <1>6, <1>7, <1>8

LEMMA Building ==
    ASSUME TreeInv, NEW f, Calls(f),
           NodesInv(nodes', layout, callNo + 1),
           DOMAIN nodes \subseteq DOMAIN nodes',
           root' = NoPtr \/ root' \in DOMAIN nodes'
    PROVE  TreeInv'
<1>1. /\ layout' = layout /\ layout \in Layouts /\ Len(layout.calls) \in Nat
      /\ callNo \in 1..Len(layout.calls)
      /\ callNo' = callNo + 1 /\ walk' = walk /\ frames' = frames
  BY LayoutsAssumption DEF Calls, TreeInv, CorrectlyLinked, walkVars
<1>2. walk = "init" /\ frames = <<>>
  BY <1>1 DEF TreeInv, WalkInv
<1>3. frames' \in Seq([pxNode : DOMAIN nodes', usIter : Nat]) /\ Len(frames') = 0
  BY <1>1, <1>2
<1>4. WalkInv'
  BY <1>1, <1>2, <1>3 DEF WalkInv
<1> QED
  BY <1>1, <1>4 DEF TreeInv

\* What is known when a call is made.
LEMMA Called ==
    ASSUME TreeInv, NEW f, Calls(f)
    PROVE  /\ CorrectlyLinked(layout) /\ NodesInv(nodes, layout, callNo)
           /\ callNo \in 1..Len(layout.calls) /\ callNo \in Nat \ {0}
           /\ layout.calls[callNo].fn = f
           /\ root = NoPtr \/ root \in DOMAIN nodes
           /\ \A n : CreatedBefore(layout, callNo, n) => n \in DOMAIN nodes
<1>1. Len(layout.calls) \in Nat /\ CorrectlyLinked(layout)
  BY LayoutsAssumption DEF TreeInv, CorrectlyLinked
<1>2. \A n : CreatedBefore(layout, callNo, n) => n \in DOMAIN nodes
  BY DEF TreeInv, NodesInv, NodesMade
<1> QED
  BY <1>1, <1>2 DEF TreeInv, Calls

LEMMA BuildNode ==
    ASSUME TreeInv,
           NEW f \in NodeCreations, Calls(f), root' = root,
           NEW v, nodes' = With(nodes, layout.calls[callNo].node, v),
           v = [pxNext |-> v.pxNext, pxQueue |-> v.pxQueue,
                fnSelect |-> v.fnSelect, fnReady |-> v.fnReady],
           v.pxNext = [p \in Positions(layout, callNo) |-> NoPtr],
           v.fnSelect = "prvPrioritySelect" \/ Positions(layout, callNo) = 0..0,
           v.fnReady = "prvCBSReady" => f = "pxNetworkNodeCreateCBS"
    PROVE  TreeInv'
<1>1. /\ CorrectlyLinked(layout) /\ NodesInv(nodes, layout, callNo)
      /\ callNo \in 1..Len(layout.calls)
      /\ layout.calls[callNo].fn \in NodeCreations /\ layout.calls[callNo].fn = f
      /\ root = NoPtr \/ root \in DOMAIN nodes
  BY Called
<1>2. NodesInv(nodes', layout, callNo + 1)
  BY <1>1, NodeCreated
<1>3. DOMAIN nodes \subseteq DOMAIN nodes'
  BY DEF With
<1> QED
  BY <1>1, <1>2, <1>3, Building

LEMMA BuildFIFO ==
    ASSUME TreeInv,
           pxNetworkNodeCreateFIFO
    PROVE  TreeInv'
<1> DEFINE v == pxNetworkNodeCreate(1)
<1>1. /\ Calls("pxNetworkNodeCreateFIFO") /\ root' = root
      /\ nodes' = With(nodes, layout.calls[callNo].node, v)
  BY DEF pxNetworkNodeCreateFIFO
<1>2. Positions(layout, callNo) = 0..0
  BY <1>1, Called DEF Positions
<1>3. /\ v = [pxNext |-> v.pxNext, pxQueue |-> v.pxQueue,
              fnSelect |-> v.fnSelect, fnReady |-> v.fnReady]
      /\ v.pxNext = [p \in 0..0 |-> NoPtr] /\ v.fnReady = "prvAlwaysReady"
  BY DEF pxNetworkNodeCreate, uint8
<1>4. "pxNetworkNodeCreateFIFO" \in NodeCreations /\ 0 \in 0..0
  BY DEF NodeCreations
<1> HIDE DEF v
<1> QED
  BY <1>1, <1>2, <1>3, <1>4, BuildNode

LEMMA BuildCBS ==
    ASSUME TreeInv,
           pxNetworkNodeCreateCBS
    PROVE  TreeInv'
<1> DEFINE v == [pxNetworkNodeCreate(1) EXCEPT !.fnReady = "prvCBSReady"]
<1>1. /\ Calls("pxNetworkNodeCreateCBS") /\ root' = root
      /\ nodes' = With(nodes, layout.calls[callNo].node, v)
  BY DEF pxNetworkNodeCreateCBS
<1>2. Positions(layout, callNo) = 0..0
  BY <1>1, Called DEF Positions
<1>3. /\ v = [pxNext |-> v.pxNext, pxQueue |-> v.pxQueue,
              fnSelect |-> v.fnSelect, fnReady |-> v.fnReady]
      /\ v.pxNext = [p \in 0..0 |-> NoPtr]
  BY DEF pxNetworkNodeCreate, uint8
<1>4. "pxNetworkNodeCreateCBS" \in NodeCreations /\ 0 \in 0..0
  BY DEF NodeCreations
<1> HIDE DEF v
<1> QED
  BY <1>1, <1>2, <1>3, <1>4, BuildNode

LEMMA PrioNode ==
    ASSUME NEW n, NEW v,
           v = [pxNetworkNodeCreate(n) EXCEPT !.fnSelect = "prvPrioritySelect"]
    PROVE  /\ v = [pxNext |-> v.pxNext, pxQueue |-> v.pxQueue,
                   fnSelect |-> v.fnSelect, fnReady |-> v.fnReady]
           /\ v.pxNext = [p \in 0..(uint8(n) - 1) |-> NoPtr]
           /\ v.fnSelect = "prvPrioritySelect" /\ v.pxQueue = NoPtr
           /\ v.fnReady = "prvAlwaysReady"
<1> DEFINE places == [p \in 0..(uint8(n) - 1) |-> NoPtr]
<1>1. pxNetworkNodeCreate(n) = [pxNext |-> places, pxQueue |-> NoPtr,
          fnSelect |-> "prvSelectFirst", fnReady |-> "prvAlwaysReady"]
  BY DEF pxNetworkNodeCreate
<1> HIDE DEF places
<1>2. v = [pxNext |-> places, pxQueue |-> NoPtr,
           fnSelect |-> "prvPrioritySelect", fnReady |-> "prvAlwaysReady"]
  BY <1>1
<1>3. v.pxNext = places /\ v.pxQueue = NoPtr /\ v.fnReady = "prvAlwaysReady"
  BY <1>2
<1> QED
  BY <1>2, <1>3 DEF places

LEMMA BuildPrio ==
    ASSUME TreeInv,
           pxNetworkNodeCreatePrio
    PROVE  TreeInv'
<1> DEFINE n == layout.calls[callNo].uxNumChildren
           v == [pxNetworkNodeCreate(n) EXCEPT !.fnSelect = "prvPrioritySelect"]
<1>1. /\ Calls("pxNetworkNodeCreatePrio") /\ root' = root
      /\ nodes' = With(nodes, layout.calls[callNo].node, v)
  BY DEF pxNetworkNodeCreatePrio
<1>2. Positions(layout, callNo) = 0..(uint8(n) - 1)
  <2>1. /\ layout.calls[callNo].fn = "pxNetworkNodeCreatePrio"
        /\ callNo \in 1..Len(layout.calls) /\ CorrectlyLinked(layout)
    BY <1>1, Called
  <2>2. uint8(n) = n
    BY <2>1, FitsByte DEF CorrectlyLinked
  <2> QED
    BY <2>1, <2>2 DEF Positions
<1>3. /\ v = [pxNext |-> v.pxNext, pxQueue |-> v.pxQueue,
              fnSelect |-> v.fnSelect, fnReady |-> v.fnReady]
      /\ v.pxNext = [p \in 0..(uint8(n) - 1) |-> NoPtr]
      /\ v.fnSelect = "prvPrioritySelect" /\ v.fnReady = "prvAlwaysReady"
  BY PrioNode
<1>4. "pxNetworkNodeCreatePrio" \in NodeCreations
  BY DEF NodeCreations
<1> HIDE DEF v, n
<1> QED
  BY <1>1, <1>2, <1>3, <1>4, BuildNode

\* The calls that leave the nodes alone.
LEMMA BuildOther ==
    ASSUME TreeInv,
           pxNetworkQueueCreate \/ xNetworkQueueAssignRoot
    PROVE  TreeInv'
<1>1. CASE pxNetworkQueueCreate
  <2>1. Calls("pxNetworkQueueCreate") /\ nodes' = nodes /\ root' = root
    BY <1>1 DEF pxNetworkQueueCreate
  <2>2. NodesInv(nodes', layout, callNo + 1)
    BY <2>1, Called, NodesStay DEF NodeCreations
  <2> QED
    BY <2>1, <2>2, Called, Building
<1>2. CASE xNetworkQueueAssignRoot
  <2>1. /\ Calls("xNetworkQueueAssignRoot") /\ nodes' = nodes
        /\ root' = IF root = NoPtr THEN layout.calls[callNo].node ELSE root
    BY <1>2 DEF xNetworkQueueAssignRoot
  <2>2. NodesInv(nodes', layout, callNo + 1)
    BY <2>1, Called, NodesStay DEF NodeCreations
  <2>3. layout.calls[callNo].node \in DOMAIN nodes
    <3>1. /\ callNo \in 1..Len(layout.calls) /\ CorrectlyLinked(layout)
          /\ layout.calls[callNo].fn = "xNetworkQueueAssignRoot"
          /\ \A n : CreatedBefore(layout, callNo, n) => n \in DOMAIN nodes
      BY <2>1, Called
    <3> QED
      BY <3>1 DEF CorrectlyLinked
  <2> QED
    BY <2>1, <2>2, <2>3, Called, Building
<1> QED
  BY <1>1, <1>2

\* A node as a record, for the assignments to its fields.
LEMMA NodeRecord ==
    ASSUME NEW nd, NEW l, NEW done, NodesInv(nd, l, done), NEW n \in DOMAIN nd
    PROVE  /\ nd[n] = [pxNext |-> nd[n].pxNext, pxQueue |-> nd[n].pxQueue,
                       fnSelect |-> nd[n].fnSelect, fnReady |-> nd[n].fnReady]
           /\ nd[n].pxNext = [p \in DOMAIN nd[n].pxNext |-> nd[n].pxNext[p]]
  BY DEF NodesInv, NodesMade, Node

LEMMA BuildQueueLink ==
    ASSUME TreeInv,
           xNetworkSchedulerLinkQueue
    PROVE  TreeInv'
<1> DEFINE n == layout.calls[callNo].node
           q == layout.calls[callNo].queue
           v == [nodes[n] EXCEPT !.pxQueue = q]
<1>1. /\ Calls("xNetworkSchedulerLinkQueue") /\ root' = root
      /\ nodes' = [nodes EXCEPT ![n] = v]
  BY DEF xNetworkSchedulerLinkQueue
<1>2. /\ callNo \in 1..Len(layout.calls) /\ callNo \in Nat \ {0}
      /\ CorrectlyLinked(layout) /\ NodesInv(nodes, layout, callNo)
      /\ layout.calls[callNo].fn = "xNetworkSchedulerLinkQueue"
      /\ root = NoPtr \/ root \in DOMAIN nodes
      /\ \A k : CreatedBefore(layout, callNo, k) => k \in DOMAIN nodes
  BY <1>1, Called
<1>3. n \in DOMAIN nodes /\ q # NoPtr
  BY <1>2 DEF CorrectlyLinked
<1>4. /\ v = [pxNext |-> v.pxNext, pxQueue |-> v.pxQueue,
              fnSelect |-> v.fnSelect, fnReady |-> v.fnReady]
      /\ v.pxNext = nodes[n].pxNext /\ v.fnSelect = nodes[n].fnSelect
      /\ v.fnReady = nodes[n].fnReady /\ v.pxQueue = q
      /\ nodes[n].pxNext = [p \in DOMAIN nodes[n].pxNext |-> nodes[n].pxNext[p]]
  BY <1>2, <1>3, NodeRecord
<1>5. /\ layout.calls[callNo].fn \notin NodeCreations
      /\ \A c : GivesQueue(layout, callNo, c) => c = n
      /\ \A c, p : ~GivesChild(layout, callNo, c, p)
  BY <1>2 DEF NodeCreations, GivesQueue, GivesChild
<1> HIDE DEF v, n, q
<1>6. NodesInv(nodes', layout, callNo + 1)
  BY <1>1, <1>2, <1>3, <1>4, <1>5, NodeLinked
<1>7. DOMAIN nodes' = DOMAIN nodes
  BY <1>1
<1> QED
  BY <1>1, <1>2, <1>6, <1>7, Building

LEMMA BuildChildLink ==
    ASSUME TreeInv,
           xNetworkSchedulerLinkChild
    PROVE  TreeInv'
<1> DEFINE n == layout.calls[callNo].node
           p == layout.calls[callNo].uxPosition
           c == layout.calls[callNo].child
           v == [nodes[n] EXCEPT !.pxNext = [nodes[n].pxNext EXCEPT ![p] = c]]
<1>1. /\ Calls("xNetworkSchedulerLinkChild") /\ root' = root
      /\ CanLink(nodes[n], p) => nodes' = [nodes EXCEPT ![n] = v]
      /\ ~CanLink(nodes[n], p) => nodes' = nodes
  BY DEF xNetworkSchedulerLinkChild
<1>2. /\ callNo \in 1..Len(layout.calls) /\ callNo \in Nat \ {0}
      /\ CorrectlyLinked(layout) /\ NodesInv(nodes, layout, callNo)
      /\ layout.calls[callNo].fn = "xNetworkSchedulerLinkChild"
      /\ root = NoPtr \/ root \in DOMAIN nodes
      /\ \A k : CreatedBefore(layout, callNo, k) => k \in DOMAIN nodes
  BY <1>1, Called
<1>3. n \in DOMAIN nodes /\ c \in DOMAIN nodes
  BY <1>2 DEF CorrectlyLinked
<1>4. /\ nodes[n] = [pxNext |-> nodes[n].pxNext, pxQueue |-> nodes[n].pxQueue,
                     fnSelect |-> nodes[n].fnSelect, fnReady |-> nodes[n].fnReady]
      /\ nodes[n].pxNext = [k \in DOMAIN nodes[n].pxNext |-> nodes[n].pxNext[k]]
  BY <1>2, <1>3, NodeRecord
<1>5. /\ v = [pxNext |-> v.pxNext, pxQueue |-> v.pxQueue,
              fnSelect |-> v.fnSelect, fnReady |-> v.fnReady]
      /\ v.pxNext = [nodes[n].pxNext EXCEPT ![p] = c]
      /\ v.fnSelect = nodes[n].fnSelect /\ v.pxQueue = nodes[n].pxQueue
      /\ v.fnReady = nodes[n].fnReady
  <2> DEFINE w == nodes[n]
             next == [w.pxNext EXCEPT ![p] = c]
  <2>1. w = [pxNext |-> w.pxNext, pxQueue |-> w.pxQueue,
             fnSelect |-> w.fnSelect, fnReady |-> w.fnReady]
    BY <1>4
  <2>2. v = [w EXCEPT !.pxNext = next]
    OBVIOUS
  <2> HIDE DEF next, w, v
  <2>3. v = [pxNext |-> next, pxQueue |-> w.pxQueue,
             fnSelect |-> w.fnSelect, fnReady |-> w.fnReady]
    BY <2>1, <2>2
  <2> QED
    BY <2>3 DEF next, w
<1>6. /\ layout.calls[callNo].fn \notin NodeCreations
      /\ \A k : ~GivesQueue(layout, callNo, k)
      /\ \A k, i : GivesChild(layout, callNo, k, i) => k = n /\ i = p
  BY <1>2 DEF NodeCreations, GivesQueue, GivesChild
<1> HIDE DEF v, n, c, p
<1>7. NodesInv(nodes', layout, callNo + 1)
  <2>1. CASE CanLink(nodes[n], p)
    <3>1. p \in DOMAIN nodes[n].pxNext /\ nodes' = [nodes EXCEPT ![n] = v]
      BY <1>1, <2>1 DEF CanLink
    <3>2. /\ v.pxNext[p] = c
          /\ \A i \in DOMAIN nodes[n].pxNext : i # p => v.pxNext[i] = nodes[n].pxNext[i]
          /\ v.pxNext = [i \in DOMAIN nodes[n].pxNext |-> v.pxNext[i]]
      BY <1>4, <1>5, <3>1
    <3>3. \A i \in DOMAIN nodes[n].pxNext :
             nodes[n].pxNext[i] \in DOMAIN nodes => v.pxNext[i] \in DOMAIN nodes
      BY <1>3, <3>2
    <3> QED
      BY <1>2, <1>3, <1>5, <1>6, <3>1, <3>2, <3>3, NodeLinked
  <2>2. CASE ~CanLink(nodes[n], p)
    <3>1. nodes' = nodes
      BY <1>1, <2>2
    <3>2. nodes[n].pxQueue # NoPtr \/ p \notin DOMAIN nodes[n].pxNext
      BY <2>2 DEF CanLink
    <3>3. nodes' = [nodes EXCEPT ![n] = nodes[n]]
      BY <1>2, <1>3, <3>1 DEF NodesInv, NodesMade
    <3> DEFINE w == nodes[n]
    <3>4. nodes[n] = w
      OBVIOUS
    <3> HIDE DEF w
    <3> QED
      BY <1>2, <1>3, <1>4, <1>6, <3>2, <3>3, <3>4, NodeLinked
  <2> QED
    BY <2>1, <2>2
<1>8. DOMAIN nodes' = DOMAIN nodes
  BY <1>1
<1> QED
  BY <1>1, <1>2, <1>7, <1>8, Building

\* A step of the walk leaves the tree alone.
LEMMA Walks ==
    ASSUME TreeInv, layout' = layout, callNo' = callNo, nodes' = nodes,
           root' = root, WalkInv'
    PROVE  TreeInv'
  BY DEF TreeInv

\* In the walk the tree is complete.
LEMMA TreeComplete ==
    ASSUME TreeInv, walk # "init",
           NEW n \in DOMAIN nodes, nodes[n].pxQueue = NoPtr
    PROVE  /\ \A p \in DOMAIN nodes[n].pxNext : nodes[n].pxNext[p] \in DOMAIN nodes
           /\ \/ 0 \in DOMAIN nodes[n].pxNext
              \/ /\ nodes[n].fnSelect = "prvPrioritySelect"
                 /\ DOMAIN nodes[n].pxNext = {}
           /\ nodes[n].fnReady # "prvCBSReady"
<1>1. CorrectlyLinked(layout) /\ NodesInv(nodes, layout, Len(layout.calls) + 1)
  BY LayoutsAssumption DEF TreeInv, WalkInv
<1> QED
  BY <1>1, NodesComplete

\* The frames after a select function called another one, or returned.
LEMMA Pushed ==
    ASSUME NEW nd, NEW s \in Seq([pxNode : DOMAIN nd, usIter : Nat]),
           \A k \in 1..Len(s) : nd[s[k].pxNode].pxQueue = NoPtr,
           NEW e \in [pxNode : DOMAIN nd, usIter : Nat],
           nd[e.pxNode].pxQueue = NoPtr,
           NEW t, t = Append(s, e)
    PROVE  /\ t \in Seq([pxNode : DOMAIN nd, usIter : Nat])
           /\ \A k \in 1..Len(t) : nd[t[k].pxNode].pxQueue = NoPtr
<1> DEFINE F == [pxNode : DOMAIN nd, usIter : Nat]
<1>1. s \in Seq(F) /\ e \in F
  OBVIOUS
<1> HIDE DEF F
<1>2. /\ t \in Seq(F) /\ Len(t) = Len(s) + 1 /\ Len(s) \in Nat
      /\ \A k \in 1..Len(s) : t[k] = s[k]
      /\ t[Len(s) + 1] = e
  BY <1>1
<1>3. ASSUME NEW k \in 1..Len(t) PROVE nd[t[k].pxNode].pxQueue = NoPtr
  BY <1>2
<1> QED
  BY <1>2, <1>3 DEF F

LEMMA Front ==
    ASSUME NEW F, NEW s, s \in Seq(F), s # <<>>
    PROVE  LET t == SubSeq(s, 1, Len(s) - 1) IN
           /\ t \in Seq(F) /\ Len(t) = Len(s) - 1 /\ Len(s) \in Nat \ {0}
           /\ \A k \in 1..(Len(s) - 1) : t[k] = s[k]
           /\ s[Len(s)] \in F
<1> DEFINE t == SubSeq(s, 1, Len(s) - 1)
<1>1. Len(s) \in Nat \ {0} /\ \A k \in 1..Len(s) : s[k] \in F
  BY EmptySeq
<1>2. \A k \in 1..(Len(s) - 1) : s[k] \in F
  BY <1>1
<1>3. /\ t \in Seq(F) /\ Len(t) = IF 1 <= Len(s) - 1 THEN Len(s) - 1 - 1 + 1 ELSE 0
      /\ \A k \in 1..(Len(s) - 1 - 1 + 1) : t[k] = s[1 + k - 1]
  BY <1>1, <1>2, SubSeqProperties
<1>4. \A n \in Nat \ {0} :
         /\ (IF 1 <= n - 1 THEN n - 1 - 1 + 1 ELSE 0) = n - 1
         /\ n - 1 - 1 + 1 = n - 1
         /\ \A k \in 1..(n - 1) : 1 + k - 1 = k
         /\ n \in 1..n
  OBVIOUS
<1>5. Len(t) = Len(s) - 1
  BY <1>1, <1>3, <1>4
<1>6. \A k \in 1..(Len(s) - 1) : t[k] = s[k]
  BY <1>1, <1>3, <1>4
<1> QED
  BY <1>1, <1>3, <1>4, <1>5, <1>6

LEMMA Popped ==
    ASSUME NEW nd, NEW s \in Seq([pxNode : DOMAIN nd, usIter : Nat]), s # <<>>,
           \A k \in 1..Len(s) : nd[s[k].pxNode].pxQueue = NoPtr,
           NEW t, t = SubSeq(s, 1, Len(s) - 1)
    PROVE  /\ t \in Seq([pxNode : DOMAIN nd, usIter : Nat])
           /\ \A k \in 1..Len(t) : nd[t[k].pxNode].pxQueue = NoPtr
           /\ s[Len(s)].pxNode \in DOMAIN nd /\ s[Len(s)].usIter \in Nat
           /\ nd[s[Len(s)].pxNode].pxQueue = NoPtr
           /\ s[Len(s)] \in [pxNode : DOMAIN nd, usIter : Nat]
<1> DEFINE F == [pxNode : DOMAIN nd, usIter : Nat]
<1>1. s \in Seq(F)
  OBVIOUS
<1>2. \A e \in F : e.pxNode \in DOMAIN nd /\ e.usIter \in Nat
  OBVIOUS
<1> HIDE DEF F
<1>3. /\ t \in Seq(F) /\ Len(t) = Len(s) - 1 /\ Len(s) \in Nat \ {0}
      /\ \A k \in 1..(Len(s) - 1) : t[k] = s[k]
      /\ s[Len(s)] \in F
  BY <1>1, Front
<1>4. ASSUME NEW k \in 1..Len(t) PROVE nd[t[k].pxNode].pxQueue = NoPtr
  BY <1>3
<1>5. nd[s[Len(s)].pxNode].pxQueue = NoPtr
  BY <1>3
<1> QED
  BY <1>2, <1>3, <1>4, <1>5 DEF F

LEMMA WalkStarts ==
    ASSUME TreeInv,
           TreeReady \/ xNetworkQueueSchedule
    PROVE  TreeInv'
<1>1. CASE TreeReady
  BY <1>1, Walks DEF TreeReady, TreeInv, WalkInv
<1>2. CASE xNetworkQueueSchedule
  <2>1. /\ layout' = layout /\ callNo' = callNo /\ nodes' = nodes /\ root' = root
        /\ walk # "init" /\ frames' = <<>> /\ walk' \in {"call", "return"}
        /\ walk' = "call" => arg' \in DOMAIN nodes
    BY <1>2 DEF xNetworkQueueSchedule, TreeInv
  <2>2. WalkInv'
    BY <2>1 DEF TreeInv, WalkInv
  <2> QED
    BY <2>1, <2>2, Walks
<1> QED
  BY <1>1, <1>2

\* A step of the walk that returns, or leaves it where it is.
LEMMA WalkReturns ==
    ASSUME TreeInv, walk # "init", layout' = layout, callNo' = callNo,
           nodes' = nodes, root' = root, frames' = frames,
           (walk' = walk /\ arg' = arg) \/ walk' \in {"idle", "return"}
    PROVE  TreeInv'
  BY Walks DEF TreeInv, WalkInv

LEMMA WalkSelects ==
    ASSUME TreeInv, SchedulerSelect
    PROVE  TreeInv'
<1>1. /\ walk = "call" /\ nodes[arg].pxQueue = NoPtr /\ arg \in DOMAIN nodes
      /\ layout' = layout /\ callNo' = callNo /\ nodes' = nodes /\ root' = root
  BY DEF SchedulerSelect, Walking, TreeInv, WalkInv
<1> SelectsFirst
  BY <1>1, TreeComplete DEF SchedulerSelect, PeeksNullQueue
<1>2. CASE walk' = "return" /\ frames' = frames
  BY <1>1, <1>2, WalkReturns
<1>3. CASE ~(walk' = "return" /\ frames' = frames)
  <2>1. /\ walk' = "call" /\ arg' = nodes[arg].pxNext[0]
        /\ frames' = Append(frames, [pxNode |-> arg, usIter |-> 0])
        /\ ~(nodes[arg].fnSelect = "prvPrioritySelect"
             /\ DOMAIN nodes[arg].pxNext = {})
    BY <1>3 DEF SelectsFirst, Return, Call
  <2>2. arg' \in DOMAIN nodes
    BY <1>1, <2>1, TreeComplete
  <2>3. /\ frames \in Seq([pxNode : DOMAIN nodes, usIter : Nat])
        /\ \A k \in 1..Len(frames) : nodes[frames[k].pxNode].pxQueue = NoPtr
        /\ callNo = Len(layout.calls) + 1
    BY <1>1 DEF TreeInv, WalkInv
  <2>4. /\ [pxNode |-> arg, usIter |-> 0] \in [pxNode : DOMAIN nodes, usIter : Nat]
        /\ [pxNode |-> arg, usIter |-> 0].pxNode = arg
    BY <1>1
  <2>5. /\ frames' \in Seq([pxNode : DOMAIN nodes, usIter : Nat])
        /\ \A k \in 1..Len(frames') : nodes[frames'[k].pxNode].pxQueue = NoPtr
    BY <1>1, <2>1, <2>3, <2>4, Pushed
  <2>6. WalkInv'
    BY <1>1, <2>1, <2>2, <2>3, <2>5 DEF WalkInv
  <2> QED
    BY <1>1, <2>6, Walks
<1> QED
  BY <1>2, <1>3

LEMMA WalkResumes ==
    ASSUME TreeInv, SelectResumes
    PROVE  TreeInv'
<1>1. /\ walk = "return" /\ frames # <<>>
      /\ layout' = layout /\ callNo' = callNo /\ nodes' = nodes /\ root' = root
      /\ frames \in Seq([pxNode : DOMAIN nodes, usIter : Nat])
      /\ \A k \in 1..Len(frames) : nodes[frames[k].pxNode].pxQueue = NoPtr
      /\ callNo = Len(layout.calls) + 1
  BY DEF SelectResumes, Walking, TreeInv, WalkInv
<1>2. /\ Pop \in Seq([pxNode : DOMAIN nodes, usIter : Nat])
      /\ \A k \in 1..Len(Pop) : nodes[Pop[k].pxNode].pxQueue = NoPtr
      /\ Top.pxNode \in DOMAIN nodes /\ Top.usIter \in Nat
      /\ nodes[Top.pxNode].pxQueue = NoPtr
      /\ Top \in [pxNode : DOMAIN nodes, usIter : Nat]
  BY <1>1, Popped DEF Pop, Top
<1>3. CASE TriesNext(result)
  <2> DEFINE e == [Top EXCEPT !.usIter = @ + 1]
  <2>1. /\ walk' = "call" /\ arg' = nodes[Top.pxNode].pxNext[Top.usIter + 1]
        /\ frames' = Append(Pop, e)
    BY <1>3 DEF SelectResumes, Call
  <2>2. arg' \in DOMAIN nodes
    BY <1>1, <1>2, <1>3, <2>1, TreeComplete DEF TriesNext
  <2>3. e \in [pxNode : DOMAIN nodes, usIter : Nat] /\ e.pxNode = Top.pxNode
    BY <1>2
  <2> HIDE DEF e
  <2>4. /\ frames' \in Seq([pxNode : DOMAIN nodes, usIter : Nat])
        /\ \A k \in 1..Len(frames') : nodes[frames'[k].pxNode].pxQueue = NoPtr
    BY <1>2, <2>1, <2>3, Pushed
  <2>5. WalkInv'
    BY <1>1, <2>1, <2>2, <2>4 DEF WalkInv
  <2> QED
    BY <1>1, <2>5, Walks
<1>4. CASE ~TriesNext(result)
  <2>1. frames' = Pop /\ walk' = walk
    BY <1>4 DEF SelectResumes
  <2>2. WalkInv'
    BY <1>1, <1>2, <2>1 DEF WalkInv
  <2> QED
    BY <1>1, <2>2, Walks
<1> QED
  BY <1>3, <1>4

LEMMA TreeInitInv ==
    ASSUME TreeInit
    PROVE  TreeInv
<1>1. CorrectlyLinked(layout) /\ layout \in Layouts /\ Len(layout.calls) \in Nat
  BY LayoutsAssumption DEF TreeInit, CorrectlyLinked
<1>2. NodesInv(nodes, layout, callNo)
  BY DEF TreeInit, NodesInv, NodesMade, NodesShaped, NodesLinked, CreatedBefore
<1>3. WalkInv
  BY DEF TreeInit, WalkInv
<1> QED
  BY <1>1, <1>2, <1>3 DEF TreeInit, TreeInv

LEMMA TreeStep ==
    ASSUME TreeInv, [TreeNext]_treeVars
    PROVE  TreeInv'
<1>1. CASE pxNetworkQueueCreate
  BY <1>1, BuildOther
<1>2. CASE pxNetworkNodeCreateFIFO
  BY <1>2, BuildFIFO
<1>3. CASE pxNetworkNodeCreateCBS
  BY <1>3, BuildCBS
<1>4. CASE pxNetworkNodeCreatePrio
  BY <1>4, BuildPrio
<1>5. CASE xNetworkSchedulerLinkQueue
  BY <1>5, BuildQueueLink
<1>6. CASE xNetworkSchedulerLinkChild
  BY <1>6, BuildChildLink
<1>7. CASE xNetworkQueueAssignRoot
  BY <1>7, BuildOther
<1>8. CASE TreeReady
  BY <1>8, WalkStarts
<1>9. ASSUME NEW i \in DOMAIN queueList, NEW e, InsertPacketByName(queueList[i].cName, e)
      PROVE  TreeInv'
  <2>1. /\ walk # "init" /\ layout' = layout /\ callNo' = callNo
        /\ nodes' = nodes /\ root' = root /\ frames' = frames
        /\ walk' = walk /\ arg' = arg
    BY <1>9 DEF InsertPacketByName
  <2> QED
    BY <2>1, WalkReturns
<1>10. CASE xNetworkQueueSchedule
  BY <1>10, WalkStarts
<1>11. CASE SchedulerNotReady
  BY <1>11, WalkReturns DEF SchedulerNotReady, Return, Walking
<1>12. CASE SchedulerLeaf
  BY <1>12, WalkReturns DEF SchedulerLeaf, Return, Walking
<1>13. CASE SchedulerSelect
  BY <1>13, WalkSelects
<1>14. CASE SelectResumes
  BY <1>14, WalkResumes
<1>15. CASE ControllerPops
  BY <1>15, WalkReturns DEF ControllerPops
<1>16. CASE UNCHANGED treeVars
  <2>1. /\ layout' = layout /\ callNo' = callNo /\ nodes' = nodes
        /\ root' = root /\ frames' = frames /\ walk' = walk /\ arg' = arg
    BY <1>16 DEF treeVars
  <2>2. WalkInv'
    BY <2>1 DEF TreeInv, WalkInv
  <2> QED
    BY <2>1, <2>2, Walks
<1> QED
  BY <1>1, <1>2, <1>3, <1>4, <1>5, <1>6, <1>7, <1>8, <1>9, <1>10, <1>11, <1>12,
     <1>13, <1>14, <1>15, <1>16 DEF TreeNext

(***************************************************************************)
(* The walk of a tree of any shape, built by calls that obey the rules of  *)
(* the template (NetworkQueueExample.c:13; CorrectlyLinked: all children   *)
(* linked, no more than 255 of them, a queue for each CBS node), never     *)
(* calls the scheduler of a NULL node                                      *)
(* (FreeRTOS_TSN_NetworkSchedulerBlock.c:189) nor peeks a NULL queue       *)
(* (FreeRTOS_TSN_NetworkSchedulerBlock.c:226), however insertions of       *)
(* packets interleave with it.                                             *)
(***************************************************************************)
THEOREM TreeNoNullNode == TreeSpec => []NoNullNode
<1>1. TreeInit => TreeInv
  BY TreeInitInv
<1>2. TreeInv /\ [TreeNext]_treeVars => TreeInv'
  BY TreeStep
<1>3. TreeInv => NoNullNode
  BY DEF TreeInv, WalkInv, NoNullNode
<1> QED
  BY <1>1, <1>2, <1>3, PTL DEF TreeSpec

-----------------------------------------------------------------------------
(***************************************************************************)
(* SchedulerTree: the result of a walk is right for the drawing.           *)
(*                                                                         *)
(* The links of the nodes come from calls, so that the drawing shows them; *)
(* and in the walk everything drawn below the children tried before is     *)
(* passed over for a reason.                                               *)
(***************************************************************************)
LinksFrom(nd, l, done) ==
    \A n \in DOMAIN nd :
        /\ nd[n].pxQueue # NoPtr =>
              \E k \in 1..(done - 1) :
                  GivesQueue(l, k, n) /\ l.calls[k].queue = nd[n].pxQueue
        /\ \A p \in DOMAIN nd[n].pxNext : nd[n].pxNext[p] # NoPtr =>
              \E k \in 1..(done - 1) :
                  GivesChild(l, k, n, p) /\ l.calls[k].child = nd[n].pxNext[p]

RootFrom(r, l, done) ==
    IF r = NoPtr
      THEN \A k \in 1..(done - 1) : l.calls[k].fn # "xNetworkQueueAssignRoot"
      ELSE \E k \in 1..(done - 1) : AssignsRoot(l, k) /\ l.calls[k].node = r

QueuesFrom(w, l, done) ==
    /\ w = [q \in DOMAIN w |-> w[q]]
    /\ \A q \in DOMAIN w : w[q] \in Nat
    /\ \A k \in 1..(done - 1) :
          l.calls[k].fn = "pxNetworkQueueCreate" => l.calls[k].queue \in DOMAIN w

BuiltInv ==
    /\ LinksFrom(nodes, layout, callNo)
    /\ RootFrom(root, layout, callNo)
    /\ QueuesFrom(waiting, layout, callNo)

\* The queues of a drawing that a walk may pass over.
PassedOver(l, w, new, closed) ==
    {i \in DOMAIN l.drawn :
        \/ w[l.drawn[i].queue] = 0
        \/ l.drawn[i].queue \in new
        \/ l.drawn[i].above \cap closed # {}}

\* The child a select function called last.
ChildCalled(nd, f) == nd[f.pxNode].pxNext[f.usIter]

\* The node called last: by the select function on top, or by the controller.
CalledLast(nd, r, s) == IF s = <<>> THEN r ELSE ChildCalled(nd, s[Len(s)])

\* Each select function was called by the one below it, and found nothing to
\* take in the children it tried before.
Tried(l, nd, f, passed) ==
    /\ f.usIter \in DOMAIN nd[f.pxNode].pxNext
    /\ \A p \in DOMAIN nd[f.pxNode].pxNext :
          p < f.usIter => Below(l, nd[f.pxNode].pxNext[p]) \subseteq passed

Chained(l, nd, r, s, passed) ==
    \A k \in 1..Len(s) :
        /\ s[k].pxNode = IF k = 1 THEN r ELSE ChildCalled(nd, s[k - 1])
        /\ Tried(l, nd, s[k], passed)

\* What a node may return.
RightBelow(l, w, n, res, passed) ==
    IF res = NoPtr THEN Below(l, n) \subseteq passed
    ELSE /\ res \in DOMAIN w /\ w[res] > 0
         /\ \E j \in Below(l, n) : l.drawn[j].queue = res
         /\ \A i \in Below(l, n) :
               i \in passed \/ \E j \in Below(l, n) : j <= i /\ l.drawn[j].queue = res

Passed == PassedOver(layout, waiting, fresh, blocked)

ServeInv ==
    /\ walk \in {"call", "return"} =>
          /\ Chained(layout, nodes, root, frames, Passed)
          /\ root # NoPtr
    /\ walk = "call" => arg = CalledLast(nodes, root, frames)
    /\ walk = "return" =>
          RightBelow(layout, waiting, CalledLast(nodes, root, frames), result, Passed)

LEMMA MoreLinks ==
    ASSUME NEW nd, NEW l, NEW done \in Nat \ {0}, LinksFrom(nd, l, done)
    PROVE  LinksFrom(nd, l, done + 1)
<1>1. \A j : j \in 1..(done - 1) => j \in 1..(done + 1 - 1)
  OBVIOUS
<1> QED
  BY <1>1 DEF LinksFrom

\* A node is created, or one of its links set by the call.
LEMMA LinksSet ==
    ASSUME NEW nd, NEW l, NEW done \in Nat \ {0}, LinksFrom(nd, l, done),
           NEW nd2, NEW n, DOMAIN nd2 \subseteq DOMAIN nd \cup {n},
           \A c \in DOMAIN nd : c # n => nd2[c] = nd[c],
           nd2[n].pxQueue # NoPtr =>
               \/ n \in DOMAIN nd /\ nd2[n].pxQueue = nd[n].pxQueue
               \/ GivesQueue(l, done, n) /\ l.calls[done].queue = nd2[n].pxQueue,
           \A p \in DOMAIN nd2[n].pxNext : nd2[n].pxNext[p] # NoPtr =>
               \/ /\ n \in DOMAIN nd /\ p \in DOMAIN nd[n].pxNext
                  /\ nd2[n].pxNext[p] = nd[n].pxNext[p]
               \/ GivesChild(l, done, n, p) /\ l.calls[done].child = nd2[n].pxNext[p]
    PROVE  LinksFrom(nd2, l, done + 1)
<1>1. LinksFrom(nd, l, done + 1) /\ done \in 1..(done + 1 - 1)
  BY MoreLinks
<1> DEFINE ks == 1..(done + 1 - 1)
<1>2. /\ done \in ks
      /\ \A c \in DOMAIN nd :
          /\ nd[c].pxQueue # NoPtr =>
                \E k \in ks : GivesQueue(l, k, c) /\ l.calls[k].queue = nd[c].pxQueue
          /\ \A p \in DOMAIN nd[c].pxNext : nd[c].pxNext[p] # NoPtr =>
                \E k \in ks : GivesChild(l, k, c, p) /\ l.calls[k].child = nd[c].pxNext[p]
  BY <1>1 DEF LinksFrom
<1> HIDE DEF ks
<1>3. ASSUME NEW c \in DOMAIN nd2
      PROVE  /\ nd2[c].pxQueue # NoPtr =>
                   \E k \in ks : GivesQueue(l, k, c) /\ l.calls[k].queue = nd2[c].pxQueue
             /\ \A p \in DOMAIN nd2[c].pxNext : nd2[c].pxNext[p] # NoPtr =>
                   \E k \in ks :
                      GivesChild(l, k, c, p) /\ l.calls[k].child = nd2[c].pxNext[p]
  <2>1. CASE c = n
    BY <1>2, <2>1
  <2>2. CASE c # n
    BY <1>2, <2>2
  <2> QED
    BY <2>1, <2>2
<1> QED
  BY <1>3 DEF LinksFrom, ks

LEMMA RootStays ==
    ASSUME NEW r, NEW l, NEW done \in Nat \ {0}, RootFrom(r, l, done),
           l.calls[done].fn # "xNetworkQueueAssignRoot"
    PROVE  RootFrom(r, l, done + 1)
<1>1. \A j : j \in 1..(done + 1 - 1) <=> j \in 1..(done - 1) \/ j = done
  OBVIOUS
<1> QED
  BY <1>1 DEF RootFrom

LEMMA RootAssigned ==
    ASSUME NEW r, NEW l, NEW done \in Nat \ {0}, RootFrom(r, l, done),
           l.calls[done].fn = "xNetworkQueueAssignRoot",
           l.calls[done].node # NoPtr,
           NEW r2, r2 = IF r = NoPtr THEN l.calls[done].node ELSE r
    PROVE  RootFrom(r2, l, done + 1)
<1>1. \A j : j \in 1..(done + 1 - 1) <=> j \in 1..(done - 1) \/ j = done
  OBVIOUS
<1> QED
  BY <1>1 DEF RootFrom, AssignsRoot

LEMMA QueuesStay ==
    ASSUME NEW w, NEW l, NEW done \in Nat \ {0}, QueuesFrom(w, l, done),
           l.calls[done].fn # "pxNetworkQueueCreate"
    PROVE  QueuesFrom(w, l, done + 1)
<1>1. \A j : j \in 1..(done + 1 - 1) <=> j \in 1..(done - 1) \/ j = done
  OBVIOUS
<1> QED
  BY <1>1 DEF QueuesFrom

LEMMA QueueAdded ==
    ASSUME NEW w, NEW l, NEW done \in Nat \ {0}, QueuesFrom(w, l, done),
           NEW w2, w2 = With(w, l.calls[done].queue, 0)
    PROVE  QueuesFrom(w2, l, done + 1)
<1>1. \A j : j \in 1..(done + 1 - 1) <=> j \in 1..(done - 1) \/ j = done
  OBVIOUS
<1> QED
  BY <1>1 DEF QueuesFrom, With

\* A call that builds keeps the walk where it is.
LEMMA StillBuilding ==
    ASSUME TreeInv, NEW f, Calls(f)
    PROVE  ServeInv' /\ layout' = layout /\ callNo' = callNo + 1
  BY LayoutsAssumption DEF TreeInv, WalkInv, ServeInv, Calls, walkVars, CorrectlyLinked

LEMMA CreatesNotNull ==
    ASSUME NEW l, CorrectlyLinked(l), NEW k \in 1..Len(l.calls), NEW n,
           Creates(l, k, n) \/ CreatedBefore(l, k, n)
    PROVE  n # NoPtr
<1>1. \A j \in 1..(k - 1) : j \in 1..Len(l.calls)
  BY DEF CorrectlyLinked
<1>2. PICK j \in 1..Len(l.calls) : Creates(l, j, n)
  BY <1>1 DEF CreatedBefore
<1> QED
  BY <1>2 DEF CorrectlyLinked, Creates

LEMMA BuiltQueue ==
    ASSUME TreeInv, BuiltInv, pxNetworkQueueCreate
    PROVE  BuiltInv' /\ ServeInv'
<1>1. /\ Calls("pxNetworkQueueCreate") /\ nodes' = nodes /\ root' = root
      /\ waiting' = With(waiting, layout.calls[callNo].queue, 0)
  BY DEF pxNetworkQueueCreate
<1>2. /\ callNo \in Nat \ {0} /\ layout.calls[callNo].fn = "pxNetworkQueueCreate"
      /\ ServeInv' /\ layout' = layout /\ callNo' = callNo + 1
  BY <1>1, Called, StillBuilding
<1>3. LinksFrom(nodes, layout, callNo + 1) /\ RootFrom(root, layout, callNo + 1)
  BY <1>2, MoreLinks, RootStays DEF BuiltInv
<1>4. QueuesFrom(waiting', layout, callNo + 1)
  BY <1>1, <1>2, QueueAdded DEF BuiltInv
<1> QED
  BY <1>1, <1>2, <1>3, <1>4 DEF BuiltInv

\* A call that changes the nodes only.
LEMMA BuiltNode ==
    ASSUME TreeInv, BuiltInv, NEW f, Calls(f),
           f # "pxNetworkQueueCreate", f # "xNetworkQueueAssignRoot",
           root' = root, waiting' = waiting,
           LinksFrom(nodes', layout, callNo + 1)
    PROVE  BuiltInv' /\ ServeInv'
<1>1. /\ callNo \in Nat \ {0} /\ layout.calls[callNo].fn = f
      /\ ServeInv' /\ layout' = layout /\ callNo' = callNo + 1
  BY Called, StillBuilding
<1>2. RootFrom(root, layout, callNo + 1) /\ QueuesFrom(waiting, layout, callNo + 1)
  BY <1>1, RootStays, QueuesStay DEF BuiltInv
<1> QED
  BY <1>1, <1>2 DEF BuiltInv

\* Its children are not linked yet.
LEMMA BuiltCreation ==
    ASSUME TreeInv, BuiltInv, NEW f \in NodeCreations, Calls(f),
           root' = root, waiting' = waiting,
           NEW v, nodes' = With(nodes, layout.calls[callNo].node, v),
           v.pxQueue = NoPtr, NEW m, v.pxNext = [p \in 0..(m - 1) |-> NoPtr]
    PROVE  BuiltInv' /\ ServeInv'
<1> DEFINE n == layout.calls[callNo].node
<1>1. callNo \in Nat \ {0}
  BY Called
<1>2. /\ DOMAIN nodes' \subseteq DOMAIN nodes \cup {n}
      /\ nodes'[n] = v
      /\ \A c \in DOMAIN nodes : c # n => nodes'[c] = nodes[c]
  BY DEF With
<1>3. /\ nodes'[n].pxQueue = NoPtr
      /\ \A p \in DOMAIN nodes'[n].pxNext : nodes'[n].pxNext[p] = NoPtr
  BY <1>2
<1> HIDE DEF n
<1>4. LinksFrom(nodes', layout, callNo + 1)
  <2>1. LinksFrom(nodes, layout, callNo)
    BY DEF BuiltInv
  <2> QED
    BY <1>1, <1>2, <1>3, <2>1, LinksSet
<1>5. f # "pxNetworkQueueCreate" /\ f # "xNetworkQueueAssignRoot"
  BY DEF NodeCreations
<1> QED
  BY <1>4, <1>5, BuiltNode

LEMMA BuiltCreations ==
    ASSUME TreeInv, BuiltInv,
           pxNetworkNodeCreateFIFO \/ pxNetworkNodeCreateCBS \/ pxNetworkNodeCreatePrio
    PROVE  BuiltInv' /\ ServeInv'
<1>1. CASE pxNetworkNodeCreateFIFO
  <2> DEFINE v == pxNetworkNodeCreate(1)
  <2>1. /\ Calls("pxNetworkNodeCreateFIFO") /\ root' = root /\ waiting' = waiting
        /\ nodes' = With(nodes, layout.calls[callNo].node, v)
        /\ "pxNetworkNodeCreateFIFO" \in NodeCreations
    BY <1>1 DEF pxNetworkNodeCreateFIFO, NodeCreations
  <2>2. v.pxQueue = NoPtr /\ v.pxNext = [p \in 0..(uint8(1) - 1) |-> NoPtr]
    BY DEF pxNetworkNodeCreate
  <2> HIDE DEF v
  <2> QED
    BY <2>1, <2>2, BuiltCreation
<1>2. CASE pxNetworkNodeCreateCBS
  <2> DEFINE v == [pxNetworkNodeCreate(1) EXCEPT !.fnReady = "prvCBSReady"]
  <2>1. /\ Calls("pxNetworkNodeCreateCBS") /\ root' = root /\ waiting' = waiting
        /\ nodes' = With(nodes, layout.calls[callNo].node, v)
        /\ "pxNetworkNodeCreateCBS" \in NodeCreations
    BY <1>2 DEF pxNetworkNodeCreateCBS, NodeCreations
  <2>2. v.pxQueue = NoPtr /\ v.pxNext = [p \in 0..(uint8(1) - 1) |-> NoPtr]
    BY DEF pxNetworkNodeCreate
  <2> HIDE DEF v
  <2> QED
    BY <2>1, <2>2, BuiltCreation
<1>3. CASE pxNetworkNodeCreatePrio
  <2> DEFINE n == layout.calls[callNo].uxNumChildren
             v == [pxNetworkNodeCreate(n) EXCEPT !.fnSelect = "prvPrioritySelect"]
  <2>1. /\ Calls("pxNetworkNodeCreatePrio") /\ root' = root /\ waiting' = waiting
        /\ nodes' = With(nodes, layout.calls[callNo].node, v)
        /\ "pxNetworkNodeCreatePrio" \in NodeCreations
    BY <1>3 DEF pxNetworkNodeCreatePrio, NodeCreations
  <2>2. v.pxNext = [p \in 0..(uint8(n) - 1) |-> NoPtr] /\ v.pxQueue = NoPtr
    BY PrioNode
  <2> HIDE DEF v, n
  <2> QED
    BY <2>1, <2>2, BuiltCreation
<1> QED
  BY <1>1, <1>2, <1>3

LEMMA BuiltRoot ==
    ASSUME TreeInv, BuiltInv, xNetworkQueueAssignRoot
    PROVE  BuiltInv' /\ ServeInv'
<1>1. /\ Calls("xNetworkQueueAssignRoot") /\ nodes' = nodes /\ waiting' = waiting
      /\ root' = IF root = NoPtr THEN layout.calls[callNo].node ELSE root
  BY DEF xNetworkQueueAssignRoot
<1>2. /\ callNo \in Nat \ {0} /\ callNo \in 1..Len(layout.calls)
      /\ CorrectlyLinked(layout)
      /\ layout.calls[callNo].fn = "xNetworkQueueAssignRoot"
      /\ ServeInv' /\ layout' = layout /\ callNo' = callNo + 1
  BY <1>1, Called, StillBuilding
<1>3. layout.calls[callNo].node # NoPtr
  <2>1. CreatedBefore(layout, callNo, layout.calls[callNo].node)
    BY <1>2 DEF CorrectlyLinked
  <2> QED
    BY <1>2, <2>1, CreatesNotNull
<1>4. LinksFrom(nodes, layout, callNo + 1) /\ QueuesFrom(waiting, layout, callNo + 1)
  BY <1>2, MoreLinks, QueuesStay DEF BuiltInv
<1>5. RootFrom(root', layout, callNo + 1)
  BY <1>1, <1>2, <1>3, RootAssigned DEF BuiltInv
<1> QED
  BY <1>1, <1>2, <1>4, <1>5 DEF BuiltInv

LEMMA BuiltLinks ==
    ASSUME TreeInv, BuiltInv,
           xNetworkSchedulerLinkQueue \/ xNetworkSchedulerLinkChild
    PROVE  BuiltInv' /\ ServeInv'
<1> DEFINE n == layout.calls[callNo].node
           q == layout.calls[callNo].queue
           p == layout.calls[callNo].uxPosition
           c == layout.calls[callNo].child
<1>1. CASE xNetworkSchedulerLinkQueue
  <2> DEFINE v == [nodes[n] EXCEPT !.pxQueue = q]
  <2>1. /\ Calls("xNetworkSchedulerLinkQueue") /\ root' = root /\ waiting' = waiting
        /\ nodes' = [nodes EXCEPT ![n] = v]
    BY <1>1 DEF xNetworkSchedulerLinkQueue
  <2>2. /\ callNo \in Nat \ {0} /\ callNo \in 1..Len(layout.calls)
        /\ CorrectlyLinked(layout) /\ NodesInv(nodes, layout, callNo)
        /\ layout.calls[callNo].fn = "xNetworkSchedulerLinkQueue"
        /\ \A k : CreatedBefore(layout, callNo, k) => k \in DOMAIN nodes
    BY <2>1, Called
  <2>3. n \in DOMAIN nodes
    BY <2>2 DEF CorrectlyLinked
  <2>4. v.pxNext = nodes[n].pxNext /\ v.pxQueue = q
    BY <2>2, <2>3, NodeRecord
  <2>5. GivesQueue(layout, callNo, n) /\ layout.calls[callNo].queue = q
    BY <2>2 DEF GivesQueue
  <2> HIDE DEF v, n, q
  <2>6. /\ DOMAIN nodes' \subseteq DOMAIN nodes \cup {n} /\ nodes'[n] = v
        /\ \A k \in DOMAIN nodes : k # n => nodes'[k] = nodes[k]
    BY <2>1, <2>3
  <2>7. LinksFrom(nodes', layout, callNo + 1)
    BY <2>2, <2>3, <2>4, <2>5, <2>6, LinksSet DEF BuiltInv
  <2> QED
    BY <2>1, <2>7, BuiltNode
<1>2. CASE xNetworkSchedulerLinkChild
  <2> DEFINE v == [nodes[n] EXCEPT !.pxNext = [nodes[n].pxNext EXCEPT ![p] = c]]
  <2>1. /\ Calls("xNetworkSchedulerLinkChild") /\ root' = root /\ waiting' = waiting
        /\ CanLink(nodes[n], p) => nodes' = [nodes EXCEPT ![n] = v]
        /\ ~CanLink(nodes[n], p) => nodes' = nodes
    BY <1>2 DEF xNetworkSchedulerLinkChild
  <2>2. /\ callNo \in Nat \ {0} /\ callNo \in 1..Len(layout.calls)
        /\ CorrectlyLinked(layout) /\ NodesInv(nodes, layout, callNo)
        /\ layout.calls[callNo].fn = "xNetworkSchedulerLinkChild"
        /\ \A k : CreatedBefore(layout, callNo, k) => k \in DOMAIN nodes
    BY <2>1, Called
  <2>3. n \in DOMAIN nodes
    BY <2>2 DEF CorrectlyLinked
  <2>4. /\ nodes[n] = [pxNext |-> nodes[n].pxNext, pxQueue |-> nodes[n].pxQueue,
                       fnSelect |-> nodes[n].fnSelect, fnReady |-> nodes[n].fnReady]
        /\ nodes[n].pxNext = [k \in DOMAIN nodes[n].pxNext |-> nodes[n].pxNext[k]]
    BY <2>2, <2>3, NodeRecord
  <2>5. /\ v.pxNext = [nodes[n].pxNext EXCEPT ![p] = c]
        /\ v.pxQueue = nodes[n].pxQueue
    BY <2>4, SMTT(30)
  <2>6. GivesChild(layout, callNo, n, p) /\ layout.calls[callNo].child = c
    BY <2>2 DEF GivesChild
  <2> HIDE DEF v, n, p, c
  <2>7. LinksFrom(nodes', layout, callNo + 1)
    <3>1. CASE CanLink(nodes[n], p)
      <4>1. /\ DOMAIN nodes' \subseteq DOMAIN nodes \cup {n} /\ nodes'[n] = v
            /\ \A k \in DOMAIN nodes : k # n => nodes'[k] = nodes[k]
        BY <2>1, <2>3, <3>1
      <4>2. \A i \in DOMAIN v.pxNext :
               /\ i \in DOMAIN nodes[n].pxNext
               /\ v.pxNext[i] = IF i = p THEN c ELSE nodes[n].pxNext[i]
        BY <2>4, <2>5
      <4> QED
        BY <2>2, <2>3, <2>5, <2>6, <4>1, <4>2, LinksSet DEF BuiltInv
    <3>2. CASE ~CanLink(nodes[n], p)
      BY <2>1, <2>2, <3>2, MoreLinks DEF BuiltInv
    <3> QED
      BY <3>1, <3>2
  <2> QED
    BY <2>1, <2>7, BuiltNode
<1> QED
  BY <1>1, <1>2

\* In the walk the links are those of the drawing.
LEMMA ShownQueue ==
    ASSUME NEW l, CorrectlyLinked(l), AsDrawn(l), NEW nd,
           LinksFrom(nd, l, Len(l.calls) + 1),
           NEW n \in DOMAIN nd, nd[n].pxQueue # NoPtr
    PROVE  /\ Below(l, n) # {}
           /\ \A i \in Below(l, n) : l.drawn[i].queue = nd[n].pxQueue
<1>1. Len(l.calls) + 1 - 1 = Len(l.calls)
  BY DEF CorrectlyLinked
<1>2. PICK k \in 1..Len(l.calls) :
          GivesQueue(l, k, n) /\ l.calls[k].queue = nd[n].pxQueue
  BY <1>1 DEF LinksFrom
<1> QED
  BY <1>2 DEF AsDrawn, QueueAsDrawn, GivesQueue

LEMMA ShownChildren ==
    ASSUME NEW l, CorrectlyLinked(l), AsDrawn(l), NEW nd,
           NodesInv(nd, l, Len(l.calls) + 1), LinksFrom(nd, l, Len(l.calls) + 1),
           NEW n \in DOMAIN nd, nd[n].pxQueue = NoPtr,
           NEW next, next = nd[n].pxNext
    PROVE  /\ \A i \in Below(l, n) : \E p \in DOMAIN next : i \in Below(l, next[p])
           /\ \A p \in DOMAIN next : Below(l, next[p]) \subseteq Below(l, n)
           /\ \A p1, p2 \in DOMAIN next : p1 < p2 =>
                 \A i1 \in Below(l, next[p1]), i2 \in Below(l, next[p2]) : i1 < i2
           /\ \E m \in Nat : DOMAIN next = 0..(m - 1)
           /\ nd[n].fnSelect # "prvPrioritySelect" => DOMAIN next = 0..0
<1>1. Len(l.calls) \in Nat /\ Len(l.calls) + 1 - 1 = Len(l.calls)
  BY DEF CorrectlyLinked
<1>2. PICK k \in 1..Len(l.calls) : Creates(l, k, n)
  BY <1>1 DEF NodesInv, NodesMade, CreatedBefore
<1>3. l.calls[k].fn \in NodeCreations /\ l.calls[k].node = n
  BY <1>2 DEF Creates
<1>4. /\ DOMAIN next = Positions(l, k)
      /\ nd[n].fnSelect = "prvPrioritySelect" \/ DOMAIN next = 0..0
  BY <1>1, <1>3 DEF NodesInv, NodesShaped
<1>5. \A j \in 1..Len(l.calls) : ~GivesQueue(l, j, n)
  BY <1>1 DEF NodesInv, NodesLinked
<1>6. ASSUME NEW p \in DOMAIN next
      PROVE  \E j \in 1..Len(l.calls) :
                GivesChild(l, j, n, p) /\ l.calls[j].child = next[p]
  <2>1. next[p] \in DOMAIN nd
    BY NodesComplete
  <2>2. next[p] # NoPtr
    <3>1. PICK j \in 1..Len(l.calls) : Creates(l, j, next[p])
      BY <1>1, <2>1 DEF NodesInv, NodesMade, CreatedBefore
    <3> QED
      BY <3>1, CreatesNotNull
  <2> QED
    BY <1>1, <2>2 DEF LinksFrom
<1>7. /\ Below(l, n) =
            UNION {Below(l, l.calls[j].child) :
                     j \in {j \in 1..Len(l.calls) :
                              \E p \in Positions(l, k) : GivesChild(l, j, n, p)}}
      /\ \A j1, j2 \in 1..Len(l.calls), p1, p2 \in Positions(l, k) :
            GivesChild(l, j1, n, p1) /\ GivesChild(l, j2, n, p2) =>
                /\ p1 = p2 => l.calls[j1].child = l.calls[j2].child
                /\ p1 < p2 => \A i1 \in Below(l, l.calls[j1].child),
                                 i2 \in Below(l, l.calls[j2].child) : i1 < i2
  BY <1>3, <1>5, SMTT(30) DEF AsDrawn, ChildrenAsDrawn
<1>8. \A i \in Below(l, n) : \E p \in DOMAIN next : i \in Below(l, next[p])
  <2> SUFFICES ASSUME NEW i \in Below(l, n)
               PROVE  \E p \in DOMAIN next : i \in Below(l, next[p])
    OBVIOUS
  <2>1. PICK j \in 1..Len(l.calls), p \in Positions(l, k) :
            GivesChild(l, j, n, p) /\ i \in Below(l, l.calls[j].child)
    BY <1>7
  <2>2. PICK h \in 1..Len(l.calls) :
            GivesChild(l, h, n, p) /\ l.calls[h].child = next[p]
    BY <1>4, <1>6, <2>1
  <2>3. l.calls[j].child = l.calls[h].child
    BY <1>7, <2>1, <2>2
  <2> QED
    BY <1>4, <2>1, <2>2, <2>3
<1>9. ASSUME NEW p1 \in DOMAIN next, NEW p2 \in DOMAIN next, p1 < p2
      PROVE  \A i1 \in Below(l, next[p1]), i2 \in Below(l, next[p2]) : i1 < i2
  <2>1. PICK j1 \in 1..Len(l.calls) :
            GivesChild(l, j1, n, p1) /\ l.calls[j1].child = next[p1]
    BY <1>6
  <2>2. PICK j2 \in 1..Len(l.calls) :
            GivesChild(l, j2, n, p2) /\ l.calls[j2].child = next[p2]
    BY <1>6
  <2>3. \A i1 \in Below(l, l.calls[j1].child), i2 \in Below(l, l.calls[j2].child) :
            i1 < i2
    BY <1>4, <1>7, <1>9, <2>1, <2>2
  <2> QED
    BY <2>1, <2>2, <2>3
<1>10. \E m \in Nat : Positions(l, k) = 0..(m - 1)
  <2>1. l.calls[k].fn = "pxNetworkNodeCreatePrio" => l.calls[k].uxNumChildren \in Nat
    BY FitsByte DEF CorrectlyLinked
  <2>2. 0..0 = 0..(1 - 1) /\ 1 \in Nat
    OBVIOUS
  <2> QED
    BY <2>1, <2>2 DEF Positions
<1>11. ASSUME NEW p \in DOMAIN next PROVE Below(l, next[p]) \subseteq Below(l, n)
  <2>1. PICK j \in 1..Len(l.calls) :
            GivesChild(l, j, n, p) /\ l.calls[j].child = next[p]
    BY <1>6
  <2> QED
    BY <1>4, <1>7, <2>1
<1> QED
  BY <1>4, <1>8, <1>9, <1>10, <1>11

LEMMA PassedMore ==
    ASSUME NEW l, NEW nd, NEW r, NEW s, NEW ps, NEW ps2, ps \subseteq ps2,
           Chained(l, nd, r, s, ps)
    PROVE  Chained(l, nd, r, s, ps2)
  BY DEF Chained, Tried

\* t is s with e appended, and t is s without its last element.
Extends(t, s, e) ==
    /\ Len(s) \in Nat /\ Len(t) = Len(s) + 1 /\ t[Len(s) + 1] = e
    /\ \A k \in 1..Len(s) : t[k] = s[k]
    /\ s = <<>> <=> Len(s) = 0
    /\ t # <<>>

IsFront(t, s) ==
    /\ Len(s) \in Nat \ {0} /\ Len(t) = Len(s) - 1
    /\ \A k \in 1..(Len(s) - 1) : t[k] = s[k]
    /\ t = <<>> <=> Len(s) = 1
    /\ s # <<>>

LEMMA AppendExtends ==
    ASSUME NEW F, NEW s, s \in Seq(F), NEW e, e \in F
    PROVE  Extends(Append(s, e), s, e)
  BY EmptySeq DEF Extends

LEMMA PopIsFront ==
    ASSUME NEW F, NEW s, s \in Seq(F), s # <<>>
    PROVE  IsFront(SubSeq(s, 1, Len(s) - 1), s)
<1> DEFINE t == SubSeq(s, 1, Len(s) - 1)
<1>1. /\ t \in Seq(F) /\ Len(t) = Len(s) - 1 /\ Len(s) \in Nat \ {0}
      /\ \A k \in 1..(Len(s) - 1) : t[k] = s[k]
  BY Front
<1> HIDE DEF t
<1>2. t = <<>> <=> Len(t) = 0
  BY <1>1, EmptySeq
<1>3. t = <<>> <=> Len(s) = 1
  BY <1>1, <1>2
<1> QED
  BY <1>1, <1>3 DEF IsFront, t

LEMMA ChainPushed ==
    ASSUME NEW l, NEW nd, NEW r, NEW s, NEW ps, Chained(l, nd, r, s, ps),
           NEW e, e.pxNode = CalledLast(nd, r, s), Tried(l, nd, e, ps),
           NEW t, Extends(t, s, e)
    PROVE  Chained(l, nd, r, t, ps) /\ CalledLast(nd, r, t) = ChildCalled(nd, e)
<1>1. /\ Len(s) \in Nat /\ Len(t) = Len(s) + 1 /\ t[Len(s) + 1] = e
      /\ \A k \in 1..Len(s) : t[k] = s[k]
      /\ s = <<>> <=> Len(s) = 0
      /\ t # <<>>
  BY DEF Extends
<1>2. ASSUME NEW k \in 1..Len(t)
      PROVE  /\ t[k].pxNode = IF k = 1 THEN r ELSE ChildCalled(nd, t[k - 1])
             /\ Tried(l, nd, t[k], ps)
  <2>1. CASE k = Len(t)
    <3>1. Len(s) # 0 => Len(s) \in 1..Len(s) /\ Len(t) - 1 = Len(s)
      BY <1>1
    <3> QED
      BY <1>1, <2>1, <3>1 DEF CalledLast
  <2>2. CASE k # Len(t)
    <3>1. k \in 1..Len(s) /\ (k # 1 => k - 1 \in 1..Len(s))
      BY <1>1, <2>2
    <3> QED
      BY <1>1, <3>1 DEF Chained
  <2> QED
    BY <2>1, <2>2
<1> QED
  BY <1>1, <1>2 DEF Chained, CalledLast

LEMMA ChainPopped ==
    ASSUME NEW l, NEW nd, NEW r, NEW s, NEW ps, Chained(l, nd, r, s, ps),
           NEW t, IsFront(t, s)
    PROVE  /\ Chained(l, nd, r, t, ps)
           /\ s[Len(s)].pxNode = CalledLast(nd, r, t)
           /\ Tried(l, nd, s[Len(s)], ps)
           /\ CalledLast(nd, r, s) = ChildCalled(nd, s[Len(s)])
<1>1. /\ Len(s) \in Nat \ {0} /\ Len(s) \in 1..Len(s)
      /\ Len(t) = Len(s) - 1 /\ \A k \in 1..(Len(s) - 1) : t[k] = s[k]
      /\ t = <<>> <=> Len(s) = 1
      /\ s # <<>>
  BY DEF IsFront
<1>2. ASSUME NEW k \in 1..Len(t)
      PROVE  /\ t[k].pxNode = IF k = 1 THEN r ELSE ChildCalled(nd, t[k - 1])
             /\ Tried(l, nd, t[k], ps)
  <2>1. /\ k \in 1..Len(s) /\ k \in 1..(Len(s) - 1)
        /\ k # 1 => k - 1 \in 1..(Len(s) - 1)
    BY <1>1
  <2> QED
    BY <1>1, <2>1 DEF Chained
<1>3. s[Len(s)].pxNode = CalledLast(nd, r, t)
  <2>1. Len(s) # 1 => Len(s) - 1 \in 1..(Len(s) - 1)
    BY <1>1
  <2> QED
    BY <1>1, <2>1 DEF Chained, CalledLast
<1> QED
  BY <1>1, <1>2, <1>3 DEF Chained, CalledLast

LEMMA InWalk ==
    ASSUME TreeInv, BuiltInv, walk # "init"
    PROVE  /\ CorrectlyLinked(layout) /\ AsDrawn(layout)
           /\ NodesInv(nodes, layout, Len(layout.calls) + 1)
           /\ LinksFrom(nodes, layout, Len(layout.calls) + 1)
           /\ QueuesFrom(waiting, layout, Len(layout.calls) + 1)
           /\ root # NoPtr /\ Below(layout, root) = DOMAIN layout.drawn
           /\ \A i \in DOMAIN layout.drawn : layout.drawn[i].queue \in DOMAIN waiting
           /\ \A i \in DOMAIN layout.drawn : i \in Nat \ {0}
<1>1. /\ CorrectlyLinked(layout) /\ AsDrawn(layout)
      /\ NodesInv(nodes, layout, Len(layout.calls) + 1)
      /\ LinksFrom(nodes, layout, Len(layout.calls) + 1)
      /\ RootFrom(root, layout, Len(layout.calls) + 1)
      /\ QueuesFrom(waiting, layout, Len(layout.calls) + 1)
  BY LayoutsAssumption DEF TreeInv, WalkInv, BuiltInv
<1>2. Len(layout.calls) \in Nat /\ Len(layout.calls) + 1 - 1 = Len(layout.calls)
  BY <1>1 DEF CorrectlyLinked
<1>3. /\ \A i \in DOMAIN layout.drawn : layout.drawn[i].queue \in DOMAIN waiting
      /\ \A i \in DOMAIN layout.drawn : i \in Nat \ {0}
  BY <1>1, <1>2 DEF AsDrawn, RootAsDrawn, QueuesFrom
<1>4. root # NoPtr /\ Below(layout, root) = DOMAIN layout.drawn
  <2>1. PICK k \in 1..Len(layout.calls) :
            /\ AssignsRoot(layout, k)
            /\ Below(layout, layout.calls[k].node) = DOMAIN layout.drawn
    BY <1>1 DEF AsDrawn, RootAsDrawn
  <2>2. root # NoPtr
    BY <1>1, <1>2, <2>1 DEF RootFrom, AssignsRoot
  <2>3. PICK h \in 1..Len(layout.calls) :
            AssignsRoot(layout, h) /\ layout.calls[h].node = root
    BY <1>1, <1>2, <2>2 DEF RootFrom
  <2>4. h = k
    <3>1. ~(h < k) /\ ~(k < h)
      <4>1. h < k => h \in 1..(k - 1)
        OBVIOUS
      <4>2. k < h => k \in 1..(h - 1)
        OBVIOUS
      <4> QED
        BY <2>1, <2>3, <4>1, <4>2 DEF AssignsRoot
    <3> QED
      BY <3>1
  <2> QED
    BY <2>1, <2>2, <2>3, <2>4
<1> QED
  BY <1>1, <1>3, <1>4

\* An insertion takes nothing back.
LEMMA MoreWaiting ==
    ASSUME NEW l, NEW w, NEW done, QueuesFrom(w, l, done),
           \A i \in DOMAIN l.drawn : l.drawn[i].queue \in DOMAIN w,
           NEW q, NEW new, NEW closed
    PROVE  LET w2 == [w EXCEPT ![q] = w[q] + 1] IN
           /\ QueuesFrom(w2, l, done)
           /\ PassedOver(l, w, new, closed) \subseteq PassedOver(l, w2, new \cup {q}, closed)
           /\ \A x \in DOMAIN w : x \in DOMAIN w2 /\ (w[x] > 0 => w2[x] > 0)
<1> DEFINE w2 == [w EXCEPT ![q] = w[q] + 1]
<1>1. /\ w2 = [x \in DOMAIN w |-> w2[x]]
      /\ \A x \in DOMAIN w : w2[x] = IF x = q THEN w[x] + 1 ELSE w[x]
      /\ \A x \in DOMAIN w : w[x] \in Nat
  BY DEF QueuesFrom
<1>2. DOMAIN w2 = DOMAIN w
  OBVIOUS
<1>3. \A x \in DOMAIN w : x \in DOMAIN w2 /\ (w[x] > 0 => w2[x] > 0) /\ w2[x] \in Nat
  BY <1>1, <1>2
<1>4. PassedOver(l, w, new, closed) \subseteq PassedOver(l, w2, new \cup {q}, closed)
  BY <1>1 DEF PassedOver
<1>5. QueuesFrom(w2, l, done)
  <2>1. w2 = [x \in DOMAIN w2 |-> w2[x]]
    BY <1>1, <1>2
  <2> QED
    BY <1>2, <1>3, <2>1, Zenon DEF QueuesFrom
<1> QED
  BY <1>3, <1>4, <1>5, Zenon

LEMMA StillRight ==
    ASSUME NEW l, NEW w, NEW w2, NEW n, NEW res, NEW ps, NEW ps2, ps \subseteq ps2,
           \A x \in DOMAIN w : x \in DOMAIN w2 /\ (w[x] > 0 => w2[x] > 0),
           RightBelow(l, w, n, res, ps)
    PROVE  RightBelow(l, w2, n, res, ps2)
  BY DEF RightBelow

\* What was found below the child called last is right below its parent,
\* if no child is left to try.
LEMMA RightAbove ==
    ASSUME NEW l, CorrectlyLinked(l), AsDrawn(l), NEW nd,
           NodesInv(nd, l, Len(l.calls) + 1), LinksFrom(nd, l, Len(l.calls) + 1),
           \A i \in DOMAIN l.drawn : i \in Nat \ {0},
           NEW w, NEW res, NEW ps, NEW f, f.pxNode \in DOMAIN nd,
           nd[f.pxNode].pxQueue = NoPtr, f.usIter \in Nat, Tried(l, nd, f, ps),
           RightBelow(l, w, ChildCalled(nd, f), res, ps),
           \/ res # NoPtr
           \/ nd[f.pxNode].fnSelect # "prvPrioritySelect"
           \/ f.usIter + 1 \notin DOMAIN nd[f.pxNode].pxNext
    PROVE  RightBelow(l, w, f.pxNode, res, ps)
<1> DEFINE n == f.pxNode
           next == nd[n].pxNext
           u == f.usIter
<1>1. /\ \A i \in Below(l, n) : \E p \in DOMAIN next : i \in Below(l, next[p])
      /\ \A p1, p2 \in DOMAIN next : p1 < p2 =>
            \A i1 \in Below(l, next[p1]), i2 \in Below(l, next[p2]) : i1 < i2
      /\ nd[n].fnSelect # "prvPrioritySelect" => DOMAIN next = 0..0
      /\ \E m \in Nat : DOMAIN next = 0..(m - 1)
  BY ShownChildren
<1>2. PICK m \in Nat : DOMAIN next = 0..(m - 1)
  BY <1>1
<1>3. /\ u \in DOMAIN next /\ u \in Nat
      /\ \A p \in DOMAIN next : p < u => Below(l, next[p]) \subseteq ps
      /\ RightBelow(l, w, next[u], res, ps)
  BY DEF Tried, ChildCalled
<1>4. \A p \in DOMAIN next : p \in Nat /\ (p < u \/ p = u \/ u < p)
  BY <1>2, <1>3
<1>5. res = NoPtr => \A p \in DOMAIN next : ~(u < p)
  <2>1. CASE nd[n].fnSelect # "prvPrioritySelect"
    BY <1>1, <2>1, <1>3
  <2>2. CASE u + 1 \notin DOMAIN next
    BY <1>2, <1>3, <2>2
  <2> QED
    BY <2>1, <2>2
<1>6. Below(l, next[u]) \subseteq Below(l, n) /\ Below(l, n) \subseteq DOMAIN l.drawn
  <2>1. \A p \in DOMAIN next : Below(l, next[p]) \subseteq Below(l, n)
    BY ShownChildren
  <2> QED
    BY <1>3, <2>1 DEF Below
<1> HIDE DEF n, next, u
<1>7. CASE res = NoPtr
  <2> SUFFICES ASSUME NEW i \in Below(l, n) PROVE i \in ps
    BY <1>7 DEF RightBelow, n
  <2>1. PICK p \in DOMAIN next : i \in Below(l, next[p])
    BY <1>1
  <2>2. p < u \/ p = u
    BY <1>4, <1>5, <1>7
  <2> QED
    BY <1>3, <1>7, <2>1, <2>2 DEF RightBelow
<1>8. CASE res # NoPtr
  <2>1. /\ res \in DOMAIN w /\ w[res] > 0
        /\ \E j \in Below(l, next[u]) : l.drawn[j].queue = res
        /\ \A i \in Below(l, next[u]) :
              i \in ps \/ \E j \in Below(l, next[u]) : j <= i /\ l.drawn[j].queue = res
    BY <1>3, <1>8 DEF RightBelow
  <2>2. PICK j \in Below(l, next[u]) : l.drawn[j].queue = res
    BY <2>1
  <2>3. ASSUME NEW i \in Below(l, n)
        PROVE  i \in ps \/ \E h \in Below(l, n) : h <= i /\ l.drawn[h].queue = res
    <3>1. PICK p \in DOMAIN next : i \in Below(l, next[p])
      BY <1>1
    <3>2. CASE p < u
      BY <1>3, <3>1, <3>2
    <3>3. CASE p = u
      BY <1>6, <2>1, <3>1, <3>3
    <3>4. CASE u < p
      <4>1. j < i
        BY <1>1, <1>3, <2>2, <3>1, <3>4
      <4>2. j \in Below(l, n) /\ j \in Nat /\ i \in Nat
        BY <1>6, <2>2
      <4> QED
        BY <2>2, <4>1, <4>2
    <3> QED
      BY <1>4, <3>2, <3>3, <3>4
  <2>4. \E h \in Below(l, n) : l.drawn[h].queue = res
    BY <1>6, <2>2
  <2> QED
    BY <1>8, <2>1, <2>3, <2>4 DEF RightBelow, n
<1> QED
  BY <1>7, <1>8

LEMMA ServesNotWalking ==
    ASSUME walk' \in {"init", "idle"}
    PROVE  ServeInv'
  BY DEF ServeInv

LEMMA ServesStart ==
    ASSUME TreeInv, BuiltInv, TreeReady \/ xNetworkQueueSchedule
    PROVE  BuiltInv' /\ ServeInv'
<1>1. CASE TreeReady
  <2>1. /\ layout' = layout /\ callNo' = callNo /\ nodes' = nodes /\ root' = root
        /\ waiting' = waiting /\ walk' = "idle"
    BY <1>1 DEF TreeReady
  <2> QED
    BY <2>1, ServesNotWalking DEF BuiltInv
<1>2. CASE xNetworkQueueSchedule
  <2>1. /\ layout' = layout /\ callNo' = callNo /\ nodes' = nodes /\ root' = root
        /\ waiting' = waiting /\ walk # "init" /\ frames' = <<>> /\ arg' = root
        /\ walk' = IF root # NoPtr THEN "call" ELSE "return"
    BY <1>2 DEF xNetworkQueueSchedule
  <2>2. root # NoPtr
    BY <2>1, InWalk
  <2>3. Chained(layout, nodes, root, <<>>, Passed') /\ CalledLast(nodes, root, <<>>) = root
    BY DEF Chained, CalledLast
  <2>4. ServeInv'
    BY <2>1, <2>2, <2>3 DEF ServeInv
  <2> QED
    BY <2>1, <2>4 DEF BuiltInv
<1> QED
  BY <1>1, <1>2

LEMMA ServesInsertion ==
    ASSUME TreeInv, BuiltInv, ServeInv, NEW name, NEW e, InsertPacketByName(name, e)
    PROVE  BuiltInv' /\ ServeInv'
<1> DEFINE q == pxNetworkQueueFindByName(name, e)
<1>1. /\ layout' = layout /\ callNo' = callNo /\ nodes' = nodes /\ root' = root
      /\ walk # "init" /\ walk' = walk /\ frames' = frames /\ arg' = arg
      /\ result' = result /\ blocked' = blocked
      /\ waiting' = [waiting EXCEPT ![q] = waiting[q] + 1]
      /\ fresh' = fresh \cup {q}
  BY DEF InsertPacketByName
<1> HIDE DEF q
<1>2. /\ QueuesFrom(waiting, layout, callNo)
      /\ \A i \in DOMAIN layout.drawn : layout.drawn[i].queue \in DOMAIN waiting
  BY <1>1, InWalk DEF BuiltInv
<1>3. /\ QueuesFrom(waiting', layout, callNo)
      /\ PassedOver(layout, waiting, fresh, blocked)
            \subseteq PassedOver(layout, waiting', fresh \cup {q}, blocked)
      /\ \A x \in DOMAIN waiting :
            x \in DOMAIN waiting' /\ (waiting[x] > 0 => waiting'[x] > 0)
  BY <1>1, <1>2, MoreWaiting
<1>4. Passed \subseteq Passed'
  BY <1>1, <1>3 DEF Passed
<1>5. walk \in {"call", "return"} => Chained(layout, nodes, root, frames, Passed')
  BY <1>4, PassedMore DEF ServeInv
<1>6. walk = "return" =>
         RightBelow(layout, waiting', CalledLast(nodes, root, frames), result, Passed')
  BY <1>3, <1>4, StillRight DEF ServeInv
<1>7. ServeInv'
  BY <1>1, <1>5, <1>6 DEF ServeInv
<1>8. BuiltInv'
  BY <1>1, <1>3 DEF BuiltInv
<1> QED
  BY <1>7, <1>8

LEMMA ServesNotReady ==
    ASSUME TreeInv, BuiltInv, ServeInv, SchedulerNotReady
    PROVE  BuiltInv' /\ ServeInv'
<1>1. /\ layout' = layout /\ callNo' = callNo /\ nodes' = nodes /\ root' = root
      /\ waiting' = waiting /\ walk = "call" /\ walk' = "return" /\ frames' = frames
      /\ result' = NoPtr /\ fresh' = fresh /\ blocked' = blocked \cup {arg}
  BY DEF SchedulerNotReady, Return, Walking
<1>2. Passed \subseteq Passed' /\ Below(layout, arg) \subseteq Passed'
  BY <1>1 DEF Passed, PassedOver, Below
<1>3. Chained(layout, nodes, root, frames, Passed')
  BY <1>1, <1>2, PassedMore DEF ServeInv
<1>4. RightBelow(layout, waiting, CalledLast(nodes, root, frames), NoPtr, Passed')
  BY <1>1, <1>2 DEF ServeInv, RightBelow
<1>5. ServeInv'
  BY <1>1, <1>3, <1>4 DEF ServeInv
<1> QED
  BY <1>1, <1>5 DEF BuiltInv

LEMMA ServesLeaf ==
    ASSUME TreeInv, BuiltInv, ServeInv, SchedulerLeaf
    PROVE  BuiltInv' /\ ServeInv'
<1> DEFINE q == nodes[arg].pxQueue
<1>1. /\ layout' = layout /\ callNo' = callNo /\ nodes' = nodes /\ root' = root
      /\ waiting' = waiting /\ walk = "call" /\ walk' = "return" /\ frames' = frames
      /\ fresh' = fresh /\ blocked' = blocked /\ q # NoPtr
      /\ result' = IF waiting[q] > 0 THEN q ELSE NoPtr
  BY DEF SchedulerLeaf, Return, Walking
<1>2. arg \in DOMAIN nodes /\ arg = CalledLast(nodes, root, frames)
  BY <1>1 DEF TreeInv, WalkInv, ServeInv
<1>3. /\ CorrectlyLinked(layout) /\ AsDrawn(layout)
      /\ LinksFrom(nodes, layout, Len(layout.calls) + 1)
      /\ QueuesFrom(waiting, layout, Len(layout.calls) + 1)
      /\ \A i \in DOMAIN layout.drawn : layout.drawn[i].queue \in DOMAIN waiting
      /\ \A i \in DOMAIN layout.drawn : i \in Nat \ {0}
  BY <1>1, InWalk
<1>4. /\ Below(layout, arg) # {}
      /\ \A i \in Below(layout, arg) : layout.drawn[i].queue = q
  BY <1>1, <1>2, <1>3, ShownQueue
<1>5. Passed' = Passed
  BY <1>1 DEF Passed
<1>6. Chained(layout, nodes, root, frames, Passed)
  BY <1>1 DEF ServeInv
<1>7. /\ \A i \in Below(layout, arg) : i \in DOMAIN layout.drawn /\ i <= i
      /\ q \in DOMAIN waiting /\ waiting[q] \in Nat
  BY <1>3, <1>4 DEF Below, QueuesFrom
<1> HIDE DEF q
<1>8. RightBelow(layout, waiting, arg, result', Passed)
  <2>1. CASE waiting[q] > 0
    BY <1>1, <1>4, <1>7, <2>1 DEF RightBelow
  <2>2. CASE ~(waiting[q] > 0)
    <3>1. waiting[q] = 0 /\ result' = NoPtr
      BY <1>1, <1>7, <2>2
    <3>2. Below(layout, arg) \subseteq Passed
      BY <1>4, <1>7, <3>1 DEF Passed, PassedOver
    <3> QED
      BY <3>1, <3>2 DEF RightBelow
  <2> QED
    BY <2>1, <2>2
<1>9. ServeInv'
  BY <1>1, <1>2, <1>5, <1>6, <1>8 DEF ServeInv
<1> QED
  BY <1>1, <1>9 DEF BuiltInv

LEMMA ServesSelect ==
    ASSUME TreeInv, BuiltInv, ServeInv, SchedulerSelect
    PROVE  BuiltInv' /\ ServeInv'
<1>1. /\ layout' = layout /\ callNo' = callNo /\ nodes' = nodes /\ root' = root
      /\ waiting' = waiting /\ walk = "call" /\ nodes[arg].pxQueue = NoPtr
      /\ fresh' = fresh /\ blocked' = blocked
  BY DEF SchedulerSelect, Walking
<1>2. /\ arg \in DOMAIN nodes /\ arg = CalledLast(nodes, root, frames)
      /\ frames \in Seq([pxNode : DOMAIN nodes, usIter : Nat])
      /\ Chained(layout, nodes, root, frames, Passed) /\ root # NoPtr
  BY <1>1 DEF TreeInv, WalkInv, ServeInv
<1> SelectsFirst
  BY <1>1, <1>2, TreeComplete DEF SchedulerSelect, PeeksNullQueue
<1>3. /\ CorrectlyLinked(layout) /\ AsDrawn(layout)
      /\ NodesInv(nodes, layout, Len(layout.calls) + 1)
      /\ LinksFrom(nodes, layout, Len(layout.calls) + 1)
  BY <1>1, InWalk
<1>4. /\ \A i \in Below(layout, arg) :
            \E p \in DOMAIN nodes[arg].pxNext : i \in Below(layout, nodes[arg].pxNext[p])
      /\ \E m \in Nat : DOMAIN nodes[arg].pxNext = 0..(m - 1)
  BY <1>1, <1>2, <1>3, ShownChildren
<1>5. Passed' = Passed
  BY <1>1 DEF Passed
<1>6. CASE nodes[arg].fnSelect = "prvPrioritySelect" /\ DOMAIN nodes[arg].pxNext = {}
  <2>1. walk' = "return" /\ result' = NoPtr /\ frames' = frames
    BY <1>6 DEF SelectsFirst, Return
  <2>2. RightBelow(layout, waiting, arg, NoPtr, Passed)
    BY <1>4, <1>6 DEF RightBelow
  <2>3. ServeInv'
    BY <1>1, <1>2, <1>5, <2>1, <2>2 DEF ServeInv
  <2> QED
    BY <1>1, <2>3 DEF BuiltInv
<1>7. CASE ~(nodes[arg].fnSelect = "prvPrioritySelect" /\ DOMAIN nodes[arg].pxNext = {})
  <2> DEFINE e == [pxNode |-> arg, usIter |-> 0]
  <2>1. walk' = "call" /\ arg' = nodes[arg].pxNext[0] /\ frames' = Append(frames, e)
    BY <1>7 DEF SelectsFirst, Call
  <2>2. /\ e \in [pxNode : DOMAIN nodes, usIter : Nat]
        /\ e.pxNode = arg /\ e.usIter = 0
    BY <1>2
  <2>3. 0 \in DOMAIN nodes[arg].pxNext
    BY <1>1, <1>2, <1>7, TreeComplete
  <2>4. \A p \in DOMAIN nodes[arg].pxNext : ~(p < 0)
    BY <1>4
  <2> HIDE DEF e
  <2>5. Tried(layout, nodes, e, Passed) /\ ChildCalled(nodes, e) = arg'
    BY <2>1, <2>2, <2>3, <2>4 DEF Tried, ChildCalled
  <2>6. /\ Chained(layout, nodes, root, frames', Passed)
        /\ CalledLast(nodes, root, frames') = arg'
    <3>1. Extends(frames', frames, e)
      BY <1>2, <2>1, <2>2, AppendExtends
    <3> QED
      BY <1>2, <2>2, <2>5, <3>1, ChainPushed
  <2>7. ServeInv'
    BY <1>1, <1>2, <1>5, <2>1, <2>6 DEF ServeInv
  <2> QED
    BY <1>1, <2>7 DEF BuiltInv
<1> QED
  BY <1>6, <1>7

LEMMA ServesResume ==
    ASSUME TreeInv, BuiltInv, ServeInv, SelectResumes
    PROVE  BuiltInv' /\ ServeInv'
<1> DEFINE F == [pxNode : DOMAIN nodes, usIter : Nat]
<1>1. /\ layout' = layout /\ callNo' = callNo /\ nodes' = nodes /\ root' = root
      /\ waiting' = waiting /\ walk = "return" /\ frames # <<>>
      /\ fresh' = fresh /\ blocked' = blocked
  BY DEF SelectResumes, Walking
<1>2. /\ frames \in Seq(F)
      /\ \A k \in 1..Len(frames) : nodes[frames[k].pxNode].pxQueue = NoPtr
      /\ Chained(layout, nodes, root, frames, Passed) /\ root # NoPtr
      /\ RightBelow(layout, waiting, CalledLast(nodes, root, frames), result, Passed)
  BY <1>1 DEF TreeInv, WalkInv, ServeInv
<1>3. /\ Top.pxNode \in DOMAIN nodes /\ Top.usIter \in Nat /\ Top \in F
      /\ nodes[Top.pxNode].pxQueue = NoPtr
  BY <1>1, <1>2, Popped DEF Top
<1>4. /\ \A e \in F : [e EXCEPT !.usIter = e.usIter + 1] \in F
      /\ \A e \in F : /\ [e EXCEPT !.usIter = e.usIter + 1].pxNode = e.pxNode
                      /\ [e EXCEPT !.usIter = e.usIter + 1].usIter = e.usIter + 1
  OBVIOUS
<1> HIDE DEF F
<1>5. Pop \in Seq(F) /\ IsFront(Pop, frames)
  BY <1>1, <1>2, Front, PopIsFront DEF Pop
<1>6. /\ Chained(layout, nodes, root, Pop, Passed)
      /\ Top.pxNode = CalledLast(nodes, root, Pop)
      /\ Tried(layout, nodes, Top, Passed)
      /\ CalledLast(nodes, root, frames) = ChildCalled(nodes, Top)
  BY <1>2, <1>5, ChainPopped DEF Top
<1>7. /\ CorrectlyLinked(layout) /\ AsDrawn(layout)
      /\ NodesInv(nodes, layout, Len(layout.calls) + 1)
      /\ LinksFrom(nodes, layout, Len(layout.calls) + 1)
      /\ \A i \in DOMAIN layout.drawn : i \in Nat \ {0}
  BY <1>1, InWalk
<1>8. Passed' = Passed
  BY <1>1 DEF Passed
<1>9. CASE TriesNext(result)
  <2> DEFINE e == [Top EXCEPT !.usIter = Top.usIter + 1]
  <2>1. /\ walk' = "call" /\ arg' = nodes[Top.pxNode].pxNext[Top.usIter + 1]
        /\ frames' = Append(Pop, e)
        /\ result = NoPtr /\ Top.usIter + 1 \in DOMAIN nodes[Top.pxNode].pxNext
    BY <1>9 DEF SelectResumes, Call, TriesNext
  <2>2. e \in F /\ e.pxNode = Top.pxNode /\ e.usIter = Top.usIter + 1
    BY <1>3, <1>4
  <2>3. \E m \in Nat : DOMAIN nodes[Top.pxNode].pxNext = 0..(m - 1)
    BY <1>3, <1>7, ShownChildren
  <2>4. \A p \in DOMAIN nodes[Top.pxNode].pxNext :
           p < Top.usIter + 1 => p < Top.usIter \/ p = Top.usIter
    BY <1>3, <2>3
  <2>5. Below(layout, nodes[Top.pxNode].pxNext[Top.usIter]) \subseteq Passed
    BY <1>2, <1>6, <2>1 DEF RightBelow, ChildCalled
  <2> HIDE DEF e
  <2>6. Tried(layout, nodes, e, Passed) /\ ChildCalled(nodes, e) = arg'
    BY <1>6, <2>1, <2>2, <2>4, <2>5 DEF Tried, ChildCalled
  <2>7. /\ Chained(layout, nodes, root, frames', Passed)
        /\ CalledLast(nodes, root, frames') = arg'
    <3>1. Extends(frames', Pop, e)
      BY <1>5, <2>1, <2>2, AppendExtends
    <3> QED
      BY <1>6, <2>2, <2>6, <3>1, ChainPushed
  <2>8. ServeInv'
    BY <1>1, <1>2, <1>8, <2>1, <2>7 DEF ServeInv
  <2> QED
    BY <1>1, <2>8 DEF BuiltInv
<1>10. CASE ~TriesNext(result)
  <2>1. frames' = Pop /\ walk' = walk /\ result' = result
    BY <1>10 DEF SelectResumes
  <2>2. \/ result # NoPtr
        \/ nodes[Top.pxNode].fnSelect # "prvPrioritySelect"
        \/ Top.usIter + 1 \notin DOMAIN nodes[Top.pxNode].pxNext
    BY <1>10 DEF TriesNext
  <2>3. RightBelow(layout, waiting, Top.pxNode, result, Passed)
    BY <1>2, <1>3, <1>6, <1>7, <2>2, RightAbove
  <2>4. ServeInv'
    BY <1>1, <1>2, <1>6, <1>8, <2>1, <2>3 DEF ServeInv
  <2> QED
    BY <1>1, <2>4 DEF BuiltInv
<1> QED
  BY <1>9, <1>10

LEMMA ServesPop ==
    ASSUME TreeInv, BuiltInv, ServeInv, ControllerPops
    PROVE  BuiltInv' /\ ServeInv'
<1>1. /\ layout' = layout /\ callNo' = callNo /\ nodes' = nodes /\ root' = root
      /\ walk = "return" /\ walk' = "idle"
      /\ waiting' = IF result = NoPtr THEN waiting
                    ELSE [waiting EXCEPT ![result] = waiting[result] - 1]
  BY DEF ControllerPops
<1>2. result # NoPtr => result \in DOMAIN waiting /\ waiting[result] > 0
  BY <1>1 DEF ServeInv, RightBelow
<1>3. QueuesFrom(waiting, layout, callNo)
  BY DEF BuiltInv
<1>4. QueuesFrom(waiting', layout, callNo)
  <2>1. CASE result = NoPtr
    BY <1>1, <1>3, <2>1
  <2>2. CASE result # NoPtr
    <3>1. /\ DOMAIN waiting' = DOMAIN waiting
          /\ waiting' = [q \in DOMAIN waiting' |-> waiting'[q]]
          /\ \A q \in DOMAIN waiting : waiting[q] \in Nat
      BY <1>1, <1>3, <2>2 DEF QueuesFrom
    <3>2. \A q \in DOMAIN waiting' : waiting'[q] \in Nat
      BY <1>1, <1>2, <2>2, <3>1
    <3> QED
      BY <1>3, <3>1, <3>2, Zenon DEF QueuesFrom
  <2> QED
    BY <2>1, <2>2
<1> QED
  BY <1>1, <1>4, ServesNotWalking DEF BuiltInv

LEMMA ServesInit == ASSUME TreeInit PROVE BuiltInv /\ ServeInv
  BY DEF TreeInit, BuiltInv, LinksFrom, RootFrom, QueuesFrom, ServeInv

LEMMA ServesStep ==
    ASSUME TreeInv, BuiltInv, ServeInv, [TreeNext]_treeVars
    PROVE  BuiltInv' /\ ServeInv'
<1>1. CASE pxNetworkQueueCreate
  BY <1>1, BuiltQueue
<1>2. CASE pxNetworkNodeCreateFIFO \/ pxNetworkNodeCreateCBS \/ pxNetworkNodeCreatePrio
  BY <1>2, BuiltCreations
<1>3. CASE xNetworkSchedulerLinkQueue \/ xNetworkSchedulerLinkChild
  BY <1>3, BuiltLinks
<1>4. CASE xNetworkQueueAssignRoot
  BY <1>4, BuiltRoot
<1>5. CASE TreeReady \/ xNetworkQueueSchedule
  BY <1>5, ServesStart
<1>6. ASSUME NEW i \in DOMAIN queueList, NEW e, InsertPacketByName(queueList[i].cName, e)
      PROVE  BuiltInv' /\ ServeInv'
  BY <1>6, ServesInsertion
<1>7. CASE SchedulerNotReady
  BY <1>7, ServesNotReady
<1>8. CASE SchedulerLeaf
  BY <1>8, ServesLeaf
<1>9. CASE SchedulerSelect
  BY <1>9, ServesSelect
<1>10. CASE SelectResumes
  BY <1>10, ServesResume
<1>11. CASE ControllerPops
  BY <1>11, ServesPop
<1>12. CASE UNCHANGED treeVars
  <2>1. /\ layout' = layout /\ callNo' = callNo /\ nodes' = nodes /\ root' = root
        /\ waiting' = waiting /\ walk' = walk /\ frames' = frames /\ arg' = arg
        /\ result' = result /\ fresh' = fresh /\ blocked' = blocked
    BY <1>12 DEF treeVars
  <2>2. Passed' = Passed
    BY <2>1 DEF Passed
  <2> QED
    BY <2>1, <2>2 DEF BuiltInv, ServeInv
<1> QED
  BY <1>1, <1>2, <1>3, <1>4, <1>5, <1>6, <1>7, <1>8, <1>9, <1>10, <1>11, <1>12
     DEF TreeNext

(***************************************************************************)
(* Whatever the shape of the tree, as long as it obeys the rules of the    *)
(* template (CorrectlyLinked) and is linked as drawn (AsDrawn), and        *)
(* however insertions of packets interleave with the walk of               *)
(* xNetworkQueueSchedule(), the queue it selects is right for the drawing  *)
(* ("Schema of the desired layout", NetworkQueueExample.c:52), and holds a *)
(* packet for the controller to pop.                                       *)
(***************************************************************************)
THEOREM TreeServesAsDrawn == TreeSpec => []ServesAsDrawn
<1> DEFINE Inv == TreeInv /\ BuiltInv /\ ServeInv
<1>1. TreeInit => Inv
  BY TreeInitInv, ServesInit
<1>2. Inv /\ [TreeNext]_treeVars => Inv'
  BY TreeStep, ServesStep
<1>3. Inv => ServesAsDrawn
  <2> SUFFICES ASSUME Inv, walk = "return", frames = <<>>
               PROVE  /\ result # NoPtr => waiting[result] > 0
                      /\ \A i \in DOMAIN layout.drawn :
                            LET q == layout.drawn[i].queue IN
                            \/ \E j \in 1..i : layout.drawn[j].queue = result
                            \/ waiting[q] = 0
                            \/ q \in fresh
                            \/ layout.drawn[i].above \cap blocked # {}
    BY DEF ServesAsDrawn
  <2>1. RightBelow(layout, waiting, root, result, Passed)
    BY DEF ServeInv, CalledLast
  <2>2. /\ Below(layout, root) = DOMAIN layout.drawn
        /\ \A i \in DOMAIN layout.drawn : i \in Nat \ {0}
    BY InWalk
  <2>3. \A i \in DOMAIN layout.drawn :
           i \in Passed
           \/ \E j \in DOMAIN layout.drawn : j <= i /\ layout.drawn[j].queue = result
    BY <2>1, <2>2 DEF RightBelow
  <2>4. \A i, j \in DOMAIN layout.drawn : j <= i => j \in 1..i
    BY <2>2
  <2>5. result # NoPtr => waiting[result] > 0
    BY <2>1 DEF RightBelow
  <2> QED
    BY <2>3, <2>4, <2>5 DEF Passed, PassedOver
<1> QED
  BY <1>1, <1>2, <1>3, PTL DEF TreeSpec
=============================================================================

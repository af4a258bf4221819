----------------------------- MODULE Datagrams -----------------------------
(***************************************************************************)
(* The lengths of a datagram: how sendto() lays it out in a network buffer *)
(* (prvPrepareBufferUDPv4()), and what recvmsg() and recvfrom() hand to a  *)
(* user's buffers of any size (prvMoveToStartOfPayload()); all in          *)
(* FreeRTOS_TSN_Sockets.c.  A frame is the lengths in its headers and the  *)
(* number of its bytes; its way between two hosts is free of errors.       *)
(***************************************************************************)
EXTENDS Integers

CONSTANTS
    PayloadLengths,   \* uxTotalDataLength
    BufferSizes,      \* iov_len of a user, uxBufferLength
    MTU               \* ipconfigNETWORK_MTU

\* An Ethernet frame carries at least 46 bytes, and an IP packet no more than
\* its header can say.
ASSUME DatagramsAssumption ==
    /\ PayloadLengths \subseteq Nat
    /\ BufferSizes \subseteq Nat
    /\ MTU \in 46..65535

ETHHeader == 14
UDPHeader == 8
IPHeader(family) == IF family = "IPv4" THEN 20 ELSE 40
MinimumPacket == 60        \* ipconfigETHERNET_MINIMUM_PACKET_BYTES

TagSize == 4
uint16(n) == n % 65536

Smaller(a, b) == IF a < b THEN a ELSE b
Larger(a, b) == IF a < b THEN b ELSE a

VARIABLES
    wire,   \* the frame under way
    user    \* the last receive: the first byte copied, their number, the
            \* user's elements and their size, and the frame it came from

dgramVars == <<wire, user>>

Nothing == [len |-> 0]

DatagramsInit ==
    /\ wire = Nothing
    /\ user = Nothing

PayloadOffset(family) == ETHHeader + IPHeader(family) + UDPHeader

\* Mutant of prvPrepareBufferUDPv4: the tags are taken for payload.
PrepareCountsTags(data, tags, xDataLength) ==
    LET uxPayloadSize == xDataLength - PayloadOffset("IPv4")
    IN  [ family |-> "IPv4", proto |-> "UDP", to |-> "peer",
          data |-> data, tags |-> tags,
          ip |-> uint16(uxPayloadSize + IPHeader("IPv4") + UDPHeader),
          udp |-> uint16(uxPayloadSize + UDPHeader),
          len |-> Larger(xDataLength, MinimumPacket) ]

\* The length of the payload is computed back from that of the frame.
prvPrepareBufferUDPv4(data, tags, xDataLength) ==
    LET uxVLANOffset == TagSize * tags
        uxPayloadSize == xDataLength - PayloadOffset("IPv4") - uxVLANOffset
    IN  [ family |-> "IPv4", proto |-> "UDP", to |-> "peer",
          data |-> data, tags |-> tags,
          ip |-> uint16(uxPayloadSize + IPHeader("IPv4") + UDPHeader),
          udp |-> uint16(uxPayloadSize + UDPHeader),
          len |-> Larger(xDataLength, MinimumPacket) ]

MaxPayload(family) == MTU - (IPHeader(family) + UDPHeader)

\* Of a socket with tags of its own.  Without the address in the ARP cache,
\* with an IPv6 address or more tags than there are, the buffer is released;
\* with a payload too long too, once the headers have been written.
sendto(family, data, tags, cached) ==
    /\ wire = Nothing
    /\ LET uxPayloadOffset == PayloadOffset(family) + TagSize * tags
           prepared == prvPrepareBufferUDPv4(data, tags, data + uxPayloadOffset)
       IN  wire' = IF family = "IPv4" /\ cached /\ tags <= 2 /\ data <= MaxPayload(family)
                     THEN prepared ELSE Nothing
    /\ UNCHANGED user

\* Another host receives the frame (external).
PeerReceives ==
    /\ wire # Nothing
    /\ wire.to = "peer"
    /\ wire' = Nothing
    /\ UNCHANGED user

\* A frame of another host (external): of either family, or a TCP segment for
\* a port with the number of the socket's.
FrameArrives(family, proto, data) ==
    /\ wire = Nothing
    /\ data <= MaxPayload(family)
    /\ wire' = [ family |-> family, proto |-> proto, to |-> "us",
                 data |-> data, tags |-> 0,
                 ip |-> data + UDPHeader + (IF family = "IPv4" THEN IPHeader(family) ELSE 0),
                 udp |-> data + UDPHeader,
                 len |-> Larger(data + PayloadOffset(family), MinimumPacket) ]
    /\ UNCHANGED user

\* Mutant of prvMoveToStartOfPayload: the UDP header is not skipped.
MoveToUDPHeader(f) ==
    IF f.proto = "UDP" THEN [at |-> PayloadOffset(f.family) - UDPHeader, size |-> f.udp]
                       ELSE [at |-> 0, size |-> f.len]

\* The length is that of the UDP header, which counts itself.  Anything but a
\* datagram is handed over raw.
prvMoveToStartOfPayload(f) ==
    IF f.proto = "UDP" THEN [at |-> PayloadOffset(f.family), size |-> f.udp]
                       ELSE [at |-> 0, size |-> f.len]

\* recvmsg() with one or more elements, of which only the first is used.
recvmsg(iovlen, size) ==
    /\ wire # Nothing
    /\ wire.to = "us"
    /\ LET src == prvMoveToStartOfPayload(wire)
           n == IF iovlen = 0 THEN 0 ELSE Smaller(size, src.size)
       IN  user' = [at |-> src.at, len |-> n, iovlen |-> iovlen, size |-> size, f |-> wire]
    /\ wire' = Nothing

recvfrom(size) == recvmsg(1, size)

DatagramsNext ==
    \/ \E family \in {"IPv4", "IPv6"}, data \in PayloadLengths :
          \/ \E tags \in 0..3, cached \in BOOLEAN : sendto(family, data, tags, cached)
          \/ \E proto \in {"UDP", "TCP"} : FrameArrives(family, proto, data)
    \/ PeerReceives
    \/ \E size \in BufferSizes : recvfrom(size) \/ \E n \in {0, 2} : recvmsg(n, size)

DatagramsSpec == DatagramsInit /\ [][DatagramsNext]_dgramVars
-----------------------------------------------------------------------------
(***************************************************************************)
(* A frame that sendto() let through is one that any host can read: though *)
(* the length of the payload is computed back from that of the frame and   *)
(* cut to 16 bits before the MTU is tested, the headers tell the payload   *)
(* that the user gave, the padding is outside it, and the frame keeps the  *)
(* MTU, whatever the tags (Sockets.c:135, 195-248, 658-699).               *)
(***************************************************************************)
LengthsAgree ==
    wire # Nothing =>
        /\ wire.udp - UDPHeader = wire.data
        /\ wire.family = "IPv4" => wire.ip - IPHeader("IPv4") = wire.udp
        /\ wire.len >= PayloadOffset(wire.family) + TagSize * wire.tags + wire.data
        /\ wire.len <= MTU + ETHHeader + TagSize * wire.tags

(***************************************************************************)
(* Whatever the size of the user's buffers, recvmsg() writes no more than  *)
(* they hold.  Into the first it copies, from the start of the payload,    *)
(* what fits of the payload and of the 8 bytes behind it: it takes the     *)
(* length of the UDP header, which counts itself, for "the length of the   *)
(* payload" that the comments promise (Sockets.c:299, 736, 930).  So it    *)
(* reads past the end of a frame, but by no more than these 8 bytes        *)
(* (Sockets.c:301-344, 869-888, 932-963).                                  *)
(***************************************************************************)
PayloadAndEight ==
    user # Nothing =>
        /\ user.len <= user.iovlen * user.size
        /\ user.at + user.len <= user.f.len + UDPHeader
        /\ user.f.proto = "UDP" /\ user.iovlen > 0 =>
             /\ user.at = PayloadOffset(user.f.family)
             /\ user.len = Smaller(user.size, user.f.data + UDPHeader)
=============================================================================

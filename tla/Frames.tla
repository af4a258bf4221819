------------------------------- MODULE Frames -------------------------------
(***************************************************************************)
(* What the layer does to the bytes of a frame: VLAN tags                  *)
(* (FreeRTOS_TSN_VLANTags.c and the network wrapper) and the class of      *)
(* service (FreeRTOS_TSN_DS.c).  A frame is the sequence of 16 bit words   *)
(* that follow the MAC addresses, in host order.  The history variables    *)
(* tags and rest are what a reader of IEEE 802.1Q should find in it;       *)
(* astray says which functions took it for what it is not.                 *)
(***************************************************************************)
EXTENDS Integers, Sequences

CONSTANTS
    Contents,   \* frames of the IP stack: type, first word of header, payload
    TCIs,       \* tag control information
    Classes     \* values of a uint8_t passed as a class

TPID_DEFAULT == 33024      \* 0x8100
TPID_DOUBLE_TAG == 34984   \* 0x88a8

Word == 0..65535           \* a uint16_t
Byte == 0..255             \* a uint8_t

\* The IP stack hands over and expects frames without tags, and every packet
\* has a network header.
ASSUME FramesAssumption ==
    /\ \A c \in Contents :
          /\ c \in Seq(Word)
          /\ Len(c) >= 2
          /\ c[1] \notin {TPID_DEFAULT, TPID_DOUBLE_TAG}
    /\ TCIs \subseteq Word
    /\ Classes \subseteq Byte

VARIABLES
    frame,      \* <<>> once the buffer has been released
    reach,      \* the words of its buffer that have been written
    tags, rest,
    astray,     \* "type": the class was set by the type of another packet,
                \* "count": more or fewer tags were stripped than it has
    fault       \* a NULL pointer was written through

frameVars == <<frame, reach, tags, rest, astray, fault>>

IPv4 == 2048
IPv6 == 34525
NoTag == 0                 \* a NULL struct xVLAN_TAG *

From(f, i) == SubSeq(f, i, Len(f))
Swap(x) == (x % 256) * 256 + (x \div 256)
-----------------------------------------------------------------------------
(***************************************************************************)
(* A reader of IEEE 802.1Q, for reference.                                 *)
(***************************************************************************)
NumTags(f) == CASE f[1] = TPID_DEFAULT -> 1
                [] f[1] = TPID_DOUBLE_TAG /\ f[3] = TPID_DEFAULT -> 2
                [] OTHER -> 0

TagsOf(f) == [i \in 1..NumTags(f) |-> <<f[2 * i - 1], f[2 * i]>>]
RestOf(f) == From(f, 2 * NumTags(f) + 1)

\* The six bits of the class in the word after the type of an IP packet.
ClassOf(r) == IF r[1] = IPv4 THEN (r[2] % 256) \div 4
                             ELSE (r[2] % 4096) \div 64

WithClass(r, v) ==
    LET c == v % 64
    IN  [r EXCEPT ![2] =
           IF r[1] = IPv4 THEN (@ \div 256) * 256 + 4 * c
           ELSE (@ \div 4096) * 4096 + 64 * c + (@ % 64)]
-----------------------------------------------------------------------------
(***************************************************************************)
(* VLAN tags.  The functions that look for a tag fall through every case   *)
(* to the default and never find one; what the setters would do with one   *)
(* is here nevertheless, on words that are not converted to host order.    *)
(***************************************************************************)
ucGetNumberOfTags(f) == CASE f[1] = TPID_DOUBLE_TAG -> 1
                          [] f[1] = TPID_DEFAULT    -> 2
                          [] OTHER                  -> 0

\* prvGetVLANSTag() and prvGetVLANCTag(), as an index in the frame.
prvGetVLANTag(which, num) == NoTag

\* Writing a tag: the word of the TPID, then that of the TCI.
PutTag(f, at, tpid, tci) ==
    IF at = NoTag THEN f ELSE [f EXCEPT ![at] = tpid, ![at + 1] = tci]

\* prvPrepareAndGetVLANCTag() and ...STag(): the frame they leave and the tag
\* they return, which for a tagged frame is the C tag in both.
Prepared(f, which) ==
    LET num == ucGetNumberOfTags(f)
        s == prvGetVLANTag("S", 2)
        c == prvGetVLANTag("C", 2)
        single == prvGetVLANTag("C", 1)
    IN  CASE which = "C" /\ num = 0 ->
               [null |-> single = NoTag, at |-> single,
                f |-> PutTag(f, single, TPID_DEFAULT, 0)]
          [] which = "S" /\ num = 0 ->
               [null |-> s = NoTag \/ c = NoTag, at |-> s,
                f |-> PutTag(PutTag(f, s, TPID_DOUBLE_TAG, 0),
                             c, TPID_DEFAULT, 0)]
          [] which = "S" /\ num = 1 ->
               [null |-> s = NoTag \/ c = NoTag, at |-> c,
                f |-> PutTag(PutTag(f, c, TPID_DEFAULT, f[s + 1]),
                             s, TPID_DOUBLE_TAG, 0)]
          [] OTHER -> [null |-> FALSE, at |-> c, f |-> f]

\* vlantagSET_PCP_FROM_TCI() and its two sisters; the DEI is always cleared.
SetField(tci, field, v) ==
    CASE field = "PCP" -> (tci % 8192) + (v % 8) * 8192
      [] field = "DEI" -> (tci \div 8192) * 8192 + (tci % 4096)
      [] OTHER         -> (tci \div 4096) * 4096 + (v % 4096)

\* Mutant of prvInsertVLANTag: the type is overwritten, not moved.
InsertOverType(f, tci, tpid) == <<tpid, tci>> \o Tail(f)

\* pxResizeNetworkBufferWithDescriptor(), of FreeRTOS+TCP, keeps the
\* descriptor, which is the one the wrapper then sends.
prvInsertVLANTag(f, tci, tpid) == <<tpid, tci>> \o f

TagWords == 2              \* uxTagSize

\* How far memmove() writes when the tag has been inserted before f: it moves
\* the length of the resized frame, which has the tag in it already.
Moved(f) == TagWords + (Len(f) + TagWords)
-----------------------------------------------------------------------------
(***************************************************************************)
(* The class of service.  Of an untagged frame prvGetIPVersionAndOffset()  *)
(* does not set the type: it is whatever the stack holds.                  *)
(***************************************************************************)
HeaderAt(f) == CASE f[1] = TPID_DOUBLE_TAG -> 6
                 [] f[1] = TPID_DEFAULT    -> 4
                 [] OTHER                  -> 2

prvGetIPVersion(f, garbage) == IF HeaderAt(f) = 2 THEN garbage
                               ELSE f[HeaderAt(f) - 1]

\* Mutant of GET_DSCLASS: the flow label is not shifted out.
GetClassLow(type, word) ==
    CASE type = IPv4 -> (word % 256) \div 4
      [] type = IPv6 -> word % 64
      [] OTHER       -> 255

GET_DSCLASS(type, word) ==
    CASE type = IPv4 -> (word % 256) \div 4
      [] type = IPv6 -> ((word \div 256) % 16) * 4 + ((word % 256) \div 64)
      [] OTHER       -> 255

\* A uint8_t takes the low byte of the shifted class.
SET_DSCLASS(type, word, v) ==
    CASE type = IPv4 -> (word \div 256) * 256 + ((v * 4) % 256)
      [] type = IPv6 -> (word \div 4096) * 4096 + ((v % 64) \div 4) * 256
                          + (v % 4) * 64 + (word % 64)
      [] OTHER       -> word

\* To the functions of the class all types but those of IP are one.
SameType(t, u) == t = u \/ {t, u} \cap {IPv4, IPv6} = {}

ucDSClassGet(f, garbage) ==
    GET_DSCLASS(prvGetIPVersion(f, garbage), f[HeaderAt(f)])
-----------------------------------------------------------------------------
FramesInit ==
    /\ rest \in Contents
    /\ frame = rest
    /\ reach = Len(frame)
    /\ tags = <<>>
    /\ astray = {}
    /\ fault = FALSE

InUse == frame # <<>> /\ "count" \notin astray /\ ~fault

\* The wrapper's output, for an interface with num tags; the room for the
\* tag that fails may be missing, and the buffer is released then.
OutputInsertsTags(num, ctag, stag, fails) ==
    /\ InUse
    /\ tags = <<>>
    /\ LET single == prvInsertVLANTag(frame, ctag, TPID_DEFAULT)
           double == prvInsertVLANTag(single, stag, TPID_DOUBLE_TAG)
       IN  /\ frame' = IF fails \in 1..num THEN <<>>
                       ELSE CASE num = 0 -> frame
                              [] num = 1 -> single
                              [] num = 2 -> double
           /\ reach' = IF num = 0 \/ fails = 1 THEN reach
                       ELSE IF num = 1 \/ fails = 2 THEN Moved(frame)
                       ELSE Moved(single)
    /\ tags' = CASE num = 0 -> <<>>
                 [] num = 1 -> << <<TPID_DEFAULT, ctag>> >>
                 [] num = 2 -> << <<TPID_DOUBLE_TAG, stag>>,
                                  <<TPID_DEFAULT, ctag>> >>
    /\ UNCHANGED <<rest, astray, fault>>

\* prvStripVLANTag(), on a frame received.
prvStripVLANTag ==
    /\ InUse
    /\ frame' = From(frame, TagWords * ucGetNumberOfTags(frame) + 1)
    /\ tags' = <<>>
    /\ astray' = IF ucGetNumberOfTags(frame) = NumTags(frame) THEN astray
                 ELSE astray \cup {"count"}
    /\ UNCHANGED <<reach, rest, fault>>

\* xVLANSTagSetPCP() and the five others.
xVLANTagSet(which, field, v) ==
    /\ InUse
    /\ LET p == Prepared(frame, which)
       IN  IF p.null THEN fault' = TRUE /\ UNCHANGED frame
           ELSE /\ frame' = IF p.at = NoTag THEN frame
                            ELSE [p.f EXCEPT ![p.at + 1] =
                                    Swap(SetField(Swap(@), field, v))]
                /\ UNCHANGED fault
    /\ UNCHANGED <<reach, tags, rest, astray>>

xDSClassSet(v, garbage) ==
    /\ InUse
    /\ LET type == prvGetIPVersion(frame, garbage)
       IN  /\ frame' = [frame EXCEPT ![HeaderAt(frame)] = SET_DSCLASS(type, @, v)]
           /\ astray' = IF SameType(type, rest[1]) THEN astray
                        ELSE astray \cup {"type"}
    /\ rest' = IF rest[1] \in {IPv4, IPv6} THEN WithClass(rest, v) ELSE rest
    /\ UNCHANGED <<reach, tags, fault>>

FramesNext ==
    \/ \E num \in 0..2, c, s \in TCIs, fails \in 0..2 :
          OutputInsertsTags(num, c, s, fails)
    \/ prvStripVLANTag
    \/ \E which \in {"S", "C"}, field \in {"PCP", "DEI", "VID"}, v \in TCIs :
          xVLANTagSet(which, field, v)
    \/ \E v \in Classes, garbage \in {0, IPv4, IPv6} : xDSClassSet(v, garbage)

FramesSpec == FramesInit /\ [][FramesNext]_frameVars
-----------------------------------------------------------------------------
(***************************************************************************)
(* Whatever is called in whatever order, a frame on the wire reads as the  *)
(* tags of its interface, the S tag before the C tag, and then the frame   *)
(* of the IP stack, of which only the class, and with it the ECN bits of   *)
(* IPv4, was changed (NetworkWrapper.c:70-97, 302-325, VLANTags.c:364-497, *)
(* DS.c:106-132).  Once the class was set before there were tags, by a     *)
(* type that was never read from the frame, the word of the class may hold *)
(* anything, and only that word.  Past the frame no more is written than   *)
(* the four bytes of one tag, whatever the number of tags.                 *)
(***************************************************************************)
FrameIntact ==
    frame # <<>> /\ "count" \notin astray =>
        /\ TagsOf(frame) = tags
        /\ RestOf(frame) = IF "type" \in astray
                             THEN [rest EXCEPT ![2] = RestOf(frame)[2]] ELSE rest
        /\ reach <= Len(frame) + TagWords

(***************************************************************************)
(* The class of service of a packet is found behind any number of tags,    *)
(* whatever the stack holds, and that of any other packet is invalid; of a *)
(* frame without tags it takes a stack that happens to hold the type       *)
(* (DS.c:24-95).                                                           *)
(***************************************************************************)
ClassFound ==
    frame # <<>> /\ "count" \notin astray =>
        \A garbage \in {0, IPv4, IPv6} :
            tags # <<>> \/ SameType(garbage, rest[1]) =>
                ucDSClassGet(frame, garbage) =
                    IF rest[1] \in {IPv4, IPv6} THEN ClassOf(RestOf(frame)) ELSE 255
=============================================================================

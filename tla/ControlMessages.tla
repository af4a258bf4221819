-------------------------- MODULE ControlMessages --------------------------
(***************************************************************************)
(* The life of one message header (FreeRTOS_TSN_Ancillary.c): allocated    *)
(* for a received frame or a transmission stamp, given control messages, a *)
(* name and a payload, copied by recvmsg() to a user who walks the control *)
(* messages with the CMSG macros, and freed, or left behind by a caller    *)
(* that could not pass it on.  Any allocation may fail.                    *)
(***************************************************************************)
EXTENDS Integers, Sequences

CONSTANTS
    LongSize,    \* sizeof( long )
    HdrSize,     \* sizeof( struct cmsghdr )
    DataLens,    \* lengths of the data of a control message
    MaxMsgs,     \* bound on the control messages of a header
    UserSizes    \* the msg_controllen of users, 0 for no msg_control

ASSUME ControlAssumption ==
    /\ LongSize \in Nat /\ LongSize > 0
    /\ HdrSize \in Nat /\ HdrSize > 0
    /\ DataLens \subseteq Nat
    /\ MaxMsgs \in Nat
    /\ UserSizes \subseteq Nat

VARIABLES
    phase,            \* which step of its life the header is in
    kind,             \* what it is for: "Rx" or "Tx"
    lens,             \* puxDataLenVec
    heap,             \* blocks allocated and not freed
    fields,           \* the fields of the header that are not NULL
    msg_controllen,
    pxCmsghIter,      \* the iterator, or the header the user's walk is at
    plan,             \* history: the place the first loop reckons with
    cmsgs,            \* the place each message was written to
    copied,           \* bytes of control messages the user got
    found             \* the messages the user's walk has found

controlVars == <<phase, kind, lens, heap, fields, msg_controllen, pxCmsghIter, plan,
                 cmsgs, copied, found>>

NULL == -1

-----------------------------------------------------------------------------
(***************************************************************************)
(* The CMSG macros; pointers are offsets in the control buffer.            *)
(***************************************************************************)
CMSG_ALIGN(len) == ((len + LongSize - 1) \div LongSize) * LongSize

\* Mutant of CMSG_SPACE: the data is not padded.
SpaceUnpadded(len) == CMSG_ALIGN(HdrSize) + len

CMSG_SPACE(len) == CMSG_ALIGN(HdrSize) + CMSG_ALIGN(len)

CMSG_LEN(len) == CMSG_ALIGN(HdrSize) + len

CMSG_FIRSTHDR(size) == IF size >= HdrSize THEN 0 ELSE NULL

\* Mutant of CMSG_NXTHDR: a header must start, not end, inside the buffer.
NextStartsInside(size, at, len) ==
    LET ptr == at + CMSG_ALIGN(len)
    IN  IF ptr > size THEN NULL ELSE ptr

CMSG_NXTHDR(size, at, len) ==
    LET ptr == at + CMSG_ALIGN(len)
    IN  IF ptr + HdrSize > size THEN NULL ELSE ptr
-----------------------------------------------------------------------------
ControlInit ==
    /\ phase = "none" /\ kind = "Rx" /\ lens = <<>>
    /\ heap = {} /\ fields = {}
    /\ msg_controllen = 0 /\ pxCmsghIter = NULL
    /\ plan = <<>> /\ cmsgs = <<>> /\ copied = 0 /\ found = <<>>

Allocate(block) ==
    /\ heap' = heap \cup {block}
    /\ fields' = fields \cup {block}

\* Mutant of vAncillaryMsgFreeAll: the control messages are not freed.
FreeKeepsControl == heap' = heap \ ({"msghdr"} \cup (fields \ {"msg_control"}))

vAncillaryMsgFreeAll == heap' = heap \ ({"msghdr"} \cup fields)

vAncillaryMsgFree == heap' = heap \ {"msghdr"}

\* pxAncillaryMsgMalloc(), and the options that prvAncillaryMsgControlFillForRx()
\* or ForTx() collects; without any, a transmission needs no header.
pxAncillaryMsgMalloc(k, vec) ==
    /\ phase = "none"
    /\ kind' = k
    /\ lens' = vec
    /\ heap' = {"msghdr"}
    /\ phase' = IF vec # <<>> THEN "space"
                ELSE IF k = "Rx" THEN "name" ELSE "discard"
    /\ UNCHANGED <<fields, msg_controllen, pxCmsghIter, plan, cmsgs, copied, found>>

\* Without memory memset() writes to NULL: whether or not the task survives
\* it, there is no header.
HeaderMallocFails(k) ==
    /\ phase = "none"
    /\ kind' = k
    /\ phase' = "done"
    /\ UNCHANGED <<lens, heap, fields, msg_controllen, pxCmsghIter, plan, cmsgs,
                   copied, found>>

\* The first loop of xAncillaryMsgControlFill() adds up the space needed.
SpaceIterate ==
    /\ phase = "space"
    /\ Len(plan) < Len(lens)
    /\ plan' = Append(plan, msg_controllen)
    /\ msg_controllen' = msg_controllen + CMSG_SPACE(lens[Len(plan) + 1])
    /\ UNCHANGED <<phase, kind, lens, heap, fields, pxCmsghIter, cmsgs, copied, found>>

\* After xAncillaryMsgControlFill(): only a header for reception is used
\* when it failed.
Filled(ok) ==
    phase' = IF kind = "Rx" THEN "name" ELSE IF ok THEN "queued" ELSE "discard"

ControlMalloc(ok) ==
    /\ phase = "space"
    /\ Len(plan) = Len(lens)
    /\ IF ok
         THEN /\ Allocate("msg_control")
              /\ pxCmsghIter' = CMSG_FIRSTHDR(msg_controllen)
              /\ phase' = "fill"
              /\ UNCHANGED msg_controllen
         ELSE /\ msg_controllen' = 0
              /\ Filled(FALSE)
              /\ UNCHANGED <<heap, fields, pxCmsghIter>>
    /\ UNCHANGED <<kind, lens, plan, cmsgs, copied, found>>

\* The second loop writes a message, or gives up when there is no place.
FillIterate ==
    /\ phase = "fill"
    /\ Len(cmsgs) < Len(lens)
    /\ IF pxCmsghIter # NULL
         THEN /\ cmsgs' = Append(cmsgs, pxCmsghIter)
              /\ pxCmsghIter' = CMSG_NXTHDR(msg_controllen, pxCmsghIter,
                                     CMSG_LEN(lens[Len(cmsgs) + 1]))
              /\ UNCHANGED <<phase, heap, fields, msg_controllen>>
         ELSE /\ heap' = heap \ {"msg_control"}
              /\ fields' = fields \ {"msg_control"}
              /\ msg_controllen' = 0
              /\ Filled(FALSE)
              /\ UNCHANGED <<pxCmsghIter, cmsgs>>
    /\ UNCHANGED <<kind, lens, plan, copied, found>>

FillReturn ==
    /\ phase = "fill"
    /\ Len(cmsgs) = Len(lens)
    /\ Filled(TRUE)
    /\ UNCHANGED <<kind, lens, heap, fields, msg_controllen, pxCmsghIter, plan, cmsgs,
                   copied, found>>

\* xAncillaryMsgFillName() and xAncillaryMsgFillPayload(): the wrapper goes
\* on whether or not there was memory.
FillField(p, block, next, ok) ==
    /\ phase = p
    /\ IF ok THEN Allocate(block) ELSE UNCHANGED <<heap, fields>>
    /\ phase' = next
    /\ UNCHANGED <<kind, lens, msg_controllen, pxCmsghIter, plan, cmsgs, copied, found>>

xAncillaryMsgFillName(ok) == FillField("name", "msg_name", "payload", ok)
xAncillaryMsgFillPayload(ok) == FillField("payload", "msg_iov", "queued", ok)

\* What the callers do with the header; its fields are left alone.
Leaves(p) ==
    /\ phase' = p
    /\ UNCHANGED <<kind, lens, fields, msg_controllen, pxCmsghIter, plan, cmsgs,
                   copied, found>>

\* The output function frees the header of a stamp that could not be filled,
\* and no field of it.
FreeUnfilled ==
    /\ phase = "discard"
    /\ vAncillaryMsgFree
    /\ Leaves("done")

\* The controller finds a socket of FreeRTOS+TCP for the frame.
FreeForPlainSocket ==
    /\ phase = "queued" /\ kind = "Rx"
    /\ vAncillaryMsgFreeAll
    /\ Leaves("done")

\* Without memory for the item, without room for it in the network queue, or
\* without a socket any more for the frame, the header is left behind.
LeaveReceived ==
    /\ phase = "queued" /\ kind = "Rx"
    /\ heap' = heap
    /\ Leaves("leaked")

\* xSocketErrorQueueInsert() fails, which the output function does not check.
LeaveStamp ==
    /\ phase = "queued" /\ kind = "Tx"
    /\ heap' = heap
    /\ Leaves("leaked")

\* The controller dereferences the payload of a received frame.
DeliverNoPayload ==
    /\ phase = "queued" /\ kind = "Rx" /\ "msg_iov" \notin fields
    /\ heap' = heap
    /\ Leaves("fault")

\* recvmsg() copies what fits in the user's buffer and frees the header.
Receive(size) ==
    /\ phase = "queued"
    /\ kind = "Rx" => "msg_iov" \in fields
    /\ copied' = IF size = 0 \/ "msg_control" \notin fields THEN 0
                 ELSE IF size < msg_controllen THEN size ELSE msg_controllen
    /\ pxCmsghIter' = CMSG_FIRSTHDR(copied')
    /\ vAncillaryMsgFreeAll
    /\ phase' = "walk"
    /\ UNCHANGED <<kind, lens, fields, msg_controllen, plan, cmsgs, found>>

\* The user reads the message at pxCmsghIter.
WalkIterate(k) ==
    /\ phase = "walk"
    /\ pxCmsghIter # NULL
    /\ cmsgs[k] = pxCmsghIter
    /\ found' = Append(found, k)
    /\ pxCmsghIter' = CMSG_NXTHDR(copied, pxCmsghIter, CMSG_LEN(lens[k]))
    /\ UNCHANGED <<phase, kind, lens, heap, fields, msg_controllen, plan, cmsgs,
                   copied>>

ControlNext ==
    \/ \E k \in {"Rx", "Tx"}, m \in 0..MaxMsgs :
          \E vec \in [1..m -> DataLens] : pxAncillaryMsgMalloc(k, vec)
    \/ SpaceIterate
    \/ FillIterate
    \/ FillReturn
    \/ \E ok \in BOOLEAN : \/ ControlMalloc(ok)
                           \/ xAncillaryMsgFillName(ok)
                           \/ xAncillaryMsgFillPayload(ok)
    \/ \E k \in {"Rx", "Tx"} : HeaderMallocFails(k)
    \/ FreeUnfilled
    \/ FreeForPlainSocket
    \/ LeaveReceived
    \/ LeaveStamp
    \/ DeliverNoPayload
    \/ \E size \in UserSizes : Receive(size)
    \/ \E k \in DOMAIN cmsgs : WalkIterate(k)

ControlSpec == ControlInit /\ [][ControlNext]_controlVars
-----------------------------------------------------------------------------
(***************************************************************************)
(* The space the first loop adds up is what the second loop needs: no      *)
(* message is refused for lack of space, and each ends before the next one *)
(* and the end of the buffer (Ancillary.c:235-279).                        *)
(***************************************************************************)
FillFits ==
    /\ phase = "fill" /\ Len(cmsgs) < Len(lens) => pxCmsghIter # NULL
    /\ phase = "fill" => \A k \in DOMAIN cmsgs :
          cmsgs[k] + CMSG_LEN(lens[k]) <=
              IF k < Len(cmsgs) THEN cmsgs[k + 1] ELSE msg_controllen

(***************************************************************************)
(* Wherever recvmsg() cut the control messages off, the macros take the    *)
(* user from message to message in the order they were filled in, never to *)
(* a header that is not there or not copied whole, and past none: after    *)
(* the walk only messages whose header was cut off are missing             *)
(* (Ancillary.c:18-32, Ancillary.h:59-78).                                 *)
(***************************************************************************)
WalkFindsAll ==
    phase = "walk" =>
        /\ \A k \in DOMAIN found : found[k] = k
        /\ pxCmsghIter # NULL =>
             /\ Len(found) < Len(cmsgs)
             /\ cmsgs[Len(found) + 1] = pxCmsghIter
             /\ pxCmsghIter + HdrSize <= copied
        /\ pxCmsghIter = NULL /\ copied > 0 /\ Len(found) < Len(cmsgs) =>
             cmsgs[Len(found) + 1] + HdrSize > copied

(***************************************************************************)
(* Whichever allocations fail, every block allocated can be reached from   *)
(* the header as long as the header is in use, and each of the three       *)
(* callers that free it leaves no block behind, the one that frees the     *)
(* header alone included: it counts on the failed fill to have freed the   *)
(* control messages (Ancillary.c:74-92, 242-268, NetworkWrapper.c:352,     *)
(* Controller.c:207-210).  The callers that leave the header behind lose   *)
(* it whole.                                                               *)
(***************************************************************************)
FreedWhole ==
    heap = IF phase \in {"none", "walk", "done"} THEN {}
           ELSE {"msghdr"} \cup fields
=============================================================================

---------------------------- MODULE BoundSockets ----------------------------
(***************************************************************************)
(* xTSNBoundUDPSocketList (FreeRTOS_TSN_Sockets.c): tasks bind and close   *)
(* sockets, each assignment of vListInsertEnd() and uxListRemove() a step, *)
(* while the driver and the controller follow the pointers in              *)
(* vSocketFromPort().  Nothing locks the list.  Elsewhere in the project a *)
(* search is one step; this module shows what that step may return.        *)
(***************************************************************************)
EXTENDS Integers

CONSTANTS
    Sockets,   \* TSN sockets
    Ports,
    Tasks,     \* application tasks that bind and close
    Readers    \* tasks that look sockets up

ListEnd == "xListEnd"

ASSUME BoundSocketsAssumption == ListEnd \notin Sockets

VARIABLES
    pxNext, pxPrevious,   \* of the items, each named for its owner, and of
                          \* the end marker, which is also pxIndex
    xItemValue,           \* the port of each socket
    status,               \* of each socket
    call,                 \* the call each task is in, and its next assignment
    search                \* the walk of each reader

boundVars == <<pxNext, pxPrevious, xItemValue, status, call, search>>

NoCall == [fn |-> "none", s |-> ListEnd, step |-> 0]

\* at is pxIterator.  History: throughout are the sockets of the key that have
\* been bound since the walk began, gone those that were closed before.
NoSearch == [active |-> FALSE, at |-> ListEnd, key |-> 0, throughout |-> {}, gone |-> {}]

BoundInit ==
    /\ pxNext = [i \in Sockets \cup {ListEnd} |-> ListEnd]
    /\ pxPrevious = [i \in Sockets \cup {ListEnd} |-> ListEnd]
    /\ xItemValue = [s \in Sockets |-> 0]
    /\ status = [s \in Sockets |-> "new"]
    /\ call = [t \in Tasks |-> NoCall]
    /\ search = [r \in Readers |-> NoSearch]
-----------------------------------------------------------------------------
\* The base socket is bound, by the IP task, to a port that none holds; the
\* port of the item is set before it is listed.
FreeRTOS_TSN_bind(t, s, port) ==
    /\ call[t] = NoCall
    /\ status[s] = "new"
    /\ \A q \in Sockets : xItemValue[q] = port => status[q] = "closed"
    /\ status' = [status EXCEPT ![s] = "binding"]
    /\ xItemValue' = [xItemValue EXCEPT ![s] = port]
    /\ call' = [call EXCEPT ![t] = [fn |-> "vListInsertEnd", s |-> s, step |-> 1]]
    /\ UNCHANGED <<pxNext, pxPrevious, search>>

AtStep(t, fn, n) == call[t].fn = fn /\ call[t].step = n

StepOn(t) ==
    /\ call' = [call EXCEPT ![t].step = @ + 1]
    /\ UNCHANGED <<xItemValue, status, search>>

\* The four assignments of the kernel's vListInsertEnd() (external).
vListInsertEnd(t) ==
    LET s == call[t].s
    IN  \/ /\ AtStep(t, "vListInsertEnd", 1)
           /\ pxNext' = [pxNext EXCEPT ![s] = ListEnd]
           /\ StepOn(t)
           /\ UNCHANGED pxPrevious
        \/ /\ AtStep(t, "vListInsertEnd", 2)
           /\ pxPrevious' = [pxPrevious EXCEPT ![s] = pxPrevious[ListEnd]]
           /\ StepOn(t)
           /\ UNCHANGED pxNext
        \/ /\ AtStep(t, "vListInsertEnd", 3)
           /\ pxNext' = [pxNext EXCEPT ![pxPrevious[ListEnd]] = s]
           /\ StepOn(t)
           /\ UNCHANGED pxPrevious
        \/ /\ AtStep(t, "vListInsertEnd", 4)
           /\ pxPrevious' = [pxPrevious EXCEPT ![ListEnd] = s]
           /\ StepOn(t)
           /\ UNCHANGED pxNext

BindReturns(t) ==
    /\ AtStep(t, "vListInsertEnd", 5)
    /\ status' = [status EXCEPT ![call[t].s] = "bound"]
    /\ call' = [call EXCEPT ![t] = NoCall]
    /\ UNCHANGED <<pxNext, pxPrevious, xItemValue, search>>

FreeRTOS_TSN_closesocket(t, s) ==
    /\ call[t] = NoCall
    /\ status[s] = "bound"
    /\ status' = [status EXCEPT ![s] = "closing"]
    /\ search' = [r \in Readers |->
                    [search[r] EXCEPT !.throughout = @ \ {s}]]
    /\ call' = [call EXCEPT ![t] = [fn |-> "uxListRemove", s |-> s, step |-> 1]]
    /\ UNCHANGED <<pxNext, pxPrevious, xItemValue>>

\* The two assignments of uxListRemove() that matter (external).
uxListRemove(t) ==
    LET s == call[t].s
    IN  \/ /\ AtStep(t, "uxListRemove", 1)
           /\ pxPrevious' = [pxPrevious EXCEPT ![pxNext[s]] = pxPrevious[s]]
           /\ StepOn(t)
           /\ UNCHANGED pxNext
        \/ /\ AtStep(t, "uxListRemove", 2)
           /\ pxNext' = [pxNext EXCEPT ![pxPrevious[s]] = pxNext[s]]
           /\ StepOn(t)
           /\ UNCHANGED pxPrevious

\* Mutant of CloseReturns: the item is initialised again.
CloseResetsItem(t) ==
    /\ AtStep(t, "uxListRemove", 3)
    /\ status' = [status EXCEPT ![call[t].s] = "closed"]
    /\ call' = [call EXCEPT ![t] = NoCall]
    /\ pxNext' = [pxNext EXCEPT ![call[t].s] = ListEnd]
    /\ UNCHANGED <<pxPrevious, xItemValue, search>>

\* The TSN socket is neither freed nor changed.
CloseReturns(t) ==
    /\ AtStep(t, "uxListRemove", 3)
    /\ status' = [status EXCEPT ![call[t].s] = "closed"]
    /\ call' = [call EXCEPT ![t] = NoCall]
    /\ UNCHANGED <<pxNext, pxPrevious, xItemValue, search>>
-----------------------------------------------------------------------------
vSocketFromPort(r, key) ==
    /\ ~search[r].active
    /\ search' = [search EXCEPT ![r] =
         [ active |-> TRUE, at |-> pxNext[ListEnd], key |-> key,
           throughout |-> {s \in Sockets : status[s] = "bound" /\ xItemValue[s] = key},
           gone |-> {s \in Sockets : status[s] = "closed"} ]]
    /\ UNCHANGED <<pxNext, pxPrevious, xItemValue, status, call>>

KeyFound(r) == search[r].at # ListEnd /\ xItemValue[search[r].at] = search[r].key

LookFurther(r) ==
    /\ search[r].active
    /\ search[r].at # ListEnd
    /\ ~KeyFound(r)
    /\ search' = [search EXCEPT ![r].at = pxNext[@]]
    /\ UNCHANGED <<pxNext, pxPrevious, xItemValue, status, call>>

SearchReturns(r) ==
    /\ search[r].active
    /\ KeyFound(r) \/ search[r].at = ListEnd
    /\ search' = [search EXCEPT ![r] = NoSearch]
    /\ UNCHANGED <<pxNext, pxPrevious, xItemValue, status, call>>

BoundNext ==
    \/ \E t \in Tasks :
         \/ \E s \in Sockets : \/ \E p \in Ports : FreeRTOS_TSN_bind(t, s, p)
                               \/ FreeRTOS_TSN_closesocket(t, s)
         \/ vListInsertEnd(t) \/ BindReturns(t)
         \/ uxListRemove(t) \/ CloseReturns(t)
    \/ \E r \in Readers :
         \/ \E p \in Ports : vSocketFromPort(r, p)
         \/ LookFurther(r) \/ SearchReturns(r)

BoundSpec == BoundInit /\ [][BoundNext]_boundVars
-----------------------------------------------------------------------------
(***************************************************************************)
(* A search that runs while sockets are bound and closed under it finds    *)
(* the socket of its port, if that was bound all the while, and never      *)
(* returns one whose close had returned before it began                    *)
(* (Sockets.c:64-99, 540-543, 571).                                        *)
(***************************************************************************)
SearchFindsBound ==
    \A r \in Readers : search[r].active =>
        /\ search[r].at = ListEnd => search[r].throughout = {}
        /\ search[r].at \notin search[r].gone

(***************************************************************************)
(* "TSN sockets are listed here" (Sockets.c:32): a socket that is bound    *)
(* can be reached from the end marker, once no call is changing the list.  *)
(***************************************************************************)
BoundAreListed ==
    (\A t \in Tasks : call[t] = NoCall) =>
        \A Reached \in SUBSET (Sockets \cup {ListEnd}) :
            ListEnd \in Reached /\ (\A i \in Reached : pxNext[i] \in Reached)
                => {s \in Sockets : status[s] = "bound"} \subseteq Reached
=============================================================================

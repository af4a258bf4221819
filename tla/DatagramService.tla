-------------------------- MODULE DatagramService --------------------------
(***************************************************************************)
(* What reception promises to the sockets: a datagram for a socket may be  *)
(* lost on its way, but those that arrive come in the order in which they  *)
(* were accepted, each one once and only at the socket it is meant for.    *)
(***************************************************************************)
EXTENDS Naturals, Sequences

CONSTANTS Socket, Datagram, NoDatagram

VARIABLES
    fifo,   \* the datagrams on their way to each socket, oldest first
    got     \* the datagram each application has been handed, or NoDatagram

Init ==
    /\ fifo = [s \in Socket |-> <<>>]
    /\ got = [s \in Socket |-> NoDatagram]

Accept(s, d) ==
    /\ fifo' = [fifo EXCEPT ![s] = Append(@, d)]
    /\ UNCHANGED got

\* The k-th of the datagrams on their way to s is dropped.
Lose(s, k) ==
    /\ fifo' = [fifo EXCEPT
                  ![s] = SubSeq(@, 1, k - 1) \o SubSeq(@, k + 1, Len(@))]
    /\ UNCHANGED got

\* All the datagrams that wait at a socket are dropped when it closes.
LoseFirst(s, k) ==
    /\ fifo' = [fifo EXCEPT ![s] = SubSeq(@, k + 1, Len(@))]
    /\ UNCHANGED got

Receive(s) ==
    /\ got[s] = NoDatagram
    /\ fifo[s] # <<>>
    /\ got' = [got EXCEPT ![s] = Head(fifo[s])]
    /\ fifo' = [fifo EXCEPT ![s] = Tail(@)]

Consume(s) ==
    /\ got' = [got EXCEPT ![s] = NoDatagram]
    /\ UNCHANGED fifo

Next ==
    \E s \in Socket :
        \/ \E d \in Datagram : Accept(s, d)
        \/ \E k \in 1..Len(fifo[s]) : Lose(s, k) \/ LoseFirst(s, k)
        \/ Receive(s)
        \/ Consume(s)

Service == Init /\ [][Next]_<<fifo, got>>
=============================================================================

------------------------- MODULE MCUDPTransmission -------------------------
(***************************************************************************)
(* One socket, or two, and the IP task over two network buffers.           *)
(***************************************************************************)
EXTENDS UDPTransmission

CONSTANTS s1, s2, b1, b2

MCOneSock == {s1}
MCSock == {s1, s2}
MCBuf == {b1, b2}
MCMaxSends == [t \in Sock \cup {IPTask} |-> 2]
=============================================================================

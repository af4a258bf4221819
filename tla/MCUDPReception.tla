--------------------------- MODULE MCUDPReception ---------------------------
(***************************************************************************)
(* Instances of UDPReception: a TSN socket and a plain one, frames without *)
(* a port (ARP) and, in some, frames for a port nobody is bound to.        *)
(***************************************************************************)
EXTENDS UDPReception, TLC

CONSTANTS tsn, plain, arp, other, b1, b2, b3, h1, h2, h3

Symmetry == Permutations(Buffer) \cup Permutations(Header)
=============================================================================

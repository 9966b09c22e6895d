---------------------------- MODULE MCPacketStream ----------------------------
(* Bounded instances of PacketStream for TLC. *)
EXTENDS PacketStream

(* An empty packet, one whose data begins like a head, and one whose data   *)
(* is a packet of its own, as a file may hold one.                          *)
Empty    == [sCmd |-> 5, strData |-> <<>>]
Like     == [sCmd |-> 6, strData |-> <<255>>]
Embedded == [sCmd |-> 4, strData |-> <<255, 254, 4, 0, 0, 0, 9, 0, 0, 0>>]
ThreePackets == {Empty, Like, Embedded}
=============================================================================

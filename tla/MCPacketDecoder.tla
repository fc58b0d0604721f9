--------------------------- MODULE MCPacketDecoder ---------------------------
(* The model checked by TLC: coordinates whose bytes look like packets. *)
EXTENDS PacketDecoder

MCCoordinates == {<<3, 2>>}
MCMalformed == {<<2, 9>>}
=============================================================================

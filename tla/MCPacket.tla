------------------------------ MODULE MCPacket ------------------------------
(* Packet for TLC: the bytes that framing treats in a special way, and the *)
(* ends of the range of a byte.                                            *)
EXTENDS Packet, TLC

SpecialBytes == {0, 93, 94, 125, 126, 255}
=============================================================================

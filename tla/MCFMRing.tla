------------------------------ MODULE MCFMRing ------------------------------
(* FMRing for TLC.                                                         *)
EXTENDS FMRing

CONSTANTS w1, r1, r2, b1, b2

OneWriter == {w1}
TwoReaders == {r1, r2}
Blocks == {b1, b2}
=============================================================================

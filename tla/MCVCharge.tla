------------------------------ MODULE MCVCharge ------------------------------
(* VCharge for TLC.                                                        *)
EXTENDS VCharge, TLC
=============================================================================

------------------------------ MODULE MCFMHal ------------------------------
(* FMHal for TLC.                                                          *)
EXTENDS FMHal

CONSTANTS s1, s2, t1, t2

TwoSources == {s1, s2}
TwoThreads == {t1, t2}
=============================================================================

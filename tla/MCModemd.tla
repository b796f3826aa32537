------------------------------ MODULE MCModemd ------------------------------
(* Modemd for TLC.                                                         *)
EXTENDS Modemd, TLC

CONSTANTS r1, d1, o1

None == {}
Reset == {r1}
Dump == {d1}
Other == {o1}
FdNumbers == 3 .. 4
=============================================================================

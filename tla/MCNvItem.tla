------------------------------ MODULE MCNvItem ------------------------------
(* NvItem for TLC: the file types that occur in a run.                     *)
EXTENDS NvItem

\* The values of Types.
FixnvOnly == {0}
FixnvAndProduct == {0, 2}
AllTypes == 0 .. 3
=============================================================================

--------------------------- MODULE MCModemControl ---------------------------
(* ModemControl for TLC.                                                   *)
EXTENDS ModemControl, TLC

\* The FDL in two packets; an image of a full and a partial packet and one of
\* two full ones.
Sizes == (0 :> 4) @@ (1 :> 6) @@ (2 :> 8)
=============================================================================

------------------------------ MODULE MCAudioHw ------------------------------
(* AudioHw for TLC.                                                        *)
EXTENDS AudioHw, TLC

Routes == {"speaker", "sco"}
Inputs == {"mic", "voice"}
=============================================================================

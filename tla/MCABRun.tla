------------------------------- MODULE MCABRun ------------------------------
(* Small instances of ABRun.                                               *)
EXTENDS ABRun
=============================================================================

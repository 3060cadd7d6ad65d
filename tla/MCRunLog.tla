------------------------------ MODULE MCRunLog ------------------------------
(* Small instances of RunLog.                                              *)
EXTENDS RunLog
=============================================================================

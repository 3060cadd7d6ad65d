------------------------------- MODULE ArmRun -------------------------------
(* What one arm's run promises: it ends, with the first reason it met.      *)

VARIABLES
  verdict,   \* running, or completed, timeout, cap, error
  over       \* the run has its result

runVars == <<verdict, over>>

Init == verdict = "running" /\ over = FALSE

\* A limit or an error ends the run's work.
Decide ==
  /\ ~over /\ verdict = "running"
  /\ verdict' \in {"timeout", "cap", "error"}
  /\ UNCHANGED over

End ==
  /\ ~over
  /\ over' = TRUE
  /\ verdict' = IF verdict = "running" THEN "completed" ELSE verdict

Spec == Init /\ [][Decide \/ End]_runVars /\ WF_runVars(End)
=============================================================================

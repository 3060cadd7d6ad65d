----------------------------- MODULE MCAgentLoop ----------------------------
(* Small instances of AgentLoop and of the console that follows it.         *)
EXTENDS ConsoleView

MCPhases == <<"build", "test">>
MCBudgets == [p \in {"build", "test"} |-> IF p = "build" THEN <<2, 1>> ELSE <<2>>]
\* Answers with up to two calls.
MCResponses == UNION {[1..n -> CallKinds] : n \in 0..2}
=============================================================================

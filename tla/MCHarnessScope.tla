--------------------------- MODULE MCHarnessScope ---------------------------
(* A small instance of HarnessScope: a source file, a test file, and another *)
(* file that the agent may not change; it may be too large for a snapshot.    *)
EXTENDS HarnessScope

\* The agent may change source and tests in the build phase, then tests only.
MCAllowed == [p \in {"build", "test"} |-> IF p = "build" THEN {"src", "tests"} ELSE {"tests"}]
MCStarts == {[f \in {"src", "tests", "other"} |-> 0]}
\* The tests pass once both the source and the tests have their new version.
MCGood == {c \in [{"src", "tests", "other"} -> {0, 1}] : c["src"] = 1 /\ c["tests"] = 1}
=============================================================================

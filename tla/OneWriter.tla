----------------------------- MODULE OneWriter ------------------------------
(* What a run log's lock promises: at most one process writes to the log.   *)

CONSTANT Openers   \* the processes that open the log

VARIABLE writers   \* the processes that write to it

Init == writers = {}

Open(p) == writers = {} /\ writers' = {p}

\* The writer closes the log, or dies.
Leave(p) == p \in writers /\ writers' = writers \ {p}

Next == \E p \in Openers : Open(p) \/ Leave(p)

Spec == Init /\ [][Next]_writers
=============================================================================

--------------------------- MODULE MCCostTracker ----------------------------
(***************************************************************************)
(* A small instance of CostTracker: an experiment and a command of the     *)
(* class, which share one ledger.                                          *)
(***************************************************************************)
EXTENDS CostTracker

MCSessionOf == [c \in Commands |-> "class"]
MCIsExperiment == [c \in Commands |-> c = 1]

VARIABLE taking   \* the pairs of command and arm that take part

\* The experiment with both its arms, alone, or beside a command of one arm.
MCTaking == {{1} \X Arms, ({1} \X Arms) \cup {<<2, 1>>}}

MCInit == Init /\ taking \in MCTaking

Alone == \A ca \in taking : ca[1] = 1

\* No call is in flight.
Quiet == appending = {} /\ \A c \in Commands : reserved[c] = 0

\* An opening balance is written beside an experiment that has no call in
\* flight, or inside any command's record of a call.
MCNext ==
  /\ UNCHANGED taking
  /\ \/ \E ca \in taking : Start(ca[1]) \/ Refresh(ca[1]) \/ Stop(ca[1])
     \/ \E ca \in taking : NewScope(ca[1], ca[2]) \/ Release(ca[1], ca[2])
     \/ \E ca \in taking, w \in WorstCases : Reserve(ca[1], ca[2], w)
     \/ \E ca \in taking, x \in ActualCosts : SettleBegin(ca[1], ca[2], x)
     \/ SettleEnd
     \/ ((Alone /\ Quiet) \/ appending # {}) /\ \E x \in OpeningAmounts : RecordOpeningBalance(x)

\* With one command and honest estimates a cap stops a call before it is made;
\* a call that was paid for is never the one that crosses a cap (settle).
PaidCallNeverRaises == [][Alone => ~PaidCallRaises]_vars

MCSpec == MCInit /\ [][MCNext]_<<vars, taking>>
=============================================================================

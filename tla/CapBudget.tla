----------------------------- MODULE CapBudget ------------------------------
(***************************************************************************)
(* What a cap promises, without saying how: money is held before a call is *)
(* made, a call costs at most what was held for it, and what is spent plus *)
(* what is held never passes the cap.                                      *)
(***************************************************************************)
EXTENDS Integers

CONSTANT Cap

VARIABLES spent, held

budgetVars == <<spent, held>>

Init == spent = 0 /\ held = 0

\* Room for a call of worst case w is set aside.
Hold(w) ==
  /\ spent + held + w <= Cap
  /\ held' = held + w
  /\ UNCHANGED spent

\* A call that held w cost x; a call that was not made costs 0.
Settle(w, x) ==
  /\ x <= w
  /\ w <= held
  /\ held' = held - w
  /\ spent' = spent + x

\* A new budget starts (the command was started again).
Reset == spent' = 0 /\ held' = 0

Next ==
  \/ \E w \in 0..Cap : Hold(w)
  \/ \E w \in 0..held : \E x \in 0..w : Settle(w, x)
  \/ Reset

Spec == Init /\ [][Next]_budgetVars

=============================================================================

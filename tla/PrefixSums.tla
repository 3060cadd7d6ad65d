----------------------------- MODULE PrefixSums -----------------------------
(***************************************************************************)
(* Sums of integer functions over an interval 1..n.  The cost ledger and   *)
(* the reservations of concurrent arms are both summed this way.  The sum  *)
(* is a recursive function on Nat, not a fold over a set, so that the      *)
(* lemmas in CostTrackerProofs can be proved about it.                     *)
(***************************************************************************)
EXTENDS Integers

\* f[1] + ... + f[n]: the running total a loop over f keeps.
SumTo(f, n) ==
  LET sum[i \in Nat] == IF i = 0 THEN 0 ELSE sum[i - 1] + f[i]
  IN  sum[n]

\* f[m + 1] + ... + f[n]: what a reader that stopped at m still has to add.
SumBetween(f, m, n) == SumTo(f, n) - SumTo(f, m)

=============================================================================

-------------------------------- MODULE Sums --------------------------------
(***************************************************************************)
(* Sums over the indices 1 .. n, as the contracts' loops add up a vector.  *)
(* A recursive function, not a fold: a fold takes an operator, and nothing *)
(* can be proved by induction about an operator that is a parameter.       *)
(***************************************************************************)
EXTENDS Integers

SumTo(f, n) ==
  LET sum[i \in 0 .. n] == IF i = 0 THEN 0 ELSE sum[i - 1] + f[i]
  IN  sum[n]
=============================================================================

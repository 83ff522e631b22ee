----------------------------- MODULE MCMrvOracle -----------------------------
(***************************************************************************)
(* MrvOracle on a small instance: 8-bit tonnes, a history of two, two      *)
(* oracles.  The readings are 10 and what lies at and just beyond a fifth  *)
(* from it, its opposite, zero, and one whose deviation from 10 overflows. *)
(***************************************************************************)
EXTENDS MrvOracle, TLC

MCReading == {-10, 0, 10, 12, 13, 100}
=============================================================================

----------------------------- MODULE LedgerClock -----------------------------
(***************************************************************************)
(* The Stellar ledger's timestamp, env.ledger().timestamp() in the         *)
(* contracts: every call of a ledger sees the same one, and a ledger       *)
(* closes between two calls or does not.                                   *)
(***************************************************************************)
EXTENDS Integers

CONSTANT MaxTime   \* bound: the last timestamp of the ledger

ASSUME ClockAssumption == MaxTime \in Nat

VARIABLE now       \* the ledger's timestamp

LedgerCloses ==
  /\ now < MaxTime
  /\ now' = now + 1
=============================================================================

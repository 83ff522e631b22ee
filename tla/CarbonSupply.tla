---------------------------- MODULE CarbonSupply ----------------------------
(***************************************************************************)
(* What the registry promises about quantities: the tonnes in live credits *)
(* come from submissions and from nowhere else.  Credits, owners, quorums  *)
(* and splits are invisible here: only two totals are.                     *)
(***************************************************************************)
EXTENDS Integers

VARIABLES
  issued,   \* tonnes ever submitted
  live      \* tonnes of the credits that are not retired

supplyVars == <<issued, live>>

SupplyInit == issued = 0 /\ live = 0

(* An issuer submits tonnes, and all of them come to life. *)
Issue ==
  /\ issued' \in Nat /\ issued' > issued
  /\ live' = live + (issued' - issued)

(* Live tonnes are retired for good. *)
Burn ==
  /\ live' \in Nat /\ live' < live
  /\ UNCHANGED issued

SupplyNext == Issue \/ Burn

SupplySpec == SupplyInit /\ [][SupplyNext]_supplyVars
=============================================================================

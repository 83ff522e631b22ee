-------------------------- MODULE MCCreditRegistry --------------------------
(***************************************************************************)
(* RegistryLedger, the credit registry with its tonnes counted, on a small *)
(* instance.  MCSpec starts from the registry as the deployment leaves it: *)
(* initialised with a quorum of two, with two verifiers, one issuer, one   *)
(* methodology and one project registered; the admin's nonce has counted   *)
(* the four roster calls.  The issuer can submit, split and merge, and     *)
(* there are ids enough for a submission, its split and the merge of the   *)
(* halves.                                                                 *)
(***************************************************************************)
EXTENDS RegistryLedger, TLC

CONSTANTS ad, v1, v2, iss, buyer, ret

MCAddress == {ad, v1, v2, iss, buyer, ret}

MCNonceBound ==
  (ad :> 5) @@ (v1 :> 1) @@ (v2 :> 1) @@ (iss :> 3) @@ (buyer :> 0) @@ (ret :> 0)

MCTonnes == {0, 2}

(* Lists of two and of three credits, which may repeat one, or may not; the  *)
(* last id is left for what three of them are merged into.                   *)
MCMergeArg ==
  {<<a, b>> : a, b \in CreditId} \cup {<<a, b, c>> : a, b, c \in 0 .. 2}

MCDistinctMergeArg == {ids \in MCMergeArg : IsInjective(ids)}

MCSymmetry == Permutations({v1, v2})

Deployed ==
  /\ admin = ad
  /\ pendingAdmin = None
  /\ retirementContract = ret
  /\ requiredApprovals = 2
  /\ paused = FALSE
  /\ nonce = [a \in Address |-> IF a = ad THEN 4 ELSE 0]
  /\ verifiers = {v1, v2}
  /\ issuers = {iss}
  /\ methodologies = Methodology
  /\ projects = Project
  /\ services = [a \in Address |-> {}]
  /\ pendingCount = [a \in Address |-> 0]

MCInit == Deployed /\ CreditInit /\ issued = 0

MCSpec == MCInit /\ [][LedgerNext]_ledgerVars
=============================================================================

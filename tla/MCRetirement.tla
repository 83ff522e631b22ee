---------------------------- MODULE MCRetirement ----------------------------
(***************************************************************************)
(* The retirement contract and the registry on a small instance: one       *)
(* verifier whose approval mints, two accounts that may retire, batches of *)
(* up to two.                                                              *)
(***************************************************************************)
EXTENDS Retirement, TLC

CONSTANTS ad, v1, iss, buyer, ret

MCAddress == {ad, v1, iss, buyer, ret}

MCNonceBound == (ad :> 0) @@ (v1 :> 2) @@ (iss :> 2) @@ (buyer :> 0) @@ (ret :> 0)

MCRetNonceBound == (ad :> 1) @@ (v1 :> 0) @@ (iss :> 2) @@ (buyer :> 1) @@ (ret :> 0)

MCMergeArg == {<<a, b>> : a, b \in CreditId}

MCBatchArg ==
  {<< << >>, << >> >>} \cup {<< <<a>>, <<0>> >> : a \in CreditId}
    \cup {<< <<a, b>>, <<1, 1>> >> : a, b \in CreditId}
    \cup {<< <<a, b>>, <<2>> >> : a, b \in CreditId}

Deployed ==
  /\ admin = ad
  /\ pendingAdmin = None
  /\ retirementContract = ret
  /\ requiredApprovals = 1
  /\ paused = FALSE
  /\ nonce = [a \in Address |-> 0]
  /\ verifiers = {v1}
  /\ issuers = {iss}
  /\ methodologies = Methodology
  /\ projects = Project
  /\ services = [a \in Address |-> {}]
  /\ pendingCount = [a \in Address |-> 0]

MCInit ==
  /\ Deployed
  /\ CreditInit
  /\ RetirementInit

MCSpec == MCInit /\ [][RetirementNext]_allRetVars
=============================================================================

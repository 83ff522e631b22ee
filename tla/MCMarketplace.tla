---------------------------- MODULE MCMarketplace ----------------------------
(***************************************************************************)
(* Marketplace on a small instance: two minted credits, two accounts that  *)
(* may sell them, two offers and two ledgers.                              *)
(***************************************************************************)
EXTENDS Marketplace, TLC

CONSTANTS ad, v1, iss, buyer, mkt, ret

MCAddress == {ad, v1, iss, buyer, mkt, ret}

MCNonceBound ==
  (ad :> 0) @@ (v1 :> 2) @@ (iss :> 5) @@ (buyer :> 1) @@ (mkt :> 2) @@ (ret :> 0)

MCMktNonceBound ==
  (ad :> 1) @@ (v1 :> 0) @@ (iss :> 3) @@ (buyer :> 2) @@ (mkt :> 0) @@ (ret :> 0)

Minted(vintage) ==
  [project |-> CHOOSE p \in Project : TRUE, issuer |-> iss, vintage |-> vintage,
   methodology |-> CHOOSE m \in Methodology : TRUE,
   geography |-> CHOOSE g \in Geography : TRUE, tonnes |-> 2]

(* The registry after iss has submitted credits 0 and 1 of two vintages and *)
(* v1, alone a quorum, has approved both.                                   *)
TwoCreditsMinted ==
  /\ admin = ad
  /\ pendingAdmin = None
  /\ retirementContract = ret
  /\ requiredApprovals = 1
  /\ paused = FALSE
  /\ nonce = [a \in Address |-> IF a \in {iss, v1} THEN 2 ELSE 0]
  /\ verifiers = {v1}
  /\ issuers = {iss}
  /\ methodologies = Methodology
  /\ projects = Project
  /\ services = [a \in Address |-> {}]
  /\ pendingCount = [a \in Address |-> 0]
  /\ creditNonce = 2
  /\ meta = [c \in CreditId |-> IF c = 0 THEN Minted(2023) ELSE Minted(2024)]
  /\ owner = [c \in CreditId |-> iss]
  /\ status = [c \in CreditId |-> "Active"]
  /\ approvals = [c \in CreditId |-> << >>]
  /\ approvalCount = [a \in Address |-> IF a = v1 THEN 2 ELSE 0]
  /\ disputeCount = [a \in Address |-> 0]
  /\ projectCredits = [p \in Project |-> <<0, 1>>]
  /\ byVintage = [p \in Project |-> [v \in Vintage |-> IF v = 2023 THEN 0 ELSE 1]]
  /\ disputes = {}

MCInit == TwoCreditsMinted /\ MarketInit

MCSpec == MCInit /\ [][MarketNext]_allMktVars
=============================================================================

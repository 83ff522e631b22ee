--------------------------- MODULE MCEventIndexer ---------------------------
(***************************************************************************)
(* Two contracts, polls that may overlap and a subscriber.  The RPC client  *)
(* decodes topics to ScVal objects, never to strings, so every event is of  *)
(* type "unknown".                                                         *)
(***************************************************************************)
EXTENDS EventIndexer, TLC

CONSTANTS registry, retirement

MCContractIds == <<registry, retirement>>

\* Ledgers of the first contract that fill a page of two or leave room, and a
\* backlog of two pages.
MCEventIds ==
  {<<retirement, 1, 1>>, <<registry, 1, 1>>, <<registry, 2, 1>>, <<registry, 2, 2>>,
   <<registry, 3, 1>>}

\* The second contract's event is the older one.
MCTwoEventIds == {<<retirement, 1, 1>>, <<registry, 2, 1>>}

MCTopic == (registry :> "CreditMinted") @@ (retirement :> "CreditRetired")

\* Bound: where there is a subscriber or a restart, two events and two ledgers.
MCBound ==
  (restarts' > 0 \/ \E h \in Hooks : webhooks'[h].status # "unborn") =>
    emitted' \subseteq MCTwoEventIds /\ tip' <= 2

MCSpec == Init /\ [][Next /\ MCBound]_vars /\ Fairness
=============================================================================

------------------------------ MODULE PageStores ------------------------------
(***************************************************************************)
(* The lists the frontend shows: CreditStore and MarketplaceStore          *)
(* (frontend/src/app/core/store), which outlive the pages, and what the    *)
(* dashboard, the credit page and the project page load for themselves.    *)
(*                                                                         *)
(* A load asks for ids and then for each of them, with nothing read or     *)
(* written in between: one question and one answer here.  Loads overlap,   *)
(* and their answers come in any order.  A list is known by the account it *)
(* is of.                                                                  *)
(***************************************************************************)
EXTENDS SignIn, Naturals, Bags

CONSTANTS
    MaxLoads,    \* bound: loads of one list under way at once
    MaxConnects  \* bound: the dashboard's waits for the wallet at once

ASSUME StoreAssumption == MaxLoads \in Nat \ {0} /\ MaxConnects \in Nat

VARIABLES
    credits,   \* CreditStore: the list, its LoadingState, loads under way
    offers,    \* MarketplaceStore, likewise
    connects,  \* the dashboard's connectWallet that wait for the wallet: how
               \* many of the page that is shown (TRUE) and of pages left
    history,   \* the dashboard's retirements, likewise
    detail     \* the credit or project page: what it waits for

\* What lives on when a page is left.
storeVars == <<credits, offers, connects>>

\* The state is idle, loading, loaded or error.
Empty == [of |-> None, state |-> "idle", loads |-> EmptyBag]

\* A load is started: the list stays and the state is loading.  A load carries
\* whose list it asks for and whether the dashboard's connectWallet waits for it.
Asked(list, of, dashboard) ==
    [list EXCEPT !.state = "loading",
                 !.loads = @ (+) SetToBag({[of |-> of, dashboard |-> dashboard]})]

CanAsk(list) == BagCardinality(list.loads) < MaxLoads

Ended(list, l) == [list EXCEPT !.loads = @ (-) SetToBag({l})]

\* Faulty variant: a failed load does not touch the state.
AnsweredOrIgnored(list, l) ==
    {[Ended(list, l) EXCEPT !.of = l.of, !.state = "loaded"], Ended(list, l)}

\* What a list may become when a load is answered: the one it asked for,
\* whichever load was started last; or it fails, and the list stays.
Answered(list, l) ==
    {[Ended(list, l) EXCEPT !.of = l.of, !.state = "loaded"],
     [Ended(list, l) EXCEPT !.state = "error"]}

StoresInit ==
    /\ credits = Empty /\ offers = Empty
    /\ connects = [shown \in BOOLEAN |-> 0]
    /\ history = Empty /\ detail = "none"

(***************************************************************************)
(* The dashboard.  The retirements it loads are those of the credits that  *)
(* the store shows at that moment; the key is not used.  Which credit is   *)
(* selected there is left out.                                             *)
(***************************************************************************)
\* ngOnInit starts both loads at once.
DashboardOpens ==
    IF key # None
      THEN /\ CanAsk(credits)
           /\ credits' = Asked(credits, key, FALSE)
           /\ history' = Asked(Empty, credits.of, FALSE)
           /\ UNCHANGED connects
      ELSE history' = Empty /\ UNCHANGED <<credits, connects>>

\* connectWallet: the wallet is asked ...
DashboardConnects ==
    /\ connects[TRUE] + connects[FALSE] < MaxConnects
    /\ connects' = [connects EXCEPT ![TRUE] = @ + 1]
    /\ UNCHANGED <<credits, offers, history, detail, signInVars>>

\* ... its new key is shown and the key's credits are loaded, also when the page
\* that asked has been left; or the wallet's prompt is closed ...
WalletAnswers ==
    /\ \E shown \in BOOLEAN :
         /\ connects[shown] > 0
         /\ connects' = [connects EXCEPT ![shown] = @ - 1]
         /\ \/ ShowsKey /\ CanAsk(credits) /\ credits' = Asked(credits, key', shown)
            \/ UNCHANGED <<credits, signInVars>>
    /\ UNCHANGED <<offers, history, detail>>

\* ... and when they are there, or the load has failed (the store keeps its
\* error to itself), the retirements.
CreditsAnswer ==
    /\ \E l \in BagToSet(credits.loads) :
         /\ credits' \in Answered(credits, l)
         /\ IF l.dashboard THEN CanAsk(history) /\ history' = Asked(history, credits'.of, FALSE)
                           ELSE UNCHANGED history
    /\ UNCHANGED <<offers, connects, detail, signInVars>>

HistoryAnswers ==
    /\ \E l \in BagToSet(history.loads) : history' \in Answered(history, l)
    /\ UNCHANGED <<storeVars, detail, signInVars>>

Forgotten(l) == [l EXCEPT !.dashboard = FALSE]

\* The dashboard is left: its own state is gone and its wait for the store's
\* load comes to nothing; the load goes on, and so does a wait for the wallet.
DashboardCloses ==
    /\ history' = Empty
    /\ connects' = [connects EXCEPT ![TRUE] = 0, ![FALSE] = @ + connects[TRUE]]
    /\ credits' = [credits EXCEPT !.loads = BagOfAll(Forgotten, @)]

(***************************************************************************)
(* The marketplace: the offers are loaded when the user asks for them, and *)
(* the button stays enabled while they are.                                *)
(***************************************************************************)
refresh ==
    /\ account # None /\ key # None
    /\ CanAsk(offers)
    /\ offers' = Asked(offers, key, FALSE)
    /\ UNCHANGED <<credits, connects, history, detail, signInVars>>

OffersAnswer ==
    /\ \E l \in BagToSet(offers.loads) : offers' \in Answered(offers, l)
    /\ UNCHANGED <<credits, connects, history, detail, signInVars>>

(***************************************************************************)
(* The credit page loads a credit; the project page a project and then its *)
(* credits, whose failure is not shown.                                    *)
(***************************************************************************)
Waiting == {"credit", "project", "projectCredits"}

CreditAnswers ==
    /\ detail = "credit"
    /\ detail' \in {"loaded", "error"}
    /\ UNCHANGED <<storeVars, history, signInVars>>

ProjectAnswers ==
    /\ \/ detail = "project" /\ detail' \in {"projectCredits", "error"}
       \/ detail = "projectCredits" /\ detail' = "loaded"
    /\ UNCHANGED <<storeVars, history, signInVars>>

DetailAnswers == CreditAnswers \/ ProjectAnswers
=============================================================================

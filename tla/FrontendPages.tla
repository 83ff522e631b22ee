---------------------------- MODULE FrontendPages ----------------------------
(***************************************************************************)
(* The frontend's pages under one router (frontend/src/app/app.routes.ts,  *)
(* app.html) and one session, of which the pages know what SignIn says:    *)
(* WalletSession implements it.                                            *)
(*                                                                         *)
(* The router shows one page.  Opening it makes its component anew, leaving *)
(* it drops what the component awaits - the answer of a call that was made *)
(* changes nothing that is shown -, while the stores live on, and so does a *)
(* wait that ends in a store's load.  The header has the links and the     *)
(* sign-in and sign-out buttons on every page, and signing out leaves the  *)
(* page where it is.                                                       *)
(***************************************************************************)
EXTENDS PageStores, PageForms

CONSTANTS
    Admins,  \* accounts whose token carries the administrator's role
    Tours    \* bound: the sets of pages that one visit goes to (to the dashboard
             \* also when it is sent there, but then it connects no wallet)

VARIABLES
    route,  \* the page shown
    tour    \* the pages of this visit

vars == <<account, key, credits, offers, connects, history, detail, wizard, admin, route, tour>>

Routes == {"connect-wallet", "dashboard", "marketplace", "retire", "credit", "project", "admin"}

ASSUME PagesAssumption == Admins \subseteq Accounts /\ \A t \in Tours : t \subseteq Routes

Init ==
    /\ SignInInit /\ StoresInit
    /\ wizard = NewWizard /\ admin = NewAdmin
    /\ route = "connect-wallet" /\ tour \in Tours

\* authGuard, then adminGuard.
Guarded(r) ==
    IF r # "connect-wallet" /\ account = None  THEN "connect-wallet"
    ELSE IF r = "admin" /\ account \notin Admins THEN "dashboard"
    ELSE r

Navigate(r) ==
    LET to == Guarded(r) IN
    /\ to # route
    /\ route' = to
    /\ IF to = "dashboard" THEN DashboardOpens
       ELSE IF route = "dashboard" THEN DashboardCloses
       ELSE UNCHANGED <<credits, connects, history>>
    /\ wizard' = NewWizard
    /\ admin' = IF to = "admin" THEN AdminOpens ELSE NewAdmin
    /\ detail' = IF to \in {"credit", "project"} THEN to ELSE "none"
    /\ UNCHANGED <<offers, signInVars, tour>>

Stay == UNCHANGED <<route, tour>>

Session == SignInNext /\ UNCHANGED <<storeVars, history, detail, wizard, admin>> /\ Stay

InLists(A) == A /\ UNCHANGED <<wizard, admin>> /\ Stay

InForms(A) == A /\ UNCHANGED <<storeVars, history, detail>> /\ Stay

Lists ==
    \/ route = "dashboard" /\ route \in tour /\ InLists(DashboardConnects)
    \/ route = "marketplace" /\ InLists(refresh)
    \/ InLists(WalletAnswers \/ CreditsAnswer \/ HistoryAnswers \/ OffersAnswer \/ DetailAnswers)

Wizard == goConfirm \/ Back \/ TryAgain \/ submit \/ reset

AdminClick == \E d \in Dialogs : Open(d) \/ Close(d) \/ Send(d)

Forms ==
    \/ route = "retire" /\ InForms(Wizard)
    \/ route = "admin" /\ InForms(AdminClick)
    \/ InForms(SubmitAnswers \/ FirstLoadAnswers)
    \/ \E d \in Dialogs : InForms(SendAnswers(d) \/ ReloadAnswers(d))

Next ==
    \/ \E r \in tour \cup {"connect-wallet"} : Navigate(r)
    \/ Session
    \/ Lists
    \/ Forms

\* Calls are answered or fail, and only that is assumed.
Fairness ==
    /\ WF_vars(InLists(CreditsAnswer)) /\ WF_vars(InLists(HistoryAnswers))
    /\ WF_vars(InLists(OffersAnswer)) /\ WF_vars(InLists(DetailAnswers))
    /\ WF_vars(InForms(SubmitAnswers)) /\ WF_vars(InForms(FirstLoadAnswers))
    /\ \A d \in Dialogs : WF_vars(InForms(SendAnswers(d) \/ ReloadAnswers(d)))

Spec == Init /\ [][Next]_vars
FairSpec == Spec /\ Fairness

(***************************************************************************)
(* Properties.                                                             *)
(***************************************************************************)
\* What looks busy is: a list that says "loading" has a load under way, and a
\* disabled button a call, however loads overlap and dialogs are closed and
\* opened during a call; and a button is enabled only when its call is done.
BusyMeansUnderWay ==
    /\ \A list \in {credits, offers, history} : list.state = "loading" => list.loads # EmptyBag
    /\ wizard.submitting <=> wizard.calls # {}
    /\ \A d \in Dialogs : admin.busy[d] <=> admin.calls[d] + admin.reloads[d] > 0
    /\ admin.isLoading => admin.first > 0 \/ \E d \in Dialogs : admin.reloads[d] > 0

\* A retirement is asked for with a token and a buyer (submit reads token()!
\* and publicKey()!), wherever the user signed out, in or switched accounts.
RequestsCarrySession ==
    \A c \in wizard.calls : c.token # None /\ c.buyer # None

\* A result is shown when nothing is under way, and it is the last call's: the
\* user is never told of one attempt while another is still being made.
ResultIsOfLastCall ==
    wizard.step \in {"success", "error"} =>
        wizard.calls = {} /\ wizard.result = wizard.made

\* Whatever is waiting stops waiting: spinners go and buttons come
\* back, while the page is the same.
PagesSettle ==
    /\ credits.state = "loading" ~> credits.state # "loading"
    /\ offers.state  = "loading" ~> offers.state  # "loading"
    /\ history.state = "loading" ~> history.state # "loading"
    /\ \A r \in {"credit", "project"} :
         (route = r /\ detail \in Waiting) ~> (route # r \/ detail \notin Waiting)
    /\ wizard.submitting ~> ~wizard.submitting
    /\ admin.isLoading ~> ~admin.isLoading
    /\ \A d \in Dialogs : admin.busy[d] ~> ~admin.busy[d]
=============================================================================

------------------------- MODULE FrontendPagesProofs -------------------------
(***************************************************************************)
(* Proofs about FrontendPages.  The two specifications of the pages do not *)
(* know one another, so the invariant has a part for each: what a list     *)
(* keeps while it is loading, what the wizard keeps of its one call, what  *)
(* a dialog keeps of its call and its reload - and the session's part,     *)
(* that whoever is signed in has a key, which the wizard's calls rely on.  *)
(***************************************************************************)
EXTENDS FrontendPages, TLAPS

-----------------------------------------------------------------------------
(* The inductive invariant.                                                 *)

SessionInv ==
  /\ account \in Accounts \cup {None}
  /\ key \in Accounts \cup {None}
  /\ account # None => key # None

\* A list is a record, and while it is loading some load is counted: that its
\* bag is a function from loads to numbers is not needed.
ListInv(list) ==
  /\ {"of", "state", "loads"} \subseteq DOMAIN list
  /\ list.state = "loading" => DOMAIN list.loads # {}

ListsInv == ListInv(credits) /\ ListInv(offers) /\ ListInv(history)

Calls == [n : Nat, token : Accounts, buyer : Accounts]

WizardType ==
  wizard \in [step : {"form", "confirm", "success", "error"}, submitting : BOOLEAN,
              calls : SUBSET Calls, made : Nat, result : Nat]

\* The wizard has no call or one, its latest, and a result only without.
WizardInv ==
  /\ WizardType
  /\ wizard.submitting => \E c \in Calls : wizard.calls = {c} /\ c.n = wizard.made
  /\ ~wizard.submitting => wizard.calls = {}
  /\ wizard.step \in {"success", "error"} => ~wizard.submitting /\ wizard.result = wizard.made

AdminType ==
  admin \in [open : [Dialogs -> BOOLEAN], busy : [Dialogs -> BOOLEAN],
             calls : [Dialogs -> Nat], reloads : [Dialogs -> Nat], first : Nat,
             isLoading : BOOLEAN, error : BOOLEAN, listed : BOOLEAN]

\* A dialog has a call under way, or waits for a reload, or neither.
AdminInv ==
  /\ AdminType
  /\ \A d \in Dialogs : admin.calls[d] + admin.reloads[d] = IF admin.busy[d] THEN 1 ELSE 0
  /\ admin.isLoading => admin.first > 0 \/ \E d \in Dialogs : admin.reloads[d] > 0

PagesInv == SessionInv /\ ListsInv /\ WizardInv /\ AdminInv

-----------------------------------------------------------------------------
(* Lists. *)

\* Each thing that happens to a list keeps its part of the invariant.
LEMMA AskedKeepsList ==
  ASSUME NEW list, ListInv(list), NEW of, NEW dashboard
  PROVE  ListInv(Asked(list, of, dashboard))
BY DEF ListInv, Asked, (+), SetToBag

LEMMA EmptyIsAList == ListInv(Empty)
BY DEF ListInv, Empty

LEMMA AnsweredKeepsList ==
  ASSUME NEW list, ListInv(list), NEW l, NEW new \in Answered(list, l)
  PROVE  ListInv(new)
BY DEF ListInv, Answered, Ended

LEMMA ForgettingKeepsList ==
  ASSUME NEW list, ListInv(list)
  PROVE  ListInv([list EXCEPT !.loads = BagOfAll(Forgotten, @)])
BY DEF ListInv, BagOfAll, BagToSet

LEMMA ListsStep ==
  ASSUME PagesInv, Next
  PROVE  ListsInv'
<1> USE EmptyIsAList, AskedKeepsList, AnsweredKeepsList DEF ListsInv
<1>0. ListInv(credits) /\ ListInv(offers) /\ ListInv(history)
  BY DEF PagesInv
<1>1. ASSUME NEW r \in tour \cup {"connect-wallet"}, Navigate(r)
      PROVE  ListsInv'
  <2>1. CASE DashboardOpens
    BY <1>0, <1>1, <2>1 DEF Navigate, DashboardOpens
  <2>2. CASE DashboardCloses
    BY <1>0, <1>1, <2>2, ForgettingKeepsList DEF Navigate, DashboardCloses
  <2>3. CASE UNCHANGED <<credits, history>>
    BY <1>0, <1>1, <2>3 DEF Navigate
  <2> QED BY <1>1, <2>1, <2>2, <2>3 DEF Navigate
<1>2. CASE Session
  BY <1>0, <1>2 DEF Session, storeVars
<1>3. CASE InLists(DashboardConnects)
  BY <1>0, <1>3 DEF InLists, DashboardConnects
<1>10. CASE WalletAnswers
  BY <1>0, <1>10 DEF WalletAnswers
<1>4. CASE InLists(refresh)
  BY <1>0, <1>4 DEF InLists, refresh
<1>5. CASE CreditsAnswer
  BY <1>0, <1>5 DEF CreditsAnswer
<1>6. CASE HistoryAnswers
  BY <1>0, <1>6 DEF HistoryAnswers, storeVars
<1>7. CASE OffersAnswer
  BY <1>0, <1>7 DEF OffersAnswer
<1>8. CASE DetailAnswers
  BY <1>0, <1>8 DEF DetailAnswers, CreditAnswers, ProjectAnswers, storeVars
<1>9. CASE Forms
  BY <1>0, <1>9 DEF Forms, InForms, storeVars
<1> QED BY <1>1, <1>2, <1>3, <1>4, <1>5, <1>6, <1>7, <1>8, <1>9, <1>10 DEF Next, Lists, InLists

-----------------------------------------------------------------------------
(* The session. *)

LEMMA SessionStep ==
  ASSUME SessionInv, SignInNext
  PROVE  SessionInv'
BY SignInAssumption DEF SessionInv, SignInNext, SignsIn, ShowsKey, SignsOut

\* What the pages do leaves the session as it is, but for the wallet's
\* answer to the dashboard's connectWallet, which shows another key.
LEMMA PagesKeepSession ==
  ASSUME Next
  PROVE  SignInNext \/ UNCHANGED signInVars
BY DEF Next, Navigate, Session, Lists, Forms, InLists, InForms, DashboardConnects,
       WalletAnswers, refresh, CreditsAnswer, HistoryAnswers, OffersAnswer, DetailAnswers,
       CreditAnswers, ProjectAnswers, Wizard, goConfirm, Back, TryAgain, Step, submit,
       reset, AdminClick, Open, Close, Send, SubmitAnswers, FirstLoadAnswers,
       SendAnswers, ReloadAnswers, SignInNext

-----------------------------------------------------------------------------
(* The wizard. *)

\* A page that is opened makes a new one.
LEMMA NewWizardInv ==
  ASSUME wizard' = NewWizard
  PROVE  WizardInv'
BY DEF WizardInv, WizardType, NewWizard

LEMMA WizardStep ==
  ASSUME SessionInv, WizardInv, Wizard \/ SubmitAnswers
  PROVE  WizardInv'
<1> USE DEF WizardInv, WizardType
<1>1. CASE goConfirm
  BY <1>1 DEF goConfirm, Step
<1>2. CASE Back
  BY <1>2 DEF Back, Step
<1>3. CASE TryAgain
  BY <1>3 DEF TryAgain, Step
<1>4. CASE reset
  BY <1>4 DEF reset
<1>5. CASE submit
  <2> DEFINE call == [n |-> wizard.made + 1, token |-> account, buyer |-> key]
  <2>1. call \in Calls
    BY <1>5 DEF submit, CanSubmit, SessionInv, Calls
  <2>2. wizard.calls = {} /\ wizard.step = "confirm"
    BY <1>5 DEF submit, CanSubmit
  <2>3. wizard' = [wizard EXCEPT !.submitting = TRUE, !.made = @ + 1, !.calls = {call}]
    BY <1>5, <2>2 DEF submit
  <2>4. call.n = wizard.made + 1 /\ wizard.made + 1 \in Nat
    OBVIOUS
  <2> HIDE DEF call
  <2>5. /\ wizard'.submitting = TRUE /\ wizard'.calls = {call}
        /\ wizard'.made = wizard.made + 1 /\ wizard'.step = "confirm"
    BY <2>2, <2>3
  <2>6. WizardType'
    BY <2>1, <2>3, <2>4
  <2> QED BY <2>1, <2>4, <2>5, <2>6
<1>6. CASE SubmitAnswers
  <2>1. PICK c \in wizard.calls, s \in {"success", "error"} :
               wizard' = [wizard EXCEPT !.step = s, !.submitting = FALSE,
                                        !.calls = @ \ {c}, !.result = c.n]
    BY <1>6 DEF SubmitAnswers
  <2>2. wizard.calls = {c} /\ c.n = wizard.made /\ wizard.made \in Nat
    BY <2>1
  <2>3. wizard.calls \ {c} = {}
    BY <2>2
  <2> QED BY <2>1, <2>2, <2>3
<1> QED BY <1>1, <1>2, <1>3, <1>4, <1>5, <1>6 DEF Wizard

-----------------------------------------------------------------------------
(* The verifiers' page. *)

LEMMA NewAdminInv ==
  ASSUME admin' = NewAdmin
  PROVE  AdminInv'
BY DEF AdminInv, AdminType, NewAdmin

LEMMA AdminOpensInv ==
  ASSUME admin' = AdminOpens
  PROVE  AdminInv'
<1>1. admin' = [open |-> [d \in Dialogs |-> FALSE], busy |-> [d \in Dialogs |-> FALSE],
                calls |-> [d \in Dialogs |-> 0], reloads |-> [d \in Dialogs |-> 0],
                first |-> 1, isLoading |-> TRUE, error |-> FALSE, listed |-> FALSE]
  BY DEF AdminOpens, LoadStarts, NewAdmin
<1> QED BY <1>1 DEF AdminInv, AdminType

\* A dialog's call and its reload exclude one another, and there is one of them.
LEMMA OneAtATime ==
  ASSUME AdminInv, NEW d \in Dialogs
  PROVE  /\ admin.calls[d] > 0 => admin.calls[d] = 1 /\ admin.reloads[d] = 0 /\ admin.busy[d]
         /\ admin.reloads[d] > 0 => admin.calls[d] = 0 /\ admin.reloads[d] = 1 /\ admin.busy[d]
<1>1. admin.calls[d] \in Nat /\ admin.reloads[d] \in Nat
  BY DEF AdminInv, AdminType
<1>2. admin.calls[d] + admin.reloads[d] = IF admin.busy[d] THEN 1 ELSE 0
  BY DEF AdminInv
<1> QED BY <1>1, <1>2

LEMMA AdminStep ==
  ASSUME AdminInv, \/ AdminClick \/ FirstLoadAnswers
                   \/ \E d \in Dialogs : SendAnswers(d) \/ ReloadAnswers(d)
  PROVE  AdminInv'
<1>0. AdminType /\ admin \in [open : [Dialogs -> BOOLEAN], busy : [Dialogs -> BOOLEAN],
             calls : [Dialogs -> Nat], reloads : [Dialogs -> Nat], first : Nat,
             isLoading : BOOLEAN, error : BOOLEAN, listed : BOOLEAN]
  BY DEF AdminInv, AdminType
<1>1. ASSUME NEW d \in Dialogs, Open(d) \/ Close(d)
      PROVE  AdminInv'
  <2>1. PICK b \in BOOLEAN : admin' = [admin EXCEPT !.open = [admin.open EXCEPT ![d] = b]]
    BY <1>0, <1>1 DEF Open, Close
  <2>2. AdminType'
    BY <1>0, <2>1 DEF AdminType
  <2> QED BY <1>0, <2>1, <2>2 DEF AdminInv
<1>2. ASSUME NEW d \in Dialogs, Send(d)
      PROVE  AdminInv'
  <2> DEFINE more == [admin.calls EXCEPT ![d] = admin.calls[d] + 1]
             held == [admin.busy EXCEPT ![d] = TRUE]
  <2>1. admin' = [admin EXCEPT !.busy = held, !.calls = more] /\ ~admin.busy[d]
    BY <1>0, <1>2 DEF Send, CanSend
  <2>2. more \in [Dialogs -> Nat] /\ held \in [Dialogs -> BOOLEAN]
    BY <1>0
  <2>3. \A e \in Dialogs : more[e] + admin.reloads[e] = IF held[e] THEN 1 ELSE 0
    BY <1>0, <2>1 DEF AdminInv
  <2> HIDE DEF more, held
  <2>4. AdminType'
    BY <1>0, <2>1, <2>2 DEF AdminType
  <2> QED BY <1>0, <2>1, <2>3, <2>4 DEF AdminInv
<1>3. CASE FirstLoadAnswers
  <2>1. \/ admin' = [admin EXCEPT !.first = 0, !.isLoading = FALSE, !.listed = TRUE]
        \/ admin' = [admin EXCEPT !.first = 0, !.isLoading = FALSE, !.error = TRUE]
    BY <1>0, <1>3 DEF FirstLoadAnswers, LoadEnds
  <2>2. CASE admin' = [admin EXCEPT !.first = 0, !.isLoading = FALSE, !.listed = TRUE]
    <3>1. AdminType'
      BY <1>0, <2>2 DEF AdminType
    <3> QED BY <1>0, <2>2, <3>1 DEF AdminInv
  <2>3. CASE admin' = [admin EXCEPT !.first = 0, !.isLoading = FALSE, !.error = TRUE]
    <3>1. AdminType'
      BY <1>0, <2>3 DEF AdminType
    <3> QED BY <1>0, <2>3, <3>1 DEF AdminInv
  <2> QED BY <2>1, <2>2, <2>3
<1>4. ASSUME NEW d \in Dialogs, SendAnswers(d)
      PROVE  AdminInv'
  <2> DEFINE fewer == [admin.calls EXCEPT ![d] = admin.calls[d] - 1]
             idle  == [admin.busy EXCEPT ![d] = FALSE]
             shut  == [admin.open EXCEPT ![d] = FALSE]
             waits == [admin.reloads EXCEPT ![d] = admin.reloads[d] + 1]
  <2>1. /\ admin.calls[d] > 0
        /\ \/ admin' = [admin EXCEPT !.calls = fewer, !.busy = idle]
           \/ admin' = [admin EXCEPT !.calls = fewer, !.open = shut, !.busy = idle]
           \/ admin' = [admin EXCEPT !.calls = fewer, !.open = shut, !.reloads = waits,
                                     !.isLoading = TRUE, !.error = FALSE]
    BY <1>0, <1>4 DEF SendAnswers, LoadStarts
  <2>2. admin.calls[d] = 1 /\ admin.reloads[d] = 0 /\ admin.busy[d]
    BY <2>1, OneAtATime
  <2>3. /\ fewer \in [Dialogs -> Nat] /\ idle \in [Dialogs -> BOOLEAN]
        /\ shut \in [Dialogs -> BOOLEAN] /\ waits \in [Dialogs -> Nat]
    BY <1>0, <2>2
  <2>4. /\ \A e \in Dialogs : fewer[e] + admin.reloads[e] = IF idle[e] THEN 1 ELSE 0
        /\ \A e \in Dialogs : fewer[e] + waits[e] = IF admin.busy[e] THEN 1 ELSE 0
        /\ waits[d] > 0
    BY <1>0, <2>2 DEF AdminInv
  <2> HIDE DEF fewer, idle, shut, waits
  <2>5. AdminType'
    BY <1>0, <2>1, <2>3 DEF AdminType
  <2>6. CASE admin'.reloads = waits
    <3>1. \A e \in Dialogs : admin'.calls[e] + admin'.reloads[e] = IF admin'.busy[e] THEN 1 ELSE 0
      BY <1>0, <2>1, <2>4, <2>6
    <3>2. \E e \in Dialogs : admin'.reloads[e] > 0
      BY <2>4, <2>6
    <3> QED BY <2>5, <3>1, <3>2 DEF AdminInv
  <2>7. CASE admin' = [admin EXCEPT !.calls = fewer, !.busy = idle]
    BY <1>0, <2>4, <2>5, <2>7 DEF AdminInv
  <2>8. CASE admin' = [admin EXCEPT !.calls = fewer, !.open = shut, !.busy = idle]
    BY <1>0, <2>4, <2>5, <2>8 DEF AdminInv
  <2> QED BY <1>0, <2>1, <2>6, <2>7, <2>8
<1>5. ASSUME NEW d \in Dialogs, ReloadAnswers(d)
      PROVE  AdminInv'
  <2> DEFINE fewer == [admin.reloads EXCEPT ![d] = admin.reloads[d] - 1]
             idle  == [admin.busy EXCEPT ![d] = FALSE]
  <2>1. /\ admin.reloads[d] > 0
        /\ \/ admin' = [admin EXCEPT !.reloads = fewer, !.busy = idle,
                                     !.isLoading = FALSE, !.listed = TRUE]
           \/ admin' = [admin EXCEPT !.reloads = fewer, !.busy = idle,
                                     !.isLoading = FALSE, !.error = TRUE]
    BY <1>0, <1>5 DEF ReloadAnswers, LoadEnds
  <2>2. admin.calls[d] = 0 /\ admin.reloads[d] = 1 /\ admin.busy[d]
    BY <2>1, OneAtATime
  <2>3. fewer \in [Dialogs -> Nat] /\ idle \in [Dialogs -> BOOLEAN]
    BY <1>0, <2>2
  <2>4. \A e \in Dialogs : admin.calls[e] + fewer[e] = IF idle[e] THEN 1 ELSE 0
    BY <1>0, <2>2 DEF AdminInv
  <2> HIDE DEF fewer, idle
  <2>5. CASE admin' = [admin EXCEPT !.reloads = fewer, !.busy = idle,
                                    !.isLoading = FALSE, !.listed = TRUE]
    <3>1. AdminType'
      BY <1>0, <2>3, <2>5 DEF AdminType
    <3> QED BY <1>0, <2>4, <2>5, <3>1 DEF AdminInv
  <2>6. CASE admin' = [admin EXCEPT !.reloads = fewer, !.busy = idle,
                                    !.isLoading = FALSE, !.error = TRUE]
    <3>1. AdminType'
      BY <1>0, <2>3, <2>6 DEF AdminType
    <3> QED BY <1>0, <2>4, <2>6, <3>1 DEF AdminInv
  <2> QED BY <2>1, <2>5, <2>6
<1> QED BY <1>1, <1>2, <1>3, <1>4, <1>5 DEF AdminClick

-----------------------------------------------------------------------------
(* All parts together. *)

LEMMA PagesInvAtFirst == Init => PagesInv
<1> SUFFICES ASSUME Init PROVE PagesInv
  OBVIOUS
<1>1. SessionInv
  BY DEF Init, SignInInit, SessionInv
<1>2. ListsInv
  BY EmptyIsAList DEF Init, StoresInit, ListsInv
<1>3. WizardInv
  BY DEF Init, WizardInv, WizardType, NewWizard
<1>4. AdminInv
  BY DEF Init, AdminInv, AdminType, NewAdmin
<1> QED BY <1>1, <1>2, <1>3, <1>4 DEF PagesInv

LEMMA PagesInvStep == PagesInv /\ [Next]_vars => PagesInv'
<1> SUFFICES ASSUME PagesInv, Next PROVE PagesInv'
  <2>1. PagesInv /\ UNCHANGED vars => PagesInv'
    BY DEF PagesInv, vars, SessionInv, ListsInv, ListInv, WizardInv, WizardType,
           AdminInv, AdminType
  <2> QED BY <2>1
<1>1. SessionInv'
  <2>1. CASE UNCHANGED signInVars
    BY <2>1 DEF PagesInv, SessionInv, signInVars
  <2> QED BY <2>1, SessionStep, PagesKeepSession DEF PagesInv
<1>2. WizardInv'
  <2>1. CASE Wizard \/ SubmitAnswers
    BY <2>1, WizardStep DEF PagesInv
  <2>2. CASE UNCHANGED wizard
    BY <2>2 DEF PagesInv, WizardInv, WizardType
  <2>3. CASE wizard' = NewWizard
    BY <2>3, NewWizardInv
  <2>4. \/ Wizard \/ SubmitAnswers
        \/ UNCHANGED wizard
        \/ wizard' = NewWizard
    BY DEF Next, Navigate, Session, Lists, InLists, Forms, InForms, AdminClick, Open,
           Close, Send, FirstLoadAnswers, SendAnswers, ReloadAnswers
  <2> QED BY <2>1, <2>2, <2>3, <2>4
<1>3. AdminInv'
  <2>1. CASE \/ AdminClick \/ FirstLoadAnswers
             \/ \E d \in Dialogs : SendAnswers(d) \/ ReloadAnswers(d)
    BY <2>1, AdminStep DEF PagesInv
  <2>2. CASE UNCHANGED admin
    BY <2>2 DEF PagesInv, AdminInv, AdminType
  <2>3. CASE admin' \in {AdminOpens, NewAdmin}
    BY <2>3, NewAdminInv, AdminOpensInv
  <2>4. \/ AdminClick \/ FirstLoadAnswers
        \/ \E d \in Dialogs : SendAnswers(d) \/ ReloadAnswers(d)
        \/ UNCHANGED admin
        \/ admin' \in {AdminOpens, NewAdmin}
    BY DEF Next, Navigate, Session, Lists, InLists, Forms, InForms, Wizard, goConfirm,
           Back, TryAgain, Step, submit, reset, SubmitAnswers
  <2> QED BY <2>1, <2>2, <2>3, <2>4
<1> QED BY <1>1, <1>2, <1>3, ListsStep DEF PagesInv

\* Whatever the user clicks and in whatever order answers come, the parts of the
\* invariant stay together.
THEOREM PagesInvariant == Spec => []PagesInv
BY PagesInvAtFirst, PagesInvStep, PTL DEF Spec

\* What looks busy is under way, and what is under way looks busy: no spinner is
\* left behind by loads that overlap, no button comes back before its call does.
THEOREM BusyIsUnderWay == Spec => []BusyMeansUnderWay
<1>1. PagesInv => BusyMeansUnderWay
  <2> SUFFICES ASSUME PagesInv PROVE BusyMeansUnderWay
    OBVIOUS
  <2>1. ASSUME NEW list \in {credits, offers, history}, list.state = "loading"
        PROVE  list.loads # EmptyBag
    BY <2>1 DEF PagesInv, ListsInv, ListInv, EmptyBag, SetToBag
  <2>2. wizard.submitting <=> wizard.calls # {}
    BY DEF PagesInv, WizardInv
  <2>3. \A d \in Dialogs : admin.busy[d] <=> admin.calls[d] + admin.reloads[d] > 0
    BY DEF PagesInv, AdminInv, AdminType
  <2>4. admin.isLoading => admin.first > 0 \/ \E d \in Dialogs : admin.reloads[d] > 0
    BY DEF PagesInv, AdminInv
  <2> QED BY <2>1, <2>2, <2>3, <2>4 DEF BusyMeansUnderWay
<1> QED BY <1>1, PagesInvariant, PTL

\* No retirement is asked for without a token and a buyer, wherever the user has
\* signed out or switched accounts: who is signed in has a key.
THEOREM RequestsAlwaysCarrySession == Spec => []RequestsCarrySession
<1>1. PagesInv => RequestsCarrySession
  BY SignInAssumption DEF PagesInv, WizardInv, WizardType, Calls, RequestsCarrySession
<1> QED BY <1>1, PagesInvariant, PTL

\* A result that is shown is the last call's, and nothing is under way.
THEOREM ResultIsAlwaysOfLastCall == Spec => []ResultIsOfLastCall
<1>1. PagesInv => ResultIsOfLastCall
  BY DEF PagesInv, WizardInv, ResultIsOfLastCall
<1> QED BY <1>1, PagesInvariant, PTL
=============================================================================

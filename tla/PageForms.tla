------------------------------ MODULE PageForms ------------------------------
(***************************************************************************)
(* The pages that change something: the retirement wizard                  *)
(* (frontend/src/app/retire/retire.component.ts) and the verifiers' page   *)
(* of the administrator (frontend/src/app/admin).                          *)
(*                                                                         *)
(* Their state is a component's: it begins anew when the page is opened.   *)
(* While a call is awaited the user may go back, close a dialog by its     *)
(* backdrop, open another, or sign out in the header.  Fields are left out *)
(* where nothing depends on what they say.                                 *)
(***************************************************************************)
EXTENDS SignIn, Naturals

CONSTANT MaxCalls  \* bound: calls of one wizard

ASSUME FormsAssumption == MaxCalls \in Nat

VARIABLES
    wizard,   \* the retirement wizard
    admin     \* the verifiers' page

(***************************************************************************)
(* The retirement wizard: a step; the calls under way, numbered for the    *)
(* properties; the call its result is of.                                  *)
(***************************************************************************)
NewWizard == [step |-> "form", submitting |-> FALSE, calls |-> {}, made |-> 0, result |-> 0]

Step(s) == wizard' = [wizard EXCEPT !.step = s] /\ UNCHANGED <<admin, signInVars>>

goConfirm == account # None /\ wizard.step = "form"    /\ Step("confirm")
Back      == account # None /\ wizard.step = "confirm" /\ Step("form")
TryAgain  == account # None /\ wizard.step = "error"   /\ Step("confirm")

\* Faulty variant: the wizard is shown while the wallet has a key.
CanSubmitWithKey == key # None /\ wizard.step = "confirm" /\ ~wizard.submitting

\* Faulty variant: the button stays enabled.
CanSubmitAgain == account # None /\ wizard.step = "confirm"

\* The button is there for who is signed in, and disabled during a call.
CanSubmit == account # None /\ wizard.step = "confirm" /\ ~wizard.submitting

\* The call carries the token and the wallet's key of this moment.
submit ==
    /\ CanSubmit
    /\ wizard.made < MaxCalls
    /\ wizard' = [wizard EXCEPT
                    !.submitting = TRUE, !.made = @ + 1,
                    !.calls = @ \cup {[n |-> wizard.made + 1, token |-> account, buyer |-> key]}]
    /\ UNCHANGED <<admin, signInVars>>

\* The answer is shown whatever step the user has gone to meanwhile.
SubmitAnswers ==
    /\ \E c \in wizard.calls, s \in {"success", "error"} :
         wizard' = [wizard EXCEPT !.step = s, !.submitting = FALSE,
                                  !.calls = @ \ {c}, !.result = c.n]
    /\ UNCHANGED <<admin, signInVars>>

reset ==
    /\ account # None /\ wizard.step = "success"
    /\ wizard' = [wizard EXCEPT !.step = "form", !.result = 0]
    /\ UNCHANGED <<admin, signInVars>>

(***************************************************************************)
(* The verifiers' page: three dialogs with a call each, and loads of the   *)
(* list, at the start and after a registration or a suspension.  The page  *)
(* does not look at the session again.                                     *)
(***************************************************************************)
Dialogs == {"register", "configure", "suspend"}

\* By dialog: whether it is open, its isRegistering, isConfiguring or
\* isSuspending, its calls under way, and those that wait for a load.
NewAdmin == [open    |-> [d \in Dialogs |-> FALSE],
             busy    |-> [d \in Dialogs |-> FALSE],
             calls   |-> [d \in Dialogs |-> 0],
             reloads |-> [d \in Dialogs |-> 0],
             first   |-> 0,
             isLoading |-> FALSE, error |-> FALSE, listed |-> FALSE]

\* load, of ngOnInit or of a dialog's call, sets and clears what all share.
LoadStarts(page) == [page EXCEPT !.isLoading = TRUE, !.error = FALSE]
LoadEnds(page)   == {[page EXCEPT !.isLoading = FALSE, !.listed = TRUE],
                     [page EXCEPT !.isLoading = FALSE, !.error = TRUE]}

AdminOpens == LoadStarts([NewAdmin EXCEPT !.first = 1])

FirstLoadAnswers ==
    /\ admin.first > 0
    /\ admin' \in LoadEnds([admin EXCEPT !.first = 0])
    /\ UNCHANGED <<wizard, signInVars>>

\* The table of verifiers has the buttons of two dialogs, the toolbar that of
\* openRegister; the backdrop of an open dialog covers them.
TableShown == admin.listed /\ ~admin.isLoading /\ ~admin.error

Open(d) ==
    /\ \A e \in Dialogs : ~admin.open[e]
    /\ d = "register" \/ TableShown
    /\ admin' = [admin EXCEPT !.open[d] = TRUE]
    /\ UNCHANGED <<wizard, signInVars>>

\* By its button when no call is under way, by its backdrop always.
Close(d) ==
    /\ admin.open[d]
    /\ admin' = [admin EXCEPT !.open[d] = FALSE]
    /\ UNCHANGED <<wizard, signInVars>>

\* Faulty variant: the button of a dialog that was opened again is enabled.
CanSendAgain(d) == admin.open[d] /\ admin.calls[d] < 2

CanSend(d) == admin.open[d] /\ ~admin.busy[d]

\* submitRegister, submitConfigure, confirmSuspend.
Send(d) ==
    /\ CanSend(d)
    /\ admin' = [admin EXCEPT !.busy[d] = TRUE, !.calls[d] = @ + 1]
    /\ UNCHANGED <<wizard, signInVars>>

\* A call that fails is done.  One that succeeds closes its dialog, also when
\* that is open for another verifier by now, and loads the list again unless it
\* was a configuration.
SendAnswers(d) ==
    LET answered == [admin EXCEPT !.calls[d] = @ - 1]
        closed   == [answered EXCEPT !.open[d] = FALSE]
    IN
    /\ admin.calls[d] > 0
    /\ \/ admin' = [answered EXCEPT !.busy[d] = FALSE]
       \/ /\ d = "configure"
          /\ admin' = [closed EXCEPT !.busy[d] = FALSE]
       \/ /\ d # "configure"
          /\ admin' = LoadStarts([closed EXCEPT !.reloads[d] = @ + 1])
    /\ UNCHANGED <<wizard, signInVars>>

ReloadAnswers(d) ==
    /\ admin.reloads[d] > 0
    /\ admin' \in LoadEnds([admin EXCEPT !.reloads[d] = @ - 1, !.busy[d] = FALSE])
    /\ UNCHANGED <<wizard, signInVars>>
=============================================================================

---------------------------- MODULE WalletSession ----------------------------
(***************************************************************************)
(* Signing in: the frontend's AuthService, StellarWalletService, the       *)
(* connect button and the route guards (frontend/src/app/core), the        *)
(* dashboard's own connect button, and the API's SEP-10 exchange           *)
(* (api/src/auth/auth.service.ts).                                         *)
(*                                                                         *)
(* A login is a chain of awaits: connect the wallet, fetch a challenge for *)
(* its key, have the wallet sign it, exchange it for a token.  Meanwhile   *)
(* the user may pick another account in the wallet extension (Freighter,   *)
(* external), which tells nobody, press the dashboard's button, or let the *)
(* challenge expire.  A token's own expiry is noticed by no code of the    *)
(* frontend and is left out.                                               *)
(***************************************************************************)
EXTENDS Naturals

CONSTANTS
    Accounts,
    None,
    MaxConnects  \* bound: the dashboard's connects under way at once

ASSUME SessionAssumption == None \notin Accounts /\ MaxConnects \in Nat

VARIABLES
    active,     \* Freighter: the account selected in the extension
    publicKey,  \* StellarWalletService: the key, or None
    walletState,
    authState,  \* AuthService
    token,      \* AuthService: the account in the JWT, or None
    login,      \* the login under way: where it is and what it holds
    connecting, \* how many wallet.connect of its own the dashboard awaits
    route       \* the route shown

walletVars == <<publicKey, walletState>>
vars == <<active, publicKey, walletState, authState, token, login, connecting, route>>

NoLogin == [at |-> "none", account |-> None, signer |-> None, fresh |-> TRUE]

Routes == {"connect-wallet", "dashboard", "retire"}

isAuthenticated == authState = "authenticated"
isConnected     == walletState = "connected"

Init ==
    /\ active \in Accounts
    /\ publicKey = None /\ walletState = "disconnected"
    /\ authState = "unauthenticated" /\ token = None
    /\ login = NoLogin /\ connecting = 0
    /\ route = "connect-wallet"

(***************************************************************************)
(* StellarWalletService.connect, called by the login and by the dashboard: *)
(* started, answered with the key selected now, or failed.                 *)
(***************************************************************************)
ConnectStarts  == walletState' = "connecting" /\ UNCHANGED publicKey
ConnectAnswers == walletState' = "connected"  /\ publicKey' = active

\* Faulty variant: the key is forgotten too.
ConnectForgets == walletState' = "error" /\ publicKey' = None

ConnectFails   == walletState' = "error"      /\ UNCHANGED publicKey

(***************************************************************************)
(* AuthService.login.                                                      *)
(***************************************************************************)
\* Faulty variant: the button stays enabled while a login is under way.
CanLoginAgain == ~isAuthenticated

\* The connect button: not shown to an authenticated user, disabled during a
\* login.
CanLogin == ~isAuthenticated /\ authState # "authenticating"

Login ==
    /\ CanLogin
    /\ authState' = "authenticating"
    /\ ConnectStarts
    /\ login' = [NoLogin EXCEPT !.at = "connect"]
    /\ UNCHANGED <<active, token, connecting, route>>

\* Any step's failure ends the login; token and wallet are left alone.
LoginFails == authState' = "error" /\ login' = NoLogin /\ UNCHANGED token

LoginConnects ==
    /\ login.at = "connect"
    /\ \/ /\ ConnectAnswers
          /\ login' = [login EXCEPT !.at = "challenge", !.account = active]
          /\ UNCHANGED <<authState, token>>
       \/ ConnectFails /\ LoginFails
    /\ UNCHANGED <<active, connecting, route>>

\* generateChallenge: a transaction for the account, signed by the server and
\* good for 300 seconds; signTransaction refuses unless the wallet is connected.
LoginChallenged ==
    /\ login.at = "challenge"
    /\ \/ /\ isConnected
          /\ login' = [login EXCEPT !.at = "sign"]
          /\ UNCHANGED <<authState, token>>
       \/ LoginFails
    /\ UNCHANGED <<active, walletVars, connecting, route>>

\* Freighter signs with the account selected now.
LoginSigns ==
    /\ login.at = "sign"
    /\ \/ /\ login' = [login EXCEPT !.at = "exchange", !.signer = active]
          /\ UNCHANGED <<authState, token>>
       \/ LoginFails
    /\ UNCHANGED <<active, walletVars, connecting, route>>

\* verifyAndIssueToken: within its time bounds, and signed by the account that
\* the challenge names (the server's own signature is on every challenge).
Verifies == login.fresh /\ login.signer = login.account

LoginExchanges ==
    /\ login.at = "exchange"
    /\ \/ /\ Verifies
          /\ token' = login.account
          /\ authState' = "authenticated"
          /\ login' = NoLogin
       \/ LoginFails
    /\ UNCHANGED <<active, walletVars, connecting, route>>

LoginStep == LoginConnects \/ LoginChallenged \/ LoginSigns \/ LoginExchanges

\* More than 300 seconds pass since the challenge was made.
ChallengeExpires ==
    /\ login.at \in {"sign", "exchange"} /\ login.fresh
    /\ login' = [login EXCEPT !.fresh = FALSE]
    /\ UNCHANGED <<active, walletVars, authState, token, connecting, route>>

\* Faulty variant: the token outlives the session.
ForgetStateOnly == UNCHANGED token

ForgetToken == token' = None

Logout ==
    /\ isAuthenticated
    /\ ForgetToken
    /\ authState' = "unauthenticated"
    /\ publicKey' = None /\ walletState' = "disconnected"
    /\ UNCHANGED <<active, login, connecting, route>>

(***************************************************************************)
(* The dashboard's button connects the wallet without a login.  It is      *)
(* shown while the wallet is not connected, which needs no session: a      *)
(* logout leaves the route.  It is disabled while the wallet is connecting,*)
(* which a login's failure or a logout ends also for a connect that still  *)
(* waits: several may be under way.                                        *)
(***************************************************************************)
DashboardConnects ==
    /\ route = "dashboard"
    /\ ~isConnected /\ walletState # "connecting"
    /\ connecting < MaxConnects
    /\ connecting' = connecting + 1
    /\ ConnectStarts
    /\ UNCHANGED <<active, authState, token, login, route>>

DashboardConnected ==
    /\ connecting > 0
    /\ connecting' = connecting - 1
    /\ ConnectAnswers \/ ConnectFails
    /\ UNCHANGED <<active, authState, token, login, route>>

SelectAccount ==
    /\ active' \in Accounts \ {active}
    /\ UNCHANGED <<walletVars, authState, token, login, connecting, route>>

\* authGuard sends who is not authenticated to connect-wallet.
authGuard(r) == IF r = "connect-wallet" \/ isAuthenticated THEN r ELSE "connect-wallet"

Navigate(r) ==
    /\ r # route
    /\ route' = authGuard(r)
    /\ UNCHANGED <<active, walletVars, authState, token, login, connecting>>

Next ==
    \/ Login \/ LoginStep \/ ChallengeExpires \/ Logout
    \/ DashboardConnects \/ DashboardConnected \/ SelectAccount
    \/ \E r \in Routes : Navigate(r)

\* The API answers or fails, and so does the wallet, which is to say that the
\* user answers or closes its prompts; nothing else is assumed of users.
Fairness == WF_vars(LoginStep) /\ WF_vars(DashboardConnected)

Spec == Init /\ [][Next]_vars
FairSpec == Spec /\ Fairness

(***************************************************************************)
(* Properties.                                                             *)
(***************************************************************************)
\* The two signals of AuthService agree, and the login button's state with the
\* login: a token exactly when authenticated, a login exactly when
\* authenticating.  The templates test the one and use the other.
AuthStateMatchesToken ==
    /\ token # None <=> isAuthenticated
    /\ login.at # "none" <=> authState = "authenticating"

\* The pages' view of the session: somebody who is signed in is never replaced
\* without signing out, and the wallet always has a key to show beside a token
\* (pages read auth.token()! and wallet.publicKey()!), whatever the dashboard's
\* connect or a late failure do to the wallet.
Pages == INSTANCE SignIn WITH account <- token, key <- publicKey

ImplementsSignIn == Pages!SignInSpec

\* A login ends, signed in or with an error, and the button can be used again,
\* provided that the wallet's prompts are answered or closed.
LoginEnds == authState = "authenticating" ~> authState # "authenticating"
=============================================================================

-------------------------- MODULE WalletSessionProofs --------------------------
(***************************************************************************)
(* Proofs about signing in, for any set of accounts: the session's signals *)
(* agree, and the session the pages use is the one SignIn promises.        *)
(***************************************************************************)
EXTENDS WalletSession, TLAPS

USE SessionAssumption

-----------------------------------------------------------------------------
(* The invariant: what the variables hold, that the two signals agree, and  *)
(* that a login past its connect, like a token, stands on a key of the      *)
(* wallet.                                                                  *)

Connected == {"challenge", "sign", "exchange"}

SessionTypes ==
  /\ active \in Accounts
  /\ publicKey \in Accounts \cup {None}
  /\ token \in Accounts \cup {None}
  /\ login.at \in {"none", "connect"} \cup Connected
  /\ login.at \in Connected => login.account \in Accounts

KeyIsThere == login.at \in Connected \/ token # None => publicKey # None

(* The login is a record that its steps update field by field.              *)
LoginRecord ==
  login \in [at : {"none", "connect"} \cup Connected, account : Accounts \cup {None},
             signer : Accounts \cup {None}, fresh : BOOLEAN]

IInv == LoginRecord /\ SessionTypes /\ AuthStateMatchesToken /\ KeyIsThere

LEMMA InitIInv == Init => IInv
BY DEF Init, IInv, LoginRecord, SessionTypes, AuthStateMatchesToken, KeyIsThere, NoLogin, Connected,
       isAuthenticated

(* A failed step leaves token and key, and ends the login with an error.    *)
LEMMA FailureKeepsInvariant ==
  ASSUME IInv, login.at # "none", LoginFails, UNCHANGED <<active, publicKey>>
  PROVE  IInv' /\ UNCHANGED <<token, publicKey>>
<1>1. login'.at = "none" /\ authState' = "error" /\ UNCHANGED <<token, publicKey, active>>
  BY DEF LoginFails, NoLogin
<1>2. token = None
  BY DEF IInv, AuthStateMatchesToken, isAuthenticated
<1>3. LoginRecord'
  BY DEF LoginFails, NoLogin, LoginRecord
<1> QED BY <1>1, <1>2, <1>3 DEF IInv, SessionTypes, AuthStateMatchesToken, KeyIsThere,
                          isAuthenticated, Connected

(* What a step of the login that does not fail does to the record it keeps. *)
LEMMA LoginGoesOn ==
  ASSUME IInv, login.at # "none", LoginRecord', login'.at \in Connected,
         UNCHANGED <<active, authState, token>>,
         login'.account \in Accounts, publicKey' \in Accounts
  PROVE  IInv'
BY DEF IInv, SessionTypes, AuthStateMatchesToken, KeyIsThere, isAuthenticated, Connected

-----------------------------------------------------------------------------
(* Every step preserves the invariant and is a step of SignIn, or none.     *)

PagesStep == [Pages!SignInNext]_(Pages!signInVars)

LEMMA KeyShown ==
  ASSUME publicKey' \in Accounts, UNCHANGED token
  PROVE  PagesStep
BY DEF PagesStep, Pages!SignInNext, Pages!ShowsKey

LEMMA NothingShown ==
  ASSUME UNCHANGED <<token, publicKey>>
  PROVE  PagesStep
BY DEF PagesStep, Pages!signInVars

LEMMA LoginSteps ==
  ASSUME IInv, LoginStep
  PROVE  IInv' /\ PagesStep
<1>1. CASE LoginConnects
  <2>1. CASE ConnectFails /\ LoginFails
    <3>1. login.at # "none" /\ UNCHANGED <<active, publicKey>>
      BY <1>1, <2>1 DEF LoginConnects, ConnectFails
    <3> QED BY <2>1, <3>1, FailureKeepsInvariant, NothingShown
  <2>2. CASE /\ ConnectAnswers
             /\ login' = [login EXCEPT !.at = "challenge", !.account = active]
             /\ UNCHANGED <<authState, token>>
    <3>1. /\ login.at = "connect" /\ UNCHANGED <<active, authState, token>>
          /\ publicKey' = active
      BY <1>1, <2>2 DEF LoginConnects, ConnectAnswers
    <3>2. login'.at = "challenge" /\ login'.account = active /\ LoginRecord'
      BY <2>2 DEF IInv, LoginRecord, SessionTypes, Connected
    <3>3. active \in Accounts
      BY DEF IInv, SessionTypes
    <3> QED BY <3>1, <3>2, <3>3, LoginGoesOn, KeyShown DEF Connected
  <2> QED BY <1>1, <2>1, <2>2 DEF LoginConnects
<1>2. CASE LoginChallenged \/ LoginSigns
  <2>1. UNCHANGED <<active, publicKey>> /\ login.at \in Connected
    BY <1>2 DEF LoginChallenged, LoginSigns, walletVars, Connected
  <2>2. CASE LoginFails
    BY <2>1, <2>2, FailureKeepsInvariant, NothingShown DEF Connected
  <2>3. CASE /\ \/ login' = [login EXCEPT !.at = "sign"]
                \/ login' = [login EXCEPT !.at = "exchange", !.signer = active]
             /\ UNCHANGED <<authState, token>>
    <3>1. login'.at \in Connected /\ login'.account = login.account /\ LoginRecord'
      BY <2>1, <2>3 DEF IInv, LoginRecord, SessionTypes, Connected
    <3>2. login.account \in Accounts /\ publicKey \in Accounts
      BY <2>1 DEF IInv, SessionTypes, KeyIsThere
    <3> QED BY <2>1, <2>3, <3>1, <3>2, LoginGoesOn, NothingShown DEF Connected
  <2> QED BY <1>2, <2>2, <2>3 DEF LoginChallenged, LoginSigns
<1>3. CASE LoginExchanges
  <2>1. UNCHANGED <<active, publicKey>> /\ login.at = "exchange"
    BY <1>3 DEF LoginExchanges, walletVars
  <2>2. CASE LoginFails
    BY <2>1, <2>2, FailureKeepsInvariant, NothingShown
  <2>3. CASE token' = login.account /\ authState' = "authenticated" /\ login' = NoLogin
    <3>1. /\ login.account \in Accounts /\ publicKey \in Accounts /\ token = None
          /\ login'.at = "none"
      BY <2>1, <2>3 DEF IInv, SessionTypes, KeyIsThere, Connected, AuthStateMatchesToken,
                        isAuthenticated, NoLogin
    <3>2. IInv'
      BY <2>1, <2>3, <3>1 DEF IInv, LoginRecord, SessionTypes, KeyIsThere, Connected,
                              AuthStateMatchesToken, isAuthenticated, NoLogin
    <3>3. Pages!SignsIn
      BY <2>1, <2>3, <3>1 DEF Pages!SignsIn
    <3> QED BY <3>2, <3>3 DEF PagesStep, Pages!SignInNext
  <2> QED BY <1>3, <2>2, <2>3 DEF LoginExchanges
<1> QED BY <1>1, <1>2, <1>3 DEF LoginStep

LEMMA LogoutStep ==
  ASSUME IInv, Logout
  PROVE  IInv' /\ PagesStep
<1>1. /\ token' = None /\ publicKey' = None /\ authState' = "unauthenticated"
      /\ UNCHANGED <<active, login>>
  BY DEF Logout, ForgetToken
<1>2. token # None /\ login.at = "none"
  BY DEF Logout, IInv, AuthStateMatchesToken, isAuthenticated
<1>3. Pages!SignsOut
  BY <1>1, <1>2 DEF Pages!SignsOut
<1>4. IInv'
  BY <1>1, <1>2 DEF IInv, LoginRecord, SessionTypes, KeyIsThere, Connected,
                    AuthStateMatchesToken, isAuthenticated
<1> QED BY <1>3, <1>4 DEF PagesStep, Pages!SignInNext

(* A step beside login and session that at most shows the wallet's key.     *)
LEMMA StepBeside ==
  ASSUME IInv, active' \in Accounts, publicKey' = publicKey \/ publicKey' = active,
         UNCHANGED <<authState, token>>,
         login' = login \/ login' = [login EXCEPT !.fresh = FALSE]
  PROVE  IInv' /\ PagesStep
<1>1. login'.at = login.at /\ login'.account = login.account /\ LoginRecord'
  BY DEF IInv, LoginRecord
<1>2. IInv'
  BY <1>1 DEF IInv, SessionTypes, KeyIsThere, Connected, AuthStateMatchesToken, isAuthenticated
<1>3. PagesStep
  BY KeyShown, NothingShown DEF IInv, SessionTypes
<1> QED BY <1>2, <1>3

LEMMA LoginStarts ==
  ASSUME IInv, Login
  PROVE  IInv' /\ PagesStep
<1>1. /\ authState' = "authenticating" /\ UNCHANGED <<active, publicKey, token>>
      /\ token = None /\ login'.at = "connect" /\ LoginRecord'
  BY DEF Login, CanLogin, ConnectStarts, NoLogin, IInv, AuthStateMatchesToken,
         isAuthenticated, LoginRecord
<1>2. IInv'
  BY <1>1 DEF IInv, SessionTypes, KeyIsThere, Connected, AuthStateMatchesToken, isAuthenticated
<1> QED BY <1>1, <1>2, NothingShown

LEMMA NextIInv == IInv /\ [Next]_vars => IInv' /\ PagesStep
<1> SUFFICES ASSUME IInv, [Next]_vars PROVE IInv' /\ PagesStep
  OBVIOUS
<1>0. active \in Accounts
  BY DEF IInv, SessionTypes
<1>1. CASE Login
  BY <1>1, LoginStarts
<1>2. CASE LoginStep
  BY <1>2, LoginSteps
<1>3. CASE ChallengeExpires
  BY <1>0, <1>3, StepBeside DEF ChallengeExpires, walletVars
<1>4. CASE Logout
  BY <1>4, LogoutStep
<1>5. CASE DashboardConnects
  BY <1>0, <1>5, StepBeside DEF DashboardConnects, ConnectStarts
<1>6. CASE DashboardConnected
  BY <1>0, <1>6, StepBeside DEF DashboardConnected, ConnectAnswers, ConnectFails
<1>7. CASE SelectAccount
  BY <1>7, StepBeside DEF SelectAccount, walletVars
<1>8. CASE \E r \in Routes : Navigate(r)
  BY <1>0, <1>8, StepBeside DEF Navigate, walletVars
<1>9. CASE UNCHANGED vars
  BY <1>0, <1>9, StepBeside DEF vars
<1> QED BY <1>1, <1>2, <1>3, <1>4, <1>5, <1>6, <1>7, <1>8, <1>9 DEF Next

LEMMA Invariant == Spec => []IInv
BY InitIInv, NextIInv, PTL DEF Spec

(* The signals of AuthService agree (AuthStateMatchesToken): a token        *)
(* exactly when authenticated, a login exactly when authenticating.         *)
THEOREM SignalsAgree == Spec => []AuthStateMatchesToken
<1>1. IInv => AuthStateMatchesToken
  BY DEF IInv
<1> QED BY <1>1, Invariant, PTL

(* The session implements SignIn (ImplementsSignIn): no account is replaced *)
(* by another without signing out, and who is signed in has a key to show.  *)
THEOREM SessionImplementsSignIn == Spec => ImplementsSignIn
<1>1. Init => Pages!SignInInit
  BY DEF Init, Pages!SignInInit
<1>2. IInv /\ [Next]_vars => [Pages!SignInNext]_(Pages!signInVars)
  BY NextIInv DEF PagesStep
<1> QED BY <1>1, <1>2, Invariant, PTL DEF Spec, ImplementsSignIn, Pages!SignInSpec
=============================================================================

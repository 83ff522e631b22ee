------------------------------- MODULE SignIn -------------------------------
(***************************************************************************)
(* What the pages may rely on of the session: abstract specification of    *)
(* the frontend's AuthService and StellarWalletService, which              *)
(* WalletSession implements and FrontendPages uses.                        *)
(*                                                                         *)
(* Somebody is signed in or nobody is; one account is never replaced by    *)
(* another without signing out; and whoever is signed in, the wallet has a *)
(* key to show - not always the account's own, for the wallet may be       *)
(* connected again with another key.                                       *)
(***************************************************************************)
CONSTANTS Accounts, None

ASSUME SignInAssumption == None \notin Accounts

VARIABLES
    account,  \* the account of the API token, or None
    key       \* the public key the wallet shows, or None

signInVars == <<account, key>>

SignInInit == account = None /\ key = None

SignsIn ==
    /\ account = None /\ key # None
    /\ account' \in Accounts
    /\ UNCHANGED key

ShowsKey ==
    /\ key' \in Accounts
    /\ UNCHANGED account

SignsOut ==
    /\ account # None
    /\ account' = None /\ key' = None

SignInNext == SignsIn \/ ShowsKey \/ SignsOut

SignInSpec == SignInInit /\ [][SignInNext]_signInVars
=============================================================================

------------------------- MODULE MCRegistrySessions -------------------------
(***************************************************************************)
(* RegistrySessions on a small instance, from the deployment on: one key   *)
(* that initialises the registry and fills its rosters, a session's        *)
(* initiator who may be a verifier too, a second issuer who may submit in  *)
(* its sessions, two ledgers, two credits.                                 *)
(***************************************************************************)
EXTENDS RegistrySessions, TLC

CONSTANTS ad, iss1, iss2, ret

MCAddress == {ad, iss1, iss2, ret}

MCNonceBound == (ad :> 4) @@ (iss1 :> 1) @@ (iss2 :> 1) @@ (ret :> 0)

MCInit == Init /\ SessionsInit

MCSpec == MCInit /\ [][SessionsNext]_allSessionVars
=============================================================================

------------------------- MODULE RegistryGovernance -------------------------
(***************************************************************************)
(* The administrative half of the credit registry contract: who is admin,  *)
(* verifier or issuer, which methodologies and projects exist, the pause   *)
(* switch and the per-address replay nonces.                               *)
(*                                                                         *)
(* A contract call is atomic: a call that returns an error (or panics) is  *)
(* rolled back whole, its consumed nonce included.  So every action below  *)
(* is a call that succeeds, and a rejected call is a stuttering step.      *)
(* `require_auth` is the identity of the caller: an action's address       *)
(* parameter has signed the call.  A nonce argument that differs from the  *)
(* stored nonce is a rejected call, hence actions do not carry it.         *)
(***************************************************************************)
EXTENDS Integers, FiniteSets, Sequences, Functions

CONSTANTS
  Address,        \* every account and contract address
  Contract,       \* the addresses that are deployed contracts
  AdminKeys,      \* addresses that initialise the registry or are proposed as admin
  VerifierKeys,   \* addresses the admin may try to register as verifiers
  IssuerKeys,     \* addresses the admin may try to register as issuers
  Methodology,    \* methodology codes
  Project,        \* project ids
  Service,        \* the ServiceType capabilities of a verifier
  Thresholds,     \* required_approvals arguments given to initialize
  NonceBound,     \* bound: how many nonces each address may consume
  None            \* an absent Option / a storage key that is not set

ASSUME AddressAssumption ==
  /\ Contract \subseteq Address
  /\ AdminKeys \subseteq Address
  /\ VerifierKeys \subseteq Address
  /\ IssuerKeys \subseteq Address
  /\ None \notin Address

ASSUME ThresholdAssumption == Thresholds \subseteq Nat

ASSUME NonceBoundAssumption == NonceBound \in [Address -> Nat]

VARIABLES
  admin,              \* DataKey::Admin
  pendingAdmin,       \* DataKey::PendingAdmin
  retirementContract, \* DataKey::RetirementContract
  requiredApprovals,  \* DataKey::RequiredApprovals
  paused,             \* DataKey::Paused
  nonce,              \* DataKey::Nonce(address)
  verifiers,          \* DataKey::VerifierSet (a duplicate-free Vec, as a set)
  issuers,            \* DataKey::IssuerSet
  methodologies,      \* DataKey::MethodologySet, the codes
  projects,           \* the ids under DataKey::Project
  services,           \* DataKey::VerifierServices(address)
  pendingCount        \* DataKey::VerifierPendingCount(address)

adminVars == <<admin, pendingAdmin, retirementContract, requiredApprovals, paused>>

rosterVars == <<verifiers, issuers, methodologies, projects, services>>

govVars == <<admin, pendingAdmin, retirementContract, requiredApprovals, paused,
             nonce, verifiers, issuers, methodologies, projects, services,
             pendingCount>>

Account == Address \ Contract

-----------------------------------------------------------------------------
(* Nonces and authorisation. *)

(* Faulty variant: the nonce is compared and not stored back. *)
CompareNonce(a) == nonce[a] < NonceBound[a] /\ nonce' = nonce

ConsumeNonce(a) ==
  /\ nonce[a] < NonceBound[a]
  /\ nonce' = [nonce EXCEPT ![a] = @ + 1]

(* An address that equals the stored admin; None is no address. *)
IsAdmin(a) == a \in Address /\ admin = a

NoncedAdminCall(a) == IsAdmin(a) /\ ConsumeNonce(a)

-----------------------------------------------------------------------------
GovInit ==
  /\ admin = None
  /\ pendingAdmin = None
  /\ retirementContract = None
  /\ requiredApprovals = 1
  /\ paused = FALSE
  /\ nonce = [a \in Address |-> 0]
  /\ verifiers = {}
  /\ issuers = {}
  /\ methodologies = {}
  /\ projects = {}
  /\ services = [a \in Address |-> {}]
  /\ pendingCount = [a \in Address |-> 0]

Initialize(a, rc, required) ==
  /\ admin = None
  /\ required > 0
  /\ admin' = a
  /\ retirementContract' = rc
  /\ requiredApprovals' = required
  /\ UNCHANGED <<pendingAdmin, paused, nonce, rosterVars, pendingCount>>

Pause(a) ==
  /\ IsAdmin(a)
  /\ paused' = TRUE
  /\ UNCHANGED <<admin, pendingAdmin, retirementContract, requiredApprovals,
                 nonce, rosterVars, pendingCount>>

Unpause(a) ==
  /\ IsAdmin(a)
  /\ paused' = FALSE
  /\ UNCHANGED <<admin, pendingAdmin, retirementContract, requiredApprovals,
                 nonce, rosterVars, pendingCount>>

ProposeAdmin(a, candidate) ==
  /\ IsAdmin(a)
  /\ pendingAdmin' = candidate
  /\ UNCHANGED <<admin, retirementContract, requiredApprovals, paused, nonce,
                 rosterVars, pendingCount>>

AcceptAdmin(a) ==
  /\ pendingAdmin = a
  /\ admin' = a
  /\ pendingAdmin' = None
  /\ UNCHANGED <<retirementContract, requiredApprovals, paused, nonce,
                 rosterVars, pendingCount>>

(* The new code is outside the model: what is left is the consumed nonce. *)
Upgrade(a) ==
  /\ NoncedAdminCall(a)
  /\ UNCHANGED <<adminVars, rosterVars, pendingCount>>

-----------------------------------------------------------------------------
(* The rosters. *)

RegisterVerifier(a, v) ==
  /\ NoncedAdminCall(a)
  /\ v \notin verifiers
  /\ verifiers' = verifiers \cup {v}
  /\ UNCHANGED <<adminVars, issuers, methodologies, projects, services, pendingCount>>

(* "Block removal if the verifier still has pending credits assigned." *)
Removable(v) == v \in verifiers /\ pendingCount[v] = 0

RemoveVerifier(a, v) ==
  /\ NoncedAdminCall(a)
  /\ Removable(v)
  /\ verifiers' = verifiers \ {v}
  /\ UNCHANGED <<adminVars, issuers, methodologies, projects, services, pendingCount>>

RegisterIssuer(a, i) ==
  /\ NoncedAdminCall(a)
  /\ i \notin issuers
  /\ issuers' = issuers \cup {i}
  /\ UNCHANGED <<adminVars, verifiers, methodologies, projects, services, pendingCount>>

(* Removing an address that is no issuer succeeds and consumes the nonce. *)
RemoveIssuer(a, i) ==
  /\ NoncedAdminCall(a)
  /\ issuers' = issuers \ {i}
  /\ UNCHANGED <<adminVars, verifiers, methodologies, projects, services, pendingCount>>

RegisterMethodology(a, m) ==
  /\ NoncedAdminCall(a)
  /\ m \notin methodologies
  /\ methodologies' = methodologies \cup {m}
  /\ UNCHANGED <<adminVars, verifiers, issuers, projects, services, pendingCount>>

(* Any account, no nonce, no pause check; the recorded owner is never read. *)
RegisterProject(p) ==
  /\ p \notin projects
  /\ projects' = projects \cup {p}
  /\ UNCHANGED <<adminVars, nonce, verifiers, issuers, methodologies, services,
                 pendingCount>>

(* The three service calls differ in the set they store for the verifier. *)
SetServices(a, v, kept) ==
  /\ NoncedAdminCall(a)
  /\ v \in verifiers
  /\ services' = [services EXCEPT ![v] = kept]
  /\ UNCHANGED <<adminVars, verifiers, issuers, methodologies, projects, pendingCount>>

ConfigureVerifierServices(a, v, all) == SetServices(a, v, all)

AddVerifierService(a, v, s) == SetServices(a, v, services[v] \cup {s})

RemoveVerifierService(a, v, s) == SetServices(a, v, services[v] \ {s})

-----------------------------------------------------------------------------
GovernanceStep ==
  \/ \E a \in AdminKeys, rc \in Contract, k \in Thresholds : Initialize(a, rc, k)
  \/ \E a \in AdminKeys : Pause(a) \/ Unpause(a) \/ AcceptAdmin(a) \/ Upgrade(a)
  \/ \E a, candidate \in AdminKeys : ProposeAdmin(a, candidate)
  \/ \E a \in AdminKeys, v \in VerifierKeys :
       RegisterVerifier(a, v) \/ RemoveVerifier(a, v)
  \/ \E a \in AdminKeys, i \in IssuerKeys : RegisterIssuer(a, i) \/ RemoveIssuer(a, i)
  \/ \E a \in AdminKeys, m \in Methodology : RegisterMethodology(a, m)
  \/ \E p \in Project : RegisterProject(p)
  \/ \E a \in AdminKeys, v \in VerifierKeys, all \in SUBSET Service :
       ConfigureVerifierServices(a, v, all)
  \/ \E a \in AdminKeys, v \in VerifierKeys, s \in Service :
       AddVerifierService(a, v, s) \/ RemoveVerifierService(a, v, s)

-----------------------------------------------------------------------------
GovTypeOK ==
  /\ admin \in AdminKeys \cup {None}
  /\ pendingAdmin \in AdminKeys \cup {None}
  /\ retirementContract \in Contract \cup {None}
  /\ requiredApprovals \in Nat \ {0}
  /\ paused \in BOOLEAN
  /\ nonce \in [Address -> Nat]
  /\ verifiers \subseteq VerifierKeys
  /\ issuers \subseteq IssuerKeys
  /\ methodologies \subseteq Methodology
  /\ projects \subseteq Project
  /\ services \in [Address -> SUBSET Service]
  /\ pendingCount \in [Address -> Nat]
=============================================================================

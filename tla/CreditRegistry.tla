--------------------------- MODULE CreditRegistry ---------------------------
(***************************************************************************)
(* The credit registry contract: the life of a carbon credit from its      *)
(* submission by an issuer, through the approvals that mint it, to its     *)
(* transfer, split, merge, flagging, dispute, expiry and retirement.       *)
(*                                                                         *)
(* A credit's 32-byte id is a hash over the contract-wide CreditNonce, so  *)
(* the model's id IS the CreditNonce value it was derived from: two ids    *)
(* are equal exactly when their nonces are.                                *)
(*                                                                         *)
(* The retirement contract is met here only through mark_retired; module   *)
(* Retirement composes the two.                                            *)
(***************************************************************************)
EXTENDS RegistryGovernance, Sums

CONSTANTS
  MaxCredits,     \* bound: how many credit ids may ever be derived
  Vintage,        \* vintage_year arguments of submit_credit
  FirstVintage,   \* the oldest accepted vintage year (1990)
  CurrentYear,    \* the year of the ledger's timestamp
  Geography,      \* accepted geography codes
  TonnesArg,      \* tonnes arguments of submit_credit
  MaxTonnes,      \* the upper bound of one submission (1e15 units)
  SplitArg,       \* split_tonnes arguments of split_credit
  Recipient,      \* the addresses that transfers name as the new owner
  MergeArg,       \* credit_ids arguments of merge_credits
  MaxI128         \* the largest i128: merge_credits' checked_add fails above it

CreditId == 0 .. MaxCredits - 1

ASSUME CreditBoundAssumption == MaxCredits \in Nat

ASSUME TonnesAssumption ==
  /\ TonnesArg \subseteq Int
  /\ SplitArg \subseteq Int
  /\ MaxTonnes \in Nat
  /\ MaxI128 \in Nat

ASSUME YearAssumption ==
  Vintage \subseteq Nat /\ FirstVintage \in Nat /\ CurrentYear \in Nat

ASSUME RecipientAssumption == Recipient \subseteq Address

ASSUME MergeAssumption == MergeArg \subseteq Seq(CreditId)

ASSUME NoneAssumption == None \notin CreditId

VARIABLES
  creditNonce,    \* DataKey::CreditNonce
  meta,           \* the fields of DataKey::Credit(id) that no operation rewrites
  owner,          \* CreditMetadata.owner
  status,         \* CreditMetadata.status; "Absent" when the key is not set
  approvals,      \* DataKey::CreditApprovals(id)
  approvalCount,  \* VerifierReputation.approval_count
  disputeCount,   \* VerifierReputation.dispute_count
  projectCredits, \* DataKey::ProjectCredits(project)
  byVintage,      \* DataKey::CreditByProjectVintage(project, year)
  disputes        \* the ids under DataKey::Dispute(id)

creditVars == <<creditNonce, meta, owner, status, approvals, approvalCount,
                disputeCount, projectCredits, byVintage, disputes>>

vars == <<govVars, creditVars>>

Status == {"Pending", "Active", "Retired", "Flagged", "Disputed", "Expired"}

Exists(c) == status[c] # "Absent"

Metadata == [project : Project, issuer : IssuerKeys, vintage : Vintage,
             methodology : Methodology, geography : Geography, tonnes : Nat]

(* None stands in for the metadata of an id that no credit has yet. *)
NoMetadata == None

CreditInit ==
  /\ creditNonce = 0
  /\ meta = [c \in CreditId |-> NoMetadata]
  /\ owner = [c \in CreditId |-> None]
  /\ status = [c \in CreditId |-> "Absent"]
  /\ approvals = [c \in CreditId |-> << >>]
  /\ approvalCount = [a \in Address |-> 0]
  /\ disputeCount = [a \in Address |-> 0]
  /\ projectCredits = [p \in Project |-> << >>]
  /\ byVintage = [p \in Project |-> [v \in Vintage |-> None]]
  /\ disputes = {}

-----------------------------------------------------------------------------
(* Guards on a credit's status, one per operation that has one. *)

(* The credit that holds a project-vintage slot against a new submission. *)
Occupies(s) == s \in {"Pending", "Active"}

Flaggable(s) == s \notin {"Absent", "Retired", "Flagged"}

Expirable(s) == s \notin {"Absent", "Retired", "Expired"}

(* Faulty variant: only a second dispute is refused. *)
DisputableWhenRetired(s) == s \notin {"Absent", "Disputed"}

Disputable(s) == s \notin {"Absent", "Retired", "Disputed"}

(* Pending counters: every verifier registered NOW is charged or relieved. *)
ChargeVerifiers(counts) ==
  [a \in Address |-> IF a \in verifiers THEN counts[a] + 1 ELSE counts[a]]

RelieveVerifiers(counts) ==
  [a \in Address |-> IF a \in verifiers /\ counts[a] > 0 THEN counts[a] - 1 ELSE counts[a]]

UnchangedGovernanceExceptNonce ==
  UNCHANGED <<adminVars, rosterVars, pendingCount>>

(* Faulty variant: a split stores the counter of its first child only. *)
DeriveOneId(n) == creditNonce' = creditNonce + 1

(* n ids are derived from the counter, which moves past them. *)
DeriveIds(n) ==
  /\ creditNonce + n <= MaxCredits
  /\ creditNonce' = creditNonce + n

(* Faulty variant: of several new ids only the last one is indexed. *)
IndexLastCredit(p, ids) ==
  projectCredits' = [projectCredits EXCEPT ![p] = Append(@, ids[Len(ids)])]

(* add_credit_to_project, once for each of the ids. *)
IndexCredits(p, ids) ==
  projectCredits' = [projectCredits EXCEPT ![p] = @ \o ids]

(* Faulty variant: the slot is filled after the counter has moved on. *)
FillSlotLate(p, v, c) == byVintage' = [byVintage EXCEPT ![p][v] = c + 1]

FillSlot(p, v, c) == byVintage' = [byVintage EXCEPT ![p][v] = c]

-----------------------------------------------------------------------------
(* Issuance. *)

AcceptedSubmission(i, p, v, m, t) ==
  /\ p \in projects
  /\ i \in issuers
  /\ m \in methodologies
  /\ t > 0 /\ t <= MaxTonnes
  /\ v >= FirstVintage /\ v <= CurrentYear + 1

SlotIsFree(p, v) ==
  \A c \in CreditId : byVintage[p][v] = c => ~Occupies(status[c])

SubmitCredit(i, p, v, m, g, t) ==
  LET c == creditNonce IN
  /\ admin # None
  /\ ~paused
  /\ ConsumeNonce(i)
  /\ AcceptedSubmission(i, p, v, m, t)
  /\ SlotIsFree(p, v)
  /\ DeriveIds(1)
  /\ meta' = [meta EXCEPT ![c] = [project |-> p, issuer |-> i, vintage |-> v,
                                  methodology |-> m, geography |-> g, tonnes |-> t]]
  /\ owner' = [owner EXCEPT ![c] = i]
  /\ status' = [status EXCEPT ![c] = "Pending"]
  /\ FillSlot(p, v, c)
  /\ IndexCredits(p, <<c>>)
  /\ pendingCount' = ChargeVerifiers(pendingCount)
  /\ UNCHANGED <<adminVars, rosterVars, approvals, approvalCount, disputeCount, disputes>>

MayApprove(v, c) ==
  /\ status[c] = "Pending"
  /\ v \notin Range(approvals[c])

(* Faulty variants: the quorum must be exceeded; one short of it is enough. *)
QuorumExceeded(signatures) == Len(signatures) > requiredApprovals

QuorumOneShort(signatures) == Len(signatures) + 1 >= requiredApprovals

QuorumReached(signatures) == Len(signatures) >= requiredApprovals

ApproveAndMint(v, c) ==
  LET signatures == Append(approvals[c], v) IN
  /\ ~paused
  /\ v \in verifiers
  /\ ConsumeNonce(v)
  /\ MayApprove(v, c)
  /\ approvalCount' = [approvalCount EXCEPT ![v] = @ + 1]
  /\ \/ /\ QuorumReached(signatures)
        /\ status' = [status EXCEPT ![c] = "Active"]
        /\ approvals' = [approvals EXCEPT ![c] = << >>]
        /\ pendingCount' = RelieveVerifiers(pendingCount)
     \/ /\ ~QuorumReached(signatures)
        /\ approvals' = [approvals EXCEPT ![c] = signatures]
        /\ UNCHANGED <<status, pendingCount>>
  /\ UNCHANGED <<adminVars, rosterVars, creditNonce, meta, owner, disputeCount,
                 projectCredits, byVintage, disputes>>

FlagCredit(v, c) ==
  /\ ~paused
  /\ v \in verifiers
  /\ ConsumeNonce(v)
  /\ Flaggable(status[c])
  /\ status' = [status EXCEPT ![c] = "Flagged"]
  /\ disputeCount' = [disputeCount EXCEPT ![v] = @ + 1]
  /\ pendingCount' = IF status[c] = "Pending" THEN RelieveVerifiers(pendingCount)
                                              ELSE pendingCount
  /\ UNCHANGED <<adminVars, rosterVars, creditNonce, meta, owner, approvals,
                 approvalCount, projectCredits, byVintage, disputes>>

-----------------------------------------------------------------------------
(* Custody. *)

(* Faulty variant: the caller is not compared with the owner. *)
OwnedByAnyone(a, c) == Exists(c)

OwnedBy(a, c) == Exists(c) /\ owner[c] = a

(* The credits' part of the mark_retired calls, one per credit of C, that a *)
(* transaction of the retirement contract makes.                            *)
MarkRetired(C) ==
  /\ ~paused
  /\ \A c \in C : status[c] = "Active"
  /\ status' = [c \in CreditId |-> IF c \in C THEN "Retired" ELSE status[c]]
  /\ UNCHANGED <<creditNonce, meta, owner, approvals, approvalCount, disputeCount,
                 projectCredits, byVintage, disputes>>

(* The registered retirement contract calls mark_retired. *)
RetirementContractMarksRetired(C) ==
  /\ retirementContract # None
  /\ MarkRetired(C)
  /\ UNCHANGED govVars

(* No check of the status: a retired or disputed credit changes hands too. *)
TransferCredit(from, to, c) ==
  /\ ~paused
  /\ ConsumeNonce(from)
  /\ OwnedBy(from, c)
  /\ owner' = [owner EXCEPT ![c] = to]
  /\ UnchangedGovernanceExceptNonce
  /\ UNCHANGED <<creditNonce, meta, status, approvals, approvalCount, disputeCount,
                 projectCredits, byVintage, disputes>>

ValidSplit(c, t) == t > 0 /\ t < meta[c].tonnes

(* The children are clones: they inherit the status, whatever it is. *)
SplitCredit(a, c, t) ==
  LET first  == creditNonce
      second == creditNonce + 1
  IN
  /\ ~paused
  /\ ConsumeNonce(a)
  /\ OwnedBy(a, c)
  /\ ValidSplit(c, t)
  /\ DeriveIds(2)
  /\ meta' = [meta EXCEPT ![first]  = [meta[c] EXCEPT !.tonnes = t],
                          ![second] = [meta[c] EXCEPT !.tonnes = @ - t]]
  /\ owner' = [owner EXCEPT ![first] = a, ![second] = a]
  /\ status' = [status EXCEPT ![first] = status[c], ![second] = status[c],
                              ![c] = "Retired"]
  /\ IndexCredits(meta[c].project, <<first, second>>)
  /\ UnchangedGovernanceExceptNonce
  /\ UNCHANGED <<approvals, approvalCount, disputeCount, byVintage, disputes>>

(* What merge_credits requires to agree between the sources. *)
Batch(c) == [meta[c] EXCEPT !.tonnes = 0]

MergedTonnes(ids) == SumTo([i \in DOMAIN ids |-> meta[ids[i]].tonnes], Len(ids))

(* Faulty variant: the status of the sources is not looked at. *)
MergeableInAnyStatus(a, ids) ==
  /\ Len(ids) >= 2
  /\ \A i \in DOMAIN ids : OwnedBy(a, ids[i]) /\ Batch(ids[i]) = Batch(ids[1])

Mergeable(a, ids) ==
  /\ Len(ids) >= 2
  /\ \A i \in DOMAIN ids :
       /\ OwnedBy(a, ids[i])
       /\ status[ids[i]] = "Active"
       /\ Batch(ids[i]) = Batch(ids[1])
  /\ MergedTonnes(ids) \in 0 .. MaxI128

(* No nonce and no pause check; nothing rejects an id that is listed twice. *)
MergeCredits(a, ids) ==
  LET c == creditNonce IN
  /\ Mergeable(a, ids)
  /\ DeriveIds(1)
  /\ meta' = [meta EXCEPT ![c] = [meta[ids[1]] EXCEPT !.tonnes = MergedTonnes(ids)]]
  /\ owner' = [owner EXCEPT ![c] = a]
  /\ status' = [x \in CreditId |-> IF x = c THEN "Active"
                                   ELSE IF x \in Range(ids) THEN "Retired"
                                   ELSE status[x]]
  /\ IndexCredits(meta[ids[1]].project, <<c>>)
  /\ UNCHANGED <<govVars, approvals, approvalCount, disputeCount, byVintage, disputes>>

-----------------------------------------------------------------------------
(* Expiry and disputes: no nonce, no pause check, no pending bookkeeping. *)

(* Faulty variant: a credit that loses its dispute is retired, as the        *)
(* revocation diagram of docs/architecture.md:506 has it.                   *)
SetStatusRevoked(c, s) ==
  /\ status' = [status EXCEPT ![c] = IF s = "Flagged" THEN "Retired" ELSE s]
  /\ UNCHANGED <<govVars, creditNonce, meta, owner, approvals, approvalCount,
                 disputeCount, projectCredits, byVintage>>

SetStatus(c, s) ==
  /\ status' = [status EXCEPT ![c] = s]
  /\ UNCHANGED <<govVars, creditNonce, meta, owner, approvals, approvalCount,
                 disputeCount, projectCredits, byVintage>>

ExpireCredit(a, c) ==
  /\ IsAdmin(a)
  /\ Expirable(status[c])
  /\ SetStatus(c, "Expired")
  /\ UNCHANGED disputes

(* Any account may dispute. *)
DisputeCredit(c) ==
  /\ Disputable(status[c])
  /\ SetStatus(c, "Disputed")
  /\ disputes' = disputes \cup {c}

(* outcome 0 clears the credit, outcome 1 flags it, any other is rejected. *)
ResolveDispute(a, c, outcome) ==
  /\ IsAdmin(a)
  /\ status[c] = "Disputed"
  /\ outcome \in {0, 1}
  /\ SetStatus(c, IF outcome = 0 THEN "Active" ELSE "Flagged")
  /\ disputes' = disputes \ {c}

-----------------------------------------------------------------------------
(* Steps of the registry's callers, apart from its retirement contract. *)
SubmissionStep ==
  \E i \in IssuerKeys, p \in Project, v \in Vintage, m \in Methodology,
     g \in Geography, t \in TonnesArg : SubmitCredit(i, p, v, m, g, t)

HandlingStep ==
  \/ \E v \in VerifierKeys, c \in CreditId : ApproveAndMint(v, c) \/ FlagCredit(v, c)
  \/ \E from \in Account, to \in Recipient, c \in CreditId : TransferCredit(from, to, c)
  \/ \E a \in Account, c \in CreditId, t \in SplitArg : SplitCredit(a, c, t)
  \/ \E a \in Account, ids \in MergeArg : MergeCredits(a, ids)
  \/ \E a \in AdminKeys, c \in CreditId : ExpireCredit(a, c)
  \/ \E c \in CreditId : DisputeCredit(c)
  \/ \E a \in AdminKeys, c \in CreditId, o \in {0, 1} : ResolveDispute(a, c, o)

RegistryStep ==
  \/ GovernanceStep /\ UNCHANGED creditVars
  \/ SubmissionStep
  \/ HandlingStep

Init == GovInit /\ CreditInit

Next ==
  \/ RegistryStep
  \/ \E C \in SUBSET CreditId : RetirementContractMarksRetired(C)

Spec == Init /\ [][Next]_vars

-----------------------------------------------------------------------------
(* Invariants. *)

(* Every variable has its type; a credit has metadata and an owner exactly  *)
(* when its status says it exists, which it does exactly for derived ids.   *)
TypeOK ==
  /\ GovTypeOK
  /\ creditNonce \in 0 .. MaxCredits
  /\ meta \in [CreditId -> Metadata \cup {NoMetadata}]
  /\ owner \in [CreditId -> Address \cup {None}]
  /\ status \in [CreditId -> Status \cup {"Absent"}]
  /\ \A c \in CreditId : Exists(c) <=> c < creditNonce
  /\ \A c \in CreditId : Exists(c) => meta[c] \in Metadata /\ owner[c] \in Address
  /\ approvals \in [CreditId -> Seq(VerifierKeys)]
  /\ approvalCount \in [Address -> Nat]
  /\ disputeCount \in [Address -> Nat]
  /\ projectCredits \in [Project -> Seq(CreditId)]
  /\ byVintage \in [Project -> [Vintage -> CreditId \cup {None}]]
  /\ disputes \subseteq CreditId

(* list_credits_by_project is exact: across submissions, splits and merges  *)
(* every existing credit is listed once, under its own project.             *)
ProjectIndexExact ==
  \A p \in Project :
    /\ IsInjective(projectCredits[p])
    /\ Range(projectCredits[p]) = {c \in CreditId : Exists(c) /\ meta[c].project = p}

(* The duplicate check of submit_credit looks at the right credit: a slot   *)
(* that is set names an existing credit of its own project and vintage.     *)
SlotNamesItsCredit ==
  \A p \in Project, v \in Vintage :
    byVintage[p][v] # None =>
      LET c == byVintage[p][v] IN
        Exists(c) /\ meta[c].project = p /\ meta[c].vintage = v

(* The signatures collected for a credit are of distinct verifiers, and a   *)
(* credit still Pending has fewer than the quorum: approve_and_mint never   *)
(* leaves a fully signed credit unminted, nor counts a verifier twice.      *)
ApprovalsSound ==
  \A c \in CreditId :
    /\ IsInjective(approvals[c])
    /\ status[c] = "Pending" => Len(approvals[c]) < requiredApprovals

(* A charge on the pending counter never outlives the verifier's membership *)
(* (remove_verifier refuses while it is positive), so a re-registered       *)
(* verifier starts from zero.                                               *)
OnlyVerifiersAreCharged ==
  \A a \in Address : pendingCount[a] > 0 => a \in verifiers

(* A verifier's reputation is backed by calls it signed: each approval and  *)
(* each flag consumed one of its nonces, and a signature still on file for  *)
(* a credit is one of the approvals counted.                                *)
ReputationIsBacked ==
  \A a \in Address :
    /\ approvalCount[a] + disputeCount[a] <= nonce[a]
    /\ \A c \in CreditId : a \in Range(approvals[c]) => approvalCount[a] > 0

(* Before initialize succeeds no one can put anything into the registry:    *)
(* accept_admin and submit_credit find nothing to work with, only projects  *)
(* (which need no admin) may be there.                                      *)
EmptyBeforeInitialize ==
  admin = None => /\ pendingAdmin = None
                  /\ verifiers = {} /\ issuers = {} /\ methodologies = {}
                  /\ \A a \in Address : nonce[a] = 0
                  /\ creditNonce = 0

(* What the source says of the registry, and the code does not keep.        *)

(* A credit is Active only after required_approvals distinct verifiers have *)
(* approved (lib.rs:408): at least that many have an approval to their name.*)
(* resolve_dispute breaks it: it activates a credit disputed while Pending. *)
ActiveTookQuorum ==
  (\E c \in CreditId : status[c] = "Active") =>
    Cardinality({a \in Address : approvalCount[a] > 0}) >= requiredApprovals

-----------------------------------------------------------------------------
(* Action properties. *)

(* Once initialised, the registry stays so: through any hand-over of the    *)
(* admin role, the quorum and the retirement contract stay what initialize  *)
(* set them to.                                                             *)
QuorumIsFixed ==
  [][admin # None => /\ admin' # None
                     /\ requiredApprovals' = requiredApprovals
                     /\ retirementContract' = retirementContract]_vars

(* Retirement is permanent: no dispute, resolution, flag, expiry, split or  *)
(* merge ever gives a retired credit another status.                        *)
RetiredIsFinal ==
  [][\A c \in CreditId : status[c] = "Retired" => status'[c] = "Retired"]_vars

(* An id is never reused: a credit that exists keeps its metadata (tonnes   *)
(* included) for ever, and once it has left Pending it never returns there. *)
CreditIsPermanent ==
  [][\A c \in CreditId : Exists(c) =>
       /\ meta'[c] = meta[c]
       /\ status'[c] # "Absent"
       /\ status'[c] = "Pending" => status[c] = "Pending"]_vars

(* A credit leaves its owner's hands only in a call that consumed a nonce   *)
(* of that very owner: no other operation moves custody.                    *)
CustodyMovesByOwnersNonce ==
  [][\A c \in CreditId : Exists(c) /\ owner'[c] # owner[c] =>
       nonce'[owner[c]] = nonce[owner[c]] + 1]_vars

(* approve_and_mint mints only on the quorum: in the step from Pending to   *)
(* Active the verifiers that signed before, and the one whose nonce this    *)
(* step consumes, are at least required_approvals distinct verifiers.       *)
MintTakesQuorum ==
  [][\A c \in CreditId :
       status[c] = "Pending" /\ status'[c] = "Active" =>
         \E v \in verifiers :
           /\ nonce'[v] = nonce[v] + 1
           /\ Cardinality(Range(approvals[c]) \cup {v}) >= requiredApprovals]_vars

(* While the registry is paused no credit changes hands, collects a         *)
(* signature or enters Pending, by submission or by a split.                *)
PauseHoldsCustody ==
  [][paused => \A c \in CreditId :
       /\ approvals'[c] = approvals[c]
       /\ Exists(c) => owner'[c] = owner[c]
       /\ status'[c] = "Pending" => status[c] = "Pending"]_vars
=============================================================================

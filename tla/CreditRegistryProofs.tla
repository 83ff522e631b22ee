------------------------ MODULE CreditRegistryProofs ------------------------
(***************************************************************************)
(* What holds of CreditRegistry for every set of addresses, projects and   *)
(* credits, every quorum and every bound: types first, then the life of a  *)
(* credit, governance, approvals and reputation, and last the two indexes  *)
(* and the pause switch.  Each lemma follows one part of the state through *)
(* every operation; the theorems put them together.  The last part is      *)
(* about RegistryLedger: the registry implements CarbonSupply while no     *)
(* merge names a credit twice, and only such a merge keeps it from that.   *)
(***************************************************************************)
EXTENDS RegistryLedger, SumsProofs, SequenceTheorems, FiniteSetTheorems, TLAPS

USE AddressAssumption, ThresholdAssumption, NonceBoundAssumption,
    CreditBoundAssumption, TonnesAssumption, YearAssumption,
    RecipientAssumption, MergeAssumption, NoneAssumption
    DEF CreditId

-----------------------------------------------------------------------------
(* Types of the governance state. *)

LEMMA ConsumeNonceType ==
  ASSUME nonce \in [Address -> Nat], NEW a \in Address, ConsumeNonce(a)
  PROVE  nonce' \in [Address -> Nat]
BY DEF ConsumeNonce

LEMMA GovernanceStepType ==
  ASSUME GovTypeOK, GovernanceStep
  PROVE  GovTypeOK'
<1>1. ASSUME NEW a \in AdminKeys, NEW rc \in Contract, NEW k \in Thresholds,
             Initialize(a, rc, k)
      PROVE  GovTypeOK'
  BY <1>1 DEF GovTypeOK, Initialize, rosterVars
<1>2. ASSUME NEW a \in AdminKeys,
             Pause(a) \/ Unpause(a) \/ AcceptAdmin(a) \/ Upgrade(a)
      PROVE  GovTypeOK'
  <2>1. CASE Pause(a)
    BY <2>1 DEF GovTypeOK, Pause, rosterVars
  <2>2. CASE Unpause(a)
    BY <2>2 DEF GovTypeOK, Unpause, rosterVars
  <2>3. CASE AcceptAdmin(a)
    BY <2>3 DEF GovTypeOK, AcceptAdmin, rosterVars
  <2>4. CASE Upgrade(a)
    BY <2>4, ConsumeNonceType DEF GovTypeOK, Upgrade, NoncedAdminCall, adminVars, rosterVars
  <2> QED BY <1>2, <2>1, <2>2, <2>3, <2>4
<1>3. ASSUME NEW a \in AdminKeys, NEW candidate \in AdminKeys, ProposeAdmin(a, candidate)
      PROVE  GovTypeOK'
  BY <1>3 DEF GovTypeOK, ProposeAdmin, rosterVars
<1>4. ASSUME NEW a \in AdminKeys, NEW v \in VerifierKeys,
             RegisterVerifier(a, v) \/ RemoveVerifier(a, v)
      PROVE  GovTypeOK'
  BY <1>4, ConsumeNonceType
     DEF GovTypeOK, RegisterVerifier, RemoveVerifier, NoncedAdminCall, adminVars
<1>5. ASSUME NEW a \in AdminKeys, NEW i \in IssuerKeys,
             RegisterIssuer(a, i) \/ RemoveIssuer(a, i)
      PROVE  GovTypeOK'
  BY <1>5, ConsumeNonceType
     DEF GovTypeOK, RegisterIssuer, RemoveIssuer, NoncedAdminCall, adminVars
<1>6. ASSUME NEW a \in AdminKeys, NEW m \in Methodology, RegisterMethodology(a, m)
      PROVE  GovTypeOK'
  BY <1>6, ConsumeNonceType
     DEF GovTypeOK, RegisterMethodology, NoncedAdminCall, adminVars
<1>7. ASSUME NEW p \in Project, RegisterProject(p)
      PROVE  GovTypeOK'
  BY <1>7 DEF GovTypeOK, RegisterProject, adminVars
<1>8. ASSUME NEW a \in AdminKeys, NEW v \in VerifierKeys, NEW kept \in SUBSET Service,
             SetServices(a, v, kept)
      PROVE  GovTypeOK'
  BY <1>8, ConsumeNonceType DEF GovTypeOK, SetServices, NoncedAdminCall, adminVars
<1>9. ASSUME NEW a \in AdminKeys, NEW v \in VerifierKeys, NEW s \in Service,
             AddVerifierService(a, v, s) \/ RemoveVerifierService(a, v, s)
      PROVE  GovTypeOK'
  <2>1. services[v] \in SUBSET Service
    BY DEF GovTypeOK
  <2> QED BY <1>9, <1>8, <2>1 DEF AddVerifierService, RemoveVerifierService
<1> QED
  BY <1>1, <1>2, <1>3, <1>4, <1>5, <1>6, <1>7, <1>8, <1>9
     DEF GovernanceStep, ConfigureVerifierServices

-----------------------------------------------------------------------------
(* Types of the credit state. *)

(* What the steps of most proofs need to know of the governance state.      *)
LEMMA GovernanceTypes ==
  ASSUME TypeOK
  PROVE  /\ nonce \in [Address -> Nat]
         /\ pendingCount \in [Address -> Nat]
         /\ requiredApprovals \in Nat /\ requiredApprovals > 0
<1>1. GovTypeOK
  BY DEF TypeOK
<1> QED BY <1>1 DEF GovTypeOK

(* A function stays in its set when one value is replaced by a good one. *)
LEMMA UpdateType ==
  ASSUME NEW D, NEW S, NEW f \in [D -> S], NEW d \in D, NEW e \in S
  PROVE  [f EXCEPT ![d] = e] \in [D -> S]
OBVIOUS

(* add_credit_to_project keeps every list a list of credit ids. *)
LEMMA IndexType ==
  ASSUME NEW f \in [Project -> Seq(CreditId)], NEW p \in Project, NEW ids \in Seq(CreditId)
  PROVE  [f EXCEPT ![p] = @ \o ids] \in [Project -> Seq(CreditId)]
<1>1. f[p] \o ids \in Seq(CreditId)
  OBVIOUS
<1> QED BY <1>1

(* Every id in a list of ids is an element of the list's range. *)
LEMMA RangeOfIds ==
  ASSUME NEW ids \in Seq(CreditId), NEW x, x \in Range(ids)
  PROVE  \E i \in DOMAIN ids : x = ids[i]
BY DEF Range

(* Approvals are appended by verifiers only, so ChargeVerifiers and         *)
(* RelieveVerifiers are all that happens to the pending counters.           *)
LEMMA PendingCountType ==
  ASSUME pendingCount \in [Address -> Nat]
  PROVE  /\ ChargeVerifiers(pendingCount) \in [Address -> Nat]
         /\ RelieveVerifiers(pendingCount) \in [Address -> Nat]
BY DEF ChargeVerifiers, RelieveVerifiers

LEMMA SubmitType ==
  ASSUME TypeOK, NEW i \in IssuerKeys, NEW p \in Project, NEW v \in Vintage,
         NEW m \in Methodology, NEW g \in Geography, NEW t \in TonnesArg,
         SubmitCredit(i, p, v, m, g, t)
  PROVE  TypeOK'
<1> DEFINE record == [project |-> p, issuer |-> i, vintage |-> v,
                      methodology |-> m, geography |-> g, tonnes |-> t]
<1>1. /\ creditNonce \in CreditId
      /\ i \in Address
      /\ record \in Metadata
  <2>1. creditNonce \in CreditId /\ i \in Address
    BY DEF TypeOK, SubmitCredit, DeriveIds
  <2>2. t \in Nat
    <3>1. AcceptedSubmission(i, p, v, m, t)
      BY DEF SubmitCredit
    <3> QED BY <3>1 DEF AcceptedSubmission
  <2> QED BY <2>1, <2>2 DEF Metadata
<1>2. GovTypeOK'
  BY <1>1, ConsumeNonceType, PendingCountType
     DEF TypeOK, GovTypeOK, SubmitCredit, adminVars, rosterVars
<1>3. /\ creditNonce' = creditNonce + 1
      /\ meta' = [meta EXCEPT ![creditNonce] = record]
      /\ owner' = [owner EXCEPT ![creditNonce] = i]
      /\ status' = [status EXCEPT ![creditNonce] = "Pending"]
      /\ projectCredits' = [projectCredits EXCEPT ![p] = @ \o <<creditNonce>>]
      /\ byVintage' = [byVintage EXCEPT ![p][v] = creditNonce]
      /\ UNCHANGED <<approvals, approvalCount, disputeCount, disputes>>
  BY DEF SubmitCredit, DeriveIds, IndexCredits, FillSlot
<1> HIDE DEF record
<1>4. /\ creditNonce' \in 0 .. MaxCredits
      /\ meta' \in [CreditId -> Metadata \cup {NoMetadata}]
      /\ owner' \in [CreditId -> Address \cup {None}]
      /\ status' \in [CreditId -> Status \cup {"Absent"}]
  BY <1>1, <1>3 DEF TypeOK, Status
<1>5. \A c \in CreditId : Exists(c)' <=> c < creditNonce'
  BY <1>1, <1>3 DEF TypeOK, Exists
<1>6. \A c \in CreditId : Exists(c)' => meta'[c] \in Metadata /\ owner'[c] \in Address
  BY <1>1, <1>3 DEF TypeOK, Exists
<1>7. /\ projectCredits' \in [Project -> Seq(CreditId)]
      /\ byVintage' \in [Project -> [Vintage -> CreditId \cup {None}]]
  <2>1. <<creditNonce>> \in Seq(CreditId)
    BY <1>1
  <2>2. projectCredits \in [Project -> Seq(CreditId)]
    BY DEF TypeOK
  <2>3. projectCredits' \in [Project -> Seq(CreditId)]
    BY <1>3, <2>1, <2>2, IndexType
  <2> QED BY <1>1, <1>3, <2>3 DEF TypeOK
<1> QED BY <1>2, <1>3, <1>4, <1>5, <1>6, <1>7 DEF TypeOK

LEMMA ApproveType ==
  ASSUME TypeOK, NEW v \in VerifierKeys, NEW c \in CreditId, ApproveAndMint(v, c)
  PROVE  TypeOK'
<1>1. GovTypeOK'
  BY ConsumeNonceType, PendingCountType
     DEF TypeOK, GovTypeOK, ApproveAndMint, adminVars, rosterVars
<1>2. approvals' \in [CreditId -> Seq(VerifierKeys)]
  <2>1. /\ << >> \in Seq(VerifierKeys)
        /\ Append(approvals[c], v) \in Seq(VerifierKeys)
    BY DEF TypeOK
  <2>2. approvals \in [CreditId -> Seq(VerifierKeys)]
    BY DEF TypeOK
  <2>3. \/ approvals' = [approvals EXCEPT ![c] = << >>]
        \/ approvals' = [approvals EXCEPT ![c] = Append(approvals[c], v)]
    BY DEF ApproveAndMint
  <2>4. CASE approvals' = [approvals EXCEPT ![c] = << >>]
    BY <2>1, <2>2, <2>4, UpdateType
  <2>5. CASE approvals' = [approvals EXCEPT ![c] = Append(approvals[c], v)]
    BY <2>1, <2>2, <2>5, UpdateType
  <2> QED BY <2>3, <2>4, <2>5
<1>3. /\ status' \in [CreditId -> Status \cup {"Absent"}]
      /\ \A x \in CreditId : Exists(x)' <=> Exists(x)
  <2>1. status' = [status EXCEPT ![c] = "Active"] \/ status' = status
    BY DEF ApproveAndMint
  <2>2. status[c] = "Pending" /\ status \in [CreditId -> Status \cup {"Absent"}]
    BY DEF TypeOK, ApproveAndMint, MayApprove
  <2> QED BY <2>1, <2>2 DEF Exists, Status
<1>4. approvalCount' \in [Address -> Nat]
  BY DEF TypeOK, ApproveAndMint
<1> QED BY <1>1, <1>2, <1>3, <1>4 DEF TypeOK, ApproveAndMint

LEMMA FlagType ==
  ASSUME TypeOK, NEW v \in VerifierKeys, NEW c \in CreditId, FlagCredit(v, c)
  PROVE  TypeOK'
<1>1. GovTypeOK'
  BY ConsumeNonceType, PendingCountType
     DEF TypeOK, GovTypeOK, FlagCredit, adminVars, rosterVars
<1>2. /\ status' \in [CreditId -> Status \cup {"Absent"}]
      /\ \A x \in CreditId : Exists(x)' <=> Exists(x)
      /\ disputeCount' \in [Address -> Nat]
  BY DEF TypeOK, FlagCredit, Flaggable, Exists, Status
<1> QED BY <1>1, <1>2 DEF TypeOK, FlagCredit

LEMMA TransferType ==
  ASSUME TypeOK, NEW from \in Address, NEW to \in Address, NEW c \in CreditId,
         TransferCredit(from, to, c)
  PROVE  TypeOK'
<1>1. GovTypeOK'
  BY ConsumeNonceType
     DEF TypeOK, GovTypeOK, TransferCredit, UnchangedGovernanceExceptNonce,
         adminVars, rosterVars
<1>2. /\ owner' \in [CreditId -> Address \cup {None}]
      /\ \A x \in CreditId : Exists(x) => owner'[x] \in Address
  BY DEF TypeOK, TransferCredit, Exists
<1> QED BY <1>1, <1>2 DEF TypeOK, TransferCredit, Exists

LEMMA SplitType ==
  ASSUME TypeOK, NEW a \in Account, NEW c \in CreditId, NEW t \in SplitArg,
         SplitCredit(a, c, t)
  PROVE  TypeOK'
<1> DEFINE first  == creditNonce
           second == creditNonce + 1
           whole  == meta[c]
           part   == [whole EXCEPT !.tonnes = t]
           rest   == [whole EXCEPT !.tonnes = @ - t]
<1>1. GovTypeOK'
  BY ConsumeNonceType
     DEF TypeOK, GovTypeOK, SplitCredit, UnchangedGovernanceExceptNonce,
         adminVars, rosterVars, Account
<1>2. /\ first \in CreditId /\ second \in CreditId
      /\ Exists(c) /\ c < creditNonce
      /\ whole \in Metadata
      /\ t > 0 /\ t < whole.tonnes
  BY DEF TypeOK, SplitCredit, OwnedBy, ValidSplit, DeriveIds
<1>3. part \in Metadata /\ rest \in Metadata /\ whole.project \in Project
  <2>1. whole.tonnes \in Nat
    <3>1. \A r \in Metadata : r.tonnes \in Nat
      BY DEF Metadata
    <3> QED BY <1>2, <3>1
  <2>2. whole \in Metadata /\ t \in Nat /\ whole.tonnes - t \in Nat
    <3>1. t \in Int /\ t > 0 /\ t < whole.tonnes /\ whole \in Metadata
      BY <1>2
    <3> HIDE DEF whole
    <3> QED BY <2>1, <3>1
  <2> HIDE DEF whole
  <2> QED BY <2>1, <2>2 DEF Metadata
<1>4. /\ creditNonce' = creditNonce + 2
      /\ meta' = [meta EXCEPT ![first] = part, ![second] = rest]
      /\ owner' = [owner EXCEPT ![first] = a, ![second] = a]
      /\ status' = [status EXCEPT ![first] = status[c], ![second] = status[c],
                                  ![c] = "Retired"]
      /\ projectCredits' = [projectCredits EXCEPT ![whole.project] = @ \o <<first, second>>]
      /\ UNCHANGED <<approvals, approvalCount, disputeCount, byVintage, disputes>>
  BY <1>2 DEF SplitCredit, DeriveIds, IndexCredits
<1> HIDE DEF part, rest, whole
<1>5. /\ creditNonce' \in 0 .. MaxCredits
      /\ meta' \in [CreditId -> Metadata \cup {NoMetadata}]
      /\ owner' \in [CreditId -> Address \cup {None}]
      /\ status' \in [CreditId -> Status \cup {"Absent"}]
  <2>1. creditNonce' \in 0 .. MaxCredits
    BY <1>2, <1>4
  <2>2. meta' \in [CreditId -> Metadata \cup {NoMetadata}]
    BY <1>2, <1>3, <1>4 DEF TypeOK
  <2>3. owner' \in [CreditId -> Address \cup {None}]
    BY <1>2, <1>4 DEF TypeOK, Account
  <2>4. status' \in [CreditId -> Status \cup {"Absent"}]
    BY <1>2, <1>4 DEF TypeOK, Status
  <2> QED BY <2>1, <2>2, <2>3, <2>4
<1>6. \A x \in CreditId : Exists(x)' <=> x < creditNonce'
  <2>1. SUFFICES ASSUME NEW x \in CreditId
                 PROVE  status'[x] # "Absent" <=> x < creditNonce + 2
    BY <1>4 DEF Exists
  <2>2. status \in [CreditId -> Status \cup {"Absent"}]
    BY DEF TypeOK
  <2>3. status[x] # "Absent" <=> x < creditNonce
    BY DEF TypeOK, Exists
  <2>4. status[c] # "Absent"
    BY <1>2 DEF Exists
  <2>5. status'[x] = IF x = c THEN "Retired"
                     ELSE IF x = first \/ x = second THEN status[c] ELSE status[x]
    BY <1>2, <1>4, <2>2
  <2>6. creditNonce \in Nat /\ x \in Nat /\ c < creditNonce
    BY <1>2 DEF TypeOK
  <2> QED BY <2>3, <2>4, <2>5, <2>6
<1>7. \A x \in CreditId : Exists(x)' => meta'[x] \in Metadata /\ owner'[x] \in Address
  BY <1>2, <1>3, <1>4 DEF TypeOK, Exists, Account
<1>8. projectCredits' \in [Project -> Seq(CreditId)]
  <2>1. <<first, second>> \in Seq(CreditId)
    BY <1>2
  <2>2. projectCredits \in [Project -> Seq(CreditId)]
    BY DEF TypeOK
  <2> QED BY <1>3, <1>4, <2>1, <2>2, IndexType
<1> QED BY <1>1, <1>4, <1>5, <1>6, <1>7, <1>8 DEF TypeOK

LEMMA MergeType ==
  ASSUME TypeOK, NEW a \in Account, NEW ids \in MergeArg, MergeCredits(a, ids)
  PROVE  TypeOK'
<1> DEFINE total  == MergedTonnes(ids)
           merged == [meta[ids[1]] EXCEPT !.tonnes = total]
<1>1. /\ creditNonce \in CreditId
      /\ ids \in Seq(CreditId) /\ Len(ids) >= 2
      /\ \A i \in DOMAIN ids : Exists(ids[i]) /\ ids[i] < creditNonce
      /\ ids[1] \in CreditId
      /\ meta[ids[1]] \in Metadata
      /\ total \in Nat
  <2>1. creditNonce \in CreditId /\ Len(ids) >= 2 /\ total \in Nat
    BY DEF TypeOK, MergeCredits, Mergeable, DeriveIds
  <2>2. ids \in Seq(CreditId)
    OBVIOUS
  <2>3. \A i \in DOMAIN ids : Exists(ids[i]) /\ ids[i] \in CreditId
    <3>1. \A i \in DOMAIN ids : ids[i] \in CreditId
      BY <2>2
    <3>2. \A i \in DOMAIN ids : OwnedBy(a, ids[i])
      BY DEF MergeCredits, Mergeable
    <3> QED BY <3>1, <3>2 DEF OwnedBy
  <2>4. 1 \in DOMAIN ids
    BY <2>1, <2>2
  <2> QED BY <2>1, <2>2, <2>3, <2>4 DEF TypeOK
<1> HIDE DEF total
<1>2. merged \in Metadata /\ meta[ids[1]].project \in Project
  BY <1>1 DEF Metadata
<1>3. /\ creditNonce' = creditNonce + 1
      /\ meta' = [meta EXCEPT ![creditNonce] = merged]
      /\ owner' = [owner EXCEPT ![creditNonce] = a]
      /\ status' = [x \in CreditId |-> IF x = creditNonce THEN "Active"
                                       ELSE IF x \in Range(ids) THEN "Retired"
                                       ELSE status[x]]
      /\ projectCredits' = [projectCredits EXCEPT ![meta[ids[1]].project] =
                                                    @ \o <<creditNonce>>]
      /\ UNCHANGED <<govVars, approvals, approvalCount, disputeCount, byVintage, disputes>>
  BY DEF MergeCredits, DeriveIds, IndexCredits, total
<1> HIDE DEF merged
<1>4. /\ creditNonce' \in 0 .. MaxCredits
      /\ meta' \in [CreditId -> Metadata \cup {NoMetadata}]
      /\ owner' \in [CreditId -> Address \cup {None}]
      /\ status' \in [CreditId -> Status \cup {"Absent"}]
  <2>1. creditNonce' \in 0 .. MaxCredits
    BY <1>1, <1>3
  <2>2. meta' \in [CreditId -> Metadata \cup {NoMetadata}]
    BY <1>1, <1>2, <1>3 DEF TypeOK
  <2>3. owner' \in [CreditId -> Address \cup {None}]
    BY <1>1, <1>3 DEF TypeOK, Account
  <2>4. status' \in [CreditId -> Status \cup {"Absent"}]
    BY <1>3 DEF TypeOK, Status
  <2> QED BY <2>1, <2>2, <2>3, <2>4
<1>5. \A x \in CreditId : x \in Range(ids) => x < creditNonce
  BY <1>1, RangeOfIds
<1>6. \A x \in CreditId : Exists(x)' <=> x < creditNonce'
  <2>1. SUFFICES ASSUME NEW x \in CreditId
                 PROVE  status'[x] # "Absent" <=> x < creditNonce + 1
    BY <1>3 DEF Exists
  <2>2. status[x] # "Absent" <=> x < creditNonce
    BY DEF TypeOK, Exists
  <2>3. status'[x] = IF x = creditNonce THEN "Active"
                     ELSE IF x \in Range(ids) THEN "Retired" ELSE status[x]
    BY <1>3
  <2> QED BY <1>1, <1>5, <2>2, <2>3
<1>7. \A x \in CreditId : Exists(x)' => meta'[x] \in Metadata /\ owner'[x] \in Address
  BY <1>1, <1>2, <1>3, <1>6 DEF TypeOK, Account
<1>8. projectCredits' \in [Project -> Seq(CreditId)]
  <2>1. <<creditNonce>> \in Seq(CreditId)
    BY <1>1
  <2>2. projectCredits \in [Project -> Seq(CreditId)]
    BY DEF TypeOK
  <2> QED BY <1>2, <1>3, <2>1, <2>2, IndexType
<1>9. GovTypeOK'
  BY <1>3 DEF TypeOK, GovTypeOK, govVars
<1> QED BY <1>3, <1>4, <1>6, <1>7, <1>8, <1>9 DEF TypeOK

(* A step that only gives an existing credit another status, and settles   *)
(* which disputes are open, keeps the types.                               *)
LEMMA StatusChangeType ==
  ASSUME TypeOK, NEW c \in CreditId, Exists(c), NEW s \in Status, SetStatus(c, s),
         disputes' \subseteq CreditId
  PROVE  TypeOK'
<1>1. GovTypeOK'
  BY DEF TypeOK, GovTypeOK, SetStatus, govVars
<1>2. /\ status' \in [CreditId -> Status \cup {"Absent"}]
      /\ \A x \in CreditId : Exists(x)' <=> Exists(x)
  BY DEF TypeOK, SetStatus, Exists, Status
<1> QED BY <1>1, <1>2 DEF TypeOK, SetStatus

LEMMA MarkRetiredType ==
  ASSUME TypeOK, NEW C \in SUBSET CreditId, MarkRetired(C), UNCHANGED govVars
  PROVE  TypeOK'
<1>1. GovTypeOK'
  BY DEF TypeOK, GovTypeOK, govVars
<1>2. /\ status' \in [CreditId -> Status \cup {"Absent"}]
      /\ \A x \in CreditId : Exists(x)' <=> Exists(x)
  BY DEF TypeOK, MarkRetired, Exists, Status
<1> QED BY <1>1, <1>2 DEF TypeOK, MarkRetired

LEMMA HandlingStepType ==
  ASSUME TypeOK, HandlingStep
  PROVE  TypeOK'
<1>1. ASSUME NEW a \in AdminKeys, NEW c \in CreditId, ExpireCredit(a, c)
      PROVE  TypeOK'
  BY <1>1, StatusChangeType DEF ExpireCredit, Expirable, Exists, Status, TypeOK
<1>2. ASSUME NEW c \in CreditId, DisputeCredit(c)
      PROVE  TypeOK'
  BY <1>2, StatusChangeType DEF DisputeCredit, Disputable, Exists, Status, TypeOK
<1>3. ASSUME NEW a \in AdminKeys, NEW c \in CreditId, NEW o \in {0, 1},
             ResolveDispute(a, c, o)
      PROVE  TypeOK'
  BY <1>3, StatusChangeType DEF ResolveDispute, Exists, Status, TypeOK
<1>4. ASSUME NEW from \in Account, NEW to \in Recipient, NEW c \in CreditId,
             TransferCredit(from, to, c)
      PROVE  TypeOK'
  BY <1>4, TransferType DEF Account
<1> QED
  BY <1>1, <1>2, <1>3, <1>4, ApproveType, FlagType, SplitType, MergeType DEF HandlingStep

LEMMA InitType == Init => TypeOK
<1> SUFFICES ASSUME Init PROVE TypeOK
  OBVIOUS
<1>1. GovTypeOK
  <2>1. /\ admin \in AdminKeys \cup {None}
        /\ pendingAdmin \in AdminKeys \cup {None}
        /\ retirementContract \in Contract \cup {None}
        /\ paused \in BOOLEAN
    BY Zenon DEF Init, GovInit
  <2>0. requiredApprovals \in Nat \ {0}
    BY DEF Init, GovInit
  <2>2. /\ verifiers \subseteq VerifierKeys
        /\ issuers \subseteq IssuerKeys
        /\ methodologies \subseteq Methodology
        /\ projects \subseteq Project
    BY DEF Init, GovInit
  <2>3. /\ nonce \in [Address -> Nat]
        /\ services \in [Address -> SUBSET Service]
        /\ pendingCount \in [Address -> Nat]
    BY DEF Init, GovInit
  <2> QED BY <2>0, <2>1, <2>2, <2>3 DEF GovTypeOK
<1>2. /\ creditNonce \in 0 .. MaxCredits
      /\ meta \in [CreditId -> Metadata \cup {NoMetadata}]
      /\ owner \in [CreditId -> Address \cup {None}]
      /\ status \in [CreditId -> Status \cup {"Absent"}]
      /\ \A c \in CreditId : ~Exists(c) /\ ~(c < creditNonce)
  BY DEF Init, CreditInit, Exists
<1>3. /\ approvals \in [CreditId -> Seq(VerifierKeys)]
      /\ projectCredits \in [Project -> Seq(CreditId)]
  <2>1. << >> \in Seq(VerifierKeys) /\ << >> \in Seq(CreditId)
    OBVIOUS
  <2> QED BY <2>1 DEF Init, CreditInit
<1>4. /\ approvalCount \in [Address -> Nat]
      /\ disputeCount \in [Address -> Nat]
      /\ byVintage \in [Project -> [Vintage -> CreditId \cup {None}]]
      /\ disputes \subseteq CreditId
  BY DEF Init, CreditInit
<1> QED BY <1>1, <1>2, <1>3, <1>4 DEF TypeOK

LEMMA NextType ==
  ASSUME TypeOK, [Next]_vars
  PROVE  TypeOK'
<1>1. CASE GovernanceStep /\ UNCHANGED creditVars
  BY <1>1, GovernanceStepType DEF TypeOK, creditVars, Exists
<1>2. CASE UNCHANGED vars
  BY <1>2 DEF TypeOK, GovTypeOK, vars, govVars, creditVars, Exists
<1>3. CASE SubmissionStep
  BY <1>3, SubmitType DEF SubmissionStep
<1>4. CASE \E C \in SUBSET CreditId : RetirementContractMarksRetired(C)
  BY <1>4, MarkRetiredType DEF RetirementContractMarksRetired
<1> QED BY <1>1, <1>2, <1>3, <1>4, HandlingStepType DEF Next, RegistryStep

(* Every variable keeps its type, and a credit's metadata and owner exist   *)
(* exactly for the ids the contract has derived so far.                     *)
THEOREM TypeCorrect == Spec => []TypeOK
BY InitType, NextType, PTL DEF Spec

-----------------------------------------------------------------------------
(* The life of one credit. *)

(* What no step may do to a credit that exists. *)
KeepsCredit(c) ==
  Exists(c) =>
    /\ meta'[c] = meta[c]
    /\ status'[c] # "Absent"
    /\ status'[c] = "Pending" => status[c] = "Pending"
    /\ status[c] = "Retired" => status'[c] = "Retired"

LEMMA SetStatusKeepsCredits ==
  ASSUME TypeOK, NEW c \in CreditId, NEW s \in {"Active", "Flagged", "Disputed", "Expired"},
         status[c] # "Retired", SetStatus(c, s)
  PROVE  \A x \in CreditId : KeepsCredit(x)
BY DEF TypeOK, SetStatus, KeepsCredit, Exists

LEMMA CreditsAreKept ==
  ASSUME TypeOK, [Next]_vars
  PROVE  \A x \in CreditId : KeepsCredit(x)
<1>0. /\ status \in [CreditId -> Status \cup {"Absent"}]
      /\ meta \in [CreditId -> Metadata \cup {NoMetadata}]
      /\ \A x \in CreditId : Exists(x) <=> x < creditNonce
      /\ creditNonce \in Nat
  BY DEF TypeOK
<1>1. CASE UNCHANGED vars
  BY <1>1 DEF vars, creditVars, KeepsCredit, Exists
<1>2. CASE GovernanceStep /\ UNCHANGED creditVars
  BY <1>2 DEF creditVars, KeepsCredit, Exists
<1>3. ASSUME NEW i \in IssuerKeys, NEW p \in Project, NEW v \in Vintage, NEW m \in Methodology,
             NEW g \in Geography, NEW t \in TonnesArg, SubmitCredit(i, p, v, m, g, t)
      PROVE  \A x \in CreditId : KeepsCredit(x)
  <2>1. /\ status' = [status EXCEPT ![creditNonce] = "Pending"]
        /\ \A x \in CreditId : x # creditNonce => meta'[x] = meta[x]
    BY <1>0, <1>3 DEF SubmitCredit
  <2> QED BY <1>0, <2>1 DEF KeepsCredit, Exists
<1>4. ASSUME NEW v \in VerifierKeys, NEW c \in CreditId, ApproveAndMint(v, c)
      PROVE  \A x \in CreditId : KeepsCredit(x)
  <2>1. /\ status[c] = "Pending" /\ meta' = meta
        /\ status' = [status EXCEPT ![c] = "Active"] \/ status' = status
    BY <1>4 DEF ApproveAndMint, MayApprove
  <2> QED BY <1>0, <2>1 DEF KeepsCredit, Exists
<1>5. ASSUME NEW v \in VerifierKeys, NEW c \in CreditId, FlagCredit(v, c)
      PROVE  \A x \in CreditId : KeepsCredit(x)
  BY <1>0, <1>5 DEF FlagCredit, Flaggable, KeepsCredit, Exists
<1>6. ASSUME NEW from \in Account, NEW to \in Recipient, NEW c \in CreditId,
             TransferCredit(from, to, c)
      PROVE  \A x \in CreditId : KeepsCredit(x)
  BY <1>6 DEF TransferCredit, KeepsCredit, Exists
<1>7. ASSUME NEW a \in Account, NEW c \in CreditId, NEW t \in SplitArg, SplitCredit(a, c, t)
      PROVE  \A x \in CreditId : KeepsCredit(x)
  <2>1. /\ c < creditNonce
        /\ status' = [status EXCEPT ![creditNonce] = status[c], ![creditNonce + 1] = status[c],
                                    ![c] = "Retired"]
        /\ \A x \in CreditId : x # creditNonce /\ x # creditNonce + 1 => meta'[x] = meta[x]
    BY <1>0, <1>7 DEF SplitCredit, OwnedBy
  <2> QED BY <1>0, <2>1 DEF KeepsCredit, Exists
<1>8. ASSUME NEW a \in Account, NEW ids \in MergeArg, MergeCredits(a, ids)
      PROVE  \A x \in CreditId : KeepsCredit(x)
  <2>1. /\ status' = [x \in CreditId |-> IF x = creditNonce THEN "Active"
                                         ELSE IF x \in Range(ids) THEN "Retired"
                                         ELSE status[x]]
        /\ \A x \in CreditId : x # creditNonce => meta'[x] = meta[x]
    BY <1>0, <1>8 DEF MergeCredits
  <2> QED BY <1>0, <2>1 DEF KeepsCredit, Exists
<1>9. ASSUME NEW a \in AdminKeys, NEW c \in CreditId, ExpireCredit(a, c)
      PROVE  \A x \in CreditId : KeepsCredit(x)
  BY <1>9, SetStatusKeepsCredits DEF ExpireCredit, Expirable
<1>10. ASSUME NEW c \in CreditId, DisputeCredit(c)
       PROVE  \A x \in CreditId : KeepsCredit(x)
  BY <1>10, SetStatusKeepsCredits DEF DisputeCredit, Disputable
<1>11. ASSUME NEW a \in AdminKeys, NEW c \in CreditId, NEW o \in {0, 1}, ResolveDispute(a, c, o)
       PROVE  \A x \in CreditId : KeepsCredit(x)
  BY <1>11, SetStatusKeepsCredits DEF ResolveDispute
<1>12. ASSUME NEW C \in SUBSET CreditId, RetirementContractMarksRetired(C)
       PROVE  \A x \in CreditId : KeepsCredit(x)
  BY <1>0, <1>12 DEF RetirementContractMarksRetired, MarkRetired, KeepsCredit, Exists
<1> QED
  BY <1>1, <1>2, <1>3, <1>4, <1>5, <1>6, <1>7, <1>8, <1>9, <1>10, <1>11, <1>12
     DEF Next, RegistryStep, SubmissionStep, HandlingStep

(* No sequence of calls gives a retired credit another status. *)
THEOREM RetirementIsFinal == Spec => RetiredIsFinal
<1>1. TypeOK /\ [Next]_vars =>
        [\A c \in CreditId : status[c] = "Retired" => status'[c] = "Retired"]_vars
  BY CreditsAreKept DEF KeepsCredit, Exists
<1> QED BY <1>1, TypeCorrect, PTL DEF Spec, RetiredIsFinal

(* An id stays the id of the same submission for ever. *)
THEOREM CreditsArePermanent == Spec => CreditIsPermanent
<1>1. TypeOK /\ [Next]_vars =>
        [\A c \in CreditId : Exists(c) =>
           /\ meta'[c] = meta[c]
           /\ status'[c] # "Absent"
           /\ status'[c] = "Pending" => status[c] = "Pending"]_vars
  BY CreditsAreKept DEF KeepsCredit
<1> QED BY <1>1, TypeCorrect, PTL DEF Spec, CreditIsPermanent
-----------------------------------------------------------------------------
(* Custody. *)

LEMMA CustodyStep ==
  ASSUME TypeOK, [Next]_vars, NEW x \in CreditId, Exists(x), owner'[x] # owner[x]
  PROVE  owner[x] \in Account /\ nonce'[owner[x]] = nonce[owner[x]] + 1
<1>0. /\ owner \in [CreditId -> Address \cup {None}]
      /\ owner[x] \in Address
      /\ nonce \in [Address -> Nat]
      /\ x < creditNonce /\ creditNonce \in Nat
  <2>1. x < creditNonce /\ owner[x] \in Address
    BY DEF TypeOK
  <2>2. nonce \in [Address -> Nat]
    BY GovernanceTypes DEF TypeOK
  <2> QED BY <2>1, <2>2 DEF TypeOK
<1>1. CASE UNCHANGED vars
  BY <1>1 DEF vars, creditVars
<1>2. CASE GovernanceStep /\ UNCHANGED creditVars
  BY <1>2 DEF creditVars
<1>3. ASSUME NEW i \in IssuerKeys, NEW p \in Project, NEW v \in Vintage, NEW m \in Methodology,
             NEW g \in Geography, NEW t \in TonnesArg, SubmitCredit(i, p, v, m, g, t)
      PROVE  FALSE
  <2>1. owner' = [owner EXCEPT ![creditNonce] = i]
    BY <1>3 DEF SubmitCredit
  <2> QED BY <1>0, <2>1
<1>4. ASSUME NEW from \in Account, NEW to \in Recipient, NEW c \in CreditId,
             TransferCredit(from, to, c)
      PROVE  owner[x] \in Account /\ nonce'[owner[x]] = nonce[owner[x]] + 1
  BY <1>0, <1>4 DEF TransferCredit, OwnedBy, ConsumeNonce
<1>5. ASSUME NEW a \in Account, NEW c \in CreditId, NEW t \in SplitArg, SplitCredit(a, c, t)
      PROVE  FALSE
  <2>1. owner' = [owner EXCEPT ![creditNonce] = a, ![creditNonce + 1] = a]
    BY <1>5 DEF SplitCredit
  <2> QED BY <1>0, <2>1
<1>6. ASSUME NEW a \in Account, NEW ids \in MergeArg, MergeCredits(a, ids)
      PROVE  FALSE
  <2>1. owner' = [owner EXCEPT ![creditNonce] = a]
    BY <1>6 DEF MergeCredits
  <2> QED BY <1>0, <2>1
<1>7. ASSUME NEW c \in CreditId,
             \/ \E v \in VerifierKeys : ApproveAndMint(v, c) \/ FlagCredit(v, c)
             \/ \E a \in AdminKeys : ExpireCredit(a, c)
             \/ DisputeCredit(c)
             \/ \E a \in AdminKeys, o \in {0, 1} : ResolveDispute(a, c, o)
      PROVE  owner' = owner
  BY <1>7 DEF ApproveAndMint, FlagCredit, ExpireCredit, DisputeCredit, ResolveDispute, SetStatus
<1>8. ASSUME NEW C \in SUBSET CreditId, RetirementContractMarksRetired(C)
      PROVE  owner' = owner
  BY <1>8 DEF RetirementContractMarksRetired, MarkRetired
<1> QED
  BY <1>1, <1>2, <1>3, <1>4, <1>5, <1>6, <1>7, <1>8
     DEF Next, RegistryStep, SubmissionStep, HandlingStep

(* A credit leaves its owner only in a call that used up one of the owner's *)
(* own nonces: transfer_credit, called by the owner.                        *)
THEOREM CustodyIsTheOwners == Spec => CustodyMovesByOwnersNonce
<1>1. TypeOK /\ [Next]_vars =>
        [\A c \in CreditId : Exists(c) /\ owner'[c] # owner[c] =>
           nonce'[owner[c]] = nonce[owner[c]] + 1]_vars
  BY CustodyStep
<1> QED BY <1>1, TypeCorrect, PTL DEF Spec, CustodyMovesByOwnersNonce

-----------------------------------------------------------------------------
(* Before and after initialize. *)

(* Only governance writes the administration's part of the state.           *)
LEMMA CreditStepsKeepAdmin ==
  ASSUME [Next]_vars, ~(GovernanceStep /\ UNCHANGED creditVars)
  PROVE  UNCHANGED adminVars
<1>1. CASE UNCHANGED vars
  BY <1>1 DEF vars, govVars, adminVars
<1>2. CASE SubmissionStep
  BY <1>2 DEF SubmissionStep, SubmitCredit, adminVars
<1>3. ASSUME NEW v \in VerifierKeys, NEW c \in CreditId, ApproveAndMint(v, c) \/ FlagCredit(v, c)
      PROVE  UNCHANGED adminVars
  BY <1>3 DEF ApproveAndMint, FlagCredit, adminVars
<1>4. ASSUME NEW from \in Account, NEW to \in Recipient, NEW c \in CreditId,
             TransferCredit(from, to, c)
      PROVE  UNCHANGED adminVars
  BY <1>4 DEF TransferCredit, UnchangedGovernanceExceptNonce, adminVars
<1>5. ASSUME NEW a \in Account, NEW c \in CreditId, NEW t \in SplitArg, SplitCredit(a, c, t)
      PROVE  UNCHANGED adminVars
  BY <1>5 DEF SplitCredit, UnchangedGovernanceExceptNonce, adminVars
<1>6. ASSUME NEW a \in Account, NEW ids \in MergeArg, MergeCredits(a, ids)
      PROVE  UNCHANGED adminVars
  BY <1>6 DEF MergeCredits, govVars, adminVars
<1>7. ASSUME NEW c \in CreditId,
             \/ \E a \in AdminKeys : ExpireCredit(a, c)
             \/ DisputeCredit(c)
             \/ \E a \in AdminKeys, o \in {0, 1} : ResolveDispute(a, c, o)
      PROVE  UNCHANGED adminVars
  BY <1>7 DEF ExpireCredit, DisputeCredit, ResolveDispute, SetStatus, govVars, adminVars
<1>8. ASSUME NEW C \in SUBSET CreditId, RetirementContractMarksRetired(C)
      PROVE  UNCHANGED adminVars
  BY <1>8 DEF RetirementContractMarksRetired, MarkRetired, govVars, adminVars
<1> QED
  BY <1>1, <1>2, <1>3, <1>4, <1>5, <1>6, <1>7, <1>8 DEF Next, RegistryStep, HandlingStep

(* Without an admin only initialize and register_project can succeed. *)
LEMMA EmptyStep ==
  ASSUME TypeOK, EmptyBeforeInitialize, [Next]_vars, admin' = None
  PROVE  UNCHANGED <<pendingAdmin, verifiers, issuers, methodologies, nonce, creditNonce>>
         /\ admin = None
<1>0. /\ None \notin AdminKeys
      /\ \A x \in CreditId : Exists(x) <=> x < creditNonce
      /\ admin \in AdminKeys \cup {None}
  <2>1. None \notin AdminKeys
    OBVIOUS
  <2> QED BY <2>1 DEF TypeOK, GovTypeOK
<1>1. CASE UNCHANGED vars
  BY <1>1 DEF vars, govVars, creditVars
<1>2. CASE GovernanceStep /\ UNCHANGED creditVars
  <2>1. creditNonce' = creditNonce
    BY <1>2 DEF creditVars
  <2>2. ASSUME NEW a \in AdminKeys, admin' = admin, IsAdmin(a)
        PROVE  FALSE
    BY <2>2, <1>0 DEF IsAdmin
  <2>3. ASSUME NEW a \in AdminKeys, NEW rc \in Contract, NEW k \in Thresholds,
               Initialize(a, rc, k)
        PROVE  FALSE
    BY <2>3, <1>0 DEF Initialize
  <2>4. ASSUME NEW a \in AdminKeys, AcceptAdmin(a)
        PROVE  FALSE
    BY <2>4, <1>0 DEF AcceptAdmin
  <2>5. ASSUME NEW a \in AdminKeys, Pause(a) \/ Unpause(a) \/ Upgrade(a)
        PROVE  FALSE
    BY <2>5, <2>2 DEF Pause, Unpause, Upgrade, NoncedAdminCall, adminVars
  <2>6. ASSUME NEW a \in AdminKeys, NEW candidate \in AdminKeys, ProposeAdmin(a, candidate)
        PROVE  FALSE
    BY <2>6, <2>2 DEF ProposeAdmin
  <2>7. ASSUME NEW a \in AdminKeys, NEW v \in VerifierKeys,
               RegisterVerifier(a, v) \/ RemoveVerifier(a, v)
        PROVE  FALSE
    BY <2>7, <2>2 DEF RegisterVerifier, RemoveVerifier, NoncedAdminCall, adminVars
  <2>8. ASSUME NEW a \in AdminKeys, NEW i \in IssuerKeys,
               RegisterIssuer(a, i) \/ RemoveIssuer(a, i)
        PROVE  FALSE
    BY <2>8, <2>2 DEF RegisterIssuer, RemoveIssuer, NoncedAdminCall, adminVars
  <2>9. ASSUME NEW a \in AdminKeys, NEW m \in Methodology, RegisterMethodology(a, m)
        PROVE  FALSE
    BY <2>9, <2>2 DEF RegisterMethodology, NoncedAdminCall, adminVars
  <2>10. ASSUME NEW a \in AdminKeys, NEW v \in VerifierKeys, NEW kept, SetServices(a, v, kept)
         PROVE  FALSE
    BY <2>10, <2>2 DEF SetServices, NoncedAdminCall, adminVars
  <2>11. ASSUME NEW p \in Project, RegisterProject(p)
         PROVE  /\ UNCHANGED <<pendingAdmin, verifiers, issuers, methodologies, nonce>>
                /\ admin = None
    BY <2>11 DEF RegisterProject, adminVars
  <2> QED
    BY <1>2, <2>1, <2>3, <2>4, <2>5, <2>6, <2>7, <2>8, <2>9, <2>10, <2>11
       DEF GovernanceStep, ConfigureVerifierServices, AddVerifierService, RemoveVerifierService
<1>3. CASE ~(GovernanceStep /\ UNCHANGED creditVars) /\ ~UNCHANGED vars
  <2>1. admin' = admin
    BY <1>3, CreditStepsKeepAdmin DEF adminVars, vars
  <2>2. \A x \in CreditId : ~Exists(x)
    BY <1>0, <2>1 DEF EmptyBeforeInitialize
  <2>3. /\ \A a \in AdminKeys : ~IsAdmin(a)
        /\ verifiers = {}
    BY <1>0, <2>1 DEF EmptyBeforeInitialize, IsAdmin
  <2>4. ASSUME NEW i \in IssuerKeys, NEW p \in Project, NEW v \in Vintage, NEW m \in Methodology,
               NEW g \in Geography, NEW t \in TonnesArg, SubmitCredit(i, p, v, m, g, t)
        PROVE  FALSE
    BY <2>1, <2>4 DEF SubmitCredit
  <2>5. ASSUME NEW v \in VerifierKeys, NEW c \in CreditId,
               ApproveAndMint(v, c) \/ FlagCredit(v, c)
        PROVE  FALSE
    BY <2>3, <2>5 DEF ApproveAndMint, FlagCredit
  <2>6. ASSUME NEW a \in Account, NEW c \in CreditId,
               \/ \E to \in Recipient : TransferCredit(a, to, c)
               \/ \E t \in SplitArg : SplitCredit(a, c, t)
        PROVE  FALSE
    BY <2>2, <2>6 DEF TransferCredit, SplitCredit, OwnedBy
  <2>7. ASSUME NEW a \in Account, NEW ids \in MergeArg, MergeCredits(a, ids)
        PROVE  FALSE
    <3>1. ids \in Seq(CreditId) /\ Len(ids) >= 2 /\ \A k \in DOMAIN ids : OwnedBy(a, ids[k])
      BY <2>7 DEF MergeCredits, Mergeable
    <3>2. 1 \in DOMAIN ids /\ ids[1] \in CreditId
      BY <3>1
    <3> QED BY <2>2, <3>1, <3>2 DEF OwnedBy
  <2>8. ASSUME NEW c \in CreditId,
               \/ \E a \in AdminKeys : ExpireCredit(a, c)
               \/ \E a \in AdminKeys, o \in {0, 1} : ResolveDispute(a, c, o)
               \/ DisputeCredit(c)
        PROVE  FALSE
    BY <2>2, <2>3, <2>8 DEF ExpireCredit, ResolveDispute, DisputeCredit, Disputable, Exists
  <2>9. ASSUME NEW C \in SUBSET CreditId, RetirementContractMarksRetired(C)
        PROVE  UNCHANGED <<pendingAdmin, verifiers, issuers, methodologies, nonce, creditNonce>>
    BY <2>9 DEF RetirementContractMarksRetired, MarkRetired, govVars
  <2> QED
    BY <1>3, <2>1, <2>4, <2>5, <2>6, <2>7, <2>8, <2>9
       DEF Next, RegistryStep, SubmissionStep, HandlingStep
<1> QED BY <1>1, <1>2, <1>3

LEMMA EmptyInit == Init => EmptyBeforeInitialize
BY DEF Init, GovInit, CreditInit, EmptyBeforeInitialize

LEMMA EmptyNext ==
  ASSUME TypeOK, EmptyBeforeInitialize, [Next]_vars
  PROVE  EmptyBeforeInitialize'
BY EmptyStep DEF EmptyBeforeInitialize

(* Nothing but projects can be in the registry before it is initialised.    *)
THEOREM NothingBeforeInitialize == Spec => []EmptyBeforeInitialize
<1>1. TypeOK /\ EmptyBeforeInitialize /\ [Next]_vars => EmptyBeforeInitialize'
  BY EmptyNext
<1> QED BY <1>1, EmptyInit, TypeCorrect, PTL DEF Spec

(* No operation but initialize gives the quorum or the retirement contract  *)
(* a value, and initialize does so once.                                    *)
LEMMA QuorumStep ==
  ASSUME TypeOK, [Next]_vars, admin # None
  PROVE  admin' # None /\ UNCHANGED <<requiredApprovals, retirementContract>>
<1>0. None \notin AdminKeys
  OBVIOUS
<1>1. CASE UNCHANGED vars
  BY <1>1 DEF vars, govVars
<1>2. CASE GovernanceStep /\ UNCHANGED creditVars
  <2>1. ASSUME NEW a \in AdminKeys, NEW rc \in Contract, NEW k \in Thresholds,
               Initialize(a, rc, k)
        PROVE  FALSE
    BY <2>1 DEF Initialize
  <2>2. ASSUME NEW a \in AdminKeys,
               Pause(a) \/ Unpause(a) \/ AcceptAdmin(a) \/ Upgrade(a)
                 \/ \E candidate \in AdminKeys : ProposeAdmin(a, candidate)
        PROVE  admin' # None /\ UNCHANGED <<requiredApprovals, retirementContract>>
    BY <1>0, <2>2 DEF Pause, Unpause, AcceptAdmin, Upgrade, ProposeAdmin, adminVars
  <2>3. ASSUME NEW a \in AdminKeys,
               \/ \E v \in VerifierKeys : RegisterVerifier(a, v) \/ RemoveVerifier(a, v)
               \/ \E i \in IssuerKeys : RegisterIssuer(a, i) \/ RemoveIssuer(a, i)
               \/ \E m \in Methodology : RegisterMethodology(a, m)
        PROVE  UNCHANGED adminVars
    BY <2>3 DEF RegisterVerifier, RemoveVerifier, RegisterIssuer, RemoveIssuer,
                RegisterMethodology
  <2>4. ASSUME NEW p \in Project, RegisterProject(p)
        PROVE  UNCHANGED adminVars
    BY <2>4 DEF RegisterProject
  <2>5. ASSUME NEW a \in AdminKeys, NEW v \in VerifierKeys, NEW kept, SetServices(a, v, kept)
        PROVE  UNCHANGED adminVars
    BY <2>5 DEF SetServices
  <2> QED
    BY <1>2, <2>1, <2>2, <2>3, <2>4, <2>5
       DEF GovernanceStep, ConfigureVerifierServices, AddVerifierService,
           RemoveVerifierService, adminVars
<1>3. CASE ~(GovernanceStep /\ UNCHANGED creditVars) /\ ~UNCHANGED vars
  BY <1>3, CreditStepsKeepAdmin DEF adminVars
<1> QED BY <1>1, <1>2, <1>3

(* The quorum and the retirement contract are set once and for all.         *)
THEOREM QuorumNeverChanges == Spec => QuorumIsFixed
<1>1. TypeOK /\ [Next]_vars =>
        [admin # None => /\ admin' # None
                         /\ requiredApprovals' = requiredApprovals
                         /\ retirementContract' = retirementContract]_vars
  BY QuorumStep
<1> QED BY <1>1, TypeCorrect, PTL DEF Spec, QuorumIsFixed
-----------------------------------------------------------------------------
(* Sequences without repetition. *)

LEMMA RangeOfAppend ==
  ASSUME NEW S, NEW q \in Seq(S), NEW e \in S
  PROVE  Range(Append(q, e)) = Range(q) \cup {e}
<1> DEFINE r == Append(q, e)
<1>1. /\ DOMAIN r = 1 .. Len(q) + 1
      /\ DOMAIN q = 1 .. Len(q)
      /\ Len(q) \in Nat
      /\ \A i \in DOMAIN q : r[i] = q[i]
      /\ r[Len(q) + 1] = e
  OBVIOUS
<1> HIDE DEF r
<1>2. ASSUME NEW x \in Range(r) PROVE x \in Range(q) \cup {e}
  <2>1. PICK i \in DOMAIN r : x = r[i]
    BY <1>2 DEF Range
  <2>2. i \in DOMAIN q \/ i = Len(q) + 1
    BY <1>1
  <2> QED BY <1>1, <2>1, <2>2 DEF Range
<1>3. ASSUME NEW x \in Range(q) PROVE x \in Range(r)
  <2>1. PICK i \in DOMAIN q : x = q[i]
    BY <1>3 DEF Range
  <2>2. i \in DOMAIN r /\ r[i] = x
    BY <1>1, <2>1
  <2> QED BY <2>2 DEF Range
<1>4. e \in Range(r)
  <2>1. Len(q) + 1 \in DOMAIN r
    BY <1>1
  <2> QED BY <1>1, <2>1 DEF Range
<1> QED BY <1>2, <1>3, <1>4 DEF r

LEMMA AppendNewInjective ==
  ASSUME NEW S, NEW q \in Seq(S), NEW e \in S, IsInjective(q), e \notin Range(q)
  PROVE  IsInjective(Append(q, e))
<1> DEFINE r == Append(q, e)
<1>1. /\ DOMAIN r = 1 .. Len(q) + 1
      /\ DOMAIN q = 1 .. Len(q)
      /\ Len(q) \in Nat
      /\ \A i \in DOMAIN q : r[i] = q[i] /\ r[i] # e
      /\ r[Len(q) + 1] = e
  BY DEF Range
<1>2. \A i \in DOMAIN r : i \in DOMAIN q \/ i = Len(q) + 1
  BY <1>1
<1>3. \A i, j \in DOMAIN q : q[i] = q[j] => i = j
  BY DEF IsInjective
<1> HIDE DEF r
<1>4. \A i, j \in DOMAIN r : r[i] = r[j] => i = j
  BY <1>1, <1>2, <1>3
<1> QED BY <1>4 DEF IsInjective, r

LEMMA EmptyInjective == IsInjective(<< >>) /\ Range(<< >>) = {}
BY DEF IsInjective, Range

(* A list without repetition has as many elements as places. *)
LEMMA LengthIsCardinality ==
  ASSUME NEW S, NEW q \in Seq(S), IsInjective(q)
  PROVE  IsFiniteSet(Range(q)) /\ Cardinality(Range(q)) = Len(q)
<1>1. DOMAIN q = 1 .. Len(q) /\ Len(q) \in Nat
  OBVIOUS
<1>2. q \in Bijection(1 .. Len(q), Range(q))
  <2>1. q \in [1 .. Len(q) -> Range(q)]
    BY <1>1 DEF Range
  <2> QED BY <1>1, <2>1 DEF Bijection, Injection, Surjection, Range
<1>3. IsFiniteSet(1 .. Len(q)) /\ Cardinality(1 .. Len(q)) = Len(q)
  <2>1. 1 \in Int /\ Len(q) \in Int
    BY <1>1
  <2>2. /\ IsFiniteSet(1 .. Len(q))
        /\ Cardinality(1 .. Len(q)) = IF 1 > Len(q) THEN 0 ELSE Len(q) - 1 + 1
    BY <2>1, FS_Interval
  <2> QED BY <1>1, <2>2
<1>4. ExistsBijection(1 .. Len(q), Range(q))
  BY <1>2 DEF ExistsBijection
<1> QED BY <1>3, <1>4, FS_Bijection

-----------------------------------------------------------------------------
(* Approvals. *)

(* An id that is not derived yet has no signatures waiting for it. *)
FreshUnsigned == \A c \in CreditId : ~Exists(c) => approvals[c] = << >>

(* A step that collects no signature keeps approvals sound if every credit  *)
(* it makes Pending has none.                                               *)
LEMMA ApprovalsFrame ==
  ASSUME TypeOK, ApprovalsSound, approvals' = approvals,
         requiredApprovals' = requiredApprovals,
         \A x \in CreditId : status'[x] = "Pending" =>
           status[x] = "Pending" \/ approvals[x] = << >>
  PROVE  ApprovalsSound'
<1>1. requiredApprovals \in Nat /\ requiredApprovals > 0
  BY GovernanceTypes DEF TypeOK
<1>2. Len(<< >>) = 0
  OBVIOUS
<1> QED BY <1>1, <1>2 DEF ApprovalsSound

LEMMA ApprovalsStep ==
  ASSUME TypeOK, EmptyBeforeInitialize, ApprovalsSound, FreshUnsigned, [Next]_vars
  PROVE  ApprovalsSound' /\ FreshUnsigned'
<1>0. /\ status \in [CreditId -> Status \cup {"Absent"}]
      /\ approvals \in [CreditId -> Seq(VerifierKeys)]
      /\ \A x \in CreditId : Exists(x) <=> x < creditNonce
      /\ creditNonce \in Nat
      /\ requiredApprovals \in Nat /\ requiredApprovals > 0
  BY GovernanceTypes DEF TypeOK
<1>1. \A x \in CreditId : KeepsCredit(x)
  BY CreditsAreKept
<1>2. ASSUME approvals' = approvals
      PROVE  FreshUnsigned'
  BY <1>1, <1>2 DEF FreshUnsigned, KeepsCredit, Exists
<1>3. ASSUME approvals' = approvals, requiredApprovals' = requiredApprovals,
             \A x \in CreditId : status'[x] = "Pending" => Exists(x)
      PROVE  ApprovalsSound' /\ FreshUnsigned'
  <2>1. \A x \in CreditId : status'[x] = "Pending" => status[x] = "Pending"
    BY <1>1, <1>3 DEF KeepsCredit
  <2> QED BY <1>2, <1>3, <2>1, ApprovalsFrame
<1>4. CASE GovernanceStep /\ UNCHANGED creditVars
  <2>1. approvals' = approvals /\ status' = status
    BY <1>4 DEF creditVars
  <2>2. CASE admin # None
    BY <1>3, <2>1, <2>2, QuorumStep DEF Exists
  <2>3. CASE admin = None
    <3>1. \A x \in CreditId : status[x] = "Absent"
      BY <1>0, <2>3 DEF EmptyBeforeInitialize, Exists
    <3> QED BY <1>2, <2>1, <3>1 DEF ApprovalsSound
  <2> QED BY <2>2, <2>3
<1>5. CASE ~(GovernanceStep /\ UNCHANGED creditVars)
  <2>0. requiredApprovals' = requiredApprovals
    BY <1>5, CreditStepsKeepAdmin DEF adminVars
  <2>1. CASE UNCHANGED vars
    BY <1>3, <2>0, <2>1 DEF vars, creditVars, Exists
  <2>2. ASSUME NEW i \in IssuerKeys, NEW p \in Project, NEW v \in Vintage, NEW m \in Methodology,
               NEW g \in Geography, NEW t \in TonnesArg, SubmitCredit(i, p, v, m, g, t)
        PROVE  ApprovalsSound' /\ FreshUnsigned'
    <3>1. /\ status' = [status EXCEPT ![creditNonce] = "Pending"]
          /\ approvals' = approvals
      BY <2>2 DEF SubmitCredit
    <3>2. \A x \in CreditId : status'[x] = "Pending" =>
            status[x] = "Pending" \/ approvals[x] = << >>
      BY <1>0, <3>1 DEF FreshUnsigned
    <3> QED BY <1>2, <2>0, <3>1, <3>2, ApprovalsFrame
  <2>3. ASSUME NEW v \in VerifierKeys, NEW c \in CreditId, ApproveAndMint(v, c)
        PROVE  ApprovalsSound' /\ FreshUnsigned'
    <3> DEFINE signatures == Append(approvals[c], v)
    <3>1. /\ status[c] = "Pending" /\ v \notin Range(approvals[c])
          /\ \/ /\ status' = [status EXCEPT ![c] = "Active"]
                /\ approvals' = [approvals EXCEPT ![c] = << >>]
             \/ /\ status' = status /\ ~QuorumReached(signatures)
                /\ approvals' = [approvals EXCEPT ![c] = signatures]
      BY <2>3 DEF ApproveAndMint, MayApprove
    <3>2. /\ signatures \in Seq(VerifierKeys)
          /\ IsInjective(signatures)
      BY <1>0, <3>1, AppendNewInjective DEF ApprovalsSound
    <3> HIDE DEF signatures
    <3>3. FreshUnsigned'
      BY <1>0, <3>1 DEF FreshUnsigned, Exists
    <3>4. CASE status' = [status EXCEPT ![c] = "Active"] /\ approvals' = [approvals EXCEPT ![c] = << >>]
      BY <1>0, <2>0, <3>3, <3>4, EmptyInjective DEF ApprovalsSound
    <3>5. CASE /\ status' = status /\ ~QuorumReached(signatures)
               /\ approvals' = [approvals EXCEPT ![c] = signatures]
      <4>1. Len(signatures) < requiredApprovals
        BY <1>0, <3>2, <3>5 DEF QuorumReached
      <4> QED BY <1>0, <2>0, <3>2, <3>3, <3>5, <4>1 DEF ApprovalsSound
    <3> QED BY <3>1, <3>4, <3>5
  <2>4. ASSUME NEW v \in VerifierKeys, NEW c \in CreditId, FlagCredit(v, c)
        PROVE  ApprovalsSound' /\ FreshUnsigned'
    BY <1>0, <1>3, <2>0, <2>4 DEF FlagCredit, Exists
  <2>5. ASSUME NEW from \in Account, NEW to \in Recipient, NEW c \in CreditId,
               TransferCredit(from, to, c)
        PROVE  ApprovalsSound' /\ FreshUnsigned'
    BY <1>3, <2>0, <2>5 DEF TransferCredit, Exists
  <2>6. ASSUME NEW a \in Account, NEW c \in CreditId, NEW t \in SplitArg, SplitCredit(a, c, t)
        PROVE  ApprovalsSound' /\ FreshUnsigned'
    <3>1. /\ status' = [status EXCEPT ![creditNonce] = status[c], ![creditNonce + 1] = status[c],
                                      ![c] = "Retired"]
          /\ approvals' = approvals
      BY <2>6 DEF SplitCredit
    <3>2. \A x \in CreditId : status'[x] = "Pending" =>
            status[x] = "Pending" \/ approvals[x] = << >>
      BY <1>0, <3>1 DEF FreshUnsigned
    <3> QED BY <1>2, <2>0, <3>1, <3>2, ApprovalsFrame
  <2>7. ASSUME NEW a \in Account, NEW ids \in MergeArg, MergeCredits(a, ids)
        PROVE  ApprovalsSound' /\ FreshUnsigned'
    BY <1>0, <1>3, <2>0, <2>7 DEF MergeCredits, Exists
  <2>8. ASSUME NEW c \in CreditId,
               \/ \E a \in AdminKeys : ExpireCredit(a, c)
               \/ \E a \in AdminKeys, o \in {0, 1} : ResolveDispute(a, c, o)
               \/ DisputeCredit(c)
        PROVE  ApprovalsSound' /\ FreshUnsigned'
    BY <1>0, <1>3, <2>0, <2>8 DEF ExpireCredit, ResolveDispute, DisputeCredit, SetStatus, Exists
  <2>9. ASSUME NEW C \in SUBSET CreditId, RetirementContractMarksRetired(C)
        PROVE  ApprovalsSound' /\ FreshUnsigned'
    BY <1>0, <1>3, <2>0, <2>9 DEF RetirementContractMarksRetired, MarkRetired, Exists
  <2> QED
    BY <1>5, <2>1, <2>2, <2>3, <2>4, <2>5, <2>6, <2>7, <2>8, <2>9
       DEF Next, RegistryStep, SubmissionStep, HandlingStep
<1> QED BY <1>4, <1>5

(* What is known of approvals in every reachable state. *)
ApprovalsInv == EmptyBeforeInitialize /\ ApprovalsSound /\ FreshUnsigned

LEMMA ApprovalsAlways == Spec => []ApprovalsInv
<1>1. Init => ApprovalsSound /\ FreshUnsigned
  <2> SUFFICES ASSUME Init PROVE ApprovalsSound /\ FreshUnsigned
    OBVIOUS
  <2>1. \A c \in CreditId : approvals[c] = << >> /\ status[c] = "Absent"
    BY DEF Init, CreditInit
  <2> QED BY <2>1, EmptyInjective DEF ApprovalsSound, FreshUnsigned
<1>2. TypeOK /\ ApprovalsInv /\ [Next]_vars => ApprovalsInv'
  BY ApprovalsStep, EmptyNext DEF ApprovalsInv
<1> QED BY <1>1, <1>2, EmptyInit, TypeCorrect, PTL DEF Spec, ApprovalsInv

(* The signatures on file are of distinct verifiers, and never so many that *)
(* the credit should have been minted.                                      *)
THEOREM ApprovalsAreSound == Spec => []ApprovalsSound
BY ApprovalsAlways, PTL DEF ApprovalsInv

LEMMA MintStep ==
  ASSUME TypeOK, ApprovalsSound, [Next]_vars, NEW c \in CreditId,
         status[c] = "Pending", status'[c] = "Active"
  PROVE  \E v \in verifiers :
           /\ nonce'[v] = nonce[v] + 1
           /\ Cardinality(Range(approvals[c]) \cup {v}) >= requiredApprovals
<1> DEFINE Minted == \E v \in VerifierKeys : ApproveAndMint(v, c) /\ status' # status
<1>0. /\ status \in [CreditId -> Status \cup {"Absent"}]
      /\ approvals[c] \in Seq(VerifierKeys)
      /\ \A x \in CreditId : Exists(x) <=> x < creditNonce
      /\ creditNonce \in Nat
      /\ requiredApprovals \in Nat
      /\ nonce \in [Address -> Nat]
  BY GovernanceTypes DEF TypeOK
<1>1. ASSUME UNCHANGED vars \/ (GovernanceStep /\ UNCHANGED creditVars)
      PROVE  Minted
  BY <1>0, <1>1 DEF vars, creditVars
<1>2. ASSUME NEW i \in IssuerKeys, NEW p \in Project, NEW v \in Vintage, NEW m \in Methodology,
             NEW g \in Geography, NEW t \in TonnesArg, SubmitCredit(i, p, v, m, g, t)
      PROVE  Minted
  BY <1>0, <1>2 DEF SubmitCredit
<1>3. ASSUME NEW v \in VerifierKeys, NEW x \in CreditId, ApproveAndMint(v, x)
      PROVE  Minted
  <2>1. status' = [status EXCEPT ![x] = "Active"] \/ status' = status
    BY <1>3 DEF ApproveAndMint
  <2>2. x = c /\ status' # status
    BY <1>0, <2>1
  <2> QED BY <1>3, <2>2
<1>4. ASSUME NEW x \in CreditId,
             \/ \E v \in VerifierKeys : FlagCredit(v, x)
             \/ \E from \in Account, to \in Recipient : TransferCredit(from, to, x)
      PROVE  Minted
  BY <1>0, <1>4 DEF FlagCredit, TransferCredit
<1>5. ASSUME NEW a \in Account, NEW x \in CreditId, NEW t \in SplitArg, SplitCredit(a, x, t)
      PROVE  Minted
  <2>1. status' = [status EXCEPT ![creditNonce] = status[x], ![creditNonce + 1] = status[x],
                                 ![x] = "Retired"]
    BY <1>5 DEF SplitCredit
  <2>2. c # creditNonce /\ c # creditNonce + 1
    BY <1>0 DEF Exists
  <2> QED BY <1>0, <2>1, <2>2
<1>6. ASSUME NEW a \in Account, NEW ids \in MergeArg, MergeCredits(a, ids)
      PROVE  Minted
  <2>1. status'[c] = IF c = creditNonce THEN "Active"
                     ELSE IF c \in Range(ids) THEN "Retired" ELSE status[c]
    BY <1>6 DEF MergeCredits
  <2> QED BY <1>0, <2>1 DEF Exists
<1>7. ASSUME NEW x \in CreditId,
             \/ \E a \in AdminKeys : ExpireCredit(a, x)
             \/ \E a \in AdminKeys, o \in {0, 1} : ResolveDispute(a, x, o)
             \/ DisputeCredit(x)
      PROVE  Minted
  BY <1>0, <1>7 DEF ExpireCredit, ResolveDispute, DisputeCredit, SetStatus
<1>8. ASSUME NEW C \in SUBSET CreditId, RetirementContractMarksRetired(C)
      PROVE  Minted
  BY <1>0, <1>8 DEF RetirementContractMarksRetired, MarkRetired
<1> HIDE DEF Minted
<1>9. Minted
  BY <1>1, <1>2, <1>3, <1>4, <1>5, <1>6, <1>7, <1>8
     DEF Next, RegistryStep, SubmissionStep, HandlingStep
<1>10. PICK v \in VerifierKeys : ApproveAndMint(v, c) /\ status' # status
  BY <1>9 DEF Minted
<1>11. /\ v \in verifiers /\ ConsumeNonce(v) /\ v \notin Range(approvals[c])
       /\ QuorumReached(Append(approvals[c], v))
  BY <1>10 DEF ApproveAndMint, MayApprove
<1>12. nonce'[v] = nonce[v] + 1
  BY <1>0, <1>11 DEF ConsumeNonce
<1>13. Cardinality(Range(approvals[c]) \cup {v}) = Len(approvals[c]) + 1
  <2>1. IsInjective(approvals[c])
    BY DEF ApprovalsSound
  <2>2. /\ IsFiniteSet(Range(approvals[c]))
        /\ Cardinality(Range(approvals[c])) = Len(approvals[c])
    BY <1>0, <2>1, LengthIsCardinality
  <2> QED BY <1>11, <2>2, FS_AddElement
<1>14. Len(approvals[c]) + 1 >= requiredApprovals
  BY <1>0, <1>11 DEF QuorumReached
<1> QED BY <1>11, <1>12, <1>13, <1>14

(* Minting takes required_approvals distinct verifiers: the signatures are  *)
(* distinct (ApprovalsSound), so their count is a count of verifiers.       *)
THEOREM MintNeedsQuorum == Spec => MintTakesQuorum
<1>1. TypeOK /\ ApprovalsSound /\ [Next]_vars =>
        [\A c \in CreditId :
           status[c] = "Pending" /\ status'[c] = "Active" =>
             \E v \in verifiers :
               /\ nonce'[v] = nonce[v] + 1
               /\ Cardinality(Range(approvals[c]) \cup {v}) >= requiredApprovals]_vars
  BY MintStep
<1> QED BY <1>1, TypeCorrect, ApprovalsAreSound, PTL DEF Spec, MintTakesQuorum

-----------------------------------------------------------------------------
(* Pending counters. *)

(* Charging and relieving touch the registered verifiers only. *)
LEMMA CountersTouchVerifiers ==
  ASSUME TypeOK, OnlyVerifiersAreCharged
  PROVE  \A a \in Address : a \notin verifiers =>
           ChargeVerifiers(pendingCount)[a] = 0 /\ RelieveVerifiers(pendingCount)[a] = 0
BY DEF TypeOK, GovTypeOK, OnlyVerifiersAreCharged, ChargeVerifiers, RelieveVerifiers

LEMMA ChargesStep ==
  ASSUME TypeOK, OnlyVerifiersAreCharged, [Next]_vars
  PROVE  OnlyVerifiersAreCharged'
<1>0. pendingCount \in [Address -> Nat]
  BY GovernanceTypes DEF TypeOK
<1>1. ASSUME pendingCount' = pendingCount, verifiers \subseteq verifiers'
      PROVE  OnlyVerifiersAreCharged'
  BY <1>1 DEF OnlyVerifiersAreCharged
<1>2. ASSUME verifiers' = verifiers,
             \/ pendingCount' = pendingCount
             \/ pendingCount' = ChargeVerifiers(pendingCount)
             \/ pendingCount' = RelieveVerifiers(pendingCount)
      PROVE  OnlyVerifiersAreCharged'
  <2>1. \A a \in Address : a \notin verifiers => pendingCount[a] = 0
    BY <1>0 DEF OnlyVerifiersAreCharged
  <2>2. \A a \in Address : a \notin verifiers => pendingCount'[a] = 0
    BY <1>2, <2>1, CountersTouchVerifiers
  <2> QED BY <1>2, <2>2 DEF OnlyVerifiersAreCharged
<1>3. CASE GovernanceStep /\ UNCHANGED creditVars
  <2>1. ASSUME NEW a \in AdminKeys, NEW v \in VerifierKeys, RemoveVerifier(a, v)
        PROVE  OnlyVerifiersAreCharged'
    BY <1>0, <2>1 DEF RemoveVerifier, Removable, OnlyVerifiersAreCharged
  <2>2. ASSUME NEW a \in AdminKeys, NEW v \in VerifierKeys, RegisterVerifier(a, v)
        PROVE  OnlyVerifiersAreCharged'
    BY <1>1, <2>2 DEF RegisterVerifier
  <2>3. ASSUME NEW a \in AdminKeys,
               \/ Pause(a) \/ Unpause(a) \/ AcceptAdmin(a) \/ Upgrade(a)
               \/ \E rc \in Contract, k \in Thresholds : Initialize(a, rc, k)
               \/ \E candidate \in AdminKeys : ProposeAdmin(a, candidate)
        PROVE  OnlyVerifiersAreCharged'
    BY <1>1, <2>3 DEF Pause, Unpause, AcceptAdmin, Upgrade, Initialize, ProposeAdmin, rosterVars
  <2>4. ASSUME NEW a \in AdminKeys,
               \/ \E i \in IssuerKeys : RegisterIssuer(a, i) \/ RemoveIssuer(a, i)
               \/ \E m \in Methodology : RegisterMethodology(a, m)
        PROVE  OnlyVerifiersAreCharged'
    BY <1>1, <2>4 DEF RegisterIssuer, RemoveIssuer, RegisterMethodology
  <2>5. ASSUME NEW p \in Project, RegisterProject(p)
        PROVE  OnlyVerifiersAreCharged'
    BY <1>1, <2>5 DEF RegisterProject
  <2>6. ASSUME NEW a \in AdminKeys, NEW v \in VerifierKeys, NEW kept, SetServices(a, v, kept)
        PROVE  OnlyVerifiersAreCharged'
    BY <1>1, <2>6 DEF SetServices
  <2> QED
    BY <1>3, <2>1, <2>2, <2>3, <2>4, <2>5, <2>6
       DEF GovernanceStep, ConfigureVerifierServices, AddVerifierService, RemoveVerifierService
<1>4. ASSUME NEW i \in IssuerKeys, NEW p \in Project, NEW v \in Vintage, NEW m \in Methodology,
             NEW g \in Geography, NEW t \in TonnesArg, SubmitCredit(i, p, v, m, g, t)
      PROVE  OnlyVerifiersAreCharged'
  BY <1>2, <1>4 DEF SubmitCredit, rosterVars
<1>5. ASSUME NEW v \in VerifierKeys, NEW c \in CreditId, ApproveAndMint(v, c) \/ FlagCredit(v, c)
      PROVE  OnlyVerifiersAreCharged'
  BY <1>2, <1>5 DEF ApproveAndMint, FlagCredit, rosterVars
<1>6. ASSUME NEW a \in Account,
             \/ \E to \in Recipient, c \in CreditId : TransferCredit(a, to, c)
             \/ \E c \in CreditId, t \in SplitArg : SplitCredit(a, c, t)
             \/ \E ids \in MergeArg : MergeCredits(a, ids)
      PROVE  OnlyVerifiersAreCharged'
  BY <1>2, <1>6 DEF TransferCredit, SplitCredit, MergeCredits, UnchangedGovernanceExceptNonce,
                    rosterVars, govVars
<1>7. ASSUME NEW c \in CreditId,
             \/ \E a \in AdminKeys : ExpireCredit(a, c)
             \/ \E a \in AdminKeys, o \in {0, 1} : ResolveDispute(a, c, o)
             \/ DisputeCredit(c)
      PROVE  OnlyVerifiersAreCharged'
  BY <1>2, <1>7 DEF ExpireCredit, ResolveDispute, DisputeCredit, SetStatus, govVars
<1>8. ASSUME NEW C \in SUBSET CreditId, RetirementContractMarksRetired(C)
      PROVE  OnlyVerifiersAreCharged'
  BY <1>2, <1>8 DEF RetirementContractMarksRetired, govVars
<1>9. CASE UNCHANGED vars
  BY <1>2, <1>9 DEF vars, govVars
<1> QED
  BY <1>3, <1>4, <1>5, <1>6, <1>7, <1>8, <1>9
     DEF Next, RegistryStep, SubmissionStep, HandlingStep

(* Whoever is charged with a pending credit is a registered verifier.       *)
THEOREM ChargedAreVerifiers == Spec => []OnlyVerifiersAreCharged
<1>1. Init => OnlyVerifiersAreCharged
  BY DEF Init, GovInit, OnlyVerifiersAreCharged
<1>2. TypeOK /\ OnlyVerifiersAreCharged /\ [Next]_vars => OnlyVerifiersAreCharged'
  BY ChargesStep
<1> QED BY <1>1, <1>2, TypeCorrect, PTL DEF Spec

-----------------------------------------------------------------------------
(* Reputation. *)

LEMMA ReputationFrame ==
  ASSUME ReputationIsBacked, UNCHANGED <<approvalCount, disputeCount, approvals>>,
         \/ nonce' = nonce
         \/ \E b \in Address : ConsumeNonce(b),
         TypeOK
  PROVE  ReputationIsBacked'
<1>1. /\ nonce \in [Address -> Nat]
      /\ approvalCount \in [Address -> Nat]
      /\ disputeCount \in [Address -> Nat]
  BY GovernanceTypes DEF TypeOK
<1>2. \A a \in Address : nonce'[a] >= nonce[a] /\ nonce'[a] \in Nat
  <2>1. CASE nonce' = nonce
    BY <1>1, <2>1
  <2>2. ASSUME NEW b \in Address, ConsumeNonce(b)
        PROVE  \A a \in Address : nonce'[a] >= nonce[a] /\ nonce'[a] \in Nat
    <3>1. nonce' = [nonce EXCEPT ![b] = @ + 1]
      BY <2>2 DEF ConsumeNonce
    <3> QED BY <1>1, <3>1
  <2> QED BY <2>1, <2>2
<1> QED BY <1>1, <1>2 DEF ReputationIsBacked

LEMMA ReputationStep ==
  ASSUME TypeOK, ReputationIsBacked, [Next]_vars
  PROVE  ReputationIsBacked'
<1>0. /\ nonce \in [Address -> Nat]
      /\ approvalCount \in [Address -> Nat]
      /\ disputeCount \in [Address -> Nat]
      /\ approvals \in [CreditId -> Seq(VerifierKeys)]
  BY GovernanceTypes DEF TypeOK
<1>1. CASE UNCHANGED vars
  BY <1>1, ReputationFrame DEF vars, creditVars, govVars
<1>2. CASE GovernanceStep /\ UNCHANGED creditVars
  <2>1. nonce' = nonce \/ \E b \in Address : ConsumeNonce(b)
    <3>1. ASSUME NEW a \in AdminKeys, NoncedAdminCall(a)
          PROVE  \E b \in Address : ConsumeNonce(b)
      BY <3>1 DEF NoncedAdminCall
    <3> QED
      BY <1>2, <3>1
         DEF GovernanceStep, Initialize, Pause, Unpause, ProposeAdmin, AcceptAdmin, Upgrade,
             RegisterVerifier, RemoveVerifier, RegisterIssuer, RemoveIssuer,
             RegisterMethodology, RegisterProject, ConfigureVerifierServices,
             AddVerifierService, RemoveVerifierService, SetServices
  <2> QED BY <1>2, <2>1, ReputationFrame DEF creditVars
<1>3. ASSUME NEW i \in IssuerKeys, NEW p \in Project, NEW v \in Vintage, NEW m \in Methodology,
             NEW g \in Geography, NEW t \in TonnesArg, SubmitCredit(i, p, v, m, g, t)
      PROVE  ReputationIsBacked'
  BY <1>3, ReputationFrame DEF SubmitCredit
<1>4. ASSUME NEW v \in VerifierKeys, NEW c \in CreditId, ApproveAndMint(v, c)
      PROVE  ReputationIsBacked'
  <2>1. /\ nonce' = [nonce EXCEPT ![v] = @ + 1]
        /\ approvalCount' = [approvalCount EXCEPT ![v] = @ + 1]
        /\ disputeCount' = disputeCount
        /\ \/ approvals' = [approvals EXCEPT ![c] = << >>]
           \/ approvals' = [approvals EXCEPT ![c] = Append(approvals[c], v)]
    BY <1>4 DEF ApproveAndMint, ConsumeNonce
  <2>2. \A a \in Address : approvalCount'[a] + disputeCount'[a] <= nonce'[a]
    BY <1>0, <2>1 DEF ReputationIsBacked
  <2>3. Range(Append(approvals[c], v)) = Range(approvals[c]) \cup {v}
    BY <1>0, RangeOfAppend
  <2>4. \A a \in Address, x \in CreditId : a \in Range(approvals'[x]) =>
          a \in Range(approvals[x]) \/ a = v
    <3>1. CASE approvals' = [approvals EXCEPT ![c] = << >>]
      <4>1. \A x \in CreditId : approvals'[x] = IF x = c THEN << >> ELSE approvals[x]
        BY <1>0, <3>1
      <4> QED BY <4>1, EmptyInjective
    <3>2. CASE approvals' = [approvals EXCEPT ![c] = Append(approvals[c], v)]
      <4>1. \A x \in CreditId :
              approvals'[x] = IF x = c THEN Append(approvals[c], v) ELSE approvals[x]
        BY <1>0, <3>2
      <4> QED BY <2>3, <4>1
    <3> QED BY <2>1, <3>1, <3>2
  <2>5. \A a \in Address : approvalCount'[a] > 0 <=> approvalCount[a] > 0 \/ a = v
    BY <1>0, <2>1
  <2> QED BY <2>2, <2>4, <2>5 DEF ReputationIsBacked
<1>5. ASSUME NEW v \in VerifierKeys, NEW c \in CreditId, FlagCredit(v, c)
      PROVE  ReputationIsBacked'
  BY <1>0, <1>5 DEF FlagCredit, ConsumeNonce, ReputationIsBacked
<1>6. ASSUME NEW a \in Account,
             \/ \E to \in Recipient, c \in CreditId : TransferCredit(a, to, c)
             \/ \E c \in CreditId, t \in SplitArg : SplitCredit(a, c, t)
      PROVE  ReputationIsBacked'
  <2>1. a \in Address
    BY DEF Account
  <2> QED BY <1>6, <2>1, ReputationFrame DEF TransferCredit, SplitCredit
<1>7. ASSUME NEW a \in Account, NEW ids \in MergeArg, MergeCredits(a, ids)
      PROVE  ReputationIsBacked'
  BY <1>7, ReputationFrame DEF MergeCredits, govVars
<1>8. ASSUME NEW c \in CreditId,
             \/ \E a \in AdminKeys : ExpireCredit(a, c)
             \/ \E a \in AdminKeys, o \in {0, 1} : ResolveDispute(a, c, o)
             \/ DisputeCredit(c)
      PROVE  ReputationIsBacked'
  BY <1>8, ReputationFrame DEF ExpireCredit, ResolveDispute, DisputeCredit, SetStatus, govVars
<1>9. ASSUME NEW C \in SUBSET CreditId, RetirementContractMarksRetired(C)
      PROVE  ReputationIsBacked'
  BY <1>9, ReputationFrame DEF RetirementContractMarksRetired, MarkRetired, govVars
<1> QED
  BY <1>1, <1>2, <1>3, <1>4, <1>5, <1>6, <1>7, <1>8, <1>9
     DEF Next, RegistryStep, SubmissionStep, HandlingStep

(* Every approval and flag counted for a verifier used up one of its nonces.*)
THEOREM ReputationStaysBacked == Spec => []ReputationIsBacked
<1>1. Init => ReputationIsBacked
  <2> SUFFICES ASSUME Init PROVE ReputationIsBacked
    OBVIOUS
  <2>1. /\ \A a \in Address : nonce[a] = 0 /\ approvalCount[a] = 0 /\ disputeCount[a] = 0
        /\ \A c \in CreditId : approvals[c] = << >>
    BY DEF Init, GovInit, CreditInit
  <2> QED BY <2>1, EmptyInjective DEF ReputationIsBacked
<1>2. TypeOK /\ ReputationIsBacked /\ [Next]_vars => ReputationIsBacked'
  BY ReputationStep
<1> QED BY <1>1, <1>2, TypeCorrect, PTL DEF Spec

-----------------------------------------------------------------------------
(* Steps that derive no id leave metadata, existence and both indexes alone. *)
LEMMA OtherStepsKeepIndexes ==
  ASSUME TypeOK, [Next]_vars, ~SubmissionStep,
         ~ \E a \in Account, c \in CreditId, t \in SplitArg : SplitCredit(a, c, t),
         ~ \E a \in Account, ids \in MergeArg : MergeCredits(a, ids)
  PROVE  /\ UNCHANGED <<meta, creditNonce, projectCredits, byVintage>>
         /\ \A x \in CreditId : Exists(x)' <=> Exists(x)
<1>1. /\ \A x \in CreditId : KeepsCredit(x)
      /\ \A x \in CreditId : Exists(x)' <=> x < creditNonce'
      /\ \A x \in CreditId : Exists(x) <=> x < creditNonce
  BY CreditsAreKept, NextType DEF TypeOK
<1>2. UNCHANGED <<meta, creditNonce, projectCredits, byVintage>>
  <2>1. CASE UNCHANGED vars \/ (GovernanceStep /\ UNCHANGED creditVars)
    BY <2>1 DEF vars, creditVars
  <2>2. ASSUME NEW v \in VerifierKeys, NEW c \in CreditId, ApproveAndMint(v, c) \/ FlagCredit(v, c)
        PROVE  UNCHANGED <<meta, creditNonce, projectCredits, byVintage>>
    BY <2>2 DEF ApproveAndMint, FlagCredit
  <2>3. ASSUME NEW from \in Account, NEW to \in Recipient, NEW c \in CreditId,
               TransferCredit(from, to, c)
        PROVE  UNCHANGED <<meta, creditNonce, projectCredits, byVintage>>
    BY <2>3 DEF TransferCredit
  <2>4. ASSUME NEW c \in CreditId,
               \/ \E a \in AdminKeys : ExpireCredit(a, c)
               \/ \E a \in AdminKeys, o \in {0, 1} : ResolveDispute(a, c, o)
               \/ DisputeCredit(c)
        PROVE  UNCHANGED <<meta, creditNonce, projectCredits, byVintage>>
    BY <2>4 DEF ExpireCredit, ResolveDispute, DisputeCredit, SetStatus
  <2>5. ASSUME NEW C \in SUBSET CreditId, RetirementContractMarksRetired(C)
        PROVE  UNCHANGED <<meta, creditNonce, projectCredits, byVintage>>
    BY <2>5 DEF RetirementContractMarksRetired, MarkRetired
  <2> QED BY <2>1, <2>2, <2>3, <2>4, <2>5 DEF Next, RegistryStep, HandlingStep
<1> QED BY <1>1, <1>2

-----------------------------------------------------------------------------
(* The project-vintage slot. *)

LEMMA SlotStep ==
  ASSUME TypeOK, SlotNamesItsCredit, [Next]_vars
  PROVE  SlotNamesItsCredit'
<1>0. /\ byVintage \in [Project -> [Vintage -> CreditId \cup {None}]]
      /\ meta \in [CreditId -> Metadata \cup {NoMetadata}]
      /\ status \in [CreditId -> Status \cup {"Absent"}]
  BY DEF TypeOK
<1>1. \A x \in CreditId : Exists(x) => Exists(x)' /\ meta'[x] = meta[x]
  BY CreditsAreKept DEF KeepsCredit, Exists
<1>2. ASSUME byVintage' = byVintage
      PROVE  SlotNamesItsCredit'
  BY <1>0, <1>1, <1>2 DEF SlotNamesItsCredit
<1>3. ASSUME NEW i \in IssuerKeys, NEW p \in Project, NEW v \in Vintage, NEW m \in Methodology,
             NEW g \in Geography, NEW t \in TonnesArg, SubmitCredit(i, p, v, m, g, t)
      PROVE  SlotNamesItsCredit'
  <2> DEFINE c == creditNonce
             data == [project |-> p, issuer |-> i, vintage |-> v,
                      methodology |-> m, geography |-> g, tonnes |-> t]
  <2>1. /\ byVintage' = [byVintage EXCEPT ![p][v] = c]
        /\ status' = [status EXCEPT ![c] = "Pending"]
        /\ meta' = [meta EXCEPT ![c] = data]
        /\ c \in CreditId
    BY <1>3 DEF SubmitCredit, FillSlot, DeriveIds, TypeOK
  <2>2. data.project = p /\ data.vintage = v
    OBVIOUS
  <2> HIDE DEF data
  <2>3. status'[c] # "Absent" /\ meta'[c].project = p /\ meta'[c].vintage = v
    BY <1>0, <2>1, <2>2
  <2>4. \A q \in Project, w \in Vintage :
          byVintage'[q][w] = IF q = p /\ w = v THEN c ELSE byVintage[q][w]
    BY <1>0, <2>1
  <2> SUFFICES ASSUME NEW q \in Project, NEW w \in Vintage, NEW d, d = byVintage'[q][w], d # None
               PROVE  status'[d] # "Absent" /\ meta'[d].project = q /\ meta'[d].vintage = w
    BY DEF SlotNamesItsCredit, Exists
  <2>5. CASE q = p /\ w = v
    BY <2>3, <2>4, <2>5
  <2>6. CASE ~(q = p /\ w = v)
    <3>1. byVintage[q][w] = d /\ d \in CreditId
      BY <1>0, <2>4, <2>6
    <3>2. Exists(d) /\ meta[d].project = q /\ meta[d].vintage = w
      BY <3>1 DEF SlotNamesItsCredit, Exists
    <3> QED BY <1>1, <3>1, <3>2 DEF Exists
  <2> QED BY <2>5, <2>6
<1>4. ASSUME NEW a \in Account,
             \/ \E c \in CreditId, t \in SplitArg : SplitCredit(a, c, t)
             \/ \E ids \in MergeArg : MergeCredits(a, ids)
      PROVE  SlotNamesItsCredit'
  BY <1>2, <1>4 DEF SplitCredit, MergeCredits
<1> QED BY <1>2, <1>3, <1>4, OtherStepsKeepIndexes DEF SubmissionStep

(* The duplicate check of submit_credit always looks at the last credit     *)
(* submitted for that project and vintage, or at an empty slot.             *)
THEOREM SlotsNameTheirCredits == Spec => []SlotNamesItsCredit
<1>1. Init => SlotNamesItsCredit
  BY DEF Init, CreditInit, SlotNamesItsCredit
<1>2. TypeOK /\ SlotNamesItsCredit /\ [Next]_vars => SlotNamesItsCredit'
  BY SlotStep
<1> QED BY <1>1, <1>2, TypeCorrect, PTL DEF Spec

-----------------------------------------------------------------------------
(* The per-project list. *)

LEMMA ConcatDisjointInjective ==
  ASSUME NEW S, NEW q \in Seq(S), NEW r \in Seq(S), IsInjective(q), IsInjective(r),
         Range(q) \cap Range(r) = {}
  PROVE  IsInjective(q \o r) /\ Range(q \o r) = Range(q) \cup Range(r)
<1> DEFINE s == q \o r
<1>1. /\ DOMAIN s = 1 .. Len(q) + Len(r)
      /\ DOMAIN q = 1 .. Len(q) /\ DOMAIN r = 1 .. Len(r)
      /\ Len(q) \in Nat /\ Len(r) \in Nat
      /\ \A i \in DOMAIN q : s[i] = q[i]
      /\ \A i \in DOMAIN s \ DOMAIN q : s[i] = r[i - Len(q)]
  OBVIOUS
<1> HIDE DEF s
<1>2. \A i \in DOMAIN s \ DOMAIN q : i - Len(q) \in DOMAIN r
  BY <1>1
<1>3. \A i \in DOMAIN r : i + Len(q) \in DOMAIN s \ DOMAIN q /\ s[i + Len(q)] = r[i]
  BY <1>1
<1>4. Range(s) = Range(q) \cup Range(r)
  <2>1. ASSUME NEW x \in Range(s) PROVE x \in Range(q) \cup Range(r)
    <3>1. PICK i \in DOMAIN s : x = s[i]
      BY <2>1 DEF Range
    <3> QED BY <1>1, <1>2, <3>1 DEF Range
  <2>2. ASSUME NEW x \in Range(q) PROVE x \in Range(s)
    <3>1. PICK i \in DOMAIN q : x = q[i]
      BY <2>2 DEF Range
    <3>2. i \in DOMAIN s
      BY <1>1
    <3> QED BY <1>1, <3>1, <3>2 DEF Range
  <2>3. ASSUME NEW x \in Range(r) PROVE x \in Range(s)
    <3>1. PICK i \in DOMAIN r : x = r[i]
      BY <2>3 DEF Range
    <3> QED BY <1>3, <3>1 DEF Range
  <2> QED BY <2>1, <2>2, <2>3
<1>5. ASSUME NEW i \in DOMAIN s, NEW j \in DOMAIN s, s[i] = s[j]
      PROVE  i = j
  <2>1. CASE i \in DOMAIN q /\ j \in DOMAIN q
    BY <1>1, <1>5, <2>1 DEF IsInjective
  <2>2. CASE i \notin DOMAIN q /\ j \notin DOMAIN q
    <3>1. i - Len(q) = j - Len(q)
      BY <1>1, <1>2, <1>5, <2>2 DEF IsInjective
    <3> QED BY <1>1, <3>1
  <2>3. ASSUME NEW k \in DOMAIN q, NEW l \in DOMAIN s \ DOMAIN q, s[k] = s[l]
        PROVE  FALSE
    <3>1. s[k] \in Range(q)
      BY <1>1 DEF Range
    <3>2. s[l] \in Range(r)
      BY <1>1, <1>2 DEF Range
    <3> QED BY <2>3, <3>1, <3>2
  <2> QED BY <1>5, <2>1, <2>2, <2>3
<1> QED BY <1>4, <1>5 DEF IsInjective, s

(* What the index must list for a project. *)
CreditsOf(p) == {c \in CreditId : Exists(c) /\ meta[c].project = p}

(* A step that derives the ids of a list, all for one project, and indexes  *)
(* exactly that list there, keeps the index exact.                          *)
LEMMA IndexingKeepsExact ==
  ASSUME TypeOK, ProjectIndexExact, [Next]_vars, NEW p \in Project, NEW ids \in Seq(CreditId),
         IsInjective(ids), IndexCredits(p, ids),
         \A x \in CreditId : Exists(x)' <=> Exists(x) \/ x \in Range(ids),
         \A x \in Range(ids) : ~Exists(x) /\ meta'[x].project = p
  PROVE  ProjectIndexExact'
<1>0. projectCredits \in [Project -> Seq(CreditId)]
  BY DEF TypeOK
<1>1. \A x \in CreditId : Exists(x) => meta'[x] = meta[x]
  BY CreditsAreKept DEF KeepsCredit
<1>2. \A x \in Range(ids) : x \in CreditId
  BY RangeOfIds
<1>3. \A q \in Project :
        /\ IsInjective(projectCredits[q])
        /\ Range(projectCredits[q]) = CreditsOf(q)
  BY DEF ProjectIndexExact, CreditsOf
<1>4. \A q \in Project :
        projectCredits'[q] = IF q = p THEN projectCredits[q] \o ids ELSE projectCredits[q]
  BY <1>0 DEF IndexCredits
<1>5. /\ IsInjective(projectCredits[p] \o ids)
      /\ Range(projectCredits[p] \o ids) = CreditsOf(p) \cup Range(ids)
  <2>1. Range(projectCredits[p]) \cap Range(ids) = {}
    BY <1>3 DEF CreditsOf
  <2>2. projectCredits[p] \in Seq(CreditId) /\ IsInjective(projectCredits[p])
    BY <1>0, <1>3
  <2>3. /\ IsInjective(projectCredits[p] \o ids)
        /\ Range(projectCredits[p] \o ids) = Range(projectCredits[p]) \cup Range(ids)
    BY <2>1, <2>2, ConcatDisjointInjective
  <2> QED BY <1>3, <2>3
<1>6. \A q \in Project :
        {c \in CreditId : Exists(c)' /\ meta'[c].project = q} =
          CreditsOf(q) \cup (IF q = p THEN Range(ids) ELSE {})
  BY <1>1, <1>2 DEF CreditsOf
<1> QED BY <1>3, <1>4, <1>5, <1>6 DEF ProjectIndexExact

LEMMA IndexFrame ==
  ASSUME ProjectIndexExact,
         UNCHANGED <<meta, projectCredits>>, \A x \in CreditId : Exists(x)' <=> Exists(x)
  PROVE  ProjectIndexExact'
BY DEF ProjectIndexExact

LEMMA ProjectIndexStep ==
  ASSUME TypeOK, ProjectIndexExact, [Next]_vars
  PROVE  ProjectIndexExact'
<1> DEFINE c == creditNonce
<1>0. /\ meta \in [CreditId -> Metadata \cup {NoMetadata}]
      /\ creditNonce \in Nat
      /\ \A x \in CreditId : Exists(x) <=> x < creditNonce
      /\ \A x \in CreditId : Exists(x)' <=> x < creditNonce'
  BY NextType DEF TypeOK
<1>1. ASSUME NEW i \in IssuerKeys, NEW p \in Project, NEW v \in Vintage, NEW m \in Methodology,
             NEW g \in Geography, NEW t \in TonnesArg, SubmitCredit(i, p, v, m, g, t)
      PROVE  ProjectIndexExact'
  <2> DEFINE data == [project |-> p, issuer |-> i, vintage |-> v,
                      methodology |-> m, geography |-> g, tonnes |-> t]
  <2>1. /\ IndexCredits(p, <<c>>)
        /\ meta' = [meta EXCEPT ![c] = data]
        /\ creditNonce' = creditNonce + 1
        /\ c \in CreditId
    BY <1>0, <1>1 DEF SubmitCredit, DeriveIds
  <2>2. data.project = p
    OBVIOUS
  <2> HIDE DEF data
  <2>3. <<c>> \in Seq(CreditId) /\ IsInjective(<<c>>) /\ Range(<<c>>) = {c}
    BY <2>1 DEF IsInjective, Range
  <2>4. \A x \in CreditId : Exists(x)' <=> Exists(x) \/ x \in Range(<<c>>)
    BY <1>0, <2>1, <2>3
  <2>5. \A x \in Range(<<c>>) : ~Exists(x) /\ meta'[x].project = p
    BY <1>0, <2>1, <2>2, <2>3
  <2> QED BY <2>1, <2>3, <2>4, <2>5, IndexingKeepsExact
<1>2. ASSUME NEW a \in Account, NEW k \in CreditId, NEW t \in SplitArg, SplitCredit(a, k, t)
      PROVE  ProjectIndexExact'
  <2> DEFINE p     == meta[k].project
             part  == [meta[k] EXCEPT !.tonnes = t]
             rest  == [meta[k] EXCEPT !.tonnes = @ - t]
             ids   == <<c, c + 1>>
  <2>1. /\ IndexCredits(p, ids)
        /\ meta' = [meta EXCEPT ![c] = part, ![c + 1] = rest]
        /\ creditNonce' = creditNonce + 2
        /\ c \in CreditId /\ c + 1 \in CreditId
        /\ Exists(k)
    BY <1>0, <1>2 DEF SplitCredit, DeriveIds, OwnedBy
  <2>2. meta[k] \in Metadata
    BY <2>1 DEF TypeOK
  <2>3. part.project = p /\ rest.project = p /\ p \in Project
    BY <2>2 DEF Metadata
  <2> HIDE DEF part, rest, p
  <2>4. ids \in Seq(CreditId) /\ IsInjective(ids) /\ Range(ids) = {c, c + 1}
    BY <1>0, <2>1 DEF IsInjective, Range
  <2> HIDE DEF ids
  <2>5. \A x \in CreditId : Exists(x)' <=> Exists(x) \/ x \in Range(ids)
    BY <1>0, <2>1, <2>4
  <2>6. \A x \in Range(ids) : ~Exists(x) /\ meta'[x].project = p
    <3>1. meta'[c] = part /\ meta'[c + 1] = rest
      BY <1>0, <2>1
    <3> QED BY <1>0, <2>1, <2>3, <2>4, <3>1
  <2> QED BY <2>1, <2>3, <2>4, <2>5, <2>6, IndexingKeepsExact
<1>3. ASSUME NEW a \in Account, NEW list \in MergeArg, MergeCredits(a, list)
      PROVE  ProjectIndexExact'
  <2> DEFINE p      == meta[list[1]].project
             merged == [meta[list[1]] EXCEPT !.tonnes = MergedTonnes(list)]
  <2>1. /\ IndexCredits(p, <<c>>)
        /\ meta' = [meta EXCEPT ![c] = merged]
        /\ creditNonce' = creditNonce + 1
        /\ c \in CreditId
    BY <1>0, <1>3 DEF MergeCredits, DeriveIds
  <2>2. meta[list[1]] \in Metadata
    <3>1. list \in Seq(CreditId) /\ Len(list) >= 2
      BY <1>3 DEF MergeCredits, Mergeable
    <3>2. 1 \in DOMAIN list /\ list[1] \in CreditId
      BY <3>1
    <3>3. Exists(list[1])
      BY <1>3, <3>2 DEF MergeCredits, Mergeable, OwnedBy
    <3> QED BY <3>2, <3>3 DEF TypeOK
  <2>3. merged.project = p /\ p \in Project
    BY <2>2 DEF Metadata
  <2> HIDE DEF merged, p
  <2>4. <<c>> \in Seq(CreditId) /\ IsInjective(<<c>>) /\ Range(<<c>>) = {c}
    BY <2>1 DEF IsInjective, Range
  <2>5. \A x \in CreditId : Exists(x)' <=> Exists(x) \/ x \in Range(<<c>>)
    BY <1>0, <2>1, <2>4
  <2>6. \A x \in Range(<<c>>) : ~Exists(x) /\ meta'[x].project = p
    BY <1>0, <2>1, <2>3, <2>4
  <2> QED BY <2>1, <2>3, <2>4, <2>5, <2>6, IndexingKeepsExact
<1> QED BY <1>1, <1>2, <1>3, OtherStepsKeepIndexes, IndexFrame DEF SubmissionStep

(* list_credits_by_project lists every credit of a project exactly once.    *)
THEOREM ProjectIndexIsExact == Spec => []ProjectIndexExact
<1>1. Init => ProjectIndexExact
  BY EmptyInjective DEF Init, CreditInit, ProjectIndexExact, Exists
<1>2. TypeOK /\ ProjectIndexExact /\ [Next]_vars => ProjectIndexExact'
  BY ProjectIndexStep
<1> QED BY <1>1, <1>2, TypeCorrect, PTL DEF Spec

-----------------------------------------------------------------------------
(* The pause switch. *)

LEMMA PauseStep ==
  ASSUME TypeOK, [Next]_vars, paused, NEW x \in CreditId
  PROVE  /\ approvals'[x] = approvals[x]
         /\ Exists(x) => owner'[x] = owner[x]
         /\ status'[x] = "Pending" => status[x] = "Pending"
<1>0. /\ creditNonce \in Nat
      /\ owner \in [CreditId -> Address \cup {None}]
      /\ status \in [CreditId -> Status \cup {"Absent"}]
      /\ \A y \in CreditId : Exists(y) <=> y < creditNonce
  BY DEF TypeOK
<1>1. CASE (GovernanceStep /\ UNCHANGED creditVars) \/ UNCHANGED vars
  BY <1>1 DEF vars, creditVars
<1>2. ~SubmissionStep
  BY DEF SubmissionStep, SubmitCredit
<1>3. ASSUME NEW v \in VerifierKeys, NEW c \in CreditId, ApproveAndMint(v, c) \/ FlagCredit(v, c)
      PROVE  FALSE
  BY <1>3 DEF ApproveAndMint, FlagCredit
<1>4. ASSUME NEW from \in Account, NEW to \in Recipient, NEW c \in CreditId,
             TransferCredit(from, to, c)
      PROVE  FALSE
  BY <1>4 DEF TransferCredit
<1>5. ASSUME NEW a \in Account, NEW c \in CreditId, NEW t \in SplitArg, SplitCredit(a, c, t)
      PROVE  FALSE
  BY <1>5 DEF SplitCredit
<1>6. ASSUME NEW a \in Account, NEW ids \in MergeArg, MergeCredits(a, ids)
      PROVE  /\ approvals' = approvals
             /\ Exists(x) => owner'[x] = owner[x]
             /\ status'[x] = "Pending" => status[x] = "Pending"
  <2>1. /\ approvals' = approvals
        /\ owner' = [owner EXCEPT ![creditNonce] = a]
        /\ status' = [y \in CreditId |-> IF y = creditNonce THEN "Active"
                                         ELSE IF y \in Range(ids) THEN "Retired"
                                         ELSE status[y]]
    BY <1>6 DEF MergeCredits
  <2> QED BY <1>0, <2>1
<1>7. ASSUME NEW c \in CreditId,
             \/ \E a \in AdminKeys : ExpireCredit(a, c)
             \/ DisputeCredit(c)
             \/ \E a \in AdminKeys, o \in {0, 1} : ResolveDispute(a, c, o)
      PROVE  /\ approvals' = approvals /\ owner' = owner
             /\ status'[x] = "Pending" => status[x] = "Pending"
  <2>1. /\ approvals' = approvals /\ owner' = owner
        /\ \E s \in {"Expired", "Disputed", "Active", "Flagged"} :
             status' = [status EXCEPT ![c] = s]
    BY <1>7 DEF ExpireCredit, DisputeCredit, ResolveDispute, SetStatus
  <2> QED BY <1>0, <2>1
<1>8. ASSUME NEW C \in SUBSET CreditId, RetirementContractMarksRetired(C)
      PROVE  FALSE
  BY <1>8 DEF RetirementContractMarksRetired, MarkRetired
<1> QED
  BY <1>1, <1>2, <1>3, <1>4, <1>5, <1>6, <1>7, <1>8 DEF Next, RegistryStep, HandlingStep

(* A paused registry holds custody and signatures still, although merges,   *)
(* disputes, resolutions and expiries go on.                                *)
THEOREM PauseKeepsCustody == Spec => PauseHoldsCustody
<1>1. TypeOK /\ [Next]_vars =>
        [paused => \A c \in CreditId :
           /\ approvals'[c] = approvals[c]
           /\ Exists(c) => owner'[c] = owner[c]
           /\ status'[c] = "Pending" => status[c] = "Pending"]_vars
  BY PauseStep
<1> QED BY <1>1, TypeCorrect, PTL DEF Spec, PauseHoldsCustody

-----------------------------------------------------------------------------
(* The tonnes: what each operation does to the sum over the live credits.   *)

(* What each id adds, from the statuses and the metadata alone.             *)
Counts(s) == s \notin {"Absent", "Retired"}

Tonnage(st, mt) ==
  [i \in 1 .. MaxCredits |-> IF Counts(st[i - 1]) THEN mt[i - 1].tonnes ELSE 0]

(* Every credit has metadata.                                               *)
Described(st, mt) == \A c \in CreditId : st[c] # "Absent" => mt[c].tonnes \in Nat

(* The live tonnes are a natural number.                                    *)
LEMMA TonnageType ==
  ASSUME NEW st, NEW mt, Described(st, mt)
  PROVE  /\ \A i \in 1 .. MaxCredits : Tonnage(st, mt)[i] \in Nat
         /\ SumTo(Tonnage(st, mt), MaxCredits) \in Nat
<1> DEFINE w == Tonnage(st, mt)
           z == [i \in 1 .. MaxCredits |-> 0]
<1>1. \A i \in 1 .. MaxCredits : i - 1 \in CreditId
  OBVIOUS
<1>2. \A i \in 1 .. MaxCredits : w[i] \in Nat
  BY <1>1 DEF Described, Tonnage, Counts
<1>3. SumTo(w, MaxCredits) \in Int
  <2> HIDE DEF w
  <2> QED BY <1>2, SumIsInt
<1>4. SumTo(z, MaxCredits) = 0
  BY SumOfZeros
<1>5. SumTo(z, MaxCredits) <= SumTo(w, MaxCredits)
  <2>1. \A i \in 1 .. MaxCredits : z[i] \in Int /\ w[i] \in Int /\ z[i] <= w[i]
    BY <1>2
  <2> HIDE DEF w, z
  <2> QED BY <2>1, SumIsMonotone
<1> QED BY <1>2, <1>3, <1>4, <1>5

(* The live tonnes before and after a step, as sums over a function of the  *)
(* statuses and the metadata, which the lemmas on sums compare.             *)
LEMMA TonnageIsLiveTonnes == LiveTonnes = SumTo(Tonnage(status, meta), MaxCredits)
<1>1. \A i \in 1 .. MaxCredits : i - 1 \in Live <=> Counts(status[i - 1])
  BY DEF Live, Exists, Counts
<1>2. \A i \in 1 .. MaxCredits : LiveTonnesOf[i] = Tonnage(status, meta)[i]
  BY <1>1 DEF LiveTonnesOf, Tonnage
<1> QED BY <1>2, SumOfEqual DEF LiveTonnes

LEMMA NextTonnage ==
  LiveTonnes' = SumTo(Tonnage(status', meta'), MaxCredits)
<1>1. \A i \in 1 .. MaxCredits : i - 1 \in Live' <=> Counts(status'[i - 1])
  BY DEF Live, Exists, Counts
<1>2. \A i \in 1 .. MaxCredits : (LiveTonnesOf')[i] = Tonnage(status', meta')[i]
  BY <1>1 DEF LiveTonnesOf, Tonnage
<1>3. LiveTonnes' = SumTo(LiveTonnesOf', MaxCredits)
  BY DEF LiveTonnes
<1> QED BY <1>2, <1>3, SumOfEqual

LEMMA CreditsAreDescribed ==
  ASSUME TypeOK, TypeOK'
  PROVE  Described(status, meta) /\ Described(status', meta')
BY DEF TypeOK, Exists, Described, Metadata

(* A step after which the same credits are live, with the same tonnes.      *)
LEMMA SameLiveTonnes ==
  ASSUME \A c \in CreditId : Counts(status'[c]) <=> Counts(status[c]),
         \A c \in CreditId : Counts(status[c]) => meta'[c] = meta[c]
  PROVE  LiveTonnes' = LiveTonnes
<1>1. \A i \in 1 .. MaxCredits : i - 1 \in CreditId
  OBVIOUS
<1>2. \A i \in 1 .. MaxCredits : Tonnage(status', meta')[i] = Tonnage(status, meta)[i]
  BY <1>1 DEF Tonnage
<1>3. SumTo(Tonnage(status', meta'), MaxCredits) = SumTo(Tonnage(status, meta), MaxCredits)
  BY <1>2, SumOfEqual
<1> QED BY <1>3, TonnageIsLiveTonnes, NextTonnage

(* Giving one credit another status, neither of them Retired.               *)
LEMMA StatusAmongLive ==
  ASSUME TypeOK, NEW c \in CreditId, NEW s, Counts(status[c]), Counts(s),
         status' = [status EXCEPT ![c] = s], meta' = meta
  PROVE  LiveTonnes' = LiveTonnes
<1>1. \A x \in CreditId : Counts(status'[x]) <=> Counts(status[x])
  BY DEF TypeOK
<1> QED BY <1>1, SameLiveTonnes

(* Approving, flagging, transferring, expiring and disputing.               *)
LEMMA HandlingKeepsTonnes ==
  ASSUME TypeOK, HandlingStep,
         ~ \E a \in Account, c \in CreditId, t \in SplitArg : SplitCredit(a, c, t),
         ~ \E a \in Account, ids \in MergeArg : MergeCredits(a, ids)
  PROVE  LiveTonnes' = LiveTonnes
<1> USE DEF Counts
<1>0. \A x \in CreditId : status[x] \in Status \cup {"Absent"}
  BY DEF TypeOK
<1>1. ASSUME NEW v \in VerifierKeys, NEW c \in CreditId, ApproveAndMint(v, c)
      PROVE  LiveTonnes' = LiveTonnes
  <2>1. status[c] = "Pending" /\ meta' = meta
        /\ (status' = [status EXCEPT ![c] = "Active"] \/ status' = status)
    BY <1>1 DEF ApproveAndMint, MayApprove
  <2>2. CASE status' = status
    BY <2>1, <2>2, SameLiveTonnes
  <2> QED BY <2>1, <2>2, StatusAmongLive
<1>2. ASSUME NEW v \in VerifierKeys, NEW c \in CreditId, FlagCredit(v, c)
      PROVE  LiveTonnes' = LiveTonnes
  BY <1>2, StatusAmongLive DEF FlagCredit, Flaggable
<1>3. ASSUME NEW from \in Account, NEW to \in Recipient, NEW c \in CreditId,
             TransferCredit(from, to, c)
      PROVE  LiveTonnes' = LiveTonnes
  BY <1>3, SameLiveTonnes DEF TransferCredit
<1>4. ASSUME NEW a \in AdminKeys, NEW c \in CreditId, ExpireCredit(a, c)
      PROVE  LiveTonnes' = LiveTonnes
  BY <1>4, StatusAmongLive DEF ExpireCredit, Expirable, SetStatus
<1>5. ASSUME NEW c \in CreditId, DisputeCredit(c)
      PROVE  LiveTonnes' = LiveTonnes
  BY <1>5, StatusAmongLive DEF DisputeCredit, Disputable, SetStatus
<1>6. ASSUME NEW a \in AdminKeys, NEW c \in CreditId, NEW o \in {0, 1}, ResolveDispute(a, c, o)
      PROVE  LiveTonnes' = LiveTonnes
  BY <1>6, StatusAmongLive DEF ResolveDispute, SetStatus
<1> QED BY <1>1, <1>2, <1>3, <1>4, <1>5, <1>6 DEF HandlingStep

(* A submission adds its tonnes.                                            *)
LEMMA SubmissionAddsTonnes ==
  ASSUME TypeOK, TypeOK', NEW i \in IssuerKeys, NEW p \in Project, NEW v \in Vintage,
         NEW m \in Methodology, NEW g \in Geography, NEW t \in TonnesArg,
         SubmitCredit(i, p, v, m, g, t)
  PROVE  t \in Nat /\ t > 0 /\ LiveTonnes' = LiveTonnes + t
<1> DEFINE w == Tonnage(status, meta)
           w2 == Tonnage(status', meta')
           j == creditNonce + 1
<1>1. t \in Nat /\ t > 0
  <2>1. AcceptedSubmission(i, p, v, m, t)
    BY DEF SubmitCredit
  <2> QED BY <2>1 DEF AcceptedSubmission
<1>2. creditNonce \in CreditId /\ j \in 1 .. MaxCredits
  BY DEF TypeOK, SubmitCredit, DeriveIds
<1>3. /\ status' = [status EXCEPT ![creditNonce] = "Pending"]
      /\ \A c \in CreditId : c # creditNonce => meta'[c] = meta[c]
      /\ meta'[creditNonce].tonnes = t
  BY <1>2 DEF TypeOK, SubmitCredit
<1>4. status[creditNonce] = "Absent" /\ status \in [CreditId -> Status \cup {"Absent"}]
  BY <1>2 DEF TypeOK, Exists
<1>5. /\ \A k \in 1 .. MaxCredits : w[k] \in Nat /\ w2[k] \in Nat
      /\ SumTo(w, MaxCredits) \in Nat
  BY CreditsAreDescribed, TonnageType
<1>6. \A k \in 1 .. MaxCredits : k # j => w2[k] = w[k]
  <2> SUFFICES ASSUME NEW k \in 1 .. MaxCredits, k # j PROVE w2[k] = w[k]
    OBVIOUS
  <2>1. k - 1 \in CreditId /\ k - 1 # creditNonce
    BY <1>2
  <2> QED BY <1>3, <1>4, <2>1 DEF Tonnage
<1>7. w[j] = 0 /\ w2[j] = t
  <2>1. j - 1 = creditNonce
    BY <1>2
  <2> QED BY <1>2, <1>3, <1>4, <2>1 DEF Tonnage, Counts
<1> HIDE DEF w, w2, j
<1>8. SumTo(w2, MaxCredits) = SumTo(w, MaxCredits) + (w2[j] - w[j])
  BY <1>2, <1>5, <1>6, SumOfUpdate
<1>9. SumTo(w2, MaxCredits) = SumTo(w, MaxCredits) + t
  BY <1>1, <1>5, <1>7, <1>8
<1> QED BY <1>1, <1>9, TonnageIsLiveTonnes, NextTonnage DEF w, w2

(* Retiring credits never adds tonnes.                                      *)
LEMMA RetiringBurnsTonnes ==
  ASSUME TypeOK, TypeOK', NEW C \in SUBSET CreditId, MarkRetired(C)
  PROVE  LiveTonnes' \in Nat /\ LiveTonnes \in Nat /\ LiveTonnes' <= LiveTonnes
<1> DEFINE w == Tonnage(status, meta)
           w2 == Tonnage(status', meta')
<1>1. /\ \A k \in 1 .. MaxCredits : w[k] \in Nat /\ w2[k] \in Nat
      /\ SumTo(w, MaxCredits) \in Nat /\ SumTo(w2, MaxCredits) \in Nat
  BY CreditsAreDescribed, TonnageType
<1>2. /\ \A c \in CreditId : status'[c] = IF c \in C THEN "Retired" ELSE status[c]
      /\ meta' = meta
  BY DEF MarkRetired
<1>3. \A k \in 1 .. MaxCredits : w2[k] = w[k] \/ w2[k] = 0
  <2> SUFFICES ASSUME NEW k \in 1 .. MaxCredits PROVE w2[k] = w[k] \/ w2[k] = 0
    OBVIOUS
  <2>1. k - 1 \in CreditId
    OBVIOUS
  <2> QED BY <1>2, <2>1 DEF Tonnage, Counts
<1>4. SumTo(w2, MaxCredits) <= SumTo(w, MaxCredits)
  <2>1. \A k \in 1 .. MaxCredits : w2[k] \in Int /\ w[k] \in Int /\ w2[k] <= w[k]
    BY <1>1, <1>3
  <2> HIDE DEF w, w2
  <2> QED BY <2>1, SumIsMonotone
<1> QED BY <1>1, <1>4, TonnageIsLiveTonnes, NextTonnage

(* A split moves tonnes from one id to two new ones.                        *)
LEMMA SplitKeepsTonnes ==
  ASSUME TypeOK, TypeOK', NEW a \in Account, NEW c \in CreditId, NEW t \in SplitArg,
         SplitCredit(a, c, t)
  PROVE  LiveTonnes' = LiveTonnes
<1> DEFINE w == Tonnage(status, meta)
           w2 == Tonnage(status', meta')
           first == creditNonce
           second == creditNonce + 1
           whole == meta[c].tonnes
           w1 == [w EXCEPT ![first + 1] = t]
           w12 == [w1 EXCEPT ![second + 1] = whole - t]
<1>1. /\ first \in CreditId /\ second \in CreditId /\ first # second
      /\ c # first /\ c # second
  <2>1. creditNonce \in Nat /\ creditNonce + 2 <= MaxCredits
    BY DEF TypeOK, SplitCredit, DeriveIds
  <2>2. c < creditNonce
    BY DEF TypeOK, SplitCredit, OwnedBy
  <2> QED BY <2>1, <2>2
<1>2. status \in [CreditId -> Status \cup {"Absent"}] /\ meta \in [CreditId -> Metadata \cup {NoMetadata}]
      /\ status[first] = "Absent" /\ status[second] = "Absent" /\ status[c] # "Absent"
  BY <1>1 DEF TypeOK, SplitCredit, OwnedBy, Exists
<1>3. t \in Int /\ whole \in Nat
  <2>1. Described(status, meta)
    BY CreditsAreDescribed
  <2> QED BY <1>2, <2>1 DEF Described
<1>4. /\ \A x \in CreditId : status'[x] = IF x = c THEN "Retired"
                                          ELSE IF x \in {first, second} THEN status[c] ELSE status[x]
      /\ \A x \in CreditId : x \notin {first, second} => meta'[x] = meta[x]
  BY <1>1, <1>2 DEF SplitCredit
<1>5. meta'[first].tonnes = t /\ meta'[second].tonnes = whole - t
  <2>1. meta[c] \in Metadata
    BY <1>2 DEF TypeOK, Exists
  <2>2. \A x : [meta[c] EXCEPT !.tonnes = x].tonnes = x
    BY <2>1 DEF Metadata
  <2>3. meta'[first] = [meta[c] EXCEPT !.tonnes = t] /\ meta'[second] = [meta[c] EXCEPT !.tonnes = @ - t]
    BY <1>1, <1>2 DEF SplitCredit
  <2> QED BY <2>2, <2>3
<1>6. CASE status[c] = "Retired"
  <2>1. \A x \in CreditId : Counts(status'[x]) <=> Counts(status[x])
    BY <1>1, <1>2, <1>4, <1>6 DEF Counts
  <2>2. \A x \in CreditId : Counts(status[x]) => meta'[x] = meta[x]
    BY <1>2, <1>4 DEF Counts
  <2> QED BY <2>1, <2>2, SameLiveTonnes
<1>7. CASE status[c] # "Retired"
  <2>1. first + 1 \in 1 .. MaxCredits /\ second + 1 \in 1 .. MaxCredits /\ c + 1 \in 1 .. MaxCredits
    BY <1>1
  <2>2. /\ \A k \in 1 .. MaxCredits : w[k] \in Nat /\ w2[k] \in Nat
        /\ SumTo(w, MaxCredits) \in Nat
    BY CreditsAreDescribed, TonnageType
  <2>3. DOMAIN w = 1 .. MaxCredits
    BY DEF Tonnage
  <2>4. w[first + 1] = 0 /\ w[second + 1] = 0 /\ w[c + 1] = whole
    <3>1. (first + 1) - 1 = first /\ (second + 1) - 1 = second /\ (c + 1) - 1 = c
      BY <1>1
    <3> QED BY <1>2, <1>7, <2>1, <3>1 DEF Tonnage, Counts
  <2>5. w2[first + 1] = t /\ w2[second + 1] = whole - t /\ w2[c + 1] = 0
    <3>1. (first + 1) - 1 = first /\ (second + 1) - 1 = second /\ (c + 1) - 1 = c
      BY <1>1
    <3>2. Counts(status'[first]) /\ Counts(status'[second]) /\ ~Counts(status'[c])
      BY <1>1, <1>2, <1>4, <1>7 DEF Counts
    <3> QED BY <1>5, <2>1, <3>1, <3>2 DEF Tonnage
  <2>6. \A k \in 1 .. MaxCredits : k \notin {first + 1, second + 1, c + 1} => w2[k] = w[k]
    <3> SUFFICES ASSUME NEW k \in 1 .. MaxCredits, k \notin {first + 1, second + 1, c + 1}
                 PROVE  w2[k] = w[k]
      OBVIOUS
    <3>1. k - 1 \in CreditId /\ k - 1 \notin {first, second, c}
      BY <1>1
    <3> QED BY <1>4, <3>1 DEF Tonnage
  <2>7. first + 1 # second + 1 /\ c + 1 # first + 1 /\ c + 1 # second + 1
    BY <1>1
  <2>8. SumTo(w1, MaxCredits) = SumTo(w, MaxCredits) + t
    <3>1. \A k \in 1 .. MaxCredits : w1[k] \in Int /\ w[k] \in Int
      BY <1>3, <2>2, <2>3
    <3>2. \A k \in 1 .. MaxCredits : k # first + 1 => w1[k] = w[k]
      BY <2>3
    <3>3. w1[first + 1] = t
      BY <2>1, <2>3
    <3>4. SumTo(w1, MaxCredits) = SumTo(w, MaxCredits) + (w1[first + 1] - w[first + 1])
      <4> HIDE DEF w, w1, first
      <4> QED BY <2>1, <3>1, <3>2, SumOfUpdate
    <3> QED BY <1>3, <2>4, <3>3, <3>4
  <2>9. SumTo(w12, MaxCredits) = SumTo(w1, MaxCredits) + (whole - t)
    <3>0. DOMAIN w1 = 1 .. MaxCredits
      BY <2>3
    <3>1. \A k \in 1 .. MaxCredits : w12[k] \in Int /\ w1[k] \in Int
      BY <1>3, <2>2, <2>3
    <3>2. \A k \in 1 .. MaxCredits : k # second + 1 => w12[k] = w1[k]
      BY <3>0
    <3>3. w12[second + 1] = whole - t /\ w1[second + 1] = 0
      BY <2>1, <2>3, <2>4, <2>7
    <3>4. SumTo(w12, MaxCredits) = SumTo(w1, MaxCredits) + (w12[second + 1] - w1[second + 1])
      <4> HIDE DEF w, w1, w12, second
      <4> QED BY <2>1, <3>1, <3>2, SumOfUpdate
    <3> QED BY <1>3, <3>3, <3>4
  <2>10. SumTo(w2, MaxCredits) = SumTo(w12, MaxCredits) - whole
    <3>1. \A k \in 1 .. MaxCredits : w2[k] \in Int /\ w12[k] \in Int
      BY <1>3, <2>2, <2>3
    <3>2. \A k \in 1 .. MaxCredits : k # c + 1 => w2[k] = w12[k]
      BY <2>3, <2>5, <2>6, <2>7
    <3>3. w12[c + 1] = whole
      BY <2>1, <2>3, <2>4, <2>7
    <3>4. SumTo(w2, MaxCredits) = SumTo(w12, MaxCredits) + (w2[c + 1] - w12[c + 1])
      <4> HIDE DEF w, w1, w12, w2
      <4> QED BY <2>1, <3>1, <3>2, SumOfUpdate
    <3>5. SumTo(w12, MaxCredits) \in Int
      <4> HIDE DEF w12
      <4> QED BY <3>1, SumIsInt
    <3> QED BY <1>3, <2>5, <3>3, <3>4, <3>5
  <2>11. SumTo(w2, MaxCredits) = SumTo(w, MaxCredits)
    <3> HIDE DEF w, w1, w12, w2, whole
    <3> QED BY <1>3, <2>2, <2>8, <2>9, <2>10
  <2> QED BY <2>11, TonnageIsLiveTonnes, NextTonnage
<1> QED BY <1>6, <1>7

(* A merge of distinct credits gathers their tonnes under a new id.         *)
LEMMA MergeKeepsTonnes ==
  ASSUME TypeOK, TypeOK', NEW a \in Account, NEW ids \in MergeArg, IsInjective(ids),
         MergeCredits(a, ids)
  PROVE  LiveTonnes' = LiveTonnes
<1> DEFINE w == Tonnage(status, meta)
           w2 == Tonnage(status', meta')
           new == creditNonce
           n == Len(ids)
           s == [k \in 1 .. n |-> ids[k] + 1]
           cleared == [i \in 1 .. MaxCredits |-> IF \E k \in 1 .. n : s[k] = i THEN 0 ELSE w[i]]
           parts == Along(w, s, n)
<1>1. /\ n \in Nat /\ DOMAIN ids = 1 .. n
      /\ \A k \in 1 .. n : ids[k] \in CreditId
      /\ new \in CreditId
  <2>1. ids \in Seq(CreditId)
    OBVIOUS
  <2>2. new \in CreditId
    BY DEF TypeOK, MergeCredits, DeriveIds
  <2> QED BY <2>1, <2>2
<1>2. \A k \in 1 .. n : status[ids[k]] = "Active" /\ ids[k] # new
  <2>1. \A k \in 1 .. n : OwnedBy(a, ids[k]) /\ status[ids[k]] = "Active"
    BY <1>1 DEF MergeCredits, Mergeable
  <2>2. \A x \in CreditId : Exists(x) => x # new
    BY DEF TypeOK
  <2> QED BY <1>1, <2>1, <2>2 DEF OwnedBy
<1>3. status[new] = "Absent"
  BY <1>1 DEF TypeOK, Exists
<1>4. /\ \A x \in CreditId : status'[x] = IF x = new THEN "Active"
                                          ELSE IF \E k \in 1 .. n : ids[k] = x THEN "Retired"
                                          ELSE status[x]
      /\ \A x \in CreditId : x # new => meta'[x] = meta[x]
  <2>1. \A x : x \in Range(ids) <=> \E k \in 1 .. n : ids[k] = x
    BY <1>1 DEF Range
  <2>2. status' = [x \in CreditId |-> IF x = new THEN "Active"
                                      ELSE IF x \in Range(ids) THEN "Retired"
                                      ELSE status[x]]
        /\ \A x \in CreditId : x # new => meta'[x] = meta[x]
    BY DEF TypeOK, MergeCredits
  <2> HIDE DEF n, new
  <2> QED BY <2>1, <2>2
<1>5. meta'[new].tonnes = MergedTonnes(ids) /\ MergedTonnes(ids) \in Nat
  <2>1. n >= 2 /\ MergedTonnes(ids) \in Nat
    BY DEF MergeCredits, Mergeable
  <2>2. ids[1] \in CreditId /\ status[ids[1]] = "Active"
    BY <1>1, <1>2, <2>1
  <2>3. meta[ids[1]] \in Metadata
    BY <2>2 DEF TypeOK, Exists
  <2>4. meta'[new] = [meta[ids[1]] EXCEPT !.tonnes = MergedTonnes(ids)]
    BY <1>1 DEF TypeOK, MergeCredits
  <2> QED BY <2>1, <2>3, <2>4 DEF Metadata
<1>6. /\ \A k \in 1 .. MaxCredits : w[k] \in Nat /\ w2[k] \in Nat
      /\ SumTo(w, MaxCredits) \in Nat
  BY CreditsAreDescribed, TonnageType
<1>7. new + 1 \in 1 .. MaxCredits /\ \A k \in 1 .. n : s[k] \in 1 .. MaxCredits
  BY <1>1
<1>8. \A j, k \in 1 .. n : s[j] = s[k] => j = k
  <2>1. \A j, k \in 1 .. n : ids[j] = ids[k] => j = k
    BY <1>1 DEF IsInjective
  <2>2. \A j, k \in 1 .. n : s[j] = s[k] => ids[j] = ids[k]
    BY <1>1
  <2> QED BY <2>1, <2>2
<1>9. SumTo(cleared, MaxCredits) = SumTo(w, MaxCredits) - SumTo(parts, n)
  <2>1. AllInt(w, MaxCredits)
    BY <1>6 DEF AllInt
  <2>2. Picks(s, n, MaxCredits)
    BY <1>7, <1>8 DEF Picks
  <2>3. Clears(cleared, w, s, MaxCredits, n)
    BY DEF Clears
  <2>4. n \in Nat /\ MaxCredits \in Nat
    BY <1>1
  <2> HIDE DEF w, s, cleared, n
  <2> QED BY <2>1, <2>2, <2>3, <2>4, SumOfCleared
<1>10. SumTo(parts, n) = MergedTonnes(ids)
  <2>1. \A k \in 1 .. n : parts[k] = meta[ids[k]].tonnes
    <3> SUFFICES ASSUME NEW k \in 1 .. n PROVE w[ids[k] + 1] = meta[ids[k]].tonnes
      BY DEF Along
    <3>1. ids[k] + 1 \in 1 .. MaxCredits /\ (ids[k] + 1) - 1 = ids[k]
      BY <1>1
    <3>2. Counts(status[ids[k]])
      BY <1>2 DEF Counts
    <3> QED BY <3>1, <3>2 DEF Tonnage
  <2> DEFINE h == [k \in DOMAIN ids |-> meta[ids[k]].tonnes]
  <2>2. \A k \in 1 .. n : parts[k] = h[k]
    BY <1>1, <2>1
  <2>3. SumTo(parts, n) = SumTo(h, n)
    <3> HIDE DEF parts, h, n
    <3> QED BY <1>1, <2>2, SumOfEqual
  <2> QED BY <2>3 DEF MergedTonnes
<1>11. \A i \in 1 .. MaxCredits : i # new + 1 => w2[i] = cleared[i]
  <2> SUFFICES ASSUME NEW i \in 1 .. MaxCredits, i # new + 1 PROVE w2[i] = cleared[i]
    OBVIOUS
  <2>1. i - 1 \in CreditId /\ i - 1 # new
    BY <1>1
  <2>2. (\E k \in 1 .. n : s[k] = i) <=> (\E k \in 1 .. n : ids[k] = i - 1)
    BY <1>1
  <2>3. CASE \E k \in 1 .. n : ids[k] = i - 1
    <3>1. status'[i - 1] = "Retired"
      BY <1>4, <2>1, <2>3
    <3>2. w2[i] = 0
      BY <3>1 DEF Tonnage, Counts
    <3> HIDE DEF s, w, w2, n
    <3> QED BY <2>2, <2>3, <3>2
  <2>4. CASE ~ \E k \in 1 .. n : ids[k] = i - 1
    <3>1. status'[i - 1] = status[i - 1] /\ meta'[i - 1] = meta[i - 1]
      BY <1>4, <2>1, <2>4
    <3>2. w2[i] = w[i]
      BY <3>1 DEF Tonnage
    <3> HIDE DEF s, w, w2, n
    <3> QED BY <2>2, <2>4, <3>2
  <2> QED BY <2>3, <2>4
<1>12. w2[new + 1] = MergedTonnes(ids) /\ cleared[new + 1] = 0
  <2>1. (new + 1) - 1 = new
    BY <1>1
  <2>2. Counts(status'[new]) /\ ~Counts(status[new])
    BY <1>1, <1>3, <1>4 DEF Counts
  <2>3. w[new + 1] = 0 /\ w2[new + 1] = MergedTonnes(ids)
    BY <1>5, <1>7, <2>1, <2>2 DEF Tonnage
  <2> HIDE DEF s, w, w2, n
  <2> QED BY <1>7, <2>3
<1>13. SumTo(w2, MaxCredits) = SumTo(cleared, MaxCredits) + (w2[new + 1] - cleared[new + 1])
  <2>1. \A i \in 1 .. MaxCredits : cleared[i] \in Int /\ w2[i] \in Int
    BY <1>6
  <2> HIDE DEF w2, cleared
  <2> QED BY <1>7, <1>11, <2>1, SumOfUpdate
<1>14. SumTo(w2, MaxCredits) = SumTo(w, MaxCredits)
  <2> HIDE DEF w, w2, cleared, parts, n
  <2> QED BY <1>5, <1>6, <1>9, <1>10, <1>12, <1>13
<1> QED BY <1>14, TonnageIsLiveTonnes, NextTonnage

(* What a step of the ledger does to the two totals, when it is not a merge *)
(* that names a credit twice.                                               *)
LEMMA LedgerStepChanges ==
  ASSUME TypeOK, TypeOK', issued \in Nat, [LedgerNext]_ledgerVars, ~RepeatedMerge
  PROVE  \/ Supply!SupplyNext
         \/ UNCHANGED <<issued, LiveTonnes>>
<1>1. CASE RecordedSubmission
  <2>1. PICK i \in IssuerKeys, p \in Project, v \in Vintage, m \in Methodology,
             g \in Geography, t \in TonnesArg :
               SubmitCredit(i, p, v, m, g, t) /\ issued' = issued + t
    BY <1>1 DEF RecordedSubmission
  <2>2. t \in Nat /\ t > 0 /\ LiveTonnes' = LiveTonnes + t
    BY <2>1, SubmissionAddsTonnes
  <2>3. issued' \in Nat /\ issued' > issued /\ issued' - issued = t
    BY <2>1, <2>2
  <2> QED BY <2>2, <2>3 DEF Supply!SupplyNext, Supply!Issue
<1>2. CASE GovernanceStep /\ UNCHANGED creditVars /\ UNCHANGED issued
  BY <1>2, SameLiveTonnes DEF creditVars
<1>3. CASE UNCHANGED ledgerVars
  BY <1>3, SameLiveTonnes DEF ledgerVars, vars, creditVars
<1>4. CASE HandlingStep /\ UNCHANGED issued
  <2>1. ASSUME NEW a \in Account, NEW ids \in MergeArg, MergeCredits(a, ids)
        PROVE  LiveTonnes' = LiveTonnes
    BY <2>1, MergeKeepsTonnes DEF RepeatedMerge
  <2>2. ASSUME NEW a \in Account, NEW c \in CreditId, NEW t \in SplitArg, SplitCredit(a, c, t)
        PROVE  LiveTonnes' = LiveTonnes
    BY <2>2, SplitKeepsTonnes
  <2> QED BY <1>4, <2>1, <2>2, HandlingKeepsTonnes
<1>5. CASE (\E C \in SUBSET CreditId : RetirementContractMarksRetired(C)) /\ UNCHANGED issued
  <2>1. LiveTonnes' \in Nat /\ LiveTonnes \in Nat /\ LiveTonnes' <= LiveTonnes
    BY <1>5, RetiringBurnsTonnes DEF RetirementContractMarksRetired
  <2>2. CASE LiveTonnes' = LiveTonnes
    BY <1>5, <2>2
  <2>3. CASE LiveTonnes' # LiveTonnes
    <3>1. LiveTonnes' < LiveTonnes
      BY <2>1, <2>3
    <3> QED BY <1>5, <2>1, <3>1 DEF Supply!SupplyNext, Supply!Burn
  <2> QED BY <2>2, <2>3
<1> QED BY <1>1, <1>2, <1>3, <1>4, <1>5 DEF LedgerNext

(* The ledger's steps are the registry's, with the submitted tonnes added.  *)
LEMMA LedgerStepIsStep ==
  ASSUME [LedgerNext]_ledgerVars
  PROVE  [Next]_vars
<1>1. CASE RecordedSubmission
  BY <1>1 DEF RecordedSubmission, Next, RegistryStep, SubmissionStep
<1>2. CASE UNCHANGED ledgerVars
  BY <1>2 DEF ledgerVars
<1> QED BY <1>1, <1>2 DEF LedgerNext, Next, RegistryStep

LEMMA IssuedStep ==
  ASSUME TypeOK, issued \in Nat, [LedgerNext]_ledgerVars
  PROVE  issued' \in Nat
<1>1. CASE RecordedSubmission
  <2>1. PICK i \in IssuerKeys, p \in Project, v \in Vintage, m \in Methodology,
             g \in Geography, t \in TonnesArg :
               SubmitCredit(i, p, v, m, g, t) /\ issued' = issued + t
    BY <1>1 DEF RecordedSubmission
  <2>2. AcceptedSubmission(i, p, v, m, t)
    BY <2>1 DEF SubmitCredit
  <2> QED BY <2>1, <2>2 DEF AcceptedSubmission
<1> QED BY <1>1 DEF LedgerNext, ledgerVars

LEMMA LedgerTypes == LedgerSpec => [](TypeOK /\ issued \in Nat)
<1>1. LedgerInit => TypeOK /\ issued \in Nat
  BY InitType DEF LedgerInit
<1>2. TypeOK /\ issued \in Nat /\ [LedgerNext]_ledgerVars => (TypeOK /\ issued \in Nat)'
  BY NextType, IssuedStep, LedgerStepIsStep
<1> QED BY <1>1, <1>2, PTL DEF LedgerSpec

(* Counting tonnes changes nothing in the registry: what is proved of Spec   *)
(* holds of the specification with the history variable.                    *)
THEOREM LedgerImplementsRegistry == LedgerSpec => Spec
<1>1. LedgerInit => Init
  BY DEF LedgerInit
<1>2. [LedgerNext]_ledgerVars => [Next]_vars
  BY LedgerStepIsStep
<1> QED BY <1>1, <1>2, PTL DEF LedgerSpec, Spec

LEMMA NothingLiveAtFirst ==
  ASSUME LedgerInit
  PROVE  issued = 0 /\ LiveTonnes = 0
<1>1. \A c \in CreditId : status[c] = "Absent"
  BY DEF LedgerInit, Init, CreditInit
<1>2. \A i \in 1 .. MaxCredits : i - 1 \in CreditId
  OBVIOUS
<1>3. \A i \in 1 .. MaxCredits : LiveTonnesOf[i] = 0
  BY <1>1, <1>2 DEF LiveTonnesOf, Live, Exists
<1> QED BY <1>3, SumOfZeros DEF LiveTonnes, LedgerInit

(* No operation changes the totals but for a submission, which issues what  *)
(* it brings to life, and a retirement, which burns; with one exception, a  *)
(* merge whose list names a credit twice.                                   *)
THEOREM TonnesLeakOnlyByRepeatedMerges == LedgerSpec => OnlyRepeatedMergesLeak
<1>1. LedgerInit => Supply!SupplyInit
  BY NothingLiveAtFirst DEF Supply!SupplyInit
<1>2. (TypeOK /\ issued \in Nat) /\ TypeOK' /\ [LedgerNext]_ledgerVars
        => [Supply!SupplyNext \/ RepeatedMerge]_(Supply!supplyVars)
  BY LedgerStepChanges DEF Supply!supplyVars
<1> QED BY <1>1, <1>2, LedgerTypes, PTL DEF LedgerSpec, OnlyRepeatedMergesLeak

(* While no merge names a credit twice the registry implements CarbonSupply.*)
THEOREM RegistryImplementsSupply ==
  LedgerSpec /\ [][~RepeatedMerge]_ledgerVars => ImplementsSupply
<1>1. LedgerInit => Supply!SupplyInit
  BY NothingLiveAtFirst DEF Supply!SupplyInit
<1>2. (TypeOK /\ issued \in Nat) /\ TypeOK' /\ [LedgerNext]_ledgerVars /\ [~RepeatedMerge]_ledgerVars
        => [Supply!SupplyNext]_(Supply!supplyVars)
  <2>1. CASE UNCHANGED ledgerVars
    BY <2>1, SameLiveTonnes DEF Supply!supplyVars, ledgerVars, vars, creditVars
  <2> QED BY <2>1, LedgerStepChanges DEF Supply!supplyVars
<1> QED BY <1>1, <1>2, LedgerTypes, PTL DEF LedgerSpec, ImplementsSupply

(* And then no more tonnes are live than were ever submitted.               *)
THEOREM LiveStaysWithinIssued ==
  LedgerSpec /\ [][~RepeatedMerge]_ledgerVars => []LiveWithinIssued
<1> DEFINE Inv == issued \in Nat /\ LiveTonnes \in Nat /\ LiveWithinIssued
<1>1. Supply!SupplyInit => Inv
  BY DEF Supply!SupplyInit, LiveWithinIssued
<1>2. Inv /\ [Supply!SupplyNext]_(Supply!supplyVars) => Inv'
  BY DEF Supply!SupplyNext, Supply!Issue, Supply!Burn, Supply!supplyVars, LiveWithinIssued
<1>3. ImplementsSupply => []Inv
  BY <1>1, <1>2, PTL DEF ImplementsSupply
<1>4. Inv => LiveWithinIssued
  OBVIOUS
<1> QED BY <1>3, <1>4, RegistryImplementsSupply, PTL
=============================================================================

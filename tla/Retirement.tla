----------------------------- MODULE Retirement -----------------------------
(***************************************************************************)
(* The retirement contract composed with the credit registry it calls.     *)
(* `retire` and `batch_retire` run mark_retired in the registry inside the *)
(* same transaction: both contracts change in one step, or neither does.   *)
(*                                                                         *)
(* A retirement id is a hash over the credit, the reason, the ledger's     *)
(* timestamp and, in a batch, the position.  Reason and timestamp are left *)
(* out, as if all retirements shared them: a second record of a credit     *)
(* would overwrite the first, which RecordsAreImmutable would see.         *)
(***************************************************************************)
EXTENDS CreditRegistry, SequencesExt

CONSTANTS
  RetirementAddress,  \* the address of this contract
  RetiredTonnesArg,   \* tonnes arguments of retire
  BatchArg,           \* <<credit_ids, tonnes>> arguments of batch_retire
  MaxBatch,           \* bound: the length of a batch
  RetNonceBound       \* bound: nonces of this contract each address may consume

ASSUME RetirementAddressAssumption == RetirementAddress \in Contract

ASSUME BatchAssumption ==
  /\ MaxBatch \in Nat
  /\ RetiredTonnesArg \subseteq Int
  /\ \A b \in BatchArg : b[1] \in Seq(CreditId) /\ b[2] \in Seq(Int) /\ Len(b[1]) <= MaxBatch

ASSUME RetNonceBoundAssumption == RetNonceBound \in [Address -> Nat]

VARIABLES
  retAdmin,           \* this contract's DataKey::Admin
  retPendingAdmin,    \* DataKey::PendingAdmin
  retPaused,          \* DataKey::Paused
  retNonce,           \* DataKey::Nonce(address)
  records,            \* DataKey::Retirement(id)
  accountRetirements  \* DataKey::AccountRetirements(address)

retControlVars == <<retAdmin, retPendingAdmin, retPaused>>

recordVars == <<records, accountRetirements>>

retVars == <<retControlVars, retNonce, recordVars>>

allRetVars == <<vars, retVars>>

(* Position 0 is a call of retire, i > 0 the i-th place of a batch. *)
RetirementId == CreditId \X (0 .. MaxBatch)

Record == [credit : CreditId, buyer : Address, tonnes : Nat \ {0}]

ASSUME NoRecordAssumption == None \notin Record

RetirementInit ==
  /\ retAdmin = None
  /\ retPendingAdmin = None
  /\ retPaused = FALSE
  /\ retNonce = [a \in Address |-> 0]
  /\ records = [r \in RetirementId |-> None]
  /\ accountRetirements = [a \in Address |-> << >>]

ConsumeRetNonce(a) ==
  /\ retNonce[a] < RetNonceBound[a]
  /\ retNonce' = [retNonce EXCEPT ![a] = @ + 1]

IsRetAdmin(a) == a \in Address /\ retAdmin = a

-----------------------------------------------------------------------------
(* Administration.  The guard against a second initialize is missing. *)

InitializeRetirement(a) ==
  /\ retAdmin' = a
  /\ UNCHANGED <<vars, retPendingAdmin, retPaused, retNonce, recordVars>>

SetRetPaused(a, value) ==
  /\ IsRetAdmin(a)
  /\ retPaused' = value
  /\ UNCHANGED <<vars, retAdmin, retPendingAdmin, retNonce, recordVars>>

ProposeRetAdmin(a, candidate) ==
  /\ IsRetAdmin(a)
  /\ retPendingAdmin' = candidate
  /\ UNCHANGED <<vars, retAdmin, retPaused, retNonce, recordVars>>

AcceptRetAdmin(a) ==
  /\ retPendingAdmin = a
  /\ retAdmin' = a
  /\ retPendingAdmin' = None
  /\ UNCHANGED <<vars, retPaused, retNonce, recordVars>>

UpgradeRetirement(a) ==
  /\ IsRetAdmin(a)
  /\ ConsumeRetNonce(a)
  /\ UNCHANGED <<vars, retControlVars, recordVars>>

-----------------------------------------------------------------------------
(* Retirement. *)

(* The registry accepts mark_retired from its registered contract only. *)
RegistryMarksRetired(C) ==
  /\ retirementContract = RetirementAddress
  /\ MarkRetired(C)
  /\ UNCHANGED govVars

(* Faulty variant: the account's list is started afresh. *)
ReplaceIndex(b, filed) ==
  accountRetirements' = [accountRetirements EXCEPT ![b] = filed]

ExtendIndex(b, filed) ==
  accountRetirements' = [accountRetirements EXCEPT ![b] = @ \o filed]

(* The records one call stores and indexes, in the order of its list. *)
FileRecords(b, filed, tonnes) ==
  LET place(r) == CHOOSE i \in DOMAIN filed : filed[i] = r IN
  /\ records' = [r \in RetirementId |->
       IF r \in Range(filed)
       THEN [credit |-> r[1], buyer |-> b, tonnes |-> tonnes[place(r)]]
       ELSE records[r]]
  /\ ExtendIndex(b, filed)

Retire(b, c, t) ==
  /\ ~retPaused
  /\ ConsumeRetNonce(b)
  /\ status[c] = "Active"
  /\ owner[c] = b
  /\ t > 0
  /\ RegistryMarksRetired({c})
  /\ FileRecords(b, << <<c, 0>> >>, <<t>>)
  /\ UNCHANGED retControlVars

(* Faulty variant: nothing makes the ids of a batch distinct. *)
ValidBatchWithRepeats(ids, tonnes) ==
  Len(ids) = Len(tonnes) /\ \A i \in DOMAIN tonnes : tonnes[i] > 0

(* The second of two equal ids would find the credit retired by the first. *)
ValidBatch(ids, tonnes) ==
  /\ Len(ids) = Len(tonnes)
  /\ \A i \in DOMAIN tonnes : tonnes[i] > 0
  /\ IsInjective(ids)

(* The owner of the credits is not asked: any account may retire a batch. *)
BatchRetire(b, ids, tonnes) ==
  /\ ~retPaused
  /\ ConsumeRetNonce(b)
  /\ ValidBatch(ids, tonnes)
  /\ \/ ids = << >> /\ UNCHANGED vars
     \/ ids # << >> /\ RegistryMarksRetired(Range(ids))
  /\ FileRecords(b, [i \in DOMAIN ids |-> <<ids[i], i>>], tonnes)
  /\ UNCHANGED retControlVars

-----------------------------------------------------------------------------
RetirementStep ==
  \/ \E a \in AdminKeys : \/ InitializeRetirement(a)
                          \/ SetRetPaused(a, TRUE)
                          \/ SetRetPaused(a, FALSE)
                          \/ AcceptRetAdmin(a)
                          \/ UpgradeRetirement(a)
  \/ \E a, candidate \in AdminKeys : ProposeRetAdmin(a, candidate)
  \/ \E b \in Account, c \in CreditId, t \in RetiredTonnesArg : Retire(b, c, t)
  \/ \E b \in Account, batch \in BatchArg : BatchRetire(b, batch[1], batch[2])

RetirementNext ==
  \/ RegistryStep /\ UNCHANGED retVars
  \/ RetirementStep

RetirementSpec == Init /\ RetirementInit /\ [][RetirementNext]_allRetVars

-----------------------------------------------------------------------------
(* Every variable of the contract has its type; no record states a volume   *)
(* that is not positive.                                                    *)
RetTypeOK ==
  /\ retAdmin \in AdminKeys \cup {None}
  /\ retPendingAdmin \in AdminKeys \cup {None}
  /\ retPaused \in BOOLEAN
  /\ retNonce \in [Address -> Nat]
  /\ records \in [RetirementId -> Record \cup {None}]
  /\ accountRetirements \in [Address -> Seq(RetirementId)]

(* A certificate stands for a credit that is out of circulation, and never  *)
(* two for the same credit: whatever mix of retire and batch_retire, with a *)
(* dispute, a split or a merge in between.                                  *)
RecordsAreBacked ==
  \A r \in RetirementId : records[r] # None =>
    /\ records[r].credit = r[1]
    /\ status[r[1]] = "Retired"
    /\ \A s \in RetirementId : records[s] # None /\ s[1] = r[1] => s = r

(* get_retirements_by_account is exact: it lists the account's records, all *)
(* of them, each of them once.                                              *)
AccountIndexExact ==
  \A a \in Address :
    /\ IsInjective(accountRetirements[a])
    /\ Range(accountRetirements[a]) =
         {r \in RetirementId : records[r] # None /\ records[r].buyer = a}

(* "Retirement and audit records are immutable": a stored record is never   *)
(* rewritten or removed, and an account's list only grows at its end.       *)
RecordsAreImmutable ==
  [][/\ \A r \in RetirementId : records[r] # None => records'[r] = records[r]
     /\ \A a \in Address : IsPrefix(accountRetirements[a], accountRetirements'[a])]_allRetVars

(* No tonne leaves circulation without a certificate: a credit becomes      *)
(* Retired either with a record of its own, filed in the same step, or when *)
(* a split or a merge replaces it by new credits.                           *)
BurnsAreRecorded ==
  [][\A c \in CreditId :
       status[c] \notin {"Absent", "Retired"} /\ status'[c] = "Retired" =>
         \/ \E r \in RetirementId : r[1] = c /\ records[r] = None /\ records'[r] # None
         \/ creditNonce' > creditNonce /\ records' = records]_allRetVars

(* Either contract's pause switch stops retirement: no record is filed and  *)
(* the other contract's half of the call does not happen either.            *)
EitherPauseStopsRetirement ==
  [][paused \/ retPaused =>
       /\ records' = records
       /\ \A c \in CreditId : status[c] = "Active" /\ status'[c] = "Retired" =>
            creditNonce' > creditNonce]_allRetVars
=============================================================================

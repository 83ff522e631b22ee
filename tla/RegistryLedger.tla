--------------------------- MODULE RegistryLedger ---------------------------
(***************************************************************************)
(* CreditRegistry with its tonnes counted.  The contract keeps no totals:  *)
(* `issued` is a history variable that adds up what submit_credit accepts, *)
(* and the live tonnes are computed from the credits themselves.  The      *)
(* refinement shows that the registry's steps, splits and merges included, *)
(* are the two steps of CarbonSupply or leave both totals alone.           *)
(***************************************************************************)
EXTENDS CreditRegistry

VARIABLE issued   \* history: tonnes submitted so far

ledgerVars == <<vars, issued>>

Live == {c \in CreditId : Exists(c) /\ status[c] # "Retired"}

(* What each id, counted from 1, adds to the live tonnes. *)
LiveTonnesOf ==
  [i \in 1 .. MaxCredits |-> IF i - 1 \in Live THEN meta[i - 1].tonnes ELSE 0]

LiveTonnes == SumTo(LiveTonnesOf, MaxCredits)

(* A submission is the one step that raises what has been issued. *)
RecordedSubmission ==
  \E i \in IssuerKeys, p \in Project, v \in Vintage, m \in Methodology,
     g \in Geography, t \in TonnesArg :
       SubmitCredit(i, p, v, m, g, t) /\ issued' = issued + t

LedgerInit == Init /\ issued = 0

LedgerNext ==
  \/ RecordedSubmission
  \/ /\ \/ GovernanceStep /\ UNCHANGED creditVars
        \/ HandlingStep
        \/ \E C \in SUBSET CreditId : RetirementContractMarksRetired(C)
     /\ UNCHANGED issued

LedgerSpec == LedgerInit /\ [][LedgerNext]_ledgerVars

-----------------------------------------------------------------------------
Supply == INSTANCE CarbonSupply WITH live <- LiveTonnes

(* Every step of the registry is an Issue or a Burn of CarbonSupply, or     *)
(* leaves both totals alone: splitting, merging, flagging, disputing and    *)
(* transferring credits create no live tonne and destroy none.              *)
ImplementsSupply == Supply!SupplyInit /\ [][Supply!SupplyNext]_(Supply!supplyVars)

(* No more tonnes are live than issuers ever submitted.                     *)
LiveWithinIssued == LiveTonnes <= issued

(* What merge_credits does not rule out: a list that names a credit twice.  *)
RepeatedMerge ==
  \E a \in Account, ids \in MergeArg : ~IsInjective(ids) /\ MergeCredits(a, ids)

(* Only such a merge changes the totals otherwise than CarbonSupply says.   *)
OnlyRepeatedMergesLeak ==
  /\ Supply!SupplyInit
  /\ [][Supply!SupplyNext \/ RepeatedMerge]_(Supply!supplyVars)
=============================================================================

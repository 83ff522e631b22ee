------------------------------ MODULE MrvOracle ------------------------------
(***************************************************************************)
(* The MRV oracle contract: registered oracles submit readings of a        *)
(* project's carbon, the contract keeps the latest one and a bounded       *)
(* history, and flags a reading that departs from the latest by more than  *)
(* a fifth.                                                                *)
(*                                                                         *)
(* The registry is asked one question, whether the project has credits:    *)
(* `listed` is its answer, and a project never leaves it.  Tonnes are      *)
(* i128; the build traps on overflow, so that a reading whose deviation    *)
(* cannot be computed is a rejected call.  upgrade replaces the code and   *)
(* nothing that is modelled here, not even a nonce: it is a stutter.       *)
(***************************************************************************)
EXTENDS FiniteSets, SequencesExt, Sums, LedgerClock

CONSTANTS
  AdminKeys,     \* addresses given to initialize or proposed as admin
  OracleKeys,    \* addresses the admin may register as oracles
  Project,       \* project ids
  Reading,       \* tonnes arguments of update_mrv_data
  MaxI128,       \* the largest i128
  MaxHistory,    \* MAX_HISTORY: readings kept per project (100)
  MaxReadings,   \* bound: nonces each oracle may consume
  None           \* a storage key that is not set

I128 == -MaxI128 - 1 .. MaxI128

ASSUME OracleAssumption ==
  /\ MaxI128 \in Nat /\ Reading \subseteq I128
  /\ MaxHistory \in Nat \ {0}
  /\ MaxReadings \in Nat
  /\ None \notin AdminKeys

VARIABLES
  listed,        \* the projects list_credits_by_project knows credits of
  admin,         \* DataKey::Admin
  pendingAdmin,  \* DataKey::PendingAdmin
  paused,        \* DataKey::Paused
  oracles,       \* DataKey::OracleSet
  nonce,         \* DataKey::Nonce(oracle)
  latest,        \* DataKey::Latest(project)
  history,       \* DataKey::History(project)
  accepted       \* history variable: every reading ever accepted

controlVars == <<admin, pendingAdmin, paused, oracles>>

readingVars == <<nonce, latest, history, accepted>>

vars == <<now, listed, controlVars, readingVars>>

MrvDataPoint == [oracle : OracleKeys, tonnes : I128, recorded_at : 0 .. MaxTime,
                 anomaly : BOOLEAN]

ASSUME NoPointAssumption == None \notin MrvDataPoint

Init ==
  /\ now = 0
  /\ listed = {}
  /\ admin = None
  /\ pendingAdmin = None
  /\ paused = FALSE
  /\ oracles = {}
  /\ nonce = [o \in OracleKeys |-> 0]
  /\ latest = [p \in Project |-> None]
  /\ history = [p \in Project |-> << >>]
  /\ accepted = [p \in Project |-> << >>]

-----------------------------------------------------------------------------
(* The outside: time passes, the registry issues a project's first credit. *)

CloseLedger ==
  /\ LedgerCloses
  /\ UNCHANGED <<listed, controlVars, readingVars>>

RegistryListsProject(p) ==
  /\ listed' = listed \cup {p}
  /\ UNCHANGED <<now, controlVars, readingVars>>

-----------------------------------------------------------------------------
(* Administration.  The guard against a second initialize is missing. *)

Initialize(a) ==
  /\ admin' = a
  /\ UNCHANGED <<now, listed, pendingAdmin, paused, oracles, readingVars>>

SetPaused(a, value) ==
  /\ admin = a
  /\ paused' = value
  /\ UNCHANGED <<now, listed, admin, pendingAdmin, oracles, readingVars>>

(* A second registration succeeds and changes nothing. *)
RegisterOracle(a, o) ==
  /\ admin = a
  /\ oracles' = oracles \cup {o}
  /\ UNCHANGED <<now, listed, admin, pendingAdmin, paused, readingVars>>

ProposeAdmin(a, candidate) ==
  /\ admin = a
  /\ pendingAdmin' = candidate
  /\ UNCHANGED <<now, listed, admin, paused, oracles, readingVars>>

AcceptAdmin(a) ==
  /\ pendingAdmin = a
  /\ admin' = a
  /\ pendingAdmin' = None
  /\ UNCHANGED <<now, listed, paused, oracles, readingVars>>

-----------------------------------------------------------------------------
(* Readings. *)

Abs(x) == IF x < 0 THEN -x ELSE x

(* Faulty variant: the deviation is not computed on the absolute value. *)
DeviatesUpwards(previous, new) == (new - previous) * 5 > Abs(previous)

(* diff / previous > 0.20, in integers. *)
Deviates(previous, new) == Abs(new - previous) * 5 > Abs(previous)

(* Every intermediate result of detect_anomaly fits an i128. *)
Computable(previous, new) ==
  {new - previous, Abs(new - previous), Abs(new - previous) * 5, Abs(previous)} \subseteq I128

(* A first reading, and one after a reading of zero, is never an anomaly. *)
Comparable(p) == latest[p] # None /\ latest[p].tonnes # 0

Anomaly(p, t) == Comparable(p) /\ Deviates(latest[p].tonnes, t)

(* Faulty variant: the newest entry goes. *)
KeptWithoutNewest(h) == IF Len(h) >= MaxHistory THEN Front(h) ELSE h

Kept(h) == IF Len(h) >= MaxHistory THEN Tail(h) ELSE h

(* Faulty variant: the nonce is compared and not stored back. *)
CompareNonce(o) == nonce[o] < MaxReadings /\ UNCHANGED nonce

ConsumeNonce(o) == nonce[o] < MaxReadings /\ nonce' = [nonce EXCEPT ![o] = @ + 1]

(* The timestamp is the oracle's: not in the future, in no order with the  *)
(* earlier ones.                                                           *)
UpdateMrvData(o, p, t, at) ==
  LET point == [oracle |-> o, tonnes |-> t, recorded_at |-> at, anomaly |-> Anomaly(p, t)] IN
  /\ ~paused
  /\ o \in oracles
  /\ ConsumeNonce(o)
  /\ at <= now
  /\ p \in listed
  /\ Comparable(p) => Computable(latest[p].tonnes, t)
  /\ latest' = [latest EXCEPT ![p] = point]
  /\ history' = [history EXCEPT ![p] = Append(Kept(@), point)]
  /\ accepted' = [accepted EXCEPT ![p] = Append(@, point)]
  /\ UNCHANGED <<now, listed, controlVars>>

-----------------------------------------------------------------------------
Next ==
  \/ CloseLedger
  \/ \E p \in Project : RegistryListsProject(p)
  \/ \E a \in AdminKeys : \/ Initialize(a)
                          \/ SetPaused(a, TRUE)
                          \/ SetPaused(a, FALSE)
                          \/ AcceptAdmin(a)
  \/ \E a, candidate \in AdminKeys : ProposeAdmin(a, candidate)
  \/ \E a \in AdminKeys, o \in OracleKeys : RegisterOracle(a, o)
  \/ \E o \in OracleKeys, p \in Project, t \in Reading, at \in 0 .. MaxTime :
       UpdateMrvData(o, p, t, at)

Spec == Init /\ [][Next]_vars

-----------------------------------------------------------------------------
(* get_mrv_aggregate: the readings of a period, by their place in the        *)
(* history, their sum and their mean, rounded towards zero as i128 division *)
(* does.  A sum beyond the i128 traps: then there is no mean to speak of.   *)

InPeriod(p, from, to) ==
  {i \in DOMAIN history[p] : /\ from <= history[p][i].recorded_at
                             /\ history[p][i].recorded_at <= to}

CountedIn(p, period) ==
  [i \in DOMAIN history[p] |-> IF i \in period THEN history[p][i].tonnes ELSE 0]

SumOf(p, period) == SumTo(CountedIn(p, period), Len(history[p]))

TruncatedQuotient(x, n) == IF x < 0 THEN -((-x) \div n) ELSE x \div n

(* Faulty variant: every reading is counted, in the period or not. *)
CountAll(p, period) == Len(history[p])

CountIn(p, period) == Cardinality(period)

MeanOf(p, period) ==
  IF period = {} THEN 0 ELSE TruncatedQuotient(SumOf(p, period), CountIn(p, period))

-----------------------------------------------------------------------------
(* Every variable has its type; the history never outgrows MAX_HISTORY.     *)
TypeOK ==
  /\ now \in 0 .. MaxTime
  /\ listed \subseteq Project
  /\ admin \in AdminKeys \cup {None}
  /\ pendingAdmin \in AdminKeys \cup {None}
  /\ paused \in BOOLEAN
  /\ oracles \subseteq OracleKeys
  /\ nonce \in [OracleKeys -> Nat]
  /\ latest \in [Project -> MrvDataPoint \cup {None}]
  /\ history \in [Project -> Seq(MrvDataPoint)]
  /\ accepted \in [Project -> Seq(MrvDataPoint)]
  /\ \A p \in Project : Len(history[p]) <= MaxHistory

(* The capped history is the most recent part of all readings accepted, in  *)
(* the order they came, and Latest is its last entry: eviction loses the    *)
(* oldest reading and no other.                                             *)
HistoryIsRecentWindow ==
  \A p \in Project :
    /\ IsSuffix(history[p], accepted[p])
    /\ Len(history[p]) < MaxHistory => history[p] = accepted[p]
    /\ IF history[p] = << >> THEN latest[p] = None ELSE latest[p] = Last(history[p])

(* "Flagged when the reading deviates >20% from the previous reading"       *)
(* (lib.rs:17): each flag is the comparison with the reading accepted just  *)
(* before it, whichever oracle sent that one.                               *)
FlagsCompareNeighbours ==
  \A p \in Project : \A i \in 1 .. Len(accepted[p]) - 1 :
    LET before == accepted[p][i]
        after  == accepted[p][i + 1]
    IN  after.anomaly <=>
          /\ before.tonnes # 0
          /\ \/ 100 * after.tonnes > 100 * before.tonnes + 20 * Abs(before.tonnes)
             \/ 100 * after.tonnes < 100 * before.tonnes - 20 * Abs(before.tonnes)

ReadingsOf(o, p) == {i \in DOMAIN accepted[p] : accepted[p][i].oracle = o}

(* No reading is applied twice: an oracle has consumed exactly one nonce    *)
(* for each reading of its own that was accepted, over all projects.        *)
OneNoncePerReading ==
  \A o \in OracleKeys :
    nonce[o] = Cardinality(UNION {{p} \X ReadingsOf(o, p) : p \in Project})

(* The mean of a period lies between the smallest and the largest reading   *)
(* of that period, negative readings and rounding included.                 *)
MeanWithinPeriod ==
  \A p \in Project : \A from, to \in 0 .. MaxTime :
    LET period == InPeriod(p, from, to)
        mean   == MeanOf(p, period)
    IN  period # {} =>
          /\ \E i \in period : history[p][i].tonnes <= mean
          /\ \E i \in period : mean <= history[p][i].tonnes
=============================================================================

-------------------------- MODULE RegistrySessions --------------------------
(***************************************************************************)
(* Sessions and the audit log of the credit registry: create_session and   *)
(* submit_credit_with_session, on top of every other call of the registry. *)
(*                                                                         *)
(* A session id is a hash over the initiator, the ledger's timestamp and   *)
(* the number of audit log entries, a log id one over the session and that *)
(* same number: the model's ids are those tuples.  A stored Session is     *)
(* determined by its id, so the sessions are the set of their ids.         *)
(***************************************************************************)
EXTENDS CreditRegistry, LedgerClock

CONSTANT Initiator   \* the accounts that open sessions

ASSUME SessionAssumption == Initiator \subseteq Account

VARIABLES
  sessions,       \* the ids under DataKey::Session
  opCount,        \* DataKey::SessionOpCount(session)
  auditLog,       \* DataKey::AuditLog(log id), as a function on the ids set
  auditLogCount   \* DataKey::AuditLogCount

logVars == <<opCount, auditLog, auditLogCount>>

sessionVars == <<now, sessions, logVars>>

allSessionVars == <<vars, sessionVars>>

SessionId == Initiator \X (0 .. MaxTime) \X Nat

LogId == SessionId \X Nat

Entry == [session : SessionId, credit : CreditId, actor : Address, timestamp : 0 .. MaxTime]

SessionsInit ==
  /\ now = 0
  /\ sessions = {}
  /\ opCount = << >>
  /\ auditLog = << >>
  /\ auditLogCount = 0

(* A session key that is not set reads as zero operations. *)
OpCount(s) == IF s \in DOMAIN opCount THEN opCount[s] ELSE 0

(* Faulty variant: the audit log's length is left out of the id. *)
SessionOfTheLedger(a) == <<a, now, 0>>

NextSession(a) == <<a, now, auditLogCount>>

(* The session is stored whether or not its id is already in use. *)
CreateSession(a) ==
  /\ sessions' = sessions \cup {NextSession(a)}
  /\ UNCHANGED <<vars, now, logVars>>

(* Faulty variant: the number of entries is not stored back. *)
AppendUncounted(entry) ==
  /\ auditLog' = [x \in DOMAIN auditLog \cup {<<entry.session, auditLogCount>>} |->
                    IF x = <<entry.session, auditLogCount>> THEN entry ELSE auditLog[x]]
  /\ UNCHANGED auditLogCount

AppendAuditLog(entry) ==
  /\ auditLog' = [x \in DOMAIN auditLog \cup {<<entry.session, auditLogCount>>} |->
                    IF x = <<entry.session, auditLogCount>> THEN entry ELSE auditLog[x]]
  /\ auditLogCount' = auditLogCount + 1

(* Faulty variant: a session counts its first operation only. *)
CountFirstOperation(s) ==
  opCount' = [x \in DOMAIN opCount \cup {s} |-> IF x = s THEN 1 ELSE opCount[x]]

CountOperation(s) ==
  opCount' = [x \in DOMAIN opCount \cup {s} |-> IF x = s THEN OpCount(s) + 1 ELSE opCount[x]]

(* Faulty variant: the session's initiator is recorded as the actor. *)
EntryOfInitiator(s, i) ==
  [session |-> s, credit |-> creditNonce, actor |-> s[1], timestamp |-> now]

SubmissionEntry(s, i) ==
  [session |-> s, credit |-> creditNonce, actor |-> i, timestamp |-> now]

(* Any issuer may submit in any session, its initiator or not. *)
SubmitCreditWithSession(s, i, p, v, m, g, t) ==
  /\ s \in sessions
  /\ SubmitCredit(i, p, v, m, g, t)
  /\ AppendAuditLog(SubmissionEntry(s, i))
  /\ CountOperation(s)
  /\ UNCHANGED <<now, sessions>>

-----------------------------------------------------------------------------
SessionStep ==
  \/ LedgerCloses /\ UNCHANGED <<vars, sessions, logVars>>
  \/ \E a \in Initiator : CreateSession(a)
  \/ \E s \in sessions, i \in IssuerKeys, p \in Project, v \in Vintage,
        m \in Methodology, g \in Geography, t \in TonnesArg :
       SubmitCreditWithSession(s, i, p, v, m, g, t)

SessionsNext ==
  \/ Next /\ UNCHANGED sessionVars
  \/ SessionStep

SessionsSpec == Init /\ SessionsInit /\ [][SessionsNext]_allSessionVars

-----------------------------------------------------------------------------
(* The types of the session and log storage; every key has been derived. *)
SessionsTypeOK ==
  /\ now \in 0 .. MaxTime
  /\ auditLogCount \in Nat
  /\ sessions \subseteq SessionId
  /\ DOMAIN opCount \subseteq sessions
  /\ \A s \in DOMAIN opCount : opCount[s] \in Nat \ {0}
  /\ DOMAIN auditLog \subseteq LogId
  /\ \A x \in DOMAIN auditLog : auditLog[x] \in Entry /\ x[2] < auditLogCount

(* "Verify session completeness" (README.md:134): the operation count of a  *)
(* session is the number of audit log entries filed under it, also when two *)
(* calls of create_session returned the same id.                            *)
SessionCountsExact ==
  \A s \in sessions :
    OpCount(s) = Cardinality({x \in DOMAIN auditLog : x[1] = s})

(* An id that is in use is spent: the id that create_session would hand out *)
(* next has no operation counted and no entry logged under it, so a caller  *)
(* never gets a session in which others' operations are.  An id that is     *)
(* handed out need not be new all the same: two calls by one initiator in   *)
(* one ledger, with no entry logged between them, return the same id.       *)
UsedSessionsAreSpent ==
  \A a \in Initiator :
    /\ OpCount(NextSession(a)) = 0
    /\ \A x \in DOMAIN auditLog : x[1] # NextSession(a)

(* The audit trail tells the truth: an entry names the credit submitted and *)
(* the issuer who submitted it, whoever opened the session, which was open  *)
(* by then; and no credit has two entries.                                  *)
AuditTrailTruthful ==
  \A x \in DOMAIN auditLog :
    LET entry == auditLog[x] IN
    /\ Exists(entry.credit) /\ meta[entry.credit].issuer = entry.actor
    /\ entry.session = x[1] /\ x[1] \in sessions
    /\ x[1][2] <= entry.timestamp /\ entry.timestamp <= now
    /\ \A y \in DOMAIN auditLog : auditLog[y].credit = entry.credit => y = x

(* "Audit trail is immutable for compliance and verification" (README.md:   *)
(* 115): no call rewrites or drops an entry, or closes a session.           *)
AuditTrailImmutable ==
  [][/\ \A x \in DOMAIN auditLog : x \in DOMAIN auditLog' /\ auditLog'[x] = auditLog[x]
     /\ sessions \subseteq sessions']_allSessionVars
=============================================================================

----------------------------- MODULE ApiRecords -----------------------------
(***************************************************************************)
(* What the API keeps of the chain: rows of credits                        *)
(* (api/src/credits) and of retirements (api/src/retirement), written when *)
(* a call has returned, and a cache of credits and of lists                *)
(* (api/src/common/cache.service.ts) filled by readers.                    *)
(*                                                                         *)
(* The repositories are maps in memory, the cache is Redis and survives a  *)
(* restart of the API.  Its entries expire.  A row holds what was asked    *)
(* for, not what the chain says; no operation updates a row, so a credit's *)
(* is Pending for good.  Filters of a list other than the status only      *)
(* select among the same rows and are left out, with pages.                *)
(***************************************************************************)
EXTENDS TransactionSubmission

CONSTANTS
    Readers,      \* reads that may be under way at once
    Filters,      \* the status filters clients ask lists with
    MaxRestarts,  \* bound: restarts of the API
    InitialStatus \* the credits' status at the start, on the chain

Statuses == {"Pending", "Active", "Retired"}

ASSUME RecordsAssumption ==
    /\ Filters \subseteq Statuses /\ MaxRestarts \in Nat
    /\ InitialStatus \in [Credits -> Statuses \cup {None}]
    /\ None \notin Statuses

VARIABLES
    creditRows,     \* ids of the credit repository
    retirementRows, \* by id: the row's credit and buyer, or None
    creditCache,    \* by credit: the cached status, or None
    listCache,      \* by filter: the cached list, or None
    reader,         \* by read: where it is and what it holds
    restarts

rowVars   == <<creditRows, retirementRows>>
cacheVars == <<creditCache, listCache>>
vars == <<request, queued, landed, status, retiredBy, creditRows, retirementRows,
          creditCache, listCache, reader, restarts>>

Ids == Credits \cup {Unknown}

Reading == [at |-> "idle", key |-> None, value |-> None]

Init ==
    /\ SubmissionInit(InitialStatus)
    /\ creditRows = {}
    /\ retirementRows = [i \in Ids |-> None]
    /\ creditCache = [c \in Credits |-> None]
    /\ listCache = [s \in Filters |-> None]
    /\ reader = [d \in Readers |-> Reading]
    /\ restarts = 0

(***************************************************************************)
(* The rows: issueCredit and retire after the call has returned.           *)
(***************************************************************************)
\* The row is saved under the id the call returned, whatever its result was.
Row(r) == [credit |-> request[r].call.credit, buyer |-> request[r].call.account]

SaveRow(r) ==
    LET call == request[r].call
        id   == request[r].id
    IN
    /\ request[r].at = "returned"
    /\ request' = [request EXCEPT ![r] = Idle]
    /\ creditRows' = IF call.method = "submit_credit" THEN creditRows \cup {id} ELSE creditRows
    /\ retirementRows' = IF call.method = "retire"
                           THEN [retirementRows EXCEPT ![id] = Row(r)] ELSE retirementRows
    /\ UNCHANGED <<queued, chainVars, cacheVars, reader, restarts>>

\* getRetirement: the row, else the chain; verifyCertificate: whatever it finds.
getRetirement(id) ==
    IF retirementRows[id] # None THEN retirementRows[id]
    ELSE IF id \in Credits /\ retiredBy[id] # None
      THEN [credit |-> id, buyer |-> retiredBy[id]] ELSE None

verifyCertificate(id) == getRetirement(id) # None

(***************************************************************************)
(* getCredit: cache, row, chain, and back into the cache.                  *)
(***************************************************************************)
GetCredit(d, c) ==
    /\ reader[d].at = "idle"
    /\ creditCache[c] = None
    /\ reader' = [reader EXCEPT ![d] = [Reading EXCEPT !.at = "row", !.key = c]]
    /\ UNCHANGED <<submissionVars, rowVars, cacheVars, restarts>>

Fills(d, value) ==
    reader' = [reader EXCEPT ![d].at = "fill", ![d].value = value]

FindById(d) ==
    /\ reader[d].at = "row"
    /\ IF reader[d].key \in creditRows
         THEN Fills(d, "Pending")
         ELSE reader' = [reader EXCEPT ![d].at = "chain"]
    /\ UNCHANGED <<submissionVars, rowVars, cacheVars, restarts>>

\* A credit the chain does not have, and a failed read, throw.
ReadContract(d) ==
    /\ reader[d].at = "chain"
    /\ \/ status[reader[d].key] # None /\ Fills(d, status[reader[d].key])
       \/ reader' = [reader EXCEPT ![d] = Reading]
    /\ UNCHANGED <<submissionVars, rowVars, cacheVars, restarts>>

(***************************************************************************)
(* listCredits: cache, rows, and back into the cache.                      *)
(***************************************************************************)
ListCredits(d, s) ==
    /\ reader[d].at = "idle"
    /\ listCache[s] = None
    /\ reader' = [reader EXCEPT ![d] = [Reading EXCEPT !.at = "rows", !.key = s]]
    /\ UNCHANGED <<submissionVars, rowVars, cacheVars, restarts>>

Listed(s) == IF s = "Pending" THEN creditRows ELSE {}

FindAll(d) ==
    /\ reader[d].at = "rows"
    /\ Fills(d, Listed(reader[d].key))
    /\ UNCHANGED <<submissionVars, rowVars, cacheVars, restarts>>

CacheSet(d) ==
    LET k == reader[d].key IN
    /\ reader[d].at = "fill"
    /\ IF k \in Credits THEN /\ creditCache' = [creditCache EXCEPT ![k] = reader[d].value]
                             /\ UNCHANGED listCache
                        ELSE /\ listCache' = [listCache EXCEPT ![k] = reader[d].value]
                             /\ UNCHANGED creditCache
    /\ reader' = [reader EXCEPT ![d] = Reading]
    /\ UNCHANGED <<submissionVars, rowVars, restarts>>

\* Faulty variant: only entries of rows are given a time to live.
LapseOfRows(c) == IF c \in creditRows THEN [creditCache EXCEPT ![c] = None] ELSE creditCache

\* After its time to live an entry is gone; the value it held was read before.
Lapse(c) == [creditCache EXCEPT ![c] = None]

CreditExpires(c) ==
    /\ creditCache[c] # None
    /\ creditCache' = Lapse(c)
    /\ UNCHANGED <<submissionVars, rowVars, listCache, reader, restarts>>

ListExpires(s) ==
    /\ listCache[s] # None
    /\ listCache' = [listCache EXCEPT ![s] = None]
    /\ UNCHANGED <<submissionVars, rowVars, creditCache, reader, restarts>>

\* Requests, reads and rows are lost; chain, network and cache go on.
Restart ==
    /\ restarts < MaxRestarts
    /\ restarts' = restarts + 1
    /\ request' = [r \in Requests |-> Idle]
    /\ reader' = [d \in Readers |-> Reading]
    /\ creditRows' = {} /\ retirementRows' = [i \in Ids |-> None]
    /\ UNCHANGED <<queued, chainVars, cacheVars>>

Beside == UNCHANGED <<rowVars, cacheVars, reader, restarts>>

ReadStep(d) == FindById(d) \/ ReadContract(d) \/ FindAll(d) \/ CacheSet(d)

Next ==
    \/ \E r \in Requests : \/ (\E call \in Calls : Invoke(r, call)) /\ Beside
                           \/ (InvokeStep(r) \/ PollThrows(r)) /\ Beside
                           \/ SaveRow(r)
    \/ NetworkStep /\ Beside
    \/ \E d \in Readers : \/ \E c \in Credits : GetCredit(d, c)
                          \/ \E s \in Filters : ListCredits(d, s)
                          \/ ReadStep(d)
    \/ \E c \in Credits : CreditExpires(c)
    \/ \E s \in Filters : ListExpires(s)
    \/ Restart

\* What is awaited answers or fails, and cached entries expire; neither clients
\* nor the network owe the API anything else.  Polling need not be rescued by a
\* failure.
Fairness ==
    /\ \A r \in Requests : WF_vars(InvokeStep(r) /\ Beside) /\ WF_vars(SaveRow(r))
    /\ \A d \in Readers : WF_vars(ReadStep(d))
    /\ \A c \in Credits : WF_vars(CreditExpires(c))

Spec == Init /\ [][Next]_vars
FairSpec == Spec /\ Fairness

(***************************************************************************)
(* Properties.                                                             *)
(***************************************************************************)
\* A certificate the API verifies under an id of the chain says what the chain
\* says: that credit, that buyer - after timeouts, retries of what was already
\* done, restarts, and retirements by others of the same credit.
RetirementRowsAreTrue ==
    \A c \in Credits : verifyCertificate(c) =>
        /\ retiredBy[c] # None
        /\ getRetirement(c) = [credit |-> c, buyer |-> retiredBy[c]]

\* Every request is answered or fails, also when the transaction it waits for
\* never reaches a ledger.
RequestsEnd == \A r \in Requests : request[r].at # "idle" ~> request[r].at = "idle"

\* A retired credit is seen retired in the end: from some time on the cache
\* serves nothing older, unless the credit has a row - reads that overlap may
\* put an old status back into the cache, but it expires.
CacheSettles ==
    \A c \in Credits : status[c] = "Retired" ~>
        [](c \notin creditRows => creditCache[c] \in {None, "Retired"})
=============================================================================

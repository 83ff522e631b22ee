------------------------ MODULE TransactionSubmission ------------------------
(***************************************************************************)
(* How the API changes the chain (api/src/stellar/stellar.service.ts).     *)
(*                                                                         *)
(* Every write of every service is a transaction of one account, the       *)
(* admin's: load the account for its sequence number, build and simulate   *)
(* the transaction, sign and send it, then poll for its result a limited   *)
(* number of times.  Each of these is an await; requests overlap, and the  *)
(* transaction goes its own way once it is sent: a request that gives up   *)
(* does not withdraw it.                                                   *)
(*                                                                         *)
(* The network (external) keeps one transaction of an account at a time    *)
(* and takes only the account's next sequence number.  Of the contracts    *)
(* (external here, modules of their own) the model keeps what the API's    *)
(* records are about: the credits' status and who retired them.            *)
(***************************************************************************)
EXTENDS Integers, Sequences, FiniteSets

CONSTANTS
    Requests,     \* requests to the API that may be under way at once
    Credits,      \* credit ids; a retirement is known by its credit's id
    Accounts,     \* buyers and issuers
    AdminAccount, \* the one whose key signs everything
    Calls,        \* what clients ask for: [method, credit, account]
    MaxLanded,    \* bound: transactions of the account that reach a ledger
    MaxPolls,     \* the attempts of pollTransactionStatus
    None

Unknown == "unknown"

ASSUME SubmissionAssumption ==
    /\ MaxLanded \in Nat /\ MaxPolls \in Nat \ {0}
    /\ AdminAccount \in Accounts
    /\ None \notin Credits /\ None \notin Accounts /\ Unknown \notin Credits
    /\ Calls \subseteq [method : {"submit_credit", "retire", "create_offer"},
                        credit : Credits, account : Accounts]

VARIABLES
    request,  \* by request: where it is and what it holds
    queued,   \* the network: the account's transaction that waits, or None
    landed,   \* the network: the account's transactions in ledgers, in order
    status,   \* the registry: status of each credit, or None
    retiredBy \* the retirement contract: buyer of each record, or None

chainVars == <<landed, status, retiredBy>>
submissionVars == <<request, queued, landed, status, retiredBy>>

Idle == [at |-> "idle", call |-> None, sequence |-> 0, polls |-> 0, id |-> None]

Transaction(r) == [by |-> r, call |-> request[r].call]

\* The account's next sequence number.
NextSequence == Len(landed) + 1

\* Whether the contract accepts a call in the state the chain is in.
Accepted(call) ==
    CASE call.method = "submit_credit" -> status[call.credit] = None
      [] OTHER                         -> status[call.credit] = "Active"

\* Only the admin signs: a call that needs another account's authorization
\* passes the simulation, which records what would have to be signed, and
\* fails in the ledger.
Authorized(call) == call.account = AdminAccount

SubmissionInit(initialStatus) ==
    /\ request = [r \in Requests |-> Idle]
    /\ queued = None
    /\ landed = <<>>
    /\ status = initialStatus
    /\ retiredBy = [c \in Credits |-> None]

Advance(r, at) == request' = [request EXCEPT ![r].at = at]
Throw(r)       == request' = [request EXCEPT ![r] = Idle]

(***************************************************************************)
(* invokeContract, one await at a time; each of them may throw.  Argument  *)
(* lists are left out: a call stands for one whose arguments the contract  *)
(* takes.                                                                  *)
(***************************************************************************)
Invoke(r, call) ==
    /\ request[r].at = "idle"
    /\ request' = [request EXCEPT ![r] = [Idle EXCEPT !.at = "load", !.call = call]]
    /\ UNCHANGED <<queued, chainVars>>

LoadAccount(r) ==
    /\ request[r].at = "load"
    /\ \/ request' = [request EXCEPT ![r].at = "simulate", ![r].sequence = NextSequence]
       \/ Throw(r)
    /\ UNCHANGED <<queued, chainVars>>

Simulate(r) ==
    /\ request[r].at = "simulate"
    /\ \/ Accepted(request[r].call) /\ Advance(r, "send")
       \/ Throw(r)
    /\ UNCHANGED <<queued, chainVars>>

\* PENDING, when the network takes the transaction; the answer may be lost.
Send(r) ==
    /\ request[r].at = "send"
    /\ IF queued = None /\ request[r].sequence = NextSequence /\ Len(landed) < MaxLanded
         THEN queued' = Transaction(r) /\ (Advance(r, "poll") \/ Throw(r))
         ELSE Throw(r) /\ UNCHANGED queued
    /\ UNCHANGED chainVars

\* A poll finds the transaction in a ledger, and its result is returned whether
\* it succeeded or failed: a failed one carries no return value.
Found(r) == /\ request[r].sequence \in DOMAIN landed
            /\ landed[request[r].sequence].by = r

\* Faulty variant: the id is worked out without the result.
ReturnedAnyway(r) == request[r].call.credit

Returned(r) ==
    IF landed[request[r].sequence].ok THEN request[r].call.credit ELSE Unknown

\* Faulty variant: a result that is not found does not count as an attempt.
AttemptsUncounted(r) == request[r].polls

Attempts(r) == request[r].polls + 1

pollTransactionStatus(r) ==
    /\ request[r].at = "poll"
    /\ request' = [request EXCEPT ![r] =
                     IF Found(r) THEN [@ EXCEPT !.at = "returned", !.id = Returned(r)]
                     ELSE IF Attempts(r) = MaxPolls THEN Idle
                     ELSE [@ EXCEPT !.polls = Attempts(r)]]
    /\ UNCHANGED <<queued, chainVars>>

\* One of the requests for the result fails.
PollThrows(r) ==
    /\ request[r].at = "poll"
    /\ Throw(r)
    /\ UNCHANGED <<queued, chainVars>>

(***************************************************************************)
(* The network and the contracts.                                          *)
(***************************************************************************)
\* A ledger takes the waiting transaction, and it succeeds or fails there.
TransactionLands ==
    LET call == queued.call
        ok   == Accepted(call) /\ Authorized(call)
    IN
    /\ queued # None
    /\ landed' = Append(landed, [by |-> queued.by, ok |-> ok])
    /\ queued' = None
    /\ status' = IF ~ok THEN status
                 ELSE CASE call.method = "submit_credit" -> [status EXCEPT ![call.credit] = "Pending"]
                        [] call.method = "retire"        -> [status EXCEPT ![call.credit] = "Retired"]
                        [] OTHER                         -> status
    /\ retiredBy' = IF ok /\ call.method = "retire"
                      THEN [retiredBy EXCEPT ![call.credit] = call.account] ELSE retiredBy
    /\ UNCHANGED request

\* It is not taken within the 30 seconds of its time bound.
TransactionExpires ==
    /\ queued # None
    /\ queued' = None
    /\ UNCHANGED <<request, chainVars>>

\* Others use the contracts without the API.
OthersMint(c) ==
    /\ status[c] = "Pending"
    /\ status' = [status EXCEPT ![c] = "Active"]
    /\ UNCHANGED <<request, queued, landed, retiredBy>>

OthersRetire(c, a) ==
    /\ status[c] = "Active"
    /\ status' = [status EXCEPT ![c] = "Retired"]
    /\ retiredBy' = [retiredBy EXCEPT ![c] = a]
    /\ UNCHANGED <<request, queued, landed>>

InvokeStep(r) == LoadAccount(r) \/ Simulate(r) \/ Send(r) \/ pollTransactionStatus(r)

NetworkStep ==
    \/ TransactionLands \/ TransactionExpires
    \/ \E c \in Credits : OthersMint(c) \/ \E a \in Accounts \ {AdminAccount} : OthersRetire(c, a)
=============================================================================

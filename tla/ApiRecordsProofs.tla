--------------------------- MODULE ApiRecordsProofs ---------------------------
(***************************************************************************)
(* What the API verifies of a retirement is true, for any number of        *)
(* requests, credits, polls, transactions and restarts.  The argument      *)
(* follows a retirement from the transaction that waits, to the ledger it  *)
(* lands in, to the result that is returned, to the row: at each place it  *)
(* is the one of the request that made it, and the chain keeps it.         *)
(***************************************************************************)
EXTENDS ApiRecords, TLAPS

USE SubmissionAssumption, RecordsAssumption

-----------------------------------------------------------------------------
(* The invariant. *)

RequestState ==
  [at : {"idle", "load", "simulate", "send", "poll", "returned"},
   call : Calls \cup {None}, sequence : Nat, polls : Nat, id : Ids \cup {None}]

RecordTypes ==
  /\ request \in [Requests -> RequestState]
  /\ \A r \in Requests : request[r].at # "idle" => request[r].call \in Calls
  /\ queued # None => queued \in [by : Requests, call : Calls]
  /\ landed \in Seq([by : Requests, ok : BOOLEAN])
  /\ status \in [Credits -> Statuses \cup {None}]
  /\ retiredBy \in [Credits -> Accounts \cup {None}]
  /\ DOMAIN retirementRows = Ids

(* The contracts retire a credit once.                                      *)
RetiredOnce == \A c \in Credits : retiredBy[c] # None => status[c] = "Retired"

(* A retirement the chain has recorded, if the call was one.                *)
HasHappened(call) == call.method = "retire" => retiredBy[call.credit] = call.account

(* A transaction that waits is that of its request, while the request polls. *)
QueuedIsOwn(q, r) ==
  q.at = "poll" =>
    /\ q.sequence <= Len(landed) + 1
    /\ queued # None /\ queued.by = r => queued.call = q.call

(* A transaction of a polling request that succeeded has happened ...       *)
LandedHappened(q, r) ==
  q.at = "poll" /\ q.sequence \in DOMAIN landed
    /\ landed[q.sequence].by = r /\ landed[q.sequence].ok
      => HasHappened(q.call)

(* ... and so has one that was returned with an id of the chain.            *)
ReturnedHappened(q) ==
  q.at = "returned" /\ q.id \in Credits => q.id = q.call.credit /\ HasHappened(q.call)

RequestsTruthful ==
  \A r \in Requests : /\ QueuedIsOwn(request[r], r)
                      /\ LandedHappened(request[r], r)
                      /\ ReturnedHappened(request[r])

RowsTruthful ==
  \A c \in Credits : retirementRows[c] # None =>
    retiredBy[c] # None /\ retirementRows[c] = [credit |-> c, buyer |-> retiredBy[c]]

IInv == RecordTypes /\ RetiredOnce /\ RequestsTruthful /\ RowsTruthful

LEMMA CallFields ==
  ASSUME NEW call \in Calls
  PROVE  /\ call.method \in {"submit_credit", "retire", "create_offer"}
         /\ call.credit \in Credits /\ call.account \in Accounts /\ call.account # None
<1>1. call \in [method : {"submit_credit", "retire", "create_offer"},
                credit : Credits, account : Accounts]
  OBVIOUS
<1> QED BY <1>1

LEMMA IdleState ==
  Idle \in RequestState /\ Idle.at = "idle"
BY DEF Idle, RequestState

LEMMA InitIInv == Init => IInv
<1> SUFFICES ASSUME Init PROVE IInv
  OBVIOUS
<1> USE DEF Init, SubmissionInit
<1>1. RecordTypes
  BY IdleState DEF RecordTypes, Ids
<1>2. RetiredOnce /\ RowsTruthful
  BY DEF RetiredOnce, RowsTruthful, Ids
<1>3. RequestsTruthful
  BY IdleState DEF RequestsTruthful, QueuedIsOwn, LandedHappened, ReturnedHappened
<1> QED BY <1>1, <1>2, <1>3 DEF IInv

-----------------------------------------------------------------------------
(* Steps of one request. *)

LEMMA RequestStep ==
  ASSUME IInv, NEW r \in Requests, NEW q \in RequestState,
         request' = [request EXCEPT ![r] = q],
         q.at # "idle" => q.call \in Calls,
         UNCHANGED <<queued, chainVars, retirementRows>>,
         QueuedIsOwn(q, r), LandedHappened(q, r), ReturnedHappened(q)
  PROVE  IInv'
<1> USE DEF chainVars
<1>1. request'[r] = q /\ \A s \in Requests : s # r => request'[s] = request[s]
  BY DEF IInv, RecordTypes
<1>2. RecordTypes'
  BY <1>1 DEF IInv, RecordTypes
<1>3. RequestsTruthful'
  <2> SUFFICES ASSUME NEW s \in Requests
               PROVE  /\ QueuedIsOwn(request[s], s)'
                      /\ LandedHappened(request[s], s)'
                      /\ ReturnedHappened(request[s])'
    BY DEF RequestsTruthful
  <2>1. CASE s = r
    BY <1>1, <2>1 DEF QueuedIsOwn, LandedHappened, ReturnedHappened, HasHappened
  <2>2. CASE s # r
    BY <1>1, <2>2 DEF IInv, RequestsTruthful, QueuedIsOwn, LandedHappened,
                      ReturnedHappened, HasHappened
  <2> QED BY <2>1, <2>2
<1> QED BY <1>2, <1>3 DEF IInv, RetiredOnce, RowsTruthful

(* A request that neither polls nor has returned claims nothing.            *)
LEMMA Claimless ==
  ASSUME NEW q, NEW r, q.at \notin {"poll", "returned"}
  PROVE  QueuedIsOwn(q, r) /\ LandedHappened(q, r) /\ ReturnedHappened(q)
BY DEF QueuedIsOwn, LandedHappened, ReturnedHappened

LEMMA ThrowStep ==
  ASSUME IInv, NEW r \in Requests, Throw(r),
         UNCHANGED <<queued, chainVars, retirementRows>>
  PROVE  IInv'
BY IdleState, Claimless, RequestStep DEF Throw

LEMMA NextSequenceIsNat ==
  ASSUME IInv
  PROVE  NextSequence \in Nat /\ Len(landed) \in Nat /\ NextSequence = Len(landed) + 1
BY DEF IInv, RecordTypes, NextSequence

LEMMA InvokeIsSound ==
  ASSUME IInv, NEW r \in Requests, NEW call \in Calls, Invoke(r, call), Beside
  PROVE  IInv'
<1>1. PICK q : q = [Idle EXCEPT !.at = "load", !.call = call]
  OBVIOUS
<1>2. q \in RequestState /\ q.at = "load" /\ q.call = call
  BY <1>1, IdleState DEF RequestState
<1>3. request' = [request EXCEPT ![r] = q]
  BY <1>1 DEF Invoke
<1> QED BY <1>2, <1>3, Claimless, RequestStep DEF Invoke, Beside, rowVars

LEMMA LoadAccountIsSound ==
  ASSUME IInv, NEW r \in Requests, LoadAccount(r), Beside
  PROVE  IInv'
<1>1. CASE Throw(r)
  BY <1>1, ThrowStep DEF LoadAccount, Beside, rowVars
<1>2. CASE request' = [request EXCEPT ![r].at = "simulate", ![r].sequence = NextSequence]
  <2>1. PICK q : q = [request[r] EXCEPT !.at = "simulate", !.sequence = NextSequence]
    OBVIOUS
  <2>0. request[r] \in RequestState /\ request[r].call \in Calls
    BY DEF IInv, RecordTypes, LoadAccount
  <2>2. /\ q \in RequestState /\ q.at = "simulate" /\ q.call \in Calls
    BY <2>0, <2>1, NextSequenceIsNat DEF RequestState
  <2>3. request' = [request EXCEPT ![r] = q]
    BY <1>2, <2>1
  <2> QED BY <2>2, <2>3, Claimless, RequestStep DEF LoadAccount, Beside, rowVars
<1> QED BY <1>1, <1>2 DEF LoadAccount

LEMMA SimulateIsSound ==
  ASSUME IInv, NEW r \in Requests, Simulate(r), Beside
  PROVE  IInv'
<1>1. CASE Throw(r)
  BY <1>1, ThrowStep DEF Simulate, Beside, rowVars
<1>2. CASE Advance(r, "send")
  <2>1. PICK q : q = [request[r] EXCEPT !.at = "send"]
    OBVIOUS
  <2>0. request[r] \in RequestState /\ request[r].call \in Calls
    BY DEF IInv, RecordTypes, Simulate
  <2>2. /\ q \in RequestState /\ q.at = "send" /\ q.call \in Calls
    BY <2>0, <2>1 DEF RequestState
  <2>3. request' = [request EXCEPT ![r] = q]
    BY <1>2, <2>1 DEF Advance
  <2> QED BY <2>2, <2>3, Claimless, RequestStep DEF Simulate, Beside, rowVars
<1> QED BY <1>1, <1>2 DEF Simulate

(* The poll returns what landed, under the id of its own call.              *)
LEMMA PollIsSound ==
  ASSUME IInv, NEW r \in Requests, pollTransactionStatus(r), Beside
  PROVE  IInv'
<1>1. request[r] \in RequestState /\ request[r].call \in Calls /\ request[r].at = "poll"
  BY DEF IInv, RecordTypes, pollTransactionStatus
<1>2. UNCHANGED <<queued, chainVars, retirementRows>>
  BY DEF pollTransactionStatus, Beside, rowVars
<1>3. CASE Found(r)
  <2>1. PICK q : q = [request[r] EXCEPT !.at = "returned", !.id = Returned(r)]
    OBVIOUS
  <2>2. request' = [request EXCEPT ![r] = q]
    BY <1>3, <2>1 DEF pollTransactionStatus
  <2>3. Returned(r) \in Ids
    BY <1>1, CallFields DEF Returned, Ids
  <2>4. q \in RequestState /\ q.at = "returned" /\ q.call = request[r].call /\ q.id = Returned(r)
    BY <1>1, <2>1, <2>3 DEF RequestState
  <2>5. ReturnedHappened(q)
    <3> SUFFICES ASSUME Returned(r) \in Credits
                 PROVE  Returned(r) = request[r].call.credit /\ HasHappened(request[r].call)
      BY <2>4 DEF ReturnedHappened
    <3>1. landed[request[r].sequence].ok
      BY DEF Returned
    <3>2. Returned(r) = request[r].call.credit
      BY <3>1 DEF Returned
    <3>3. LandedHappened(request[r], r)
      BY DEF IInv, RequestsTruthful
    <3> QED BY <1>1, <1>3, <3>1, <3>2, <3>3 DEF LandedHappened, Found
  <2>6. QueuedIsOwn(q, r) /\ LandedHappened(q, r)
    BY <2>4 DEF QueuedIsOwn, LandedHappened
  <2> QED BY <1>1, <1>2, <2>2, <2>4, <2>5, <2>6, RequestStep
<1>4. CASE ~Found(r) /\ Attempts(r) = MaxPolls
  <2>1. Throw(r)
    BY <1>4 DEF Throw, pollTransactionStatus
  <2> QED BY <1>2, <2>1, ThrowStep
<1>5. CASE ~Found(r) /\ Attempts(r) # MaxPolls
  <2>1. PICK q : q = [request[r] EXCEPT !.polls = Attempts(r)]
    OBVIOUS
  <2>2. request' = [request EXCEPT ![r] = q]
    BY <1>5, <2>1 DEF pollTransactionStatus
  <2>3. /\ q \in RequestState /\ q.at = "poll" /\ q.call = request[r].call
        /\ q.sequence = request[r].sequence
    BY <1>1, <2>1 DEF RequestState, Attempts
  <2>4. QueuedIsOwn(q, r) /\ LandedHappened(q, r) /\ ReturnedHappened(q)
    BY <1>1, <2>3 DEF IInv, RequestsTruthful, QueuedIsOwn, LandedHappened, ReturnedHappened
  <2> QED BY <1>1, <1>2, <2>2, <2>3, <2>4, RequestStep
<1> QED BY <1>3, <1>4, <1>5

LEMMA PollThrowsIsSound ==
  ASSUME IInv, NEW r \in Requests, PollThrows(r), Beside
  PROVE  IInv'
BY ThrowStep DEF PollThrows, Beside, rowVars

(* Send hands the request's own transaction to the network.                 *)
LEMMA SendIsSound ==
  ASSUME IInv, NEW r \in Requests, Send(r), Beside
  PROVE  IInv'
<1>1. request[r] \in RequestState /\ request[r].call \in Calls
  BY DEF IInv, RecordTypes, Send
<1>2. UNCHANGED <<landed, status, retiredBy, retirementRows>>
  BY DEF Send, Beside, rowVars, chainVars
<1>3. CASE Throw(r) /\ UNCHANGED queued
  BY <1>2, <1>3, ThrowStep DEF chainVars
<1>4. CASE /\ request[r].sequence = NextSequence
           /\ queued' = Transaction(r)
           /\ Advance(r, "poll") \/ Throw(r)
  <2>1. PICK q : /\ request' = [request EXCEPT ![r] = q]
                 /\ q = Idle \/ q = [request[r] EXCEPT !.at = "poll"]
    BY <1>4 DEF Advance, Throw
  <2>2. /\ q \in RequestState
        /\ \/ q.at = "idle"
           \/ /\ q.at = "poll" /\ q.call = request[r].call
              /\ q.sequence = Len(landed) + 1
    <3>1. CASE q = Idle
      BY <3>1, IdleState
    <3>2. CASE q = [request[r] EXCEPT !.at = "poll"]
      BY <1>1, <1>4, <3>2, NextSequenceIsNat DEF RequestState
    <3> QED BY <2>1, <3>1, <3>2
  <2>3. request'[r] = q /\ \A s \in Requests : s # r => request'[s] = request[s]
    BY <2>1 DEF IInv, RecordTypes
  <2>4. /\ queued' \in [by : Requests, call : Calls]
        /\ queued'.by = r /\ queued'.call = request[r].call
    BY <1>1, <1>4 DEF Transaction
  <2>5. RecordTypes'
    BY <1>1, <1>2, <2>1, <2>2, <2>3, <2>4 DEF IInv, RecordTypes
  <2>6. RequestsTruthful'
    <3> SUFFICES ASSUME NEW s \in Requests
                 PROVE  /\ QueuedIsOwn(request[s], s)'
                        /\ LandedHappened(request[s], s)'
                        /\ ReturnedHappened(request[s])'
      BY DEF RequestsTruthful
    <3>1. CASE s # r
      BY <1>2, <2>3, <2>4, <3>1 DEF IInv, RequestsTruthful, QueuedIsOwn, LandedHappened,
                                    ReturnedHappened, HasHappened
    <3>2. CASE s = r
      <4>1. Len(landed) \in Nat /\ DOMAIN landed = 1 .. Len(landed)
        BY DEF IInv, RecordTypes
      <4> QED BY <1>2, <2>2, <2>3, <2>4, <3>2, <4>1
              DEF QueuedIsOwn, LandedHappened, ReturnedHappened
    <3> QED BY <3>1, <3>2
  <2> QED BY <1>2, <2>5, <2>6 DEF IInv, RetiredOnce, RowsTruthful
<1> QED BY <1>3, <1>4 DEF Send

(* The row is saved under an id whose retirement has happened, or under an  *)
(* id that is not the chain's.                                              *)
LEMMA SaveRowIsSound ==
  ASSUME IInv, NEW r \in Requests, SaveRow(r)
  PROVE  IInv'
<1>1. /\ request[r] \in RequestState /\ request[r].call \in Calls
      /\ request[r].at = "returned"
  BY DEF IInv, RecordTypes, SaveRow
<1>2. UNCHANGED <<queued, chainVars>> /\ request' = [request EXCEPT ![r] = Idle]
  BY DEF SaveRow
<1>3. retirementRows' = retirementRows
        \/ /\ request[r].call.method = "retire"
           /\ retirementRows' = [retirementRows EXCEPT ![request[r].id] = Row(r)]
  BY DEF SaveRow
<1>4. DOMAIN retirementRows' = Ids
  BY <1>3 DEF IInv, RecordTypes
<1>5. RowsTruthful'
  <2>1. CASE retirementRows' = retirementRows
    BY <1>2, <2>1 DEF IInv, RowsTruthful, chainVars
  <2>2. CASE /\ request[r].call.method = "retire"
             /\ retirementRows' = [retirementRows EXCEPT ![request[r].id] = Row(r)]
    <3> SUFFICES ASSUME NEW c \in Credits, retirementRows'[c] # None
                 PROVE  /\ retiredBy'[c] # None
                        /\ retirementRows'[c] = [credit |-> c, buyer |-> retiredBy'[c]]
      BY DEF RowsTruthful
    <3>1. retiredBy' = retiredBy
      BY <1>2 DEF chainVars
    <3>2. CASE c # request[r].id
      BY <2>2, <3>1, <3>2 DEF IInv, RecordTypes, RowsTruthful, Ids
    <3>3. CASE c = request[r].id
      <4>1. ReturnedHappened(request[r])
        BY DEF IInv, RequestsTruthful
      <4>2. c = request[r].call.credit /\ retiredBy[c] = request[r].call.account
        BY <1>1, <2>2, <3>3, <4>1 DEF ReturnedHappened, HasHappened
      <4>3. retirementRows'[c] = Row(r)
        BY <2>2, <3>3 DEF IInv, RecordTypes, Ids
      <4> QED BY <1>1, <3>1, <4>2, <4>3, CallFields DEF Row
    <3> QED BY <3>2, <3>3
  <2> QED BY <1>3, <2>1, <2>2
<1>6. request'[r] = Idle /\ \A s \in Requests : s # r => request'[s] = request[s]
  BY <1>2 DEF IInv, RecordTypes
<1>7. RecordTypes'
  BY <1>2, <1>4, <1>6, IdleState DEF IInv, RecordTypes, chainVars
<1>8. RequestsTruthful'
  <2> SUFFICES ASSUME NEW s \in Requests
               PROVE  /\ QueuedIsOwn(request[s], s)'
                      /\ LandedHappened(request[s], s)'
                      /\ ReturnedHappened(request[s])'
    BY DEF RequestsTruthful
  <2>1. CASE s = r
    BY <1>6, <2>1, IdleState DEF QueuedIsOwn, LandedHappened, ReturnedHappened
  <2>2. CASE s # r
    BY <1>2, <1>6, <2>2 DEF IInv, RequestsTruthful, QueuedIsOwn, LandedHappened,
                            ReturnedHappened, HasHappened, chainVars
  <2> QED BY <2>1, <2>2
<1> QED BY <1>2, <1>5, <1>7, <1>8 DEF IInv, RetiredOnce, chainVars

-----------------------------------------------------------------------------
(* Steps of the network and the chain. *)

(* What the chain has recorded of a retirement it never changes.            *)
KeepsRetirements == \A c \in Credits : retiredBy[c] # None => retiredBy'[c] = retiredBy[c]

LEMMA HappenedStays ==
  ASSUME KeepsRetirements, NEW call \in Calls, HasHappened(call)
  PROVE  HasHappened(call)'
BY CallFields DEF KeepsRetirements, HasHappened

(* A step of the chain that no request of the API has part in.              *)
LEMMA ChainStep ==
  ASSUME IInv, UNCHANGED <<request, landed, retirementRows>>, KeepsRetirements,
         status' \in [Credits -> Statuses \cup {None}],
         retiredBy' \in [Credits -> Accounts \cup {None}],
         queued' = None \/ queued' = queued, RetiredOnce'
  PROVE  IInv'
<1>1. RecordTypes'
  BY DEF IInv, RecordTypes
<1>2. RequestsTruthful'
  <2> SUFFICES ASSUME NEW s \in Requests
               PROVE  /\ QueuedIsOwn(request[s], s)'
                      /\ LandedHappened(request[s], s)'
                      /\ ReturnedHappened(request[s])'
    BY DEF RequestsTruthful
  <2>1. request[s].at # "idle" => request[s].call \in Calls
    BY DEF IInv, RecordTypes
  <2>2. QueuedIsOwn(request[s], s) /\ LandedHappened(request[s], s) /\ ReturnedHappened(request[s])
    BY DEF IInv, RequestsTruthful
  <2>3. QueuedIsOwn(request[s], s)'
    BY <2>2 DEF QueuedIsOwn
  <2>4. LandedHappened(request[s], s)'
    BY <2>1, <2>2, HappenedStays DEF LandedHappened, HasHappened
  <2>5. ReturnedHappened(request[s])'
    BY <2>1, <2>2, HappenedStays DEF ReturnedHappened, HasHappened
  <2> QED BY <2>3, <2>4, <2>5
<1>3. RowsTruthful'
  BY DEF IInv, RowsTruthful, KeepsRetirements
<1> QED BY <1>1, <1>2, <1>3 DEF IInv

LEMMA OthersAreSound ==
  ASSUME IInv, NEW c \in Credits, Beside,
         OthersMint(c) \/ \E a \in Accounts \ {AdminAccount} : OthersRetire(c, a)
  PROVE  IInv'
<1>1. CASE OthersMint(c)
  BY <1>1, ChainStep DEF OthersMint, Beside, rowVars, IInv, RecordTypes, RetiredOnce,
                         KeepsRetirements, Statuses
<1>2. ASSUME NEW a \in Accounts, OthersRetire(c, a) PROVE IInv'
  <2>1. retiredBy[c] = None
    BY <1>2 DEF OthersRetire, IInv, RetiredOnce
  <2>2. /\ status' = [status EXCEPT ![c] = "Retired"]
        /\ retiredBy' = [retiredBy EXCEPT ![c] = a]
        /\ UNCHANGED <<request, queued, landed, retirementRows>>
    BY <1>2 DEF OthersRetire, Beside, rowVars
  <2>3. KeepsRetirements /\ RetiredOnce'
    BY <2>1, <2>2 DEF IInv, RecordTypes, RetiredOnce, KeepsRetirements
  <2> QED BY <2>2, <2>3, ChainStep DEF IInv, RecordTypes, Statuses
<1> QED BY <1>1, <1>2

(* What a transaction that lands does, the call and its success by name.    *)
Lands(by, call, ok) ==
  /\ landed' = Append(landed, [by |-> by, ok |-> ok])
  /\ status' = IF ~ok THEN status
               ELSE CASE call.method = "submit_credit" -> [status EXCEPT ![call.credit] = "Pending"]
                      [] call.method = "retire"        -> [status EXCEPT ![call.credit] = "Retired"]
                      [] OTHER                         -> status
  /\ retiredBy' = IF ok /\ call.method = "retire"
                    THEN [retiredBy EXCEPT ![call.credit] = call.account] ELSE retiredBy

LEMMA LandingKeepsRetirements ==
  ASSUME IInv, NEW by, NEW call \in Calls, NEW ok \in BOOLEAN, Lands(by, call, ok),
         ok => Accepted(call)
  PROVE  /\ KeepsRetirements /\ RetiredOnce'
         /\ status' \in [Credits -> Statuses \cup {None}]
         /\ retiredBy' \in [Credits -> Accounts \cup {None}]
         /\ ok => HasHappened(call)'
<1>0. /\ call.method \in {"submit_credit", "retire", "create_offer"}
      /\ call.credit \in Credits /\ call.account \in Accounts /\ call.account # None
  BY CallFields
<1>t. /\ status \in [Credits -> Statuses \cup {None}]
      /\ retiredBy \in [Credits -> Accounts \cup {None}]
  BY DEF IInv, RecordTypes
<1>1. CASE ~ok \/ call.method = "create_offer"
  <2>1. status' = status /\ retiredBy' = retiredBy
    BY <1>1 DEF Lands
  <2> QED BY <1>1, <1>t, <2>1 DEF IInv, RetiredOnce, KeepsRetirements, HasHappened
<1>2. CASE ok /\ call.method = "submit_credit"
  <2>1. status' = [status EXCEPT ![call.credit] = "Pending"] /\ retiredBy' = retiredBy
    BY <1>2 DEF Lands
  <2>2. status[call.credit] = None
    BY <1>2 DEF Accepted
  <2>3. retiredBy[call.credit] = None
    BY <1>0, <2>2 DEF IInv, RetiredOnce, Statuses
  <2> QED BY <1>2, <1>0, <1>t, <2>1, <2>3
          DEF IInv, RetiredOnce, KeepsRetirements, HasHappened, Statuses
<1>3. CASE ok /\ call.method = "retire"
  <2>1. /\ status' = [status EXCEPT ![call.credit] = "Retired"]
        /\ retiredBy' = [retiredBy EXCEPT ![call.credit] = call.account]
    BY <1>3 DEF Lands
  <2>2. status[call.credit] = "Active"
    BY <1>3 DEF Accepted
  <2>3. retiredBy[call.credit] = None
    BY <1>0, <2>2 DEF IInv, RetiredOnce
  <2> QED BY <1>0, <1>t, <2>1, <2>3
          DEF IInv, RetiredOnce, KeepsRetirements, HasHappened, Statuses
<1> QED BY <1>0, <1>1, <1>2, <1>3

LEMMA LandingIsSound ==
  ASSUME IInv, TransactionLands, Beside
  PROVE  IInv'
<1>1. PICK by \in Requests, call \in Calls : queued.by = by /\ queued.call = call
  BY DEF IInv, RecordTypes, TransactionLands
<1>2. PICK ok \in BOOLEAN : ok = (Accepted(call) /\ Authorized(call))
  OBVIOUS
<1>3. /\ queued # None /\ queued' = None /\ request' = request
      /\ retirementRows' = retirementRows /\ Lands(by, call, ok)
  BY <1>1, <1>2, Zenon DEF TransactionLands, Lands, Beside, rowVars
<1>4. /\ KeepsRetirements /\ RetiredOnce'
      /\ status' \in [Credits -> Statuses \cup {None}]
      /\ retiredBy' \in [Credits -> Accounts \cup {None}]
      /\ ok => HasHappened(call)'
  BY <1>2, <1>3, LandingKeepsRetirements
<1>5. /\ landed \in Seq([by : Requests, ok : BOOLEAN])
      /\ landed' = Append(landed, [by |-> by, ok |-> ok])
  BY <1>3 DEF Lands, IInv, RecordTypes
<1>6. /\ landed' \in Seq([by : Requests, ok : BOOLEAN])
      /\ Len(landed) \in Nat /\ Len(landed') = Len(landed) + 1
      /\ DOMAIN landed' = 1 .. Len(landed) + 1 /\ DOMAIN landed = 1 .. Len(landed)
      /\ \A i \in DOMAIN landed : landed'[i] = landed[i]
      /\ landed'[Len(landed) + 1] = [by |-> by, ok |-> ok]
  BY <1>5
<1>7. RecordTypes'
  BY <1>3, <1>4, <1>6 DEF IInv, RecordTypes
<1>8. RowsTruthful'
  BY <1>3, <1>4 DEF IInv, RowsTruthful, KeepsRetirements
<1>9. RequestsTruthful'
  <2> SUFFICES ASSUME NEW s \in Requests
               PROVE  /\ QueuedIsOwn(request[s], s)'
                      /\ LandedHappened(request[s], s)'
                      /\ ReturnedHappened(request[s])'
    BY DEF RequestsTruthful
  <2>1. /\ request[s].at # "idle" => request[s].call \in Calls
        /\ request[s] \in RequestState
    BY DEF IInv, RecordTypes
  <2>2. QueuedIsOwn(request[s], s) /\ LandedHappened(request[s], s) /\ ReturnedHappened(request[s])
    BY DEF IInv, RequestsTruthful
  <2>3. QueuedIsOwn(request[s], s)'
    BY <1>3, <1>6, <2>1, <2>2 DEF QueuedIsOwn, RequestState
  <2>4. ReturnedHappened(request[s])'
    BY <1>3, <1>4, <2>1, <2>2, HappenedStays DEF ReturnedHappened, HasHappened
  <2>5. LandedHappened(request[s], s)'
    <3> SUFFICES ASSUME request[s].at = "poll", request[s].sequence \in DOMAIN landed',
                        landed'[request[s].sequence].by = s,
                        landed'[request[s].sequence].ok
                 PROVE  HasHappened(request[s].call)'
      BY <1>3 DEF LandedHappened, HasHappened
    <3>1. CASE request[s].sequence \in DOMAIN landed
      BY <1>3, <1>4, <1>6, <2>1, <2>2, <3>1, HappenedStays DEF LandedHappened, HasHappened
    <3>2. CASE request[s].sequence = Len(landed) + 1
      <4>1. by = s /\ ok
        BY <1>6, <3>2
      <4>2. request[s].call = call
        BY <1>1, <1>3, <2>2, <4>1 DEF QueuedIsOwn
      <4> QED BY <1>3, <1>4, <4>1, <4>2 DEF HasHappened
    <3> QED BY <1>6, <3>1, <3>2
  <2> QED BY <2>3, <2>4, <2>5
<1> QED BY <1>4, <1>7, <1>8, <1>9 DEF IInv

LEMMA ExpiryIsSound ==
  ASSUME IInv, TransactionExpires, Beside
  PROVE  IInv'
BY ChainStep DEF TransactionExpires, Beside, rowVars, chainVars, IInv, RecordTypes, RetiredOnce,
                 KeepsRetirements

-----------------------------------------------------------------------------
(* Reads, caches and restarts, and the whole. *)

LEMMA NothingClaimed ==
  ASSUME IInv, UNCHANGED <<submissionVars, retirementRows>>
  PROVE  IInv'
<1>1. UNCHANGED <<request, queued, landed, status, retiredBy, retirementRows>>
  BY DEF submissionVars
<1>2. RecordTypes' /\ RetiredOnce' /\ RowsTruthful'
  BY <1>1 DEF IInv, RecordTypes, RetiredOnce, RowsTruthful
<1>3. RequestsTruthful'
  BY <1>1 DEF IInv, RequestsTruthful, QueuedIsOwn, LandedHappened, ReturnedHappened, HasHappened
<1> QED BY <1>2, <1>3 DEF IInv

LEMMA RestartIsSound ==
  ASSUME IInv, Restart
  PROVE  IInv'
<1>1. /\ request' = [r \in Requests |-> Idle]
      /\ retirementRows' = [i \in Ids |-> None]
      /\ UNCHANGED <<queued, landed, status, retiredBy>>
  BY DEF Restart, chainVars
<1>2. RecordTypes'
  BY <1>1, IdleState DEF IInv, RecordTypes
<1>3. RetiredOnce' /\ RowsTruthful'
  BY <1>1 DEF IInv, RetiredOnce, RowsTruthful, Ids
<1>4. RequestsTruthful'
  BY <1>1, IdleState DEF RequestsTruthful, QueuedIsOwn, LandedHappened, ReturnedHappened
<1> QED BY <1>2, <1>3, <1>4 DEF IInv

LEMMA NextIInv == IInv /\ [Next]_vars => IInv'
<1> SUFFICES ASSUME IInv, [Next]_vars PROVE IInv'
  OBVIOUS
<1>1. ASSUME NEW r \in Requests, NEW call \in Calls, Invoke(r, call), Beside PROVE IInv'
  BY <1>1, InvokeIsSound
<1>10. ASSUME NEW r \in Requests, PollThrows(r), Beside PROVE IInv'
  BY <1>10, PollThrowsIsSound
<1>2. ASSUME NEW r \in Requests, InvokeStep(r), Beside PROVE IInv'
  BY <1>2, LoadAccountIsSound, SimulateIsSound, SendIsSound, PollIsSound DEF InvokeStep
<1>3. ASSUME NEW r \in Requests, SaveRow(r) PROVE IInv'
  BY <1>3, SaveRowIsSound
<1>4. CASE NetworkStep /\ Beside
  BY <1>4, LandingIsSound, ExpiryIsSound, OthersAreSound DEF NetworkStep
<1>5. ASSUME NEW d \in Readers,
             \/ \E c \in Credits : GetCredit(d, c)
             \/ \E s \in Filters : ListCredits(d, s)
             \/ ReadStep(d)
      PROVE  IInv'
  BY <1>5, NothingClaimed DEF GetCredit, ListCredits, ReadStep, FindById, ReadContract, FindAll,
                              CacheSet, rowVars
<1>6. CASE \E c \in Credits : CreditExpires(c)
  BY <1>6, NothingClaimed DEF CreditExpires, rowVars
<1>7. CASE \E s \in Filters : ListExpires(s)
  BY <1>7, NothingClaimed DEF ListExpires, rowVars
<1>8. CASE Restart
  BY <1>8, RestartIsSound
<1>9. CASE UNCHANGED vars
  BY <1>9, NothingClaimed DEF vars, submissionVars
<1> QED BY <1>1, <1>2, <1>3, <1>4, <1>5, <1>6, <1>7, <1>8, <1>9, <1>10 DEF Next

(* A certificate verified under an id of the chain names the credit and the *)
(* buyer the chain has recorded (RetirementRowsAreTrue), however requests,  *)
(* timeouts, restarts and others' retirements interleave.                   *)
THEOREM VerifiedRetirementsAreTrue == Spec => []RetirementRowsAreTrue
<1>1. IInv => RetirementRowsAreTrue
  <2> SUFFICES ASSUME IInv, NEW c \in Credits, verifyCertificate(c)
               PROVE  /\ retiredBy[c] # None
                      /\ getRetirement(c) = [credit |-> c, buyer |-> retiredBy[c]]
    BY DEF RetirementRowsAreTrue
  <2> QED BY DEF verifyCertificate, getRetirement, IInv, RowsTruthful
<1> QED BY <1>1, InitIInv, NextIInv, PTL DEF Spec
=============================================================================

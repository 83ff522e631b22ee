---------------------------- MODULE EventIndexer ----------------------------
(***************************************************************************)
(* The event indexer of the API (api/src/events/events.service.ts) with    *)
(* the webhook deliveries its polls perform.                               *)
(*                                                                         *)
(* Every 30 seconds a poll visits the configured contracts one after the   *)
(* other: it asks the RPC node for the contract's events from the ledger   *)
(* lastLedger on, stores each, posts it to the matching webhooks, and then *)
(* sets lastLedger to the last ledger of this batch.  After the last       *)
(* contract it retries deliveries that are due.  Each request and each     *)
(* post is awaited; the scheduler starts the next poll all the same, and   *)
(* lastLedger, events and the deliveries are shared.                       *)
(*                                                                         *)
(* An event's id is its contract, its ledger and its place in that ledger  *)
(* among the contract's events; EventIds bounds what may happen.  A node   *)
(* answers with a page of the oldest events from the start ledger on, that *)
(* ledger included, and the code asks for no further page.                 *)
(*                                                                         *)
(* The list caches that a status change invalidates are left out: the type *)
(* of an event the RPC client hands over is never one of those that do it. *)
(***************************************************************************)
EXTENDS WebhookDelivery, Sequences

CONSTANTS
    ContractIds,   \* the configured contracts, in the order of a poll
    Topic,         \* the first topic of each contract's events
    StringTopics,  \* the topics the RPC client hands over as plain strings
    MaxLedger,     \* bound: ledgers closed
    PageLimit,     \* events in one answer of the RPC node (limit: 100)
    FirstServed,   \* the least start ledger the RPC node accepts
    MaxRestarts    \* bound: restarts of the API

VARIABLES
    tip,         \* the chain: its last closed ledger
    emitted,     \* the chain: the events of the closed ledgers
    lastLedger,  \* the cursor
    events,      \* the events stored
    poll,        \* by poll: where it is and what it holds
    restarts

chainVars == <<tip, emitted>>
vars == <<webhooks, deliveries, posting, tip, emitted, lastLedger, events, poll, restarts>>

Contracts == {ContractIds[i] : i \in DOMAIN ContractIds}

ASSUME IndexerAssumption ==
    /\ ContractIds \in Seq(Contracts) /\ Len(ContractIds) > 0
    /\ MaxLedger \in Nat /\ MaxRestarts \in Nat /\ PageLimit \in Nat \ {0}
    /\ FirstServed \in Nat
    /\ EventIds \subseteq Contracts \X (1..MaxLedger) \X Nat

ASSUME FinitelyManyEvents == IsFiniteSet(EventIds)

ContractOf(e) == e[1]
LedgerOf(e)   == e[2]

\* Of two events of one contract, the one the node lists first.
Earlier(f, e) == f[2] < e[2] \/ (f[2] = e[2] /\ f[3] < e[3])

Idle == [at |-> "idle", visit |-> 0, start |-> 0, batch |-> {}, top |-> 0,
         event |-> None, hooks |-> {}, retries |-> {}]

\* At "fetch" a poll awaits the RPC node, at "dispatch" it works through a
\* batch, at "retry" through the deliveries that were due.
PollState == [at : {"idle", "fetch", "dispatch", "retry"},
              visit : 0..Len(ContractIds), start : 0..MaxLedger,
              batch : SUBSET EventIds, top : 0..MaxLedger,
              event : EventIds \cup {None}, hooks : SUBSET Hooks,
              retries : SUBSET DeliveryIds]

parseEventType(e) ==
    IF Topic[ContractOf(e)] \in StringTopics THEN Topic[ContractOf(e)] ELSE "unknown"

Visited(p) == ContractIds[poll[p].visit]

Init ==
    /\ WebhooksInit
    /\ tip = 0 /\ emitted = {}
    /\ lastLedger = 0 /\ events = {}
    /\ poll = [p \in Polls |-> Idle]
    /\ restarts = 0

\* The chain closes a ledger with events of some contracts.
CloseLedger ==
    /\ tip < MaxLedger
    /\ tip' = tip + 1
    /\ \E es \in SUBSET {e \in EventIds : LedgerOf(e) = tip + 1} :
         emitted' = emitted \cup es
    /\ UNCHANGED <<webhookVars, lastLedger, events, poll, restarts>>

(***************************************************************************)
(* One poll.                                                               *)
(***************************************************************************)
\* The request for a contract's events carries the cursor of this moment.
Fetching(i, cursor) == [Idle EXCEPT !.at = "fetch", !.visit = i, !.start = cursor]

StartPoll(p) ==
    /\ poll[p].at = "idle"
    /\ poll' = [poll EXCEPT ![p] = Fetching(1, lastLedger)]
    /\ UNCHANGED <<webhookVars, chainVars, lastLedger, events, restarts>>

\* After a contract comes the next one, and after the last the retries.
Proceed(p, cursor) ==
    IF poll[p].visit < Len(ContractIds)
      THEN Fetching(poll[p].visit + 1, cursor)
      ELSE [Idle EXCEPT !.at = "retry", !.retries = Retriable]

Since(c, start) == {e \in emitted : ContractOf(e) = c /\ LedgerOf(e) >= start}

FirstPage(es) ==
    {e \in es : Cardinality({f \in es : Earlier(f, e)}) < PageLimit}

\* Faulty variant: the batch's first ledger instead of its last.
FirstLedgerOf(es) ==
    CHOOSE n \in {LedgerOf(e) : e \in es} : \A e \in es : n <= LedgerOf(e)

LastLedgerOf(es) ==
    CHOOSE n \in {LedgerOf(e) : e \in es} : \A e \in es : LedgerOf(e) <= n

\* getContractEvents returns a page of events from the start ledger on, if the
\* node serves that ledger ...
FetchEvents(p) ==
    LET page == FirstPage(Since(Visited(p), poll[p].start)) IN
    /\ poll[p].at = "fetch" /\ poll[p].start >= FirstServed
    /\ page # {}
    /\ poll' = [poll EXCEPT ![p].at = "dispatch", ![p].batch = page,
                            ![p].top = LastLedgerOf(page)]
    /\ UNCHANGED <<webhookVars, chainVars, lastLedger, events, restarts>>

\* Faulty variant: a contract without events ends the visits.
EndsVisits(p) == [Idle EXCEPT !.at = "retry", !.retries = Retriable]

AfterNothing(p) == Proceed(p, lastLedger)

\* ... or nothing, which is also what it makes of a failed request.
FetchNothing(p) ==
    /\ poll[p].at = "fetch"
    /\ poll' = [poll EXCEPT ![p] = AfterNothing(p)]
    /\ UNCHANGED <<webhookVars, chainVars, lastLedger, events, restarts>>

Dispatching(p) == poll[p].at = "dispatch" /\ posting[p] = None

\* The oldest event of the batch is stored, and the webhooks it concerns are
\* chosen once.
IndexEvent(p) ==
    /\ Dispatching(p) /\ poll[p].hooks = {}
    /\ \E e \in poll[p].batch :
         /\ \A f \in poll[p].batch : ~Earlier(f, e)
         /\ events' = events \cup {e}
         /\ poll' = [poll EXCEPT ![p].batch = @ \ {e}, ![p].event = e,
                                 ![p].hooks = Matching(parseEventType(e))]
    /\ UNCHANGED <<webhookVars, chainVars, lastLedger, restarts>>

\* A delivery no poll holds and that is settled makes room for a new one; an
\* event with Copies deliveries under way is not posted once more (the bound).
InHand(d) == \E q \in Polls : d = posting[q] \/ d \in poll[q].retries
Free(d)   == d \notin Kept \/ (deliveries[d].status # "pending" /\ ~InHand(d))

DeliverEvent(p) ==
    \E h \in poll[p].hooks :
      LET free == {d \in {<<poll[p].event, h, i>> : i \in 1..Copies} : Free(d)} IN
      /\ Dispatching(p)
      /\ poll' = [poll EXCEPT ![p].hooks = @ \ {h}]
      /\ IF free # {} THEN Post(p, CHOOSE d \in free : TRUE, NewDelivery)
                      ELSE UNCHANGED webhookVars
      /\ UNCHANGED <<chainVars, lastLedger, events, restarts>>

\* The whole batch is dispatched: the cursor moves to the batch's last ledger,
\* wherever other polls and contracts have put it meanwhile.
FinishContract(p) ==
    /\ Dispatching(p) /\ poll[p].hooks = {} /\ poll[p].batch = {}
    /\ lastLedger' = poll[p].top
    /\ poll' = [poll EXCEPT ![p] = Proceed(p, poll[p].top)]
    /\ UNCHANGED <<webhookVars, chainVars, events, restarts>>

\* A delivery is tried again as it was found at the start of the pass, unless
\* its webhook is gone; neither its status nor the webhook's is looked at.
RetryDelivery(p) ==
    /\ poll[p].at = "retry" /\ posting[p] = None
    /\ \E d \in poll[p].retries :
         /\ poll' = [poll EXCEPT ![p].retries = @ \ {d}]
         /\ IF Registered(HookOf(d)) THEN Post(p, d, deliveries[d])
                                     ELSE UNCHANGED webhookVars
    /\ UNCHANGED <<chainVars, lastLedger, events, restarts>>

EndPoll(p) ==
    /\ poll[p].at = "retry" /\ posting[p] = None /\ poll[p].retries = {}
    /\ poll' = [poll EXCEPT ![p] = Idle]
    /\ UNCHANGED <<webhookVars, chainVars, lastLedger, events, restarts>>

\* Everything the two services know is in memory.
Restart ==
    /\ restarts < MaxRestarts
    /\ restarts' = restarts + 1
    /\ LoseWebhooks
    /\ lastLedger' = 0 /\ events' = {} /\ poll' = [p \in Polls |-> Idle]
    /\ UNCHANGED chainVars

Outside == UNCHANGED <<tip, emitted, lastLedger, events, poll, restarts>>

PostAnswered(p) == (PostSucceeds(p) \/ PostFails(p)) /\ Outside

PollStep(p) ==
    \/ FetchNothing(p) \/ IndexEvent(p) \/ DeliverEvent(p)
    \/ FinishContract(p) \/ RetryDelivery(p) \/ EndPoll(p)

Next ==
    \/ CloseLedger
    \/ Restart
    \/ \E p \in Polls : \/ StartPoll(p) \/ FetchEvents(p)
                        \/ PollStep(p) \/ PostAnswered(p)
    \/ \E h \in Hooks : /\ \/ \E types \in Subscriptions : RegisterWebhook(h, types)
                           \/ DeleteWebhook(h)
                        /\ Outside
    \/ \E d \in DeliveryIds : RetryFallsDue(d) /\ Outside

\* The cron job fires, time passes, and a request or a post ends, in an answer
\* or an error: the code sets no timeout, so this is asked of the connection.
\* Nothing is assumed of the callers of the controller.  A node that is asked
\* for one contract again and again, from ledgers it serves, does not fail every
\* time.
Fairness ==
    /\ WF_vars(\E p \in Polls : StartPoll(p))
    /\ \A p \in Polls : WF_vars(PollStep(p)) /\ WF_vars(PostAnswered(p))
    /\ \A c \in Contracts : SF_vars(\E p \in Polls : FetchEvents(p) /\ Visited(p) = c)
    /\ \A d \in DeliveryIds : WF_vars(RetryFallsDue(d) /\ Outside)

Spec == Init /\ [][Next]_vars
FairSpec == Spec /\ Fairness

(***************************************************************************)
(* Properties.                                                             *)
(***************************************************************************)
TypeOK ==
    /\ webhooks \in [Hooks -> Webhook]
    /\ Kept \subseteq DeliveryIds /\ \A d \in Kept : deliveries[d] \in Delivery
    /\ posting \in [Polls -> DeliveryIds \cup {None}]
    /\ tip \in 0..MaxLedger /\ emitted \subseteq EventIds
    /\ lastLedger \in 0..MaxLedger /\ events \subseteq emitted
    /\ poll \in [Polls -> PollState] /\ restarts \in 0..MaxRestarts

\* No delivery is stranded: one that is still pending is being posted by some
\* poll, or has a time of retry and attempts left, which is all that
\* retryFailedDeliveries asks - although overlapping passes count attempts and
\* write the status of one delivery between each other's await and answer.
NothingStranded ==
    \A d \in Kept : deliveries[d].status = "pending" =>
        \/ \E p \in Polls : posting[p] = d
        \/ deliveries[d].retry # "unset" /\ ~Exhausted(d)

\* A subscriber is not posted to for ever: the limit of attempts, which is
\* looked at when a pass starts and not when it posts, is missed by no more
\* than the passes that overlap.
AttemptsBounded ==
    \A d \in Kept : deliveries[d].attempts < MAX_RETRIES + Cardinality(Polls)

\* The cursor never names a ledger that the indexer holds no event of: the
\* next request cannot start past what was stored, however late a batch ends.
CursorWasIndexed == lastLedger = 0 \/ \E e \in events : LedgerOf(e) = lastLedger

\* "Automatic retry of failed deliveries every 30 seconds": every delivery is
\* settled in the end, unless its webhook is deleted.
DeliveriesSettle ==
    \A d \in DeliveryIds :
        (d \in Kept /\ deliveries[d].status = "pending")
          ~> (d \notin Kept \/ deliveries[d].status # "pending"
                \/ webhooks[HookOf(d)].status = "deleted")

\* The events of one contract in one ledger fill a page: a request that starts
\* at this ledger returns them and nothing later, and leaves the cursor there.
FillsPage(c, n) ==
    Cardinality({f \in emitted : ContractOf(f) = c /\ LedgerOf(f) = n}) >= PageLimit

OnFirstPage(e) ==
    Cardinality({f \in emitted : ContractOf(f) = ContractOf(e) /\ Earlier(f, e)}) < PageLimit

Missed(e) == e \in emitted /\ e \notin events /\ lastLedger <= LedgerOf(e)

\* Again and again no event of a first page is missing that the cursor has not
\* passed (as another contract's batch can make it do, see NoEventSkipped): a node
\* that serves start ledger 0 given, what a contract's first page holds is stored
\* in the end, however polls overlap and set the cursor back.
EventsReachFeed ==
    FirstServed = 0 =>
      []<>(\A e \in EventIds : Missed(e) => ~OnFirstPage(e))

Overlapping ==
    \E p, q \in Polls : p # q /\ poll[p].at # "idle" /\ poll[q].at # "idle"

\* Where polls overlap no more, whatever they have left of the cursor, a backlog
\* of many pages is read too, up to a ledger that fills a page.
BacklogIsRead ==
    FirstServed = 0 /\ <>[]~Overlapping =>
      []<>(\A e \in EventIds :
             Missed(e) => \E n \in 1..LedgerOf(e) : FillsPage(ContractOf(e), n))

\* "Parses contract events from all four contracts"
\* (IMPLEMENTATION_SUMMARY.md:53): the cursor passes no event that was not
\* stored.  The code violates it, with one poll at a time and no failure.
NoEventSkipped ==
    \A e \in emitted : LedgerOf(e) < lastLedger => e \in events
=============================================================================

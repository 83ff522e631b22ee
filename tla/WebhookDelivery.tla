--------------------------- MODULE WebhookDelivery ---------------------------
(***************************************************************************)
(* Deliveries of contract events to registered webhooks                    *)
(* (api/src/webhooks/webhooks.service.ts).  The service runs inside the    *)
(* polls of the event indexer: a poll posts to one subscriber at a time    *)
(* and waits for the answer, and nothing keeps two polls from overlapping, *)
(* so two of them may be trying the same delivery.  The records a delivery *)
(* is kept in are the ones the polls share.                                *)
(*                                                                         *)
(* Both maps live in memory.  What no branch reads (url, timestamps,       *)
(* failureCount) is left out; a time of retry is only past or to come.     *)
(***************************************************************************)
EXTENDS Integers, FiniteSets

CONSTANTS
    Hooks,          \* ids that registerWebhook draws, each one once
    Subscriptions,  \* the sets of event types a webhook may be registered for
    EventIds,       \* ids of the events that are delivered
    Copies,         \* bound: deliveries kept of one event to one webhook
    MAX_RETRIES,    \* attempts after which a delivery is given up
    Polls,          \* the polls that may overlap
    None

ASSUME WebhookAssumption ==
    /\ MAX_RETRIES \in Nat \ {0}
    /\ Copies \in Nat \ {0}
    /\ IsFiniteSet(Polls)
    /\ None \notin EventIds \X Hooks \X (1..Copies)

VARIABLES
    webhooks,    \* by id: unborn, active, inactive or deleted, and its events
    deliveries,  \* by id: status, attempts and whether its retry time has come
    posting      \* by poll: the delivery whose answer it awaits, or None

webhookVars == <<webhooks, deliveries, posting>>

DeliveryIds == EventIds \X Hooks \X (1..Copies)
HookOf(d)   == d[2]

Webhook  == [status : {"unborn", "active", "inactive", "deleted"},
             events : Subscriptions \cup {{}}]
Delivery == [status   : {"pending", "success", "failed"},
             attempts : Nat,
             retry    : {"unset", "later", "due"}]

Registered(h) == webhooks[h].status \in {"active", "inactive"}
Kept          == DOMAIN deliveries

(***************************************************************************)
(* The webhooks controller.                                                *)
(***************************************************************************)
RegisterWebhook(h, types) ==
    /\ webhooks[h].status = "unborn"
    /\ webhooks' = [webhooks EXCEPT ![h] = [status |-> "active", events |-> types]]
    /\ UNCHANGED <<deliveries, posting>>

\* Its deliveries stay behind, and so does a post that is under way.
DeleteWebhook(h) ==
    /\ Registered(h)
    /\ webhooks' = [webhooks EXCEPT ![h].status = "deleted"]
    /\ UNCHANGED <<deliveries, posting>>

(***************************************************************************)
(* One attempt: counted before the post, judged at the answer.             *)
(***************************************************************************)
Matching(type) == {h \in Hooks : webhooks[h].status = "active"
                                 /\ type \in webhooks[h].events}

\* The record written before the post: the attempt is counted, the rest kept.
Attempted(delivery) == [delivery EXCEPT !.attempts = @ + 1]

NewDelivery == [status |-> "pending", attempts |-> 0, retry |-> "unset"]

Post(p, d, delivery) ==
    /\ posting' = [posting EXCEPT ![p] = d]
    /\ deliveries' = [c \in Kept \cup {d} |->
                        IF c = d THEN Attempted(delivery) ELSE deliveries[c]]
    /\ UNCHANGED webhooks

PostSucceeds(p) ==
    /\ posting[p] # None
    /\ deliveries' = [deliveries EXCEPT ![posting[p]].status = "success"]
    /\ posting' = [posting EXCEPT ![p] = None]
    /\ UNCHANGED webhooks

\* The attempts are read at the answer, when an overlapping poll may have
\* counted one more.
Exhausted(d) == deliveries[d].attempts >= MAX_RETRIES

\* Faulty variant: the time of the next retry is not set.
AfterFailureUnscheduled(d) ==
    IF Exhausted(d)
      THEN [deliveries[d] EXCEPT !.status = "failed"]
      ELSE [deliveries[d] EXCEPT !.retry = "unset"]

AfterFailure(d) ==
    IF Exhausted(d)
      THEN [deliveries[d] EXCEPT !.status = "failed"]
      ELSE [deliveries[d] EXCEPT !.status = "pending", !.retry = "later"]

PostFails(p) ==
    LET d == posting[p] IN
    /\ d # None
    /\ deliveries' = [deliveries EXCEPT ![d] = AfterFailure(d)]
    /\ webhooks' = IF Exhausted(d) /\ Registered(HookOf(d))
                     THEN [webhooks EXCEPT ![HookOf(d)].status = "inactive"]
                     ELSE webhooks
    /\ posting' = [posting EXCEPT ![p] = None]

\* The retry time passes; the delay of 5 s per attempt is not measured.
RetryFallsDue(d) ==
    /\ d \in Kept
    /\ deliveries[d].retry = "later"
    /\ deliveries' = [deliveries EXCEPT ![d].retry = "due"]
    /\ UNCHANGED <<webhooks, posting>>

\* Faulty variant: the last attempt is never made.
RetriableButLast == {d \in Kept : /\ deliveries[d].status = "pending"
                                  /\ deliveries[d].retry = "due"
                                  /\ deliveries[d].attempts < MAX_RETRIES - 1}

\* Faulty variant: whatever has not succeeded is tried again.
RetriableUnlessDelivered == {d \in Kept : /\ deliveries[d].status # "success"
                                          /\ deliveries[d].retry = "due"}

\* What retryFailedDeliveries takes when it starts.
Retriable == {d \in Kept : /\ deliveries[d].status = "pending"
                           /\ deliveries[d].retry = "due"
                           /\ deliveries[d].attempts < MAX_RETRIES}

WebhooksInit ==
    /\ webhooks = [h \in Hooks |-> [status |-> "unborn", events |-> {}]]
    /\ deliveries = <<>>
    /\ posting = [p \in Polls |-> None]

\* A restart: both maps are empty again, and no id is drawn twice.
LoseWebhooks ==
    /\ webhooks' = [h \in Hooks |-> IF Registered(h)
                      THEN [webhooks[h] EXCEPT !.status = "deleted"] ELSE webhooks[h]]
    /\ deliveries' = <<>>
    /\ posting' = [p \in Polls |-> None]
=============================================================================

-------------------------- MODULE EventIndexerProofs --------------------------
(***************************************************************************)
(* Proofs about the event indexer and its webhook deliveries, for any      *)
(* number of overlapping polls, contracts, webhooks and restarts.  The     *)
(* invariant adds to the properties what a poll holds between two awaits:  *)
(* events that were emitted, deliveries that are kept, and a cursor-to-be  *)
(* whose ledger it has an event of.  At the end, what the cursor cannot get *)
(* past: a start ledger the node refuses, and a full ledger.               *)
(***************************************************************************)
EXTENDS EventIndexer, FiniteSetTheorems, WellFoundedInduction, TLAPS

USE WebhookAssumption, IndexerAssumption

-----------------------------------------------------------------------------
(* The last ledger of a page. *)

LEMMA HasMinimum ==
  ASSUME NEW S, S \subseteq Nat, S # {}
  PROVE  \E m \in S : \A k \in S : m <= k
<1>1. PICK m \in S : \A k \in S : <<k, m>> \notin OpToRel(<, Nat)
  BY WFMin, NatLessThanWellFounded, Zenon
<1>2. \A k \in S : ~(k < m)
  BY <1>1, Zenon DEF OpToRel
<1> QED BY <1>2

LEMMA HasMaximum ==
  ASSUME NEW n \in Nat, NEW S, S \subseteq 1 .. n, S # {}
  PROVE  \E m \in S : \A k \in S : k <= m
<1>1. PICK D : D = {n - k : k \in S}
  OBVIOUS
<1>0. \A k \in S : k \in 1 .. n
  OBVIOUS
<1>2. D \subseteq Nat /\ D # {}
  <2>1. \A k \in S : n - k \in Nat
    BY <1>0
  <2> QED BY <1>1, <2>1, Zenon
<1>3. PICK d \in D : \A e \in D : d <= e
  BY <1>2, HasMinimum
<1>4. PICK m \in S : d = n - m
  BY <1>1
<1>5. ASSUME NEW k \in S PROVE k <= m
  <2>1. n - k \in D
    BY <1>1
  <2>2. n - m <= n - k
    BY <1>3, <1>4, <2>1
  <2>3. k \in Int /\ m \in Int
    BY <1>0
  <2> QED BY <2>2, <2>3
<1> QED BY <1>5

LEMMA LedgerOfEvent ==
  ASSUME NEW e \in EventIds
  PROVE  LedgerOf(e) \in 1 .. MaxLedger
BY DEF LedgerOf

(* LastLedgerOf is the ledger of an event of the page.                      *)
LEMMA LastLedgerIsOfPage ==
  ASSUME NEW es, es \subseteq EventIds, es # {}
  PROVE  \E e \in es : LedgerOf(e) = LastLedgerOf(es)
<1>1. PICK L : L = {LedgerOf(e) : e \in es}
  OBVIOUS
<1>2. L \subseteq 1 .. MaxLedger /\ L # {}
  BY <1>1, LedgerOfEvent
<1>3. \E n \in L : \A k \in L : k <= n
  BY <1>2, HasMaximum
<1>4. \E n \in L : \A e \in es : LedgerOf(e) <= n
  BY <1>1, <1>3
<1>5. LastLedgerOf(es) \in L
  BY <1>1, <1>4 DEF LastLedgerOf
<1> QED BY <1>1, <1>5

-----------------------------------------------------------------------------
(* The invariant. *)

(* What a poll holds: events of the chain, deliveries of the map, and while *)
(* it chooses webhooks the event they are chosen for.                       *)
PollsHoldKept ==
  \A p \in Polls :
    /\ poll[p].batch \subseteq emitted
    /\ poll[p].retries \subseteq Kept
    /\ poll[p].hooks # {} => poll[p].event \in EventIds

(* A batch's last ledger is that of an event still to be stored or stored.  *)
TopIsHeld ==
  \A p \in Polls : poll[p].at = "dispatch" =>
    \E e \in poll[p].batch \cup events : LedgerOf(e) = poll[p].top

IInv == TypeOK /\ PollsHoldKept /\ NothingStranded /\ TopIsHeld /\ CursorWasIndexed

LEMMA InitIInv == Init => IInv
<1> SUFFICES ASSUME Init PROVE IInv
  OBVIOUS
<1> USE DEF Init, WebhooksInit
<1>1. TypeOK
  <2>1. Kept = {}
    BY DEF Kept
  <2>2. Idle \in PollState
    BY DEF Idle, PollState
  <2> QED BY <2>1, <2>2 DEF TypeOK, Webhook
<1>2. PollsHoldKept
  BY DEF PollsHoldKept, Idle
<1>3. NothingStranded
  BY DEF NothingStranded, Kept
<1>4. TopIsHeld
  BY DEF TopIsHeld, Idle
<1>5. CursorWasIndexed
  BY DEF CursorWasIndexed
<1> QED BY <1>1, <1>2, <1>3, <1>4, <1>5 DEF IInv

-----------------------------------------------------------------------------
(* Steps of the deliveries alone. *)

(* What such a step does to the deliveries and who posts them.              *)
DeliveriesOK ==
  /\ webhooks' \in [Hooks -> Webhook]
  /\ Kept' \subseteq DeliveryIds /\ Kept \subseteq Kept'
  /\ \A d \in Kept' : deliveries'[d] \in Delivery
  /\ posting' \in [Polls -> DeliveryIds \cup {None}]
  /\ NothingStranded'

LEMMA PostIsSound ==
  ASSUME TypeOK, NothingStranded, NEW p \in Polls, NEW d \in DeliveryIds,
         NEW delivery \in Delivery, posting[p] = None, Post(p, d, delivery)
  PROVE  DeliveriesOK
<1> USE DEF Kept
<1>1. /\ posting' = [posting EXCEPT ![p] = d]
      /\ DOMAIN deliveries' = Kept \cup {d}
      /\ \A c \in Kept : c # d => deliveries'[c] = deliveries[c]
      /\ deliveries'[d] = Attempted(delivery)
      /\ webhooks' = webhooks
  BY DEF Post
<1>2. Attempted(delivery) \in Delivery
  BY DEF Attempted, Delivery
<1>3. \A c \in Kept' : deliveries'[c] \in Delivery
  BY <1>1, <1>2 DEF TypeOK
<1>4. posting' \in [Polls -> DeliveryIds \cup {None}] /\ posting'[p] = d
  BY <1>1 DEF TypeOK
<1>5. NothingStranded'
  <2> SUFFICES ASSUME NEW c \in Kept', deliveries'[c].status = "pending"
               PROVE  \/ \E q \in Polls : posting'[q] = c
                      \/ deliveries'[c].retry # "unset" /\ ~Exhausted(c)'
    BY DEF NothingStranded
  <2>1. CASE c = d
    BY <2>1, <1>4
  <2>2. CASE c # d
    <3>1. c \in Kept /\ deliveries'[c] = deliveries[c]
      BY <1>1, <2>2
    <3>2. c # None
      BY <3>1 DEF TypeOK, DeliveryIds
    <3>3. ASSUME NEW q \in Polls, posting[q] = c PROVE posting'[q] = c
      BY <1>1, <3>2, <3>3 DEF TypeOK
    <3> QED BY <3>1, <3>3 DEF NothingStranded, Exhausted
  <2> QED BY <2>1, <2>2
<1> QED BY <1>1, <1>3, <1>4, <1>5 DEF DeliveriesOK, TypeOK

LEMMA NewDeliveryType == NewDelivery \in Delivery
BY DEF NewDelivery, Delivery

(* An answer settles the delivery, or schedules it and leaves attempts.     *)
LEMMA AnswerIsSound ==
  ASSUME TypeOK, NothingStranded, NEW p \in Polls, NEW after,
         posting[p] # None,
         posting' = [posting EXCEPT ![p] = None],
         deliveries' = [deliveries EXCEPT ![posting[p]] = after],
         webhooks' \in [Hooks -> Webhook],
         posting[p] \in Kept =>
           /\ after \in Delivery
           /\ after.status = "pending" =>
                after.retry # "unset" /\ ~(after.attempts >= MAX_RETRIES)
  PROVE  DeliveriesOK
<1> USE DEF Kept
<1>1. /\ Kept' = Kept
      /\ \A c \in Kept : c # posting[p] => deliveries'[c] = deliveries[c]
      /\ posting[p] \in Kept => deliveries'[posting[p]] = after
  OBVIOUS
<1>2. \A c \in Kept' : deliveries'[c] \in Delivery
  BY <1>1 DEF TypeOK
<1>3. posting' \in [Polls -> DeliveryIds \cup {None}]
  BY DEF TypeOK
<1>4. NothingStranded'
  <2> SUFFICES ASSUME NEW c \in Kept', deliveries'[c].status = "pending"
               PROVE  \/ \E q \in Polls : posting'[q] = c
                      \/ deliveries'[c].retry # "unset" /\ ~Exhausted(c)'
    BY DEF NothingStranded
  <2>1. CASE c = posting[p]
    BY <1>1, <2>1 DEF Exhausted
  <2>2. CASE c # posting[p]
    <3>1. c \in Kept /\ deliveries'[c] = deliveries[c]
      BY <1>1, <2>2
    <3>2. ASSUME NEW q \in Polls, posting[q] = c PROVE posting'[q] = c
      BY <2>2, <3>2 DEF TypeOK
    <3> QED BY <3>1, <3>2 DEF NothingStranded, Exhausted
  <2> QED BY <2>1, <2>2
<1> QED BY <1>1, <1>2, <1>3, <1>4 DEF DeliveriesOK, TypeOK

LEMMA SuccessIsSound ==
  ASSUME TypeOK, NothingStranded, NEW p \in Polls, PostSucceeds(p)
  PROVE  DeliveriesOK
<1>1. PICK after : after = [deliveries[posting[p]] EXCEPT !.status = "success"]
  OBVIOUS
<1>2. deliveries' = [deliveries EXCEPT ![posting[p]] = after]
  BY <1>1 DEF PostSucceeds
<1>3. posting[p] \in Kept => after \in Delivery /\ after.status = "success"
  BY <1>1 DEF TypeOK, Delivery
<1> QED BY <1>2, <1>3, AnswerIsSound DEF PostSucceeds, TypeOK

LEMMA FailureIsSound ==
  ASSUME TypeOK, NothingStranded, NEW p \in Polls, PostFails(p)
  PROVE  DeliveriesOK
<1>1. PICK d : d = posting[p]
  OBVIOUS
<1>2. /\ posting[p] # None
      /\ deliveries' = [deliveries EXCEPT ![posting[p]] = AfterFailure(d)]
      /\ posting' = [posting EXCEPT ![p] = None]
  BY <1>1 DEF PostFails
<1>3. d \in Kept =>
        /\ AfterFailure(d) \in Delivery
        /\ AfterFailure(d).status = "pending" =>
             AfterFailure(d).retry # "unset" /\ ~(AfterFailure(d).attempts >= MAX_RETRIES)
  <2> SUFFICES ASSUME d \in Kept
               PROVE  /\ AfterFailure(d) \in Delivery
                      /\ AfterFailure(d).status = "pending" =>
                           /\ AfterFailure(d).retry # "unset"
                           /\ ~(AfterFailure(d).attempts >= MAX_RETRIES)
    OBVIOUS
  <2>1. deliveries[d] \in Delivery
    BY DEF TypeOK
  <2>2. CASE Exhausted(d)
    BY <2>1, <2>2 DEF AfterFailure, Delivery
  <2>3. CASE ~Exhausted(d)
    BY <2>1, <2>3 DEF AfterFailure, Delivery, Exhausted
  <2> QED BY <2>2, <2>3
<1>4. webhooks' \in [Hooks -> Webhook]
  <2>1. webhooks' = webhooks
          \/ webhooks' = [webhooks EXCEPT ![HookOf(d)].status = "inactive"]
    BY <1>1 DEF PostFails
  <2>2. webhooks \in [Hooks -> Webhook]
    BY DEF TypeOK
  <2>3. [webhooks EXCEPT ![HookOf(d)].status = "inactive"] \in [Hooks -> Webhook]
    BY ONLY <2>2 DEF Webhook
  <2> QED BY ONLY <2>1, <2>2, <2>3
<1> QED BY <1>1, <1>2, <1>3, <1>4, AnswerIsSound

(* Nothing of the polls, the chain or the cursor changes beside the posts.  *)
LEMMA DeliveryStep ==
  ASSUME IInv, DeliveriesOK, Outside
  PROVE  IInv'
<1> USE DEF Outside
<1>1. TypeOK'
  BY DEF IInv, TypeOK, DeliveriesOK
<1>2. PollsHoldKept'
  BY DEF IInv, PollsHoldKept, DeliveriesOK
<1>3. TopIsHeld' /\ CursorWasIndexed'
  BY DEF IInv, TopIsHeld, CursorWasIndexed
<1> QED BY <1>1, <1>2, <1>3 DEF IInv, DeliveriesOK

LEMMA HookSteps ==
  ASSUME IInv, NEW h \in Hooks, Outside,
         (\E types \in Subscriptions : RegisterWebhook(h, types)) \/ DeleteWebhook(h)
  PROVE  IInv'
<1>1. UNCHANGED <<deliveries, posting>>
  BY DEF RegisterWebhook, DeleteWebhook
<1>2. webhooks' \in [Hooks -> Webhook]
  <2>1. CASE \E types \in Subscriptions : RegisterWebhook(h, types)
    BY <2>1 DEF RegisterWebhook, IInv, TypeOK, Webhook
  <2>2. CASE DeleteWebhook(h)
    BY <2>2 DEF DeleteWebhook, IInv, TypeOK, Webhook
  <2> QED BY <2>1, <2>2
<1>3. DeliveriesOK
  BY <1>1, <1>2 DEF DeliveriesOK, IInv, TypeOK, NothingStranded, Exhausted, Kept
<1> QED BY <1>3, DeliveryStep

LEMMA RetryTimeStep ==
  ASSUME IInv, NEW d \in DeliveryIds, RetryFallsDue(d), Outside
  PROVE  IInv'
<1> USE DEF Kept
<1>1. /\ UNCHANGED <<webhooks, posting>> /\ Kept' = Kept /\ d \in Kept
      /\ \A c \in Kept : c # d => deliveries'[c] = deliveries[c]
      /\ deliveries'[d] = [deliveries[d] EXCEPT !.retry = "due"]
  BY DEF RetryFallsDue
<1>2. /\ deliveries'[d] \in Delivery /\ deliveries'[d].retry = "due"
      /\ deliveries'[d].status = deliveries[d].status
      /\ deliveries'[d].attempts = deliveries[d].attempts
      /\ deliveries[d].retry = "later"
  BY <1>1 DEF IInv, TypeOK, Delivery, RetryFallsDue
<1>3. \A c \in Kept' : deliveries'[c] \in Delivery
  BY <1>1, <1>2 DEF IInv, TypeOK
<1>4. NothingStranded'
  <2> SUFFICES ASSUME NEW c \in Kept', deliveries'[c].status = "pending"
               PROVE  \/ \E q \in Polls : posting'[q] = c
                      \/ deliveries'[c].retry # "unset" /\ ~Exhausted(c)'
    BY DEF NothingStranded
  <2>1. deliveries[c].status = "pending" /\ c \in Kept
    BY <1>1, <1>2
  <2>2. \/ \E q \in Polls : posting[q] = c
        \/ deliveries[c].retry # "unset" /\ ~Exhausted(c)
    BY <2>1 DEF IInv, NothingStranded
  <2> QED BY <1>1, <1>2, <2>1, <2>2 DEF Exhausted
<1> QED BY <1>1, <1>3, <1>4, DeliveryStep DEF DeliveriesOK, IInv, TypeOK

-----------------------------------------------------------------------------
(* Steps of the polls. *)

(* What a step of a poll that posts nothing has to show.                    *)
LEMMA PollStepAlone ==
  ASSUME IInv, NEW p \in Polls, NEW to \in PollState,
         poll' = [poll EXCEPT ![p] = to],
         UNCHANGED <<webhookVars, chainVars, restarts>>,
         to.batch \subseteq emitted, to.retries \subseteq Kept,
         to.hooks # {} => to.event \in EventIds,
         to.at = "dispatch" => \E e \in to.batch \cup events' : LedgerOf(e) = to.top,
         events \subseteq events', events' \subseteq emitted,
         lastLedger' \in 0 .. MaxLedger, CursorWasIndexed'
  PROVE  IInv'
<1> USE DEF webhookVars, chainVars, Kept
<1>1. poll'[p] = to /\ \A q \in Polls : q # p => poll'[q] = poll[q]
  BY DEF IInv, TypeOK
<1>2. TypeOK'
  BY DEF IInv, TypeOK
<1>3. PollsHoldKept'
  BY <1>1 DEF IInv, PollsHoldKept
<1>4. NothingStranded'
  BY DEF IInv, NothingStranded, Exhausted
<1>5. TopIsHeld'
  <2> SUFFICES ASSUME NEW q \in Polls, poll'[q].at = "dispatch"
               PROVE  \E e \in poll'[q].batch \cup events' : LedgerOf(e) = poll'[q].top
    BY DEF TopIsHeld
  <2>1. CASE q = p
    BY <1>1, <2>1
  <2>2. CASE q # p
    BY <1>1, <2>2 DEF IInv, TopIsHeld
  <2> QED BY <2>1, <2>2
<1> QED BY <1>2, <1>3, <1>4, <1>5 DEF IInv

LEMMA CursorStays ==
  ASSUME IInv, lastLedger' = lastLedger, events \subseteq events'
  PROVE  CursorWasIndexed'
BY DEF IInv, CursorWasIndexed

LEMMA FetchingType ==
  ASSUME NEW i \in 1 .. Len(ContractIds), NEW cursor \in 0 .. MaxLedger
  PROVE  /\ Fetching(i, cursor) \in PollState
         /\ Fetching(i, cursor).at = "fetch"
         /\ Fetching(i, cursor).batch = {} /\ Fetching(i, cursor).retries = {}
         /\ Fetching(i, cursor).hooks = {}
<1>1. Fetching(i, cursor) =
        [at |-> "fetch", visit |-> i, start |-> cursor, batch |-> {}, top |-> 0,
         event |-> None, hooks |-> {}, retries |-> {}]
  <2>1. PICK none : none = Idle
    OBVIOUS
  <2>2. none = [at |-> "idle", visit |-> 0, start |-> 0, batch |-> {}, top |-> 0,
                event |-> None, hooks |-> {}, retries |-> {}]
    BY <2>1 DEF Idle
  <2>3. Fetching(i, cursor) = [none EXCEPT !.at = "fetch", !.visit = i, !.start = cursor]
    BY <2>1, Zenon DEF Fetching
  <2> QED BY <2>2, <2>3
<1>2. i \in 0 .. Len(ContractIds) /\ 0 \in 0 .. MaxLedger
  OBVIOUS
<1> QED BY <1>1, <1>2 DEF PollState

LEMMA ProceedType ==
  ASSUME IInv, NEW p \in Polls, NEW cursor \in 0 .. MaxLedger
  PROVE  /\ Proceed(p, cursor) \in PollState
         /\ Proceed(p, cursor).at # "dispatch"
         /\ Proceed(p, cursor).batch = {} /\ Proceed(p, cursor).retries \subseteq Kept
         /\ Proceed(p, cursor).hooks = {}
<1>0. Len(ContractIds) \in Nat /\ poll[p].visit \in 0 .. Len(ContractIds)
  BY DEF IInv, TypeOK, PollState
<1>1. CASE poll[p].visit < Len(ContractIds)
  <2>1. poll[p].visit + 1 \in 1 .. Len(ContractIds)
    BY <1>0, <1>1
  <2>2. Proceed(p, cursor) = Fetching(poll[p].visit + 1, cursor)
    BY <1>1 DEF Proceed
  <2> QED BY <2>1, <2>2, FetchingType
<1>2. CASE ~(poll[p].visit < Len(ContractIds))
  <2>1. Retriable \subseteq Kept /\ Kept \subseteq DeliveryIds
    BY DEF Retriable, IInv, TypeOK
  <2>2. Proceed(p, cursor) =
          [at |-> "retry", visit |-> 0, start |-> 0, batch |-> {}, top |-> 0,
           event |-> None, hooks |-> {}, retries |-> Retriable]
    BY <1>2 DEF Proceed, Idle
  <2>3. 0 \in 0 .. Len(ContractIds) /\ 0 \in 0 .. MaxLedger
    BY <1>0
  <2> QED BY <2>1, <2>2, <2>3 DEF PollState
<1> QED BY <1>1, <1>2

LEMMA StartPollStep ==
  ASSUME IInv, NEW p \in Polls, StartPoll(p)
  PROVE  IInv'
<1>1. lastLedger \in 0 .. MaxLedger /\ 1 \in 1 .. Len(ContractIds)
  BY DEF IInv, TypeOK
<1>2. CursorWasIndexed'
  BY CursorStays DEF StartPoll
<1>3. poll' = [poll EXCEPT ![p] = Fetching(1, lastLedger)]
      /\ UNCHANGED <<webhookVars, chainVars, lastLedger, events, restarts>>
  BY DEF StartPoll
<1> QED BY <1>1, <1>2, <1>3, FetchingType, PollStepAlone DEF IInv, TypeOK

LEMMA FetchNothingStep ==
  ASSUME IInv, NEW p \in Polls, FetchNothing(p)
  PROVE  IInv'
<1>1. lastLedger \in 0 .. MaxLedger
  BY DEF IInv, TypeOK
<1>2. CursorWasIndexed'
  BY CursorStays DEF FetchNothing
<1>3. poll' = [poll EXCEPT ![p] = Proceed(p, lastLedger)]
      /\ UNCHANGED <<webhookVars, chainVars, lastLedger, events, restarts>>
  BY DEF FetchNothing, AfterNothing
<1> QED BY <1>1, <1>2, <1>3, ProceedType, PollStepAlone DEF IInv, TypeOK

LEMMA FetchEventsStep ==
  ASSUME IInv, NEW p \in Polls, FetchEvents(p)
  PROVE  IInv'
<1>1. PICK page : page = FirstPage(Since(Visited(p), poll[p].start))
  OBVIOUS
<1>2. page # {} /\ page \subseteq emitted /\ page \subseteq EventIds
  BY <1>1 DEF FetchEvents, FirstPage, Since, IInv, TypeOK
<1>3. PICK e \in page : LedgerOf(e) = LastLedgerOf(page)
  BY <1>2, LastLedgerIsOfPage
<1>4. LastLedgerOf(page) \in 0 .. MaxLedger
  BY <1>2, <1>3, LedgerOfEvent
<1>5. PICK to : to = [poll[p] EXCEPT !.at = "dispatch", !.batch = page,
                                     !.top = LastLedgerOf(page)]
  OBVIOUS
<1>6. poll[p] \in PollState
  BY DEF IInv, TypeOK
<1>7. /\ to \in PollState
      /\ to.batch = page /\ to.top = LastLedgerOf(page)
      /\ to.retries = poll[p].retries
      /\ to.hooks = poll[p].hooks /\ to.event = poll[p].event
  BY <1>2, <1>4, <1>5, <1>6 DEF PollState
<1>8. poll' = [poll EXCEPT ![p] = to]
      /\ UNCHANGED <<webhookVars, chainVars, lastLedger, events, restarts>>
  BY <1>1, <1>5 DEF FetchEvents
<1>9. CursorWasIndexed'
  BY <1>8, CursorStays
<1>10. to.retries \subseteq Kept /\ (to.hooks # {} => to.event \in EventIds)
  BY <1>7 DEF IInv, PollsHoldKept
<1> QED BY <1>2, <1>3, <1>7, <1>8, <1>9, <1>10, PollStepAlone DEF IInv, TypeOK

LEMMA IndexEventStep ==
  ASSUME IInv, NEW p \in Polls, IndexEvent(p)
  PROVE  IInv'
<1>1. PICK e \in poll[p].batch :
        /\ events' = events \cup {e}
        /\ poll' = [poll EXCEPT ![p].batch = @ \ {e}, ![p].event = e,
                                ![p].hooks = Matching(parseEventType(e))]
  BY DEF IndexEvent
<1>2. e \in emitted /\ e \in EventIds
  BY DEF IInv, PollsHoldKept, TypeOK
<1>3. PICK hooks : hooks = Matching(parseEventType(e))
  OBVIOUS
<1>4. hooks \subseteq Hooks
  BY <1>3 DEF Matching
<1>5. PICK to : to = [poll[p] EXCEPT !.batch = @ \ {e}, !.event = e, !.hooks = hooks]
  OBVIOUS
<1>6. poll[p] \in PollState
  BY DEF IInv, TypeOK
<1>7. /\ to \in PollState
      /\ to.batch = poll[p].batch \ {e} /\ to.top = poll[p].top /\ to.at = poll[p].at
      /\ to.retries = poll[p].retries /\ to.event = e
  BY <1>2, <1>4, <1>5, <1>6 DEF PollState
<1>8. poll' = [poll EXCEPT ![p] = to]
  BY <1>1, <1>3, <1>5
<1>9. UNCHANGED <<webhookVars, chainVars, lastLedger, restarts>>
  BY DEF IndexEvent
<1>10. CursorWasIndexed'
  BY <1>1, <1>9, CursorStays
<1>11. to.batch \subseteq emitted /\ to.retries \subseteq Kept
  BY <1>7 DEF IInv, PollsHoldKept
<1>12. to.at = "dispatch" => \E f \in to.batch \cup events' : LedgerOf(f) = to.top
  BY <1>1, <1>7 DEF IInv, TopIsHeld
<1>13. events \subseteq events' /\ events' \subseteq emitted
  BY <1>1, <1>2 DEF IInv, TypeOK
<1>14. lastLedger' \in 0 .. MaxLedger
  BY <1>9 DEF IInv, TypeOK
<1> QED BY <1>2, <1>7, <1>8, <1>9, <1>10, <1>11, <1>12, <1>13, <1>14, PollStepAlone

(* The cursor moves to the ledger of an event that is stored by now.        *)
LEMMA FinishContractStep ==
  ASSUME IInv, NEW p \in Polls, FinishContract(p)
  PROVE  IInv'
<1>1. /\ poll[p].at = "dispatch" /\ poll[p].batch = {}
      /\ lastLedger' = poll[p].top
      /\ poll' = [poll EXCEPT ![p] = Proceed(p, poll[p].top)]
      /\ UNCHANGED <<webhookVars, chainVars, events, restarts>>
  BY DEF FinishContract, Dispatching
<1>2. poll[p].top \in 0 .. MaxLedger
  BY DEF IInv, TypeOK, PollState
<1>3. CursorWasIndexed'
  BY <1>1 DEF IInv, TopIsHeld, CursorWasIndexed
<1> QED BY <1>1, <1>2, <1>3, ProceedType, PollStepAlone DEF IInv, TypeOK

LEMMA EndPollStep ==
  ASSUME IInv, NEW p \in Polls, EndPoll(p)
  PROVE  IInv'
<1>1. /\ Idle \in PollState /\ Idle.at = "idle" /\ Idle.batch = {}
      /\ Idle.retries = {} /\ Idle.hooks = {}
  BY DEF Idle, PollState
<1>2. poll' = [poll EXCEPT ![p] = Idle]
      /\ UNCHANGED <<webhookVars, chainVars, lastLedger, events, restarts>>
  BY DEF EndPoll
<1>3. CursorWasIndexed'
  BY <1>2, CursorStays
<1> QED BY <1>1, <1>2, <1>3, PollStepAlone DEF IInv, TypeOK

(* A step that takes a webhook or a retry from a poll and may post.         *)
LEMMA PollStepPosting ==
  ASSUME IInv, NEW p \in Polls, NEW to \in PollState,
         poll' = [poll EXCEPT ![p] = to],
         UNCHANGED <<chainVars, lastLedger, events, restarts>>,
         DeliveriesOK,
         to.at = poll[p].at, to.top = poll[p].top, to.event = poll[p].event,
         to.batch = poll[p].batch, to.retries \subseteq poll[p].retries,
         to.hooks \subseteq poll[p].hooks
  PROVE  IInv'
<1> USE DEF chainVars
<1>1. poll'[p] = to /\ \A q \in Polls : q # p => poll'[q] = poll[q]
  BY DEF IInv, TypeOK
<1>2. TypeOK'
  BY DEF IInv, TypeOK, DeliveriesOK
<1>3. PollsHoldKept'
  <2> SUFFICES ASSUME NEW q \in Polls
               PROVE  /\ poll'[q].batch \subseteq emitted'
                      /\ poll'[q].retries \subseteq Kept'
                      /\ poll'[q].hooks # {} => poll'[q].event \in EventIds
    BY DEF PollsHoldKept
  <2>1. CASE q = p
    BY <1>1, <2>1 DEF IInv, PollsHoldKept, DeliveriesOK
  <2>2. CASE q # p
    BY <1>1, <2>2 DEF IInv, PollsHoldKept, DeliveriesOK
  <2> QED BY <2>1, <2>2
<1>4. TopIsHeld'
  <2> SUFFICES ASSUME NEW q \in Polls, poll'[q].at = "dispatch"
               PROVE  \E e \in poll'[q].batch \cup events' : LedgerOf(e) = poll'[q].top
    BY DEF TopIsHeld
  <2>1. CASE q = p
    BY <1>1, <2>1 DEF IInv, TopIsHeld
  <2>2. CASE q # p
    BY <1>1, <2>2 DEF IInv, TopIsHeld
  <2> QED BY <2>1, <2>2
<1>5. CursorWasIndexed'
  BY DEF IInv, CursorWasIndexed
<1> QED BY <1>2, <1>3, <1>4, <1>5 DEF IInv, DeliveriesOK

LEMMA NoPostIsSound ==
  ASSUME IInv, UNCHANGED webhookVars
  PROVE  DeliveriesOK
BY DEF IInv, TypeOK, DeliveriesOK, webhookVars, Kept, NothingStranded, Exhausted

LEMMA DeliverEventStep ==
  ASSUME IInv, NEW p \in Polls, DeliverEvent(p)
  PROVE  IInv'
<1>1. PICK h \in poll[p].hooks :
        LET free == {d \in {<<poll[p].event, h, i>> : i \in 1 .. Copies} : Free(d)} IN
        /\ Dispatching(p)
        /\ poll' = [poll EXCEPT ![p].hooks = @ \ {h}]
        /\ IF free # {} THEN Post(p, CHOOSE d \in free : TRUE, NewDelivery)
                        ELSE UNCHANGED webhookVars
        /\ UNCHANGED <<chainVars, lastLedger, events, restarts>>
  BY DEF DeliverEvent
<1>2. PICK free : free = {d \in {<<poll[p].event, h, i>> : i \in 1 .. Copies} : Free(d)}
  OBVIOUS
<1>3. poll[p] \in PollState /\ h \in Hooks /\ poll[p].event \in EventIds
  BY DEF IInv, TypeOK, PollState, PollsHoldKept
<1>4. free \subseteq DeliveryIds
  BY <1>2, <1>3 DEF DeliveryIds
<1>5. DeliveriesOK
  <2>1. CASE free # {}
    <3>1. PICK d \in free : Post(p, d, NewDelivery)
      BY <1>1, <1>2, <2>1
    <3>2. posting[p] = None
      BY <1>1 DEF Dispatching
    <3> QED BY <1>4, <3>1, <3>2, NewDeliveryType, PostIsSound DEF IInv
  <2>2. CASE free = {}
    BY <1>1, <1>2, <2>2, NoPostIsSound
  <2> QED BY <2>1, <2>2
<1>6. PICK to : to = [poll[p] EXCEPT !.hooks = @ \ {h}]
  OBVIOUS
<1>7. /\ to \in PollState /\ to.hooks \subseteq poll[p].hooks
      /\ to.at = poll[p].at /\ to.top = poll[p].top /\ to.event = poll[p].event
      /\ to.batch = poll[p].batch /\ to.retries = poll[p].retries
  BY <1>3, <1>6 DEF PollState
<1>8. poll' = [poll EXCEPT ![p] = to]
      /\ UNCHANGED <<chainVars, lastLedger, events, restarts>>
  BY <1>1, <1>6
<1> QED BY <1>5, <1>7, <1>8, PollStepPosting

LEMMA RetryDeliveryStep ==
  ASSUME IInv, NEW p \in Polls, RetryDelivery(p)
  PROVE  IInv'
<1>1. PICK d \in poll[p].retries :
        /\ poll' = [poll EXCEPT ![p].retries = @ \ {d}]
        /\ IF Registered(HookOf(d)) THEN Post(p, d, deliveries[d])
                                    ELSE UNCHANGED webhookVars
  BY DEF RetryDelivery
<1>2. posting[p] = None /\ UNCHANGED <<chainVars, lastLedger, events, restarts>>
  BY DEF RetryDelivery
<1>3. d \in Kept /\ d \in DeliveryIds /\ deliveries[d] \in Delivery
  BY DEF IInv, PollsHoldKept, TypeOK
<1>4. DeliveriesOK
  <2>1. CASE Registered(HookOf(d))
    BY <1>1, <1>2, <1>3, <2>1, PostIsSound DEF IInv
  <2>2. CASE ~Registered(HookOf(d))
    BY <1>1, <2>2, NoPostIsSound
  <2> QED BY <2>1, <2>2
<1>5. PICK to : to = [poll[p] EXCEPT !.retries = @ \ {d}]
  OBVIOUS
<1>6. poll[p] \in PollState
  BY DEF IInv, TypeOK
<1>7. /\ to \in PollState /\ to.hooks = poll[p].hooks
      /\ to.at = poll[p].at /\ to.top = poll[p].top /\ to.event = poll[p].event
      /\ to.batch = poll[p].batch /\ to.retries \subseteq poll[p].retries
  BY <1>5, <1>6 DEF PollState
<1>8. poll' = [poll EXCEPT ![p] = to]
  BY <1>1, <1>5
<1> QED BY <1>2, <1>4, <1>7, <1>8, PollStepPosting

-----------------------------------------------------------------------------
(* The chain, a restart, and the whole. *)

LEMMA CloseLedgerStep ==
  ASSUME IInv, CloseLedger
  PROVE  IInv'
<1>1. PICK es \in SUBSET {e \in EventIds : LedgerOf(e) = tip + 1} : emitted' = emitted \cup es
  BY DEF CloseLedger
<1>2. tip' \in 0 .. MaxLedger
  BY DEF CloseLedger, IInv, TypeOK
<1>3. UNCHANGED <<webhooks, deliveries, posting, lastLedger, events, poll, restarts>>
  BY DEF CloseLedger, webhookVars
<1>4. TypeOK'
  BY <1>1, <1>2, <1>3 DEF IInv, TypeOK, Kept
<1>5. PollsHoldKept'
  BY <1>1, <1>3 DEF IInv, PollsHoldKept, Kept
<1>6. NothingStranded' /\ TopIsHeld' /\ CursorWasIndexed'
  BY <1>3 DEF IInv, NothingStranded, TopIsHeld, CursorWasIndexed, Exhausted, Kept
<1> QED BY <1>4, <1>5, <1>6 DEF IInv

LEMMA RestartStep ==
  ASSUME IInv, Restart
  PROVE  IInv'
<1>1. /\ deliveries' = <<>> /\ posting' = [p \in Polls |-> None]
      /\ lastLedger' = 0 /\ events' = {} /\ poll' = [p \in Polls |-> Idle]
      /\ restarts' \in 0 .. MaxRestarts
      /\ UNCHANGED <<tip, emitted>>
  BY DEF Restart, LoseWebhooks, IInv, TypeOK, chainVars
<1>2. webhooks' \in [Hooks -> Webhook]
  BY DEF Restart, LoseWebhooks, IInv, TypeOK, Webhook
<1>3. Kept' = {}
  BY <1>1 DEF Kept
<1>4. /\ Idle \in PollState /\ Idle.at = "idle" /\ Idle.batch = {}
      /\ Idle.retries = {} /\ Idle.hooks = {}
  BY DEF Idle, PollState
<1>5. TypeOK'
  BY <1>1, <1>2, <1>3, <1>4 DEF IInv, TypeOK
<1>6. PollsHoldKept' /\ TopIsHeld'
  BY <1>1, <1>4 DEF PollsHoldKept, TopIsHeld
<1>7. NothingStranded' /\ CursorWasIndexed'
  BY <1>1, <1>3 DEF NothingStranded, CursorWasIndexed
<1> QED BY <1>5, <1>6, <1>7 DEF IInv

LEMMA NextIInv == IInv /\ [Next]_vars => IInv'
<1> SUFFICES ASSUME IInv, [Next]_vars PROVE IInv'
  OBVIOUS
<1>1. CASE CloseLedger
  BY <1>1, CloseLedgerStep
<1>2. CASE Restart
  BY <1>2, RestartStep
<1>3. ASSUME NEW p \in Polls, StartPoll(p) \/ FetchEvents(p) PROVE IInv'
  BY <1>3, StartPollStep, FetchEventsStep
<1>4. ASSUME NEW p \in Polls, PollStep(p) PROVE IInv'
  BY <1>4, FetchNothingStep, IndexEventStep, DeliverEventStep, FinishContractStep,
     RetryDeliveryStep, EndPollStep DEF PollStep
<1>5. ASSUME NEW p \in Polls, PostAnswered(p) PROVE IInv'
  <2>1. DeliveriesOK
    BY <1>5, SuccessIsSound, FailureIsSound DEF PostAnswered, IInv
  <2> QED BY <1>5, <2>1, DeliveryStep DEF PostAnswered
<1>6. ASSUME NEW h \in Hooks, Outside,
             (\E types \in Subscriptions : RegisterWebhook(h, types)) \/ DeleteWebhook(h)
      PROVE  IInv'
  BY <1>6, HookSteps
<1>7. ASSUME NEW d \in DeliveryIds, RetryFallsDue(d), Outside PROVE IInv'
  BY <1>7, RetryTimeStep
<1>8. CASE UNCHANGED vars
  BY <1>8 DEF vars, IInv, TypeOK, PollsHoldKept, NothingStranded, TopIsHeld,
              CursorWasIndexed, Kept, Exhausted
<1> QED BY <1>1, <1>2, <1>3, <1>4, <1>5, <1>6, <1>7, <1>8 DEF Next

LEMMA Invariant == Spec => []IInv
BY InitIInv, NextIInv, PTL DEF Spec

(* Every variable keeps its type, and what is stored was emitted.           *)
THEOREM TypeCorrect == Spec => []TypeOK
<1>1. IInv => TypeOK
  BY DEF IInv
<1> QED BY <1>1, Invariant, PTL

(* No delivery is stranded (NothingStranded): a pending one is being posted *)
(* or will be picked up by retryFailedDeliveries, however many polls        *)
(* overlap.                                                                 *)
THEOREM NoDeliveryIsStranded == Spec => []NothingStranded
<1>1. IInv => NothingStranded
  BY DEF IInv
<1> QED BY <1>1, Invariant, PTL

(* The cursor names a ledger of a stored event (CursorWasIndexed): a poll   *)
(* never asks for events from beyond what indexContractEvents has stored.   *)
THEOREM CursorIsIndexed == Spec => []CursorWasIndexed
<1>1. IInv => CursorWasIndexed
  BY DEF IInv
<1> QED BY <1>1, Invariant, PTL

-----------------------------------------------------------------------------
(* The limit of attempts.  A poll that has taken a delivery for its pass    *)
(* may post it once more: attempts made and passes that still hold it are   *)
(* bounded together.                                                        *)

Holders(d) == {p \in Polls : d \in poll[p].retries}

Budget ==
  \A d \in Kept :
    deliveries[d].attempts + Cardinality(Holders(d)) < MAX_RETRIES + Cardinality(Polls)

LEMMA HoldersCount ==
  ASSUME NEW S, S \subseteq Polls
  PROVE  IsFiniteSet(S) /\ Cardinality(S) \in Nat /\ Cardinality(S) <= Cardinality(Polls)
         /\ Cardinality(Polls) \in Nat
BY FS_Subset, FS_CardinalityType

LEMMA FewerHolders ==
  ASSUME NEW T, T \subseteq Polls, NEW S, S \subseteq T
  PROVE  Cardinality(S) <= Cardinality(T)
BY HoldersCount, FS_Subset

(* No attempt is counted, and whoever takes a delivery finds it retriable.  *)
LEMMA NothingCounted ==
  ASSUME IInv, Budget, Kept' = Kept,
         \A d \in Kept :
           /\ deliveries'[d].attempts = deliveries[d].attempts
           /\ Holders(d)' \subseteq Holders(d) \/ deliveries[d].attempts < MAX_RETRIES
  PROVE  Budget'
<1> SUFFICES ASSUME NEW d \in Kept
             PROVE  deliveries[d].attempts + Cardinality(Holders(d)')
                      < MAX_RETRIES + Cardinality(Polls)
  BY DEF Budget
<1>1. Holders(d) \subseteq Polls /\ Holders(d)' \subseteq Polls
  BY DEF Holders
<1>2. deliveries[d].attempts \in Nat
  BY DEF IInv, TypeOK, Delivery
<1>3. CASE Holders(d)' \subseteq Holders(d)
  <2>1. Cardinality(Holders(d)') <= Cardinality(Holders(d))
    BY <1>1, <1>3, FewerHolders
  <2> QED BY <1>1, <1>2, <2>1, HoldersCount DEF Budget
<1>4. CASE deliveries[d].attempts < MAX_RETRIES
  BY <1>1, <1>2, <1>4, HoldersCount
<1> QED BY <1>3, <1>4

(* A poll that changes and posts nothing.                                   *)
LEMMA PollAlone ==
  ASSUME IInv, Budget, UNCHANGED deliveries, NEW p \in Polls, NEW to,
         poll' = [poll EXCEPT ![p] = to],
         to.retries \subseteq poll[p].retries \cup Retriable
  PROVE  Budget'
<1>1. poll'[p] = to /\ \A q \in Polls : q # p => poll'[q] = poll[q]
  BY DEF IInv, TypeOK
<1>2. ASSUME NEW d \in Kept
      PROVE  Holders(d)' \subseteq Holders(d) \/ deliveries[d].attempts < MAX_RETRIES
  <2>1. CASE d \in Retriable
    BY <2>1 DEF Retriable
  <2>2. CASE d \notin Retriable
    BY <1>1, <2>2 DEF Holders
  <2> QED BY <2>1, <2>2
<1> QED BY <1>2, NothingCounted DEF Kept

LEMMA ProceedTakesRetriable ==
  ASSUME NEW p, NEW cursor
  PROVE  Proceed(p, cursor).retries \subseteq Retriable
<1>1. CASE poll[p].visit < Len(ContractIds)
  BY <1>1 DEF Proceed, Fetching, Idle
<1>2. CASE ~(poll[p].visit < Len(ContractIds))
  BY <1>2 DEF Proceed, Idle
<1> QED BY <1>1, <1>2

LEMMA QuietPollBudget ==
  ASSUME IInv, Budget, NEW p \in Polls,
         \/ StartPoll(p) \/ FetchEvents(p) \/ FetchNothing(p) \/ IndexEvent(p)
         \/ FinishContract(p) \/ EndPoll(p)
  PROVE  Budget'
<1>0. poll[p] \in PollState
  BY DEF IInv, TypeOK
<1>1. UNCHANGED deliveries
  BY DEF StartPoll, FetchEvents, FetchNothing, IndexEvent, FinishContract, EndPoll, webhookVars
<1>2. CASE StartPoll(p)
  <2>1. Fetching(1, lastLedger).retries = {}
    BY DEF Fetching, Idle
  <2> QED BY <1>1, <1>2, <2>1, PollAlone DEF StartPoll
<1>3. CASE FetchEvents(p)
  <2>1. PICK to : to = [poll[p] EXCEPT !.at = "dispatch",
                          !.batch = FirstPage(Since(Visited(p), poll[p].start)),
                          !.top = LastLedgerOf(FirstPage(Since(Visited(p), poll[p].start)))]
    OBVIOUS
  <2>2. to.retries = poll[p].retries
    BY <1>0, <2>1 DEF PollState
  <2>3. poll' = [poll EXCEPT ![p] = to]
    BY <1>3, <2>1 DEF FetchEvents
  <2> QED BY <1>1, <2>2, <2>3, PollAlone
<1>4. CASE FetchNothing(p)
  BY <1>1, <1>4, ProceedTakesRetriable, PollAlone DEF FetchNothing, AfterNothing
<1>5. CASE IndexEvent(p)
  <2>1. PICK e : poll' = [poll EXCEPT ![p].batch = @ \ {e}, ![p].event = e,
                                      ![p].hooks = Matching(parseEventType(e))]
    BY <1>5 DEF IndexEvent
  <2>2. PICK to : to = [poll[p] EXCEPT !.batch = @ \ {e}, !.event = e,
                                       !.hooks = Matching(parseEventType(e))]
    OBVIOUS
  <2>3. to.retries = poll[p].retries /\ poll' = [poll EXCEPT ![p] = to]
    BY <1>0, <2>1, <2>2 DEF PollState
  <2> QED BY <1>1, <2>3, PollAlone
<1>6. CASE FinishContract(p)
  BY <1>1, <1>6, ProceedTakesRetriable, PollAlone DEF FinishContract
<1>7. CASE EndPoll(p)
  <2>1. Idle.retries = {}
    BY DEF Idle
  <2> QED BY <1>1, <1>7, <2>1, PollAlone DEF EndPoll
<1> QED BY <1>2, <1>3, <1>4, <1>5, <1>6, <1>7

(* A delivery made anew is in no poll's hands.                              *)
LEMMA DeliverEventBudget ==
  ASSUME IInv, Budget, NEW p \in Polls, DeliverEvent(p)
  PROVE  Budget'
<1>1. PICK h \in poll[p].hooks :
        LET free == {d \in {<<poll[p].event, h, i>> : i \in 1 .. Copies} : Free(d)} IN
        /\ poll' = [poll EXCEPT ![p].hooks = @ \ {h}]
        /\ IF free # {} THEN Post(p, CHOOSE d \in free : TRUE, NewDelivery)
                        ELSE UNCHANGED webhookVars
  BY DEF DeliverEvent
<1>2. PICK free : free = {d \in {<<poll[p].event, h, i>> : i \in 1 .. Copies} : Free(d)}
  OBVIOUS
<1>3. \A d : Holders(d)' = Holders(d)
  <2>1. \A q \in Polls : poll'[q].retries = poll[q].retries
    BY <1>1 DEF IInv, TypeOK, PollState
  <2> QED BY <2>1 DEF Holders
<1>4. CASE free = {}
  <2>1. UNCHANGED deliveries
    BY <1>1, <1>2, <1>4 DEF webhookVars
  <2> QED BY <1>3, <2>1, NothingCounted DEF Kept
<1>5. CASE free # {}
  <2>1. PICK d \in free : Post(p, d, NewDelivery)
    BY <1>1, <1>2, <1>5
  <2>2. /\ Kept' = Kept \cup {d} /\ deliveries'[d].attempts = 1
        /\ \A c \in Kept : c # d => deliveries'[c] = deliveries[c]
    BY <2>1 DEF Post, Kept, Attempted, NewDelivery
  <2>3. ASSUME d \in Kept PROVE Holders(d) = {}
    BY <1>2, <2>1, <2>3 DEF Free, InHand, Holders
  <2>4. ASSUME d \notin Kept PROVE Holders(d) = {}
    BY <2>4 DEF IInv, PollsHoldKept, Holders
  <2>5. Cardinality(Holders(d)') = 0
    BY <1>3, <2>3, <2>4, FS_EmptySet
  <2>6. Cardinality(Polls) \in Nat \ {0}
    BY FS_CardinalityType, FS_EmptySet
  <2>7. deliveries'[d].attempts + Cardinality(Holders(d)') < MAX_RETRIES + Cardinality(Polls)
    BY <2>2, <2>5, <2>6
  <2> QED BY <1>3, <2>2, <2>7 DEF Budget
<1> QED BY <1>4, <1>5

(* A poll that retries posts a delivery it held and holds it no longer.     *)
LEMMA RetryDeliveryBudget ==
  ASSUME IInv, Budget, NEW p \in Polls, RetryDelivery(p)
  PROVE  Budget'
<1>1. PICK d \in poll[p].retries :
        /\ poll' = [poll EXCEPT ![p].retries = @ \ {d}]
        /\ IF Registered(HookOf(d)) THEN Post(p, d, deliveries[d])
                                    ELSE UNCHANGED webhookVars
  BY DEF RetryDelivery
<1>2. d \in Kept
  BY DEF IInv, PollsHoldKept
<1>3. /\ poll'[p].retries = poll[p].retries \ {d}
      /\ \A q \in Polls : q # p => poll'[q] = poll[q]
  BY <1>1 DEF IInv, TypeOK, PollState
<1>4. Holders(d)' = Holders(d) \ {p} /\ p \in Holders(d)
  BY <1>3 DEF Holders
<1>5. \A c : c # d => Holders(c)' = Holders(c)
  BY <1>3 DEF Holders
<1>6. CASE ~Registered(HookOf(d))
  <2>1. UNCHANGED deliveries
    BY <1>1, <1>6 DEF webhookVars
  <2>2. \A c : Holders(c)' \subseteq Holders(c)
    BY <1>4, <1>5
  <2> QED BY <2>1, <2>2, NothingCounted DEF Kept
<1>7. CASE Registered(HookOf(d))
  <2>1. /\ Kept' = Kept /\ deliveries'[d] = Attempted(deliveries[d])
        /\ \A c \in Kept : c # d => deliveries'[c] = deliveries[c]
    BY <1>1, <1>2, <1>7 DEF Post, Kept
  <2>2. deliveries[d].attempts \in Nat /\ deliveries'[d].attempts = deliveries[d].attempts + 1
    BY <1>2, <2>1 DEF IInv, TypeOK, Delivery, Attempted
  <2>3. Holders(d) \subseteq Polls
    BY DEF Holders
  <2>4. Cardinality(Holders(d)') = Cardinality(Holders(d)) - 1
    BY <1>4, <2>3, HoldersCount, FS_RemoveElement
  <2>5. deliveries'[d].attempts + Cardinality(Holders(d)') < MAX_RETRIES + Cardinality(Polls)
    BY <1>2, <2>2, <2>3, <2>4, HoldersCount DEF Budget
  <2> QED BY <1>5, <2>1, <2>5 DEF Budget
<1> QED BY <1>6, <1>7

(* Nothing of the polls changes, and no attempt is counted.                 *)
LEMMA OutsideBudget ==
  ASSUME IInv, Budget, UNCHANGED poll, Kept' = Kept,
         \A d \in Kept : deliveries'[d].attempts = deliveries[d].attempts
  PROVE  Budget'
BY NothingCounted DEF Holders

LEMMA AnswerBudget ==
  ASSUME IInv, Budget, NEW p \in Polls, PostAnswered(p)
  PROVE  Budget'
<1>1. UNCHANGED poll
  BY DEF PostAnswered, Outside
<1>2. CASE PostSucceeds(p)
  <2>1. Kept' = Kept /\ \A d \in Kept : deliveries'[d].attempts = deliveries[d].attempts
    BY <1>2 DEF PostSucceeds, IInv, TypeOK, Delivery, Kept
  <2> QED BY <1>1, <2>1, OutsideBudget
<1>3. CASE PostFails(p)
  <2>1. PICK f : f = posting[p] /\ deliveries' = [deliveries EXCEPT ![f] = AfterFailure(f)]
    BY <1>3 DEF PostFails
  <2>2. f \in Kept => AfterFailure(f).attempts = deliveries[f].attempts
    BY DEF AfterFailure, IInv, TypeOK, Delivery
  <2>3. Kept' = Kept /\ \A d \in Kept : deliveries'[d].attempts = deliveries[d].attempts
    BY <2>1, <2>2 DEF Kept
  <2> QED BY <1>1, <2>3, OutsideBudget
<1> QED BY <1>2, <1>3 DEF PostAnswered

LEMMA NextBudget == IInv /\ Budget /\ [Next]_vars => Budget'
<1> SUFFICES ASSUME IInv, Budget, [Next]_vars PROVE Budget'
  OBVIOUS
<1>1. CASE CloseLedger \/ UNCHANGED vars
  <2>1. UNCHANGED <<deliveries, poll>>
    BY <1>1 DEF CloseLedger, webhookVars, vars
  <2> QED BY <2>1, OutsideBudget DEF Kept
<1>2. CASE Restart
  <2>1. Kept' = {}
    BY <1>2 DEF Restart, LoseWebhooks, Kept
  <2> QED BY <2>1 DEF Budget
<1>3. ASSUME NEW p \in Polls, StartPoll(p) \/ FetchEvents(p) PROVE Budget'
  BY <1>3, QuietPollBudget
<1>4. ASSUME NEW p \in Polls, PollStep(p) PROVE Budget'
  BY <1>4, QuietPollBudget, DeliverEventBudget, RetryDeliveryBudget DEF PollStep
<1>5. ASSUME NEW p \in Polls, PostAnswered(p) PROVE Budget'
  BY <1>5, AnswerBudget
<1>6. ASSUME NEW h \in Hooks, Outside,
             (\E types \in Subscriptions : RegisterWebhook(h, types)) \/ DeleteWebhook(h)
      PROVE  Budget'
  <2>1. UNCHANGED <<deliveries, poll>>
    BY <1>6 DEF RegisterWebhook, DeleteWebhook, Outside
  <2> QED BY <2>1, OutsideBudget DEF Kept
<1>7. ASSUME NEW d \in DeliveryIds, RetryFallsDue(d), Outside PROVE Budget'
  <2>1. Kept' = Kept /\ \A c \in Kept : deliveries'[c].attempts = deliveries[c].attempts
    BY <1>7 DEF RetryFallsDue, IInv, TypeOK, Delivery, Kept
  <2> QED BY <1>7, <2>1, OutsideBudget DEF Outside
<1> QED BY <1>1, <1>2, <1>3, <1>4, <1>5, <1>6, <1>7 DEF Next

(* A delivery is attempted fewer than MAX_RETRIES + |Polls| times           *)
(* (AttemptsBounded): overlapping passes of retryFailedDeliveries exceed    *)
(* the limit by at most one attempt each.                                   *)
THEOREM AttemptsAreBounded == Spec => []AttemptsBounded
<1>1. Init => Budget
  BY DEF Init, WebhooksInit, Budget, Kept
<1>2. IInv /\ Budget => AttemptsBounded
  <2> SUFFICES ASSUME IInv, Budget, NEW d \in Kept
               PROVE  deliveries[d].attempts < MAX_RETRIES + Cardinality(Polls)
    BY DEF AttemptsBounded
  <2>1. Holders(d) \subseteq Polls /\ deliveries[d].attempts \in Nat
    BY DEF Holders, IInv, TypeOK, Delivery
  <2> QED BY <2>1, HoldersCount DEF Budget
<1> QED BY <1>1, <1>2, NextBudget, Invariant, PTL DEF Spec

-----------------------------------------------------------------------------
(* A node that does not serve ledger 0. *)

(* Nothing was read: every request starts at 0, and none has been answered. *)
NothingRead ==
  /\ lastLedger = 0 /\ events = {}
  /\ \A p \in Polls : poll[p].start = 0 /\ poll[p].at # "dispatch"

LEMMA UnreadPollStep ==
  ASSUME FirstServed > 0, IInv, NothingRead,
         NEW p \in Polls, StartPoll(p) \/ FetchEvents(p) \/ PollStep(p)
  PROVE  NothingRead'
<1>0. /\ poll \in [Polls -> PollState]
      /\ lastLedger = 0 /\ poll[p].start = 0 /\ poll[p].at # "dispatch"
  BY DEF IInv, TypeOK, NothingRead
<1>1. ~FetchEvents(p)
  BY <1>0, IndexerAssumption DEF FetchEvents
<1>2. ~(IndexEvent(p) \/ DeliverEvent(p) \/ FinishContract(p))
  BY <1>0 DEF IndexEvent, DeliverEvent, FinishContract, Dispatching
<1>3. ASSUME NEW q, q.start = 0, q.at # "dispatch", poll' = [poll EXCEPT ![p] = q],
             UNCHANGED <<lastLedger, events>>
      PROVE  NothingRead'
  BY <1>0, <1>3 DEF NothingRead
<1>4. CASE StartPoll(p)
  BY <1>0, <1>3, <1>4 DEF StartPoll, Fetching, Idle
<1>5. CASE FetchNothing(p)
  <2>1. AfterNothing(p).start = 0 /\ AfterNothing(p).at # "dispatch"
    BY <1>0 DEF AfterNothing, Proceed, Fetching, Idle
  <2> QED BY <1>3, <1>5, <2>1 DEF FetchNothing
<1>6. CASE RetryDelivery(p)
  BY <1>0, <1>6 DEF RetryDelivery, NothingRead
<1>7. CASE EndPoll(p)
  BY <1>3, <1>7 DEF EndPoll, Idle
<1> QED BY <1>1, <1>2, <1>4, <1>5, <1>6, <1>7 DEF PollStep

LEMMA UnreadStep ==
  ASSUME FirstServed > 0, IInv, NothingRead, [Next]_vars
  PROVE  NothingRead'
<1>1. CASE UNCHANGED <<lastLedger, events, poll>>
  BY <1>1 DEF NothingRead
<1>2. CASE Restart
  BY <1>2 DEF Restart, NothingRead, Idle
<1>3. CASE CloseLedger \/ UNCHANGED vars \/ Outside \/ \E p \in Polls : PostAnswered(p)
  BY <1>1, <1>3 DEF CloseLedger, vars, Outside, PostAnswered
<1> QED BY <1>2, <1>3, UnreadPollStep DEF Next

(* The cursor leaves ledger 0 only with a batch, and a batch only comes of a *)
(* request that the node accepts: where the node refuses start ledger 0,    *)
(* the feed stays empty for ever, however often the API polls or restarts.  *)
THEOREM RefusedStartNeverFeeds ==
  ASSUME FirstServed > 0
  PROVE  Spec => [](events = {} /\ lastLedger = 0)
<1>1. Init => NothingRead
  BY DEF Init, NothingRead, Idle
<1>2. IInv /\ NothingRead /\ [Next]_vars => NothingRead'
  BY UnreadStep
<1>3. NothingRead => events = {} /\ lastLedger = 0
  BY DEF NothingRead
<1> QED BY <1>1, <1>2, <1>3, Invariant, PTL DEF Spec

-----------------------------------------------------------------------------
(* A ledger that fills a page. *)

(* Requests, batches, feed and cursor stay within the first n ledgers.      *)
Within(n) ==
  /\ lastLedger <= n
  /\ \A e \in events : LedgerOf(e) <= n
  /\ \A p \in Polls : /\ poll[p].start <= n /\ poll[p].top <= n
                      /\ \A e \in poll[p].batch : LedgerOf(e) <= n

(* A request from within them returns nothing of later ledgers.             *)
PagesWithin(n) ==
  \A c \in Contracts, start \in 0..n : \A e \in FirstPage(Since(c, start)) : LedgerOf(e) <= n

(* A request that starts at a full ledger, or before it, has its page filled *)
(* by then.                                                                  *)
LEMMA FullLedgerEndsPage ==
  ASSUME emitted \subseteq EventIds, NEW c \in Contracts, NEW n \in 1..MaxLedger,
         FillsPage(c, n), NEW start \in 0..n, NEW e \in FirstPage(Since(c, start))
  PROVE  LedgerOf(e) <= n
<1> SUFFICES ASSUME LedgerOf(e) > n PROVE FALSE
  <2>1. e \in EventIds
    BY DEF FirstPage, Since
  <2> QED BY <2>1, LedgerOfEvent
<1> DEFINE full   == {f \in emitted : ContractOf(f) = c /\ LedgerOf(f) = n}
           before == {f \in Since(c, start) : Earlier(f, e)}
<1>1. full \subseteq before
  BY DEF Since, Earlier, LedgerOf
<1>2. IsFiniteSet(before)
  <2>1. before \subseteq EventIds
    BY DEF Since
  <2> QED BY <2>1, FinitelyManyEvents, FS_Subset
<1>3. Cardinality(before) < PageLimit
  BY DEF FirstPage
<1>4. Cardinality(full) >= PageLimit
  BY DEF FillsPage
<1> HIDE DEF full, before
<1>5. /\ IsFiniteSet(full) /\ Cardinality(full) <= Cardinality(before)
      /\ Cardinality(full) \in Nat /\ Cardinality(before) \in Nat
  BY <1>1, <1>2, FS_Subset, FS_CardinalityType
<1> QED BY <1>3, <1>4, <1>5

LEMMA PollStaysWithin ==
  ASSUME IInv, Len(ContractIds) = 1, NEW n \in 0..MaxLedger, Within(n), PagesWithin(n),
         NEW p \in Polls, StartPoll(p) \/ FetchEvents(p) \/ PollStep(p)
  PROVE  Within(n)'
<1>0. /\ poll \in [Polls -> PollState] /\ lastLedger <= n
      /\ poll[p].start <= n /\ poll[p].top <= n /\ poll[p].start \in Nat
      /\ \A e \in poll[p].batch : LedgerOf(e) <= n
  BY DEF IInv, TypeOK, PollState, Within
<1>1. ASSUME NEW to, poll' = [poll EXCEPT ![p] = to], to.start <= n, to.top <= n,
             \A e \in to.batch : LedgerOf(e) <= n, lastLedger' <= n,
             \A e \in events' : LedgerOf(e) <= n
      PROVE  Within(n)'
  BY <1>0, <1>1 DEF Within
<1>2. ASSUME NEW cursor, cursor <= n
      PROVE  /\ Proceed(p, cursor).start <= n /\ Proceed(p, cursor).top <= n
             /\ Proceed(p, cursor).batch = {}
  BY <1>2 DEF Proceed, Fetching, Idle
<1>3. CASE StartPoll(p)
  BY <1>0, <1>1, <1>3 DEF StartPoll, Fetching, Idle, Within
<1>4. CASE FetchEvents(p)
  <2> DEFINE page == FirstPage(Since(Visited(p), poll[p].start))
  <2>1. Visited(p) \in Contracts
    <3>1. PICK e \in page : e \in emitted /\ ContractOf(e) = Visited(p)
      BY <1>4 DEF FetchEvents, FirstPage, Since
    <3> QED BY <3>1 DEF ContractOf, IInv, TypeOK
  <2>2. \A e \in page : LedgerOf(e) <= n
    BY <1>0, <2>1 DEF PagesWithin
  <2>3. page \subseteq EventIds /\ page # {}
    BY <1>4 DEF FetchEvents, FirstPage, Since, IInv, TypeOK
  <2>4. /\ poll' = [poll EXCEPT ![p] = [poll[p] EXCEPT !.at = "dispatch", !.batch = page,
                                                       !.top = LastLedgerOf(page)]]
        /\ UNCHANGED <<lastLedger, events>>
    BY <1>0, <1>4 DEF FetchEvents
  <2> HIDE DEF page
  <2>5. LastLedgerOf(page) <= n
    BY <2>2, <2>3, LastLedgerIsOfPage
  <2> QED BY <1>0, <1>1, <2>2, <2>4, <2>5 DEF Within, PollState
<1>5. CASE FetchNothing(p)
  BY <1>0, <1>1, <1>2, <1>5 DEF FetchNothing, AfterNothing, Within
<1>6. CASE IndexEvent(p)
  <2>1. PICK e \in poll[p].batch :
          /\ events' = events \cup {e}
          /\ poll' = [poll EXCEPT ![p].batch = @ \ {e}, ![p].event = e,
                                  ![p].hooks = Matching(parseEventType(e))]
          /\ UNCHANGED lastLedger
    BY <1>6 DEF IndexEvent
  <2>2. \A f \in events' : LedgerOf(f) <= n
    BY <1>0, <2>1 DEF Within
  <2> QED BY <1>0, <2>1, <2>2 DEF Within, PollState
<1>7. CASE DeliverEvent(p)
  BY <1>0, <1>7 DEF DeliverEvent, Within, PollState
<1>8. CASE FinishContract(p)
  BY <1>0, <1>1, <1>2, <1>8 DEF FinishContract, Within
<1>9. CASE RetryDelivery(p)
  BY <1>0, <1>9 DEF RetryDelivery, Within, PollState
<1>10. CASE EndPoll(p)
  BY <1>0, <1>1, <1>10 DEF EndPoll, Idle, Within
<1> QED BY <1>3, <1>4, <1>5, <1>6, <1>7, <1>8, <1>9, <1>10 DEF PollStep

(* Everything is within the closed ledgers, and within each full one.       *)
StallInv ==
  /\ Within(tip) /\ \A e \in emitted : LedgerOf(e) <= tip
  /\ \A c \in Contracts, n \in 1..MaxLedger : FillsPage(c, n) => Within(n)

LEMMA StallStep ==
  ASSUME IInv, Len(ContractIds) = 1, StallInv, [Next]_vars
  PROVE  StallInv'
<1>0. tip \in 0..MaxLedger /\ emitted \subseteq EventIds
  BY DEF IInv, TypeOK
<1>1. \A c, d \in Contracts : c = d
  BY DEF Contracts
<1>2. PagesWithin(tip)
  BY <1>0 DEF PagesWithin, FirstPage, Since, StallInv
<1>3. ASSUME NEW c \in Contracts, NEW n \in 1..MaxLedger, FillsPage(c, n) PROVE PagesWithin(n)
  BY <1>0, <1>1, <1>3, FullLedgerEndsPage DEF PagesWithin
<1>4. ASSUME UNCHANGED chainVars, \A n \in 0..MaxLedger : Within(n) /\ PagesWithin(n) => Within(n)'
      PROVE  StallInv'
  <2>1. \A c, n : FillsPage(c, n)' <=> FillsPage(c, n)
    BY <1>4 DEF chainVars, FillsPage
  <2>2. Within(tip)' /\ \A e \in emitted' : LedgerOf(e) <= tip'
    BY <1>0, <1>2, <1>4 DEF chainVars, StallInv, Within
  <2>3. ASSUME NEW c \in Contracts, NEW n \in 1..MaxLedger, FillsPage(c, n)' PROVE Within(n)'
    BY <1>3, <1>4, <2>1, <2>3 DEF StallInv
  <2> QED BY <2>2, <2>3 DEF StallInv
<1>5. ASSUME UNCHANGED <<chainVars, lastLedger, events, poll>> PROVE StallInv'
  BY <1>4, <1>5 DEF Within
<1>6. CASE CloseLedger
  <2>1. PICK es \in SUBSET {e \in EventIds : LedgerOf(e) = tip + 1} :
          /\ tip' = tip + 1 /\ emitted' = emitted \cup es /\ tip < MaxLedger
          /\ UNCHANGED <<lastLedger, events, poll>>
    BY <1>6 DEF CloseLedger
  <2>2. ASSUME NEW n \in 0..MaxLedger, Within(n) PROVE Within(n)'
    BY <2>1, <2>2 DEF Within
  <2>3. Within(tip + 1)
    BY <1>0, LedgerOfEvent DEF StallInv, Within, IInv, TypeOK, PollState, PollsHoldKept
  <2>4. Within(tip)' /\ \A e \in emitted' : LedgerOf(e) <= tip'
    BY <1>0, <2>1, <2>3, LedgerOfEvent DEF StallInv, Within
  <2>5. ASSUME NEW c \in Contracts, NEW n \in 1..MaxLedger, FillsPage(c, n)' PROVE Within(n)'
    <3>1. CASE n <= tip
      <4>1. \A f \in es : LedgerOf(f) # n
        BY <1>0, <3>1
      <4>2. FillsPage(c, n)
        BY <2>1, <2>5, <4>1 DEF FillsPage
      <4> QED BY <2>2, <4>2 DEF StallInv
    <3>2. CASE n > tip
      <4>1. Within(n)
        BY <1>0, <3>2, LedgerOfEvent DEF StallInv, Within, IInv, TypeOK, PollState, PollsHoldKept
      <4> QED BY <2>2, <4>1
    <3> QED BY <1>0, <3>1, <3>2
  <2> QED BY <2>4, <2>5 DEF StallInv
<1>7. CASE Restart
  <2>1. \A n \in 0..MaxLedger : Within(n)'
    BY <1>7 DEF Restart, Within, Idle
  <2> QED BY <1>4, <1>7, <2>1 DEF Restart
<1>8. ASSUME NEW p \in Polls, StartPoll(p) \/ FetchEvents(p) \/ PollStep(p) PROVE StallInv'
  <2>1. UNCHANGED chainVars
    BY <1>8 DEF StartPoll, FetchEvents, PollStep, FetchNothing, IndexEvent, DeliverEvent,
           FinishContract, RetryDelivery, EndPoll
  <2> QED BY <1>4, <1>8, <2>1, PollStaysWithin
<1>9. CASE UNCHANGED vars \/ Outside \/ \E p \in Polls : PostAnswered(p)
  BY <1>5, <1>9 DEF vars, chainVars, Outside, PostAnswered
<1> QED BY <1>6, <1>7, <1>8, <1>9 DEF Next

(* Where one contract is configured, a ledger of its events that fills a    *)
(* page is the last of which anything is ever stored, in whatever order     *)
(* polls overlap, fail and restart: the inclusive cursor of                 *)
(* indexContractEvents and the limit of getContractEvents hold each other.  *)
THEOREM FullLedgerEndsFeed ==
  ASSUME Len(ContractIds) = 1
  PROVE  Spec => [](\A c \in Contracts, n \in 1..MaxLedger :
                      FillsPage(c, n) => \A e \in events : LedgerOf(e) <= n)
<1>1. Init => StallInv
  <2>1. Init => \A n \in Nat : Within(n)
    BY DEF Init, Within, Idle
  <2> QED BY <2>1 DEF Init, StallInv
<1>2. IInv /\ StallInv /\ [Next]_vars => StallInv'
  BY StallStep
<1>3. StallInv => \A c \in Contracts, n \in 1..MaxLedger :
                    FillsPage(c, n) => \A e \in events : LedgerOf(e) <= n
  BY DEF StallInv, Within
<1> QED BY <1>1, <1>2, <1>3, Invariant, PTL DEF Spec
=============================================================================

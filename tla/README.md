# CarbonChain in TLA+

TLA+ models of the CarbonChain contracts, of the API that serves them and of
the frontend, TLC runs over small instances of them, and TLAPS proofs of their
main invariants for every value of the constants. The source is the reference:
each definition that stands for code is listed in `PROJECT.json` (`map`) with
the lines it translates.

## 1. The system

CarbonChain issues, trades and retires carbon credits on Stellar/Soroban.

| Part | State it keeps | Operations | Talks to |
|---|---|---|---|
| **credit_registry** contract | admin, pending admin, pause flag, retirement contract, quorum; rosters of verifiers, issuers, methodologies, projects and services; credits with owner and status; signatures per credit; reputation and pending counters per verifier; project index, project-vintage slot; disputes; sessions and audit log; a nonce per address | 12 administrative calls; submit, approve_and_mint, flag, transfer, split, merge, expire, dispute, resolve_dispute, mark_retired; create_session, submit_credit_with_session | called by the two contracts below |
| **retirement** contract | admin, pause flag, nonces, retirement records, a list per account | retire, batch_retire, pause, admin hand-over, upgrade | `get_credit` and `mark_retired` of the registry, same transaction |
| **marketplace** contract | admin, pause flag, nonces, minimum price, offers, escrow records, a list per seller | create_offer, cancel_offer, cleanup_expired_offers, update_min_price, pause, upgrade | `get_credit`, `get_nonce`, `transfer_credit` of the registry, same transaction |
| **mrv_oracle** contract | admin, pause flag, oracles, nonces, latest reading and capped history per project | update_mrv_data, get_mrv_aggregate, register_oracle, pause, admin hand-over | `list_credits_by_project` of the registry |
| **API: submission** (`stellar`) | none of its own: the sequence number of the one account that signs is the chain's | load the account, simulate, sign and send, poll for the result | the contracts over RPC |
| **API: records** (`credits`, `retirement`, `common/cache`) | rows in memory, a cache in Redis with expiry | issue, retire, then save a row; read through cache, row and chain; verify a certificate | submission, Redis |
| **API: events** (`events`, `webhooks`) | one event cursor, stored events, webhooks and their deliveries, all in memory | a poll of the contracts' events every 30 s; delivery and retries; the webhooks controller | RPC, subscribers |
| **API: auth** (`auth`) | none: challenge and token are signed and carry their times | challenge, token | the wallet, over the frontend |
| **frontend: session** (`core/services`, `core/guards`) | wallet key, token, two state signals | login, logout, connect, guards | Freighter, API auth |
| **frontend: stores and pages** | lists of credits and offers that outlive the pages; per page a wizard, dialogs, busy flags | load, retire, register and remove verifiers, navigate | the API |
| scripts, shared | none | deployment and type declarations | - |

**What makes it hard.** A contract call is atomic: an error or a panic rolls
back everything, the consumed nonce and the effects of called contracts
included (and `overflow-checks` is on in the release profile). So inside the
contracts the difficulty is not a half-done call. It is the *order of calls* by
actors who do not know of each other - verifiers, issuers, owners, the admin and
three contracts writing one status field - together with derived data (indexes,
counters, slots, escrow records) that each call must keep in step. In the API
and the frontend it is the opposite: every `await` is a point where the chain,
another poll or another request moves on, and steps after the on-chain call may
fail alone.

**What makes each part correct.**

- *Registry:* a retired credit never comes back; tonnes are neither created nor
  destroyed by splits and merges; minting takes a quorum of distinct verifiers;
  custody moves only by its owner's nonce; indexes and counters agree with the
  credits; a pause stops custody and signatures; nothing happens before
  `initialize` and the quorum is fixed by it.
- *Sessions:* counts and log agree, log entries are true and never change, an id
  under which something was done is not handed out again.
- *Retirement:* one record per retired credit, in the right account's list,
  never rewritten; no retirement without record; each pause stops both halves.
- *Marketplace:* what is on offer is in escrow, and escrow returns only to the
  seller, once.
- *Oracle:* the history is the recent window of what was accepted; a flag
  compares true neighbours; no reading counts twice; the mean is a mean.
- *Submission and records:* what the API certifies under an id of the chain is
  true whatever was lost, repeated or given up; every request ends; the cache
  does not serve a retired credit as live for ever.
- *Events:* no delivery is stranded, none is posted for ever, each is settled in
  the end; the cursor names what was read; events arrive, as far as one page and one
  cursor allow.
- *Session:* nobody who is signed in is replaced without signing out, and a
  token never stands without a key.
- *Pages:* what looks busy is, what waits stops waiting, a result shown is that
  of the last call.

## 2. Modules

| Module | Models | Remarks |
|---|---|---|
| `LedgerClock` | the timestamp of the Stellar ledger | external; EXTENDed by sessions, marketplace and oracle |
| `Sums` | adding up a vector, as the contracts' loops do | a recursive function, so that it can be proved about |
| `RegistryGovernance` | the administrative half of `credit_registry` | nonces, rosters, pause, hand-over |
| `CreditRegistry` | the life of a credit | EXTENDS `RegistryGovernance`; `Spec` is the whole registry but for sessions |
| `RegistrySessions` | sessions and the audit log | EXTENDS `CreditRegistry`, composes `SubmitCredit` |
| `CarbonSupply` | the promise about tonnes: *issued* and *live*, two actions | abstract specification |
| `RegistryLedger` | `CreditRegistry` with submitted tonnes added up | `INSTANCE CarbonSupply WITH live <- LiveTonnes`, a `SumTo` over the credit ids |
| `Retirement` | the retirement contract and the registry | composes `MarkRetired` into `Retire` and `BatchRetire` |
| `Marketplace` | the marketplace and the registry | composes `TransferCredit` into `CreateOffer` and `CancelOffer` |
| `MrvOracle` | the oracle contract | the registry reduced to the projects it lists |
| `TransactionSubmission` | `stellar.service.ts`: one write, await by await | the network and the contracts are external |
| `ApiRecords` | rows, caches and reads of the API | EXTENDS `TransactionSubmission`, whose requests write the rows |
| `WebhookDelivery` | webhooks, deliveries and their retries | its operations are steps of a poll |
| `EventIndexer` | the scheduled poll and the cursor | EXTENDS `WebhookDelivery` |
| `SignIn` | what the pages may rely on of the session | abstract specification |
| `WalletSession` | wallet, login, logout, guards, the API's challenge and token | `INSTANCE SignIn WITH account <- token, key <- publicKey` |
| `PageStores` | the lists the pages show, their loads | EXTENDS `SignIn` |
| `PageForms` | the retirement wizard and the verifiers' page | EXTENDS `SignIn` |
| `FrontendPages` | router, header, and the pages under one session | composes `PageStores` and `PageForms` with any session `SignIn` allows |
| `MC...` | small instances for TLC | constants, start states |
| `...Proofs` | TLAPS proofs | section 5 |

**Correspondence, contracts.** A storage key is a variable (named in the comment beside
it), an entry point is an action of the same name in CamelCase, an action is a
call that *succeeds*. A rejected call changes nothing and is a stuttering step,
so guards are exactly the conjunction of the early returns. `require_auth` is
the identity of the action's address parameter. A nonce argument is not
carried: any value other than the stored one is a rejected call, and the right
one consumes it (`ConsumeNonce`). Cross-contract calls are conjuncts of the
calling action, since they share its transaction: `Retire` contains
`MarkRetired`, `CreateOffer` contains `TransferCredit`.

**Correspondence, API and frontend.** The code is JavaScript: a handler runs
undisturbed from one `await` to the next. So an action is such a stretch, and a
handler is a record that says at which `await` it is (`at`) and which local
variables it carries over it (`poll[p]`, `request[r]`, `reader[d]`, `login`,
`wizard`). An awaited call has its answers as separate actions, a failure among
them. Several records of one kind are several invocations at once: two polls
that overlap, two requests, two loads. A restart (`Restart`) clears what is in
memory and leaves the chain and Redis alone. The rest of the world takes its own
steps: ledgers close (`LedgerCloses`), a sent transaction lands or expires
(`NetworkStep`), others mint and retire without the API, a subscriber's answer
comes or does not, the user picks another account in the wallet extension.

`FrontendPages` does not repeat `WalletSession`: it takes any step of `SignIn`,
and `WalletSession` is shown to implement that. A component's state is made anew
when the router opens its page and dropped when it leaves; stores live on.

**Abstractions, and why they are sound.**

- *Ids.* A credit id is a SHA-256 over (among others) the contract-wide
  `CreditNonce`; the model's id is that counter value. A session or log id is
  the tuple that is hashed. A retirement id is credit and batch position: the
  reason and the timestamp are left out, so all retirements of a credit would
  share their id and a second one would be seen to overwrite the first.
- *Duplicate-free vectors* (rosters) are sets; vectors whose order or
  repetition could matter (signatures, indexes, history) are sequences.
- *Payloads* that no branch reads - IPFS hashes, reasons, evidence, names,
  `created_at` of an offer - are left out. So are events, read-only queries
  (except `get_mrv_aggregate`, which computes) and the extension of storage
  TTLs; a key that archives is a property of the network.
- *Numbers.* `i128` matters in two places and is bounded there: the `checked_add`
  of `merge_credits` and the products of `detect_anomaly` (`MaxI128`).
- *`registry_id`.* The retirement, marketplace and oracle calls take the
  registry's address as an argument; the models assume the deployed registry.
- *Upgrade* replaces the code: the model keeps its nonce and nothing else (the
  oracle's takes none and is a stutter).
- *Time.* In the contracts a small clock. In the API a retry time is past or to
  come, a cache entry is there or has expired, a challenge is fresh or not.
- *The chain seen from the API.* A credit's status and who retired it; contract
  ids and ledgers for events. `TransactionSubmission` leaves out the arguments a
  call passes, see "Met while reading".
- *Requests for lists.* The frontend's stores ask for ids and then for each
  item, with nothing read or written in between: one question, one answer. A
  list is known by the account it is of.
- *Roles.* Actors that may call are small sets (`AdminKeys`, `VerifierKeys`,
  `IssuerKeys`); `Account` excludes contracts, which never sign a call of their
  own but those the models make explicit.

## 3. Runs

| Run | Distinct states | Question | Instance |
|---|---|---|---|
| `lifecycle` | 821,112 | does the registry keep its invariants under every order of calls, and does it implement `CarbonSupply`? | quorum 2 of 2 verifiers (symmetric), an issuer, a buyer, ids for a credit, its split and a merge, merges of every distinct pair |
| `sessions` | 1,080,732 | do counts and audit log tell the truth, from deployment on? | `initialize` with quorums 0 and 1, rosters, two issuers, one initiator, two ledgers, 2 credits, plain submissions between |
| `retirement` | 756,640 | do retirement records match retired credits? | two retiring accounts, single calls and batches (empty, zero volume, lengths that differ, repeated ids), both pauses |
| `marketplace` | 703,008 | does escrow hold and return? | two minted credits, two sellers, two offers, expiry, every other registry call meanwhile |
| `oracle` | 300,164 | are history, flags and means right? | cap 2 and readings at and just past a fifth, both signs, zero, and one that overflows |
| `events` | 227,829 | what do overlapping polls, failures and restarts leave of cursor, feed and deliveries? | two contracts and two polls; with a webhook (two attempts) or a restart one event each, the older one of the contract that is read second; otherwise four events of the first contract, in ledgers that leave room in a page of two or fill it |
| `api_records` | 435,618 | what does the API say of the chain after lost, late and repeated calls? | two requests at once and a read beside them, a credit issued, minted, retired with and without the API, two polls per transaction, one restart |
| `wallet_session` | 1,940 | does login implement `SignIn`, and does it end? | two accounts, up to three connects of the dashboard's under way beside a login |
| `frontend_pages` | 103,292 | do pages, stores and session fit together? | two accounts, one an administrator; two overlapping loads per list, two calls of a wizard, a wallet that answers after the dashboard is left, any order of links and signing in and out |
| `merge_twice`, `disputed_pending`, `events_skipped` | | findings, below | the instances of `lifecycle` and, with one poll and no failure, of `events` |

**Bounds.** Counters are bounded in guards, never by a constraint, so action
properties see every step.

- *Contracts:* `NonceBound` (nonces an address consumes), `MaxCredits`,
  `MaxOffers`, `MaxReadings`, `MaxTime`. The start states of the `MC` modules are
  what a deployment leaves (initialised, rosters registered); `marketplace`
  starts after two mints so that the bound is spent on trading; `sessions`
  starts from `Init`. The instances keep every case the guards distinguish: a
  second verifier for quorums and races, a second owner for custody, enough ids
  that a split and a merge both fit, arguments on each side of every check. Two
  things they leave to the proofs, which have no bounds: in `lifecycle` a verifier
  has one nonce and so never signs twice (`ApprovalsAreSound`), and in
  `marketplace` nothing merges, splits or flags a credit in escrow
  (`EscrowIsHeld`).
- `Copies` (deliveries kept of one event to one webhook): the indexer dispatches
  an event again at every poll, and each dispatch is a new delivery; deliveries
  share nothing but the webhook, so one at a time in hand, replaced once it is
  settled, shows each of them.
- `MaxLedger`, `EventIds`: two ledgers and two events are what the cursor needs to
  be past one event and before the other. `PageLimit` is 2 (100 in the code): the
  first contract may have more events than a page holds, a ledger that fills a page
  and an event behind it. That much happens where there is no subscriber and no
  restart (`MCBound`, a conjunct of the next-state relation): what is posted changes neither cursor nor feed, and a restart
  returns both to the start. `FirstServed` is 0, see "Met while reading".
- `MAX_RETRIES` 2 (5 in the code): one attempt that leaves a retry and one that
  does not. `AttemptsBounded` and `NothingStranded` are proved for any value.
- `MaxRestarts` 1: a restart leaves memory as it was at the start, and the
  chain in any state reached meanwhile.
- `MaxLanded`, `MaxPolls` 2: a transaction that lands while it is waited for, or
  after the wait was given up, and a second one of another request. Calls
  without a row of their own take the same path as `issueCredit` up to there.
- `MaxLoads`, `MaxCalls` 2: one load or call that overtakes another.
- `MaxConnects`: waits of the dashboard's `connectWallet` for the wallet. Its button
  is enabled again by any login's failure or logout, so the code sets no limit. 3
  in `wallet_session`; 1 in `frontend_pages`, whose loads already overlap.
- `Tours`: a visit goes to the pages of one of four groups and `connect-wallet`; pages
  of different groups share only router and session (each store serves one
  page), and all groups are explored. A visit that is sent to the dashboard from
  the verifiers' page loads its lists there but connects no wallet.

**Fairness.** None is assumed in the contracts: nothing in them is scheduled,
every call is up to its caller, and no liveness is claimed. In the API and the
frontend weak fairness is put only on what the platform does by itself: the
scheduler fires the cron job (`@Cron` in `events.service.ts`), an awaited request
ends in an answer or an error and the handler continues, a retry time comes, a
cache entry expires. That a request ends is an assumption about connections:
the code sets no timeout on its posts and calls, and a subscriber that keeps one
open for ever keeps that poll and that delivery where they are (later polls
start all the same). That a request for a transaction's result fails is never
counted on: `RequestsEnd` follows from the answers. Of users one thing is
assumed, and only where a login ends: that they answer or close the wallet's
prompts (`LoginConnects`, `LoginSigns`, `DashboardConnected`). In `FrontendPages`
the wallet may leave the dashboard waiting for ever. Nothing is assumed of
clients, what subscribers answer, other users of the chain, or of the network's
taking a transaction. One condition is strong: a node asked for one contract's
events again and again, from start ledgers it serves, does not fail every time
(`SF` on `FetchEvents` per contract); a poll treats a failed request as an empty
answer and asks again 30 s later, so without it nothing could be promised of the
feed. `EventsReachFeed` and `BacklogIsRead` are claimed where the node serves
ledger 0 (`FirstServed` = 0).

Every run checks for deadlock: also when nonces, ids and ledgers are used up,
some call, poll, read or page is possible.

Each property has a mutant in `PROJECT.json`: a small edit a programmer could
have made (a nonce not stored back, a status not tested, an index not
appended, an answer waited for no longer), kept beside the definition as "Faulty
variant", under which TLC finds the property violated.

### Findings

Three runs check what the repository *says* and show that the code does
otherwise.

- `merge_twice`: `merge_credits` accepts a list that names one credit twice and
  counts it twice, so live tonnes exceed the tonnes ever submitted (README.md:95
  promises verifier approval before minting). `ImplementsSupply` is therefore
  checked over lists of distinct credits. That nothing else leaks is a theorem,
  `TonnesLeakOnlyByRepeatedMerges`.
- `disputed_pending`: `resolve_dispute` activates a credit that was disputed
  while Pending, without one approval (lib.rs:408 promises the quorum).
- `events_skipped`: all contracts share one cursor, set to the last ledger of
  the contract read last; the next request for another contract starts there,
  and what that one emitted in an earlier ledger and no answer has held yet is
  never asked for
  (IMPLEMENTATION_SUMMARY.md:53 promises the events of all four). One poll at a
  time and no failure are enough. So `EventsReachFeed` and `BacklogIsRead` promise
  an event only while the cursor is not past it.

**Met while reading**, and modelled as the code has it.

*Contracts.* `expire_credit` and `dispute_credit` take a credit out of Pending
and leave the verifiers' pending counters up, so `remove_verifier` refuses for
ever (lib.rs:781, 813 against storage.rs:182). The retirement record stores the
caller's tonnes, not the credit's (retirement lib.rs:161 against types.rs:42).
`initialize` of retirement and oracle can be called again, though documented as
once. `batch_retire` does not ask for the owner. Merge, expire, dispute, resolve
and `register_project` look at neither pause nor nonce.
`cleanup_expired_offers` leaves the credit in escrow with an offer that can no
longer be cancelled. After a split the project-vintage slot names the retired
parent and admits another submission. The "session nonce" of `create_session` is
the length of the audit log: two sessions of one initiator in one ledger share an
id, "unique" by lib.rs:985, until an entry is logged (`UsedSessionsAreSpent` is
what holds). An offer's tonnes are not compared
with its credit's. Documents name calls that do not exist
(`approve_and_mint_with_session`).

*API.* The writes leave out arguments the contracts' entry points have (nonces,
`registry_id`, an offer's `expires_at`), and the marketplace service names
`buy_offer` and `get_active_offers`, which the contract does not have: against
the contracts as they are in the repository such a call ends at simulation. The
models leave argument lists out and let any simulation succeed or fail, so they
hold with the calls put right, too. A transaction that *failed* in its ledger is
returned like one that succeeded: `retire` saves its row under the id `unknown`,
and that row verifies (retirement.service.ts:114-123); `RetirementRowsAreTrue`
is therefore about ids of the chain. Rows of credits are never updated, so the
list of Active credits, which is the default, stays empty. The type of an event
is taken from a topic only when that is a string, which the RPC client never
returns: every event is `unknown`, the invalidation of cached lists after a
status change is never reached, and `invalidateCreditCache` has no caller -
caches are corrected by expiry alone (`CacheSettles`). The inclusive cursor
dispatches the events of its last ledger again at every poll. A poll overtaken
by a later one can set the cursor back, and nothing keeps that from happening
again and again: `BacklogIsRead` supposes that polls overlap no more at some time,
`EventsReachFeed` promises no more than the first page. A request starts at the
ledger of the last event read, returns at most 100 events and is not followed by a
second one (stellar.service.ts:237, events.service.ts:107): a contract with 100
events in one ledger is read from there again and again, and no later event of it
arrives unless another contract's batch moves the cursor on (`FullLedgerEndsFeed`
proves it where one contract is configured). Back-off is linear where
IMPLEMENTATION_SUMMARY.md:80 calls it exponential. Overlapping passes can post
a delivery more often than `MAX_RETRIES` (by less than their number,
`AttemptsBounded`) and write "failed" over a success. Deliveries of a deleted
webhook stay pending. `GET /events/:eventId` reads its id from the query.
Tokens carry no role and `AdminModule` and `OracleModule` are not imported, so
their routes are not served; the admin service's verifier calls change nothing
on chain. The first request, and the first after a restart, asks for ledger 0 on.
Whether a node serves that is not in the repository: `FirstServed` is a constant,
the runs take 0, and `RefusedStartNeverFeeds` proves that with any other value the
feed stays empty for ever, since the cursor only moves with an answer.

*Frontend.* A token's expiry is noticed by no code. Stores are not emptied at
logout, and an older load may overwrite a newer one. The dashboard loads its
retirement history from the credits of the store before these have arrived, so
on a first visit it is empty (dashboard.component.ts:57); it also passes the account's key to
`loadByProject`, as a project id. The answer of a call
whose dialog was closed by its backdrop closes the dialog opened meanwhile. A
page stays after logout until one navigates. The retirement page ignores its
`creditId` query parameter.

## 4. Properties that carry the most

- `RetiredIsFinal`, `CreditIsPermanent`: seven operations write `status`; only
  their guards together keep a credit retired.
- `MintTakesQuorum`, `ApprovalsSound`: signatures by verifiers that may be
  removed and registered again, over a credit that may be flagged, disputed and
  resolved in between.
- `ProjectIndexExact`, `SlotNamesItsCredit`, `AccountIndexExact`,
  `SellerIndexExact`: derived data against the data it is derived from.
- `RecordsAreBacked`, `BurnsAreRecorded`: two contracts, one transaction.
- `EscrowHeld`, `EscrowReturnsToSeller`: the market's records against the
  registry's owner field, which the market cannot watch.
- `ImplementsSupply`: conservation of tonnes as a refinement.
- `FlagsCompareNeighbours`: two oracles interleaved, against a history variable
  that remembers every reading.
- `UsedSessionsAreSpent`: an id that is not unique, yet
  never handed out again once something was counted or logged under it.
- `EventsReachFeed`, `BacklogIsRead`: one cursor, one page a request, polls that
  overlap.
- `NothingStranded`, `AttemptsBounded`: passes that overlap write one delivery
  between each other's await and answer.
- `RetirementRowsAreTrue`: a request that gave up, the client's retry, and a
  retirement by somebody else, all of one credit.
- `DeliveriesSettle`, `EventsReachFeed`, `RequestsEnd`, `CacheSettles`,
  `LoginEnds`, `PagesSettle`: something always comes of it.
- `ImplementsSignIn`, `ResultIsOfLastCall`: a user who acts between question and
  answer.

## 5. Proofs

TLAPS proves the following for every value of the constants the assumptions
allow; `PROJECT.json` lists each theorem with the run that shows it.

| Module | Theorems | The argument |
|---|---|---|
| `CreditRegistryProofs` | `TypeCorrect`, `RetirementIsFinal`, `CreditsArePermanent`, `CustodyIsTheOwners`, `NothingBeforeInitialize`, `QuorumNeverChanges`, `ApprovalsAreSound`, `MintNeedsQuorum`, `ChargedAreVerifiers`, `ReputationStaysBacked`, `SlotsNameTheirCredits`, `ProjectIndexIsExact`, `PauseKeepsCustody` | below; for the indexes: what is appended to one is new (ids below the counter only are listed), so lists stay without repetition |
| same module, the ledger | `LedgerImplementsRegistry`, `TonnesLeakOnlyByRepeatedMerges`, `RegistryImplementsSupply`, `LiveStaysWithinIssued` | below |
| `CompositionProofs`: retirement | `RetirementImplementsRegistry`, `RetirementTypeCorrect`, `RecordsStayBacked`, `AccountIndexIsExact`, `RecordsNeverChange`, `EveryBurnIsRecorded`, `PausesStopRetirement` | the composed system implements `CreditRegistry!Spec`, so `RetiredIsFinal` holds in it and a record, once backed by a retired credit, stays backed |
| `CompositionProofs`: sessions | `SessionsImplementRegistry`, `SessionsTypeCorrect`, `AuditTrailIsImmutable`, `UsedSessionIdsNeverReturn`, `AuditTrailIsTruthful`, `SessionsAreComplete` | the same refinement; `IdsAreDated`: an id carries the time and the log's length at its creation, and what is filed under it makes the log longer, so the id does not return; `CountsInv`: a session's counter moves with the finite set of its entries |
| `CompositionProofs`: marketplace | `MarketTypeCorrect`, `EscrowIsHeld`, `EscrowGoesBack`, `PauseKeepsEscrow`, `OffersStayFinal`, `SellerIndexIsExact` | below |
| `MrvOracleProofs` | `OracleTypeCorrect`, `HistoryIsTheWindow`, `FlagsAreRight`, `ReadingsCountOnce`, `MeanStaysWithinPeriod` | `WindowInv`: the history is the accepted sequence's end, as long as the cap allows; hence `latest` is the last reading accepted, which is what a flag compares with. `NonceInv`: the nonce counts a finite set of (project, position) pairs. For the mean: below |
| `EventIndexerProofs` | `TypeCorrect`, `NoDeliveryIsStranded`, `CursorIsIndexed`, `AttemptsAreBounded`, `FullLedgerEndsFeed`, `RefusedStartNeverFeeds` | below |
| `ApiRecordsProofs` | `VerifiedRetirementsAreTrue` | below |
| `WalletSessionProofs` | `SignalsAgree`, `SessionImplementsSignIn` | a login that has its account implies a wallet with a key, also while the dashboard connects beside it |
| `FrontendPagesProofs` | `PagesInvariant`, `BusyIsUnderWay`, `RequestsAlwaysCarrySession`, `ResultIsAlwaysOfLastCall` | below |
| `SumsProofs` | lemmas about `SumTo` | below |

*The registry.* Few of its invariants are inductive alone. `ApprovalsSound`
(signatures are distinct, and a Pending credit has fewer than the quorum) needs
that an id not yet derived is unsigned (`FreshUnsigned`) and, for the quorum to
be positive, that nothing is submitted before `initialize`
(`EmptyBeforeInitialize`). `MintTakesQuorum` then follows for a step: the only
operation that leads from Pending to Active is `approve_and_mint`, its new
signature is not in the list, and a list without repetition is as long as its
range is large. The action properties (`RetiredIsFinal`, `CreditIsPermanent`,
`CustodyMovesByOwnersNonce`, `QuorumIsFixed`, `PauseHoldsCustody`) need
`TypeOK` and one lemma each that follows a part of the state through every
disjunct of `Next`.

*Sums.* `merge_credits` and `get_mrv_aggregate` add up vectors, so what is
proved of them rests on induction. The library states induction of a predicate,
which the provers at hand cannot instantiate; `SumsProofs` states it of a set of
numbers (a set that has 0 and with `n` also `n + 1` has every natural number) and
proves it from the library's well-foundedness of `<`. From it follow the two
equations of `SumTo` and the laws the other modules cite: a change of one term
changes the sum by as much (`SumOfUpdate`), terms that are cleared take their
sum along (`SumOfCleared`), a sum over a set of positions is bounded by the
bounds of its terms (`SumOverSetAtMost`, `SumOverSetAtLeast`).

*The tonnes.* The live tonnes are a sum over all ids of a term that is a
credit's tonnes unless the credit is absent or retired. `submit_credit` and
`mark_retired` change terms in one direction; `split_credit` clears the parent's
and sets those of two ids that had none; `merge_credits` clears its sources' and sets
one, to what the loop added up. Only there the hypothesis is needed that the
list names nothing twice: then the terms cleared are the terms added. So
`TonnesLeakOnlyByRepeatedMerges` has no hypothesis and says what the finding is
the only instance of; `RegistryImplementsSupply` and `LiveStaysWithinIssued`
assume `[][~RepeatedMerge]_ledgerVars`, which every behaviour satisfies whose
merges list distinct credits - those of the run `lifecycle` are of this kind, those of
`merge_twice` are not. `LedgerImplementsRegistry` says that counting changes
nothing: what is proved of the registry holds beside it.

*The mean.* The code's division truncates toward zero, whichever sign the sum
has, so a quotient `q` of the sum of `n` readings satisfies
`(q - 1) * n < sum < (q + 1) * n` (`QuotientIsWithinOne`). Readings are whole
numbers: if all of them were below the quotient they would be at most `q - 1`, and
their sum at most `(q - 1) * n`; in the same way they are not all above.

*The marketplace.* The composed system does not implement `CreditRegistry!Spec`:
in it a contract calls `transfer_credit`, which there only accounts do. So the
proof follows the registry's steps by their lemmas (`CustodyStep`: a credit that
leaves its owner leaves an account, never a contract) and adds the two market
calls. `EscrowInv` is `TypeOK`, `MarketTypeOK`, `EscrowHeld` and
`OnlyCreditsAreOwned` - an id without a credit has no owner - without which a
later submission could take an id the market already holds.

*The indexer.* What a poll carries over an await must be part of the invariant: a
batch of emitted events, a cursor-to-be (`top`) whose ledger it has an event
of, deliveries that are kept. That gives `CursorWasIndexed` and
`NothingStranded`. `AttemptsBounded` is not inductive with any fixed bound: a
pass that holds a delivery may post it whatever its count has become. Inductive is
the sum: attempts made plus passes that still hold the delivery stay below
`MAX_RETRIES` plus the number of polls, since a pass can take up a delivery only
while attempts are left, and a post turns one holder into one attempt.
`RefusedStartNeverFeeds` adds that every request starts at 0 and no poll has a batch.
`FullLedgerEndsFeed` is about a set that is never left: cursor, requests, batches and
feed stay within the closed ledgers and within every full one, since the events of
a full ledger come before any later one and fill the page; a ledger becomes full
only when it closes, and by then all of them are within.

*The API's records.* `IInv` says of every request what it may claim: a
transaction it sent is the one that waits in the network or one that landed; if
it holds a return value, the contract did that once, for that credit and that
buyer; and a credit is retired once. A row under an id of the chain is written
from such a request, whatever happened to the others.

*The pages.* `PagesInv` has a part for the session, the lists, the wizard and
the verifiers' page. Each part is about counting: a list that is loading has a
load under way; a wizard that submits has exactly one call and that is its
latest, one that does not has none; a dialog's calls and reloads add up to
one while its button is disabled and to zero otherwise. The session's part, that
whoever is signed in has a wallet key, is what `SignIn` promises, and
`SessionImplementsSignIn` shows that the login keeps the promise. Of the bags in
which loads are kept the proof needs only when they are empty.

The assumptions are the `ASSUME`s of the models: constants have the types their
comments give, `None` is none of the values it stands in for. TLC evaluates
them in every run.

Theorems without a property of a run state what the runs would only repeat:
type correctness; `CursorIsIndexed`, which `NothingStranded`'s invariant needs
anyway; `FullLedgerEndsFeed` and `RefusedStartNeverFeeds`, whose
hypotheses the runs do not have; `NothingBeforeInitialize`, `QuorumNeverChanges`,
`ChargedAreVerifiers`; and of the pause switches `PauseKeepsCustody`,
`PausesStopRetirement`, `PauseKeepsEscrow`. Each was model-checked before it was
proved. `LedgerImplementsRegistry`, `TonnesLeakOnlyByRepeatedMerges` and
`LiveStaysWithinIssued` go with `ImplementsSupply`: TLC checked the second with
three credits and every list of them, repeated ones included, and `merge_twice`
shows that the third needs its hypothesis. `PagesInvariant` is the inductive
invariant of the pages, checked on the instance of `frontend_pages`.

**Only model-checked.** All liveness, which is out of the prover's reach:
`DeliveriesSettle`, `EventsReachFeed`, `BacklogIsRead`, `RequestsEnd`, `CacheSettles`,
`LoginEnds`, `PagesSettle`. Every safety property of the passing runs is a theorem.

## 6. Not modelled

- *API: projects, verifiers, marketplace, oracle, admin services.* Reads of the
  contracts; a map of projects that is only added to; writes that are one
  `invokeContract` each and keep nothing, so `TransactionSubmission` shows what
  can become of them; admin calls that change nothing.
- *API: throttling.* `throttler.guard.ts` is used by no module, and the
  application configures no throttler.
- *API: authentication.* The exchange of challenge and token is part of
  `WalletSession`; the check of a token on each request is one library call.
- *API: retirement.* The certificate's PDF and its upload are formatting and one
  outgoing call.
- *API.* `clearEvents` is called by its test only, `buildAndSubmit` and
  `invalidateCreditCache` by nothing. Of a list only the status filter is kept:
  the other filters select among the same rows.
- *Frontend.* Locale, theme and toasts, which nothing else depends on; `loadOne`,
  `loadOffer` and the stores' resets, which nobody calls; fields of forms on
  which nothing depends.
- *Scripts and shared types*: shell calls of `initialize`, and type declarations.
- *Contracts.* Events, read-only queries but one, storage TTLs (section 2).

What would come next: the custody half of `Marketplace` as a refinement of an
abstract escrow; an abstract at-least-once feed, which `EventIndexer` implements only once each
contract has a cursor of its own.

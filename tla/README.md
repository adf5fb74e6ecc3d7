# Verification of the Stablecoin Payment Orchestrator

TLA+ models of the orchestrator in `src/`, TLC runs that check them on small
instances, and TLAPS proofs of the properties that matter most for every value
of the constants.

## 1. The system

Merchants ask the API for a quote, create a payment intent from it, and are
told by webhook what became of it. Workers send the transfer on Ethereum or
Solana and watch it until it is final.

| Component | Code | State | Operations |
|---|---|---|---|
| Quotes | `apps/api-service/src/services/quote.service.ts` | `quotes` rows, five minutes' lifetime | `createQuote`, `getQuote`, `validateQuoteFreshness` |
| Routing engine | `packages/routing-engine/src` | none; reads `chain_health_snapshots`, `treasury_wallets` | `selectRoute`, `scoreRoute`, `selectBestRoute` |
| Metrics collector | `apps/worker-service/src/collectors/metrics.collector.ts` | inserts `chain_health_snapshots` | one collection every 15 s |
| Intent creation | `payment-intent.service.ts`, `routes/payment-intents.ts` | `payment_intents`, `treasury_wallets`, `ledger_entries`, the job queue | `createPaymentIntent`, then `queue.add` |
| Execution worker | `workers/execution.worker.ts` | `payment_intents`, `payment_attempts`, `ledger_entries`, `treasury_wallets`, `webhook_events` | `processPayment`, up to three tries under BullMQ |
| Confirmation worker | `workers/confirmation.worker.ts` | the same tables | one scan of the broadcasted attempts every 15 s |
| Webhook worker | `workers/webhook.worker.ts` | `webhook_events` | one batch every 5 s, five tries per event |
| Chain adapters | `packages/chain-adapters/src` | none (Solana); Redis lock and nonce (Ethereum) | `buildAndSendTransfer`, `checkConfirmation`, `getHealthMetrics` |
| Admin API | `apps/api-service/src/routes/admin.ts` | inserts `chain_health_snapshots` | `POST /admin/chain-health`; the rest are queries |
| Nonce manager | `packages/chain-adapters/src/ethereum/nonce-manager.ts` | Redis keys `nonce:lock`, `nonce:current` | `acquireLock`, `getAndIncrementNonce`, `releaseLock` |
| Ledger | `packages/ledger/src/ledger.ts` | `ledger_entries` | `reserve`, `debit`, `fee`, `release`, `refund` entries |
| Auth, debug, webhook test, dashboard, migrations | rest of `apps/`, `infra/` | none of their own | reads, presentation, start-up |

The components share PostgreSQL, Redis and the BullMQ queue `payment-execution`
and never call one another across processes. Every SQL statement outside
`createPaymentIntent` commits on its own, so anything can happen between two
statements. What makes this hard:

- `setInterval` does not await its callback, so scans, batches and collections
  overlap with themselves and, in several processes, with each other;
- a BullMQ job is tried again after an error, and started again when its lock
  expires, although its first run may still be at work;
- a call that throws may have taken effect (a transfer that lands after its
  receipt was given up, a statement whose answer was lost);
- the execution worker and the confirmation worker write the same rows without
  a condition on their present value;
- five slots per worker and twenty connections per pool are shared by payments
  that have nothing else in common, and some waits have no timeout;
- a chain may include a transfer anew and fail it, never include it, or no
  longer know it when it is asked;
- money appears in three places (the wallet row, the ledger, the chain), each
  written by other statements of other workers.

What makes each component correct:

- *payment path*: nothing is reported as settled that is not final on the
  chain; no transfer without an attempt row; wallet and ledger agree up to the
  statements a failure cut off; only a fault has a payment sent twice, or paid
  after it was given up; jobs end and landed transfers are found;
- *wallets*: what standing intents were promised exceeds the wallet by no more than
  repeated releases and deductions explain;
- *intent creation*: no wallet's row is oversubscribed, the three writes are all or
  nothing, one answer per key, every request ends;
- *webhooks*: delivered means accepted, tries, acknowledged duplicates and POSTs are
  bounded, events are first offered in order, every event concludes;
- *nonces*: no nonce is used twice, and nonces leave no gap;
- *routing*: the recommended chain is the best of the viable ones, a chain
  without a snapshot is the last resort, snapshots catch up with the chains.

## 2. Modules

| Module | Models |
|---|---|
| `PaymentStore` | the tables, the queue and the chains that the workers share; `CreateIntent`, `EnqueueExecution` in single steps |
| `ExecutionWorker` | `processPayment`, one action per awaited call, its catch block, BullMQ's completion, retry and stalled-job check |
| `ConfirmationWorker` | `checkConfirmations`, one action per awaited call |
| `PaymentSystem` | the composition of the three with its fairness and its properties |
| `SettlementPromise` | abstract: accepted, paid, confirmed, told, never taken back; `PaymentSystem` implements it |
| `PaymentClaims` | three statements of the documentation that the code does not keep |
| `IntentCreation` | `createPaymentIntent` statement by statement, with connection pool, row lock, unique index, aborts and crashes |
| `AtomicIntents` | abstract: creation in one step; `IntentCreation` implements it |
| `WebhookDelivery` | `deliverPendingWebhooks`, overlapping with itself |
| `NonceManager` | `buildAndSendTransfer` of the Ethereum adapter, the Redis lock and nonce, and the chain that mines in the order of nonces |
| `RouteSelection` | `collectMetricsForChain`, `POST /admin/chain-health`, `selectRoute`, `scoreRoute`, `createQuote` |
| `Sums` | the sum of a function over a set, for the totals of a wallet |
| `PaymentSystem_proofs`, `PaymentRuns_proofs`, `PaymentBooks_proofs` | theorems about the payment path: what is reported, how often a payment is sent, the treasury; each extends the one before |
| `IntentCreation_proofs`, `WebhookDelivery_proofs`, `NonceManager_proofs`, `RouteSelection_proofs` | theorems about those modules |
| `Sums_proofs` | lemmas about sums |
| `MC*` | constants of the runs |

`PROJECT.json` maps every definition to the lines it translates. Operators
whose comment begins with "Mutant:" stand next to the definition they vary;
no specification uses them. They are plausible mistakes, each of which makes a
run find one property violated.

### How state and actions correspond to the code

A *run* `<<p, n>>` is the n-th call of `processPayment` for payment `p`; it
inserts at most one attempt row and sends at most one transfer, so `attempt` and
`tx` are indexed by runs. `pc` is the await a run has come to. `Statement` is
one awaited statement: it takes effect, or throws with or without effect, and
the run goes on in its catch block. `Owner(p)` is the run BullMQ gave the lock
of the job to; an older run that is still alive goes on changing the database
but its result no longer counts. `StallJob` is BullMQ's check: a dead owner's
lock is always found expired, that of a live but slow one is a fault. A run
starts only while fewer than `Concurrency` of them are at work.

A scan (`phase`, `todo`, `at`) works from its own copy of the rows it found.
A transfer is `sent` and then `final` (its block is, and the money moved) or
`dropped` (it can no longer land, or failed in its first block, which the wait for
the receipt reports by throwing); which, and when, is the chain's choice. Three
more outcomes are faults of a chain. `stuck`: it stays in the mempool for ever,
which only chains that are not `Expiring` do (Ethereum; a Solana transaction
expires with its blockhash). `reverted`: it succeeded when it was first included,
a reorganisation includes it anew, and there it fails. `forgotten`: `Expiring`
chains answer `getSignatureStatus` from recent blocks only, and nobody asked in
time. `OnChain` is what is in a final block, and `Visible` what `checkConfirmation`
takes for confirmed: neither adapter reads `receipt.status` or `status.err` there,
so `reverted` is visible.

A shutdown on SIGTERM waits for the execution worker (for ever, if a run waits for
a stuck transfer) and neither for scans nor for deliveries; for those it is a crash.

In `IntentCreation` the writes of a transaction become visible at `Commit`,
`LockTreasury` waits for the row and reads it as committed, `InsertIntent` waits
for another transaction that has inserted the same key. A request takes one connection
of the pool for each statement outside the transaction (they need one free) and
keeps one from `Connect` on. The ledger entry is named after the millisecond, so
`InsertEntry` may find its id taken. `WorkerReturns` and `WorkerDeducts` are what the
workers do to a wallet later, each any number of times for one intent, as nothing in
`execution.worker.ts:103-107` or `confirmation.worker.ts:45-53` keeps them from it:
`lowered` counts them, `ReservationsAddUp` says what is left, and `AtomicIntents` lets
a reservation be lowered again, too. `MaxLowered` is the bound of the run. How often
it really happens, and what that does to the next intents, is `PromisesCovered` of
`PaymentSystem`, where the releases and deductions are those of the workers' models.

In `WebhookDelivery`, events are numbered as they were created; a call's `batch` is
the copy its query returned, and `Current` the oldest event left in it, since the
code goes through the rows in that order. `Unreachable` events belong to merchants
without a `webhook_url`; the query leaves them out. A POST ends with a 2xx answer, or
not: an error, or none within ten seconds. In the second case the merchant may have
taken the event all the same, and gets it again; `accepted` counts the 2xx answers and
`posts` everything a merchant may have taken, and `DuplicatesBounded` bounds both.

In `NonceManager`, `pool` and `mined` are the chain: the node's pending count
skips over transactions that follow without a gap, and mining is in order.

In `RouteSelection`, fees are whole dollars (so a Solana transfer costs 0),
rates percentages, scores exact thousandths with `Math.round` as rounding half
up; 999, the code's figure for "no snapshot", is kept. A quote reads snapshots
in one step and wallets in a later one; what the wallets hold then is left open.
`PostChainHealth` is the operator's own snapshot, in between those of the collector,
with any figures of the documented ranges; each may be left out, and then has the
endpoint's default. Figures are whole in the units shown (dollars, seconds, percent),
so `Math.round` in `router.ts:66-68` changes nothing of them; the rounding of scores
is modelled. `quote.unknown` remembers the chains that had no snapshot.

Left out throughout: ids (in the workers a collision of the millisecond ids `le_`
and `wh_` is a statement that throws), payloads, signatures, logging, latencies.

## 3. Runs

| Run | Bounds | What it shows |
|---|---|---|
| `PaymentSystem_recovery` | 1 Solana payment, 2 tries, 1 stall, 1 fault | `TypeOK`, `SettledIsFinal`, `TransferHasAttempt`, `TreasuryMatchesLedger`, `TransfersBounded`, `GivenUpIsUnpaid`, `BooksClose`, `KeepsPromise`; liveness `JobsFinish`, `RecordedTransferIsConfirmed`, `LandedTransferIsReported` |
| `PaymentSystem_overlap` | 2 Ethereum payments of 1 and 2 from a wallet of 2, 1 try, 1 slot, 1 fault, 2 scans | `PromisesCovered`, `DeductionsBounded`, `SettledEventsAreDeducted`, `ConfirmedIsTerminal` |
| `PaymentSystem_slots` | 2 payments on two chains, 1 try, 1 slot, 1 fault | `TreasuryMatchesLedger`, over two wallets; liveness `JobsFinish` |
| `IntentCreation_requests` | 3 requests, 2 keys, 2 wallets, 2 connections, 1 fault, a reserve lowered twice | `TypeOK`, `NoOversubscription`, `ReservationsAddUp`, `AnswersAgree`, `ImplementsAtomicIntents`; liveness `RequestsEnd`, `RetryQueuesIntent` |
| `WebhookDelivery_delivery` | 4 events, 1 unreachable, 2 calls, batches of 2, 3 tries, 1 fault | `TypeOK`, `DeliveredWasAccepted`, `AttemptsBounded`, `AttemptsMatchPosts`, `DuplicatesBounded`, `PostedInOrder`; liveness `EventsConclude` |
| `NonceManager_nonces` | 3 calls, 3 expiries, 1 fault | `TypeOK`, `LockedNonceIsFree`; liveness `SentIsMinedUnlessFault`, `LockComesFree` |
| `RouteSelection_quotes` | a degraded load and an outage, 2 collections, 1 change or posted snapshot (4 bodies), 1 fault | `TypeOK`, `RecommendedIsBest`, `NotDominated`, `UnknownIsLastResort`; liveness `SnapshotsCatchUp` |
| `PaymentClaims_paid`, `_settled`, `_reported`, `NonceManager_conflict`, `_gap` | as small as shows it | violated, see section 6 |

**Bounds.** Payments meet in their wallet and in the worker's slots. One payment shows
everything about runs, scans and retries; two that compete for one slot show what a
payment stuck on one chain does to one on the other. How intents compete for a wallet
is the subject of `IntentCreation`, and wallets are there what they are here: a check
under a lock. Two tries and a stall give three runs, so a run may have one before it
and one beside it. For a wallet, the second intent must be checked against a row that
a release and a deduction of the first have lowered too often: a release and a
settlement of one payment take one try, one fault and two scans, and two amounts that
do not fit the wallet together. One fault suffices to lose a receipt, cut a catch
block short, kill a process after each statement, or have a chain fail, hold or forget
a transfer; the proofs cover any number. Two scans, calls or collections are what it
takes to work from a stale copy. Two connections for three requests let requests that
wait for a wallet hold all of the pool. Four events, three of them reachable, make
batches of two leave one out. For nonces, one call that loses its lock, a second whose
lock it deletes and a third that comes in. The posted bodies are the defaults, a chain
that never answers, one that looks like an unknown chain, and one with a fee above 999
(each of which comes into play in `UnknownIsLastResort`; a fee times a time is kept
within what TLC's 32 bits hold of a score). The code's limits (3 tries, 5 slots, 20
connections, batches of 20, 5 tries per event) are constants and scaled down so that
the runs reach them.

**Deadlock** is not checked: every model is finite and stops when its payments,
requests, events or calls are used up, and merchants owe nothing. That nobody
waits for ever is what the liveness properties say.

**Properties with a condition.** `BooksClose`, `LandedTransferIsReported` and
`SentIsMinedUnlessFault` say `faults = 0` (or "or a fault happened") and
`LockedNonceIsFree` says `expiries = 0`: their runs have faults and expiries, and the
code does not keep them past one. `TransfersBounded`, `GivenUpIsUnpaid` and
`PromisesCovered` hold whatever fails, since they count the faults: each costs one
more transfer at most, and a wallet one more amount per scan. Those bounds are
reached: with `Extra - 1` for `Extra`, TLC finds a wallet that exceeds it, and the run
does reach states in which more is promised than the wallet has. `ConfirmedIsTerminal`
meets stale scans and late catch blocks in `overlap`; those of an earlier run are in
`recovery`, where `KeepsPromise` rests on the same fact, and `ConfirmedForGood` proves
it for all. `JobsFinish` excuses a job for two reasons that need a stuck transfer: the
job's own, or those of others in every slot.

## 4. Fairness

- `StartRun`, a dead owner's `StallJob`: BullMQ hands out waiting jobs while a slot
  is free and runs its stalled-job check (weak fairness).
- `RunStep`, `PollerStep`, `SenderStep`, `CollectorStep`: Node resumes what can
  go on; intervals keep firing; fetches have a timeout (weak fairness). A run
  that waits for a receipt makes no step until the chain does. `RunStep` is fair
  per payment: each of its runs has finitely many steps, so none is starved.
- `FinalizeTx` or `DropTx`: a transfer that is not stuck does not stay in the
  mempool for ever (again per payment, whose transfers are finitely many). How one
  comes to be stuck is in `NonceManager_gap`: it waits behind a gap of nonces.
- `HandlerStep` of intent creation: strong fairness, because PostgreSQL queues
  the waiters of a row lock, and `pg` those of a connection, and grants them in turn.
- `Mine`, `LockExpires`: the next transaction in line is mined; Redis expires keys.
- Nothing is assumed of merchants, of operators, of loads or of faults, except
  that faults are bounded.

## 5. Proofs

Checked by `tlapm` for every value of the constants that satisfies the named
assumptions (`PaymentsAssumption`, `LimitsAssumption`, `NoRunAssumption`,
`RequestsAssumption`, `QuotesAssumption`, `WebhookAssumption`, `NonceAssumption`,
`LoadsAssumption`, `NothingAssumption`, `BodiesAssumption`, and the two
`FinitenessAssumption`s: there are finitely many payments, scans and keys): any number
of payments, tries, stalls, slots, faults, scans, requests, wallets, connections,
events and calls. For routing, any loads and posted figures and any number of
collections and faults; chains and weights are the code's.

Every safety and action property of the passing runs is stated by a theorem.

**Payment path.** `TypeAlwaysOK`, `SettlementInvariant`, `SettledIsFinalAlways`,
`TransferHasAttemptAlways`, `ConfirmedForGood`, `ImplementsPromise`.
`SettledIsFinal` is not inductive: that a payment may be marked as settled
depends on what the scan about to do it knows. `SettlementInv` adds that a scan
past its check holds an attempt whose transfer is on the chain, one past
`mark_confirmed` an attempt that is confirmed, that a run about to record its
transaction has sent it and has an attempt row that is not confirmed yet, that
runs which have not started own nothing, and that confirmed attempts have
transfers on the chain. The refinement follows step by step: each action maps to
`Accept`, `Pay`, `Confirm`, `Tell` or a stutter. That a chain forgets a transfer
takes nothing back: it is on the chain all the same, and no scan that has seen it
looks again.

**How often a payment is sent** (`PaymentRuns_proofs`). `SendsInvariant` and from
it `TransfersStayBounded`, `GivenUpStaysUnpaid`. Neither bound is inductive: a second
transfer is still to come while the first is only lost. `SendsInv` counts three
things together, per payment: the transfers that were sent and not dropped, the runs
that lead on to another one (about to send, or failing or dead while they have the
job), and one more for a job that waits for its next run or was given up. Their sum
is at most one plus the faults. `OneRunSends` reduces a step to what it changes for
one run and its job, `RunLeavesOthers` and `JobLeavesOthers` say that no step turns
another run into one that leads on, and each fault pays for the one it adds. A job
that is given up has used its one, so that `GivenUpIsUnpaid` follows.
`CalmRunsInvariant` is what remains when nothing fails: only the owner of a job works
on it, and whatever landed or may land is its own.

**Treasury** (`PaymentBooks_proofs`). `BooksInvariant` and from it
`TreasuryAlwaysMatches`, `SettledIsDeducted`, `DeductionsStayBounded`. The wallet rows
do not say which payment a change was for, so the invariant says that there *are*
numbers `returned[p]` and `spent[p]` with which the wallets add up (`Wallets`) and
which lie between the entry before the change and the event after it (`Accounts`), up
to the runs and scans in between. `spent[p]` is bounded by the pairs of a scan and a
confirmed attempt that the scan has `Behind` it. Each step keeps the numbers or adds
one to one of them.

`PromisesStayCovered`: the row of a wallet cannot say what was promised of it, since a
second release takes off a promise that stands. `Promised` adds up the intents that
were neither released nor confirmed, and exceeds the row by `Extra` amounts at most
for each intent that was. An intent that stands was never released or deducted, so it
counts in full (`StandingIsWhole`); the others rest on `OwesInvariant`: the releases
of a payment, the transfers it sent, the runs that will release or send and the tries
left are together at most the tries plus the faults, since a try that does both needs
a fault. With `SendsInv` for the transfers alone, releases and deductions by every
scan stay below `Extra + 1` amounts. `ReservedOnce` is the reserve entry. That the row
itself never reserves more than it has is the lemma `RowStaysCovered`; by itself it
says little.

`BooksAlwaysClose` (while nothing fails) rests on `CalmBooksInvariant`: the debits of
a payment are its recorded attempts whose run is past the debit, its releases are the
failed events and the run in between (`LedgerInv`), and a confirmed attempt was told
or is in the hands of a scan that will tell (`ToldInv`).

**Sums.** A total over payments is `MapThenSumSet`, a fold whose recursion takes
elements out of the set in an order `CHOOSE` decides. `Sums_proofs` derives what the
proofs need (`SumChange`, `SumPlus`, `SumScale`, `SumMonotonic`) from its definition.
Induction over finite sets, which the prover cannot instantiate for an operator, is
done by looking at a smallest subset that would be a counterexample
(`SmallestSubset`); the only facts about the data are that the sets are finite.

**Intent creation.** `CreationInvariant`, `CreationTypeOK`, `NeverOversubscribed`,
`AnswersAlwaysAgree`, `CreationIsAtomic`, `RecordsAlwaysAgree`. `CreationInv` ties the
place of a request to the lock it holds and to the check it has passed: between the
check and the commit its wallet still has the price, because only the holder of the
row changes it; and between the insert and the commit no other request of its key is
past the insert. So a commit adds one intent and its price to what a wallet holds
(`CreatedIntents`), a worker takes one price off (`LoweringAddsUp`), however often,
and `ReservationsAddUp` is kept. `LockStep`, `KeyStep`, `AnswerStep` and `WalletStep`
each preserve one part of it.

**Webhooks.** `DeliveryInvariant` and from it `DeliveryTypeOK`, `DeliveredIsAccepted`,
`EventsPostedInOrder`, `TriesAreBounded`, `AttemptsTellPosts`, `DuplicatesAreBounded`.
The bounds count calls, so the invariant counts those that hold an event, wait to post
it, have posted it and not yet counted it, or are about to record it as delivered.
`AttemptsAt`: the attempts of an event and the calls that hold it are together below
the bound, as a query takes only events with tries left and a call uses up its hold
when it counts. `PostsAt`: posts and attempts differ by the calls under way.
`AcceptedAt`: until an event is recorded as delivered, who had it accepted is about to
record it; afterwards only the calls that still wait to post it can. `TriesAt`: posts
are below `MaxTries` and those calls and faults, which bounds what a merchant may have
taken however late it answers (`TriesStep`). `OrderInv`: a batch leaves out no earlier
event that was never posted, which rests on `QueryIsPrefix` (the query is a prefix of
the pending events, whatever its limit). `OneMoves` says how the size of such a set
changes when one call moves.

**Nonces.** `NonceTypes`, `NoncesDoNotConflict`. Until a lock expires, who is
past `acquireLock` holds the lock, and the stored nonce is ahead of everything in
the pool (`NonceInv`). Crashes and failed calls are covered.

**Routing.** `RouteInvariant`, `RouteTypes`, `RecommendationIsBest`,
`RecommendationIsNotDominated`, `UnknownComesLast`. `RouteInv` says
that every row has its type, whoever wrote it, and that every quote is a good one. The
work is in the pure part: normalising by the worst chain, weighting and rounding
twice are monotone (`ScoreMonotonic`, from `DivMonotonic`), so a chain that is no
worse in each figure scores no lower; a chain without a snapshot scores nothing
unless the other's figures are beyond 999, a chain that answers at all something for
its reliability, and the rounding keeps them apart (`UnknownScoresNothing`,
`ReliableScores`). `SelectionIsGood` then holds for all figures in range, measured or
posted, whatever the priority.

**Only model-checked.** All liveness, which is out of the prover's reach, and the
claims of section 6, which are false.

## 6. Where the code and its documentation disagree

With a run each:

1. `PaymentClaims_paid`: a try whose wait for the receipt throws (an RPC error)
   is followed by another that sends a second transfer without looking at the
   first; both land. `docs/index.md` says idempotency keys prevent duplicate
   execution.
2. `PaymentClaims_settled`: a run records its transaction, a scan confirms it
   and settles the payment, and the run then writes `broadcasted` over `settled`.
3. `PaymentClaims_reported`: a scan marks the attempt confirmed first; when one
   of its next statements fails no later scan comes back, and the payment is
   never settled, deducted or announced.
4. `NonceManager_conflict`: the lock expires after ten seconds, its holder waits
   longer and then deletes the lock of another call; two calls take one nonce.
5. `NonceManager_gap`: a call that fails between storing its nonce and sending
   leaves a gap, and all later transfers wait behind it without a timeout.

Known divergences that follow from the models but have no run of their own:

- each try that throws releases the reserve again (`docs/ledger.md` shows one
  release); with two tries `reserved_balance` goes below zero, so it is not the "Funds
  locked for pending payments" of `docs/database.md:124`, and the check in
  `payment-intent.service.ts:76` accepts more intents than the wallet can pay
  (`PromisesCovered` says how many more);
- the attempt row is inserted before the transfer is sent (`execution.worker.ts:58, 66`),
  and its transaction id added afterwards; `docs/workers.md:38-39` tells the opposite
  order (`TransferHasAttempt` depends on the code's);
- each try that throws emits `payment.failed`, which a later try may follow with
  `payment.settled` (`docs/webhooks.md`: failed permanently);
- a retry starts from `failed`, not `route_selected` (`docs/workers.md`);
- `manual_review` emits no event (`docs/workers.md` says it does);
- reserving leaves `available_balance` alone (`docs/ledger.md` says it decreases);
- the debit entry is the run's last statement and the deduction the scan's, so a
  run that fails after recording its transaction leaves a deduction without entry;
- of two concurrent requests with one key the later is turned away by the unique
  index with an error (`docs/architecture.md`: the existing intent is returned);
- a transfer whose block a reorganisation replaces by one in which it fails is
  confirmed and its payment settled: `checkConfirmation` reads neither
  `receipt.status` nor `status.err` (`reverted` is `Visible`);
- a transfer that is stuck never comes to manual review (`docs/workers.md`, "Stuck
  Transaction Detection"): its transaction is recorded only when the first receipt
  is there, scans look at recorded ones, and the wait for that receipt has no
  timeout. It keeps its slot, and as many as there are slots stop the payments of
  every chain (the excuses of `JobsFinish`);
- a Solana transfer no scan could ask for within minutes is final but reads as
  unconfirmed from then on, and its payment ends in `manual_review`
  (`docs/chain-adapters.md` speaks of finality only);
- overlapping calls post an event more often than `Max attempts`;
- a merchant that takes an event but answers after ten seconds is sent it again, up to
  five times, without any fault or overlap (`DuplicatesBounded`);
- a row posted with an error rate of 1, or with a fee or a time beyond 999, may leave
  its chain behind one without a snapshot (`UnknownIsLastResort` lists the cases); the
  endpoint checks no figure, and negative or larger ones are not modelled;
- with the fixed figures of the adapters' `getHealthMetrics`, Solana wins under
  every priority whenever both chains are measured and viable.

## 7. Not modelled, and why

- Authentication is a stateless lookup of an API key for each request.
- The debug endpoints, the admin queries, `getTreasuryNetPosition` and the dashboard
  only read. The webhook test endpoint posts once and keeps nothing.
- `refund`, `reserveBalance`, `resetNonce` and `updatePaymentIntentStatus` are called
  by nothing, and the `IDEMPOTENCY_CONFLICT` error is never raised.
- Database and Redis clients, start-up and the migration script are plain I/O; the
  pool's limit is in `IntentCreation`, a shutdown in the pollers' crashes. The limit
  of ten jobs a second only slows the execution worker down.
- A failing collector's unhandled rejection, which ends the process of all workers, is
  a crash in the workers' models and not tied to `RouteSelection`'s.

## 8. Plan

1. Done: inventory, the payment path, intent creation, webhooks, nonces and routing,
   the pools and slots they share, what chains do to transfers, their runs, and the
   proofs of section 5, which cover every safety and action property of the runs.
2. Extend, where it pays: quotes that outlive an outage up to the intent made from
   them; the attempt left `pending` by a run that died and what an operator finds of
   it; one composition of event emission with delivery.
3. Prove: how far the books of a payment can be apart after faults, and abstract
   specifications of webhook delivery and of the nonce sequence that their models
   implement.

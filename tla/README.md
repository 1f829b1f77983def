# Sub2API: a verification project in TLA+

Sub2API is an AI API gateway: it resells access to upstream model providers,
takes payments, meters every request and charges balances, subscriptions, API
keys and upstream accounts.  The backend is a Go service (Gin, ent, MySQL,
Redis) of which several instances may run against the same database.  This
directory models the parts where a mistake costs somebody money or lets two
things happen that must not happen together, checks the models with TLC on
small instances, and proves with TLAPS, for every instance, every invariant and action
property that TLC checks on a passing run.

Paths below are relative to `src/backend/internal/` unless they start with
`src/`.

## 1. Inventory

### 1.1 Components that are modelled

| Component | State it keeps | Operations | Who else touches that state |
|---|---|---|---|
| Payment order (`service/payment_order.go`, `payment_order_lifecycle.go`, `payment_order_expiry_service.go`) | a row of `payment_orders`: status, paid_at, payment_trade_no, expires_at, updated_at | create, cancel, expire, verify, reconcile | fulfilment, refunds, the provider |
| Fulfilment (`service/payment_fulfillment.go`, `redeem_service.go`, `subscription_service.go`, `handler/payment_webhook_handler.go`) | the same row, the redeem code of the order, balance or subscription, the audit log | confirm, fulfil, rebate, complete, fail, retry | every handler that learns of a payment |
| Refund (`service/payment_refund.go`, `payment_amounts.go`) | the same row, the user's balance or days, the provider's refunds | request, prepare, execute, roll back | fulfilment, gateway requests that spend |
| Idempotency (`service/idempotency.go`, `repository/idempotency_repo.go`, `service/idempotency_cleanup_service.go`) | a row of `idempotency_records` per key | execute (claim, replay, reclaim, mark), cleanup | all requests with the same key, all instances |
| System operation lock (`service/system_operation_lock_service.go`) | one such row | acquire, renew, release | update, rollback and restart handlers |
| Usage billing (`repository/usage_billing_repo.go`, `service/gateway_service.go`, `service/usage_record_worker_pool.go`, `repository/dashboard_aggregation_repo.go`, `service/dashboard_aggregation_service.go`) | dedup and archive tables, rows of user, key and account, the pool's queue | submit, apply, archive, stop | every gateway request, the retention jobs of all instances |
| OAuth token refresh (`service/oauth_refresh_api.go`, `token_refresh_service.go`, `claude_token_provider.go`, `token_cache_invalidator.go`) | credentials of an upstream account, its status, a lock and an access token in Redis, a mutex per process | refresh (loop and request), recover, disable, invalidate | every instance's loop, every request that needs the token, the provider, which spends a refresh token when it is used |
| Token statistics (`service/tokenstat/`, `repository/tokenstat/`) | counters and versions in Redis, dirty and processing sets, aggregates and period states in MySQL, quota baselines | enqueue, add, sync, finalize a period, reset a quota | every request, every instance's sync and finalizer, administrators |
| Scheduler snapshot and outbox (`service/scheduler_snapshot_service.go`, `repository/scheduler_cache.go`, `scheduler_outbox_repo.go`, `account_repo.go`) | rows of `scheduler_outbox`, a watermark, per bucket a versioned list, per account an entry | change an account, poll, rebuild, read with fallback, clean up | every change of an account, every instance's poller and rebuild, every request on a cache miss |
| Concurrency slots (`service/concurrency_service.go`, `repository/concurrency_cache.go`, `handler/gateway_helper.go`) | per user a sorted set of slots and a wait counter in Redis | acquire, wait and poll, give up, release, expire, clean up at start | the requests of all instances, every instance that starts |

How they interact: a webhook, a user's call, a ticker and an administrator all
end in the same functions on the same order row; there is no lock but the
`WHERE status IN (...)` of the updates.  Balance orders are granted through a
redeem code, subscription orders through the subscription service; both then
accrue the inviter's rebate and complete the order.  A refund starts where
fulfilment ends and works on the same status column.  Payment and system
handlers are wrapped in the idempotency coordinator, whose table also carries
the system operation lock.  Gateway requests hand their usage to a worker pool,
which applies it in one transaction, and the tokens they used to the statistics,
on which token quotas are enforced.  Before that a request takes one of its user's
slots, or waits for one.  The scheduler picks an upstream account from
the snapshot, and the token provider supplies the access token for it; a refresh
that fails changes the account, which goes through the outbox again.

### 1.2 Components that are not modelled

Leader lock, platform quota flusher and user message queue
have shared state and races of their own; section 8 says in which order they are
to follow.  The billing cache has them too, but nothing is decided on what it
holds: `CheckBillingEligibility` (`service/billing_cache_service.go:709`) no longer
compares a cached balance or subscription with anything, so a stale entry has no
effect that a property could be about.  Protocol translation and streaming in the gateway,
settings, setup, backup, monitoring and moderation are I/O or reporting.  The
ent client is generated, and the Vue front end changes nothing except through
the handlers.  RBAC evaluation is a pure function that its unit tests cover.
`PROJECT.json` lists each with its reason.

### 1.3 What is hard here

* **Interleaving.**  Between any two statements of a handler another handler
  may run: a cancel that asked the provider before the payer paid, two
  deliveries of one notification, a retry checked before and applied after a
  completion, two administrators refunding one order, a list loaded before a
  change and stored after it, a counter read before its version.
* **Partial failure.**  Orders, goods, rebates, audit rows and the provider are
  changed one after the other.  Any of the statements can fail, several errors
  are only logged, and the next attempt has to find out what was done.
* **Process death.**  Statuses such as RECHARGING, REFUNDING and `processing`
  are locks held in the database by a handler that may be gone.  Locks in Redis
  expire by themselves, also under a holder that is only slow; a processing set
  or a spent refresh token does not come back.
* **Unreliable delivery.**  Providers repeat, delay and reorder notifications
  until one is answered with 2xx; an answer given too early ends them.  Outbox
  rows become visible in another order than their ids.
* **Time.**  Orders expire, a grace period is measured on a column that other
  updates refresh, leases are renewed, records expire under a running request.
* **Limits.**  Exact crossings of quotas, a full queue, amounts within a tolerance.

`PROJECT.json` lists the hazards at their lines, with the properties about them.
No property is about the following ones.  Modelled, but without a promise to check: an Add
that timed out after its script had run is repeated and counts twice
(`service/tokenstat/async_pipeline.go:164`); a full queue drops usage, as documented (`:98`);
a period whose DELETED could not be stored stays PERSISTED (`repository/tokenstat/period_finalizer.go:126`); the order
of assignments in `repository/usage_billing_repo.go:208` and the refreshed
`updated_at` of `service/payment_order_lifecycle.go:183` (see 3.3); an entry written
after its account was deleted (`repository/scheduler_cache.go:166`), which no list
names.  Not modelled: a stored response that was cut
(`service/idempotency.go:451`), a quota snapshot that overwrites a reset
(`service/user_platform_quota_flusher.go:191`), a job that outlives its leader lock
(`service/leader_lock.go:46`).

### 1.4 What makes each component correct

* Payment order: credited at most once, only after a recorded payment of the
  right amount; completed only when credited; a recorded payment is never lost;
  a payment does not hang half-way.
* Refund: one at a time; the user is charged for it once; the order's status
  says what really happened at the provider and to the user.
* Idempotency: one owner of a record at a time; replays are genuine; an
  operation is not repeated while its record lives.
* System operation lock: one system operation at a time.
* Usage billing: each request charged once and completely; each exhaustion
  signalled once; accepted tasks are carried out.
* OAuth refresh: no refresh token is dropped or replaced by an older one; an
  account is disabled only when its token is really lost; a token that is due is
  renewed; an old access token does not stay in the cache.
* Token statistics: usage that MySQL lacks is always marked for a sync; history
  does not go back; a counter is deleted only when MySQL has it; a reset covers
  what was used before it; every counter is persisted and every period cleared.
* Scheduler snapshot: what is served lags behind the database only while a
  change is on its way; every outbox row is consumed; once changes stop, what is
  served becomes current and stays so.
* Concurrency slots: the limit holds across instances; without a failure no slot
  is left behind, and one that is left behind is freed in the end; the wait counter is the
  number of waiters, apart from losses that can be named.

## 2. Modules

| Module | Models | Extends / instantiates |
|---|---|---|
| `PaymentLedger` | abstract specification: what an order promises its payer | |
| `PaymentOrder` | order life cycle and fulfilment, as concurrent handlers | instantiates `PaymentLedger` |
| `PaymentRefund` | refunds, composed with the order over the same row | extends `PaymentOrder` |
| `IdempotencyStore` | the statements of `idempotency_repo.go` on one row | |
| `Idempotency` | `IdempotencyCoordinator.Execute` | extends `IdempotencyStore` |
| `SystemOperationLock` | the lease of system operations | extends `IdempotencyStore` |
| `UsageBilling` | worker pool, billing transaction, retention of claims | |
| `OAuthRefresh` | background loops and requests that renew one OAuth account | |
| `TokenStatistics` | pipeline, accumulator, sync engine, period finalizer, quota reset | |
| `SchedulerSnapshot` | changes of an account, outbox, pollers, rebuilds, cached lists | |
| `ConcurrencySlots` | slots and wait counter of one user, requests and instances | |
| `MC...` | symmetry sets and constant functions for TLC | the module they name |
| `PaymentProofs` | theorems about `PaymentOrder` and `PaymentRefund` | extends `PaymentRefund` and `TLAPS` |
| `IdempotencyProofs`, `SystemOperationLockProofs`, `UsageBillingProofs`, `OAuthRefreshProofs`, `TokenStatisticsProofs`, `SchedulerSnapshotProofs`, `ConcurrencySlotsProofs` | theorems about the module they name | extend it and `TLAPS` |

### 2.1 The style of the models

A handler is a process with a program counter; one action is one statement on
the database, one transaction, or one call of the provider, since those are the
points between which others may run.  A function that is a single statement
with several outcomes is one action with one disjunct per outcome.  The `WHERE`
clause of a conditional update is an operator of its own (`LockWhere`,
`CancelWhere`, `ResetWhere`, `Confirmable`, `Reclaimable`, ...), because these
clauses are the only synchronisation the code has.

Failures are disjuncts guarded by `Fault(k)`, which takes one from a budget
`MaxFaults` and is possible only if the kind `k` is in `Faults`.  The code after
the failed statement is followed as written: some errors end the handler, some
mark the order FAILED, some are logged and ignored.  The death of a process is
the fault `"crash"`: the handler disappears, the database keeps what it has.
The four modules on Redis (2.6 to 2.9) have a plain `Fault` with one budget for
all kinds, where in 2.6 to 2.8 a lock that expires under its holder counts as a fault as well;
a failed call is one that had no effect or one whose answer was lost, where both
can happen.

Where the code leaves a race open that a property must not deny, a history
variable records that it has happened (`unlocked`, `lost`, `blind`, `revived`,
`excused`, `missed`, `torn`, `late`, `overran`, `broken`, `swept`,
`overlapped`, `hidden`) or how often (`over`, `under`, `drops`), and the property holds except there.  No guard reads one of these.

Definitions introduced by "A faulty variant" are not part of the models: each is
a plausible slip in the definition that follows it, kept beside it to
demonstrate that the property named in `PROJECT.json` notices it.

### 2.2 PaymentOrder

`status`, `paidAt`, `tradeNo`, `updatedAt` and `expiresAt` are the columns of the
row.  `updatedAt` is kept because `toPaid` measures the grace period on it, and
because every ent update refreshes it.  `code` is the redeem code of a balance
order.  `credited` counts how often the user received what the order sells (the
balance, or the extension of the subscription) and `rebates` the inviter's
rebate; an order without inviter writes its AFFILIATE_REBATE_SKIPPED row at the
same place and counts as settled.  `audit` holds the audit rows that later steps
look up; all others are left out.  `upstream` and `paidAmt` are the provider's side, and
`acked` says that a delivery was answered with 2xx, after which the provider
sends no more.

| Action | Code |
|---|---|
| `CreateOrder`, `InvokeProvider`, `SaveTradeNo`, `CreateFail` | `CreateOrder`, `createOrderInTx`, `invokeProvider` |
| `CancelOrder`, `ExpireTimedOutOrders`, `VerifyOrder` | entry points of cancel, sweep, verification; the WeChat reconciliation is the same call on pending orders |
| `CheckPaid`, `PersistTradeNo`, `CloseUpstream`, `CancelCore` | `checkPaidWithOptions`, `cancelCore` |
| `Webhook`, `ConfirmPayment`, `AlreadyProcessed` | webhook handler, `HandlePaymentNotification`, `confirmPayment`, `toPaid`, `alreadyProcessed` |
| `RetryFulfillment`, `RetryReset` | the administrator's retry |
| `ExecuteFulfillment`, `LockOrder` | `ExecuteBalanceFulfillment`, `ExecuteSubscriptionFulfillment` |
| `ResolveRedeemAction`, `CreateCode`, `Redeem` | `doBalance`, `resolveRedeemAction`, `RedeemService.Redeem` |
| `CheckAssigned`, `AssignSubscription`, `AuditAssigned` | `doSub`, `hasAuditLog`, `AssignOrExtendSubscription` |
| `ApplyRebate`, `MarkCompleted`, `MarkFailed` | `applyAffiliateRebateForOrder`, `markCompleted`, `markFailed` |
| `PayUpstream`, `Tick`, `Crash` | the payer, the clock, the death of a process |

The trade number of the row may stay empty: creation need not return one, and the
answer to a query may bring none or only the reference it was asked with, which
`paymentOrderShouldPersistUpstreamTradeNo` refuses.  `seen` is the number a handler
has in hand, as it read it or as the answer brought it; `CheckPaid` goes on to
`PersistTradeNo` or straight to `ConfirmPayment`, and `toPaid` stores what it is
handed.  A notification is assumed to carry a number.

A failed load of the provider in the webhook handler has the same effect as a
failed read of the order in `confirmPayment` (a 2xx with nothing recorded) and
is the same fault, `"read"`.  The clock starts with the order.  The limits on
pending orders and daily amounts concern several orders and are not modelled.

### 2.3 PaymentRefund

`rpc` and `plan` are a refund handler and its `RefundPlan`.  `Holding` is the
user's balance, or the days left of a subscription; `spent` is what gateway
requests (or the calendar) use up concurrently, `deducted` what refunds have
taken and not given back, `gwRefunded` what the provider has paid back.  Steps
follow `ExecuteRefund`: lock, deduct, gateway, then `markRefundOk`, or rollback
and `restoreStatus`, or REFUND_FAILED when the rollback fails too.  The final
update has no `WHERE` on the status, which is why `RefundExclusive` matters.  The
gateway step is skipped for an order without trade number; the audit row
REFUND_NO_TRADE_NO is then all that tells it from an order that was paid back.  A subscription
that would not outlive the deduction is revoked, which cannot be rolled back.

### 2.4 IdempotencyStore, Idempotency, SystemOperationLock

One row of a scope and a key, with the repository's statements as operators;
`NULL` in `locked_until` is 0.  `Idempotency` adds requests that read the time
once, claim the row with INSERT IGNORE, or read it, compare the payload, reclaim
it when it is expired or failed, replay it when it succeeded, and mark it at the
end.  `ran` is the history of operations that took effect.  `SystemOperationLock`
adds operations, each of which uses its own id as the fingerprint, and the
renewal goroutine, which is due every `Interval`.  `overran` records operations
that ran on after the end of a lease they had taken over: they cannot renew it
(3.3), and when they end, `Release` marks the record by its id alone, whoever has
taken it over since, so that a third operation gets in beside that one.
`LeaseExclusive` therefore excepts overlaps over a record that somebody overran.

### 2.5 UsageBilling

Tasks go through the pool (`Submit`, `Dequeue`, `Stop`) or run in their handler
when the queue is full and the policy says so.  `ClaimKey` to `Commit` are the
statements of `Apply`; effects become visible at the commit, and rows stay locked
until then.  `StartCleanup`, `ArchiveBatch` and `DeleteBatch` are the retention jobs,
one per instance: a job fixes its cutoff (`expired`, the rows older than it), then copies
a batch and deletes a batch until a batch is not full.  Both statements select the
rows with the lowest ids (`Batch`), so that the second takes others than the first
when another job has deleted in between.  The scheduled job has the leader lock; the ones at a
start (`recomputeRecentDays`) and of a backfill do not.  `drops` and `lost` count the
claims deleted unarchived and their costs, `overlapped` says that a DELETE fell between
the two statements of another job.  The cutoff is assumed to lie in the past, as it
does unless a backfill is given an end in the future.  `KeyStatusAfter` keeps MySQL's left-to-right
evaluation of assignments, which decides what the statement does.

### 2.6 OAuthRefresh

Credentials are their generation: the provider issues generation g+1 for the
refresh token of g and thereby spends it; with a spent token it answers
`invalid_grant`.  `db` is the account's row, `issued` the provider's side, `due`
the refresh window.  A worker is a background loop (`ProcessRefresh`, retries as
in `refreshWithRetry`) or a request (`GetAccessToken`); both run
`RefreshIfNeeded`: `LockLocal`, `AcquireRefreshLock` (an error of Redis means going on
without a lock), `Reread`, `Refresh`, then `PersistAccountCredentials` or
`TryRecoverFromRefreshRace`, and `Release`, a DEL without an owner check.  The
loop then clears or sets `temp_unschedulable`, invalidates the cached token
or disables the account; the request compares its token's version with the stored one
(`CheckTokenVersion`) and caches it.  `alias` keeps that a failed re-read makes
`freshAccount` the caller's own object, which decides what a recovery compares.
The same object lets a worker whose update failed go on with a generation nobody
else has: after another worker has given the account up, it can renew it
(`revived`), and the row is current again while the status still says `error`.

### 2.7 TokenStatistics

A field is one counter.  `TryEnqueue`, `Dequeue` and `Add` are the pipeline, whose
`DynamicAddScript` adds the tokens, raises the versions and marks the fields dirty
in one Lua script.  `AcquireSyncLock`, `RotateDirtySet`, `ReadCount`,
`ReadVersion`, `Upsert`, `DelProcessing`, `Requeue` and `ReleaseSyncLock` are a sync,
run by the scheduled loop and at the start of a finalization; value and version
are read by two commands, between which an `Add` may fall (`torn`).  A processing
set whose requeue failed or whose process died is found by nobody (`orphans`).
`BeginFinalize` to `MarkDeleted` are `Finalize`, which collects the versions, verifies
them against MySQL and unlinks the keys; `late` marks fields added to after that
collection.  `BeginScan`, `ScanCurrent`, `ListAggregateIdentities`, `Snapshot` and
`ResetReturns` are a quota reset, and `EffectiveUsage` is what the quota check subtracts.
The scan is one `SScan` per page, and a page is any part of the set: `unscanned` has
the identities that were there at the first page and have not come yet, and a `RENAME`
in between (`DirtySetGoes`) moves them to `hidden`, with those that a sync held when the scan began.
An identity leaves `hidden` when it comes in a later page or MySQL has a row for it.
Counters of a period may come when it has been closed: an event carries its
own time.

### 2.8 SchedulerSnapshot

One account; a state of it is the number of the change that led to it, so older
and newer can be compared.  The repository writes in three ways.  `Change` is a
statement followed by the outbox row and a refresh of the account's entry, `ChangeInTx` a
transaction that contains the row.  `ChangeUnannounced` writes no row: `UpdateCredentials`
and `UpdateExtra` with keys that do not matter to scheduling only refresh the entry, and a
failure of that is logged; `UpdateSessionWindow` without times and `IncrementQuotaUsed`
below the limit leave the entry alone too.  What such a change leaves behind counts as
excused until it is loaded again.  `AllocateId` and
`Enqueue` are apart because MySQL hands out the id before the row is visible.
`dedup_key` swallows an event while an unconsumed one has the key.  A poller
runs `GetOutboxWatermark`, `ListAfterAndReleaseDedup`, the handlers of each row,
`SetOutboxWatermark`, `CleanupConsumedOutbox` and `CheckOutboxLag`; `batchSeenKey`
lets one poll rebuild a bucket once.  A rebuild (`TryLockBucket` to `UnlockBucket`) is
run by pollers, by the full rebuild and, without the bucket lock, by a request
that misses the cache; a list becomes visible by `Activate`, which refuses a version older
than the active one.  `line` holds the versions that were handed out and are not
superseded, in order: only their order matters.  `excused` records the unannounced
changes and the races the comment at `StaleIsExplained` lists.  A row is `missed` when a poll had passed its
id before it was inserted, and with it the events its `dedup_key` swallows.  An id
counts as passed (`Overtaken`) when
it is not above the watermark, or not above where a running poll began or
ended its read: a slower instance may have moved the watermark back, but the
poll that is ahead of it will skip the row and move the watermark on.

### 2.9 ConcurrencySlots

The slots and the wait counter of one user; account slots use the same scripts in
the same order.  `slots` is the sorted set, written as the requests its members
belong to, `age` the time since a member's score was set, `waiting` the counter.
A request goes through `Arrive`, `TryAcquire`, `JoinQueue`, `Poll` until it is
granted a slot or `GiveUp`, then `Leave` (the deferred decrement) and `Release`.
Each Lua script is one atomic step.  `Release` stands for the end of the handler and for
`context.AfterFunc` on a client that has gone, of which `wrapReleaseOnDone` lets
one act.  A cancelled context stops a call before it is sent; release and
decrement have contexts of their own.  The Redis client is created without
`MaxRetries`, so it repeats a command whose answer was lost, with the same
arguments: for a slot that is the same member again, for the counter it counts
twice (`AcquireReplyLost`, `JoinReplyLost`, `LeaveReplyLost`).

`SweepSlots` and `DeleteCounters` are `CleanupStaleProcessSlots`, which runs before
the instance serves.  `RemoveExpired` is every script that drops
expired members and the key's own EXPIRE.  `CounterExpires` requires that nobody
waits: the counter's TTL, refreshed by each increment, is taken to be longer than the
30 seconds a request waits.  By default it is 120 seconds; it comes from the
configuration (`repository/wire.go:25`), and nothing ties it to the wait.

`broken` has the requests that a failure of a slot call or a crash has hit, `swept` the running ones
whose slot a starting instance removed, `over` counts increments that nobody will
take back, `under` decrements for which nobody was counted, which includes
requests let in because their increment failed.

## 3. Runs

### 3.1 Runs that pass

| Run | States | What it shows |
|---|---|---|
| `order_balance` | 0.8 M | two handlers, right and wrong amounts, two failures of any kind: one credit, only for a payment, under an exclusive lock, one rebate, nothing lost, and all of it as the ledger allows |
| `order_settles` | 0.2 M | liveness, on a subscription order: a full payment ends in a completed order, or was acknowledged while the order was closed |
| `refund_balance` | 2.1 M | two refund handlers beside two order handlers: exclusive, one deduction, money back exactly when the status says so, or none for an order without trade number, and still as the ledger allows |
| `refund_subscription` | 0.16 M | a subscription order with one order handler, two refund handlers, three failures, days instead of money, revocation, and a provider whose answer is lost: granted once, and nothing taken from an order that stands as completed |
| `idempotency_key` | 1.3 M | one owner at a time, genuine replays, no repetition in the record's first life |
| `oplock_lease` | 1.5 M | the creator keeps the lock beyond its first lease; overlaps need a record that somebody took over and kept beyond the lease |
| `billing_pool` | 0.1 M | with retention jobs on two instances: each request charged once and completely, unless overlapping jobs deleted its claim; crossings reported once, accepted tasks executed |
| `oauth_refresh` | 0.15 M | two instances and a request, two failures of any kind, deaths and expired locks: no token dropped or replaced by an older one, accounts disabled only for a lost token or a named reason, old access tokens kept out of the cache, renewal in the end |
| `tokenstat_settles` | 0.3 M | usage is marked until MySQL has it, history advances, versions tell values, deletion only of what is persisted; after a quota reset what was used before it no longer counts, unless reported, or held by a sync at the scan or renamed away during it; usage is persisted and the period cleared in the end |
| `scheduler_snapshot` | 0.25 M | changes with and without a row, last-used updates, a poller, full rebuilds, requests and a failure: stale lists and entries only while a change is on its way, after one that has no row or after a named race; rows are consumed; what is served becomes current |
| `slots` | 0.3 M | three requests on two instances that start, serve and crash, limit and queue of one, clients that disconnect: the limit holds for slots within their TTL that no start removed, only a failure leaves a slot behind, and not for ever, the counter differs from the waiters by named losses |

Every module states the types of its variables.  They were checked with the same
configurations and are not listed again, and the proofs of section 5 include them,
but for the bounds on ids and versions in `SchedulerSnapshot`.  Three more properties
of payments are proved and were checked, but have no place of their own in the
runs, since the refinement of the ledger, which the same runs check, covers most of what they say:
`CompletedIsCredited`, `RefundIsFinal` and, for balance orders, `CreditedAtMostOnce`.

### 3.2 A run that shows a disagreement

`tokenstat_lost` states what `src/.mvp-list/configurable-token-statistics-quota-mvp-list/MVP-007-period-finalization.md:15`
says, that a scheduled deletion must not lose data that was not synced.  TLC
finds: a sync reads a counter, an `Add` falls before it reads the version, and the
row gets the old value under the new version.  The next sync of that counter finds no
newer version and changes nothing, the finalizer finds the versions equal, and the
counter is unlinked.  No failure is needed.

### 3.3 Deviations seen while modelling, without a run of their own

The behaviours below are in the models and each was seen as a TLC
counterexample to the sentence quoted, before the list of runs was narrowed down
to the questions above.

* "subscription already assigned for order, skipping", logs
  `payment_fulfillment.go:444` where a retry is meant not to assign again.  The
  extension and its SUBSCRIPTION_ASSIGNED row are two statements; if the second,
  or the read between them, fails, a retry extends again.  `CreditedAtMostOnce` is
  therefore checked and proved where `GrantIsKnown` holds.
* "Balance top-up is processed automatically upon successful payment — no manual
  intervention needed", says `src/docs/PAYMENT.md:214`.  A process
  that dies in RECHARGING leaves an order that notifications, retries and sweeps
  all leave alone, and so does an attempt that fails and whose `markFailed` fails too
  (`payment_fulfillment.go:627`).  `order_settles` therefore has neither of the faults
  `"crash"` and `"mark"`.
* "concurrent same-key requests should execute business side-effect once", says
  `idempotency_test.go:394`, which tests the first claim.  Two requests
  that read the same expired succeeded row reclaim it one after the other, as the
  second finds `succeeded` and no lock again.
* `system_operation_lock_service_test.go:65` says that `locked_until`
  "should be renewed while lock is held".
  `TryReclaim` keeps the old fingerprint and `ExtendProcessingLock` compares the new
  one: a taken-over lock is never renewed.  With four operations the late
  `Release` of one that outlived it frees the lock of the next, and two overlap
  that are both within their lease; see `overran` in 2.4.
* `usage_billing_repo_integration_test.go:76` expects a key to be marked when its
  quota is used up.  MySQL assigns from left to right, so the CASE for `status` sees the
  `quota_used` assigned before it and adds the cost twice: the key is marked one
  charge early, or never.
* `MVP-006-mysql-sync.md:11` and `:43` say that a sync can be repeated and retried
  safely without missing a dirty mark.  A finalizer can delete a counter whose member another sync holds;
  when the member is requeued every later sync fails at it
  (`sync_engine.go:78`).  `Poisoned` names this state.
* The comment at `scheduler_outbox_repo.go:132` says that ten seconds of grace let
  rows of slow transactions be consumed.  The poll reads only ids above the
  watermark, so such a row is never read, and its `dedup_key` swallows the
  account's next events until the row is cleaned up.  The full rebuild repairs the
  lists, which is what `ServedBecomesCurrent` rests on.
* The comment at `concurrency_service.go:52` says that the clean-up at start removes
  what old processes left behind.  `startupCleanupScript` (`concurrency_cache.go:209`)
  removes every member without the starting process's own random prefix: when
  a second instance starts, the slots of requests running on the first one go, and
  as many requests are let in beyond the limit.  `LimitHolds` therefore excepts `swept`.
* `concurrency_service.go:442` says of `IncrementWaitCount`: "Returns true if successful,
  false if the wait queue is full."  It also returns true when the increment was not
  executed because the client has gone, and `gateway_helper.go:258` defers the
  decrement all the same, under a context of its own.  Each client that disconnects
  between its refused attempt and its increment takes another waiter's count away, and
  with Redis healthy more requests wait than the queue has places; `under` counts them.
* `concurrency_service.go:41` says that the counter's TTL is set only when the counter
  is created; `incrementWaitScript` (`concurrency_cache.go:141`) refreshes it every time.
* A payment confirmed after the grace period is acknowledged by
  `alreadyProcessed` and recorded only in a log line, while `src/docs/PAYMENT.md:260`
  promises automatic reconciliation.  `PaymentSettles` therefore has its
  second alternative.
* The same alternative covers `confirmPayment` answering a failed read with nil
  (`payment_fulfillment.go:73`): for a pending order the sweep repairs it, for a
  cancelled one nobody does.
* One failed statement between `toPaid` and the lock leaves an order PAID:
  repeated notifications get an error and only an administrator's retry helps.
  `order_settles` assumes such an administrator.
* `checkPaidWithOptions` stores the trade number of an EXPIRED order first, which
  refreshes `updated_at` and so reopens the grace period
  (`payment_order_lifecycle.go:183`).
* `CreateOrder` stores FAILED when the provider refuses the payment; the document
  says an administrator can retry FAILED orders, but this one has no `paid_at`
  and is rejected.
* When the rollback of a refund fails and its REFUND_ROLLBACK_FAILED row is lost
  too, the retried refund takes the amount a second time (`payment_refund.go:287`).
  `refund_balance` therefore leaves out the fault `"audit"`.
* An order that a query has confirmed without bringing a trade number is refunded without
  asking the provider (`payment_refund.go:326`): it becomes REFUNDED, what
  was deducted from the user stays deducted, and nothing was paid back; only the audit row REFUND_NO_TRADE_NO says so.
  `RefundedIsPaidBack` has this case as its second alternative.
* `service/usage_billing.go` describes a command as "one billable request that must be
  applied at most once".  When the retention jobs of two instances overlap, the DELETE of one
  takes claims that neither has archived, because the rows it had copied are gone already;
  a request that is repeated after that is charged again.  `ChargedOncePerRequest` allows one
  charge more for each such deletion, and shows that it takes an overlap.
* `reset_identity_sources.go:18` promises "one complete cursor traversal of the current dirty
  set".  A sync that renames the set between two pages ends the traversal early: an identity that
  was dirty when the reset began and has no row in MySQL yet is not reset, and not reported.
  `ResetCoversUsage` excepts it (`hidden`).
* `UpdateCredentials` tells the outbox nothing (`account_repo.go:446`); when its refresh of the
  entry fails, the cache keeps the old credentials until the next change or full rebuild.
  `StaleIsExplained` excepts entries not loaded since such a change.
* `Execute` refuses every request that meets a `processing` row, whatever its
  `locked_until` says, so after a death the key is blocked for the whole TTL
  rather than for the processing timeout (`idempotency.go:346`).

### 3.4 Bounds, and why they are enough

* Two order handlers (one in `refund_subscription`) and two refund handlers.  The interactions are all between
  one handler and the row changed by another one, and the lock statuses admit one
  holder; the theorems of section 5 lift the properties to any number.
* Two failures (three in `refund_subscription`): enough for a failed attempt whose error handling fails too, and
  for a failed attempt followed by a failed retry.  `order_settles` uses one,
  since each more only delays the last, successful attempt.
* Amounts `{1, 2}` against a price of 2 with tolerance 0 tell a wrong payment from
  a right one; refunds of 1 and 2 tell a partial refund from a whole one; `Opening` and
  `MaxSpend` are such that the balance can be above, at and below what is taken.
* Times: `Timeout`, `Grace` and `MaxTime` leave room for before, at and after
  the expiry, and before and after the grace period.  In `order_settles` the
  grace is 0 for that reason.
* `idempotency_key`: `MaxTime` exceeds the TTL, so that records expire, are reclaimed and
  cleaned up in the run.  `Timeout` exceeds `MaxExec`, as the configured
  processing timeout is meant to exceed every request; with a longer request
  exclusivity after an expiry is lost.  The theorems have the same hypothesis.
* `oplock_lease`: the lease is 6 and renewed every 2, as in the code's one third;
  operations may last 8, longer than a lease.  Three operations: one that
  leaves a record, and two that compete for it.  Four, with a lease of 3 renewed
  every 1, were checked as well.
* `billing_pool`: a submission, the same id again with another payload, and
  another request; quota 3 and limit 4 are passed over and met exactly by the
  costs 1 and 2.  The policy `"sample"` contains both others.  Two jobs with batches of one
  row and three runs together: enough for one to take the row that the other has copied,
  and the other then the next, unarchived, with the repeated task after that.
* `oauth_refresh`: two processes with a loop each and one request; two
  generations, since each renewal starts from a stored token as the first one
  does; two attempts; two failures, so that a lock can be lost and the recovery
  from it fail.  What needs more (`revived` needs three generations and three
  failures) is covered by the proofs.
* `tokenstat_settles`: two events, one for both fields and another for the field of the closing
  period, one queue slot, one failure, no retry of an `Add`.  One field is in the reset's scope:
  a page may leave it out, and then come before or after a `RENAME`.  Safety was checked as
  well with both events for both fields and a retry (4.5 M states) and with two loops and
  two failures (4.9 M), liveness with both events for both fields and a retry, without a
  reset (0.15 M).
* `scheduler_snapshot`: `Budget` 2 is shared by changes, last-used rows and failures: two changes,
  or a change and a failure at any place.  The rebuilder also
  plays the request.  Checked as well: `StaleIsExplained` with `Budget` 3 (3.7 M states), and
  two pollers without rebuilds, with `OutboxDrains` (0.35 M).
* `slots`: with a limit and a queue of one, three requests are one that runs, one that
  waits and one that is turned away; the third comes to the other instance.  One failure;
  safety was also checked with two (1.4 M) and with a TTL of two ticks (0.7 M), and
  that every wait ends, with two requests.

Symmetry is used in runs without liveness only, over handlers, requests or
operations that no property names.  Deadlock is not checked as such: the models
of payments, idempotency and billing stop when their clock, tasks and failures are
used up, and the tickers of the others hide a process that waits.  That nobody
waits for ever is stated by `PaymentSettles`, `AcceptedTasksFinish`, `TokenIsRenewed`,
`UsageIsPersisted`, `PeriodIsCleared`, `OutboxDrains` and `ServedBecomesCurrent`; that a slot
is not occupied for ever, by `LeakEnds`.

## 4. Fairness

* `WF(Step(w))`: net/http and the background services run a handler to its end
  unless the process dies; in `order_settles` it does not (see 3.3).
* `SF(~acked /\ Webhook)`: providers repeat a notification until they get a 2xx.
  The code relies on it by answering with an error while an order is being
  processed.  Strong fairness only because the model has a fixed number of
  workers; the server starts a goroutine per delivery.
* `WF(Tick)` and `SF(ExpireTimedOutOrders)`: the expiry service sweeps at every
  tick of its interval.
* `SF(RetryFulfillment)`: an administrator retries what can be retried.  This is
  not guaranteed by code but by people, and is named as an assumption.
* Billing: `WF(Dequeue)`, the pool's workers go on; `SF(Apply(t))`, a statement
  that waits for a row gets it eventually, as InnoDB queues its waiters.
* OAuth: `WF` of each worker's steps and of each loop's ticker, of the end of
  `temp_unschedulable` and of the TTL of a lock whose holder has gone.
* Token statistics: `WF` of the workers, of the tickers and steps of syncs and
  finalizers, and of the lock's TTL.  The ticker finalizes the day, week or month that
  ended last (`period_finalizer.go:60`) and never an earlier one, so `WF(BeginFinalize)` takes the
  length of a period for long enough: a period that is not cleared before the next one
  ends stays.
* Scheduler: `WF` of the steps of writers, pollers and rebuilds, of the full
  rebuild's ticker, and of the lock's TTL.
* Slots: `WF(Tick)`, and `WF(RemoveExpired)`, since every script on the key drops
  expired members, and without one the key expires as a whole.

In OAuth, token statistics and scheduler a process that dies is started again.  Cancels, verifications,
payments, usage, changes, resets, requests and faults are never assumed to happen.

## 5. Proofs

### 5.1 Payment orders

`PaymentProofs`, up to its refund part, is about `PaymentOrder` for every set of workers, amounts,
tolerance, timeout, grace, clock bound, and kinds and number of failures, under
the assumptions that `PaymentOrder` states on its constants:
`OrderTypeAssumption`, `AmountAssumption`, `TimeAssumption`, `FaultAssumption`.

| Theorem | States |
|---|---|
| `TypeCorrect` | `TypeOK` |
| `OrderInvariant` | the inductive invariant `OrderInv` |
| `FulfilmentIsExclusive` | `FulfilmentExclusive` |
| `CreditIsPaidFor` | `CreditNeedsPayment` |
| `CompletionIsCredited` | `CompletedIsCredited` |
| `RebateIsOnce` | `RebateAtMostOnce` |
| `PaidIsKept` | `PaidStaysPaid`, an action property |
| `CreditIsOnce` | `CreditedAtMostOnce`, assuming `GrantIsKnown` |
| `OrderImplementsLedger` | refinement of `PaymentLedger`, assuming `GrantIsKnown` |

The argument.  None of the properties is inductive alone.  `OrderInv` is the
conjunction of

* `TypeOK`;
* `CreationInv`: one handler creates the order, and nobody can pay before it has
  handed out the link.  Without it `CreateFail`, whose update has no condition,
  could overwrite the status of a paid order;
* `PaymentInv`: which statuses have a recorded payment, and that a handler past
  the confirmation works on a paid order of the right amount.  It makes the
  unguarded steps between the confirmation and the lock harmless;
* `FulfilmentExclusive`: RECHARGING is held by the one handler that is fulfilling.
  It is inductive because only that handler leaves the status;
* `GoodsInv`: a balance order is credited exactly when its code is used, a rebate
  is accrued exactly when its claim is in the log, and a handler that has passed
  the grant, or the rebate, knows it was made.

`GrantInv` adds for subscriptions that a grant is in the audit log or about to be
written there by the handler that holds the lock.  It is preserved only under `GrantIsKnown`: the order sells
balance, or neither the audit log nor the read after the grant can fail.
The first entry of 3.3 shows that the assumption is needed.  A process death between
grant and audit row leaves the order RECHARGING for ever, so it is granted once
(and never completed, see the second).

Each conjunct has its own step lemma (`CreationStep`, `PaymentStep`,
`ExclusiveStep`, `GoodsStep`, `GrantStep`), which goes through the actions one by
one.  The refinement maps the row to the ledger's phase (`Phase`) and `credited`
to what was granted; `LedgerMoves` classifies each step as one of the ledger's
moves or a stutter, and `LedgerStep` concludes.

### 5.2 Refunds

The rest of `PaymentProofs` is about `PaymentRefund` for every number of order and refund
handlers, every amount, opening balance and budget, under `RefundAssumption` and
the assumptions of 5.1.

| Theorem | States |
|---|---|
| `RefundInvariant` | the inductive invariant `RefundInv` |
| `RefundLock` | `RefundExclusive` |
| `RefundsKeepOrder` | `CreditNeedsPayment`, `CompletedIsCredited`, `RebateAtMostOnce`, `FulfilmentExclusive`, now with refunds |
| `RefundsAreFinal` | `RefundIsFinal`, an action property |
| `DeductedOnce`, `RestsWhole` | `DeductedAtMostOnce`, `RestedIsWhole`, if the audit log does not fail |
| `PaidBack` | `RefundedIsPaidBack`, if no answer of the provider and no audit row is lost |
| `CreditIsOnceWithRefunds`, `RefundImplementsLedger` | `CreditedAtMostOnce` and the refinement of `PaymentLedger`, assuming `GrantIsKnown` |

An order handler may still be under way when a refund begins.  `SettledStep` shows
that from COMPLETED on it changes nothing of the order but the trade number.
`OrderPart` therefore has `OrderInv` for the statuses before, and `Settled`, which no
order handler disturbs, from there on.  The way back from a refund to
COMPLETED stays within `Settled`.  `RefundExclusive` then is inductive: only the
holder leaves REFUNDING.  `DeductionInv` follows a deduction through the holder's
steps, with the audit row REFUND_ROLLBACK_FAILED (`Booked`) as the only other place
where a refund leaves something held back; `GatewayInv` does the same for the
provider, or to the row REFUND_NO_TRADE_NO when there was no trade number to ask with.
The hypotheses are needed: 3.3 says what a lost audit row does to a deduction, without its
row a skipped refund looks like one that was paid, and a provider whose answer was
lost has paid back for an order that says it has not.

### 5.3 Idempotency

`IdempotencyProofs`, for every number of requests, payloads, times and failures,
under `StoreAssumption` and `ExecAssumption`.

| Theorem | States |
|---|---|
| `RecordInvariant`, `RecordTypes` | the inductive invariant `RecordInv`, and `TypeOK` |
| `ReplaysGenuine` | `ReplayIsGenuine` |
| `OwnersAlone` | `ExecutesAlone`, if `MaxExec < Timeout` |
| `OnceInFirstLife` | `OncePerFirstLife`, if `MaxExec < Timeout` |

Replays: an id belongs to one payload for ever (`IdRow`, `IdReq`), so a body stored
under an id answers the payload of whoever compared its fingerprint with it, also
when the record was reclaimed in between (`GenuineReq`).  Exclusion: the record of an
owner is as its claim left it (`HoldsReq`), because another claim needs a lock that
ran out at the time the other request read, which is before the owner's
`t + Timeout`, and `MaxExec < Timeout` keeps the owner within it.  `GuardsRow` and
`GuardsReq` extend this to the first life: until `ran[1].t + TTL` the record is
succeeded or processing and whoever read an expired predecessor came before its
lock ran out.  The hypothesis says that a request ends within the processing
timeout, which the configuration is meant to ensure.

### 5.4 System operation lock

`SystemOperationLockProofs`, for every number of operations and all times, under
`StoreAssumption` and `LockAssumption`: `LockTypes` states `TypeOK`, and `LeaseHolds`
states `LeaseExclusive` if `MaxAcquire + Interval * (MaxFaults + 1) < Timeout` and
`Timeout <= TTL`.  The first hypothesis says that the lease outlasts an acquisition
and as many renewals as fail; with the code's third of the lease that is one failed
renewal, and with two a live holder can lose the lock.  `Holds` says of
the creator of a record that the next renewal, delayed by the failures that are
still possible (`Slack`), comes before the lock ends, and of an operation that
took a record over that it is within its lease, as long as nobody overran the record.

### 5.5 Usage billing

`UsageBillingProofs`, for every set of tasks, payloads and costs, every finite set of
requests, every pool, queue, policy, quota and limit, any number of retention jobs and
any size of their batches, under `BillingAssumption`.

| Theorem | States |
|---|---|
| `BillingInvariant` | the inductive invariant `BillingInv` |
| `ChargedOnce` | `ChargedOncePerRequest` |
| `CrossingsReported` | `CrossingsAreReported` |
| `BooksBalance` | `BooksAgree`: user, key and account are charged what the claimed requests cost |

`ChargeIsClaimed` says that a request has been charged once if its claim is in the
dedup table or in the archive, and once for every claim that was deleted unarchived;
`ClaimIsHeld` that a transaction past its claim is the only one for its request and
nobody has committed that request in either table; `OldIsClaimed` that the jobs
select committed claims only; and `MovedIsArchived` that as long as no DELETE fell between
the two statements of another job, the batch a job is about to delete has been copied
and nothing was dropped.  The last needs that a row that grows old or a commit in
between does not shift the batch (`BatchKept`): the cutoff is fixed and new ids are higher.
`KeyIsHeld`, that what a transaction read of the key is true until it commits, makes the
crossings exact.

`BooksAgree` compares a counter with a sum over a set, a fold that is defined by recursion.
The induction it needs is not taken from a theorem with an operator parameter, but
from the well-foundedness of strict inclusion on finite sets, a fact about sets: if
the fold's unrolling failed to exist or to be unique for some subset, there would be
a smallest one, and removing an element from it contradicts that.  So the sum of a set is
the term of any element plus the sum of the rest (`SumTakesOut`, `SumAdds`), and
depends on the terms only (`SumDependsOnTerms`).  `BooksInv` adds to `BillingInv` the
sum itself and that a claim copied to the archive has the payload it has in the dedup table (`CopiesAgree`).
A commit adds one claimed request and its cost to both sides; a DELETE
changes where a request is claimed but not with what, or moves its cost to `lost`
(`BooksDelete`, with `SumSplits`); every other step leaves both sides alone (`BooksStep`).

### 5.6 OAuth token refresh

`OAuthRefreshProofs`, for any number of instances, loops, requests, generations,
retries and failures, under `OAuthAssumption`.

| Theorem | States |
|---|---|
| `RefreshInvariant`, `RefreshTypes` | the inductive invariant `RefreshInv`, and `TypeOK` |
| `TokensKept` | `NoTokenLost` |
| `CredentialsGrow` | `CredentialsAdvance`, an action property |
| `ErrorsDeserved` | `ErrorIsDeserved` |
| `StaleCacheHasCause` | `StaleCacheExplained` |

`StoresNewest` is the core: a worker about to store a generation is the only one that
has it, since the provider gave it out once and spent the token before.
It needs no lock, so that the first two properties hold also when Redis fails.
`LockWorks` and `FatalIsLost` are about the case without such failures: an
`invalid_grant` that the recovery cannot explain then comes from a token that a
failure dropped.  `CacheCorrected` names the worker that will still correct the cache.

### 5.7 Token statistics

`TokenStatisticsProofs` is about `TokenStatistics` for every set of events, fields,
instances, workers, loops and finalizers, every queue capacity, number of retries
and of failures, under `TokenStatisticsAssumption`.

| Theorem | States |
|---|---|
| `Typed` | `TypeOK` |
| `UsageIsMarked` | `UnsyncedIsMarked`: usage that MySQL lacks is in the dirty set or in a processing set |
| `HistoryInvariant` | the inductive invariant `HistoryInv` |
| `VersionsTell` | `VersionTellsValue` |
| `DeletionsPersisted` | `DeletedIsPersisted` |
| `ResetCovers` | `ResetCoversUsage` |
| `RowsAdvance` | `HistoryAdvances`, an action property |

`UnsyncedIsMarked` is not inductive: a sync deletes its processing set at the end,
and nothing in the property says that it has written the members.  The invariant
`Covered` says of every field that it is `Safe`: MySQL is up to date, or the field is
in the dirty set, in a processing set nobody works on, or in one whose sync
`Covers` it: the sync is putting its members back, or has the field still to do
and has not read a version that has grown since.  So a sync reaches the deletion only
when its members are persisted or marked elsewhere, even when an `Add` came after its
read: that `Add` has put the field back into the dirty set.  One lemma per
kind of step (`SafeAdd`, `SafeSync`, `SafeFinalize`, `SafeCrash`, with `SafeKept`,
`SafeAside`, `SafeAbort` and `UpsertKeeps` for the cases they share) gives
`CoveredInductive`; `CoveredIsMarked` concludes.  Overlapping syncs after an
expired lock, failures and deaths at any point are included.

`HistoryInv` relates versions to values.  `RowTrue` says that a counter that was
never deleted has one value per version, the row included; `ReadTrue` and `Ordered`
say the same of every read under way and of two of them, which is what makes a
late write harmless: with a smaller version it is refused, with a larger one its
value is not smaller.  `VerifiedTrue` carries what a finalizer has verified to its
deletion, and `ResetTrue` what a reset owes to its snapshot: from the first page on an
identity with usage and without a row is found, still ahead of the scan, or hidden,
because usage without a row is in the dirty set or in a processing set (`Covered`).

### 5.8 Scheduler snapshot

`SchedulerSnapshotProofs`, for every number of buckets, writers, instances, rebuilds
and requests, every size of a poll and every budget, under `SchedulerAssumption`:
`SnapshotInvariant` states the inductive invariant `SnapshotInv`, `StaleExplained`
states `StaleIsExplained`.

The property speaks of rows above the watermark, but between reading a row and moving the
watermark only the poll knows what has to be done, and several polls move the
watermark forth and back.  `Explained` therefore says at every place from which the
watermark may come (the watermark itself, and `base` and `last` of every poll) that
the change is `Known` above it, or that every entry of the cache is current or
excused, or, for a poll that is handling its rows, that this poll has still to write
the entry (`AccLeft`) and to rebuild the list (`ListLeft`).  At the end of a poll
nothing is left (`NothingLeft`), so that it may move the watermark and delete rows.
An entry that is current or excused stays so until the next change (`GoodStep`): what
writes an older value excuses it.  A change without a row excuses everything until it is
loaded again, so that nobody has to know of it; all else must still be explained,
whatever order the two kinds of changes come in.  A new row is above all these places, or it is
missed and `EnqueueSchedulerOutbox` excuses it; the row that has the `dedup_key`, if it
was not missed, is above all of them too (`KeyedAhead`), because the poll that passes
it clears the key in the transaction that reads it (`EnqueueTells`).  Each step is one of
a poll or leaves that poll alone (`MovesOrSame`), which splits the proof.

### 5.9 Concurrency slots

`ConcurrencySlotsProofs`, for every finite set of requests, every set of instances
and assignment of requests to them, every limit, queue length, TTL and number of
failures, under `SlotsAssumption`.

| Theorem | States |
|---|---|
| `SlotsInvariant`, `SlotTypes` | the inductive invariants `SlotsInv` and `QueueInv`, and `TypeOK` |
| `LimitIsKept` | `LimitHolds` |
| `OwnersKnown` | `SlotsHaveOwners` |
| `QueueIsBounded` | `QueueBounded` |
| `RefusalsAreJustified` | `RefusalsJustified` |

`LimitHolds` is about requests, the script about members of the set.  `SlotsInv` joins them:
the set has at most `MaxConcurrency` members (`SlotsCounted`; the script
counts after it has dropped what has expired, and a repeated call finds its own member), and a
running request whose slot is neither too old nor swept is a member
(`HeldIsMember`; only its own release, its age and a starting instance take it out).
`QueueInv` bounds the counter from both sides: the waiters are at most
`waiting + under` (`WaitersCounted`), and `waiting` is at most the waiters plus `over`.
Neither is inductive with the two losses left out, as a decrement at zero and a
deleted counter show.

### 5.10 What the proofs changed

Three properties turned out to be false beyond the bounds of their runs, and
TLC then found the counterexample on a larger instance or from a prepared state:
`ErrorIsDeserved` (a generation that only one worker has in memory, 2.6),
`LeaseExclusive` (the late `Release` of an operation that outlived a taken-over lease,
2.4) and `StaleIsExplained` (a poll that is ahead of a watermark moved back, 2.8).
Each is a behaviour of the code; the models now name it, and the properties except it.

### 5.11 Only model-checked

* The liveness properties `PaymentSettles`, `AcceptedTasksFinish`, `TokenIsRenewed`,
  `UsageIsPersisted`, `PeriodIsCleared`, `OutboxDrains`, `ServedBecomesCurrent` and `LeakEnds`:
  fairness and ENABLED are outside what the prover supports.
* `TypeOK` of `SchedulerSnapshot` with its bounds; `SnapshotInv` has the types.

## 6. Abstractions

Money is a small integer and the tolerance a constant; currencies, fees and
decimal rounding are left out, except for the proportional gateway amount of
partial refunds.  Provider instances, signatures and payload parsing are left
out: a `Webhook` is a verified notification of success.  Audit rows that nobody
looks up, logs and e-mails are left out.  In billing, user balance and
subscription usage are one counter, because `Apply` changes exactly one of
them; API-key rate windows and the daily and weekly account quotas, which reset
by time, are left out, as is the resizing of the pool.

In `OAuthRefresh` the executor is the one of a provider that rotates refresh
tokens; the other platforms share the code and differ in request formats.  Times are
reduced to what is due and what has expired.  In `TokenStatistics` a batch is the
whole set and shards are one; metrics, projections and dimensions are the identity of a field;
queries for display are left out, and an event's projection is the set of its fields.  In
`SchedulerSnapshot` there is one account, which stays in its buckets; events about
groups, bulk changes and the order of accounts within a list are left out.

In `ConcurrencySlots` a user's limit does not change; zero means no limit and
uses no slots.  A slot is released when the client has gone although the handler may still be
reading from the provider; the model takes the request as ended there.  The choice among accounts,
route limits and the load shown to the scheduler are left out.

## 7. Running

In this directory, `tlc -config <file>.cfg <module>` runs a model; `PROJECT.json`
names module and configuration of each run.  `tlapm <module>Proofs.tla` checks the
proofs about a module from nothing: `PaymentProofs` takes about four minutes,
`SchedulerSnapshotProofs` two, the other six about one minute or less each.

## 8. Plan

Next, in this order:

1. `LeaderLock`, a lock with two backends: a job runs on one instance, unless it
   outlives its lock.
2. `PlatformQuota`: increments in Redis, dirty snapshots and their flush.
3. The user message queue.
4. Several accounts and buckets that change in `SchedulerSnapshot`; account and
   route slots in `ConcurrencySlots`, with the choice of an account.

Proofs to follow: the bounds of `SchedulerSnapshot`'s `TypeOK`, and safety
properties of the modules above as they are written.

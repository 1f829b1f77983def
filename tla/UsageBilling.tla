---------------------------- MODULE UsageBilling ----------------------------
(***************************************************************************)
(* Charging for a gateway request: the handler submits a usage task to the *)
(* bounded worker pool (service/usage_record_worker_pool.go), the task     *)
(* calls applyUsageBilling (service/gateway_service.go), and one database  *)
(* transaction claims the request in the dedup table and changes the user, *)
(* the API key and the account (repository/usage_billing_repo.go), while   *)
(* the retention jobs of the instances move old claims to the archive      *)
(* (service/dashboard_aggregation_service.go,                              *)
(* repository/dashboard_aggregation_repo.go).                              *)
(*                                                                         *)
(* A step is one statement.  An uncommitted row is locked: the effects of  *)
(* a task become visible at its commit, and until then whoever wants the   *)
(* same row waits.                                                         *)
(***************************************************************************)
EXTENDS Integers, FiniteSets, Sequences, FiniteSetsExt

CONSTANTS
    Tasks,        \* submitted usage tasks, retries of a request included
    Requests,     \* (request id, API key) pairs
    Fingerprints, \* of the commands: they cover the costs
    RequestOf, FingerprintOf,  \* what a task bills
    Cost,         \* what a fingerprint costs
    PoolSize, QueueSize,       \* workers and queue of the pool
    Policy,       \* overflow policy: "drop", "sample" or "sync"
    Quota,        \* quota of the API key; 0 is none
    Limit,        \* quota limit of the account; 0 is none
    Jobs,         \* the retention jobs, one per instance
    BatchSize,    \* usageBillingDedupCleanupBatchSize
    MaxCleanups,  \* bound on the runs of the jobs
    MaxFaults     \* bound on failed statements

\* No row, or nobody.
None == "none"

ASSUME BillingAssumption ==
    /\ RequestOf \in [Tasks -> Requests] /\ FingerprintOf \in [Tasks -> Fingerprints]
    /\ Cost \in [Fingerprints -> Nat \ {0}]
    /\ PoolSize \in Nat \ {0} /\ QueueSize \in Nat
    /\ Policy \in {"drop", "sample", "sync"}
    /\ Quota \in Nat /\ Limit \in Nat /\ MaxFaults \in Nat
    /\ BatchSize \in Nat \ {0} /\ MaxCleanups \in Nat
    /\ IsFiniteSet(Requests)
    /\ None \notin Tasks \union Fingerprints

VARIABLES
    pc,        \* where each task is
    queue,     \* the pool's queue
    inPool,    \* the tasks a pool worker runs; the others run in their handler
    stopped,   \* the pool is stopped
    dedup,     \* usage_billing_dedup, committed: request -> fingerprint
    archive,   \* usage_billing_dedup_archive
    id, lastId,  \* the id of the dedup row of each request, 0 without a row; AUTO_INCREMENT
    old,       \* the requests whose row is older than the retention
    jpc,       \* where each retention job is
    expired,   \* job -> the requests whose row is older than its cutoff
    cleanups,  \* runs of the jobs so far
    claim,     \* request -> the task whose transaction holds its dedup row
    locks,     \* row -> the task whose transaction holds it
    prev,      \* task -> quota_used as its SELECT ... FOR UPDATE read it
    funds, keyUsed, accountUsed,  \* charged to the user, the key, the account
    keyStatus, \* api_keys.status
    charges,   \* history: how often each request was charged
    crossed,   \* history: transactions that reported the key exhausted
    outbox,    \* history: scheduler events about the account
    drops,     \* history: how often each request's row was deleted unarchived
    lost,      \* history: what the requests of those rows had cost
    overlapped,  \* history: a DELETE ran between the two statements of another job
    faults

pool     == <<queue, inPool, stopped>>
claims   == <<dedup, archive, id, lastId>>
jobs     == <<old, jpc, expired, cleanups, drops, lost, overlapped>>
txState  == <<claim, locks, prev>>
books    == <<funds, keyUsed, accountUsed, keyStatus, charges, crossed, outbox>>
vars     == <<pc, pool, claims, jobs, txState, books, faults>>

Rows   == {"user", "key", "account"}
Labels == {"new", "queued", "claim", "archive", "user", "key", "keyUpdate",
           "account", "commit", "done", "dropped"}
\* The steps of a task that is being executed.
Running == Labels \ {"new", "queued", "done", "dropped"}

TypeOK ==
    /\ pc \in [Tasks -> Labels] /\ queue \in Seq(Tasks) /\ inPool \subseteq Tasks
    /\ stopped \in BOOLEAN
    /\ dedup \in [Requests -> Fingerprints \union {None}]
    /\ archive \in [Requests -> Fingerprints \union {None}]
    /\ id \in [Requests -> Nat] /\ lastId \in Nat /\ old \subseteq Requests
    /\ jpc \in [Jobs -> {"idle", "copy", "delete"}] /\ expired \in [Jobs -> SUBSET Requests]
    /\ cleanups \in Nat /\ drops \in [Requests -> Nat] /\ lost \in Nat
    /\ overlapped \in BOOLEAN
    /\ claim \in [Requests -> Tasks \union {None}]
    /\ locks \in [Rows -> Tasks \union {None}] /\ prev \in [Tasks -> Nat]
    /\ funds \in Nat /\ keyUsed \in Nat /\ accountUsed \in Nat
    /\ keyStatus \in {"active", "quota_exhausted"}
    /\ charges \in [Requests -> Nat] /\ crossed \in Nat /\ outbox \in Nat
    /\ faults \in Nat

Init ==
    /\ pc = [t \in Tasks |-> "new"] /\ queue = <<>> /\ inPool = {} /\ stopped = FALSE
    /\ dedup = [r \in Requests |-> None] /\ archive = [r \in Requests |-> None]
    /\ id = [r \in Requests |-> 0] /\ lastId = 0 /\ old = {}
    /\ jpc = [j \in Jobs |-> "idle"] /\ expired = [j \in Jobs |-> {}] /\ cleanups = 0
    /\ drops = [r \in Requests |-> 0] /\ lost = 0 /\ overlapped = FALSE
    /\ claim = [r \in Requests |-> None] /\ locks = [x \in Rows |-> None]
    /\ prev = [t \in Tasks |-> 0]
    /\ funds = 0 /\ keyUsed = 0 /\ accountUsed = 0 /\ keyStatus = "active"
    /\ charges = [r \in Requests |-> 0] /\ crossed = 0 /\ outbox = 0
    /\ faults = MaxFaults

Goto(t, l) == pc' = [pc EXCEPT ![t] = l]
Fine       == UNCHANGED faults
Fault      == faults > 0 /\ faults' = faults - 1
CostOf(t)  == Cost[FingerprintOf[t]]

\* What a request is claimed with, in the dedup table or, once moved, in the
\* archive, and what the claimed requests cost.
ClaimedWith(r)  == IF dedup[r] # None THEN dedup[r] ELSE archive[r]
ClaimedRequests == {r \in Requests : ClaimedWith(r) # None}
ClaimedCost     == [r \in ClaimedRequests |-> Cost[ClaimedWith(r)]]

\* The sum of f[r] for r in S.
Total(f, S) == MapThenSumSet(LAMBDA r : f[r], S)

-----------------------------------------------------------------------------
(* The worker pool.                                                        *)

\* Submit.  The sample policy lets a share of the overflow run in the handler,
\* by a counter; here any of it.
Submit(t) ==
    /\ pc[t] = "new"
    /\ \/ stopped /\ Goto(t, "dropped") /\ UNCHANGED queue
       \/ /\ ~stopped /\ Len(queue) < QueueSize
          /\ Goto(t, "queued") /\ queue' = Append(queue, t)
       \/ /\ ~stopped /\ Len(queue) >= QueueSize /\ Policy \in {"sync", "sample"}
          /\ Goto(t, "claim") /\ UNCHANGED queue
       \/ /\ ~stopped /\ Len(queue) >= QueueSize /\ Policy \in {"drop", "sample"}
          /\ Goto(t, "dropped") /\ UNCHANGED queue
    /\ UNCHANGED <<inPool, stopped, claims, jobs, txState, books, faults>>

\* A worker of the pool (pond) takes the next task.
Dequeue ==
    /\ queue # <<>> /\ Cardinality(inPool) < PoolSize
    /\ Goto(Head(queue), "claim") /\ queue' = Tail(queue)
    /\ inPool' = inPool \union {Head(queue)}
    /\ UNCHANGED <<stopped, claims, jobs, txState, books, faults>>

\* A faulty variant: stopping throws the queue away.
StopAndDiscard ==
    /\ ~stopped /\ stopped' = TRUE /\ queue' = <<>>
    /\ pc' = [t \in Tasks |-> IF pc[t] = "queued" THEN "dropped" ELSE pc[t]]
    /\ UNCHANGED <<inPool, claims, jobs, txState, books, faults>>

\* Stop: no more submissions; StopAndWait lets the queue run empty.
Stop ==
    /\ ~stopped /\ stopped' = TRUE
    /\ UNCHANGED <<pc, queue, inPool, claims, jobs, txState, books, faults>>

-----------------------------------------------------------------------------
(* The transaction of Apply.                                               *)

\* It ends, by commit or rollback: its locks are free and the task is over.
EndTx(t) ==
    /\ Goto(t, "done") /\ inPool' = inPool \ {t}
    /\ claim' = [r \in Requests |-> IF claim[r] = t THEN None ELSE claim[r]]
    /\ locks' = [x \in Rows |-> IF locks[x] = t THEN None ELSE locks[x]]
    /\ prev' = [prev EXCEPT ![t] = 0]
    /\ UNCHANGED <<queue, stopped>>

\* A statement fails: everything is rolled back, and nobody tries again.
Fail(t) ==
    /\ pc[t] \in Running /\ Fault /\ EndTx(t)
    /\ UNCHANGED <<claims, jobs, books>>

\* A faulty variant: the claim is inserted outside the transaction.
ClaimOutsideTx(t) ==
    LET r == RequestOf[t]
    IN /\ pc[t] = "claim"
       /\ \/ /\ dedup[r] = None /\ Goto(t, "archive")
             /\ dedup' = [dedup EXCEPT ![r] = FingerprintOf[t]] /\ UNCHANGED <<pool, txState>>
          \/ dedup[r] # None /\ EndTx(t) /\ UNCHANGED dedup
       /\ Fine /\ UNCHANGED <<archive, id, lastId, jobs, books>>

\* claimUsageBillingKey: INSERT IGNORE waits for a transaction that has
\* inserted the same key; a committed claim is a duplicate or a conflict.
ClaimKey(t) ==
    LET r == RequestOf[t]
    IN /\ pc[t] = "claim" /\ claim[r] = None
       /\ \/ /\ dedup[r] = None /\ Goto(t, "archive")
             /\ claim' = [claim EXCEPT ![r] = t] /\ UNCHANGED <<pool, locks, prev>>
          \/ dedup[r] # None /\ EndTx(t)
       /\ Fine /\ UNCHANGED <<claims, jobs, books>>

\* The lookup in usage_billing_dedup_archive.
Archived(r) == archive[r] # None

CheckArchive(t) ==
    /\ pc[t] = "archive"
    /\ \/ Archived(RequestOf[t]) /\ EndTx(t)
       \/ ~Archived(RequestOf[t]) /\ Goto(t, "user") /\ UNCHANGED <<pool, txState>>
    /\ Fine /\ UNCHANGED <<claims, jobs, books>>

\* A statement on a row waits for the transaction that holds it.
LockRow(t, x) ==
    /\ locks[x] = None /\ locks' = [locks EXCEPT ![x] = t]

\* deductUsageBillingBalance, or incrementUsageBillingSubscription.
DeductBalance(t) ==
    /\ pc[t] = "user" /\ LockRow(t, "user") /\ Goto(t, "key")
    /\ Fine /\ UNCHANGED <<pool, claims, jobs, claim, prev, books>>

\* incrementUsageBillingAPIKeyQuota: SELECT ... FOR UPDATE ...
ReadKey(t) ==
    /\ pc[t] = "key" /\ LockRow(t, "key") /\ Goto(t, "keyUpdate")
    /\ prev' = [prev EXCEPT ![t] = keyUsed]
    /\ Fine /\ UNCHANGED <<pool, claims, jobs, claim, books>>

\* ... and the UPDATE, on the row this transaction holds by now.
UpdateKey(t) ==
    /\ pc[t] = "keyUpdate" /\ Goto(t, "account")
    /\ Fine /\ UNCHANGED <<pool, claims, jobs, txState, books>>

\* incrementUsageBillingAccountQuota.
UpdateAccount(t) ==
    /\ pc[t] = "account" /\ LockRow(t, "account") /\ Goto(t, "commit")
    /\ Fine /\ UNCHANGED <<pool, claims, jobs, claim, prev, books>>

\* The status column after the UPDATE of the key.  MySQL assigns from left to
\* right, so the CASE reads the quota_used that the same statement has set.
KeyStatusAfter(c) ==
    LET used == keyUsed + c
    IN IF Quota > 0 /\ keyStatus = "active" /\ used < Quota /\ used + c >= Quota
       THEN "quota_exhausted" ELSE keyStatus

\* A faulty variant: a quota used up exactly does not count.
KeyExceeded(t) == Quota > 0 /\ prev[t] < Quota /\ prev[t] + CostOf(t) > Quota

\* APIKeyQuotaExhausted of the result, from the values read before.
KeyCrossed(t) == Quota > 0 /\ prev[t] < Quota /\ prev[t] + CostOf(t) >= Quota

\* crossedTotal, from the values read after the update.
AccountCrossed(c) ==
    LET used == accountUsed + c IN Limit > 0 /\ used >= Limit /\ used - c < Limit

\* The commit makes the claim and all effects visible; applyUsageBilling then
\* drops the key from the authentication cache if it was reported exhausted.
\* Every order of the ids is an order of commits.
Commit(t) ==
    LET r == RequestOf[t] c == CostOf(t)
    IN /\ pc[t] = "commit" /\ EndTx(t)
       /\ dedup' = [dedup EXCEPT ![r] = FingerprintOf[t]]
       /\ id' = [id EXCEPT ![r] = lastId + 1] /\ lastId' = lastId + 1
       /\ funds' = funds + c /\ keyUsed' = keyUsed + c /\ accountUsed' = accountUsed + c
       /\ keyStatus' = KeyStatusAfter(c)
       /\ charges' = [charges EXCEPT ![r] = @ + 1]
       /\ crossed' = crossed + (IF KeyCrossed(t) THEN 1 ELSE 0)
       /\ outbox' = outbox + (IF AccountCrossed(c) THEN 1 ELSE 0)
       /\ Fine /\ UNCHANGED <<archive, jobs>>

-----------------------------------------------------------------------------
(* The retention jobs.                                                     *)

\* A claim becomes older than the retention.
Age(r) ==
    /\ dedup[r] # None /\ r \notin old /\ old' = old \union {r}
    /\ UNCHANGED <<pc, pool, claims, jpc, expired, cleanups, drops, lost, overlapped,
                   txState, books, faults>>

\* maybeCleanupRetention fixes its cutoff.  An instance runs one job at a time
\* (running); only the scheduled job takes the leader lock, those of a start
\* and of a backfill do not, so the jobs of two instances may run together.
\* A job that finds no row changes nothing.
StartCleanup(j) ==
    /\ jpc[j] = "idle" /\ old # {}
    /\ cleanups < MaxCleanups /\ cleanups' = cleanups + 1
    /\ jpc' = [jpc EXCEPT ![j] = "copy"] /\ expired' = [expired EXCEPT ![j] = old]
    /\ UNCHANGED <<pc, pool, claims, old, drops, lost, overlapped, txState, books, faults>>

\* SELECT ... WHERE created_at < ? ORDER BY id LIMIT ?
Batch(S) == {r \in S : Cardinality({s \in S : id[s] < id[r]}) < BatchSize}

\* A failed statement ends the job.
CleanupFails(j) ==
    /\ jpc[j] # "idle" /\ Fault /\ jpc' = [jpc EXCEPT ![j] = "idle"]
    /\ expired' = [expired EXCEPT ![j] = {}]
    /\ UNCHANGED <<pc, pool, claims, old, cleanups, drops, lost, overlapped, txState, books>>

\* CleanupUsageBillingDedup: a batch goes to the archive (INSERT IGNORE) ...
ArchiveBatch(j) ==
    /\ jpc[j] = "copy" /\ jpc' = [jpc EXCEPT ![j] = "delete"]
    /\ archive' = [r \in Requests |->
                      IF r \in Batch(expired[j]) /\ archive[r] = None
                      THEN dedup[r] ELSE archive[r]]
    /\ UNCHANGED <<pc, pool, dedup, id, lastId, old, expired, cleanups, drops, lost, overlapped,
                   txState, books, faults>>

\* A faulty variant: the DELETE has no LIMIT.
DeleteAllExpired(j) == expired[j]

\* ... and the DELETE selects its batch anew.
Victims(j) == Batch(expired[j])

\* A full batch is followed by another one.
DeleteBatch(j) ==
    LET gone == Victims(j)
        open == {r \in gone : archive[r] = None}
    IN /\ jpc[j] = "delete"
       /\ dedup' = [r \in Requests |-> IF r \in gone THEN None ELSE dedup[r]]
       /\ id' = [r \in Requests |-> IF r \in gone THEN 0 ELSE id[r]]
       /\ old' = old \ gone
       /\ LET more == Cardinality(gone) >= BatchSize
          IN /\ jpc' = [jpc EXCEPT ![j] = IF more THEN "copy" ELSE "idle"]
             /\ expired' = [k \in Jobs |-> IF k = j /\ ~more THEN {} ELSE expired[k] \ gone]
       /\ drops' = [r \in Requests |-> drops[r] + (IF r \in open THEN 1 ELSE 0)]
       /\ lost' = lost + Total(ClaimedCost, open)
       /\ overlapped' = (overlapped \/ \E k \in Jobs \ {j} : jpc[k] = "delete")
       /\ Fine /\ UNCHANGED <<pc, pool, archive, lastId, cleanups, txState, books>>

-----------------------------------------------------------------------------
Apply(t) ==
    \/ ClaimKey(t) \/ CheckArchive(t) \/ DeductBalance(t) \/ ReadKey(t)
    \/ UpdateKey(t) \/ UpdateAccount(t) \/ Commit(t)

Next ==
    \/ \E t \in Tasks : Submit(t) \/ Apply(t) \/ Fail(t)
    \/ Dequeue \/ Stop
    \/ \E r \in Requests : Age(r)
    \/ \E j \in Jobs : StartCleanup(j) \/ ArchiveBatch(j) \/ DeleteBatch(j) \/ CleanupFails(j)

Spec == Init /\ [][Next]_vars

\* The pool's workers go on, and a waiting statement gets its row in the end.
FairSpec ==
    Spec /\ WF_vars(Dequeue) /\ \A t \in Tasks : SF_vars(Apply(t))

-----------------------------------------------------------------------------
\* A request is charged at most once, however often it is submitted, by
\* concurrent tasks or after its claim has gone to the archive ("one billable
\* request that must be applied at most once"), unless its claim was deleted
\* unarchived; and a retention job does that only after its batch was shifted
\* by the DELETE of another job between its own two statements.
ChargedOncePerRequest ==
    \A r \in Requests : charges[r] <= 1 + drops[r] /\ (drops[r] > 0 => overlapped)

\* All effects of a request or none: user, key and account are charged the
\* same, namely the costs of the requests that are claimed, and of those whose
\* claim was deleted unarchived.
BooksAgree ==
    LET total == Total(ClaimedCost, ClaimedRequests) + lost
    IN funds = total /\ keyUsed = total /\ accountUsed = total

\* The request that uses up the key's quota, and only that one, reports it (so
\* that the cached key is dropped), and the one that uses up the account's
\* limit, and only that one, tells the scheduler.
CrossingsAreReported ==
    /\ crossed = IF Quota > 0 /\ keyUsed >= Quota THEN 1 ELSE 0
    /\ outbox  = IF Limit > 0 /\ accountUsed >= Limit THEN 1 ELSE 0

\* A task the pool has accepted is executed, also when the pool is stopped
\* meanwhile, and whoever waits for a row gets it: no task waits for ever.
AcceptedTasksFinish == \A t \in Tasks : pc[t] = "queued" ~> pc[t] = "done"

=============================================================================

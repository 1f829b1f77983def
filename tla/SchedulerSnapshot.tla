------------------------- MODULE SchedulerSnapshot -------------------------
(* What the gateway schedules on.  Accounts live in MySQL; Redis holds, for    *)
(* every bucket (a group, a platform and a mode), a versioned list of the      *)
(* accounts that may be scheduled, and one entry per account.  Most changes to *)
(* an account write a row to scheduler_outbox (scheduler_outbox_repo.go); every *)
(* instance polls the outbox, refreshes the account's entry and rebuilds the   *)
(* buckets it is in, and rebuilds all buckets from time to time                *)
(* (scheduler_snapshot_service.go); a request that misses the cache loads the  *)
(* bucket from MySQL and stores it (scheduler_cache.go).                       *)
(*                                                                             *)
(* There is one account, in every bucket.  A state of it is the number of the  *)
(* change that led to it; a list is the state it was loaded from.              *)
EXTENDS Naturals, FiniteSets, Sequences

CONSTANTS Buckets,      \* the buckets the account is in
          Writers,      \* requests that change the account
          Pollers,      \* outbox workers, one per instance
          Rebuilders,   \* full rebuild workers, initial rebuilds
          Readers,      \* requests that list schedulable accounts
          Limit,        \* rows in a poll (200)
          Budget,       \* changes, last_used rows, failed statements, early
                        \* expiries and process deaths together, a bound of the
                        \* model
          Account,      \* stands for the account's entry in the cache
          Nobody

Procs == Pollers \cup Rebuilders \cup Readers

ASSUME SchedulerAssumption ==
    /\ Limit \in Nat \ {0} /\ Budget \in Nat
    /\ Nobody \notin Procs /\ Account \notin Buckets \cup {Nobody}
    /\ Pollers \cap (Rebuilders \cup Readers) = {}

VARIABLES
    db,         \* the account in MySQL
    dead,       \* the last change deleted it
    nextId,     \* the auto-increment counter of scheduler_outbox
    rows,       \* its rows, [id, kind]
    keyed,      \* ids of the rows that have a dedup_key
    missed,     \* ids of rows that were inserted after a poll had passed them
    watermark,  \* sched:outbox:watermark
    acc,        \* sched:acc and sched:meta of the account; 0 when absent
    line,       \* versions allocated and not below sched:active, in the order of
                \* sched:ver: the processes that have them
    ready,      \* sched:ready: some version was activated
    list,       \* the list under the active version
    lock,       \* sched:lock of a bucket
    wpc, wval,  \* where a writer is; the id or the account it has
    pc,         \* where a process is
    base, last, \* the watermark a poll began with, and its last row
    batch,      \* rows of the poll not yet handled
    seen,       \* batchSeenKey: the poll has rebuilt the buckets
    job,        \* what a rebuild of a poller is for
    todo,       \* buckets still to be rebuilt
    bucket,     \* the one being rebuilt
    got,        \* the account, or the list, that was loaded
    err,        \* pollers whose rebuild has met an error
    spent,      \* how much of the budget is used
    excused     \* entries known to have missed or undone a change

mysql  == <<db, dead, nextId, rows, keyed, missed>>
redis  == <<watermark, acc, line, ready, list, lock>>
writer == <<wpc, wval>>
poll   == <<base, last, batch, seen>>
build  == <<job, todo, bucket, got, err>>
vars   == <<mysql, redis, writer, pc, poll, build, spent, excused>>

Working == {"load", "incr", "write", "activate", "unlock"}
Rows == [id : 1..Budget, kind : {"changed", "used"}]

TypeOK ==
    /\ db \in 1 .. Budget + 1 /\ dead \in BOOLEAN /\ nextId \in 1 .. Budget + 1
    /\ rows \subseteq Rows /\ keyed \subseteq 1..Budget /\ missed \subseteq 1..Budget
    /\ watermark \in 0..Budget /\ acc \in 0 .. Budget + 1
    /\ line \in [Buckets -> Seq(Procs)] /\ ready \in [Buckets -> BOOLEAN]
    /\ list \in [Buckets -> 0 .. Budget + 1]
    /\ lock \in [Buckets -> Procs \cup {Nobody}]
    /\ wpc \in [Writers -> {"idle", "uncache", "enqueue", "insert", "sync", "set"}]
    /\ wval \in [Writers -> Nat]
    /\ pc \in [Procs -> Working \cup {"idle", "list", "event", "touch", "account",
                                      "lock", "watermark", "cleanup", "lag"}]
    /\ base \in [Pollers -> 0..Budget] /\ last \in [Pollers -> 0..Budget]
    /\ batch \in [Pollers -> SUBSET Rows] /\ seen \in [Pollers -> BOOLEAN]
    /\ job \in [Pollers -> {"event", "full"}]
    /\ todo \in [Procs -> SUBSET Buckets]
    /\ bucket \in [Procs -> Buckets \cup {Nobody}]
    /\ \A x \in Procs : pc[x] \in Working => bucket[x] \in Buckets
    /\ got \in [Procs -> 0 .. Budget + 1] /\ err \subseteq Pollers
    /\ spent \in 0..Budget
    /\ excused \subseteq Buckets \cup {Account}

Init ==
    /\ db = 1 /\ dead = FALSE /\ nextId = 1 /\ rows = {} /\ keyed = {} /\ missed = {}
    /\ watermark = 0 /\ acc = 0
    /\ line = [b \in Buckets |-> <<>>] /\ ready = [b \in Buckets |-> FALSE]
    /\ list = [b \in Buckets |-> 0] /\ lock = [b \in Buckets |-> Nobody]
    /\ wpc = [w \in Writers |-> "idle"] /\ wval = [w \in Writers |-> 0]
    /\ pc = [x \in Procs |-> "idle"]
    /\ base = [p \in Pollers |-> 0] /\ last = [p \in Pollers |-> 0]
    /\ batch = [p \in Pollers |-> {}] /\ seen = [p \in Pollers |-> FALSE]
    /\ job = [p \in Pollers |-> "full"] /\ todo = [x \in Procs |-> {}]
    /\ bucket = [x \in Procs |-> Nobody]
    /\ got = [x \in Procs |-> 0] /\ err = {}
    /\ spent = 0 /\ excused = {}

-----------------------------------------------------------------------------
(* Helpers.                                                                  *)

\* The account exists in the state n of the database.
Live(n) == n # 0 /\ ~(dead /\ n = db)

Go(x, to) == pc' = [pc EXCEPT ![x] = to]
WGo(w, to) == wpc' = [wpc EXCEPT ![w] = to]

Spend(n) == spent + n <= Budget /\ spent' = spent + n

\* One statement or call of the code fails.
Fault == Spend(1)
NoFault == UNCHANGED spent

\* The account's entry is written with v, which may be older than what it had.
PutAccount(v) ==
    /\ acc' = v
    /\ excused' = IF v = db THEN excused \ {Account}
                  ELSE IF acc = 0 \/ v < acc THEN excused \cup {Account} ELSE excused

-----------------------------------------------------------------------------
(* Changes (account_repo.go).                                                *)

\* The row of an account_changed event: INSERT IGNORE with a dedup_key, so that
\* a row with the same key takes its place.  A poll may have passed the id, and
\* the row that has the key may be one that was missed so.
Overtaken(i) == watermark >= i \/ \E p \in Pollers : base[p] >= i \/ last[p] >= i

EnqueueSchedulerOutbox(i) ==
    IF keyed = {}
      THEN /\ rows' = rows \cup {[id |-> i, kind |-> "changed"]}
           /\ keyed' = {i}
           /\ missed' = IF Overtaken(i) THEN missed \cup {i} ELSE missed
           /\ excused' = IF Overtaken(i) THEN Buckets \cup {Account} ELSE excused
      ELSE /\ UNCHANGED <<rows, keyed, missed>>
           /\ excused' = IF keyed \subseteq missed THEN Buckets \cup {Account} ELSE excused

\* SetError and the like commit, then enqueue; Delete removes the account's
\* entry from the cache in between.
Change(w) ==
    /\ wpc[w] = "idle" /\ ~dead /\ Spend(1)
    /\ db' = db + 1
    /\ \/ dead' = FALSE /\ WGo(w, "enqueue")
       \/ dead' = TRUE /\ WGo(w, "uncache")
    /\ UNCHANGED <<nextId, rows, keyed, missed, redis, wval, pc, poll, build, excused>>

\* Update enqueues in its transaction, which a poll waits for, and commits
\* also when that failed.
ChangeInTx(w) ==
    /\ wpc[w] = "idle" /\ ~dead
    /\ db' = db + 1 /\ nextId' = nextId + 1
    /\ \/ Spend(1) /\ EnqueueSchedulerOutbox(nextId)
       \/ Spend(2) /\ excused' = Buckets \cup {Account} /\ UNCHANGED <<rows, keyed, missed>>
    /\ WGo(w, "sync")
    /\ UNCHANGED <<dead, redis, wval, pc, poll, build>>

\* UpdateCredentials, and UpdateExtra of keys that do not matter to scheduling,
\* enqueue nothing and only sync the account's entry.  UpdateSessionWindow
\* without times and IncrementQuotaUsed below the limit do not even do that,
\* which is the choice SyncRead has.
ChangeUnannounced(w) ==
    /\ wpc[w] = "idle" /\ ~dead /\ Spend(1)
    /\ db' = db + 1
    /\ excused' = Buckets \cup {Account}
    /\ WGo(w, "sync")
    /\ UNCHANGED <<dead, nextId, rows, keyed, missed, redis, wval, pc, poll, build>>

DeleteSchedulerAccountSnapshot(w) ==
    /\ wpc[w] = "uncache"
    /\ \/ NoFault /\ acc' = 0
       \/ Fault /\ acc' \in {acc, 0}
    /\ WGo(w, "enqueue")
    /\ UNCHANGED <<mysql, watermark, line, ready, list, lock, wval, pc, poll, build,
                   excused>>

\* The statement takes an id ...
AllocateId(w) ==
    /\ wpc[w] = "enqueue"
    /\ nextId' = nextId + 1
    /\ wval' = [wval EXCEPT ![w] = nextId]
    /\ WGo(w, "insert")
    /\ UNCHANGED <<db, dead, rows, keyed, missed, redis, pc, poll, build, spent, excused>>

\* ... and inserts the row.  A failure is logged, and the change stands, as it
\* does when the process dies first.
Enqueue(w) ==
    /\ wpc[w] = "insert"
    /\ \/ NoFault /\ EnqueueSchedulerOutbox(wval[w])
       \/ Fault /\ excused' = Buckets \cup {Account} /\ UNCHANGED <<rows, keyed, missed>>
    /\ wval' = [wval EXCEPT ![w] = 0]
    /\ WGo(w, IF dead THEN "idle" ELSE "sync")
    /\ UNCHANGED <<db, dead, nextId, redis, pc, poll, build>>

\* syncSchedulerAccountSnapshot reads the account and sets its entry; some of
\* the operations leave it out.
SyncRead(w) ==
    /\ wpc[w] = "sync"
    /\ \/ ~dead /\ wval' = [wval EXCEPT ![w] = db] /\ WGo(w, "set")
       \/ WGo(w, "idle") /\ UNCHANGED wval
    /\ UNCHANGED <<mysql, redis, pc, poll, build, spent, excused>>

SyncSet(w) ==
    /\ wpc[w] = "set"
    /\ \/ NoFault /\ PutAccount(wval[w])
       \/ Fault /\ UNCHANGED <<acc, excused>>
    /\ wval' = [wval EXCEPT ![w] = 0]
    /\ WGo(w, "idle")
    /\ UNCHANGED <<mysql, watermark, line, ready, list, lock, pc, poll, build>>

\* BatchUpdateLastUsed: a row without dedup_key.
TouchLastUsed ==
    /\ ~dead /\ Spend(1)
    /\ nextId' = nextId + 1
    /\ rows' = rows \cup {[id |-> nextId, kind |-> "used"]}
    /\ UNCHANGED <<db, dead, keyed, missed, redis, writer, pc, poll, build, excused>>

-----------------------------------------------------------------------------
(* SetSnapshot and rebuildBucket.                                            *)

\* A request, which has nothing to rebuild, returns; a rebuild releases its lock.
Leave(x) ==
    /\ got' = [got EXCEPT ![x] = 0]
    /\ bucket' = [bucket EXCEPT ![x] = IF todo[x] = {} THEN Nobody ELSE @]
    /\ Go(x, IF todo[x] = {} THEN "idle" ELSE "unlock")

\* A bucket that somebody else rebuilds counts as rebuilt.
TryLockBucket(x) == \E b \in todo[x] :
    /\ pc[x] = "lock"
    /\ \/ /\ NoFault /\ lock[b] = Nobody
          /\ lock' = [lock EXCEPT ![b] = x] /\ bucket' = [bucket EXCEPT ![x] = b]
          /\ Go(x, "load")
          /\ UNCHANGED <<todo, err, excused>>
       \/ /\ NoFault /\ lock[b] # Nobody
          /\ todo' = [todo EXCEPT ![x] = @ \ {b}]
          /\ excused' = IF x \in Pollers /\ job[x] = "event" THEN excused \cup {b} ELSE excused
          /\ UNCHANGED <<lock, bucket, pc, err>>
       \/ /\ Fault
          /\ lock' \in {lock, IF lock[b] = Nobody THEN [lock EXCEPT ![b] = x] ELSE lock}
          /\ todo' = [todo EXCEPT ![x] = @ \ {b}]
          /\ err' = err \cup ({x} \cap Pollers)
          /\ UNCHANGED <<bucket, pc, excused>>
    /\ UNCHANGED <<mysql, watermark, acc, line, ready, list, writer, poll, job, got>>

LoadAccountsFromDB(x) ==
    /\ pc[x] = "load"
    /\ got' = [got EXCEPT ![x] = db]
    /\ Go(x, "incr")
    /\ UNCHANGED <<mysql, redis, writer, poll, job, todo, bucket, err, spent, excused>>

\* The version is taken after the list was loaded.
IncrVersion(x) ==
    /\ pc[x] = "incr"
    /\ line' = [line EXCEPT ![bucket[x]] = Append(@, x)]
    /\ Go(x, "write")
    /\ UNCHANGED <<mysql, watermark, acc, ready, list, lock, writer, poll, build, spent, excused>>

\* writeAccounts and the members of the list, under a key nobody reads yet.
WriteAccounts(x) ==
    /\ pc[x] = "write"
    /\ IF Live(got[x]) THEN PutAccount(got[x]) ELSE UNCHANGED <<acc, excused>>
    /\ Go(x, "activate")
    /\ UNCHANGED <<mysql, watermark, line, ready, list, lock, writer, poll, build, spent>>

\* activateSnapshotScript: a version below the active one is dropped.  A version
\* says when it was allocated, not what was loaded.
NotOlder(x) == \E i \in DOMAIN line[bucket[x]] : line[bucket[x]][i] = x

\* The versions above that of x.
Above(s, x) == SubSeq(s, (CHOOSE i \in DOMAIN s : s[i] = x) + 1, Len(s))

Without(s, x) == SelectSeq(s, LAMBDA y : y # x)

Activate(x) ==
    LET b == bucket[x] IN
    /\ pc[x] = "activate"
    /\ \/ NoFault /\ UNCHANGED err
       \/ Fault /\ err' = err \cup ({x} \cap Pollers)
    /\ IF NotOlder(x)
         THEN /\ line' = [line EXCEPT ![b] = Above(@, x)]
              /\ ready' = [ready EXCEPT ![b] = TRUE]
              /\ list' = [list EXCEPT ![b] = got[x]]
              /\ excused' = IF got[x] = db THEN excused \ {b}
                            ELSE IF got[x] < list[b] THEN excused \cup {b} ELSE excused
         ELSE /\ UNCHANGED <<line, ready, list>>
              /\ excused' = IF got[x] > list[b] THEN excused \cup {b} ELSE excused
    /\ Leave(x)
    /\ UNCHANGED <<mysql, watermark, acc, lock, writer, poll, job, todo>>

\* Any statement of these fails: the bucket is given up.
SnapshotFails(x) ==
    /\ pc[x] \in {"load", "incr", "write", "activate"}
    /\ Fault /\ err' = err \cup ({x} \cap Pollers)
    /\ Leave(x)
    /\ line' = [line EXCEPT ![bucket[x]] = Without(@, x)]
    /\ UNCHANGED <<mysql, watermark, acc, ready, list, lock, writer, poll, job, todo,
                   excused>>

\* UnlockBucket deletes the lock, whoever has it now.
UnlockBucket(x) ==
    /\ pc[x] = "unlock"
    /\ \/ NoFault /\ lock' = [lock EXCEPT ![bucket[x]] = Nobody]
       \/ Fault /\ UNCHANGED lock
    /\ todo' = [todo EXCEPT ![x] = @ \ {bucket[x]}]
    /\ bucket' = [bucket EXCEPT ![x] = Nobody]
    /\ Go(x, "lock")
    /\ UNCHANGED <<mysql, watermark, acc, line, ready, list, writer, poll, job, got, err,
                   excused>>

\* rebuildBuckets returns its first error.
BuildEnds(x) == pc[x] = "lock" /\ todo[x] = {}

-----------------------------------------------------------------------------
(* triggerFullRebuild, and a request that misses the cache.                  *)

\* A faulty variant: the full rebuild finds no bucket.
NoBuckets == {}

\* ListBuckets, or defaultBuckets when there are none yet.
ListBuckets == Buckets

FullRebuild(x) ==
    /\ x \in Rebuilders /\ pc[x] = "idle"
    /\ todo' = [todo EXCEPT ![x] = ListBuckets]
    /\ Go(x, "lock")
    /\ UNCHANGED <<mysql, redis, writer, poll, job, bucket, got, err, spent, excused>>

FullRebuildEnds(x) ==
    /\ BuildEnds(x) /\ (x \in Pollers => job[x] = "full")
    /\ Go(x, "idle")
    /\ err' = err \ {x}
    /\ UNCHANGED <<mysql, redis, writer, poll, job, todo, bucket, got, spent, excused>>

\* GetSnapshot misses without an active version, on an empty list, and when the
\* account's entry is absent.
Hit(b) == ready[b] /\ Live(list[b]) /\ acc # 0

ListSchedulableAccounts(x) == \E b \in Buckets :
    /\ x \in Readers /\ pc[x] = "idle"
    /\ ~Hit(b)
    /\ bucket' = [bucket EXCEPT ![x] = b]
    /\ Go(x, "load")
    /\ UNCHANGED <<mysql, redis, writer, poll, job, todo, got, err, spent, excused>>

-----------------------------------------------------------------------------
(* pollOutbox.                                                               *)

GetOutboxWatermark(p) ==
    /\ p \in Pollers /\ pc[p] = "idle"
    /\ base' = [base EXCEPT ![p] = watermark]
    /\ Go(p, "list")
    /\ UNCHANGED <<mysql, redis, writer, last, batch, seen, build, spent, excused>>

\* The poll is over; what it knew is forgotten.
PollEnds(p) ==
    /\ batch' = [batch EXCEPT ![p] = {}]
    /\ base' = [base EXCEPT ![p] = 0] /\ last' = [last EXCEPT ![p] = 0]
    /\ seen' = [seen EXCEPT ![p] = FALSE]
    /\ Go(p, "idle")

\* A faulty variant: the rows that were read keep their dedup_key.
ReleaseNothing(R) == keyed

\* ListAfterAndReleaseDedup: the next rows by id, whose dedup_key is cleared in
\* the same transaction; a commit that fails may have taken effect.
Released(R) == keyed \ {r.id : r \in R}

ListAfterAndReleaseDedup(p) ==
    LET after == {r \in rows : r.id > base[p]}
        R == {r \in after : Cardinality({s \in after : s.id < r.id}) < Limit} IN
    /\ pc[p] = "list"
    /\ \/ /\ NoFault
          /\ batch' = [batch EXCEPT ![p] = R]
          /\ \E m \in R : (\A r \in R : r.id <= m.id) /\ last' = [last EXCEPT ![p] = m.id]
          /\ keyed' = Released(R)
          /\ Go(p, "event")
          /\ UNCHANGED <<base, seen>>
       \/ NoFault /\ R = {} /\ PollEnds(p) /\ UNCHANGED keyed
       \/ Fault /\ keyed' \in {keyed, Released(R)} /\ PollEnds(p)
    /\ UNCHANGED <<db, dead, nextId, rows, missed, redis, writer, build, excused>>

Event(p, r) == r \in batch[p] /\ \A s \in batch[p] : r.id <= s.id

\* Where the poll goes on after an event, which was the last when R is left.
Handled(p) ==
    LET R == {r \in batch[p] : ~Event(p, r)} IN
    /\ batch' = [batch EXCEPT ![p] = R]
    /\ got' = [got EXCEPT ![p] = 0]
    /\ Go(p, IF R = {} THEN "watermark" ELSE "event")

\* handleLastUsedEvent reads the account's entry ...
HandleLastUsedEvent(p) ==
    /\ pc[p] = "event" /\ \E r \in batch[p] : Event(p, r) /\ r.kind = "used"
    /\ IF acc = 0
         THEN Handled(p)
         ELSE got' = [got EXCEPT ![p] = acc] /\ Go(p, "touch") /\ UNCHANGED batch
    /\ UNCHANGED <<mysql, redis, writer, base, last, seen, job, todo, bucket, err,
                   spent, excused>>

\* ... and writes it back with another time, whatever it is by then.
UpdateLastUsed(p) ==
    /\ pc[p] = "touch"
    /\ PutAccount(got[p])
    /\ Handled(p)
    /\ UNCHANGED <<mysql, watermark, line, ready, list, lock, writer, base, last, seen,
                   job, todo, bucket, err, spent>>

\* handleAccountEvent reads the account ...
HandleAccountEvent(p) ==
    /\ pc[p] = "event" /\ \E r \in batch[p] : Event(p, r) /\ r.kind = "changed"
    /\ got' = [got EXCEPT ![p] = db]
    /\ Go(p, "account")
    /\ UNCHANGED <<mysql, redis, writer, poll, job, todo, bucket, err, spent, excused>>

\* ... sets or deletes its entry, and rebuilds its buckets, once in a poll.
SetAccount(p) ==
    /\ pc[p] = "account"
    /\ IF Live(got[p]) THEN PutAccount(got[p])
                       ELSE acc' = 0 /\ UNCHANGED excused
    /\ IF seen[p]
         THEN Handled(p) /\ UNCHANGED <<seen, job, todo>>
         ELSE /\ seen' = [seen EXCEPT ![p] = TRUE]
              /\ job' = [job EXCEPT ![p] = "event"] /\ todo' = [todo EXCEPT ![p] = Buckets]
              /\ got' = [got EXCEPT ![p] = 0] /\ Go(p, "lock")
              /\ UNCHANGED batch
    /\ UNCHANGED <<mysql, watermark, line, ready, list, lock, writer, base, last, bucket,
                   err, spent>>

\* An error ends the poll before the watermark moves.
EventRebuilt(p) ==
    /\ BuildEnds(p) /\ job[p] = "event"
    /\ IF p \in err
         THEN PollEnds(p) /\ UNCHANGED got
         ELSE Handled(p) /\ UNCHANGED <<base, last, seen>>
    /\ err' = err \ {p} /\ job' = [job EXCEPT ![p] = "full"]
    /\ UNCHANGED <<mysql, redis, writer, todo, bucket, spent, excused>>

EventFails(p) ==
    /\ pc[p] \in {"event", "touch", "account"}
    /\ Fault /\ PollEnds(p)
    /\ got' = [got EXCEPT ![p] = 0]
    /\ UNCHANGED <<mysql, redis, writer, job, todo, bucket, err, excused>>

\* A faulty variant: the watermark is written back as it was read.
ConsumedNothing(p) == base[p]

Consumed(p) == last[p]

\* Three attempts; without success the consumed rows stay.  The last may have
\* succeeded all the same.
SetOutboxWatermark(p) ==
    /\ pc[p] = "watermark"
    /\ \/ NoFault /\ watermark' = Consumed(p) /\ Go(p, "cleanup")
       \/ Fault /\ watermark' \in {watermark, Consumed(p)} /\ Go(p, "lag")
    /\ UNCHANGED <<mysql, acc, line, ready, list, lock, writer, poll, build, excused>>

\* cleanupConsumedOutbox, when it gets its lock: rows up to the watermark that
\* are older than ten seconds.
CleanupConsumedOutbox(p) ==
    /\ pc[p] = "cleanup"
    /\ \E D \in SUBSET {r \in rows : r.id <= last[p]} :
          /\ rows' = rows \ D
          /\ keyed' = keyed \ {r.id : r \in D}
    /\ Go(p, "lag")
    /\ UNCHANGED <<db, dead, nextId, missed, redis, writer, poll, build, spent, excused>>

\* checkOutboxLag rebuilds everything when rows are old or many.
CheckOutboxLag(p) ==
    /\ pc[p] = "lag"
    /\ batch' = [batch EXCEPT ![p] = {}]
    /\ base' = [base EXCEPT ![p] = 0] /\ last' = [last EXCEPT ![p] = 0]
    /\ seen' = [seen EXCEPT ![p] = FALSE]
    /\ \/ Go(p, "idle") /\ UNCHANGED <<job, todo>>
       \/ /\ todo' = [todo EXCEPT ![p] = ListBuckets]
          /\ job' = [job EXCEPT ![p] = "full"]
          /\ Go(p, "lock")
    /\ UNCHANGED <<mysql, redis, writer, bucket, got, err, spent, excused>>

-----------------------------------------------------------------------------
(* Time and process deaths.                                                  *)

\* The lock reaches its TTL of thirty seconds after its holder has gone.
Holds(x, b) == x # Nobody /\ pc[x] \in Working /\ bucket[x] = b

LockExpires(b) ==
    /\ lock[b] # Nobody
    /\ \/ NoFault /\ ~Holds(lock[b], b)
       \/ Fault /\ Holds(lock[b], b)
    /\ lock' = [lock EXCEPT ![b] = Nobody]
    /\ UNCHANGED <<mysql, watermark, acc, line, ready, list, writer, pc, poll, build,
                   excused>>

\* A process dies and is started again; its lock stays.
Crash(x) ==
    /\ pc[x] # "idle" /\ Fault
    /\ Go(x, "idle")
    /\ todo' = [todo EXCEPT ![x] = {}] /\ bucket' = [bucket EXCEPT ![x] = Nobody]
    /\ got' = [got EXCEPT ![x] = 0] /\ err' = err \ {x}
    /\ job' = [p \in Pollers |-> IF p = x THEN "full" ELSE job[p]]
    /\ batch' = [p \in Pollers |-> IF p = x THEN {} ELSE batch[p]]
    /\ base' = [p \in Pollers |-> IF p = x THEN 0 ELSE base[p]]
    /\ last' = [p \in Pollers |-> IF p = x THEN 0 ELSE last[p]]
    /\ seen' = [p \in Pollers |-> IF p = x THEN FALSE ELSE seen[p]]
    /\ line' = [b \in Buckets |-> Without(line[b], x)]
    /\ UNCHANGED <<mysql, watermark, acc, ready, list, lock, writer, excused>>

WriterStep(w) ==
    \/ DeleteSchedulerAccountSnapshot(w) \/ AllocateId(w) \/ Enqueue(w)
    \/ SyncRead(w) \/ SyncSet(w)

BuildStep(x) ==
    \/ TryLockBucket(x) \/ LoadAccountsFromDB(x) \/ IncrVersion(x) \/ WriteAccounts(x)
    \/ Activate(x) \/ UnlockBucket(x) \/ FullRebuildEnds(x)

PollStep(p) ==
    \/ GetOutboxWatermark(p) \/ ListAfterAndReleaseDedup(p)
    \/ HandleLastUsedEvent(p) \/ UpdateLastUsed(p)
    \/ HandleAccountEvent(p) \/ SetAccount(p) \/ EventRebuilt(p)
    \/ SetOutboxWatermark(p) \/ CleanupConsumedOutbox(p) \/ CheckOutboxLag(p)

Next ==
    \/ \E w \in Writers : Change(w) \/ ChangeInTx(w) \/ ChangeUnannounced(w) \/ WriterStep(w)
    \/ TouchLastUsed
    \/ \E x \in Procs : BuildStep(x) \/ SnapshotFails(x) \/ Crash(x)
    \/ \E x \in Rebuilders : FullRebuild(x)
    \/ \E x \in Readers : ListSchedulableAccounts(x)
    \/ \E p \in Pollers : PollStep(p) \/ EventFails(p)
    \/ \E b \in Buckets : LockExpires(b)

\* Goroutines and requests that can run do so, the tickers of the pollers and of
\* the full rebuild fire again, and locks expire; changes, requests and failures
\* need not come.
Fairness ==
    /\ \A w \in Writers : WF_vars(WriterStep(w))
    /\ \A x \in Procs : WF_vars(BuildStep(x))
    /\ \A x \in Rebuilders : WF_vars(FullRebuild(x))
    /\ \A p \in Pollers : WF_vars(PollStep(p))
    /\ \A b \in Buckets : WF_vars(LockExpires(b))

Spec == Init /\ [][Next]_vars /\ Fairness
-----------------------------------------------------------------------------
(* Properties.                                                               *)

\* A change that is on its way to the cache: committed and about to be enqueued,
\* or a row above the watermark.
Pending ==
    \/ \E w \in Writers : wpc[w] \in {"uncache", "enqueue", "insert"}
    \/ \E r \in rows : r.kind = "changed" /\ r.id > watermark

Stale ==
    {b \in Buckets : ready[b] /\ list[b] < db}
        \cup {e \in {Account} : acc # 0 /\ acc < db}

\* What Redis serves is older than MySQL only while a change is on its way, or
\* when it has not been loaded again since one of these happened to it: a change
\* that has no row, such as UpdateCredentials; a bucket skipped because another
\* rebuild held its lock; a list or an entry overwritten by one that was loaded
\* earlier; a row that could not be written or whose id a poll had passed.
StaleIsExplained == Pending \/ Stale \subseteq excused

\* Every row above the watermark is consumed, whatever fails before: the
\* watermark passes it, or it is deleted, as happens to a consumed row when a
\* slower instance has moved the watermark back.
OutboxDrains ==
    \A i \in 1..Budget :
        (\E r \in rows : r.id = i /\ i > watermark)
            ~> (watermark >= i \/ ~ \E r \in rows : r.id = i)

\* Once changes stop, what requests are served becomes current and stays so,
\* because the full rebuild repairs what the races left.
ServesCurrent(b) == Hit(b) => list[b] = db /\ acc = db

ServedBecomesCurrent == <>[](\A b \in Buckets : ServesCurrent(b))
=============================================================================

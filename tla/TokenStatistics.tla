-------------------------- MODULE TokenStatistics --------------------------
(* The dynamic token statistics: what a quota is enforced on and what history *)
(* is kept from.  On every instance a bounded queue and its workers           *)
(* (async_pipeline.go) add the tokens of a request to counters in Redis       *)
(* (redis_accumulator.go); a scheduled loop (sync_engine.go) copies the       *)
(* counters that changed to MySQL (repository.go); a finalizer                *)
(* (period_finalizer.go) deletes the counters of a period that has ended once *)
(* MySQL has them; and an administrator may reset a quota                     *)
(* (quota_reset_service.go), which keeps the counter and subtracts a baseline *)
(* (quota_reader.go).                                                         *)
(*                                                                            *)
(* A field is one counter: a period, a projection, its dimension values and a *)
(* metric.  The fields of Closing belong to the period the finalizers close   *)
(* and lie in one hash (one shard); the others belong to open periods.        *)
EXTENDS Naturals, Sequences

CONSTANTS Events,       \* usage events, each submitted once
          Fields,       \* counters
          Closing,      \* those of the period that is finalized
          Scope,        \* those a quota reset asks for, of open periods
          FieldsOf,     \* the counters an event adds to
          TokensOf,     \* the tokens of an event
          Instances,    \* server processes
          Workers,      \* workers of the pipelines
          Loops,        \* scheduled loops of the sync engines
          Finalizers,   \* loops of the period finalizers
          Home,         \* the process a worker or a loop belongs to
          QueueCap,     \* capacity of a queue
          Retries,      \* RedisRetryCount
          MaxFaults,    \* failed statements, early expiries and process deaths
                        \* together, a bound of the model
          Nobody, NoEvent

Procs == Loops \cup Finalizers

ASSUME TokenStatisticsAssumption ==
    /\ Closing \subseteq Fields /\ Scope \subseteq Fields \ Closing
    /\ FieldsOf \in [Events -> SUBSET Fields]
    /\ TokensOf \in [Events -> Nat]
    /\ Home \in [Workers \cup Procs -> Instances]
    /\ Loops \cap Finalizers = {}
    /\ QueueCap \in Nat /\ Retries \in Nat /\ MaxFaults \in Nat
    /\ Nobody \notin Procs /\ NoEvent \notin Events

VARIABLES
    unsent,     \* events not submitted yet
    queue,      \* the queue of each instance
    job,        \* the event a worker processes, and its attempt
    count, ver, \* the hashes in Redis; a field with version 0 is not there
    dirty,      \* the current dirty set
    held,       \* processing:<token> of each sync that rotated the dirty set
    orphans,    \* fields in processing sets nobody works on any more
    lock,       \* the sync lock: free, or who set it
    mysql,      \* token_stat_aggregates; version 0 is no row
    period,     \* the state of the closing period in token_stat_period_states
    pc,         \* where each loop is
    todo,       \* members not yet synced, or versions not yet verified
    read,       \* what readAggregate has read
    err,        \* finalizers whose Sync returns an error
    seen,       \* periodVersions of a finalizer
    stage,      \* where the quota reset is
    unscanned,  \* identities its scan of the dirty set has not reached
    found,      \* identities it has discovered and not yet reset
    failed,     \* identities it could not reset
    baseline,   \* the reset baselines in Redis
    faults,     \* failures so far
    total,      \* tokens ever added to a field
    gone,       \* fields that were unlinked
    late,       \* fields added to after their versions were collected
    torn,       \* rows whose value is older than their version
    owed,       \* usage of the fields of a quota reset, as it stood at its start
    hidden      \* fields of it that were in a processing set, not in the dirty
                \* set, when the scan came to them, and without a row

pipe   == <<unsent, queue, job>>
redis  == <<count, ver, dirty>>
sync   == <<held, orphans, lock, todo, read, err>>
close  == <<period, seen>>
scan   == <<unscanned, hidden>>
quota  == <<stage, found, failed, baseline, owed>>
ghosts == <<total, gone, late, torn>>
vars   == <<pipe, redis, sync, mysql, close, quota, scan, pc, faults, ghosts>>

None == [field |-> Nobody, val |-> 0, ver |-> 0, at |-> 0]
Blank == [f \in Closing |-> 0]
Holding == {"rotate", "count", "version", "upsert", "del", "requeue", "release"}
PCs == Holding \cup {"idle", "pending", "sync", "dirty", "versions", "verify",
                     "persisted", "unlink", "deleted"}

TypeOK ==
    /\ unsent \subseteq Events
    /\ queue \in [Instances -> Seq(Events)]
    /\ \A i \in Instances : Len(queue[i]) <= QueueCap
    /\ job \in [Workers -> [ev : Events \cup {NoEvent}, attempt : 0..Retries]]
    /\ count \in [Fields -> Nat] /\ ver \in [Fields -> Nat]
    /\ dirty \subseteq Fields /\ orphans \subseteq Fields
    /\ held \in [Procs -> SUBSET Fields] /\ todo \in [Procs -> SUBSET Fields]
    /\ lock \in Procs \cup {Nobody}
    /\ mysql \in [Fields -> [val : Nat, ver : Nat]]
    /\ period \in {"OPEN", "CLOSING", "FINAL_SYNC", "PERSISTED", "DELETED"}
    /\ pc \in [Procs -> PCs]
    /\ read \in [Procs -> [field : Fields \cup {Nobody}, val : Nat, ver : Nat, at : Nat]]
    /\ \A p \in Procs : pc[p] \in {"version", "upsert"} => read[p].field \in Fields
    /\ err \subseteq Finalizers
    /\ seen \in [Procs -> [Closing -> Nat]]
    /\ stage \in {"idle", "scan", "aggregates", "snapshot", "done"}
    /\ unscanned \subseteq Fields /\ hidden \subseteq Fields
    /\ found \subseteq Fields /\ failed \subseteq Fields
    /\ baseline \in [Fields -> Nat]
    /\ faults \in 0..MaxFaults
    /\ total \in [Fields -> Nat] /\ owed \in [Fields -> Nat]
    /\ gone \subseteq Fields /\ late \subseteq Fields /\ torn \subseteq Fields

Init ==
    /\ unsent = Events
    /\ queue = [i \in Instances |-> <<>>]
    /\ job = [w \in Workers |-> [ev |-> NoEvent, attempt |-> 0]]
    /\ count = [f \in Fields |-> 0] /\ ver = [f \in Fields |-> 0]
    /\ dirty = {} /\ orphans = {}
    /\ held = [p \in Procs |-> {}] /\ todo = [p \in Procs |-> {}]
    /\ lock = Nobody
    /\ mysql = [f \in Fields |-> [val |-> 0, ver |-> 0]]
    /\ period = "OPEN"
    /\ pc = [p \in Procs |-> "idle"]
    /\ read = [p \in Procs |-> None]
    /\ err = {}
    /\ seen = [p \in Procs |-> Blank]
    /\ stage = "idle" /\ found = {} /\ failed = {} /\ unscanned = {} /\ hidden = {}
    /\ baseline = [f \in Fields |-> 0]
    /\ faults = 0
    /\ total = [f \in Fields |-> 0] /\ owed = [f \in Fields |-> 0]
    /\ gone = {} /\ late = {} /\ torn = {}

-----------------------------------------------------------------------------
(* Helpers.                                                                  *)

Go(p, to) == pc' = [pc EXCEPT ![p] = to]

\* One statement or call of the code fails.
Fault == /\ faults < MaxFaults
         /\ faults' = faults + 1
NoFault == UNCHANGED faults

-----------------------------------------------------------------------------
(* The pipeline.                                                             *)

HasRoom(i) == Len(queue[i]) < QueueCap

\* TryEnqueue on an instance that serves requests: the event enters the queue,
\* or is dropped when that is full.
TryEnqueue(i) == \E e \in unsent :
    /\ unsent' = unsent \ {e}
    /\ queue' = [queue EXCEPT ![i] = IF HasRoom(i) THEN Append(@, e) ELSE @]
    /\ UNCHANGED <<job, redis, sync, mysql, close, quota, scan, pc, faults, ghosts>>

\* run takes the next event; one without operations is done at once.
Dequeue(w) ==
    LET q == queue[Home[w]] IN
    /\ job[w].ev = NoEvent /\ q # <<>>
    /\ queue' = [queue EXCEPT ![Home[w]] = Tail(q)]
    /\ job' = [job EXCEPT ![w] =
          [ev |-> IF FieldsOf[Head(q)] = {} THEN NoEvent ELSE Head(q), attempt |-> 0]]
    /\ UNCHANGED <<unsent, redis, sync, mysql, close, quota, scan, pc, faults, ghosts>>

\* A faulty variant: the version is set, not incremented.
AddUnversioned(e) ==
    LET F == FieldsOf[e] IN
    /\ count' = [f \in Fields |-> IF f \in F THEN count[f] + TokensOf[e] ELSE count[f]]
    /\ ver' = [f \in Fields |-> IF f \in F THEN 1 ELSE ver[f]]
    /\ dirty' = dirty \cup F
    /\ total' = [f \in Fields |-> IF f \in F THEN total[f] + TokensOf[e] ELSE total[f]]
    /\ late' = late \cup (F \cap gone)

\* A faulty variant: only a new field is marked dirty.
AddUnmarked(e) ==
    LET F == FieldsOf[e] IN
    /\ count' = [f \in Fields |-> IF f \in F THEN count[f] + TokensOf[e] ELSE count[f]]
    /\ ver' = [f \in Fields |-> IF f \in F THEN ver[f] + 1 ELSE ver[f]]
    /\ dirty' = dirty \cup {f \in F : ver[f] = 0}
    /\ total' = [f \in Fields |-> IF f \in F THEN total[f] + TokensOf[e] ELSE total[f]]
    /\ late' = late \cup (F \cap gone)

\* dynamicAddScript, one atomic script for all counters of the event.
DynamicAddScript(e) ==
    LET F == FieldsOf[e] IN
    /\ count' = [f \in Fields |-> IF f \in F THEN count[f] + TokensOf[e] ELSE count[f]]
    /\ ver' = [f \in Fields |-> IF f \in F THEN ver[f] + 1 ELSE ver[f]]
    /\ dirty' = dirty \cup F
    /\ total' = [f \in Fields |-> IF f \in F THEN total[f] + TokensOf[e] ELSE total[f]]
    /\ late' = late \cup (F \cap gone)

\* process calls Add until one call succeeds or the retries are used up.  A
\* call that times out may have run the script.
Add(w) ==
    LET idle == [ev |-> NoEvent, attempt |-> 0]
        again == IF job[w].attempt < Retries
                   THEN [ev |-> job[w].ev, attempt |-> job[w].attempt + 1]
                   ELSE idle IN
    /\ job[w].ev # NoEvent
    /\ \/ NoFault /\ DynamicAddScript(job[w].ev) /\ job' = [job EXCEPT ![w] = idle]
       \/ Fault /\ DynamicAddScript(job[w].ev) /\ job' = [job EXCEPT ![w] = again]
       \/ Fault /\ UNCHANGED <<redis, total, late>> /\ job' = [job EXCEPT ![w] = again]
    /\ UNCHANGED <<unsent, queue, sync, mysql, close, quota, scan, pc, gone, torn>>

-----------------------------------------------------------------------------
(* SyncEngine.sync, of a loop at its tick and of a finalizer that calls it.  *)

\* Where a process goes on when its call of sync returns.
Return(p, broken) ==
    IF p \in Loops THEN "idle" ELSE IF broken THEN "idle" ELSE "dirty"

\* SetNX on the lock.  A lock somebody else holds ends the sync without an
\* error; a call that fails may have set it.
AcquireSyncLock(p) ==
    /\ \/ p \in Loops /\ pc[p] = "idle"
       \/ p \in Finalizers /\ pc[p] = "sync"
    /\ \/ NoFault /\ lock = Nobody /\ lock' = p /\ Go(p, "rotate")
       \/ NoFault /\ lock # Nobody /\ UNCHANGED lock /\ Go(p, Return(p, FALSE))
       \/ Fault /\ lock' \in {lock, IF lock = Nobody THEN p ELSE lock} /\ Go(p, "idle")
    /\ period' = IF faults' # faults /\ p \in Finalizers THEN "FINAL_SYNC" ELSE period
    /\ UNCHANGED <<pipe, redis, held, orphans, todo, read, err, mysql, seen,
                   quota, scan, ghosts>>

\* The dirty set is renamed: what a scan of it has not reached, it will not see.
DirtySetGoes ==
    /\ dirty' = {}
    /\ hidden' = hidden \cup unscanned /\ unscanned' = {}

\* rotateDirtySet renames the dirty set; a call that fails may have done so.
RotateDirtySet(p) ==
    /\ pc[p] = "rotate"
    /\ \/ /\ NoFault /\ dirty = {}
          /\ Go(p, "release")
          /\ UNCHANGED <<dirty, scan, held, todo, orphans, err>>
       \/ /\ NoFault /\ dirty # {}
          /\ held' = [held EXCEPT ![p] = dirty] /\ todo' = [todo EXCEPT ![p] = dirty]
          /\ DirtySetGoes
          /\ Go(p, "count")
          /\ UNCHANGED <<orphans, err>>
       \/ /\ Fault
          /\ \/ UNCHANGED <<dirty, scan, orphans>>
             \/ orphans' = orphans \cup dirty /\ DirtySetGoes
          /\ err' = err \cup ({p} \cap Finalizers)
          /\ Go(p, "release")
          /\ UNCHANGED <<held, todo>>
    /\ UNCHANGED <<pipe, count, ver, lock, read, mysql, close, quota, ghosts>>

\* A sync that fails gives its members back.
Abort(p) ==
    /\ err' = err \cup ({p} \cap Finalizers)
    /\ todo' = [todo EXCEPT ![p] = {}] /\ read' = [read EXCEPT ![p] = None]
    /\ Go(p, "requeue")

\* readAggregate, first command: the count of the next member.
ReadCount(p) ==
    /\ pc[p] = "count"
    /\ \/ \E f \in todo[p] :
             /\ NoFault /\ ver[f] # 0
             /\ read' = [read EXCEPT ![p] = [field |-> f, val |-> count[f],
                                             ver |-> 0, at |-> ver[f]]]
             /\ Go(p, "version")
             /\ UNCHANGED <<todo, err>>
       \/ (\E f \in todo[p] : ver[f] = 0) /\ NoFault /\ Abort(p)
       \/ Fault /\ Abort(p)
    /\ UNCHANGED <<pipe, redis, held, orphans, lock, mysql, close, quota, scan, ghosts>>

\* readAggregate, second command: the version of the same member.
ReadVersion(p) ==
    /\ pc[p] = "version"
    /\ \/ /\ NoFault /\ ver[read[p].field] # 0
          /\ read' = [read EXCEPT ![p] = [field |-> @.field, val |-> @.val,
                                          ver |-> ver[@.field], at |-> @.at]]
          /\ Go(p, "upsert")
          /\ UNCHANGED <<todo, err>>
       \/ NoFault /\ ver[read[p].field] = 0 /\ Abort(p)
       \/ Fault /\ Abort(p)
    /\ UNCHANGED <<pipe, redis, held, orphans, lock, mysql, close, quota, scan, ghosts>>

\* A faulty variant: the version of the row is not compared.
NewerAlways(r) == TRUE

\* new.source_version > token_stat_aggregates.source_version, or no row yet.
Newer(r) == r.ver > mysql[r.field].ver

UpsertAggregate(r) ==
    IF Newer(r)
      THEN /\ mysql' = [mysql EXCEPT ![r.field] = [val |-> r.val, ver |-> r.ver]]
           /\ torn' = IF r.at = r.ver THEN torn \ {r.field} ELSE torn \cup {r.field}
      ELSE UNCHANGED <<mysql, torn>>

\* The row is written, or the statement fails, with or without effect.
Upsert(p) ==
    /\ pc[p] = "upsert"
    /\ \/ /\ NoFault /\ UpsertAggregate(read[p])
          /\ todo' = [todo EXCEPT ![p] = @ \ {read[p].field}]
          /\ read' = [read EXCEPT ![p] = None]
          /\ Go(p, IF todo'[p] = {} THEN "del" ELSE "count")
          /\ UNCHANGED err
       \/ Fault /\ UpsertAggregate(read[p]) /\ Abort(p)
       \/ Fault /\ UNCHANGED <<mysql, torn>> /\ Abort(p)
    /\ UNCHANGED <<pipe, redis, held, orphans, lock, close, quota, scan, total, gone, late>>

\* All members are in MySQL: the processing set is deleted, or left behind.
DelProcessing(p) ==
    /\ pc[p] = "del"
    /\ \/ NoFault /\ UNCHANGED <<orphans, err>>
       \/ /\ Fault
          /\ orphans' \in {orphans, orphans \cup held[p]}
          /\ err' = err \cup ({p} \cap Finalizers)
    /\ held' = [held EXCEPT ![p] = {}]
    /\ Go(p, "release")
    /\ UNCHANGED <<pipe, redis, lock, todo, read, mysql, close, quota, scan, ghosts>>

\* A faulty variant: the members of a failed sync are dropped.
RequeueNothing(p) == {}

\* requeueDirtySet, whose own failure is ignored.
Requeued(p) == held[p]

Requeue(p) ==
    /\ pc[p] = "requeue"
    /\ \/ NoFault /\ dirty' = dirty \cup Requeued(p) /\ UNCHANGED orphans
       \/ Fault /\ orphans' = orphans \cup held[p] /\ UNCHANGED dirty
    /\ held' = [held EXCEPT ![p] = {}]
    /\ Go(p, "release")
    /\ UNCHANGED <<pipe, count, ver, lock, todo, read, err, mysql, close, quota, scan, ghosts>>

\* releaseSyncLock deletes the lock when it is still the caller's; a finalizer
\* records that its sync failed.
ReleaseSyncLock(p) ==
    /\ pc[p] = "release"
    /\ \/ NoFault /\ lock' = IF lock = p THEN Nobody ELSE lock
       \/ Fault /\ UNCHANGED lock
    /\ err' = err \ {p}
    /\ period' = IF p \in err THEN "FINAL_SYNC" ELSE period
    /\ Go(p, Return(p, p \in err))
    /\ UNCHANGED <<pipe, redis, held, orphans, todo, read, mysql, seen, quota, scan, ghosts>>

-----------------------------------------------------------------------------
(* PeriodFinalizer.Finalize.                                                 *)

\* A period with keys in Redis is marked CLOSING.
BeginFinalize(p) ==
    /\ p \in Finalizers /\ pc[p] = "idle"
    /\ \E f \in Closing : ver[f] # 0
    /\ period' = "CLOSING"
    /\ Go(p, "pending")
    /\ UNCHANGED <<pipe, redis, sync, mysql, seen, quota, scan, faults, ghosts>>

\* A faulty variant: an empty queue counts as pending.
PendingAlways(p) == Len(queue[Home[p]]) >= 0

\* HasPendingBefore looks at the length of the queue of its own process.
HasPendingBefore(p) == Len(queue[Home[p]]) > 0

CheckPending(p) ==
    /\ pc[p] = "pending"
    /\ IF HasPendingBefore(p)
         THEN Go(p, "idle") /\ UNCHANGED period
         ELSE Go(p, "sync") /\ period' = "FINAL_SYNC"
    /\ UNCHANGED <<pipe, redis, sync, mysql, seen, quota, scan, faults, ghosts>>

\* hasDirtyPeriod looks at the current dirty set, not at processing sets.
HasDirtyPeriod == dirty \cap Closing # {}

CheckDirty(p) ==
    /\ pc[p] = "dirty"
    /\ Go(p, IF HasDirtyPeriod THEN "idle" ELSE "versions")
    /\ UNCHANGED <<pipe, redis, sync, mysql, close, quota, scan, faults, ghosts>>

\* periodVersions reads the hash of versions.
PeriodVersions(p) ==
    /\ pc[p] = "versions"
    /\ seen' = [seen EXCEPT ![p] = [f \in Closing |-> ver[f]]]
    /\ todo' = [todo EXCEPT ![p] = {f \in Closing : ver[f] # 0}]
    /\ Go(p, "verify")
    /\ UNCHANGED <<pipe, redis, held, orphans, lock, read, err, mysql, period,
                   quota, scan, faults, ghosts>>

Leave(p) ==
    /\ seen' = [seen EXCEPT ![p] = Blank]
    /\ todo' = [todo EXCEPT ![p] = {}]
    /\ Go(p, "idle")

\* A faulty variant: the versions are not compared.
VersionUnchecked(p, f) == TRUE

\* VerifyPeriodVersions compares one version after another with MySQL.
VersionMatches(p, f) == mysql[f].ver = seen[p][f]

VerifyPeriodVersions(p) ==
    /\ pc[p] = "verify"
    /\ \/ \E f \in todo[p] :
             /\ VersionMatches(p, f)
             /\ todo' = [todo EXCEPT ![p] = @ \ {f}]
             /\ UNCHANGED <<seen, pc>>
       \/ (\E f \in todo[p] : ~VersionMatches(p, f)) /\ Leave(p)
       \/ todo[p] = {} /\ Go(p, "persisted") /\ UNCHANGED <<seen, todo>>
    /\ UNCHANGED <<pipe, redis, held, orphans, lock, read, err, mysql, period,
                   quota, scan, faults, ghosts>>

\* The period is marked PERSISTED; without keys there is nothing to unlink.
MarkPersisted(p) ==
    /\ pc[p] = "persisted"
    /\ period' = "PERSISTED"
    /\ Go(p, IF seen[p] = Blank THEN "deleted" ELSE "unlink")
    /\ UNCHANGED <<pipe, redis, sync, mysql, seen, quota, scan, faults, ghosts>>

\* UNLINK of both hashes; a call that fails may have done so.
Unlink(p) ==
    /\ pc[p] = "unlink"
    /\ \/ NoFault /\ Go(p, "deleted") /\ UNCHANGED <<seen, todo>>
       \/ Fault /\ Leave(p)
    /\ count' = [f \in Fields |-> IF f \in Closing THEN 0 ELSE count[f]]
    /\ ver' = [f \in Fields |-> IF f \in Closing THEN 0 ELSE ver[f]]
    /\ gone' = gone \cup {f \in Closing : ver[f] # 0}
    /\ late' = late \cup {f \in Closing : ver[f] # seen[p][f] /\ ver[f] # 0}
    /\ UNCHANGED <<pipe, dirty, held, orphans, lock, read, err, mysql, period,
                   quota, scan, total, torn>>

MarkDeleted(p) ==
    /\ pc[p] = "deleted"
    /\ period' = "DELETED"
    /\ Leave(p)
    /\ UNCHANGED <<pipe, redis, held, orphans, lock, read, err, mysql, quota, scan,
                   faults, ghosts>>

\* Any other statement of Finalize fails: it returns and the next tick begins
\* again.
FinalizeFails(p) ==
    /\ pc[p] \in {"pending", "dirty", "versions", "verify", "persisted", "unlink", "deleted"}
    /\ Fault
    /\ Leave(p)
    /\ UNCHANGED <<pipe, redis, held, orphans, lock, read, err, mysql, period,
                   quota, scan, ghosts>>

-----------------------------------------------------------------------------
(* The quota reset.                                                          *)

\* QuotaReader.Read: usage since the last reset.
EffectiveUsage(f) ==
    IF count[f] <= baseline[f] THEN 0 ELSE count[f] - baseline[f]

InProcessing == orphans \cup UNION {held[p] : p \in Procs}

\* One SSCAN: a page of the dirty set as it is now.  The cursor returns to 0
\* only after every member that was there all the time; what later pages bring
\* came after the scan began, and the reset does not owe it.  A failure ends
\* the request.
SScan(ahead, missed) ==
    \/ \E page \in SUBSET (dirty \cap Scope) :
          /\ NoFault
          /\ found' = found \cup page /\ UNCHANGED failed
          /\ unscanned' = ahead \ page /\ hidden' = missed \ page
          /\ stage' = IF unscanned' = {} THEN "aggregates" ELSE "scan"
    \/ /\ Fault
       /\ stage' = "done" /\ failed' = Scope /\ found' = {}
       /\ unscanned' = {} /\ hidden' = {}

\* ScanCurrent looks for identities in the dirty set, and in that alone: the
\* first page ...
BeginScan ==
    /\ stage = "idle" /\ Scope # {}
    /\ owed' = [f \in Fields |-> IF f \in Scope THEN count[f] ELSE 0]
    /\ SScan(dirty \cap Scope, (Scope \cap InProcessing) \ dirty)
    /\ UNCHANGED <<pipe, redis, sync, mysql, close, baseline, pc, ghosts>>

\* ... and the next ones.
ScanCurrent ==
    /\ stage = "scan" /\ SScan(unscanned, hidden)
    /\ UNCHANGED <<pipe, redis, sync, mysql, close, baseline, owed, pc, ghosts>>

\* A faulty variant: only the dirty set is asked for identities.
NoAggregates == {}

\* ListAggregateIdentities, after the scan; a failure ends the request.
AggregateIdentities == {f \in Scope : mysql[f].ver # 0}

ListAggregateIdentities ==
    /\ stage = "aggregates"
    /\ \/ /\ NoFault
          /\ stage' = "snapshot" /\ found' = found \cup AggregateIdentities
          /\ hidden' = {f \in hidden : mysql[f].ver = 0}
          /\ UNCHANGED failed
       \/ Fault /\ stage' = "done" /\ failed' = Scope /\ UNCHANGED <<found, hidden>>
    /\ UNCHANGED <<pipe, redis, sync, mysql, close, unscanned, baseline, owed, pc, ghosts>>

\* SnapshotBatch: one script per identity, each with a result of its own.
\* A call that fails may have set the baseline.
Snapshot == \E f \in found :
    LET taken == [baseline EXCEPT ![f] = IF ver[f] # 0 THEN count[f] ELSE @] IN
    /\ stage = "snapshot"
    /\ found' = found \ {f}
    /\ \/ NoFault /\ baseline' = taken /\ UNCHANGED failed
       \/ Fault /\ baseline' \in {baseline, taken} /\ failed' = failed \cup {f}
    /\ UNCHANGED <<stage, pipe, redis, sync, mysql, close, scan, owed, pc, ghosts>>

ResetReturns ==
    /\ stage = "snapshot" /\ found = {}
    /\ stage' = "done"
    /\ UNCHANGED <<pipe, redis, sync, mysql, close, scan, found, failed, baseline, owed,
                   pc, faults, ghosts>>

-----------------------------------------------------------------------------
(* Time and process deaths.                                                  *)

\* The lock reaches its TTL of two minutes after its holder has gone.
LockExpires ==
    /\ lock # Nobody /\ pc[lock] \notin Holding
    /\ lock' = Nobody
    /\ UNCHANGED <<pipe, redis, held, orphans, todo, read, err, mysql, close,
                   quota, scan, pc, faults, ghosts>>

\* The same while its holder still works.
LockExpiresEarly ==
    /\ lock # Nobody /\ pc[lock] \in Holding
    /\ Fault /\ lock' = Nobody
    /\ UNCHANGED <<pipe, redis, held, orphans, todo, read, err, mysql, close,
                   quota, scan, pc, ghosts>>

\* A process dies and is started again: its queue and jobs are lost, and its
\* processing sets stay in Redis under a key nobody knows.
Crash(i) ==
    LET dead == {p \in Procs : Home[p] = i} IN
    /\ Fault
    /\ queue' = [queue EXCEPT ![i] = <<>>]
    /\ job' = [w \in Workers |-> IF Home[w] = i THEN [ev |-> NoEvent, attempt |-> 0]
                                               ELSE job[w]]
    /\ orphans' = orphans \cup UNION {held[p] : p \in dead}
    /\ held' = [p \in Procs |-> IF p \in dead THEN {} ELSE held[p]]
    /\ todo' = [p \in Procs |-> IF p \in dead THEN {} ELSE todo[p]]
    /\ read' = [p \in Procs |-> IF p \in dead THEN None ELSE read[p]]
    /\ err' = err \ dead
    /\ seen' = [p \in Procs |-> IF p \in dead THEN Blank ELSE seen[p]]
    /\ pc' = [p \in Procs |-> IF p \in dead THEN "idle" ELSE pc[p]]
    /\ UNCHANGED <<unsent, redis, lock, mysql, period, quota, scan, ghosts>>

SyncStep(p) ==
    \/ RotateDirtySet(p) \/ ReadCount(p) \/ ReadVersion(p) \/ Upsert(p)
    \/ DelProcessing(p) \/ Requeue(p) \/ ReleaseSyncLock(p)

FinalizeStep(p) ==
    \/ CheckPending(p) \/ CheckDirty(p) \/ PeriodVersions(p)
    \/ VerifyPeriodVersions(p) \/ MarkPersisted(p) \/ Unlink(p) \/ MarkDeleted(p)

Next ==
    \/ \E w \in Workers : TryEnqueue(Home[w]) \/ Dequeue(w) \/ Add(w)
    \/ \E p \in Procs : AcquireSyncLock(p) \/ SyncStep(p)
    \/ \E p \in Procs : BeginFinalize(p) \/ FinalizeStep(p) \/ FinalizeFails(p)
    \/ BeginScan \/ ScanCurrent \/ ListAggregateIdentities \/ Snapshot \/ ResetReturns
    \/ LockExpires \/ LockExpiresEarly
    \/ \E i \in Instances : Crash(i)

\* Goroutines that can run do so, the tickers fire again and locks expire;
\* requests, resets and failures need not come.
Fairness ==
    /\ \A w \in Workers : WF_vars(Dequeue(w)) /\ WF_vars(Add(w))
    /\ \A p \in Procs : WF_vars(AcquireSyncLock(p)) /\ WF_vars(SyncStep(p))
    /\ \A p \in Finalizers : WF_vars(BeginFinalize(p)) /\ WF_vars(FinalizeStep(p))
    /\ WF_vars(LockExpires)

Spec == Init /\ [][Next]_vars /\ Fairness
-----------------------------------------------------------------------------
(* Properties.                                                               *)

\* Usage MySQL does not have yet is marked, in the dirty set or in a processing
\* set (TestDynamicTokenSyncPersistsAbsoluteSnapshotAndPreservesConcurrentDirty),
\* also when syncs overlap because a lock expired, fail or die half way.
UnsyncedIsMarked ==
    \A f \in Fields : ver[f] > mysql[f].ver => f \in dirty \cup InProcessing

\* No sync puts an older value in the place of a newer one, however late its
\* write arrives, except from a torn read or a counter that was deleted and
\* begun again.
HistoryAdvances ==
    [][\A f \in Fields \ (late' \cup torn') : mysql'[f].val >= mysql[f].val]_vars

\* The finalizer deletes a counter only when MySQL has every token that was
\* added to it, unless one was added after its versions were collected or its
\* row was written from a torn read.
DeletedIsPersisted ==
    \A f \in gone \ (late \cup torn) : mysql[f].val = total[f]

\* A row with the version of the counter has the value of the counter, which the
\* version checks of UpsertAggregate and VerifyPeriodVersions rely on, unless an
\* Add fell between the two reads of readAggregate.
VersionTellsValue ==
    \A f \in Fields \ (late \cup torn) :
        ver[f] # 0 /\ mysql[f].ver = ver[f] => mysql[f].val = count[f]

\* MVP-007-period-finalization.md says that a scheduled deletion must not lose
\* data that was not synced: the same without the exception for torn reads.
DeletionLosesNothing ==
    \A f \in gone \ late : mysql[f].val = total[f]

\* When a reset returns, usage from before it no longer counts against the
\* quota, except that of identities reported as failed and of those that a sync
\* had taken to a processing set before the scan came to them and that had no
\* row when the rows were listed.
ResetCoversUsage ==
    stage = "done" =>
        \A f \in Scope \ (failed \cup hidden) : EffectiveUsage(f) <= count[f] - owed[f]

\* A member of the dirty set whose counter was deleted: readAggregate finds
\* nothing, and every sync that comes to it fails and puts it back.
Poisoned == \E f \in dirty : ver[f] = 0

\* A field whose only mark is in a processing set nobody works on.
Stranded(f) == f \in orphans \ (dirty \cup UNION {held[p] : p \in Procs})

\* Usage reaches MySQL, unless a failed or dead sync left it in a processing
\* set or a member without counter blocks every sync.
UsageIsPersisted ==
    \A f \in Fields :
        ver[f] > mysql[f].ver
            ~> (ver[f] <= mysql[f].ver \/ Stranded(f) \/ Poisoned)

\* The counters of an ended period are deleted in the end, unless one of these
\* or a late addition keeps them.
PeriodIsCleared ==
    (\E f \in Closing : ver[f] # 0)
        ~> \/ (\A f \in Closing : ver[f] = 0) \/ (\E f \in Closing : Stranded(f))
           \/ late # {} \/ Poisoned
=============================================================================

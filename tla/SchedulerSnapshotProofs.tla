----------------------- MODULE SchedulerSnapshotProofs -----------------------
(***************************************************************************)
(* Proofs about SchedulerSnapshot for every number of buckets, writers,    *)
(* instances, rebuilds and requests, every size of a poll and every budget *)
(* of changes and failures.                                                *)
(***************************************************************************)
EXTENDS SchedulerSnapshot, FiniteSetTheorems, TLAPS

Rebuilding == {"lock"} \cup Working
Labels     == Rebuilding \cup {"idle", "list", "event", "touch", "account", "watermark",
                               "cleanup", "lag"}
WLabels    == {"idle", "uncache", "enqueue", "insert", "sync", "set"}
AnyRows    == [id : Nat, kind : {"changed", "used"}]

\* The types the argument needs, in four parts.
StoreTypes ==
    /\ db \in Nat /\ nextId \in Nat /\ watermark \in Nat /\ acc \in Nat
    /\ rows \in SUBSET AnyRows /\ IsFiniteSet(rows) /\ keyed \in SUBSET Nat
    /\ list \in [Buckets -> Nat] /\ ready \in [Buckets -> BOOLEAN]

WriterTypes == wpc \in [Writers -> WLabels] /\ wval \in [Writers -> Nat]

ProcTypes ==
    /\ pc \in [Procs -> Labels] /\ got \in [Procs -> Nat]
    /\ todo \in [Procs -> SUBSET Buckets] /\ bucket \in [Procs -> Buckets \cup {Nobody}]

PollTypes ==
    /\ base \in [Pollers -> Nat] /\ last \in [Pollers -> Nat]
    /\ batch \in [Pollers -> SUBSET AnyRows] /\ seen \in [Pollers -> BOOLEAN]
    /\ job \in [Pollers -> {"event", "full"}]

Types == StoreTypes /\ WriterTypes /\ ProcTypes /\ PollTypes

\* No copy of the account is ahead of the database.
Behind ==
    /\ db >= 1 /\ acc <= db
    /\ \A b \in Buckets : list[b] <= db /\ (ready[b] => list[b] >= 1)
    /\ \A x \in Procs : got[x] <= db /\ (pc[x] \in {"incr", "write", "activate"} => got[x] >= 1)
    /\ \A w \in Writers : wpc[w] = "set" => wval[w] <= db

\* An id is given to one row, and what has a dedup_key is a row of a change.
Unique(R) == \A r, s \in R : r.id = s.id => r = s

RowIds ==
    /\ Unique(rows) /\ \A r \in rows : r.id < nextId
    /\ \A w \in Writers : wpc[w] = "insert" =>
          /\ wval[w] < nextId /\ \A r \in rows : r.id # wval[w]
          /\ \A v \in Writers : wpc[v] = "insert" /\ wval[v] = wval[w] => v = w

KeyedRows == \A k \in keyed : [id |-> k, kind |-> "changed"] \in rows
BatchIds  == \A p \in Pollers : Unique(batch[p])

\* A row that has the dedup_key and was not missed is ahead of every poll.
KeyedAhead ==
    \A k \in keyed \ missed :
        k > watermark /\ \A p \in Pollers : k > base[p] /\ k > last[p]

\* What a poll begins and ends with, the event it is at and the rebuilds it is in.
ControlAt(p) ==
    /\ seen[p] => \/ pc[p] \in {"event", "touch", "account", "watermark", "cleanup", "lag"}
                  \/ pc[p] \in Rebuilding /\ job[p] = "event"
    /\ pc[p] \in {"watermark", "cleanup"} => batch[p] = {}
    /\ pc[p] = "touch" => \E r \in batch[p] : Event(p, r) /\ r.kind = "used"
    /\ pc[p] \in Working => bucket[p] \in todo[p]

Control == \A p \in Pollers : ControlAt(p)

-----------------------------------------------------------------------------
(* The argument: an entry of the cache that misses a change is excused, or *)
(* somebody still knows of the change.                                     *)

GoodAcc    == acc \in {0, db} \/ Account \in excused
GoodList(b) == db = 1 \/ list[b] = db \/ b \in excused
AllGood    == GoodAcc /\ \A b \in Buckets : GoodList(b)

\* A change is about to be enqueued, or has a row above i.
Announced == \E w \in Writers : wpc[w] \in {"uncache", "enqueue", "insert"}
NewRow(i)  == \E r \in rows : r.kind = "changed" /\ r.id > i
Known(i)  == Announced \/ NewRow(i)

\* The poll p is between reading its rows and moving the watermark, and none
\* of its rebuilds has failed.
Handling(p) ==
    \/ pc[p] \in {"event", "touch", "account", "watermark", "cleanup"}
    \/ pc[p] \in Rebuilding /\ job[p] = "event" /\ p \notin err

\* What it has still to do for the account's entry, and for the list of b.
Later(p) == \E r \in batch[p] : r.kind = "changed" /\ ~Event(p, r)

AccLeft(p) ==
    \/ pc[p] \in {"event", "touch"} /\ \E r \in batch[p] : r.kind = "changed"
    \/ pc[p] = "account" /\ got[p] = db
    \/ pc[p] \in Rebuilding \cup {"account"} /\ Later(p)

ListLeft(p, b) ==
    \/ pc[p] \in {"event", "touch"} /\ ~seen[p] /\ \E r \in batch[p] : r.kind = "changed"
    \/ pc[p] = "account" /\ ~seen[p]
    \/ /\ pc[p] \in Rebuilding /\ b \in todo[p]
       /\ \/ pc[p] \in {"lock", "load"} \/ bucket[p] # b
          \/ pc[p] \in {"incr", "write", "activate"} /\ got[p] = db

PollKnows(p) ==
    /\ pc[p] = "list" => Known(base[p]) \/ AllGood
    /\ Handling(p) =>
          \/ Known(last[p])
          \/ /\ GoodAcc \/ AccLeft(p)
             /\ \A b \in Buckets : GoodList(b) \/ ListLeft(p, b)

Explained ==
    /\ Known(watermark) \/ AllGood
    /\ \A p \in Pollers : PollKnows(p)

Ids == RowIds /\ KeyedRows /\ BatchIds /\ KeyedAhead

SnapshotInv == Types /\ Behind /\ Ids /\ Control /\ Explained

-----------------------------------------------------------------------------
(* Types.                                                                  *)

\* A row of the outbox is a row of the outbox.
LEMMA NewRows ==
    ASSUME NEW i \in Nat
    PROVE  [id |-> i, kind |-> "changed"] \in AnyRows /\ [id |-> i, kind |-> "used"] \in AnyRows
BY DEF AnyRows

\* The outbox stays finite, whatever is added or deleted.
LEMMA FiniteRows ==
    ASSUME NEW R, IsFiniteSet(R), NEW r
    PROVE  IsFiniteSet(R \cup {r}) /\ \A D : IsFiniteSet(R \ D)
BY FS_AddElement, FS_Difference

\* EnqueueSchedulerOutbox keeps both.
LEMMA EnqueueTypes ==
    ASSUME StoreTypes, NEW i \in Nat, EnqueueSchedulerOutbox(i)
    PROVE  rows' \in SUBSET AnyRows /\ IsFiniteSet(rows') /\ keyed' \in SUBSET Nat
<1>1. CASE keyed = {}
  <2>1. rows' = rows \cup {[id |-> i, kind |-> "changed"]} /\ keyed' = {i}
    BY <1>1 DEF EnqueueSchedulerOutbox
  <2>2. IsFiniteSet(rows')
    BY <2>1, FiniteRows DEF StoreTypes
  <2> QED
    BY <2>1, <2>2, NewRows DEF StoreTypes
<1>2. CASE keyed # {}
  <2>1. rows' = rows /\ keyed' = keyed
    BY <1>2 DEF EnqueueSchedulerOutbox
  <2> QED
    BY <2>1 DEF StoreTypes
<1> QED
  BY <1>1, <1>2

\* MySQL and Redis.
LEMMA StoreStep ==
    ASSUME Types, [Next]_vars
    PROVE  StoreTypes'
<1> USE DEF Types, StoreTypes, mysql, redis, vars
<1>1. ASSUME NEW w \in Writers, Change(w) PROVE StoreTypes' BY <1>1 DEF Change
<1>0a. ASSUME NEW w \in Writers, ChangeUnannounced(w) PROVE StoreTypes'
  BY <1>0a DEF ChangeUnannounced
<1>2. ASSUME NEW w \in Writers, ChangeInTx(w) PROVE StoreTypes'
  <2>1. rows' \in SUBSET AnyRows /\ IsFiniteSet(rows') /\ keyed' \in SUBSET Nat
    BY <1>2, EnqueueTypes DEF ChangeInTx
  <2> QED
    BY <1>2, <2>1 DEF ChangeInTx
<1>3. ASSUME NEW w \in Writers, DeleteSchedulerAccountSnapshot(w) PROVE StoreTypes'
  BY <1>3 DEF DeleteSchedulerAccountSnapshot
<1>4. ASSUME NEW w \in Writers, AllocateId(w) PROVE StoreTypes' BY <1>4 DEF AllocateId
<1>5. ASSUME NEW w \in Writers, Enqueue(w) PROVE StoreTypes'
  <2>1. rows' \in SUBSET AnyRows /\ IsFiniteSet(rows') /\ keyed' \in SUBSET Nat
    BY <1>5, EnqueueTypes DEF Enqueue, WriterTypes
  <2> QED
    BY <1>5, <2>1 DEF Enqueue
<1>6. ASSUME NEW w \in Writers, SyncRead(w) PROVE StoreTypes' BY <1>6 DEF SyncRead
<1>7. ASSUME NEW w \in Writers, SyncSet(w) PROVE StoreTypes'
  BY <1>7 DEF SyncSet, PutAccount, WriterTypes
<1>8. CASE TouchLastUsed
  <2>1. rows' \in SUBSET AnyRows /\ IsFiniteSet(rows')
    BY <1>8, NewRows, FiniteRows DEF TouchLastUsed
  <2> QED
    BY <1>8, <2>1 DEF TouchLastUsed
<1>9. ASSUME NEW x \in Procs, TryLockBucket(x) PROVE StoreTypes' BY <1>9 DEF TryLockBucket
<1>10. ASSUME NEW x \in Procs, LoadAccountsFromDB(x) PROVE StoreTypes'
  BY <1>10 DEF LoadAccountsFromDB
<1>11. ASSUME NEW x \in Procs, IncrVersion(x) PROVE StoreTypes' BY <1>11 DEF IncrVersion
<1>12. ASSUME NEW x \in Procs, WriteAccounts(x) PROVE StoreTypes'
  BY <1>12 DEF WriteAccounts, PutAccount, ProcTypes
<1>13. ASSUME NEW x \in Procs, Activate(x) PROVE StoreTypes' BY <1>13 DEF Activate, ProcTypes
<1>14. ASSUME NEW x \in Procs, UnlockBucket(x) PROVE StoreTypes' BY <1>14 DEF UnlockBucket
<1>15. ASSUME NEW x \in Procs, FullRebuildEnds(x) PROVE StoreTypes' BY <1>15 DEF FullRebuildEnds
<1>16. ASSUME NEW x \in Procs, SnapshotFails(x) PROVE StoreTypes' BY <1>16 DEF SnapshotFails
<1>17. ASSUME NEW x \in Procs, Crash(x) PROVE StoreTypes' BY <1>17 DEF Crash
<1>18. ASSUME NEW x \in Rebuilders, FullRebuild(x) PROVE StoreTypes' BY <1>18 DEF FullRebuild
<1>19. ASSUME NEW x \in Readers, ListSchedulableAccounts(x) PROVE StoreTypes'
  BY <1>19 DEF ListSchedulableAccounts
<1>20. ASSUME NEW p \in Pollers, GetOutboxWatermark(p) PROVE StoreTypes'
  BY <1>20 DEF GetOutboxWatermark
<1>21. ASSUME NEW p \in Pollers, ListAfterAndReleaseDedup(p) PROVE StoreTypes'
  BY <1>21 DEF ListAfterAndReleaseDedup, Released
<1>22. ASSUME NEW p \in Pollers, HandleLastUsedEvent(p) PROVE StoreTypes'
  BY <1>22 DEF HandleLastUsedEvent
<1>23. ASSUME NEW p \in Pollers, UpdateLastUsed(p) PROVE StoreTypes'
  BY <1>23 DEF UpdateLastUsed, PutAccount, ProcTypes, Procs
<1>24. ASSUME NEW p \in Pollers, HandleAccountEvent(p) PROVE StoreTypes'
  BY <1>24 DEF HandleAccountEvent
<1>25. ASSUME NEW p \in Pollers, SetAccount(p) PROVE StoreTypes'
  BY <1>25 DEF SetAccount, PutAccount, ProcTypes, Procs
<1>26. ASSUME NEW p \in Pollers, EventRebuilt(p) PROVE StoreTypes' BY <1>26 DEF EventRebuilt
<1>27. ASSUME NEW p \in Pollers, EventFails(p) PROVE StoreTypes' BY <1>27 DEF EventFails
<1>28. ASSUME NEW p \in Pollers, SetOutboxWatermark(p) PROVE StoreTypes'
  BY <1>28 DEF SetOutboxWatermark, Consumed, PollTypes
<1>29. ASSUME NEW p \in Pollers, CleanupConsumedOutbox(p) PROVE StoreTypes'
  <2>1. rows' \in SUBSET AnyRows /\ IsFiniteSet(rows') /\ keyed' \in SUBSET Nat
    <3>1. PICK D \in SUBSET rows : rows' = rows \ D /\ keyed' = keyed \ {r.id : r \in D}
      BY <1>29 DEF CleanupConsumedOutbox
    <3>2. IsFiniteSet(rows')
      BY <3>1, FiniteRows
    <3> QED
      BY <3>1, <3>2
  <2> QED
    BY <1>29, <2>1 DEF CleanupConsumedOutbox
<1>30. ASSUME NEW p \in Pollers, CheckOutboxLag(p) PROVE StoreTypes' BY <1>30 DEF CheckOutboxLag
<1>31. ASSUME NEW b \in Buckets, LockExpires(b) PROVE StoreTypes' BY <1>31 DEF LockExpires
<1>32. CASE UNCHANGED vars BY <1>32
<1> QED
  BY <1>0a, <1>1, <1>2, <1>3, <1>4, <1>5, <1>6, <1>7, <1>8, <1>9, <1>10, <1>11, <1>12, <1>13,
     <1>14, <1>15, <1>16, <1>17, <1>18, <1>19, <1>20, <1>21, <1>22, <1>23, <1>24, <1>25, <1>26,
     <1>27, <1>28, <1>29, <1>30, <1>31, <1>32 DEF Next, WriterStep, BuildStep, PollStep, Procs

\* The requests that change the account.
LEMMA WriterTypesStep ==
    ASSUME Types, [Next]_vars
    PROVE  WriterTypes'
<1> USE DEF Types, WriterTypes, StoreTypes, WLabels, WGo, writer, vars
<1>1. ASSUME NEW w \in Writers, Change(w) PROVE WriterTypes' BY <1>1 DEF Change
<1>0a. ASSUME NEW w \in Writers, ChangeUnannounced(w) PROVE WriterTypes'
  BY <1>0a DEF ChangeUnannounced
<1>2. ASSUME NEW w \in Writers, ChangeInTx(w) PROVE WriterTypes' BY <1>2 DEF ChangeInTx
<1>3. ASSUME NEW w \in Writers, DeleteSchedulerAccountSnapshot(w) PROVE WriterTypes'
  BY <1>3 DEF DeleteSchedulerAccountSnapshot
<1>4. ASSUME NEW w \in Writers, AllocateId(w) PROVE WriterTypes' BY <1>4 DEF AllocateId
<1>5. ASSUME NEW w \in Writers, Enqueue(w) PROVE WriterTypes' BY <1>5 DEF Enqueue
<1>6. ASSUME NEW w \in Writers, SyncRead(w) PROVE WriterTypes' BY <1>6 DEF SyncRead
<1>7. ASSUME NEW w \in Writers, SyncSet(w) PROVE WriterTypes' BY <1>7 DEF SyncSet
<1>8. CASE TouchLastUsed BY <1>8 DEF TouchLastUsed
<1>9. ASSUME NEW x \in Procs, TryLockBucket(x) PROVE WriterTypes' BY <1>9 DEF TryLockBucket
<1>10. ASSUME NEW x \in Procs, LoadAccountsFromDB(x) PROVE WriterTypes'
  BY <1>10 DEF LoadAccountsFromDB
<1>11. ASSUME NEW x \in Procs, IncrVersion(x) PROVE WriterTypes' BY <1>11 DEF IncrVersion
<1>12. ASSUME NEW x \in Procs, WriteAccounts(x) PROVE WriterTypes' BY <1>12 DEF WriteAccounts
<1>13. ASSUME NEW x \in Procs, Activate(x) PROVE WriterTypes' BY <1>13 DEF Activate
<1>14. ASSUME NEW x \in Procs, UnlockBucket(x) PROVE WriterTypes' BY <1>14 DEF UnlockBucket
<1>15. ASSUME NEW x \in Procs, FullRebuildEnds(x) PROVE WriterTypes' BY <1>15 DEF FullRebuildEnds
<1>16. ASSUME NEW x \in Procs, SnapshotFails(x) PROVE WriterTypes' BY <1>16 DEF SnapshotFails
<1>17. ASSUME NEW x \in Procs, Crash(x) PROVE WriterTypes' BY <1>17 DEF Crash
<1>18. ASSUME NEW x \in Rebuilders, FullRebuild(x) PROVE WriterTypes' BY <1>18 DEF FullRebuild
<1>19. ASSUME NEW x \in Readers, ListSchedulableAccounts(x) PROVE WriterTypes'
  BY <1>19 DEF ListSchedulableAccounts
<1>20. ASSUME NEW p \in Pollers, GetOutboxWatermark(p) PROVE WriterTypes'
  BY <1>20 DEF GetOutboxWatermark
<1>21. ASSUME NEW p \in Pollers, ListAfterAndReleaseDedup(p) PROVE WriterTypes'
  BY <1>21 DEF ListAfterAndReleaseDedup
<1>22. ASSUME NEW p \in Pollers, HandleLastUsedEvent(p) PROVE WriterTypes'
  BY <1>22 DEF HandleLastUsedEvent
<1>23. ASSUME NEW p \in Pollers, UpdateLastUsed(p) PROVE WriterTypes' BY <1>23 DEF UpdateLastUsed
<1>24. ASSUME NEW p \in Pollers, HandleAccountEvent(p) PROVE WriterTypes'
  BY <1>24 DEF HandleAccountEvent
<1>25. ASSUME NEW p \in Pollers, SetAccount(p) PROVE WriterTypes' BY <1>25 DEF SetAccount
<1>26. ASSUME NEW p \in Pollers, EventRebuilt(p) PROVE WriterTypes' BY <1>26 DEF EventRebuilt
<1>27. ASSUME NEW p \in Pollers, EventFails(p) PROVE WriterTypes' BY <1>27 DEF EventFails
<1>28. ASSUME NEW p \in Pollers, SetOutboxWatermark(p) PROVE WriterTypes'
  BY <1>28 DEF SetOutboxWatermark
<1>29. ASSUME NEW p \in Pollers, CleanupConsumedOutbox(p) PROVE WriterTypes'
  BY <1>29 DEF CleanupConsumedOutbox
<1>30. ASSUME NEW p \in Pollers, CheckOutboxLag(p) PROVE WriterTypes' BY <1>30 DEF CheckOutboxLag
<1>31. ASSUME NEW b \in Buckets, LockExpires(b) PROVE WriterTypes' BY <1>31 DEF LockExpires
<1>32. CASE UNCHANGED vars BY <1>32
<1> QED
  BY <1>0a, <1>1, <1>2, <1>3, <1>4, <1>5, <1>6, <1>7, <1>8, <1>9, <1>10, <1>11, <1>12, <1>13,
     <1>14, <1>15, <1>16, <1>17, <1>18, <1>19, <1>20, <1>21, <1>22, <1>23, <1>24, <1>25, <1>26,
     <1>27, <1>28, <1>29, <1>30, <1>31, <1>32 DEF Next, WriterStep, BuildStep, PollStep, Procs

\* The processes.
LEMMA ProcTypesStep ==
    ASSUME Types, [Next]_vars
    PROVE  ProcTypes'
<1> USE DEF Types, ProcTypes, StoreTypes, Labels, Rebuilding, Working, Go, Leave, build, vars
<1>1. ASSUME NEW w \in Writers, Change(w) PROVE ProcTypes' BY <1>1 DEF Change
<1>0a. ASSUME NEW w \in Writers, ChangeUnannounced(w) PROVE ProcTypes'
  BY <1>0a DEF ChangeUnannounced
<1>2. ASSUME NEW w \in Writers, ChangeInTx(w) PROVE ProcTypes' BY <1>2 DEF ChangeInTx
<1>3. ASSUME NEW w \in Writers, DeleteSchedulerAccountSnapshot(w) PROVE ProcTypes'
  BY <1>3 DEF DeleteSchedulerAccountSnapshot
<1>4. ASSUME NEW w \in Writers, AllocateId(w) PROVE ProcTypes' BY <1>4 DEF AllocateId
<1>5. ASSUME NEW w \in Writers, Enqueue(w) PROVE ProcTypes' BY <1>5 DEF Enqueue
<1>6. ASSUME NEW w \in Writers, SyncRead(w) PROVE ProcTypes' BY <1>6 DEF SyncRead
<1>7. ASSUME NEW w \in Writers, SyncSet(w) PROVE ProcTypes' BY <1>7 DEF SyncSet
<1>8. CASE TouchLastUsed BY <1>8 DEF TouchLastUsed
<1>9. ASSUME NEW x \in Procs, TryLockBucket(x) PROVE ProcTypes' BY <1>9 DEF TryLockBucket
<1>10. ASSUME NEW x \in Procs, LoadAccountsFromDB(x) PROVE ProcTypes'
  BY <1>10 DEF LoadAccountsFromDB
<1>11. ASSUME NEW x \in Procs, IncrVersion(x) PROVE ProcTypes' BY <1>11 DEF IncrVersion
<1>12. ASSUME NEW x \in Procs, WriteAccounts(x) PROVE ProcTypes' BY <1>12 DEF WriteAccounts
<1>13. ASSUME NEW x \in Procs, Activate(x) PROVE ProcTypes' BY <1>13 DEF Activate
<1>14. ASSUME NEW x \in Procs, UnlockBucket(x) PROVE ProcTypes' BY <1>14 DEF UnlockBucket
<1>15. ASSUME NEW x \in Procs, FullRebuildEnds(x) PROVE ProcTypes' BY <1>15 DEF FullRebuildEnds
<1>16. ASSUME NEW x \in Procs, SnapshotFails(x) PROVE ProcTypes' BY <1>16 DEF SnapshotFails
<1>17. ASSUME NEW x \in Procs, Crash(x) PROVE ProcTypes' BY <1>17 DEF Crash
<1>18. ASSUME NEW x \in Rebuilders, FullRebuild(x) PROVE ProcTypes'
  BY <1>18 DEF FullRebuild, ListBuckets, Procs
<1>19. ASSUME NEW x \in Readers, ListSchedulableAccounts(x) PROVE ProcTypes'
  BY <1>19 DEF ListSchedulableAccounts, Procs
<1>20. ASSUME NEW p \in Pollers, GetOutboxWatermark(p) PROVE ProcTypes'
  BY <1>20 DEF GetOutboxWatermark, Procs
<1>21. ASSUME NEW p \in Pollers, ListAfterAndReleaseDedup(p) PROVE ProcTypes'
  BY <1>21 DEF ListAfterAndReleaseDedup, Procs, PollEnds
<1>22. ASSUME NEW p \in Pollers, HandleLastUsedEvent(p) PROVE ProcTypes'
  BY <1>22 DEF HandleLastUsedEvent, Procs, Handled
<1>23. ASSUME NEW p \in Pollers, UpdateLastUsed(p) PROVE ProcTypes'
  BY <1>23 DEF UpdateLastUsed, Procs, Handled
<1>24. ASSUME NEW p \in Pollers, HandleAccountEvent(p) PROVE ProcTypes'
  BY <1>24 DEF HandleAccountEvent, Procs
<1>25. ASSUME NEW p \in Pollers, SetAccount(p) PROVE ProcTypes'
  BY <1>25 DEF SetAccount, Procs, Handled
<1>26. ASSUME NEW p \in Pollers, EventRebuilt(p) PROVE ProcTypes'
  BY <1>26 DEF EventRebuilt, Procs, Handled, PollEnds
<1>27. ASSUME NEW p \in Pollers, EventFails(p) PROVE ProcTypes'
  BY <1>27 DEF EventFails, Procs, PollEnds
<1>28. ASSUME NEW p \in Pollers, SetOutboxWatermark(p) PROVE ProcTypes'
  BY <1>28 DEF SetOutboxWatermark, Procs
<1>29. ASSUME NEW p \in Pollers, CleanupConsumedOutbox(p) PROVE ProcTypes'
  BY <1>29 DEF CleanupConsumedOutbox, Procs
<1>30. ASSUME NEW p \in Pollers, CheckOutboxLag(p) PROVE ProcTypes'
  BY <1>30 DEF CheckOutboxLag, Procs, ListBuckets
<1>31. ASSUME NEW b \in Buckets, LockExpires(b) PROVE ProcTypes' BY <1>31 DEF LockExpires
<1>32. CASE UNCHANGED vars BY <1>32
<1> QED
  BY <1>0a, <1>1, <1>2, <1>3, <1>4, <1>5, <1>6, <1>7, <1>8, <1>9, <1>10, <1>11, <1>12, <1>13,
     <1>14, <1>15, <1>16, <1>17, <1>18, <1>19, <1>20, <1>21, <1>22, <1>23, <1>24, <1>25, <1>26,
     <1>27, <1>28, <1>29, <1>30, <1>31, <1>32 DEF Next, WriterStep, BuildStep, PollStep, Procs

\* A poll that reads rows reads all between two ids; otherwise it ends.
Reads(p, R, m) ==
    /\ R \in SUBSET rows /\ m \in R
    /\ \A r \in R : base[p] < r.id /\ r.id <= m.id
    /\ \A r \in rows : base[p] < r.id /\ r.id <= m.id => r \in R
    /\ batch' = [batch EXCEPT ![p] = R] /\ last' = [last EXCEPT ![p] = m.id]
    /\ UNCHANGED <<base, seen>> /\ pc' = [pc EXCEPT ![p] = "event"]
    /\ keyed' = Released(R)

LEMMA ListReads ==
    ASSUME Types, NEW p \in Pollers, ListAfterAndReleaseDedup(p)
    PROVE  \/ \E R \in SUBSET rows : \E m \in R : Reads(p, R, m)
           \/ PollEnds(p)
<1> DEFINE after  == {r \in rows : r.id > base[p]}
           low(r) == {s \in after : s.id < r.id}
           R      == {r \in after : Cardinality(low(r)) < Limit}
<1>1. CASE PollEnds(p)
  BY <1>1
<1>2. ASSUME NEW m \in R, \A r \in R : r.id <= m.id,
             batch' = [batch EXCEPT ![p] = R], last' = [last EXCEPT ![p] = m.id],
             UNCHANGED <<base, seen>>, pc' = [pc EXCEPT ![p] = "event"], keyed' = Released(R)
      PROVE  Reads(p, R, m)
  <2>1. \A r \in after : r.id \in Nat /\ base[p] \in Nat
    BY DEF Types, StoreTypes, PollTypes, AnyRows
  <2>2. \A r \in after : IsFiniteSet(low(r)) /\ Cardinality(low(r)) \in Nat
    <3>1. \A r \in after : low(r) \in SUBSET rows
      OBVIOUS
    <3> QED
      BY <3>1, FS_Subset, FS_CardinalityType DEF Types, StoreTypes
  <2>3. ASSUME NEW r \in after, r.id <= m.id PROVE r \in R
    <3>1. low(r) \in SUBSET low(m)
      BY <2>1, <2>3
    <3>2. Cardinality(low(r)) <= Cardinality(low(m))
      BY <2>2, <3>1, FS_Subset
    <3> QED
      BY <2>2, <3>2, SchedulerAssumption
  <2>4. \A r \in rows : base[p] < r.id /\ r.id <= m.id => r \in R
    <3>1. \A r \in rows : base[p] < r.id => r \in after
      BY DEF Types, StoreTypes, PollTypes, AnyRows
    <3> QED
      BY <2>3, <3>1
  <2>5. \A r \in R : base[p] < r.id
    BY <2>1
  <2> QED
    BY <1>2, <2>4, <2>5 DEF Reads
<1> QED
  BY <1>1, <1>2 DEF ListAfterAndReleaseDedup, Go

\* The polls.
LEMMA PollTypesStep ==
    ASSUME Types, [Next]_vars
    PROVE  PollTypes'
<1> USE DEF Types, PollTypes, StoreTypes, poll, build, vars
<1>1. ASSUME NEW w \in Writers, Change(w) PROVE PollTypes' BY <1>1 DEF Change
<1>0a. ASSUME NEW w \in Writers, ChangeUnannounced(w) PROVE PollTypes'
  BY <1>0a DEF ChangeUnannounced
<1>2. ASSUME NEW w \in Writers, ChangeInTx(w) PROVE PollTypes' BY <1>2 DEF ChangeInTx
<1>3. ASSUME NEW w \in Writers, DeleteSchedulerAccountSnapshot(w) PROVE PollTypes'
  BY <1>3 DEF DeleteSchedulerAccountSnapshot
<1>4. ASSUME NEW w \in Writers, AllocateId(w) PROVE PollTypes' BY <1>4 DEF AllocateId
<1>5. ASSUME NEW w \in Writers, Enqueue(w) PROVE PollTypes' BY <1>5 DEF Enqueue
<1>6. ASSUME NEW w \in Writers, SyncRead(w) PROVE PollTypes' BY <1>6 DEF SyncRead
<1>7. ASSUME NEW w \in Writers, SyncSet(w) PROVE PollTypes' BY <1>7 DEF SyncSet
<1>8. CASE TouchLastUsed BY <1>8 DEF TouchLastUsed
<1>9. ASSUME NEW x \in Procs, TryLockBucket(x) PROVE PollTypes' BY <1>9 DEF TryLockBucket
<1>10. ASSUME NEW x \in Procs, LoadAccountsFromDB(x) PROVE PollTypes'
  BY <1>10 DEF LoadAccountsFromDB
<1>11. ASSUME NEW x \in Procs, IncrVersion(x) PROVE PollTypes' BY <1>11 DEF IncrVersion
<1>12. ASSUME NEW x \in Procs, WriteAccounts(x) PROVE PollTypes' BY <1>12 DEF WriteAccounts
<1>13. ASSUME NEW x \in Procs, Activate(x) PROVE PollTypes' BY <1>13 DEF Activate
<1>14. ASSUME NEW x \in Procs, UnlockBucket(x) PROVE PollTypes' BY <1>14 DEF UnlockBucket
<1>15. ASSUME NEW x \in Procs, FullRebuildEnds(x) PROVE PollTypes' BY <1>15 DEF FullRebuildEnds
<1>16. ASSUME NEW x \in Procs, SnapshotFails(x) PROVE PollTypes' BY <1>16 DEF SnapshotFails
<1>17. ASSUME NEW x \in Procs, Crash(x) PROVE PollTypes' BY <1>17 DEF Crash
<1>18. ASSUME NEW x \in Rebuilders, FullRebuild(x) PROVE PollTypes' BY <1>18 DEF FullRebuild
<1>19. ASSUME NEW x \in Readers, ListSchedulableAccounts(x) PROVE PollTypes'
  BY <1>19 DEF ListSchedulableAccounts
<1>20. ASSUME NEW p \in Pollers, GetOutboxWatermark(p) PROVE PollTypes'
  BY <1>20 DEF GetOutboxWatermark
<1>21. ASSUME NEW p \in Pollers, ListAfterAndReleaseDedup(p) PROVE PollTypes'
  <2>1. CASE PollEnds(p)
    BY <1>21, <2>1 DEF PollEnds, ListAfterAndReleaseDedup
  <2>2. ASSUME NEW R \in SUBSET rows, NEW m \in R, Reads(p, R, m) PROVE PollTypes'
    <3>1. m.id \in Nat /\ R \in SUBSET AnyRows
      BY DEF AnyRows
    <3> QED
      BY <1>21, <2>2, <3>1 DEF Reads, ListAfterAndReleaseDedup
  <2> QED
    BY <1>21, <2>1, <2>2, ListReads
<1>22. ASSUME NEW p \in Pollers, HandleLastUsedEvent(p) PROVE PollTypes'
  BY <1>22 DEF HandleLastUsedEvent, Handled
<1>23. ASSUME NEW p \in Pollers, UpdateLastUsed(p) PROVE PollTypes'
  BY <1>23 DEF UpdateLastUsed, Handled
<1>24. ASSUME NEW p \in Pollers, HandleAccountEvent(p) PROVE PollTypes'
  BY <1>24 DEF HandleAccountEvent
<1>25. ASSUME NEW p \in Pollers, SetAccount(p) PROVE PollTypes' BY <1>25 DEF SetAccount, Handled
<1>26. ASSUME NEW p \in Pollers, EventRebuilt(p) PROVE PollTypes'
  <2>1. UNCHANGED <<base, last, seen>> \/ PollEnds(p)
    BY <1>26 DEF EventRebuilt
  <2>2. batch' \in [Pollers -> SUBSET AnyRows]
    BY <1>26 DEF EventRebuilt, PollEnds, Handled
  <2>3. base' \in [Pollers -> Nat] /\ last' \in [Pollers -> Nat]
    BY <2>1 DEF PollEnds
  <2>4. seen' \in [Pollers -> BOOLEAN]
    BY <2>1 DEF PollEnds
  <2> QED
    BY <1>26, <2>2, <2>3, <2>4 DEF EventRebuilt
<1>27. ASSUME NEW p \in Pollers, EventFails(p) PROVE PollTypes' BY <1>27 DEF EventFails, PollEnds
<1>28. ASSUME NEW p \in Pollers, SetOutboxWatermark(p) PROVE PollTypes'
  BY <1>28 DEF SetOutboxWatermark
<1>29. ASSUME NEW p \in Pollers, CleanupConsumedOutbox(p) PROVE PollTypes'
  BY <1>29 DEF CleanupConsumedOutbox
<1>30. ASSUME NEW p \in Pollers, CheckOutboxLag(p) PROVE PollTypes' BY <1>30 DEF CheckOutboxLag
<1>31. ASSUME NEW b \in Buckets, LockExpires(b) PROVE PollTypes' BY <1>31 DEF LockExpires
<1>32. CASE UNCHANGED vars BY <1>32
<1> QED
  BY <1>0a, <1>1, <1>2, <1>3, <1>4, <1>5, <1>6, <1>7, <1>8, <1>9, <1>10, <1>11, <1>12, <1>13,
     <1>14, <1>15, <1>16, <1>17, <1>18, <1>19, <1>20, <1>21, <1>22, <1>23, <1>24, <1>25, <1>26,
     <1>27, <1>28, <1>29, <1>30, <1>31, <1>32 DEF Next, WriterStep, BuildStep, PollStep, Procs

\* All four.
LEMMA TypesStep ==
    ASSUME Types, [Next]_vars
    PROVE  Types'
BY StoreStep, WriterTypesStep, ProcTypesStep, PollTypesStep DEF Types

-----------------------------------------------------------------------------
(* No copy is ahead.                                                       *)

\* The account's entry.
LEMMA BehindStore ==
    ASSUME Types, Behind, [Next]_vars
    PROVE  db' >= 1 /\ acc' <= db'
<1> DEFINE G == db' >= 1 /\ acc' <= db'
<1> USE DEF Types, StoreTypes, Behind, mysql, redis, vars
<1>1. ASSUME NEW w \in Writers, Change(w) PROVE G BY <1>1 DEF Change
<1>0a. ASSUME NEW w \in Writers, ChangeUnannounced(w) PROVE G
  BY <1>0a DEF ChangeUnannounced
<1>2. ASSUME NEW w \in Writers, ChangeInTx(w) PROVE G BY <1>2 DEF ChangeInTx
<1>3. ASSUME NEW w \in Writers, DeleteSchedulerAccountSnapshot(w) PROVE G
  BY <1>3 DEF DeleteSchedulerAccountSnapshot
<1>4. ASSUME NEW w \in Writers, AllocateId(w) PROVE G BY <1>4 DEF AllocateId
<1>5. ASSUME NEW w \in Writers, Enqueue(w) PROVE G BY <1>5 DEF Enqueue
<1>6. ASSUME NEW w \in Writers, SyncRead(w) PROVE G BY <1>6 DEF SyncRead
<1>7. ASSUME NEW w \in Writers, SyncSet(w) PROVE G BY <1>7 DEF SyncSet, PutAccount, WriterTypes
<1>8. CASE TouchLastUsed BY <1>8 DEF TouchLastUsed
<1>9. ASSUME NEW x \in Procs, TryLockBucket(x) PROVE G BY <1>9 DEF TryLockBucket
<1>10. ASSUME NEW x \in Procs, LoadAccountsFromDB(x) PROVE G BY <1>10 DEF LoadAccountsFromDB
<1>11. ASSUME NEW x \in Procs, IncrVersion(x) PROVE G BY <1>11 DEF IncrVersion
<1>12. ASSUME NEW x \in Procs, WriteAccounts(x) PROVE G
  BY <1>12 DEF WriteAccounts, PutAccount, ProcTypes
<1>13. ASSUME NEW x \in Procs, Activate(x) PROVE G BY <1>13 DEF Activate
<1>14. ASSUME NEW x \in Procs, UnlockBucket(x) PROVE G BY <1>14 DEF UnlockBucket
<1>15. ASSUME NEW x \in Procs, FullRebuildEnds(x) PROVE G BY <1>15 DEF FullRebuildEnds
<1>16. ASSUME NEW x \in Procs, SnapshotFails(x) PROVE G BY <1>16 DEF SnapshotFails
<1>17. ASSUME NEW x \in Procs, Crash(x) PROVE G BY <1>17 DEF Crash
<1>18. ASSUME NEW x \in Rebuilders, FullRebuild(x) PROVE G BY <1>18 DEF FullRebuild
<1>19. ASSUME NEW x \in Readers, ListSchedulableAccounts(x) PROVE G
  BY <1>19 DEF ListSchedulableAccounts
<1>20. ASSUME NEW p \in Pollers, GetOutboxWatermark(p) PROVE G BY <1>20 DEF GetOutboxWatermark
<1>21. ASSUME NEW p \in Pollers, ListAfterAndReleaseDedup(p) PROVE G
  BY <1>21 DEF ListAfterAndReleaseDedup
<1>22. ASSUME NEW p \in Pollers, HandleLastUsedEvent(p) PROVE G BY <1>22 DEF HandleLastUsedEvent
<1>23. ASSUME NEW p \in Pollers, UpdateLastUsed(p) PROVE G
  BY <1>23 DEF UpdateLastUsed, PutAccount, ProcTypes, Procs
<1>24. ASSUME NEW p \in Pollers, HandleAccountEvent(p) PROVE G BY <1>24 DEF HandleAccountEvent
<1>25. ASSUME NEW p \in Pollers, SetAccount(p) PROVE G
  BY <1>25 DEF SetAccount, PutAccount, ProcTypes, Procs
<1>26. ASSUME NEW p \in Pollers, EventRebuilt(p) PROVE G BY <1>26 DEF EventRebuilt
<1>27. ASSUME NEW p \in Pollers, EventFails(p) PROVE G BY <1>27 DEF EventFails
<1>28. ASSUME NEW p \in Pollers, SetOutboxWatermark(p) PROVE G BY <1>28 DEF SetOutboxWatermark
<1>29. ASSUME NEW p \in Pollers, CleanupConsumedOutbox(p) PROVE G
  BY <1>29 DEF CleanupConsumedOutbox
<1>30. ASSUME NEW p \in Pollers, CheckOutboxLag(p) PROVE G BY <1>30 DEF CheckOutboxLag
<1>31. ASSUME NEW b \in Buckets, LockExpires(b) PROVE G BY <1>31 DEF LockExpires
<1>32. CASE UNCHANGED vars BY <1>32
<1> QED
  BY <1>0a, <1>1, <1>2, <1>3, <1>4, <1>5, <1>6, <1>7, <1>8, <1>9, <1>10, <1>11, <1>12, <1>13,
     <1>14, <1>15, <1>16, <1>17, <1>18, <1>19, <1>20, <1>21, <1>22, <1>23, <1>24, <1>25, <1>26,
     <1>27, <1>28, <1>29, <1>30, <1>31, <1>32 DEF Next, WriterStep, BuildStep, PollStep, Procs

\* The lists.
LEMMA BehindLists ==
    ASSUME Types, Behind, [Next]_vars
    PROVE  \A b \in Buckets : list'[b] <= db' /\ (ready'[b] => list'[b] >= 1)
<1> DEFINE G == \A b \in Buckets : list'[b] <= db' /\ (ready'[b] => list'[b] >= 1)
<1> USE DEF Types, StoreTypes, Behind, mysql, redis, vars
<1>1. ASSUME NEW w \in Writers, Change(w) PROVE G BY <1>1 DEF Change
<1>0a. ASSUME NEW w \in Writers, ChangeUnannounced(w) PROVE G
  BY <1>0a DEF ChangeUnannounced
<1>2. ASSUME NEW w \in Writers, ChangeInTx(w) PROVE G BY <1>2 DEF ChangeInTx
<1>3. ASSUME NEW w \in Writers, DeleteSchedulerAccountSnapshot(w) PROVE G
  BY <1>3 DEF DeleteSchedulerAccountSnapshot
<1>4. ASSUME NEW w \in Writers, AllocateId(w) PROVE G BY <1>4 DEF AllocateId
<1>5. ASSUME NEW w \in Writers, Enqueue(w) PROVE G BY <1>5 DEF Enqueue
<1>6. ASSUME NEW w \in Writers, SyncRead(w) PROVE G BY <1>6 DEF SyncRead
<1>7. ASSUME NEW w \in Writers, SyncSet(w) PROVE G BY <1>7 DEF SyncSet
<1>8. CASE TouchLastUsed BY <1>8 DEF TouchLastUsed
<1>9. ASSUME NEW x \in Procs, TryLockBucket(x) PROVE G BY <1>9 DEF TryLockBucket
<1>10. ASSUME NEW x \in Procs, LoadAccountsFromDB(x) PROVE G BY <1>10 DEF LoadAccountsFromDB
<1>11. ASSUME NEW x \in Procs, IncrVersion(x) PROVE G BY <1>11 DEF IncrVersion
<1>12. ASSUME NEW x \in Procs, WriteAccounts(x) PROVE G BY <1>12 DEF WriteAccounts
<1>13. ASSUME NEW x \in Procs, Activate(x) PROVE G BY <1>13 DEF Activate, ProcTypes
<1>14. ASSUME NEW x \in Procs, UnlockBucket(x) PROVE G BY <1>14 DEF UnlockBucket
<1>15. ASSUME NEW x \in Procs, FullRebuildEnds(x) PROVE G BY <1>15 DEF FullRebuildEnds
<1>16. ASSUME NEW x \in Procs, SnapshotFails(x) PROVE G BY <1>16 DEF SnapshotFails
<1>17. ASSUME NEW x \in Procs, Crash(x) PROVE G BY <1>17 DEF Crash
<1>18. ASSUME NEW x \in Rebuilders, FullRebuild(x) PROVE G BY <1>18 DEF FullRebuild
<1>19. ASSUME NEW x \in Readers, ListSchedulableAccounts(x) PROVE G
  BY <1>19 DEF ListSchedulableAccounts
<1>20. ASSUME NEW p \in Pollers, GetOutboxWatermark(p) PROVE G BY <1>20 DEF GetOutboxWatermark
<1>21. ASSUME NEW p \in Pollers, ListAfterAndReleaseDedup(p) PROVE G
  BY <1>21 DEF ListAfterAndReleaseDedup
<1>22. ASSUME NEW p \in Pollers, HandleLastUsedEvent(p) PROVE G BY <1>22 DEF HandleLastUsedEvent
<1>23. ASSUME NEW p \in Pollers, UpdateLastUsed(p) PROVE G BY <1>23 DEF UpdateLastUsed
<1>24. ASSUME NEW p \in Pollers, HandleAccountEvent(p) PROVE G BY <1>24 DEF HandleAccountEvent
<1>25. ASSUME NEW p \in Pollers, SetAccount(p) PROVE G BY <1>25 DEF SetAccount
<1>26. ASSUME NEW p \in Pollers, EventRebuilt(p) PROVE G BY <1>26 DEF EventRebuilt
<1>27. ASSUME NEW p \in Pollers, EventFails(p) PROVE G BY <1>27 DEF EventFails
<1>28. ASSUME NEW p \in Pollers, SetOutboxWatermark(p) PROVE G BY <1>28 DEF SetOutboxWatermark
<1>29. ASSUME NEW p \in Pollers, CleanupConsumedOutbox(p) PROVE G
  BY <1>29 DEF CleanupConsumedOutbox
<1>30. ASSUME NEW p \in Pollers, CheckOutboxLag(p) PROVE G BY <1>30 DEF CheckOutboxLag
<1>31. ASSUME NEW b \in Buckets, LockExpires(b) PROVE G BY <1>31 DEF LockExpires
<1>32. CASE UNCHANGED vars BY <1>32
<1> QED
  BY <1>0a, <1>1, <1>2, <1>3, <1>4, <1>5, <1>6, <1>7, <1>8, <1>9, <1>10, <1>11, <1>12, <1>13,
     <1>14, <1>15, <1>16, <1>17, <1>18, <1>19, <1>20, <1>21, <1>22, <1>23, <1>24, <1>25, <1>26,
     <1>27, <1>28, <1>29, <1>30, <1>31, <1>32 DEF Next, WriterStep, BuildStep, PollStep, Procs

\* What a process has loaded.
LEMMA BehindProcs ==
    ASSUME Types, Behind, [Next]_vars
    PROVE  \A x \in Procs : /\ got'[x] <= db'
                            /\ pc'[x] \in {"incr", "write", "activate"} => got'[x] >= 1
<1> DEFINE G == \A x \in Procs : /\ got'[x] <= db'
                                 /\ pc'[x] \in {"incr", "write", "activate"} => got'[x] >= 1
<1> USE DEF Types, StoreTypes, ProcTypes, Behind, Go, Leave, mysql, build, vars
<1>1. ASSUME NEW w \in Writers, Change(w) PROVE G BY <1>1 DEF Change
<1>0a. ASSUME NEW w \in Writers, ChangeUnannounced(w) PROVE G
  BY <1>0a DEF ChangeUnannounced
<1>2. ASSUME NEW w \in Writers, ChangeInTx(w) PROVE G BY <1>2 DEF ChangeInTx
<1>3. ASSUME NEW w \in Writers, DeleteSchedulerAccountSnapshot(w) PROVE G
  BY <1>3 DEF DeleteSchedulerAccountSnapshot
<1>4. ASSUME NEW w \in Writers, AllocateId(w) PROVE G BY <1>4 DEF AllocateId
<1>5. ASSUME NEW w \in Writers, Enqueue(w) PROVE G BY <1>5 DEF Enqueue
<1>6. ASSUME NEW w \in Writers, SyncRead(w) PROVE G BY <1>6 DEF SyncRead
<1>7. ASSUME NEW w \in Writers, SyncSet(w) PROVE G BY <1>7 DEF SyncSet
<1>8. CASE TouchLastUsed BY <1>8 DEF TouchLastUsed
<1>9. ASSUME NEW x \in Procs, TryLockBucket(x) PROVE G BY <1>9 DEF TryLockBucket
<1>10. ASSUME NEW x \in Procs, LoadAccountsFromDB(x) PROVE G BY <1>10 DEF LoadAccountsFromDB
<1>11. ASSUME NEW x \in Procs, IncrVersion(x) PROVE G BY <1>11 DEF IncrVersion
<1>12. ASSUME NEW x \in Procs, WriteAccounts(x) PROVE G BY <1>12 DEF WriteAccounts
<1>13. ASSUME NEW x \in Procs, Activate(x) PROVE G BY <1>13 DEF Activate
<1>14. ASSUME NEW x \in Procs, UnlockBucket(x) PROVE G BY <1>14 DEF UnlockBucket
<1>15. ASSUME NEW x \in Procs, FullRebuildEnds(x) PROVE G BY <1>15 DEF FullRebuildEnds
<1>16. ASSUME NEW x \in Procs, SnapshotFails(x) PROVE G BY <1>16 DEF SnapshotFails
<1>17. ASSUME NEW x \in Procs, Crash(x) PROVE G BY <1>17 DEF Crash
<1>18. ASSUME NEW x \in Rebuilders, FullRebuild(x) PROVE G BY <1>18 DEF FullRebuild
<1>19. ASSUME NEW x \in Readers, ListSchedulableAccounts(x) PROVE G
  BY <1>19 DEF ListSchedulableAccounts
<1>20. ASSUME NEW p \in Pollers, GetOutboxWatermark(p) PROVE G BY <1>20 DEF GetOutboxWatermark
<1>21. ASSUME NEW p \in Pollers, ListAfterAndReleaseDedup(p) PROVE G
  BY <1>21 DEF ListAfterAndReleaseDedup, Procs, PollEnds
<1>22. ASSUME NEW p \in Pollers, HandleLastUsedEvent(p) PROVE G
  BY <1>22 DEF HandleLastUsedEvent, Procs, Handled
<1>23. ASSUME NEW p \in Pollers, UpdateLastUsed(p) PROVE G
  BY <1>23 DEF UpdateLastUsed, Procs, Handled
<1>24. ASSUME NEW p \in Pollers, HandleAccountEvent(p) PROVE G
  BY <1>24 DEF HandleAccountEvent, Procs
<1>25. ASSUME NEW p \in Pollers, SetAccount(p) PROVE G BY <1>25 DEF SetAccount, Procs, Handled
<1>26. ASSUME NEW p \in Pollers, EventRebuilt(p) PROVE G
  BY <1>26 DEF EventRebuilt, Procs, Handled, PollEnds
<1>27. ASSUME NEW p \in Pollers, EventFails(p) PROVE G BY <1>27 DEF EventFails, Procs, PollEnds
<1>28. ASSUME NEW p \in Pollers, SetOutboxWatermark(p) PROVE G BY <1>28 DEF SetOutboxWatermark
<1>29. ASSUME NEW p \in Pollers, CleanupConsumedOutbox(p) PROVE G
  BY <1>29 DEF CleanupConsumedOutbox
<1>30. ASSUME NEW p \in Pollers, CheckOutboxLag(p) PROVE G BY <1>30 DEF CheckOutboxLag
<1>31. ASSUME NEW b \in Buckets, LockExpires(b) PROVE G BY <1>31 DEF LockExpires
<1>32. CASE UNCHANGED vars BY <1>32
<1> QED
  BY <1>0a, <1>1, <1>2, <1>3, <1>4, <1>5, <1>6, <1>7, <1>8, <1>9, <1>10, <1>11, <1>12, <1>13,
     <1>14, <1>15, <1>16, <1>17, <1>18, <1>19, <1>20, <1>21, <1>22, <1>23, <1>24, <1>25, <1>26,
     <1>27, <1>28, <1>29, <1>30, <1>31, <1>32 DEF Next, WriterStep, BuildStep, PollStep, Procs

\* What a writer has read.
LEMMA BehindWriters ==
    ASSUME Types, Behind, [Next]_vars
    PROVE  \A u \in Writers : wpc'[u] = "set" => wval'[u] <= db'
<1> DEFINE G == \A u \in Writers : wpc'[u] = "set" => wval'[u] <= db'
<1> USE DEF Types, StoreTypes, WriterTypes, Behind, WGo, mysql, writer, vars
<1>1. ASSUME NEW w \in Writers, Change(w) PROVE G BY <1>1 DEF Change
<1>0a. ASSUME NEW w \in Writers, ChangeUnannounced(w) PROVE G
  BY <1>0a DEF ChangeUnannounced
<1>2. ASSUME NEW w \in Writers, ChangeInTx(w) PROVE G BY <1>2 DEF ChangeInTx
<1>3. ASSUME NEW w \in Writers, DeleteSchedulerAccountSnapshot(w) PROVE G
  BY <1>3 DEF DeleteSchedulerAccountSnapshot
<1>4. ASSUME NEW w \in Writers, AllocateId(w) PROVE G BY <1>4 DEF AllocateId
<1>5. ASSUME NEW w \in Writers, Enqueue(w) PROVE G BY <1>5 DEF Enqueue
<1>6. ASSUME NEW w \in Writers, SyncRead(w) PROVE G BY <1>6 DEF SyncRead
<1>7. ASSUME NEW w \in Writers, SyncSet(w) PROVE G BY <1>7 DEF SyncSet
<1>8. CASE TouchLastUsed BY <1>8 DEF TouchLastUsed
<1>9. ASSUME NEW x \in Procs, TryLockBucket(x) PROVE G BY <1>9 DEF TryLockBucket
<1>10. ASSUME NEW x \in Procs, LoadAccountsFromDB(x) PROVE G BY <1>10 DEF LoadAccountsFromDB
<1>11. ASSUME NEW x \in Procs, IncrVersion(x) PROVE G BY <1>11 DEF IncrVersion
<1>12. ASSUME NEW x \in Procs, WriteAccounts(x) PROVE G BY <1>12 DEF WriteAccounts
<1>13. ASSUME NEW x \in Procs, Activate(x) PROVE G BY <1>13 DEF Activate
<1>14. ASSUME NEW x \in Procs, UnlockBucket(x) PROVE G BY <1>14 DEF UnlockBucket
<1>15. ASSUME NEW x \in Procs, FullRebuildEnds(x) PROVE G BY <1>15 DEF FullRebuildEnds
<1>16. ASSUME NEW x \in Procs, SnapshotFails(x) PROVE G BY <1>16 DEF SnapshotFails
<1>17. ASSUME NEW x \in Procs, Crash(x) PROVE G BY <1>17 DEF Crash
<1>18. ASSUME NEW x \in Rebuilders, FullRebuild(x) PROVE G BY <1>18 DEF FullRebuild
<1>19. ASSUME NEW x \in Readers, ListSchedulableAccounts(x) PROVE G
  BY <1>19 DEF ListSchedulableAccounts
<1>20. ASSUME NEW p \in Pollers, GetOutboxWatermark(p) PROVE G BY <1>20 DEF GetOutboxWatermark
<1>21. ASSUME NEW p \in Pollers, ListAfterAndReleaseDedup(p) PROVE G
  BY <1>21 DEF ListAfterAndReleaseDedup
<1>22. ASSUME NEW p \in Pollers, HandleLastUsedEvent(p) PROVE G BY <1>22 DEF HandleLastUsedEvent
<1>23. ASSUME NEW p \in Pollers, UpdateLastUsed(p) PROVE G BY <1>23 DEF UpdateLastUsed
<1>24. ASSUME NEW p \in Pollers, HandleAccountEvent(p) PROVE G BY <1>24 DEF HandleAccountEvent
<1>25. ASSUME NEW p \in Pollers, SetAccount(p) PROVE G BY <1>25 DEF SetAccount
<1>26. ASSUME NEW p \in Pollers, EventRebuilt(p) PROVE G BY <1>26 DEF EventRebuilt
<1>27. ASSUME NEW p \in Pollers, EventFails(p) PROVE G BY <1>27 DEF EventFails
<1>28. ASSUME NEW p \in Pollers, SetOutboxWatermark(p) PROVE G BY <1>28 DEF SetOutboxWatermark
<1>29. ASSUME NEW p \in Pollers, CleanupConsumedOutbox(p) PROVE G
  BY <1>29 DEF CleanupConsumedOutbox
<1>30. ASSUME NEW p \in Pollers, CheckOutboxLag(p) PROVE G BY <1>30 DEF CheckOutboxLag
<1>31. ASSUME NEW b \in Buckets, LockExpires(b) PROVE G BY <1>31 DEF LockExpires
<1>32. CASE UNCHANGED vars BY <1>32
<1> QED
  BY <1>0a, <1>1, <1>2, <1>3, <1>4, <1>5, <1>6, <1>7, <1>8, <1>9, <1>10, <1>11, <1>12, <1>13,
     <1>14, <1>15, <1>16, <1>17, <1>18, <1>19, <1>20, <1>21, <1>22, <1>23, <1>24, <1>25, <1>26,
     <1>27, <1>28, <1>29, <1>30, <1>31, <1>32 DEF Next, WriterStep, BuildStep, PollStep, Procs

\* All of them.
LEMMA BehindStep ==
    ASSUME Types, Behind, [Next]_vars
    PROVE  Behind'
BY BehindStore, BehindLists, BehindProcs, BehindWriters DEF Behind

-----------------------------------------------------------------------------
(* Ids.                                                                    *)

\* What EnqueueSchedulerOutbox does to the table.
LEMMA EnqueueRows ==
    ASSUME NEW i, EnqueueSchedulerOutbox(i)
    PROVE  \/ rows' = rows \cup {[id |-> i, kind |-> "changed"]} /\ keyed' = {i}
           \/ rows' = rows /\ keyed' = keyed
BY DEF EnqueueSchedulerOutbox

\* A new row with an id of its own.
LEMMA AddedRow ==
    ASSUME rows \in SUBSET AnyRows, NEW i \in Nat, NEW k, Unique(rows), \A r \in rows : r.id # i
    PROVE  /\ Unique(rows \cup {[id |-> i, kind |-> k]})
           /\ \A r \in rows \cup {[id |-> i, kind |-> k]} : r.id = i \/ r \in rows
BY DEF Unique, AnyRows

\* Ids in the table, and those taken for it, are different.
LEMMA RowIdsStep ==
    ASSUME Types, RowIds, [Next]_vars
    PROVE  RowIds'
<1> USE DEF Types, StoreTypes, WriterTypes, RowIds, WGo, mysql, writer, vars
<1>1. ASSUME NEW w \in Writers, Change(w) PROVE RowIds' BY <1>1 DEF Change
<1>0a. ASSUME NEW w \in Writers, ChangeUnannounced(w) PROVE RowIds'
  BY <1>0a DEF ChangeUnannounced
<1>2. ASSUME NEW w \in Writers, ChangeInTx(w) PROVE RowIds'
  <2>1. nextId' = nextId + 1 /\ wval' = wval /\ wpc' = [wpc EXCEPT ![w] = "sync"]
    BY <1>2 DEF ChangeInTx
  <2>2. CASE rows' = rows
    BY <2>1, <2>2 DEF AnyRows
  <2>3. CASE rows' = rows \cup {[id |-> nextId, kind |-> "changed"]}
    <3>1. \A r \in rows : r.id # nextId /\ r.id \in Nat
      BY DEF AnyRows
    <3>2. Unique(rows') /\ \A r \in rows' : r.id = nextId \/ r \in rows
      BY <2>3, <3>1, AddedRow
    <3> QED
      BY <2>1, <3>1, <3>2
  <2> QED
    BY <1>2, <2>2, <2>3, EnqueueRows DEF ChangeInTx
<1>3. ASSUME NEW w \in Writers, DeleteSchedulerAccountSnapshot(w) PROVE RowIds'
  BY <1>3 DEF DeleteSchedulerAccountSnapshot
<1>4. ASSUME NEW w \in Writers, AllocateId(w) PROVE RowIds'
  <2>1. nextId' = nextId + 1 /\ rows' = rows
    BY <1>4 DEF AllocateId
  <2>2. wval' = [wval EXCEPT ![w] = nextId] /\ wpc' = [wpc EXCEPT ![w] = "insert"]
    BY <1>4 DEF AllocateId
  <2>3. \A r \in rows : r.id \in Nat
    BY DEF AnyRows
  <2> QED
    BY <2>1, <2>2, <2>3
<1>5. ASSUME NEW w \in Writers, Enqueue(w) PROVE RowIds'
  <2>1. nextId' = nextId /\ wval' = [wval EXCEPT ![w] = 0] /\ wpc[w] = "insert"
    BY <1>5 DEF Enqueue
  <2>2. \A u \in Writers : wpc'[u] = "insert" => u # w /\ wpc[u] = "insert" /\ wval'[u] = wval[u]
    BY <1>5 DEF Enqueue
  <2>3. CASE rows' = rows
    BY <2>1, <2>2, <2>3
  <2>4. CASE rows' = rows \cup {[id |-> wval[w], kind |-> "changed"]}
    <3>1. Unique(rows') /\ \A r \in rows' : r.id = wval[w] \/ r \in rows
      BY <2>1, <2>4, AddedRow
    <3> QED
      BY <2>1, <2>2, <3>1
  <2> QED
    BY <1>5, <2>3, <2>4, EnqueueRows DEF Enqueue
<1>6. ASSUME NEW w \in Writers, SyncRead(w) PROVE RowIds' BY <1>6 DEF SyncRead
<1>7. ASSUME NEW w \in Writers, SyncSet(w) PROVE RowIds' BY <1>7 DEF SyncSet
<1>8. CASE TouchLastUsed
  <2>1. nextId' = nextId + 1 /\ UNCHANGED writer
    BY <1>8 DEF TouchLastUsed
  <2>2. rows' = rows \cup {[id |-> nextId, kind |-> "used"]}
    BY <1>8 DEF TouchLastUsed
  <2>3. \A r \in rows : r.id # nextId /\ r.id \in Nat
    BY DEF AnyRows
  <2>4. Unique(rows') /\ \A r \in rows' : r.id = nextId \/ r \in rows
    BY <2>2, <2>3, AddedRow
  <2> QED
    BY <2>1, <2>3, <2>4
<1>9. ASSUME NEW x \in Procs, TryLockBucket(x) PROVE RowIds' BY <1>9 DEF TryLockBucket
<1>10. ASSUME NEW x \in Procs, LoadAccountsFromDB(x) PROVE RowIds'
  BY <1>10 DEF LoadAccountsFromDB
<1>11. ASSUME NEW x \in Procs, IncrVersion(x) PROVE RowIds' BY <1>11 DEF IncrVersion
<1>12. ASSUME NEW x \in Procs, WriteAccounts(x) PROVE RowIds' BY <1>12 DEF WriteAccounts
<1>13. ASSUME NEW x \in Procs, Activate(x) PROVE RowIds' BY <1>13 DEF Activate
<1>14. ASSUME NEW x \in Procs, UnlockBucket(x) PROVE RowIds' BY <1>14 DEF UnlockBucket
<1>15. ASSUME NEW x \in Procs, FullRebuildEnds(x) PROVE RowIds' BY <1>15 DEF FullRebuildEnds
<1>16. ASSUME NEW x \in Procs, SnapshotFails(x) PROVE RowIds' BY <1>16 DEF SnapshotFails
<1>17. ASSUME NEW x \in Procs, Crash(x) PROVE RowIds' BY <1>17 DEF Crash
<1>18. ASSUME NEW x \in Rebuilders, FullRebuild(x) PROVE RowIds' BY <1>18 DEF FullRebuild
<1>19. ASSUME NEW x \in Readers, ListSchedulableAccounts(x) PROVE RowIds'
  BY <1>19 DEF ListSchedulableAccounts
<1>20. ASSUME NEW p \in Pollers, GetOutboxWatermark(p) PROVE RowIds'
  BY <1>20 DEF GetOutboxWatermark
<1>21. ASSUME NEW p \in Pollers, ListAfterAndReleaseDedup(p) PROVE RowIds'
  BY <1>21 DEF ListAfterAndReleaseDedup
<1>22. ASSUME NEW p \in Pollers, HandleLastUsedEvent(p) PROVE RowIds'
  BY <1>22 DEF HandleLastUsedEvent
<1>23. ASSUME NEW p \in Pollers, UpdateLastUsed(p) PROVE RowIds' BY <1>23 DEF UpdateLastUsed
<1>24. ASSUME NEW p \in Pollers, HandleAccountEvent(p) PROVE RowIds'
  BY <1>24 DEF HandleAccountEvent
<1>25. ASSUME NEW p \in Pollers, SetAccount(p) PROVE RowIds' BY <1>25 DEF SetAccount
<1>26. ASSUME NEW p \in Pollers, EventRebuilt(p) PROVE RowIds' BY <1>26 DEF EventRebuilt
<1>27. ASSUME NEW p \in Pollers, EventFails(p) PROVE RowIds' BY <1>27 DEF EventFails
<1>28. ASSUME NEW p \in Pollers, SetOutboxWatermark(p) PROVE RowIds'
  BY <1>28 DEF SetOutboxWatermark
<1>29. ASSUME NEW p \in Pollers, CleanupConsumedOutbox(p) PROVE RowIds'
  <2>1. rows' \in SUBSET rows /\ nextId' = nextId /\ UNCHANGED writer
    BY <1>29 DEF CleanupConsumedOutbox
  <2> QED
    BY <2>1 DEF Unique
<1>30. ASSUME NEW p \in Pollers, CheckOutboxLag(p) PROVE RowIds' BY <1>30 DEF CheckOutboxLag
<1>31. ASSUME NEW b \in Buckets, LockExpires(b) PROVE RowIds' BY <1>31 DEF LockExpires
<1>32. CASE UNCHANGED vars BY <1>32
<1> QED
  BY <1>0a, <1>1, <1>2, <1>3, <1>4, <1>5, <1>6, <1>7, <1>8, <1>9, <1>10, <1>11, <1>12, <1>13,
     <1>14, <1>15, <1>16, <1>17, <1>18, <1>19, <1>20, <1>21, <1>22, <1>23, <1>24, <1>25, <1>26,
     <1>27, <1>28, <1>29, <1>30, <1>31, <1>32 DEF Next, WriterStep, BuildStep, PollStep, Procs

\* The dedup_key is that of a row of a change.
LEMMA KeyedStep ==
    ASSUME Types, KeyedRows, [Next]_vars
    PROVE  KeyedRows'
<1> USE DEF Types, StoreTypes, KeyedRows, mysql, vars
<1>1. ASSUME NEW w \in Writers, Change(w) PROVE KeyedRows' BY <1>1 DEF Change
<1>0a. ASSUME NEW w \in Writers, ChangeUnannounced(w) PROVE KeyedRows'
  BY <1>0a DEF ChangeUnannounced
<1>2. ASSUME NEW w \in Writers, ChangeInTx(w) PROVE KeyedRows'
  BY <1>2, EnqueueRows DEF ChangeInTx
<1>3. ASSUME NEW w \in Writers, DeleteSchedulerAccountSnapshot(w) PROVE KeyedRows'
  BY <1>3 DEF DeleteSchedulerAccountSnapshot
<1>4. ASSUME NEW w \in Writers, AllocateId(w) PROVE KeyedRows' BY <1>4 DEF AllocateId
<1>5. ASSUME NEW w \in Writers, Enqueue(w) PROVE KeyedRows' BY <1>5, EnqueueRows DEF Enqueue
<1>6. ASSUME NEW w \in Writers, SyncRead(w) PROVE KeyedRows' BY <1>6 DEF SyncRead
<1>7. ASSUME NEW w \in Writers, SyncSet(w) PROVE KeyedRows' BY <1>7 DEF SyncSet
<1>8. CASE TouchLastUsed BY <1>8 DEF TouchLastUsed
<1>9. ASSUME NEW x \in Procs, TryLockBucket(x) PROVE KeyedRows' BY <1>9 DEF TryLockBucket
<1>10. ASSUME NEW x \in Procs, LoadAccountsFromDB(x) PROVE KeyedRows'
  BY <1>10 DEF LoadAccountsFromDB
<1>11. ASSUME NEW x \in Procs, IncrVersion(x) PROVE KeyedRows' BY <1>11 DEF IncrVersion
<1>12. ASSUME NEW x \in Procs, WriteAccounts(x) PROVE KeyedRows' BY <1>12 DEF WriteAccounts
<1>13. ASSUME NEW x \in Procs, Activate(x) PROVE KeyedRows' BY <1>13 DEF Activate
<1>14. ASSUME NEW x \in Procs, UnlockBucket(x) PROVE KeyedRows' BY <1>14 DEF UnlockBucket
<1>15. ASSUME NEW x \in Procs, FullRebuildEnds(x) PROVE KeyedRows' BY <1>15 DEF FullRebuildEnds
<1>16. ASSUME NEW x \in Procs, SnapshotFails(x) PROVE KeyedRows' BY <1>16 DEF SnapshotFails
<1>17. ASSUME NEW x \in Procs, Crash(x) PROVE KeyedRows' BY <1>17 DEF Crash
<1>18. ASSUME NEW x \in Rebuilders, FullRebuild(x) PROVE KeyedRows' BY <1>18 DEF FullRebuild
<1>19. ASSUME NEW x \in Readers, ListSchedulableAccounts(x) PROVE KeyedRows'
  BY <1>19 DEF ListSchedulableAccounts
<1>20. ASSUME NEW p \in Pollers, GetOutboxWatermark(p) PROVE KeyedRows'
  BY <1>20 DEF GetOutboxWatermark
<1>21. ASSUME NEW p \in Pollers, ListAfterAndReleaseDedup(p) PROVE KeyedRows'
  BY <1>21 DEF ListAfterAndReleaseDedup, Released
<1>22. ASSUME NEW p \in Pollers, HandleLastUsedEvent(p) PROVE KeyedRows'
  BY <1>22 DEF HandleLastUsedEvent
<1>23. ASSUME NEW p \in Pollers, UpdateLastUsed(p) PROVE KeyedRows' BY <1>23 DEF UpdateLastUsed
<1>24. ASSUME NEW p \in Pollers, HandleAccountEvent(p) PROVE KeyedRows'
  BY <1>24 DEF HandleAccountEvent
<1>25. ASSUME NEW p \in Pollers, SetAccount(p) PROVE KeyedRows' BY <1>25 DEF SetAccount
<1>26. ASSUME NEW p \in Pollers, EventRebuilt(p) PROVE KeyedRows' BY <1>26 DEF EventRebuilt
<1>27. ASSUME NEW p \in Pollers, EventFails(p) PROVE KeyedRows' BY <1>27 DEF EventFails
<1>28. ASSUME NEW p \in Pollers, SetOutboxWatermark(p) PROVE KeyedRows'
  BY <1>28 DEF SetOutboxWatermark
<1>29. ASSUME NEW p \in Pollers, CleanupConsumedOutbox(p) PROVE KeyedRows'
  <2>1. PICK D \in SUBSET rows : rows' = rows \ D /\ keyed' = keyed \ {r.id : r \in D}
    BY <1>29 DEF CleanupConsumedOutbox
  <2>2. ASSUME NEW k \in keyed' PROVE [id |-> k, kind |-> "changed"] \in rows'
    <3>1. [id |-> k, kind |-> "changed"] \in rows /\ [id |-> k, kind |-> "changed"].id = k
      BY <2>1
    <3>2. [id |-> k, kind |-> "changed"] \notin D
      BY <2>1, <3>1
    <3> QED
      BY <2>1, <3>1, <3>2
  <2> QED
    BY <2>2
<1>30. ASSUME NEW p \in Pollers, CheckOutboxLag(p) PROVE KeyedRows' BY <1>30 DEF CheckOutboxLag
<1>31. ASSUME NEW b \in Buckets, LockExpires(b) PROVE KeyedRows' BY <1>31 DEF LockExpires
<1>32. CASE UNCHANGED vars BY <1>32
<1> QED
  BY <1>0a, <1>1, <1>2, <1>3, <1>4, <1>5, <1>6, <1>7, <1>8, <1>9, <1>10, <1>11, <1>12, <1>13,
     <1>14, <1>15, <1>16, <1>17, <1>18, <1>19, <1>20, <1>21, <1>22, <1>23, <1>24, <1>25, <1>26,
     <1>27, <1>28, <1>29, <1>30, <1>31, <1>32 DEF Next, WriterStep, BuildStep, PollStep, Procs

\* The rows a poll has read are different.
LEMMA BatchStep ==
    ASSUME Types, RowIds, BatchIds, [Next]_vars
    PROVE  BatchIds'
<1> USE DEF Types, PollTypes, BatchIds, Unique, poll, vars
<1>1. ASSUME NEW w \in Writers, Change(w) PROVE BatchIds' BY <1>1 DEF Change
<1>0a. ASSUME NEW w \in Writers, ChangeUnannounced(w) PROVE BatchIds'
  BY <1>0a DEF ChangeUnannounced
<1>2. ASSUME NEW w \in Writers, ChangeInTx(w) PROVE BatchIds' BY <1>2 DEF ChangeInTx
<1>3. ASSUME NEW w \in Writers, DeleteSchedulerAccountSnapshot(w) PROVE BatchIds'
  BY <1>3 DEF DeleteSchedulerAccountSnapshot
<1>4. ASSUME NEW w \in Writers, AllocateId(w) PROVE BatchIds' BY <1>4 DEF AllocateId
<1>5. ASSUME NEW w \in Writers, Enqueue(w) PROVE BatchIds' BY <1>5 DEF Enqueue
<1>6. ASSUME NEW w \in Writers, SyncRead(w) PROVE BatchIds' BY <1>6 DEF SyncRead
<1>7. ASSUME NEW w \in Writers, SyncSet(w) PROVE BatchIds' BY <1>7 DEF SyncSet
<1>8. CASE TouchLastUsed BY <1>8 DEF TouchLastUsed
<1>9. ASSUME NEW x \in Procs, TryLockBucket(x) PROVE BatchIds' BY <1>9 DEF TryLockBucket
<1>10. ASSUME NEW x \in Procs, LoadAccountsFromDB(x) PROVE BatchIds'
  BY <1>10 DEF LoadAccountsFromDB
<1>11. ASSUME NEW x \in Procs, IncrVersion(x) PROVE BatchIds' BY <1>11 DEF IncrVersion
<1>12. ASSUME NEW x \in Procs, WriteAccounts(x) PROVE BatchIds' BY <1>12 DEF WriteAccounts
<1>13. ASSUME NEW x \in Procs, Activate(x) PROVE BatchIds' BY <1>13 DEF Activate
<1>14. ASSUME NEW x \in Procs, UnlockBucket(x) PROVE BatchIds' BY <1>14 DEF UnlockBucket
<1>15. ASSUME NEW x \in Procs, FullRebuildEnds(x) PROVE BatchIds' BY <1>15 DEF FullRebuildEnds
<1>16. ASSUME NEW x \in Procs, SnapshotFails(x) PROVE BatchIds' BY <1>16 DEF SnapshotFails
<1>17. ASSUME NEW x \in Procs, Crash(x) PROVE BatchIds' BY <1>17 DEF Crash
<1>18. ASSUME NEW x \in Rebuilders, FullRebuild(x) PROVE BatchIds' BY <1>18 DEF FullRebuild
<1>19. ASSUME NEW x \in Readers, ListSchedulableAccounts(x) PROVE BatchIds'
  BY <1>19 DEF ListSchedulableAccounts
<1>20. ASSUME NEW p \in Pollers, GetOutboxWatermark(p) PROVE BatchIds'
  BY <1>20 DEF GetOutboxWatermark
<1>21. ASSUME NEW p \in Pollers, ListAfterAndReleaseDedup(p) PROVE BatchIds'
  <2>1. CASE PollEnds(p)
    BY <2>1 DEF PollEnds
  <2>2. ASSUME NEW R \in SUBSET rows, NEW m \in R, Reads(p, R, m) PROVE BatchIds'
    BY <2>2 DEF Reads, RowIds
  <2> QED
    BY <1>21, <2>1, <2>2, ListReads
<1>22. ASSUME NEW p \in Pollers, HandleLastUsedEvent(p) PROVE BatchIds'
  BY <1>22 DEF HandleLastUsedEvent, Handled
<1>23. ASSUME NEW p \in Pollers, UpdateLastUsed(p) PROVE BatchIds'
  BY <1>23 DEF UpdateLastUsed, Handled
<1>24. ASSUME NEW p \in Pollers, HandleAccountEvent(p) PROVE BatchIds'
  BY <1>24 DEF HandleAccountEvent
<1>25. ASSUME NEW p \in Pollers, SetAccount(p) PROVE BatchIds' BY <1>25 DEF SetAccount, Handled
<1>26. ASSUME NEW p \in Pollers, EventRebuilt(p) PROVE BatchIds'
  BY <1>26 DEF EventRebuilt, Handled, PollEnds
<1>27. ASSUME NEW p \in Pollers, EventFails(p) PROVE BatchIds' BY <1>27 DEF EventFails, PollEnds
<1>28. ASSUME NEW p \in Pollers, SetOutboxWatermark(p) PROVE BatchIds'
  BY <1>28 DEF SetOutboxWatermark
<1>29. ASSUME NEW p \in Pollers, CleanupConsumedOutbox(p) PROVE BatchIds'
  BY <1>29 DEF CleanupConsumedOutbox
<1>30. ASSUME NEW p \in Pollers, CheckOutboxLag(p) PROVE BatchIds' BY <1>30 DEF CheckOutboxLag
<1>31. ASSUME NEW b \in Buckets, LockExpires(b) PROVE BatchIds' BY <1>31 DEF LockExpires
<1>32. CASE UNCHANGED vars BY <1>32
<1> QED
  BY <1>0a, <1>1, <1>2, <1>3, <1>4, <1>5, <1>6, <1>7, <1>8, <1>9, <1>10, <1>11, <1>12, <1>13,
     <1>14, <1>15, <1>16, <1>17, <1>18, <1>19, <1>20, <1>21, <1>22, <1>23, <1>24, <1>25, <1>26,
     <1>27, <1>28, <1>29, <1>30, <1>31, <1>32 DEF Next, WriterStep, BuildStep, PollStep, Procs

\* A poll that passes the row with the dedup_key has read it and cleared the key.
LEMMA AheadStep ==
    ASSUME Types, KeyedRows, KeyedAhead, [Next]_vars
    PROVE  KeyedAhead'
<1> USE DEF Types, StoreTypes, PollTypes, KeyedAhead, mysql, redis, poll, vars
<1>0. ASSUME keyed' \subseteq keyed, UNCHANGED <<watermark, missed>>,
             \A p \in Pollers : /\ base'[p] \in {base[p], 0, watermark}
                                /\ last'[p] \in {last[p], 0}
      PROVE  KeyedAhead'
  BY <1>0
<1>1. ASSUME NEW w \in Writers, Change(w) PROVE KeyedAhead'
  BY <1>1, <1>0 DEF Change
<1>0a. ASSUME NEW w \in Writers, ChangeUnannounced(w) PROVE KeyedAhead'
  BY <1>0a, <1>0 DEF ChangeUnannounced
<1>2. ASSUME NEW w \in Writers, ChangeInTx(w) PROVE KeyedAhead'
  <2>1. UNCHANGED <<watermark, base, last>>
    BY <1>2 DEF ChangeInTx
  <2>2. CASE UNCHANGED <<keyed, missed>>
    BY <2>1, <2>2
  <2>3. CASE keyed' = {nextId} /\ missed' = IF Overtaken(nextId) THEN missed \cup {nextId} ELSE missed
    <3>1. nextId \in Nat
      BY DEF WriterTypes
    <3> QED
      BY <2>1, <2>3, <3>1 DEF Overtaken
  <2> QED
    BY <1>2, <2>2, <2>3 DEF ChangeInTx, EnqueueSchedulerOutbox
<1>3. ASSUME NEW w \in Writers, DeleteSchedulerAccountSnapshot(w) PROVE KeyedAhead'
  BY <1>3, <1>0 DEF DeleteSchedulerAccountSnapshot
<1>4. ASSUME NEW w \in Writers, AllocateId(w) PROVE KeyedAhead'
  BY <1>4, <1>0 DEF AllocateId
<1>5. ASSUME NEW w \in Writers, Enqueue(w) PROVE KeyedAhead'
  <2>1. UNCHANGED <<watermark, base, last>>
    BY <1>5 DEF Enqueue
  <2>2. CASE UNCHANGED <<keyed, missed>>
    BY <2>1, <2>2
  <2>3. CASE keyed' = {wval[w]} /\ missed' = IF Overtaken(wval[w]) THEN missed \cup {wval[w]} ELSE missed
    <3>1. wval[w] \in Nat
      BY DEF WriterTypes
    <3> QED
      BY <2>1, <2>3, <3>1 DEF Overtaken
  <2> QED
    BY <1>5, <2>2, <2>3 DEF Enqueue, EnqueueSchedulerOutbox
<1>6. ASSUME NEW w \in Writers, SyncRead(w) PROVE KeyedAhead'
  BY <1>6, <1>0 DEF SyncRead
<1>7. ASSUME NEW w \in Writers, SyncSet(w) PROVE KeyedAhead'
  BY <1>7, <1>0 DEF SyncSet
<1>8. CASE TouchLastUsed
  BY <1>8, <1>0 DEF TouchLastUsed
<1>9. ASSUME NEW x \in Procs, TryLockBucket(x) PROVE KeyedAhead'
  BY <1>9, <1>0 DEF TryLockBucket
<1>10. ASSUME NEW x \in Procs, LoadAccountsFromDB(x) PROVE KeyedAhead'
  BY <1>10, <1>0 DEF LoadAccountsFromDB
<1>11. ASSUME NEW x \in Procs, IncrVersion(x) PROVE KeyedAhead'
  BY <1>11, <1>0 DEF IncrVersion
<1>12. ASSUME NEW x \in Procs, WriteAccounts(x) PROVE KeyedAhead'
  BY <1>12, <1>0 DEF WriteAccounts
<1>13. ASSUME NEW x \in Procs, Activate(x) PROVE KeyedAhead'
  BY <1>13, <1>0 DEF Activate
<1>14. ASSUME NEW x \in Procs, UnlockBucket(x) PROVE KeyedAhead'
  BY <1>14, <1>0 DEF UnlockBucket
<1>15. ASSUME NEW x \in Procs, FullRebuildEnds(x) PROVE KeyedAhead'
  BY <1>15, <1>0 DEF FullRebuildEnds
<1>16. ASSUME NEW x \in Procs, SnapshotFails(x) PROVE KeyedAhead'
  BY <1>16, <1>0 DEF SnapshotFails
<1>17. ASSUME NEW x \in Procs, Crash(x) PROVE KeyedAhead'
  BY <1>17, <1>0 DEF Crash
<1>18. ASSUME NEW x \in Rebuilders, FullRebuild(x) PROVE KeyedAhead'
  BY <1>18, <1>0 DEF FullRebuild
<1>19. ASSUME NEW x \in Readers, ListSchedulableAccounts(x) PROVE KeyedAhead'
  BY <1>19, <1>0 DEF ListSchedulableAccounts
<1>20. ASSUME NEW p \in Pollers, GetOutboxWatermark(p) PROVE KeyedAhead'
  BY <1>20, <1>0 DEF GetOutboxWatermark
<1>21. ASSUME NEW p \in Pollers, ListAfterAndReleaseDedup(p) PROVE KeyedAhead'
  <2>1. keyed' \subseteq keyed /\ UNCHANGED <<watermark, missed>>
    BY <1>21 DEF ListAfterAndReleaseDedup, Released
  <2>2. CASE PollEnds(p)
    BY <1>0, <2>1, <2>2 DEF PollEnds
  <2>3. ASSUME NEW R \in SUBSET rows, NEW m \in R, Reads(p, R, m) PROVE KeyedAhead'
    <3>1. base' = base /\ last' = [last EXCEPT ![p] = m.id] /\ m.id \in Nat
      BY <2>3 DEF Reads, AnyRows
    <3>2. ASSUME NEW k \in keyed', k \notin missed PROVE k > m.id
      <4>1. k \in keyed /\ k \in Nat /\ k > base[p] /\ k \notin {r.id : r \in R}
        BY <2>1, <2>3, <3>2 DEF Reads, Released
      <4>2. PICK r \in rows : r.id = k
        BY <4>1 DEF KeyedRows
      <4>3. r \notin R
        BY <4>1, <4>2
      <4> QED
        BY <2>3, <3>1, <4>1, <4>2, <4>3 DEF Reads
    <3> QED
      BY <2>1, <3>1, <3>2
  <2> QED
    BY <1>21, <2>2, <2>3, ListReads
<1>22. ASSUME NEW p \in Pollers, HandleLastUsedEvent(p) PROVE KeyedAhead'
  BY <1>22, <1>0 DEF HandleLastUsedEvent
<1>23. ASSUME NEW p \in Pollers, UpdateLastUsed(p) PROVE KeyedAhead'
  BY <1>23, <1>0 DEF UpdateLastUsed
<1>24. ASSUME NEW p \in Pollers, HandleAccountEvent(p) PROVE KeyedAhead'
  BY <1>24, <1>0 DEF HandleAccountEvent
<1>25. ASSUME NEW p \in Pollers, SetAccount(p) PROVE KeyedAhead'
  BY <1>25, <1>0 DEF SetAccount
<1>26. ASSUME NEW p \in Pollers, EventRebuilt(p) PROVE KeyedAhead'
  <2>1. UNCHANGED <<base, last>> \/ PollEnds(p)
    BY <1>26 DEF EventRebuilt
  <2> QED
    BY <1>26, <1>0, <2>1 DEF EventRebuilt, PollEnds
<1>27. ASSUME NEW p \in Pollers, EventFails(p) PROVE KeyedAhead'
  BY <1>27, <1>0 DEF EventFails, PollEnds
<1>28. ASSUME NEW p \in Pollers, SetOutboxWatermark(p) PROVE KeyedAhead'
  BY <1>28 DEF SetOutboxWatermark, Consumed
<1>29. ASSUME NEW p \in Pollers, CleanupConsumedOutbox(p) PROVE KeyedAhead'
  BY <1>29, <1>0 DEF CleanupConsumedOutbox
<1>30. ASSUME NEW p \in Pollers, CheckOutboxLag(p) PROVE KeyedAhead'
  BY <1>30, <1>0 DEF CheckOutboxLag
<1>31. ASSUME NEW b \in Buckets, LockExpires(b) PROVE KeyedAhead'
  BY <1>31, <1>0 DEF LockExpires
<1>32. CASE UNCHANGED vars BY <1>32, <1>0
<1> QED
  BY <1>0a, <1>1, <1>2, <1>3, <1>4, <1>5, <1>6, <1>7, <1>8, <1>9, <1>10, <1>11, <1>12, <1>13,
     <1>14, <1>15, <1>16, <1>17, <1>18, <1>19, <1>20, <1>21, <1>22, <1>23, <1>24, <1>25, <1>26,
     <1>27, <1>28, <1>29, <1>30, <1>31, <1>32 DEF Next, WriterStep, BuildStep, PollStep, Procs

\* All of them.
LEMMA IdsStep ==
    ASSUME Types, Ids, [Next]_vars
    PROVE  Ids'
BY RowIdsStep, KeyedStep, BatchStep, AheadStep DEF Ids

-----------------------------------------------------------------------------
(* Where a poll is.                                                        *)

\* Nothing of the poll p changes.
Same(p) ==
    /\ pc'[p] = pc[p] /\ base'[p] = base[p] /\ last'[p] = last[p] /\ batch'[p] = batch[p]
    /\ seen'[p] = seen[p] /\ job'[p] = job[p] /\ todo'[p] = todo[p] /\ bucket'[p] = bucket[p]
    /\ got'[p] = got[p] /\ (p \in err' <=> p \in err)

\* A step of the poll p.
Moves(p) == BuildStep(p) \/ SnapshotFails(p) \/ Crash(p) \/ PollStep(p) \/ EventFails(p)

\* Every step is one of p, or leaves it alone.
LEMMA MovesOrSame ==
    ASSUME Types, [Next]_vars, NEW p \in Pollers
    PROVE  Moves(p) \/ Same(p)
<1> USE DEF Types, ProcTypes, PollTypes, Go, Leave, Procs, poll, build, vars
<1>1. ASSUME NEW w \in Writers, Change(w) PROVE Moves(p) \/ Same(p)
  BY <1>1 DEF Change, Same
<1>0a. ASSUME NEW w \in Writers, ChangeUnannounced(w) PROVE Moves(p) \/ Same(p)
  BY <1>0a DEF ChangeUnannounced, Same
<1>2. ASSUME NEW w \in Writers, ChangeInTx(w) PROVE Moves(p) \/ Same(p)
  BY <1>2 DEF ChangeInTx, Same
<1>3. ASSUME NEW w \in Writers, DeleteSchedulerAccountSnapshot(w) PROVE Moves(p) \/ Same(p)
  BY <1>3 DEF DeleteSchedulerAccountSnapshot, Same
<1>4. ASSUME NEW w \in Writers, AllocateId(w) PROVE Moves(p) \/ Same(p)
  BY <1>4 DEF AllocateId, Same
<1>5. ASSUME NEW w \in Writers, Enqueue(w) PROVE Moves(p) \/ Same(p)
  BY <1>5 DEF Enqueue, Same
<1>6. ASSUME NEW w \in Writers, SyncRead(w) PROVE Moves(p) \/ Same(p)
  BY <1>6 DEF SyncRead, Same
<1>7. ASSUME NEW w \in Writers, SyncSet(w) PROVE Moves(p) \/ Same(p)
  BY <1>7 DEF SyncSet, Same
<1>8. CASE TouchLastUsed
  BY <1>8 DEF TouchLastUsed, Same
<1>9. ASSUME NEW x \in Procs, TryLockBucket(x) PROVE Moves(p) \/ Same(p)
  <2>1. CASE x = p
    BY <1>9, <2>1 DEF Moves, BuildStep, PollStep
  <2>2. CASE x # p
    BY <1>9, <2>2 DEF TryLockBucket, Same
  <2> QED
    BY <2>1, <2>2
<1>10. ASSUME NEW x \in Procs, LoadAccountsFromDB(x) PROVE Moves(p) \/ Same(p)
  <2>1. CASE x = p
    BY <1>10, <2>1 DEF Moves, BuildStep, PollStep
  <2>2. CASE x # p
    BY <1>10, <2>2 DEF LoadAccountsFromDB, Same
  <2> QED
    BY <2>1, <2>2
<1>11. ASSUME NEW x \in Procs, IncrVersion(x) PROVE Moves(p) \/ Same(p)
  <2>1. CASE x = p
    BY <1>11, <2>1 DEF Moves, BuildStep, PollStep
  <2>2. CASE x # p
    BY <1>11, <2>2 DEF IncrVersion, Same
  <2> QED
    BY <2>1, <2>2
<1>12. ASSUME NEW x \in Procs, WriteAccounts(x) PROVE Moves(p) \/ Same(p)
  <2>1. CASE x = p
    BY <1>12, <2>1 DEF Moves, BuildStep, PollStep
  <2>2. CASE x # p
    BY <1>12, <2>2 DEF WriteAccounts, Same
  <2> QED
    BY <2>1, <2>2
<1>13. ASSUME NEW x \in Procs, Activate(x) PROVE Moves(p) \/ Same(p)
  <2>1. CASE x = p
    BY <1>13, <2>1 DEF Moves, BuildStep, PollStep
  <2>2. CASE x # p
    BY <1>13, <2>2 DEF Activate, Same
  <2> QED
    BY <2>1, <2>2
<1>14. ASSUME NEW x \in Procs, UnlockBucket(x) PROVE Moves(p) \/ Same(p)
  <2>1. CASE x = p
    BY <1>14, <2>1 DEF Moves, BuildStep, PollStep
  <2>2. CASE x # p
    BY <1>14, <2>2 DEF UnlockBucket, Same
  <2> QED
    BY <2>1, <2>2
<1>15. ASSUME NEW x \in Procs, FullRebuildEnds(x) PROVE Moves(p) \/ Same(p)
  <2>1. CASE x = p
    BY <1>15, <2>1 DEF Moves, BuildStep, PollStep
  <2>2. CASE x # p
    BY <1>15, <2>2 DEF FullRebuildEnds, Same
  <2> QED
    BY <2>1, <2>2
<1>16. ASSUME NEW x \in Procs, SnapshotFails(x) PROVE Moves(p) \/ Same(p)
  <2>1. CASE x = p
    BY <1>16, <2>1 DEF Moves, BuildStep, PollStep
  <2>2. CASE x # p
    BY <1>16, <2>2 DEF SnapshotFails, Same
  <2> QED
    BY <2>1, <2>2
<1>17. ASSUME NEW x \in Procs, Crash(x) PROVE Moves(p) \/ Same(p)
  <2>1. CASE x = p
    BY <1>17, <2>1 DEF Moves, BuildStep, PollStep
  <2>2. CASE x # p
    BY <1>17, <2>2 DEF Crash, Same
  <2> QED
    BY <2>1, <2>2
<1>18. ASSUME NEW x \in Rebuilders, FullRebuild(x) PROVE Moves(p) \/ Same(p)
  BY <1>18, SchedulerAssumption DEF FullRebuild, Same
<1>19. ASSUME NEW x \in Readers, ListSchedulableAccounts(x) PROVE Moves(p) \/ Same(p)
  BY <1>19, SchedulerAssumption DEF ListSchedulableAccounts, Same
<1>20. ASSUME NEW q \in Pollers, GetOutboxWatermark(q) PROVE Moves(p) \/ Same(p)
  <2>1. CASE q = p
    BY <1>20, <2>1 DEF Moves, BuildStep, PollStep
  <2>2. CASE q # p
    BY <1>20, <2>2 DEF GetOutboxWatermark, Same
  <2> QED
    BY <2>1, <2>2
<1>21. ASSUME NEW q \in Pollers, ListAfterAndReleaseDedup(q) PROVE Moves(p) \/ Same(p)
  <2>1. CASE q = p
    BY <1>21, <2>1 DEF Moves, BuildStep, PollStep
  <2>2. CASE q # p
    BY <1>21, <2>2 DEF ListAfterAndReleaseDedup, Same, PollEnds
  <2> QED
    BY <2>1, <2>2
<1>22. ASSUME NEW q \in Pollers, HandleLastUsedEvent(q) PROVE Moves(p) \/ Same(p)
  <2>1. CASE q = p
    BY <1>22, <2>1 DEF Moves, BuildStep, PollStep
  <2>2. CASE q # p
    BY <1>22, <2>2 DEF HandleLastUsedEvent, Same, Handled
  <2> QED
    BY <2>1, <2>2
<1>23. ASSUME NEW q \in Pollers, UpdateLastUsed(q) PROVE Moves(p) \/ Same(p)
  <2>1. CASE q = p
    BY <1>23, <2>1 DEF Moves, BuildStep, PollStep
  <2>2. CASE q # p
    BY <1>23, <2>2 DEF UpdateLastUsed, Same, Handled
  <2> QED
    BY <2>1, <2>2
<1>24. ASSUME NEW q \in Pollers, HandleAccountEvent(q) PROVE Moves(p) \/ Same(p)
  <2>1. CASE q = p
    BY <1>24, <2>1 DEF Moves, BuildStep, PollStep
  <2>2. CASE q # p
    BY <1>24, <2>2 DEF HandleAccountEvent, Same
  <2> QED
    BY <2>1, <2>2
<1>25. ASSUME NEW q \in Pollers, SetAccount(q) PROVE Moves(p) \/ Same(p)
  <2>1. CASE q = p
    BY <1>25, <2>1 DEF Moves, BuildStep, PollStep
  <2>2. CASE q # p
    BY <1>25, <2>2 DEF SetAccount, Same, Handled
  <2> QED
    BY <2>1, <2>2
<1>26. ASSUME NEW q \in Pollers, EventRebuilt(q) PROVE Moves(p) \/ Same(p)
  <2>1. CASE q = p
    BY <1>26, <2>1 DEF Moves, BuildStep, PollStep
  <2>2. CASE q # p
    BY <1>26, <2>2 DEF EventRebuilt, Same, Handled, PollEnds
  <2> QED
    BY <2>1, <2>2
<1>27. ASSUME NEW q \in Pollers, EventFails(q) PROVE Moves(p) \/ Same(p)
  <2>1. CASE q = p
    BY <1>27, <2>1 DEF Moves, BuildStep, PollStep
  <2>2. CASE q # p
    BY <1>27, <2>2 DEF EventFails, Same, PollEnds
  <2> QED
    BY <2>1, <2>2
<1>28. ASSUME NEW q \in Pollers, SetOutboxWatermark(q) PROVE Moves(p) \/ Same(p)
  <2>1. CASE q = p
    BY <1>28, <2>1 DEF Moves, BuildStep, PollStep
  <2>2. CASE q # p
    BY <1>28, <2>2 DEF SetOutboxWatermark, Same
  <2> QED
    BY <2>1, <2>2
<1>29. ASSUME NEW q \in Pollers, CleanupConsumedOutbox(q) PROVE Moves(p) \/ Same(p)
  <2>1. CASE q = p
    BY <1>29, <2>1 DEF Moves, BuildStep, PollStep
  <2>2. CASE q # p
    BY <1>29, <2>2 DEF CleanupConsumedOutbox, Same
  <2> QED
    BY <2>1, <2>2
<1>30. ASSUME NEW q \in Pollers, CheckOutboxLag(q) PROVE Moves(p) \/ Same(p)
  <2>1. CASE q = p
    BY <1>30, <2>1 DEF Moves, BuildStep, PollStep
  <2>2. CASE q # p
    BY <1>30, <2>2 DEF CheckOutboxLag, Same
  <2> QED
    BY <2>1, <2>2
<1>31. ASSUME NEW b \in Buckets, LockExpires(b) PROVE Moves(p) \/ Same(p)
  BY <1>31 DEF LockExpires, Same
<1>32. CASE UNCHANGED vars
  BY <1>32 DEF Same
<1> QED
  BY <1>0a, <1>1, <1>2, <1>3, <1>4, <1>5, <1>6, <1>7, <1>8, <1>9, <1>10, <1>11, <1>12, <1>13,
     <1>14, <1>15, <1>16, <1>17, <1>18, <1>19, <1>20, <1>21, <1>22, <1>23, <1>24, <1>25, <1>26,
     <1>27, <1>28, <1>29, <1>30, <1>31, <1>32 DEF Next, WriterStep, BuildStep, PollStep, Procs

\* The control state of a poll survives its own steps.
LEMMA OwnControl ==
    ASSUME Types, NEW p \in Pollers, ControlAt(p), Moves(p)
    PROVE  ControlAt(p)'
<1> USE DEF Types, ProcTypes, PollTypes, ControlAt, Rebuilding, Working, Procs, Go, poll, build
<1>1. CASE TryLockBucket(p) BY <1>1 DEF TryLockBucket
<1>2. CASE LoadAccountsFromDB(p) BY <1>2 DEF LoadAccountsFromDB
<1>3. CASE IncrVersion(p) BY <1>3 DEF IncrVersion
<1>4. CASE WriteAccounts(p) BY <1>4 DEF WriteAccounts
<1>5. CASE Activate(p) BY <1>5 DEF Activate, Leave
<1>6. CASE UnlockBucket(p) BY <1>6 DEF UnlockBucket
<1>7. CASE FullRebuildEnds(p) BY <1>7 DEF FullRebuildEnds, BuildEnds
<1>8. CASE SnapshotFails(p) BY <1>8 DEF SnapshotFails, Leave
<1>9. CASE Crash(p) BY <1>9 DEF Crash
<1>10. CASE GetOutboxWatermark(p) BY <1>10 DEF GetOutboxWatermark
<1>11. CASE ListAfterAndReleaseDedup(p)
  <2>1. CASE PollEnds(p)
    BY <2>1 DEF PollEnds
  <2>2. ASSUME NEW R \in SUBSET rows, NEW m \in R, Reads(p, R, m) PROVE ControlAt(p)'
    BY <2>2, <1>11 DEF Reads, ListAfterAndReleaseDedup
  <2> QED
    BY <1>11, <2>1, <2>2, ListReads
<1>12. CASE HandleLastUsedEvent(p) BY <1>12 DEF HandleLastUsedEvent, Handled, Event
<1>13. CASE UpdateLastUsed(p) BY <1>13 DEF UpdateLastUsed, Handled
<1>14. CASE HandleAccountEvent(p) BY <1>14 DEF HandleAccountEvent, Event
<1>15. CASE SetAccount(p) BY <1>15 DEF SetAccount, Handled
<1>16. CASE EventRebuilt(p)
  <2>1. CASE PollEnds(p)
    BY <2>1 DEF PollEnds
  <2>2. CASE Handled(p) /\ UNCHANGED <<base, last, seen>>
    BY <2>2, <1>16 DEF Handled, EventRebuilt
  <2> QED
    BY <1>16, <2>1, <2>2 DEF EventRebuilt
<1>17. CASE EventFails(p) BY <1>17 DEF EventFails, PollEnds
<1>18. CASE SetOutboxWatermark(p) BY <1>18 DEF SetOutboxWatermark
<1>19. CASE CleanupConsumedOutbox(p) BY <1>19 DEF CleanupConsumedOutbox
<1>20. CASE CheckOutboxLag(p) BY <1>20 DEF CheckOutboxLag
<1> QED
  BY <1>1, <1>2, <1>3, <1>4, <1>5, <1>6, <1>7, <1>8, <1>9, <1>10, <1>11, <1>12, <1>13, <1>14,
     <1>15, <1>16, <1>17, <1>18, <1>19, <1>20 DEF Moves, BuildStep, PollStep

\* ... and the steps of others.
LEMMA ControlStep ==
    ASSUME Types, Control, [Next]_vars
    PROVE  Control'
<1>1. SUFFICES ASSUME NEW p \in Pollers PROVE ControlAt(p)'
  BY DEF Control
<1>2. ControlAt(p)
  BY DEF Control
<1>3. CASE Moves(p)
  BY <1>2, <1>3, OwnControl
<1>4. CASE Same(p)
  <2>1. UNCHANGED <<pc[p], seen[p], batch[p], job[p], bucket[p], todo[p]>>
    BY <1>4 DEF Same
  <2> QED
    BY <1>2, <2>1 DEF ControlAt, Event
<1> QED
  BY <1>3, <1>4, MovesOrSame

-----------------------------------------------------------------------------
(* What misses a change is excused, and stays so while the account does.   *)

KeepsGood == (GoodAcc => GoodAcc') /\ \A b \in Buckets : GoodList(b) => GoodList(b)'

\* PutAccount excuses an entry it sets back.
LEMMA PutGood ==
    ASSUME Types, Behind, NEW v \in Nat, v <= db, PutAccount(v), UNCHANGED <<db, list>>
    PROVE  KeepsGood /\ (v = db => GoodAcc')
<1>1. \A b \in Buckets : b \in excused => b \in excused'
  BY SchedulerAssumption DEF PutAccount
<1>2. GoodAcc => GoodAcc'
  BY DEF Types, StoreTypes, Behind, PutAccount, GoodAcc
<1>3. v = db => GoodAcc'
  BY DEF PutAccount, GoodAcc
<1> QED
  BY <1>1, <1>2, <1>3 DEF KeepsGood, GoodList

\* Activate excuses a list it sets back, or one that a later version keeps back.
LEMMA ActivateGood ==
    ASSUME Types, Behind, NEW x \in Procs, Activate(x)
    PROVE  KeepsGood /\ \A b \in Buckets : got[x] = db /\ b = bucket[x] => GoodList(b)'
<1>1. got[x] \in Nat /\ got[x] <= db /\ db \in Nat
  BY DEF Types, StoreTypes, ProcTypes, Behind
<1>2. \A b \in Buckets : list[b] \in Nat /\ list[b] <= db
  BY DEF Types, StoreTypes, Behind
<1>3. UNCHANGED <<acc, db>>
  BY DEF Activate, mysql
<1>4. CASE NotOlder(x)
  <2>1. list' = [list EXCEPT ![bucket[x]] = got[x]]
    BY <1>4 DEF Activate
  <2>2. excused' = IF got[x] = db THEN excused \ {bucket[x]}
                   ELSE IF got[x] < list[bucket[x]] THEN excused \cup {bucket[x]} ELSE excused
    BY <1>4 DEF Activate
  <2>3. list \in [Buckets -> Nat]
    BY DEF Types, StoreTypes
  <2>4. ASSUME NEW b \in Buckets, GoodList(b) PROVE GoodList(b)'
    <3>1. CASE b = bucket[x]
      BY <1>1, <1>2, <1>3, <2>1, <2>2, <2>3, <2>4, <3>1 DEF GoodList
    <3>2. CASE b # bucket[x]
      BY <1>3, <2>1, <2>2, <2>3, <2>4, <3>2 DEF GoodList
    <3> QED
      BY <3>1, <3>2
  <2>5. GoodAcc => GoodAcc'
    BY <1>3, <2>2, SchedulerAssumption DEF GoodAcc, Types, ProcTypes
  <2> QED
    BY <1>3, <2>1, <2>3, <2>4, <2>5 DEF KeepsGood, GoodList
<1>5. CASE ~NotOlder(x)
  <2>1. list' = list
    BY <1>5 DEF Activate
  <2>2. excused' = IF got[x] > list[bucket[x]] THEN excused \cup {bucket[x]} ELSE excused
    BY <1>5 DEF Activate
  <2> QED
    BY <1>1, <1>2, <1>3, <2>1, <2>2 DEF KeepsGood, GoodAcc, GoodList
<1> QED
  BY <1>4, <1>5

\* No step that leaves the account as it is makes a good entry stale unexcused.
LEMMA GoodStep ==
    ASSUME Types, Behind, [Next]_vars, db' = db
    PROVE  KeepsGood
<1> USE DEF mysql, redis, vars
<1>1. ASSUME NEW w \in Writers, Change(w) PROVE KeepsGood
  BY <1>1 DEF Change, Types, StoreTypes
<1>0a. ASSUME NEW w \in Writers, ChangeUnannounced(w) PROVE KeepsGood
  BY <1>0a DEF ChangeUnannounced, Types, StoreTypes
<1>2. ASSUME NEW w \in Writers, ChangeInTx(w) PROVE KeepsGood
  BY <1>2 DEF ChangeInTx, Types, StoreTypes
<1>3. ASSUME NEW w \in Writers, DeleteSchedulerAccountSnapshot(w) PROVE KeepsGood
  BY <1>3 DEF DeleteSchedulerAccountSnapshot, KeepsGood, GoodAcc, GoodList
<1>4. ASSUME NEW w \in Writers, AllocateId(w) PROVE KeepsGood
  <2>1. UNCHANGED <<db, acc, list, excused>>
    BY <1>4 DEF AllocateId
  <2> QED
    BY <2>1 DEF KeepsGood, GoodAcc, GoodList
<1>5. ASSUME NEW w \in Writers, Enqueue(w) PROVE KeepsGood
  <2>1. UNCHANGED <<db, acc, list>> /\ excused' \in {excused, Buckets \cup {Account}}
    BY <1>5 DEF Enqueue, EnqueueSchedulerOutbox
  <2> QED
    BY <2>1 DEF KeepsGood, GoodAcc, GoodList
<1>6. ASSUME NEW w \in Writers, SyncRead(w) PROVE KeepsGood
  <2>1. UNCHANGED <<db, acc, list, excused>>
    BY <1>6 DEF SyncRead
  <2> QED
    BY <2>1 DEF KeepsGood, GoodAcc, GoodList
<1>7. ASSUME NEW w \in Writers, SyncSet(w) PROVE KeepsGood
  <2>1. CASE PutAccount(wval[w])
    BY <1>7, <2>1, PutGood DEF SyncSet, Types, WriterTypes, Behind
  <2>2. CASE UNCHANGED <<acc, excused>>
    BY <1>7, <2>2 DEF SyncSet, KeepsGood, GoodAcc, GoodList
  <2> QED
    BY <1>7, <2>1, <2>2 DEF SyncSet
<1>8. CASE TouchLastUsed
  <2>1. UNCHANGED <<db, acc, list, excused>>
    BY <1>8 DEF TouchLastUsed
  <2> QED
    BY <2>1 DEF KeepsGood, GoodAcc, GoodList
<1>9. ASSUME NEW x \in Procs, TryLockBucket(x) PROVE KeepsGood
  <2>1. UNCHANGED <<db, acc, list>> /\ excused \subseteq excused'
    BY <1>9 DEF TryLockBucket
  <2> QED
    BY <2>1 DEF KeepsGood, GoodAcc, GoodList
<1>10. ASSUME NEW x \in Procs, LoadAccountsFromDB(x) PROVE KeepsGood
  <2>1. UNCHANGED <<db, acc, list, excused>>
    BY <1>10 DEF LoadAccountsFromDB
  <2> QED
    BY <2>1 DEF KeepsGood, GoodAcc, GoodList
<1>11. ASSUME NEW x \in Procs, IncrVersion(x) PROVE KeepsGood
  <2>1. UNCHANGED <<db, acc, list, excused>>
    BY <1>11 DEF IncrVersion
  <2> QED
    BY <2>1 DEF KeepsGood, GoodAcc, GoodList
<1>12. ASSUME NEW x \in Procs, WriteAccounts(x) PROVE KeepsGood
  <2>1. CASE PutAccount(got[x])
    BY <1>12, <2>1, PutGood DEF WriteAccounts, Types, ProcTypes, Behind
  <2>2. CASE UNCHANGED <<acc, excused>>
    BY <1>12, <2>2 DEF WriteAccounts, KeepsGood, GoodAcc, GoodList
  <2> QED
    BY <1>12, <2>1, <2>2 DEF WriteAccounts
<1>13. ASSUME NEW x \in Procs, Activate(x) PROVE KeepsGood
  BY <1>13, ActivateGood
<1>14. ASSUME NEW x \in Procs, UnlockBucket(x) PROVE KeepsGood
  <2>1. UNCHANGED <<db, acc, list, excused>>
    BY <1>14 DEF UnlockBucket
  <2> QED
    BY <2>1 DEF KeepsGood, GoodAcc, GoodList
<1>15. ASSUME NEW x \in Procs, FullRebuildEnds(x) PROVE KeepsGood
  <2>1. UNCHANGED <<db, acc, list, excused>>
    BY <1>15 DEF FullRebuildEnds
  <2> QED
    BY <2>1 DEF KeepsGood, GoodAcc, GoodList
<1>16. ASSUME NEW x \in Procs, SnapshotFails(x) PROVE KeepsGood
  <2>1. UNCHANGED <<db, acc, list, excused>>
    BY <1>16 DEF SnapshotFails
  <2> QED
    BY <2>1 DEF KeepsGood, GoodAcc, GoodList
<1>17. ASSUME NEW x \in Procs, Crash(x) PROVE KeepsGood
  <2>1. UNCHANGED <<db, acc, list, excused>>
    BY <1>17 DEF Crash
  <2> QED
    BY <2>1 DEF KeepsGood, GoodAcc, GoodList
<1>18. ASSUME NEW x \in Rebuilders, FullRebuild(x) PROVE KeepsGood
  <2>1. UNCHANGED <<db, acc, list, excused>>
    BY <1>18 DEF FullRebuild
  <2> QED
    BY <2>1 DEF KeepsGood, GoodAcc, GoodList
<1>19. ASSUME NEW x \in Readers, ListSchedulableAccounts(x) PROVE KeepsGood
  <2>1. UNCHANGED <<db, acc, list, excused>>
    BY <1>19 DEF ListSchedulableAccounts
  <2> QED
    BY <2>1 DEF KeepsGood, GoodAcc, GoodList
<1>20. ASSUME NEW p \in Pollers, GetOutboxWatermark(p) PROVE KeepsGood
  <2>1. UNCHANGED <<db, acc, list, excused>>
    BY <1>20 DEF GetOutboxWatermark
  <2> QED
    BY <2>1 DEF KeepsGood, GoodAcc, GoodList
<1>21. ASSUME NEW p \in Pollers, ListAfterAndReleaseDedup(p) PROVE KeepsGood
  <2>1. UNCHANGED <<db, acc, list, excused>>
    BY <1>21 DEF ListAfterAndReleaseDedup
  <2> QED
    BY <2>1 DEF KeepsGood, GoodAcc, GoodList
<1>22. ASSUME NEW p \in Pollers, HandleLastUsedEvent(p) PROVE KeepsGood
  <2>1. UNCHANGED <<db, acc, list, excused>>
    BY <1>22 DEF HandleLastUsedEvent
  <2> QED
    BY <2>1 DEF KeepsGood, GoodAcc, GoodList
<1>23. ASSUME NEW p \in Pollers, UpdateLastUsed(p) PROVE KeepsGood
  BY <1>23, PutGood DEF UpdateLastUsed, Types, ProcTypes, Behind, Procs
<1>24. ASSUME NEW p \in Pollers, HandleAccountEvent(p) PROVE KeepsGood
  <2>1. UNCHANGED <<db, acc, list, excused>>
    BY <1>24 DEF HandleAccountEvent
  <2> QED
    BY <2>1 DEF KeepsGood, GoodAcc, GoodList
<1>25. ASSUME NEW p \in Pollers, SetAccount(p) PROVE KeepsGood
  <2>1. CASE PutAccount(got[p])
    BY <1>25, <2>1, PutGood DEF SetAccount, Types, ProcTypes, Behind, Procs
  <2>2. CASE acc' = 0 /\ UNCHANGED excused
    BY <1>25, <2>2 DEF SetAccount, KeepsGood, GoodAcc, GoodList
  <2> QED
    BY <1>25, <2>1, <2>2 DEF SetAccount
<1>26. ASSUME NEW p \in Pollers, EventRebuilt(p) PROVE KeepsGood
  <2>1. UNCHANGED <<db, acc, list, excused>>
    BY <1>26 DEF EventRebuilt
  <2> QED
    BY <2>1 DEF KeepsGood, GoodAcc, GoodList
<1>27. ASSUME NEW p \in Pollers, EventFails(p) PROVE KeepsGood
  <2>1. UNCHANGED <<db, acc, list, excused>>
    BY <1>27 DEF EventFails
  <2> QED
    BY <2>1 DEF KeepsGood, GoodAcc, GoodList
<1>28. ASSUME NEW p \in Pollers, SetOutboxWatermark(p) PROVE KeepsGood
  <2>1. UNCHANGED <<db, acc, list, excused>>
    BY <1>28 DEF SetOutboxWatermark
  <2> QED
    BY <2>1 DEF KeepsGood, GoodAcc, GoodList
<1>29. ASSUME NEW p \in Pollers, CleanupConsumedOutbox(p) PROVE KeepsGood
  <2>1. UNCHANGED <<db, acc, list, excused>>
    BY <1>29 DEF CleanupConsumedOutbox
  <2> QED
    BY <2>1 DEF KeepsGood, GoodAcc, GoodList
<1>30. ASSUME NEW p \in Pollers, CheckOutboxLag(p) PROVE KeepsGood
  <2>1. UNCHANGED <<db, acc, list, excused>>
    BY <1>30 DEF CheckOutboxLag
  <2> QED
    BY <2>1 DEF KeepsGood, GoodAcc, GoodList
<1>31. ASSUME NEW b \in Buckets, LockExpires(b) PROVE KeepsGood
  <2>1. UNCHANGED <<db, acc, list, excused>>
    BY <1>31 DEF LockExpires
  <2> QED
    BY <2>1 DEF KeepsGood, GoodAcc, GoodList
<1>32. CASE UNCHANGED vars
  BY <1>32 DEF KeepsGood, GoodAcc, GoodList
<1> QED
  BY <1>0a, <1>1, <1>2, <1>3, <1>4, <1>5, <1>6, <1>7, <1>8, <1>9, <1>10, <1>11, <1>12, <1>13,
     <1>14, <1>15, <1>16, <1>17, <1>18, <1>19, <1>20, <1>21, <1>22, <1>23, <1>24, <1>25, <1>26,
     <1>27, <1>28, <1>29, <1>30, <1>31, <1>32 DEF Next, WriterStep, BuildStep, PollStep, Procs

-----------------------------------------------------------------------------
(* Who knows of a change.                                                  *)

\* A step that forgets nothing.
Keeps == db' = db /\ KeepsGood /\ rows \subseteq rows' /\ (Announced => Announced')

\* What was known is.
LEMMA KeepsKnown ==
    ASSUME Keeps, NEW i, Known(i)
    PROVE  Known(i)'
BY DEF Keeps, Known, NewRow

\* What was good is.
LEMMA KeepsAllGood ==
    ASSUME Keeps, AllGood
    PROVE  AllGood'
BY DEF Keeps, KeepsGood, AllGood

\* All steps are of this kind but the changes, the inserts and the deletion of
\* rows.
LEMMA KindsOfStep ==
    ASSUME Types, Behind, [Next]_vars
    PROVE  \/ Keeps
           \/ \E w \in Writers : Change(w) \/ ChangeInTx(w) \/ ChangeUnannounced(w) \/ Enqueue(w)
           \/ \E p \in Pollers : CleanupConsumedOutbox(p)
<1> DEFINE K == db' = db /\ rows \subseteq rows' /\ (Announced => Announced')
           C == \/ \E w \in Writers :
                     Change(w) \/ ChangeInTx(w) \/ ChangeUnannounced(w) \/ Enqueue(w)
                \/ \E p \in Pollers : CleanupConsumedOutbox(p)
           G == K \/ C
<1> USE DEF Types, WriterTypes, Announced, WGo, mysql, writer, vars
<1>0. K => Keeps
  BY GoodStep DEF Keeps
<1> HIDE DEF C
<1>1. ASSUME NEW w \in Writers, Change(w) PROVE G
  BY <1>1 DEF C
<1>0a. ASSUME NEW w \in Writers, ChangeUnannounced(w) PROVE G
  BY <1>0a DEF C
<1>2. ASSUME NEW w \in Writers, ChangeInTx(w) PROVE G
  BY <1>2 DEF C
<1>3. ASSUME NEW w \in Writers, DeleteSchedulerAccountSnapshot(w) PROVE G
  BY <1>3 DEF DeleteSchedulerAccountSnapshot
<1>4. ASSUME NEW w \in Writers, AllocateId(w) PROVE G BY <1>4 DEF AllocateId
<1>5. ASSUME NEW w \in Writers, Enqueue(w) PROVE G
  BY <1>5 DEF C
<1>6. ASSUME NEW w \in Writers, SyncRead(w) PROVE G BY <1>6 DEF SyncRead
<1>7. ASSUME NEW w \in Writers, SyncSet(w) PROVE G BY <1>7 DEF SyncSet
<1>8. ASSUME TouchLastUsed PROVE G BY <1>8 DEF TouchLastUsed
<1>9. ASSUME NEW x \in Procs, TryLockBucket(x) PROVE G BY <1>9 DEF TryLockBucket
<1>10. ASSUME NEW x \in Procs, LoadAccountsFromDB(x) PROVE G BY <1>10 DEF LoadAccountsFromDB
<1>11. ASSUME NEW x \in Procs, IncrVersion(x) PROVE G BY <1>11 DEF IncrVersion
<1>12. ASSUME NEW x \in Procs, WriteAccounts(x) PROVE G BY <1>12 DEF WriteAccounts
<1>13. ASSUME NEW x \in Procs, Activate(x) PROVE G BY <1>13 DEF Activate
<1>14. ASSUME NEW x \in Procs, UnlockBucket(x) PROVE G BY <1>14 DEF UnlockBucket
<1>15. ASSUME NEW x \in Procs, FullRebuildEnds(x) PROVE G BY <1>15 DEF FullRebuildEnds
<1>16. ASSUME NEW x \in Procs, SnapshotFails(x) PROVE G BY <1>16 DEF SnapshotFails
<1>17. ASSUME NEW x \in Procs, Crash(x) PROVE G BY <1>17 DEF Crash
<1>18. ASSUME NEW x \in Rebuilders, FullRebuild(x) PROVE G BY <1>18 DEF FullRebuild
<1>19. ASSUME NEW x \in Readers, ListSchedulableAccounts(x) PROVE G
  BY <1>19 DEF ListSchedulableAccounts
<1>20. ASSUME NEW p \in Pollers, GetOutboxWatermark(p) PROVE G BY <1>20 DEF GetOutboxWatermark
<1>21. ASSUME NEW p \in Pollers, ListAfterAndReleaseDedup(p) PROVE G
  BY <1>21 DEF ListAfterAndReleaseDedup
<1>22. ASSUME NEW p \in Pollers, HandleLastUsedEvent(p) PROVE G BY <1>22 DEF HandleLastUsedEvent
<1>23. ASSUME NEW p \in Pollers, UpdateLastUsed(p) PROVE G BY <1>23 DEF UpdateLastUsed
<1>24. ASSUME NEW p \in Pollers, HandleAccountEvent(p) PROVE G BY <1>24 DEF HandleAccountEvent
<1>25. ASSUME NEW p \in Pollers, SetAccount(p) PROVE G BY <1>25 DEF SetAccount
<1>26. ASSUME NEW p \in Pollers, EventRebuilt(p) PROVE G BY <1>26 DEF EventRebuilt
<1>27. ASSUME NEW p \in Pollers, EventFails(p) PROVE G BY <1>27 DEF EventFails
<1>28. ASSUME NEW p \in Pollers, SetOutboxWatermark(p) PROVE G BY <1>28 DEF SetOutboxWatermark
<1>29. ASSUME NEW p \in Pollers, CleanupConsumedOutbox(p) PROVE G
  BY <1>29 DEF C
<1>30. ASSUME NEW p \in Pollers, CheckOutboxLag(p) PROVE G BY <1>30 DEF CheckOutboxLag
<1>31. ASSUME NEW b \in Buckets, LockExpires(b) PROVE G BY <1>31 DEF LockExpires
<1>32. ASSUME UNCHANGED vars PROVE G BY <1>32
<1>33. G
  BY <1>0a, <1>1, <1>2, <1>3, <1>4, <1>5, <1>6, <1>7, <1>8, <1>9, <1>10, <1>11, <1>12, <1>13,
     <1>14, <1>15, <1>16, <1>17, <1>18, <1>19, <1>20, <1>21, <1>22, <1>23, <1>24, <1>25, <1>26,
     <1>27, <1>28, <1>29, <1>30, <1>31, <1>32 DEF Next, WriterStep, BuildStep, PollStep, Procs
<1> QED
  BY <1>0, <1>33 DEF C

\* A poll that does not move knows what it knew.
LEMMA SameKnows ==
    ASSUME Keeps, NEW p \in Pollers, Same(p), PollKnows(p)
    PROVE  PollKnows(p)'
<1>1. UNCHANGED <<db, pc[p], base[p], last[p], batch[p], seen[p], job[p], todo[p], bucket[p],
                  got[p]>>
  BY DEF Same, Keeps
<1>2. Handling(p)' = Handling(p)
  BY <1>1 DEF Same, Handling
<1>3. AccLeft(p) => AccLeft(p)'
  BY <1>1 DEF AccLeft, Later, Event
<1>4. \A b \in Buckets : ListLeft(p, b) => ListLeft(p, b)'
  BY <1>1 DEF ListLeft
<1>5. Known(base[p]) => Known(base[p])'
  BY <1>1, KeepsKnown DEF Known, NewRow
<1>6. Known(last[p]) => Known(last[p])'
  BY <1>1, KeepsKnown DEF Known, NewRow
<1>7. pc'[p] = "list" => Known(base[p])' \/ AllGood'
  BY <1>1, <1>5, KeepsAllGood DEF PollKnows
<1>8. ASSUME Handling(p)', ~Known(last[p])'
      PROVE  (GoodAcc' \/ AccLeft(p)') /\ \A b \in Buckets : GoodList(b)' \/ ListLeft(p, b)'
  <2>1. (GoodAcc \/ AccLeft(p)) /\ \A b \in Buckets : GoodList(b) \/ ListLeft(p, b)
    BY <1>2, <1>6, <1>8 DEF PollKnows
  <2> QED
    BY <2>1, <1>3, <1>4 DEF Keeps, KeepsGood
<1> QED
  BY <1>7, <1>8 DEF PollKnows

\* A poll that ended, or that begins with the lag, has nothing to know.
LEMMA NothingToKnow ==
    ASSUME NEW p \in Pollers, pc'[p] \in {"idle", "lag"}
    PROVE  PollKnows(p)'
BY DEF PollKnows, Handling, Rebuilding, Working

\* A step of a poll that handles its rows: what was left for the entry and for
\* the lists is done, excused, or left.
LEMMA StepOfHandling ==
    ASSUME Keeps, NEW p \in Pollers, PollKnows(p),
           last'[p] = last[p], pc'[p] # "list", Handling(p)' => Handling(p),
           Handling(p)' /\ AccLeft(p) => GoodAcc' \/ AccLeft(p)',
           Handling(p)' => \A b \in Buckets : ListLeft(p, b) => GoodList(b)' \/ ListLeft(p, b)'
    PROVE  PollKnows(p)'
<1>1. Known(last[p]) => Known(last[p])'
  BY KeepsKnown DEF Known, NewRow
<1>2. ASSUME Handling(p)', ~Known(last[p])'
      PROVE  (GoodAcc' \/ AccLeft(p)') /\ \A b \in Buckets : GoodList(b)' \/ ListLeft(p, b)'
  <2>1. (GoodAcc \/ AccLeft(p)) /\ \A b \in Buckets : GoodList(b) \/ ListLeft(p, b)
    BY <1>1, <1>2 DEF PollKnows
  <2> QED
    BY <1>2, <2>1 DEF Keeps, KeepsGood
<1> QED
  BY <1>2 DEF PollKnows

\* Handled drops the rows with the lowest id.
LEMMA HandledRest ==
    ASSUME Types, NEW p \in Pollers, Handled(p)
    PROVE  /\ batch'[p] = {r \in batch[p] : ~Event(p, r)}
           /\ pc'[p] = IF batch'[p] = {} THEN "watermark" ELSE "event"
BY DEF Types, ProcTypes, PollTypes, Handled, Go, Procs

\* An event that is not the row of a change is not that row.
LEMMA UsedIsNotChanged ==
    ASSUME BatchIds, Types, NEW p \in Pollers, NEW r \in batch[p], Event(p, r), r.kind = "used",
           NEW s \in batch[p], s.kind = "changed"
    PROVE  ~Event(p, s)
<1>1. r.id \in Nat /\ s.id \in Nat
  BY DEF Types, PollTypes, AnyRows
<1>2. r.id # s.id
  BY DEF BatchIds, Unique
<1> QED
  BY <1>1, <1>2 DEF Event

\* A poll that reads rows has the change among them, or the change has a row
\* behind the last it read.
LEMMA ListKnows ==
    ASSUME Types, Control, Keeps, NEW p \in Pollers, PollKnows(p), ListAfterAndReleaseDedup(p)
    PROVE  PollKnows(p)'
<1>1. CASE PollEnds(p)
  <2>1. pc'[p] = "idle"
    BY <1>1 DEF PollEnds, Go, Types, ProcTypes, Procs
  <2> QED
    BY <2>1, NothingToKnow
<1>2. ASSUME NEW R \in SUBSET rows, NEW m \in R, Reads(p, R, m) PROVE PollKnows(p)'
  <2>1. pc'[p] = "event" /\ batch'[p] = R /\ last'[p] = m.id /\ seen'[p] = seen[p]
    BY <1>2 DEF Reads, Types, ProcTypes, PollTypes, Procs
  <2>2. pc[p] = "list" /\ ~seen[p]
    BY DEF ListAfterAndReleaseDedup, Control, ControlAt, Rebuilding, Working
  <2>3. Known(base[p]) \/ AllGood
    BY <2>2 DEF PollKnows
  <2>4. CASE AllGood
    BY <2>1, <2>4, KeepsAllGood DEF PollKnows, AllGood
  <2>5. CASE Announced
    BY <2>1, <2>5 DEF PollKnows, Keeps, Known
  <2>6. ASSUME NEW r \in rows, r.kind = "changed", r.id > base[p] PROVE PollKnows(p)'
    <3>1. r.id \in Nat /\ m.id \in Nat /\ base[p] \in Nat
      BY DEF Types, StoreTypes, PollTypes, AnyRows
    <3>2. CASE r.id > m.id
      <4>1. NewRow(last[p])'
        BY <2>1, <2>6, <3>2 DEF NewRow, Keeps
      <4> QED
        BY <2>1, <4>1 DEF PollKnows, Known
    <3>3. CASE r.id <= m.id
      <4>1. r \in batch'[p]
        BY <1>2, <2>1, <2>6, <3>1, <3>3 DEF Reads
      <4>2. AccLeft(p)' /\ \A b \in Buckets : ListLeft(p, b)'
        BY <2>1, <2>2, <2>6, <4>1 DEF AccLeft, ListLeft
      <4> QED
        BY <2>1, <4>2 DEF PollKnows
    <3> QED
      BY <3>1, <3>2, <3>3
  <2> QED
    BY <2>3, <2>4, <2>5, <2>6 DEF Known, NewRow
<1> QED
  BY <1>1, <1>2, ListReads

\* The last_used event of another row.
LEMMA LastUsedKnows ==
    ASSUME Types, Behind, BatchIds, Keeps, NEW p \in Pollers, PollKnows(p),
           pc[p] \in {"event", "touch"}, Handled(p), UNCHANGED <<last, seen>>,
           \E r \in batch[p] : Event(p, r) /\ r.kind = "used"
    PROVE  PollKnows(p)'
<1>1. Handling(p)
  BY DEF Handling
<1>2. ASSUME NEW s \in batch[p], s.kind = "changed"
      PROVE  s \in batch'[p] /\ pc'[p] = "event"
  BY <1>2, HandledRest, UsedIsNotChanged
<1>3. pc'[p] # "list" /\ last'[p] = last[p] /\ seen'[p] = seen[p]
  BY HandledRest
<1>4. AccLeft(p) => AccLeft(p)'
  BY <1>2 DEF AccLeft, Rebuilding, Working
<1>5. \A b \in Buckets : ListLeft(p, b) => ListLeft(p, b)'
  BY <1>2, <1>3 DEF ListLeft, Rebuilding, Working
<1> QED
  BY <1>1, <1>3, <1>4, <1>5, StepOfHandling

\* SetAccount puts the account it read, or takes the entry away, and rebuilds
\* the lists unless the poll has.
LEMMA SetAccountKnows ==
    ASSUME Types, Behind, Keeps, NEW p \in Pollers, PollKnows(p), SetAccount(p)
    PROVE  PollKnows(p)'
<1>1. pc[p] = "account" /\ last'[p] = last[p] /\ UNCHANGED <<db, list>> /\ Handling(p)
  BY DEF SetAccount, mysql, Handling
<1>2. got[p] = db => GoodAcc'
  <2>1. CASE PutAccount(got[p])
    BY <1>1, <2>1, PutGood DEF Types, ProcTypes, Behind, Procs
  <2>2. CASE acc' = 0
    BY <2>2 DEF GoodAcc
  <2> QED
    BY <2>1, <2>2 DEF SetAccount
<1>3. CASE seen[p]
  <2>1. Handled(p)
    BY <1>3 DEF SetAccount
  <2>2. Later(p) => AccLeft(p)'
    BY <2>1, HandledRest DEF Later, AccLeft
  <2>3. AccLeft(p) => GoodAcc' \/ AccLeft(p)'
    BY <1>1, <1>2, <2>2 DEF AccLeft
  <2>4. \A b \in Buckets : ~ListLeft(p, b)
    BY <1>1, <1>3 DEF ListLeft, Rebuilding, Working
  <2>5. pc'[p] # "list"
    BY <2>1, HandledRest
  <2> QED
    BY <1>1, <2>3, <2>4, <2>5, StepOfHandling
<1>4. CASE ~seen[p]
  <2>1. pc'[p] = "lock" /\ todo'[p] = Buckets /\ batch' = batch
    BY <1>4 DEF SetAccount, Go, Types, ProcTypes, Procs
  <2>2. Later(p) => AccLeft(p)'
    BY <2>1 DEF Later, AccLeft, Event, Rebuilding
  <2>3. AccLeft(p) => GoodAcc' \/ AccLeft(p)'
    BY <1>1, <1>2, <2>2 DEF AccLeft
  <2>4. \A b \in Buckets : ListLeft(p, b)'
    BY <2>1 DEF ListLeft, Rebuilding
  <2> QED
    BY <1>1, <2>1, <2>3, <2>4, StepOfHandling
<1> QED
  BY <1>3, <1>4

\* The steps of a rebuild: a bucket is left, done, excused, or has failed.
LEMMA TryLockKnows ==
    ASSUME Types, Keeps, NEW p \in Pollers, PollKnows(p), TryLockBucket(p)
    PROVE  PollKnows(p)'
<1>1. pc[p] = "lock" /\ last'[p] = last[p] /\ batch' = batch /\ job' = job
  BY DEF TryLockBucket, poll
<1>2. pc'[p] \in {"lock", "load"}
  BY <1>1 DEF TryLockBucket, Go, Types, ProcTypes, Procs
<1>3. Handling(p)' => Handling(p)
  BY <1>1, <1>2 DEF TryLockBucket, Handling, Rebuilding, Working
<1>4. AccLeft(p) => AccLeft(p)'
  BY <1>1, <1>2 DEF AccLeft, Later, Event, Rebuilding, Working
<1>5. ASSUME Handling(p)', NEW b \in Buckets, ListLeft(p, b) PROVE GoodList(b)' \/ ListLeft(p, b)'
  <2>1. job[p] = "event" /\ p \notin err' /\ b \in todo[p]
    BY <1>1, <1>2, <1>5 DEF Handling, ListLeft, Rebuilding, Working
  <2>2. b \in todo'[p] \/ b \in excused'
    BY <2>1 DEF TryLockBucket, Types, ProcTypes, Procs
  <2> QED
    BY <1>2, <2>2 DEF GoodList, ListLeft, Rebuilding, Working
<1> QED
  BY <1>1, <1>2, <1>3, <1>4, <1>5, StepOfHandling

\* Activate has stored what the poll loaded, or excuses the bucket.
LEMMA ActivateKnows ==
    ASSUME Types, Behind, Control, Keeps, NEW p \in Pollers, PollKnows(p), Activate(p)
    PROVE  PollKnows(p)'
<1>1. pc[p] = "activate" /\ last'[p] = last[p] /\ UNCHANGED <<batch, job, todo>>
  BY DEF Activate, poll
<1>2. todo[p] # {} /\ p \in Procs
  BY <1>1 DEF Control, ControlAt, Working, Procs
<1>3. pc'[p] = "unlock" /\ bucket'[p] = bucket[p]
  BY <1>2 DEF Activate, Leave, Go, Types, ProcTypes
<1>4. Handling(p)' => Handling(p)
  BY <1>1, <1>3 DEF Activate, Handling, Rebuilding, Working
<1>5. AccLeft(p) => AccLeft(p)'
  BY <1>1, <1>3 DEF AccLeft, Later, Event, Rebuilding, Working
<1>6. ASSUME NEW b \in Buckets, ListLeft(p, b) PROVE GoodList(b)' \/ ListLeft(p, b)'
  <2>1. CASE b = bucket[p]
    <3>1. got[p] = db
      BY <1>1, <1>6, <2>1 DEF ListLeft
    <3> QED
      BY <1>2, <2>1, <3>1, ActivateGood
  <2>2. CASE b # bucket[p]
    BY <1>1, <1>3, <1>6, <2>2 DEF ListLeft, Rebuilding, Working
  <2> QED
    BY <2>1, <2>2
<1> QED
  BY <1>1, <1>3, <1>4, <1>5, <1>6, StepOfHandling

\* The other steps of a rebuild.
LEMMA BuildingKnows ==
    ASSUME Types, Control, Keeps, NEW p \in Pollers, PollKnows(p),
           LoadAccountsFromDB(p) \/ IncrVersion(p) \/ WriteAccounts(p) \/ UnlockBucket(p)
    PROVE  PollKnows(p)'
<1>1. last'[p] = last[p] /\ UNCHANGED <<db, batch, job, err>>
  BY DEF LoadAccountsFromDB, IncrVersion, WriteAccounts, UnlockBucket, poll, build, mysql
<1>2. pc[p] \in Working /\ pc'[p] \in Rebuilding /\ p \in Procs
  BY DEF LoadAccountsFromDB, IncrVersion, WriteAccounts, UnlockBucket, Go, Types, ProcTypes,
         Rebuilding, Working, Procs
<1>3. Handling(p)' => Handling(p)
  BY <1>1, <1>2 DEF Handling, Rebuilding, Working
<1>4. AccLeft(p) => AccLeft(p)'
  BY <1>1, <1>2 DEF AccLeft, Later, Event, Rebuilding, Working
<1>5. ASSUME NEW b \in Buckets, ListLeft(p, b) PROVE ListLeft(p, b)'
  <2>1. b \in todo[p]
    BY <1>2, <1>5 DEF ListLeft, Working
  <2>2. CASE LoadAccountsFromDB(p)
    <3>1. got'[p] = db' /\ pc'[p] = "incr" /\ todo' = todo
      BY <1>1, <1>2, <2>2 DEF LoadAccountsFromDB, Go, Types, ProcTypes
    <3> QED
      BY <2>1, <3>1 DEF ListLeft, Rebuilding, Working
  <2>3. CASE IncrVersion(p) \/ WriteAccounts(p)
    <3>1. UNCHANGED <<got, todo, bucket>> /\ pc'[p] \in {"write", "activate"}
      BY <1>2, <2>3 DEF IncrVersion, WriteAccounts, build, Go, Types, ProcTypes
    <3>2. pc[p] \in {"incr", "write"}
      BY <2>3 DEF IncrVersion, WriteAccounts
    <3> QED
      BY <1>1, <1>5, <2>1, <3>1, <3>2 DEF ListLeft, Rebuilding, Working
  <2>4. CASE UnlockBucket(p)
    <3>1. pc[p] = "unlock" /\ pc'[p] = "lock" /\ todo'[p] = todo[p] \ {bucket[p]}
      BY <1>2, <2>4 DEF UnlockBucket, Go, Types, ProcTypes
    <3> QED
      BY <1>5, <2>1, <3>1 DEF ListLeft, Rebuilding, Working
  <2> QED
    BY <2>2, <2>3, <2>4
<1>6. pc'[p] # "list"
  BY <1>2 DEF Rebuilding, Working
<1> QED
  BY <1>1, <1>3, <1>4, <1>5, <1>6, StepOfHandling

\* A poll whose rebuild has ended without an error has rebuilt every list.
LEMMA RebuiltKnows ==
    ASSUME Types, Keeps, NEW p \in Pollers, PollKnows(p), EventRebuilt(p)
    PROVE  PollKnows(p)'
<1>1. CASE PollEnds(p)
  <2>1. pc'[p] = "idle"
    BY <1>1 DEF PollEnds, Go, Types, ProcTypes, Procs
  <2> QED
    BY <2>1, NothingToKnow
<1>2. CASE Handled(p) /\ p \notin err /\ UNCHANGED last
  <2>1. pc[p] = "lock" /\ todo[p] = {} /\ Handling(p)
    BY <1>2 DEF EventRebuilt, BuildEnds, Handling, Rebuilding
  <2>2. AccLeft(p) => AccLeft(p)'
    BY <1>2, <2>1, HandledRest DEF AccLeft, Later
  <2>3. \A b \in Buckets : ~ListLeft(p, b)
    BY <2>1 DEF ListLeft
  <2>4. pc'[p] # "list" /\ last'[p] = last[p]
    BY <1>2, HandledRest
  <2> QED
    BY <2>1, <2>2, <2>3, <2>4, StepOfHandling
<1> QED
  BY <1>1, <1>2 DEF EventRebuilt

\* At the end of the poll nothing is left: its last row is passed by a later
\* one, or the cache is as good as it gets.
LEMMA NothingLeft ==
    ASSUME Control, NEW p \in Pollers, PollKnows(p), pc[p] \in {"watermark", "cleanup"}
    PROVE  Known(last[p]) \/ AllGood
<1>1. Handling(p)
  BY DEF Handling
<1>2. ~AccLeft(p) /\ \A b \in Buckets : ~ListLeft(p, b)
  BY DEF AccLeft, ListLeft, Rebuilding, Working
<1> QED
  BY <1>1, <1>2 DEF PollKnows, AllGood

\* A poll that moves knows what it has to.
LEMMA MovesKnows ==
    ASSUME Types, Behind, BatchIds, Control, Keeps, Known(watermark) \/ AllGood,
           NEW p \in Pollers, PollKnows(p), Moves(p)
    PROVE  PollKnows(p)'
<1> USE DEF Types, ProcTypes, PollTypes, Procs, Go, poll, build
<1>1. CASE TryLockBucket(p)
  BY <1>1, TryLockKnows
<1>2. CASE LoadAccountsFromDB(p)
  BY <1>2, BuildingKnows
<1>3. CASE IncrVersion(p)
  BY <1>3, BuildingKnows
<1>4. CASE WriteAccounts(p)
  BY <1>4, BuildingKnows
<1>5. CASE Activate(p)
  BY <1>5, ActivateKnows
<1>6. CASE UnlockBucket(p)
  BY <1>6, BuildingKnows
<1>7. CASE FullRebuildEnds(p)
  BY <1>7, NothingToKnow DEF FullRebuildEnds
<1>8. CASE SnapshotFails(p)
  <2>1. pc'[p] \in {"idle", "unlock"} /\ p \in err'
    BY <1>8 DEF SnapshotFails, Leave
  <2> QED
    BY <2>1 DEF PollKnows, Handling, Rebuilding, Working
<1>9. CASE Crash(p)
  BY <1>9, NothingToKnow DEF Crash
<1>10. CASE GetOutboxWatermark(p)
  <2>1. pc'[p] = "list" /\ base'[p] = watermark
    BY <1>10 DEF GetOutboxWatermark
  <2>2. Known(base[p])' \/ AllGood'
    BY <2>1, KeepsKnown, KeepsAllGood DEF Known, NewRow
  <2> QED
    BY <2>1, <2>2 DEF PollKnows, Handling, Rebuilding, Working
<1>11. CASE ListAfterAndReleaseDedup(p)
  BY <1>11, ListKnows
<1>12. CASE HandleLastUsedEvent(p)
  <2>1. CASE Handled(p)
    BY <1>12, <2>1, LastUsedKnows DEF HandleLastUsedEvent
  <2>2. CASE pc' = [pc EXCEPT ![p] = "touch"] /\ UNCHANGED batch
    <3>1. pc[p] = "event" /\ pc'[p] = "touch" /\ UNCHANGED <<batch, last, seen>>
      BY <1>12, <2>2 DEF HandleLastUsedEvent
    <3>2. AccLeft(p) => AccLeft(p)'
      BY <3>1 DEF AccLeft, Rebuilding, Working
    <3>3. \A b \in Buckets : ListLeft(p, b) => ListLeft(p, b)'
      BY <3>1 DEF ListLeft, Rebuilding, Working
    <3>4. Handling(p)
      BY <3>1 DEF Handling
    <3> QED
      BY <3>1, <3>2, <3>3, <3>4, StepOfHandling
  <2> QED
    BY <1>12, <2>1, <2>2 DEF HandleLastUsedEvent
<1>13. CASE UpdateLastUsed(p)
  <2>1. \E r \in batch[p] : Event(p, r) /\ r.kind = "used"
    BY <1>13 DEF UpdateLastUsed, Control, ControlAt
  <2> QED
    BY <1>13, <2>1, LastUsedKnows DEF UpdateLastUsed
<1>14. CASE HandleAccountEvent(p)
  <2>1. pc[p] = "event" /\ pc'[p] = "account" /\ got'[p] = db /\ UNCHANGED <<db, last, seen>>
    BY <1>14 DEF HandleAccountEvent, mysql
  <2>2. AccLeft(p)'
    BY <2>1 DEF AccLeft
  <2>3. \A b \in Buckets : ListLeft(p, b) => ListLeft(p, b)'
    BY <2>1 DEF ListLeft, Rebuilding, Working
  <2>4. Handling(p)
    BY <2>1 DEF Handling
  <2> QED
    BY <2>1, <2>2, <2>3, <2>4, StepOfHandling
<1>15. CASE SetAccount(p)
  BY <1>15, SetAccountKnows
<1>16. CASE EventRebuilt(p)
  BY <1>16, RebuiltKnows
<1>17. CASE EventFails(p)
  BY <1>17, NothingToKnow DEF EventFails, PollEnds
<1>18. CASE SetOutboxWatermark(p)
  <2>1. pc[p] = "watermark" /\ pc'[p] \in {"cleanup", "lag"} /\ last'[p] = last[p]
    BY <1>18 DEF SetOutboxWatermark
  <2>2. Known(last[p])' \/ AllGood'
    BY <2>1, NothingLeft, KeepsKnown, KeepsAllGood DEF Known, NewRow
  <2> QED
    BY <2>1, <2>2 DEF PollKnows, AllGood
<1>19. CASE CleanupConsumedOutbox(p)
  BY <1>19, NothingToKnow DEF CleanupConsumedOutbox
<1>20. CASE CheckOutboxLag(p)
  <2>1. pc'[p] = "idle" \/ (pc'[p] = "lock" /\ job'[p] = "full")
    BY <1>20 DEF CheckOutboxLag
  <2> QED
    BY <2>1 DEF PollKnows, Handling, Rebuilding, Working
<1> QED
  BY <1>1, <1>2, <1>3, <1>4, <1>5, <1>6, <1>7, <1>8, <1>9, <1>10, <1>11, <1>12, <1>13, <1>14,
     <1>15, <1>16, <1>17, <1>18, <1>19, <1>20 DEF Moves, BuildStep, PollStep

-----------------------------------------------------------------------------
(* Changes, rows that appear and rows that go.                             *)

\* Somebody knows of the change, whatever the place it is asked from, or
\* everything is excused.
Everywhere ==
    \/ AllGood'
    \/ Announced'
    \/ \E r \in rows' : /\ r.kind = "changed" /\ r.id > watermark
                        /\ \A p \in Pollers : r.id > base[p] /\ r.id > last[p]

\* Then nothing is left to explain.
LEMMA EverywhereExplains ==
    ASSUME Everywhere, UNCHANGED <<watermark, base, last>>
    PROVE  Explained'
<1>1. CASE AllGood'
  BY <1>1 DEF Explained, PollKnows, AllGood
<1>2. CASE Announced'
  BY <1>2 DEF Explained, PollKnows, Known
<1>3. ASSUME NEW r \in rows', r.kind = "changed", r.id > watermark,
             \A p \in Pollers : r.id > base[p] /\ r.id > last[p]
      PROVE  Explained'
  <2>1. Known(watermark)' /\ \A p \in Pollers : Known(base[p])' /\ Known(last[p])'
    BY <1>3 DEF Known, NewRow
  <2> QED
    BY <2>1 DEF Explained, PollKnows
<1> QED
  BY <1>1, <1>2, <1>3 DEF Everywhere

\* A row that is inserted, or the one that has the dedup_key, is ahead of every
\* poll, unless a poll had passed it when it was inserted.
LEMMA EnqueueTells ==
    ASSUME Types, KeyedRows, KeyedAhead, NEW i \in Nat, EnqueueSchedulerOutbox(i)
    PROVE  Everywhere
<1>1. excused' = Buckets \cup {Account} => Everywhere
  BY DEF Everywhere, AllGood, GoodAcc, GoodList
<1>2. ASSUME NEW k \in Nat, [id |-> k, kind |-> "changed"] \in rows',
             k > watermark, \A p \in Pollers : k > base[p] /\ k > last[p]
      PROVE  Everywhere
  <2>1. PICK r \in rows' : r.id = k /\ r.kind = "changed"
    BY <1>2
  <2> QED
    BY <1>2, <2>1 DEF Everywhere
<1>3. CASE keyed = {}
  <2>1. [id |-> i, kind |-> "changed"] \in rows'
    BY <1>3 DEF EnqueueSchedulerOutbox
  <2>2. ~Overtaken(i) => i > watermark /\ \A p \in Pollers : i > base[p] /\ i > last[p]
    BY DEF Overtaken, Types, StoreTypes, PollTypes
  <2> QED
    BY <1>1, <1>2, <1>3, <2>1, <2>2 DEF EnqueueSchedulerOutbox
<1>4. CASE keyed # {}
  <2>1. rows' = rows /\ (excused' = Buckets \cup {Account} \/ \E k \in keyed : k \notin missed)
    BY <1>4 DEF EnqueueSchedulerOutbox
  <2>2. \A k \in keyed : k \in Nat /\ [id |-> k, kind |-> "changed"] \in rows'
    BY <2>1 DEF KeyedRows, Types, StoreTypes
  <2> QED
    BY <1>1, <1>2, <2>1, <2>2 DEF KeyedAhead
<1> QED
  BY <1>3, <1>4

\* A committed change, and the insert of its row.
LEMMA ChangesExplained ==
    ASSUME Types, KeyedRows, KeyedAhead, NEW w \in Writers,
           Change(w) \/ ChangeInTx(w) \/ ChangeUnannounced(w) \/ Enqueue(w)
    PROVE  Explained'
<1>1. UNCHANGED <<watermark, base, last>>
  BY DEF Change, ChangeInTx, ChangeUnannounced, Enqueue, redis, poll
<1>2. excused' = Buckets \cup {Account} => Everywhere
  BY DEF Everywhere, AllGood, GoodAcc, GoodList
<1>3. CASE Change(w)
  <2>1. wpc'[w] \in {"enqueue", "uncache"}
    BY <1>3 DEF Change, WGo, Types, WriterTypes
  <2>2. Announced'
    BY <2>1 DEF Announced
  <2> QED
    BY <1>1, <2>2, EverywhereExplains DEF Everywhere
<1>4. CASE ChangeInTx(w)
  <2>1. excused' = Buckets \cup {Account} \/ EnqueueSchedulerOutbox(nextId)
    BY <1>4 DEF ChangeInTx
  <2>2. nextId \in Nat
    BY DEF Types, StoreTypes
  <2> QED
    BY <1>1, <1>2, <2>1, <2>2, EnqueueTells, EverywhereExplains
<1>5. CASE Enqueue(w)
  <2>1. excused' = Buckets \cup {Account} \/ EnqueueSchedulerOutbox(wval[w])
    BY <1>5 DEF Enqueue
  <2>2. wval[w] \in Nat
    BY DEF Types, WriterTypes
  <2> QED
    BY <1>1, <1>2, <2>1, <2>2, EnqueueTells, EverywhereExplains
<1>6. CASE ChangeUnannounced(w)
  BY <1>1, <1>2, <1>6, EverywhereExplains DEF ChangeUnannounced
<1> QED
  BY <1>3, <1>4, <1>5, <1>6

\* A poll deletes no row that somebody needs: when it deletes, the rows up to
\* its last are handled, or a later row tells of the change.
LEMMA CleanupExplained ==
    ASSUME Types, Control, Explained, NEW q \in Pollers, CleanupConsumedOutbox(q)
    PROVE  Explained'
<1>1. pc[q] = "cleanup" /\ UNCHANGED <<db, acc, list, excused, wpc, watermark, base, last>>
  BY DEF CleanupConsumedOutbox, redis, writer, poll
<1>2. PICK D \in SUBSET {r \in rows : r.id <= last[q]} : rows' = rows \ D
  BY DEF CleanupConsumedOutbox
<1>3. AllGood' = AllGood /\ Announced' = Announced
  BY <1>1 DEF AllGood, GoodAcc, GoodList, Announced
<1>4. Known(last[q]) \/ AllGood
  BY <1>1, NothingLeft DEF Explained
<1>5. ASSUME NEW i \in Nat, Known(i)
      PROVE  Announced' \/ AllGood' \/ \E r \in rows' : r.kind = "changed" /\ r.id > i
  <2>1. CASE Announced \/ AllGood
    BY <1>3, <2>1
  <2>2. ASSUME NEW r \in rows, r.kind = "changed", r.id > i,
               NEW s \in rows, s.kind = "changed", s.id > last[q]
        PROVE  \E t \in rows' : t.kind = "changed" /\ t.id > i
    <3>1. r.id \in Nat /\ s.id \in Nat /\ last[q] \in Nat
      BY DEF Types, StoreTypes, PollTypes, AnyRows
    <3>2. s \in rows'
      BY <1>2, <2>2, <3>1
    <3>3. CASE r \in D
      BY <1>2, <2>2, <3>1, <3>2, <3>3
    <3>4. CASE r \notin D
      BY <1>2, <2>2, <3>4
    <3> QED
      BY <3>3, <3>4
  <2> QED
    BY <1>4, <1>5, <2>1, <2>2 DEF Known, NewRow
<1>6. Known(watermark)' \/ AllGood'
  BY <1>1, <1>3, <1>5 DEF Explained, Known, NewRow, Types, StoreTypes
<1>7. ASSUME NEW p \in Pollers PROVE PollKnows(p)'
  <2>1. CASE p = q
    <3>1. pc'[p] = "lag"
      BY <2>1 DEF CleanupConsumedOutbox, Go, Types, ProcTypes, Procs
    <3> QED
      BY <3>1, NothingToKnow
  <2>2. CASE p # q
    <3>1. UNCHANGED <<db, pc[p], batch[p], seen[p], job[p], todo[p], bucket[p], got[p], err>>
      BY <2>2 DEF CleanupConsumedOutbox, Go, Types, ProcTypes, Procs, poll, build
    <3>2. Handling(p)' = Handling(p) /\ AccLeft(p)' = AccLeft(p)
      BY <3>1 DEF Handling, AccLeft, Later, Event
    <3>3. \A b \in Buckets : ListLeft(p, b)' = ListLeft(p, b) /\ GoodList(b)' = GoodList(b)
      BY <1>1, <3>1 DEF ListLeft, GoodList
    <3>4. GoodAcc' = GoodAcc
      BY <1>1 DEF GoodAcc
    <3>5. base[p] \in Nat /\ last[p] \in Nat /\ PollKnows(p)
      BY DEF Types, PollTypes, Explained
    <3>6. Known(base[p]) => Known(base[p])' \/ AllGood'
      BY <1>1, <1>5, <3>5 DEF Known, NewRow
    <3>7. Known(last[p]) => Known(last[p])' \/ AllGood'
      BY <1>1, <1>5, <3>5 DEF Known, NewRow
    <3>8. pc'[p] = "list" => Known(base[p])' \/ AllGood'
      BY <1>3, <3>1, <3>5, <3>6 DEF PollKnows
    <3>9. Handling(p)' => \/ Known(last[p])' \/ AllGood'
                          \/ /\ GoodAcc' \/ AccLeft(p)'
                             /\ \A b \in Buckets : GoodList(b)' \/ ListLeft(p, b)'
      BY <3>2, <3>3, <3>4, <3>5, <3>7 DEF PollKnows
    <3> QED
      BY <3>8, <3>9 DEF PollKnows, AllGood
  <2> QED
    BY <2>1, <2>2
<1> QED
  BY <1>6, <1>7 DEF Explained

\* Only SetOutboxWatermark moves the watermark.
LEMMA WatermarkMoves ==
    ASSUME [Next]_vars
    PROVE  \/ watermark' = watermark
           \/ \E p \in Pollers : pc[p] = "watermark" /\ watermark' = last[p]
<1> DEFINE G == \/ watermark' = watermark
                \/ \E p \in Pollers : pc[p] = "watermark" /\ watermark' = last[p]
<1> USE DEF redis, vars
<1>1. ASSUME NEW w \in Writers, Change(w) PROVE G BY <1>1 DEF Change
<1>0a. ASSUME NEW w \in Writers, ChangeUnannounced(w) PROVE G
  BY <1>0a DEF ChangeUnannounced
<1>2. ASSUME NEW w \in Writers, ChangeInTx(w) PROVE G BY <1>2 DEF ChangeInTx
<1>3. ASSUME NEW w \in Writers, DeleteSchedulerAccountSnapshot(w) PROVE G
  BY <1>3 DEF DeleteSchedulerAccountSnapshot
<1>4. ASSUME NEW w \in Writers, AllocateId(w) PROVE G BY <1>4 DEF AllocateId
<1>5. ASSUME NEW w \in Writers, Enqueue(w) PROVE G BY <1>5 DEF Enqueue
<1>6. ASSUME NEW w \in Writers, SyncRead(w) PROVE G BY <1>6 DEF SyncRead
<1>7. ASSUME NEW w \in Writers, SyncSet(w) PROVE G BY <1>7 DEF SyncSet
<1>8. CASE TouchLastUsed BY <1>8 DEF TouchLastUsed
<1>9. ASSUME NEW x \in Procs, TryLockBucket(x) PROVE G BY <1>9 DEF TryLockBucket
<1>10. ASSUME NEW x \in Procs, LoadAccountsFromDB(x) PROVE G BY <1>10 DEF LoadAccountsFromDB
<1>11. ASSUME NEW x \in Procs, IncrVersion(x) PROVE G BY <1>11 DEF IncrVersion
<1>12. ASSUME NEW x \in Procs, WriteAccounts(x) PROVE G BY <1>12 DEF WriteAccounts
<1>13. ASSUME NEW x \in Procs, Activate(x) PROVE G BY <1>13 DEF Activate
<1>14. ASSUME NEW x \in Procs, UnlockBucket(x) PROVE G BY <1>14 DEF UnlockBucket
<1>15. ASSUME NEW x \in Procs, FullRebuildEnds(x) PROVE G BY <1>15 DEF FullRebuildEnds
<1>16. ASSUME NEW x \in Procs, SnapshotFails(x) PROVE G BY <1>16 DEF SnapshotFails
<1>17. ASSUME NEW x \in Procs, Crash(x) PROVE G BY <1>17 DEF Crash
<1>18. ASSUME NEW x \in Rebuilders, FullRebuild(x) PROVE G BY <1>18 DEF FullRebuild
<1>19. ASSUME NEW x \in Readers, ListSchedulableAccounts(x) PROVE G
  BY <1>19 DEF ListSchedulableAccounts
<1>20. ASSUME NEW p \in Pollers, GetOutboxWatermark(p) PROVE G BY <1>20 DEF GetOutboxWatermark
<1>21. ASSUME NEW p \in Pollers, ListAfterAndReleaseDedup(p) PROVE G
  BY <1>21 DEF ListAfterAndReleaseDedup
<1>22. ASSUME NEW p \in Pollers, HandleLastUsedEvent(p) PROVE G BY <1>22 DEF HandleLastUsedEvent
<1>23. ASSUME NEW p \in Pollers, UpdateLastUsed(p) PROVE G BY <1>23 DEF UpdateLastUsed
<1>24. ASSUME NEW p \in Pollers, HandleAccountEvent(p) PROVE G BY <1>24 DEF HandleAccountEvent
<1>25. ASSUME NEW p \in Pollers, SetAccount(p) PROVE G BY <1>25 DEF SetAccount
<1>26. ASSUME NEW p \in Pollers, EventRebuilt(p) PROVE G BY <1>26 DEF EventRebuilt
<1>27. ASSUME NEW p \in Pollers, EventFails(p) PROVE G BY <1>27 DEF EventFails
<1>28. ASSUME NEW p \in Pollers, SetOutboxWatermark(p) PROVE G
  BY <1>28 DEF SetOutboxWatermark, Consumed
<1>29. ASSUME NEW p \in Pollers, CleanupConsumedOutbox(p) PROVE G
  BY <1>29 DEF CleanupConsumedOutbox
<1>30. ASSUME NEW p \in Pollers, CheckOutboxLag(p) PROVE G BY <1>30 DEF CheckOutboxLag
<1>31. ASSUME NEW b \in Buckets, LockExpires(b) PROVE G BY <1>31 DEF LockExpires
<1>32. CASE UNCHANGED vars BY <1>32
<1> QED
  BY <1>0a, <1>1, <1>2, <1>3, <1>4, <1>5, <1>6, <1>7, <1>8, <1>9, <1>10, <1>11, <1>12, <1>13,
     <1>14, <1>15, <1>16, <1>17, <1>18, <1>19, <1>20, <1>21, <1>22, <1>23, <1>24, <1>25, <1>26,
     <1>27, <1>28, <1>29, <1>30, <1>31, <1>32 DEF Next, WriterStep, BuildStep, PollStep, Procs

\* Any other step: the watermark moves to the last row of a poll that has
\* nothing left to do.
LEMMA KeepsExplained ==
    ASSUME Types, Behind, Ids, Control, Explained, [Next]_vars, Keeps
    PROVE  Explained'
<1>1. ASSUME NEW p \in Pollers PROVE PollKnows(p)'
  BY MovesOrSame, MovesKnows, SameKnows DEF Explained, Ids
<1>2. Known(watermark)' \/ AllGood'
  <2>1. CASE watermark' = watermark
    BY <2>1, KeepsKnown, KeepsAllGood DEF Explained, Known, NewRow
  <2>2. ASSUME NEW p \in Pollers, pc[p] = "watermark", watermark' = last[p]
        PROVE  Known(watermark)' \/ AllGood'
    <3>1. Known(last[p]) \/ AllGood
      BY <2>2, NothingLeft DEF Explained
    <3> QED
      BY <2>2, <3>1, KeepsKnown, KeepsAllGood DEF Known, NewRow
  <2> QED
    BY <2>1, <2>2, WatermarkMoves
<1> QED
  BY <1>1, <1>2 DEF Explained

\* All steps.
LEMMA ExplainedStep ==
    ASSUME Types, Behind, Ids, Control, Explained, [Next]_vars
    PROVE  Explained'
BY KindsOfStep, ChangesExplained, CleanupExplained, KeepsExplained DEF Ids

-----------------------------------------------------------------------------
(* The theorems.                                                           *)

\* Initially nothing is cached, and nothing is stale.
LEMMA SnapshotInit ==
    ASSUME Init
    PROVE  SnapshotInv
<1>1. Types
  <2>1. StoreTypes
    BY FS_EmptySet DEF Init, StoreTypes
  <2> QED
    BY <2>1 DEF Init, Types, WriterTypes, ProcTypes, PollTypes, WLabels, Labels
<1>2. Behind
  BY DEF Init, Behind
<1>3. Ids
  BY DEF Init, Ids, RowIds, KeyedRows, BatchIds, Unique, KeyedAhead
<1>4. Control
  BY DEF Init, Control, ControlAt, Working, Procs
<1>5. Explained
  BY DEF Init, Explained, AllGood, GoodAcc, GoodList, PollKnows, Handling, Rebuilding, Working,
         Procs
<1> QED
  BY <1>1, <1>2, <1>3, <1>4, <1>5 DEF SnapshotInv

\* What Redis misses is excused, or a writer, a row or a poll still knows of
\* the change, in every state the outbox and its pollers reach.
THEOREM SnapshotInvariant == Spec => []SnapshotInv
<1>1. Init => SnapshotInv
  BY SnapshotInit
<1>2. SnapshotInv /\ [Next]_vars => SnapshotInv'
  BY TypesStep, BehindStep, IdsStep, ControlStep, ExplainedStep DEF SnapshotInv
<1> QED
  BY <1>1, <1>2, PTL DEF Spec

\* Redis serves something older than MySQL only while a change is on its way to
\* it, or after one of the races that pollOutbox, the rebuilds and the enqueue
\* leave open.
THEOREM StaleExplained == Spec => []StaleIsExplained
<1>1. SnapshotInv => StaleIsExplained
  <2> SUFFICES ASSUME SnapshotInv, ~Pending PROVE Stale \subseteq excused
    BY DEF StaleIsExplained
  <2>1. AllGood
    BY DEF SnapshotInv, Explained, Known, NewRow, Announced, Pending
  <2>2. ASSUME NEW b \in Buckets, ready[b], list[b] < db PROVE b \in excused
    BY <2>1, <2>2 DEF AllGood, GoodList, SnapshotInv, Behind, Types, StoreTypes
  <2>3. acc # 0 /\ acc < db => Account \in excused
    BY <2>1 DEF AllGood, GoodAcc, SnapshotInv, Types, StoreTypes
  <2> QED
    BY <2>2, <2>3 DEF Stale
<1> QED
  BY <1>1, SnapshotInvariant, PTL
=============================================================================

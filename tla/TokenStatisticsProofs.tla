----------------------- MODULE TokenStatisticsProofs -----------------------
(* Proofs about TokenStatistics for any number of events, counters, workers,  *)
(* loops, finalizers, failures and queue slots.                               *)
EXTENDS TokenStatistics, TLAPS

\* The members a sync will still bring to MySQL or give back: all of them while
\* it puts them back, otherwise those that are left, except the one whose
\* version it has read when that has grown since.
Covers(p, f) ==
    /\ f \in held[p]
    /\ \/ pc[p] = "requeue"
       \/ /\ pc[p] \in {"count", "version", "upsert"} /\ f \in todo[p]
          /\ pc[p] = "upsert" /\ read[p].field = f => read[p].ver >= ver[f]

\* Usage of f that MySQL does not have is in the dirty set, in a processing set
\* that was left behind, or with a sync that covers it.
Safe(f) ==
    \/ ver[f] <= mysql[f].ver
    \/ f \in dirty \cup orphans
    \/ \E p \in Procs : Covers(p, f)

\* UnsyncedIsMarked itself is not inductive: a sync that is about to delete its
\* processing set also has the field in that set.
Covered == \A f \in Fields : Safe(f)

-----------------------------------------------------------------------------
(* Type correctness, one group of variables at a time.                       *)

Reads == [field : Fields \cup {Nobody}, val : Nat, ver : Nat, at : Nat]

TPipe  == /\ unsent \subseteq Events
          /\ queue \in [Instances -> Seq(Events)]
          /\ \A i \in Instances : Len(queue[i]) <= QueueCap
          /\ job \in [Workers -> [ev : Events \cup {NoEvent}, attempt : 0..Retries]]
TRedis == count \in [Fields -> Nat] /\ ver \in [Fields -> Nat] /\ dirty \subseteq Fields
TSync  == /\ held \in [Procs -> SUBSET Fields] /\ todo \in [Procs -> SUBSET Fields]
          /\ orphans \subseteq Fields /\ err \subseteq Finalizers
          /\ lock \in Procs \cup {Nobody}
TRead  == /\ pc \in [Procs -> PCs]
          /\ read \in [Procs -> Reads]
          /\ \A p \in Procs : pc[p] \in {"version", "upsert"} => read[p].field \in Fields
TMysql == mysql \in [Fields -> [val : Nat, ver : Nat]]
TClose == /\ period \in {"OPEN", "CLOSING", "FINAL_SYNC", "PERSISTED", "DELETED"}
          /\ seen \in [Procs -> [Closing -> Nat]]
TQuota == /\ stage \in {"idle", "scan", "aggregates", "snapshot", "done"}
          /\ unscanned \subseteq Fields /\ hidden \subseteq Fields
          /\ found \subseteq Fields /\ failed \subseteq Fields
          /\ baseline \in [Fields -> Nat] /\ owed \in [Fields -> Nat]
TGhost == /\ total \in [Fields -> Nat]
          /\ gone \subseteq Fields /\ late \subseteq Fields /\ torn \subseteq Fields

LEMMA TypeParts ==
  TypeOK <=> /\ TPipe /\ TRedis /\ TSync /\ TRead /\ TMysql /\ TClose /\ TQuota /\ TGhost
             /\ faults \in 0..MaxFaults
  BY DEF TypeOK, TPipe, TRedis, TSync, TRead, TMysql, TClose, TQuota, TGhost, Reads

LEMMA TypePartsNext ==
  TypeOK' <=> /\ TPipe' /\ TRedis' /\ TSync' /\ TRead' /\ TMysql' /\ TClose' /\ TQuota' /\ TGhost'
              /\ faults' \in 0..MaxFaults
  BY DEF TypeOK, TPipe, TRedis, TSync, TRead, TMysql, TClose, TQuota, TGhost, Reads

\* A group keeps its types while its variables do not change.
LEMMA PartsUnchanged ==
  ASSUME TypeOK
  PROVE  /\ UNCHANGED pipe => TPipe'
         /\ UNCHANGED redis => TRedis'
         /\ UNCHANGED <<held, todo, orphans, err, lock>> => TSync'
         /\ UNCHANGED <<pc, read>> => TRead'
         /\ UNCHANGED mysql => TMysql'
         /\ UNCHANGED close => TClose'
         /\ UNCHANGED <<quota, scan>> => TQuota'
         /\ UNCHANGED ghosts => TGhost'
<1>1. UNCHANGED pipe => TPipe'
  BY DEF TypeOK, TPipe, pipe
<1>2. UNCHANGED <<pc, read>> => TRead'
  BY TypeParts DEF TRead
<1> QED
  BY <1>1, <1>2
     DEF TypeOK, redis, close, quota, scan, ghosts, TRedis, TSync, TMysql, TClose, TQuota, TGhost

LEMMA FaultTyped == TypeOK /\ (Fault \/ NoFault) => faults' \in 0..MaxFaults
  BY TokenStatisticsAssumption DEF TypeOK, Fault, NoFault

\* A loop that moves on without reading keeps the types.
LEMMA GoTyped ==
  ASSUME TypeOK, NEW p \in Procs, NEW to \in PCs \ {"version", "upsert"},
         pc' = [pc EXCEPT ![p] = to],
         read' = read \/ read' = [read EXCEPT ![p] = None]
  PROVE  TRead'
<1>1. pc \in [Procs -> PCs] /\ read \in [Procs -> Reads]
      /\ \A q \in Procs : pc[q] \in {"version", "upsert"} => read[q].field \in Fields
  BY TypeParts DEF TRead
<1>2. None \in Reads
  BY DEF None, Reads
<1>3. pc' \in [Procs -> PCs] /\ read' \in [Procs -> Reads]
  BY <1>1, <1>2
<1>4. ASSUME NEW q \in Procs, pc'[q] \in {"version", "upsert"}
      PROVE  read'[q].field \in Fields
  <2>1. q # p
    BY <1>1, <1>4
  <2> QED BY <1>1, <1>4, <2>1
<1> QED BY <1>3, <1>4 DEF TRead

LEMMA InitTyped == Init => TypeOK
<1> SUFFICES ASSUME Init PROVE TypeOK
  OBVIOUS
<1> USE TokenStatisticsAssumption DEF Init
<1>1. TPipe
  BY DEF TPipe
<1>2. TRead
  <2>1. None \in Reads
    BY DEF None, Reads
  <2>2. pc \in [Procs -> PCs] /\ read \in [Procs -> Reads]
    BY <2>1 DEF PCs
  <2> QED BY <2>2 DEF TRead
<1>3. TRedis /\ TSync /\ TMysql /\ TClose /\ TQuota /\ TGhost /\ faults \in 0..MaxFaults
  BY DEF TRedis, TSync, TMysql, TClose, TQuota, TGhost, Blank
<1> QED BY <1>1, <1>2, <1>3, TypeParts

\* The pipeline.
LEMMA PipeTyped ==
  ASSUME TypeOK, NEW w \in Workers,
         TryEnqueue(Home[w]) \/ Dequeue(w) \/ Add(w)
  PROVE  TypeOK'
<1> DEFINE i == Home[w]
<1>1. /\ i \in Instances /\ queue \in [Instances -> Seq(Events)]
      /\ \A j \in Instances : Len(queue[j]) <= QueueCap
      /\ job \in [Workers -> [ev : Events \cup {NoEvent}, attempt : 0..Retries]]
      /\ unsent \subseteq Events
      /\ QueueCap \in Nat /\ Retries \in Nat
  BY TokenStatisticsAssumption DEF TypeOK
<1>2. CASE TryEnqueue(i)
  <2>1. PICK e \in unsent :
          /\ unsent' = unsent \ {e}
          /\ queue' = [queue EXCEPT ![i] = IF HasRoom(i) THEN Append(@, e) ELSE @]
    BY <1>2 DEF TryEnqueue
  <2>2. queue' \in [Instances -> Seq(Events)]
    BY <1>1, <2>1
  <2>3. \A j \in Instances : Len(queue'[j]) <= QueueCap
    BY <1>1, <2>1 DEF HasRoom
  <2>4. TPipe'
    BY <1>1, <1>2, <2>1, <2>2, <2>3 DEF TPipe, TryEnqueue
  <2>5. UNCHANGED <<redis, sync, mysql, close, quota, scan, pc, faults, ghosts>>
    BY <1>2 DEF TryEnqueue
  <2> QED BY <2>4, <2>5, TypeParts, TypePartsNext, PartsUnchanged DEF sync
<1>3. CASE Dequeue(w)
  <2>1. /\ queue[i] \in Seq(Events) /\ queue[i] # <<>>
        /\ queue' = [queue EXCEPT ![i] = Tail(queue[i])]
        /\ unsent' = unsent
    BY <1>1, <1>3 DEF Dequeue
  <2>2. /\ Head(queue[i]) \in Events /\ Tail(queue[i]) \in Seq(Events)
        /\ Len(Tail(queue[i])) <= QueueCap
    BY <1>1, <2>1
  <2>3. job' \in [Workers -> [ev : Events \cup {NoEvent}, attempt : 0..Retries]]
    BY <1>1, <1>3, <2>2 DEF Dequeue
  <2>4. TPipe'
    BY <1>1, <2>1, <2>2, <2>3 DEF TPipe
  <2>5. UNCHANGED <<redis, sync, mysql, close, quota, scan, pc, faults, ghosts>>
    BY <1>3 DEF Dequeue
  <2> QED BY <2>4, <2>5, TypeParts, TypePartsNext, PartsUnchanged DEF sync
<1>4. CASE Add(w)
  <2>1. job' \in [Workers -> [ev : Events \cup {NoEvent}, attempt : 0..Retries]]
    <3>1. /\ job[w].ev \in Events \cup {NoEvent} /\ job[w].attempt \in 0..Retries
      BY <1>1
    <3>2. PICK n \in [ev : Events \cup {NoEvent}, attempt : 0..Retries] :
            job' = [job EXCEPT ![w] = n]
      <4>1. [ev |-> NoEvent, attempt |-> 0] \in [ev : Events \cup {NoEvent}, attempt : 0..Retries]
        BY <1>1
      <4>2. job[w].attempt < Retries =>
              [ev |-> job[w].ev, attempt |-> job[w].attempt + 1]
                \in [ev : Events \cup {NoEvent}, attempt : 0..Retries]
        BY <1>1, <3>1
      <4> QED BY <1>4, <4>1, <4>2 DEF Add
    <3> QED BY <1>1, <3>2
  <2>2. TPipe'
    BY <1>1, <1>4, <2>1 DEF TPipe, Add
  <2>3. job[w].ev \in Events
    BY <1>1, <1>4 DEF Add
  <2>4. ASSUME DynamicAddScript(job[w].ev) PROVE TRedis' /\ TGhost'
    <3>1. FieldsOf[job[w].ev] \subseteq Fields /\ TokensOf[job[w].ev] \in Nat
      BY <2>3, TokenStatisticsAssumption
    <3>2. /\ count \in [Fields -> Nat] /\ ver \in [Fields -> Nat] /\ dirty \subseteq Fields
          /\ total \in [Fields -> Nat] /\ late \subseteq Fields
      BY DEF TypeOK
    <3>3. /\ count' \in [Fields -> Nat] /\ ver' \in [Fields -> Nat] /\ dirty' \subseteq Fields
          /\ total' \in [Fields -> Nat] /\ late' \subseteq Fields
      BY <2>4, <3>1, <3>2 DEF DynamicAddScript
    <3>4. UNCHANGED <<gone, torn>>
      BY <1>4 DEF Add
    <3> QED BY <3>3, <3>4 DEF TRedis, TGhost, TypeOK
  <2>5. ASSUME UNCHANGED <<redis, total, late>> PROVE TRedis' /\ TGhost'
    BY <1>4, <2>5, PartsUnchanged DEF Add, ghosts
  <2>6. TRedis' /\ TGhost'
    BY <1>4, <2>4, <2>5 DEF Add
  <2>7. /\ UNCHANGED <<sync, mysql, close, quota, scan, pc>>
        /\ Fault \/ NoFault
    BY <1>4 DEF Add
  <2> QED BY <2>2, <2>6, <2>7, FaultTyped, TypePartsNext, PartsUnchanged DEF sync
<1> QED BY <1>2, <1>3, <1>4

\* The sync.
LEMMA AbortTyped ==
  ASSUME TypeOK, NEW p \in Procs, Abort(p), UNCHANGED <<held, orphans, lock>>
  PROVE  TSync' /\ TRead'
<1>1. TRead'
  BY GoTyped DEF Abort, Go, PCs, Holding
<1> QED BY <1>1 DEF Abort, TypeOK, TSync

LEMMA SyncTyped ==
  ASSUME TypeOK, NEW p \in Procs, AcquireSyncLock(p) \/ SyncStep(p)
  PROVE  TypeOK'
<1> USE DEF Go
<1>1. CASE AcquireSyncLock(p)
  <2>1. TSync'
    BY <1>1 DEF AcquireSyncLock, TypeOK, TSync
  <2>2. TRead'
    <3>1. PICK to \in {"rotate", "idle", "dirty"} : pc' = [pc EXCEPT ![p] = to]
      BY <1>1 DEF AcquireSyncLock, Return
    <3> QED BY <1>1, <3>1, GoTyped DEF AcquireSyncLock, PCs, Holding
  <2>3. TClose'
    BY <1>1 DEF AcquireSyncLock, TypeOK, TClose
  <2>4. UNCHANGED <<pipe, redis, mysql, quota, scan, ghosts>> /\ (Fault \/ NoFault)
    BY <1>1 DEF AcquireSyncLock
  <2> QED BY <2>1, <2>2, <2>3, <2>4, FaultTyped, TypePartsNext, PartsUnchanged
<1>2. CASE RotateDirtySet(p)
  <2>1. TSync' /\ TRedis' /\ TQuota'
    BY <1>2 DEF RotateDirtySet, DirtySetGoes, TypeOK, TSync, TRedis, TQuota, quota, scan
  <2>2. TRead'
    <3>1. PICK to \in {"release", "count"} : pc' = [pc EXCEPT ![p] = to]
      BY <1>2 DEF RotateDirtySet
    <3> QED BY <1>2, <3>1, GoTyped DEF RotateDirtySet, PCs, Holding
  <2>3. UNCHANGED <<pipe, mysql, close, ghosts>> /\ (Fault \/ NoFault)
    BY <1>2 DEF RotateDirtySet
  <2> QED BY <2>1, <2>2, <2>3, FaultTyped, TypePartsNext, PartsUnchanged
<1>3. CASE ReadCount(p)
  <2>1. ASSUME Abort(p) PROVE TSync' /\ TRead'
    BY <1>3, <2>1, AbortTyped DEF ReadCount
  <2>2. ASSUME NEW f \in todo[p], Go(p, "version"), UNCHANGED <<todo, err>>,
               read' = [read EXCEPT ![p] = [field |-> f, val |-> count[f],
                                            ver |-> 0, at |-> ver[f]]]
        PROVE  TSync' /\ TRead'
    <3>1. f \in Fields /\ count[f] \in Nat /\ ver[f] \in Nat
      BY DEF TypeOK
    <3>2. pc \in [Procs -> PCs] /\ read \in [Procs -> Reads]
          /\ \A q \in Procs : pc[q] \in {"version", "upsert"} => read[q].field \in Fields
      BY TypeParts DEF TRead
    <3>3. [field |-> f, val |-> count[f], ver |-> 0, at |-> ver[f]] \in Reads
      BY <3>1 DEF Reads
    <3>4. pc' \in [Procs -> PCs] /\ read' \in [Procs -> Reads]
      BY <2>2, <3>2, <3>3 DEF PCs, Holding
    <3>5. \A q \in Procs : pc'[q] \in {"version", "upsert"} => read'[q].field \in Fields
      BY <2>2, <3>1, <3>2
    <3> QED BY <1>3, <2>2, <3>4, <3>5, PartsUnchanged DEF TRead, ReadCount
  <2>3. TSync' /\ TRead'
    BY <1>3, <2>1, <2>2 DEF ReadCount
  <2>4. UNCHANGED <<pipe, redis, mysql, close, quota, scan, ghosts>> /\ (Fault \/ NoFault)
    BY <1>3 DEF ReadCount
  <2> QED BY <2>3, <2>4, FaultTyped, TypePartsNext, PartsUnchanged
<1>4. CASE ReadVersion(p)
  <2>1. ASSUME Abort(p) PROVE TSync' /\ TRead'
    BY <1>4, <2>1, AbortTyped DEF ReadVersion
  <2>2. ASSUME Go(p, "upsert"), UNCHANGED <<todo, err>>,
               read' = [read EXCEPT ![p] = [field |-> @.field, val |-> @.val,
                                            ver |-> ver[@.field], at |-> @.at]]
        PROVE  TSync' /\ TRead'
    <3>1. pc \in [Procs -> PCs] /\ read \in [Procs -> Reads]
          /\ \A q \in Procs : pc[q] \in {"version", "upsert"} => read[q].field \in Fields
      BY TypeParts DEF TRead
    <3>2. /\ read[p].field \in Fields /\ read[p].val \in Nat /\ read[p].at \in Nat
          /\ ver[read[p].field] \in Nat
      BY <1>4, <3>1 DEF ReadVersion, TypeOK, Reads
    <3>3. [field |-> read[p].field, val |-> read[p].val, ver |-> ver[read[p].field],
           at |-> read[p].at] \in Reads
      BY <3>2 DEF Reads
    <3>4. pc' \in [Procs -> PCs] /\ read' \in [Procs -> Reads]
      BY <2>2, <3>1, <3>3 DEF PCs, Holding
    <3>5. \A q \in Procs : pc'[q] \in {"version", "upsert"} => read'[q].field \in Fields
      BY <2>2, <3>1, <3>2
    <3> QED BY <1>4, <2>2, <3>4, <3>5, PartsUnchanged DEF TRead, ReadVersion
  <2>3. TSync' /\ TRead'
    BY <1>4, <2>1, <2>2 DEF ReadVersion
  <2>4. UNCHANGED <<pipe, redis, mysql, close, quota, scan, ghosts>> /\ (Fault \/ NoFault)
    BY <1>4 DEF ReadVersion
  <2> QED BY <2>3, <2>4, FaultTyped, TypePartsNext, PartsUnchanged
<1>5. CASE Upsert(p)
  <2>1. /\ read[p].field \in Fields /\ read[p].val \in Nat /\ read[p].ver \in Nat
    BY <1>5, TypeParts DEF Upsert, TRead, Reads
  <2>2. UpsertAggregate(read[p]) \/ UNCHANGED <<mysql, torn>>
    BY <1>5 DEF Upsert
  <2>3. TMysql'
    <3>1. [val |-> read[p].val, ver |-> read[p].ver] \in [val : Nat, ver : Nat]
      BY <2>1
    <3>2. mysql' = mysql
          \/ mysql' = [mysql EXCEPT ![read[p].field] = [val |-> read[p].val, ver |-> read[p].ver]]
      BY <2>2 DEF UpsertAggregate
    <3> QED BY <2>1, <3>1, <3>2 DEF TMysql, TypeOK
  <2>4. TGhost'
    BY <1>5, <2>1, <2>2 DEF Upsert, UpsertAggregate, TGhost, TypeOK
  <2>5. ASSUME Abort(p) PROVE TSync' /\ TRead'
    BY <1>5, <2>5, AbortTyped DEF Upsert
  <2>6. ASSUME ~Abort(p) PROVE TSync' /\ TRead'
    <3>1. /\ todo' = [todo EXCEPT ![p] = @ \ {read[p].field}]
          /\ read' = [read EXCEPT ![p] = None] /\ UNCHANGED err
          /\ Go(p, IF todo'[p] = {} THEN "del" ELSE "count")
      BY <1>5, <2>6 DEF Upsert
    <3>2. PICK to \in {"del", "count"} : pc' = [pc EXCEPT ![p] = to]
      BY <3>1
    <3>3. TRead'
      BY <3>1, <3>2, GoTyped DEF PCs, Holding
    <3>4. TSync'
      BY <1>5, <3>1 DEF TypeOK, TSync, Upsert
    <3> QED BY <3>3, <3>4
  <2>7. UNCHANGED <<pipe, redis, close, quota, scan>> /\ (Fault \/ NoFault)
    BY <1>5 DEF Upsert
  <2> QED BY <2>3, <2>4, <2>5, <2>6, <2>7, FaultTyped, TypePartsNext, PartsUnchanged
<1>6. CASE DelProcessing(p)
  <2>1. TSync'
    BY <1>6 DEF DelProcessing, TypeOK, TSync
  <2>2. TRead'
    BY <1>6, GoTyped DEF DelProcessing, PCs, Holding
  <2>3. UNCHANGED <<pipe, redis, mysql, close, quota, scan, ghosts>> /\ (Fault \/ NoFault)
    BY <1>6 DEF DelProcessing
  <2> QED BY <2>1, <2>2, <2>3, FaultTyped, TypePartsNext, PartsUnchanged
<1>7. CASE Requeue(p)
  <2>1. TSync' /\ TRedis'
    BY <1>7 DEF Requeue, Requeued, TypeOK, TSync, TRedis
  <2>2. TRead'
    BY <1>7, GoTyped DEF Requeue, PCs, Holding
  <2>3. UNCHANGED <<pipe, mysql, close, quota, scan, ghosts>> /\ (Fault \/ NoFault)
    BY <1>7 DEF Requeue
  <2> QED BY <2>1, <2>2, <2>3, FaultTyped, TypePartsNext, PartsUnchanged
<1>8. CASE ReleaseSyncLock(p)
  <2>1. TSync'
    BY <1>8 DEF ReleaseSyncLock, TypeOK, TSync
  <2>2. TRead'
    <3>1. PICK to \in {"idle", "dirty"} : pc' = [pc EXCEPT ![p] = to]
      BY <1>8 DEF ReleaseSyncLock, Return
    <3> QED BY <1>8, <3>1, GoTyped DEF ReleaseSyncLock, PCs, Holding
  <2>3. TClose'
    BY <1>8 DEF ReleaseSyncLock, TypeOK, TClose
  <2>4. UNCHANGED <<pipe, redis, mysql, quota, scan, ghosts>> /\ (Fault \/ NoFault)
    BY <1>8 DEF ReleaseSyncLock
  <2> QED BY <2>1, <2>2, <2>3, <2>4, FaultTyped, TypePartsNext, PartsUnchanged
<1> QED BY <1>1, <1>2, <1>3, <1>4, <1>5, <1>6, <1>7, <1>8 DEF SyncStep

\* The finalizer.
LEMMA LeaveTyped ==
  ASSUME TypeOK, NEW p \in Procs, Leave(p),
         UNCHANGED <<held, orphans, lock, read, err>>
  PROVE  TSync' /\ TRead' /\ seen' \in [Procs -> [Closing -> Nat]]
<1>1. TRead'
  BY GoTyped DEF Leave, Go, PCs, Holding
<1>2. Blank \in [Closing -> Nat]
  BY DEF Blank
<1> QED BY <1>1, <1>2 DEF Leave, TypeOK, TSync

LEMMA FinalizeTyped ==
  ASSUME TypeOK, NEW p \in Procs,
         BeginFinalize(p) \/ FinalizeStep(p) \/ FinalizeFails(p)
  PROVE  TypeOK'
<1> USE DEF Go
<1>1. CASE BeginFinalize(p)
  <2>1. TClose' /\ TRead'
    BY <1>1, GoTyped DEF BeginFinalize, TypeOK, TClose, sync, PCs, Holding
  <2> QED
    BY <1>1, <2>1, TypeParts, TypePartsNext, PartsUnchanged DEF BeginFinalize, sync
<1>2. CASE CheckPending(p)
  <2>1. PICK to \in {"idle", "sync"} : pc' = [pc EXCEPT ![p] = to]
    BY <1>2 DEF CheckPending
  <2>2. TRead'
    BY <1>2, <2>1, GoTyped DEF CheckPending, sync, PCs, Holding
  <2>3. TClose'
    BY <1>2 DEF CheckPending, TypeOK, TClose
  <2> QED
    BY <1>2, <2>2, <2>3, TypeParts, TypePartsNext, PartsUnchanged DEF CheckPending, sync
<1>3. CASE CheckDirty(p)
  <2>1. PICK to \in {"idle", "versions"} : pc' = [pc EXCEPT ![p] = to]
    BY <1>3 DEF CheckDirty
  <2>2. TRead'
    BY <1>3, <2>1, GoTyped DEF CheckDirty, sync, PCs, Holding
  <2> QED
    BY <1>3, <2>2, TypeParts, TypePartsNext, PartsUnchanged DEF CheckDirty, sync
<1>4. CASE PeriodVersions(p)
  <2>1. TRead'
    BY <1>4, GoTyped DEF PeriodVersions, PCs, Holding
  <2>2. TClose'
    <3>1. [f \in Closing |-> ver[f]] \in [Closing -> Nat]
      BY TokenStatisticsAssumption DEF TypeOK
    <3> QED BY <1>4, <3>1 DEF PeriodVersions, TypeOK, TClose
  <2>3. TSync'
    BY <1>4, TokenStatisticsAssumption DEF PeriodVersions, TypeOK, TSync
  <2> QED
    BY <1>4, <2>1, <2>2, <2>3, TypeParts, TypePartsNext, PartsUnchanged DEF PeriodVersions
<1>5. CASE VerifyPeriodVersions(p)
  <2>1. CASE Leave(p)
    <3>1. TSync' /\ TRead' /\ TClose'
      BY <1>5, <2>1, LeaveTyped DEF VerifyPeriodVersions, TypeOK, TClose
    <3> QED
      BY <1>5, <3>1, TypeParts, TypePartsNext, PartsUnchanged DEF VerifyPeriodVersions
  <2>2. CASE UNCHANGED <<seen, pc>> /\ \E f \in todo[p] : todo' = [todo EXCEPT ![p] = @ \ {f}]
    <3>1. TSync'
      BY <1>5, <2>2 DEF VerifyPeriodVersions, TypeOK, TSync
    <3> QED
      BY <1>5, <2>2, <3>1, TypeParts, TypePartsNext, PartsUnchanged
         DEF VerifyPeriodVersions, close
  <2>3. CASE Go(p, "persisted") /\ UNCHANGED <<seen, todo>>
    <3>1. TRead'
      BY <1>5, <2>3, GoTyped DEF VerifyPeriodVersions, PCs, Holding
    <3> QED
      BY <1>5, <2>3, <3>1, TypeParts, TypePartsNext, PartsUnchanged
         DEF VerifyPeriodVersions, close
  <2> QED BY <1>5, <2>1, <2>2, <2>3 DEF VerifyPeriodVersions
<1>6. CASE MarkPersisted(p)
  <2>1. PICK to \in {"deleted", "unlink"} : pc' = [pc EXCEPT ![p] = to]
    BY <1>6 DEF MarkPersisted
  <2>2. TRead'
    BY <1>6, <2>1, GoTyped DEF MarkPersisted, sync, PCs, Holding
  <2>3. TClose'
    BY <1>6 DEF MarkPersisted, TypeOK, TClose
  <2> QED
    BY <1>6, <2>2, <2>3, TypeParts, TypePartsNext, PartsUnchanged DEF MarkPersisted, sync
<1>7. CASE Unlink(p)
  <2>1. TRedis' /\ TGhost'
    <3>1. /\ count' = [f \in Fields |-> IF f \in Closing THEN 0 ELSE count[f]]
          /\ ver' = [f \in Fields |-> IF f \in Closing THEN 0 ELSE ver[f]]
          /\ gone' \subseteq gone \cup Closing /\ late' \subseteq late \cup Closing
          /\ UNCHANGED <<dirty, total, torn>>
      BY <1>7 DEF Unlink
    <3> QED BY <3>1, TokenStatisticsAssumption DEF TypeOK, TRedis, TGhost
  <2>2. ASSUME Leave(p)
        PROVE  TSync' /\ TRead' /\ seen' \in [Procs -> [Closing -> Nat]]
    BY <1>7, <2>2, LeaveTyped DEF Unlink
  <2>3. ASSUME Go(p, "deleted"), UNCHANGED <<seen, todo>>
        PROVE  TSync' /\ TRead' /\ seen' \in [Procs -> [Closing -> Nat]]
    <3>1. TRead'
      BY <1>7, <2>3, GoTyped DEF Unlink, PCs, Holding
    <3> QED BY <1>7, <2>3, <3>1, PartsUnchanged DEF Unlink, TypeOK
  <2>4. TSync' /\ TRead' /\ seen' \in [Procs -> [Closing -> Nat]]
    BY <1>7, <2>2, <2>3 DEF Unlink
  <2>5. TClose'
    BY <1>7, <2>4 DEF Unlink, TClose, TypeOK
  <2>6. UNCHANGED <<pipe, mysql, quota, scan>> /\ (Fault \/ NoFault)
    BY <1>7 DEF Unlink
  <2> QED BY <2>1, <2>4, <2>5, <2>6, FaultTyped, TypePartsNext, PartsUnchanged
<1>8. CASE MarkDeleted(p)
  <2>1. TSync' /\ TRead' /\ TClose'
    BY <1>8, LeaveTyped DEF MarkDeleted, TClose
  <2> QED BY <1>8, <2>1, TypeParts, TypePartsNext, PartsUnchanged DEF MarkDeleted
<1>9. CASE FinalizeFails(p)
  <2>1. TSync' /\ TRead' /\ TClose'
    BY <1>9, LeaveTyped DEF FinalizeFails, TypeOK, TClose
  <2>2. UNCHANGED <<pipe, redis, mysql, quota, scan, ghosts>> /\ Fault
    BY <1>9 DEF FinalizeFails
  <2> QED BY <2>1, <2>2, FaultTyped, TypePartsNext, PartsUnchanged
<1> QED
  BY <1>1, <1>2, <1>3, <1>4, <1>5, <1>6, <1>7, <1>8, <1>9 DEF FinalizeStep

\* The quota reset.
LEMMA ResetTyped ==
  ASSUME TypeOK,
         BeginScan \/ ScanCurrent \/ ListAggregateIdentities \/ Snapshot \/ ResetReturns
  PROVE  TypeOK'
<1>1. CASE BeginScan \/ ScanCurrent
  <2>0. /\ dirty \subseteq Fields /\ unscanned \subseteq Fields /\ hidden \subseteq Fields
        /\ Scope \subseteq Fields /\ found \subseteq Fields /\ failed \subseteq Fields
    BY TokenStatisticsAssumption DEF TypeOK
  <2>1. \E ahead, missed \in SUBSET Fields : SScan(ahead, missed)
    <3>1. CASE BeginScan
      <4>1. dirty \cap Scope \in SUBSET Fields /\ (Scope \cap InProcessing) \ dirty \in SUBSET Fields
        BY <2>0
      <4>2. SScan(dirty \cap Scope, (Scope \cap InProcessing) \ dirty)
        BY <3>1 DEF BeginScan
      <4> QED BY <4>1, <4>2
    <3>2. CASE ScanCurrent
      BY <2>0, <3>2 DEF ScanCurrent
    <3> QED BY <1>1, <3>1, <3>2
  <2>2. /\ stage' \in {"scan", "aggregates", "done"} /\ found' \subseteq Fields
        /\ unscanned' \subseteq Fields /\ hidden' \subseteq Fields /\ failed' \subseteq Fields
        /\ Fault \/ NoFault
    <3>1. PICK ahead \in SUBSET Fields, missed \in SUBSET Fields : SScan(ahead, missed)
      BY <2>1
    <3>2. CASE /\ Fault /\ stage' = "done" /\ failed' = Scope /\ found' = {}
               /\ unscanned' = {} /\ hidden' = {}
      BY <2>0, <3>2
    <3>3. ASSUME NEW page \in SUBSET (dirty \cap Scope), NoFault,
                 found' = found \cup page, failed' = failed,
                 unscanned' = ahead \ page, hidden' = missed \ page,
                 stage' = IF unscanned' = {} THEN "aggregates" ELSE "scan"
          PROVE  /\ stage' \in {"scan", "aggregates"} /\ found' \subseteq Fields
                 /\ unscanned' \subseteq Fields /\ hidden' \subseteq Fields
                 /\ failed' \subseteq Fields /\ NoFault
      <4>1. unscanned' \subseteq Fields /\ hidden' \subseteq Fields /\ found' \subseteq Fields
        BY <2>0, <3>1, <3>3
      <4> QED BY <2>0, <3>3, <4>1
    <3> QED BY <3>1, <3>2, <3>3 DEF SScan
  <2>3. baseline' \in [Fields -> Nat] /\ owed' \in [Fields -> Nat]
    <3>1. baseline' = baseline
          /\ (owed' = owed \/ owed' = [f \in Fields |-> IF f \in Scope THEN count[f] ELSE 0])
      BY <1>1 DEF BeginScan, ScanCurrent
    <3>2. count \in [Fields -> Nat] /\ baseline \in [Fields -> Nat] /\ owed \in [Fields -> Nat]
      BY DEF TypeOK
    <3>3. [f \in Fields |-> IF f \in Scope THEN count[f] ELSE 0] \in [Fields -> Nat]
      BY <3>2
    <3> QED BY <3>1, <3>2, <3>3
  <2>4. TQuota'
    BY <2>2, <2>3 DEF TQuota
  <2>5. UNCHANGED <<pipe, redis, sync, mysql, close, pc, ghosts>>
    BY <1>1 DEF BeginScan, ScanCurrent
  <2> QED BY <2>2, <2>4, <2>5, FaultTyped, TypePartsNext, PartsUnchanged DEF sync
<1>2. CASE ListAggregateIdentities
  <2>1. TQuota'
    BY <1>2, TokenStatisticsAssumption
       DEF ListAggregateIdentities, AggregateIdentities, TypeOK, TQuota
  <2>2. UNCHANGED <<pipe, redis, sync, mysql, close, pc, ghosts>> /\ (Fault \/ NoFault)
    BY <1>2 DEF ListAggregateIdentities
  <2> QED BY <2>1, <2>2, FaultTyped, TypePartsNext, PartsUnchanged DEF sync
<1>3. CASE Snapshot
  <2>1. TQuota'
    <3>1. /\ found' \subseteq found /\ (\E g \in found : failed' \subseteq failed \cup {g})
          /\ stage' = stage /\ owed' = owed /\ unscanned' = unscanned /\ hidden' = hidden
      BY <1>3 DEF Snapshot, scan
    <3>2. baseline' \in [Fields -> Nat]
      BY <1>3 DEF Snapshot, TypeOK
    <3> QED BY <3>1, <3>2 DEF TypeOK, TQuota
  <2>2. UNCHANGED <<pipe, redis, sync, mysql, close, pc, ghosts>> /\ (Fault \/ NoFault)
    BY <1>3 DEF Snapshot
  <2> QED BY <2>1, <2>2, FaultTyped, TypePartsNext, PartsUnchanged DEF sync
<1>4. CASE ResetReturns
  <2>1. TQuota'
    BY <1>4 DEF ResetReturns, TypeOK, TQuota, scan
  <2> QED
    BY <1>4, <2>1, TypeParts, TypePartsNext, PartsUnchanged DEF ResetReturns, sync
<1> QED BY <1>1, <1>2, <1>3, <1>4

\* Expiry and process deaths.
LEMMA DeathTyped ==
  ASSUME TypeOK, LockExpires \/ LockExpiresEarly \/ (\E i \in Instances : Crash(i))
  PROVE  TypeOK'
<1>1. CASE LockExpires
  <2>1. TSync'
    BY <1>1 DEF LockExpires, TypeOK, TSync
  <2> QED BY <1>1, <2>1, TypeParts, TypePartsNext, PartsUnchanged DEF LockExpires
<1>2. CASE LockExpiresEarly
  <2>1. TSync'
    BY <1>2 DEF LockExpiresEarly, TypeOK, TSync
  <2>2. UNCHANGED <<pipe, redis, read, mysql, close, quota, scan, pc, ghosts>> /\ Fault
    BY <1>2 DEF LockExpiresEarly
  <2> QED BY <2>1, <2>2, FaultTyped, TypePartsNext, PartsUnchanged
<1>3. ASSUME NEW i \in Instances, Crash(i) PROVE TypeOK'
  <2>1. TPipe'
    <3>1. /\ queue' \in [Instances -> Seq(Events)]
          /\ \A j \in Instances : Len(queue'[j]) <= QueueCap
      BY <1>3, TokenStatisticsAssumption DEF Crash, TypeOK
    <3>2. job' \in [Workers -> [ev : Events \cup {NoEvent}, attempt : 0..Retries]]
      BY <1>3, TokenStatisticsAssumption DEF Crash, TypeOK
    <3> QED BY <1>3, <3>1, <3>2 DEF Crash, TypeOK, TPipe
  <2>2. TSync'
    BY <1>3 DEF Crash, TypeOK, TSync
  <2>3. TRead'
    <3>1. None \in Reads
      BY DEF None, Reads
    <3>2. pc \in [Procs -> PCs] /\ read \in [Procs -> Reads]
          /\ \A q \in Procs : pc[q] \in {"version", "upsert"} => read[q].field \in Fields
      BY TypeParts DEF TRead
    <3>3. pc' \in [Procs -> PCs] /\ read' \in [Procs -> Reads]
      BY <1>3, <3>1, <3>2 DEF Crash, PCs
    <3>4. \A q \in Procs : pc'[q] \in {"version", "upsert"} => read'[q].field \in Fields
      BY <1>3, <3>2 DEF Crash
    <3> QED BY <3>3, <3>4 DEF TRead
  <2>4. TClose'
    <3>1. Blank \in [Closing -> Nat]
      BY DEF Blank
    <3> QED BY <1>3, <3>1 DEF Crash, TypeOK, TClose
  <2>5. UNCHANGED <<redis, mysql, quota, scan, ghosts>> /\ Fault
    BY <1>3 DEF Crash
  <2> QED BY <2>1, <2>2, <2>3, <2>4, <2>5, FaultTyped, TypePartsNext, PartsUnchanged
<1> QED BY <1>1, <1>2, <1>3

\* Every step keeps the types.
LEMMA StepTyped == TypeOK /\ [Next]_vars => TypeOK'
<1> SUFFICES ASSUME TypeOK, [Next]_vars PROVE TypeOK'
  OBVIOUS
<1>1. CASE UNCHANGED vars
  BY <1>1, TypeParts, TypePartsNext, PartsUnchanged DEF vars, sync
<1>2. CASE Next
  BY <1>2, PipeTyped, SyncTyped, FinalizeTyped, ResetTyped, DeathTyped DEF Next
<1> QED BY <1>1, <1>2

\* Every reachable state is of the types the code stores: queues within their
\* capacity (TryEnqueue), attempts within the retries (process), a field read
\* before its version and its upsert (readAggregate).
THEOREM Typed == Spec => []TypeOK
  BY InitTyped, StepTyped, PTL DEF Spec

-----------------------------------------------------------------------------
(* Usage that is not persisted is marked.                                    *)

\* The argument of every step of one process p: the others keep their part, so
\* only what p covered, and what was marked, has to be found again.
LEMMA SafeKept ==
  ASSUME NEW f \in Fields, NEW p \in Procs, Safe(f),
         ver'[f] = ver[f],
         \A q \in Procs \ {p} : /\ held'[q] = held[q] /\ todo'[q] = todo[q]
                                /\ read'[q] = read[q] /\ pc'[q] = pc[q],
         ver[f] <= mysql[f].ver => ver[f] <= mysql'[f].ver,
         Covers(p, f) \/ f \in dirty \cup orphans => Safe(f)'
  PROVE  Safe(f)'
<1>1. ASSUME NEW q \in Procs \ {p}, Covers(q, f) PROVE Covers(q, f)'
  BY <1>1 DEF Covers
<1> QED BY <1>1 DEF Safe

\* A process that is not in the middle of a sync, before and after its step.
LEMMA SafeAside ==
  ASSUME Covered, TypeOK, NEW p \in Procs,
         UNCHANGED <<ver, dirty, held, orphans, read, mysql>>,
         pc[p] \notin {"count", "version", "upsert", "requeue"},
         \A q \in Procs \ {p} : todo'[q] = todo[q] /\ pc'[q] = pc[q]
  PROVE  Covered'
<1> SUFFICES ASSUME NEW f \in Fields PROVE Safe(f)'
  BY DEF Covered
<1>1. ~Covers(p, f)
  BY DEF Covers
<1>2. f \in dirty \cup orphans => Safe(f)'
  BY DEF Safe
<1> QED BY <1>1, <1>2, SafeKept DEF Covered

\* A sync that fails still covers what it holds.
LEMMA SafeAbort ==
  ASSUME Covered, TypeOK, NEW p \in Procs, Abort(p),
         UNCHANGED <<ver, dirty, held, orphans>>,
         \A f \in Fields : ver[f] <= mysql[f].ver => ver[f] <= mysql'[f].ver
  PROVE  Covered'
<1> SUFFICES ASSUME NEW f \in Fields PROVE Safe(f)'
  BY DEF Covered
<1>1. /\ pc'[p] = "requeue"
      /\ \A q \in Procs \ {p} : /\ todo'[q] = todo[q] /\ read'[q] = read[q] /\ pc'[q] = pc[q]
  BY DEF Abort, Go, TypeOK
<1>2. Covers(p, f) => Covers(p, f)'
  BY <1>1 DEF Covers
<1>3. Covers(p, f) \/ f \in dirty \cup orphans => Safe(f)'
  BY <1>2 DEF Safe
<1> QED BY <1>1, <1>3, SafeKept DEF Covered

\* Versions in MySQL never go back.
LEMMA UpsertKeeps ==
  ASSUME TypeOK, NEW p \in Procs, pc[p] = "upsert", UpsertAggregate(read[p])
  PROVE  /\ \A f \in Fields : mysql[f].ver <= mysql'[f].ver
         /\ read[p].field \in Fields /\ read[p].ver <= mysql'[read[p].field].ver
<1>1. /\ read[p].field \in Fields /\ read[p].ver \in Nat
      /\ mysql \in [Fields -> [val : Nat, ver : Nat]]
  BY DEF TypeOK
<1>2. \A f \in Fields : mysql[f].ver \in Nat
  BY <1>1
<1>3. CASE Newer(read[p])
  <2>1. mysql' = [mysql EXCEPT ![read[p].field] = [val |-> read[p].val, ver |-> read[p].ver]]
    BY <1>3 DEF UpsertAggregate
  <2>2. mysql'[read[p].field].ver = read[p].ver
    BY <1>1, <2>1
  <2>3. \A f \in Fields \ {read[p].field} : mysql'[f] = mysql[f]
    BY <1>1, <2>1
  <2> QED BY <1>1, <1>2, <1>3, <2>2, <2>3 DEF Newer
<1>4. CASE ~Newer(read[p])
  BY <1>1, <1>2, <1>4 DEF UpsertAggregate, Newer
<1> QED BY <1>3, <1>4

LEMMA SafeAdd ==
  ASSUME Covered, TypeOK, NEW w \in Workers, Add(w)
  PROVE  Covered'
<1> SUFFICES ASSUME NEW f \in Fields PROVE Safe(f)'
  BY DEF Covered
<1>1. UNCHANGED <<held, todo, orphans, read, mysql, pc>>
  BY DEF Add, sync
<1>2. (ver'[f] = ver[f] /\ dirty \subseteq dirty') \/ f \in dirty'
  <2>1. ASSUME NEW e, DynamicAddScript(e)
        PROVE  (ver'[f] = ver[f] /\ dirty \subseteq dirty') \/ f \in dirty'
    BY <2>1 DEF DynamicAddScript
  <2> QED BY <2>1 DEF Add, redis
<1> QED BY <1>1, <1>2 DEF Covered, Safe, Covers

LEMMA SafeSync ==
  ASSUME Covered, TypeOK, NEW p \in Procs, AcquireSyncLock(p) \/ SyncStep(p)
  PROVE  Covered'
<1>1. CASE AcquireSyncLock(p)
  <2>1. /\ UNCHANGED <<ver, dirty, held, orphans, todo, read, mysql>>
        /\ pc[p] \in {"idle", "sync"}
    BY <1>1 DEF AcquireSyncLock, redis
  <2>2. \A q \in Procs \ {p} : pc'[q] = pc[q]
    BY <1>1 DEF AcquireSyncLock, Go, TypeOK
  <2> QED BY <2>1, <2>2, SafeAside
<1>2. CASE RotateDirtySet(p)
  <2> SUFFICES ASSUME NEW f \in Fields PROVE Safe(f)'
    BY DEF Covered
  <2>1. UNCHANGED <<ver, read, mysql>> /\ ~Covers(p, f)
    BY <1>2 DEF RotateDirtySet, Covers
  <2>2. \A q \in Procs \ {p} : held'[q] = held[q] /\ todo'[q] = todo[q] /\ pc'[q] = pc[q]
    BY <1>2 DEF RotateDirtySet, Go, TypeOK
  <2>3. ASSUME f \in dirty \cup orphans PROVE Safe(f)'
    <3>1. CASE f \in dirty' \cup orphans'
      BY <3>1 DEF Safe
    <3>2. CASE f \notin dirty' \cup orphans'
      <4>1. f \in dirty /\ held'[p] = dirty /\ todo'[p] = dirty /\ pc'[p] = "count"
        BY <1>2, <2>3, <3>2 DEF RotateDirtySet, Go, TypeOK
      <4> QED BY <4>1 DEF Safe, Covers
    <3> QED BY <3>1, <3>2
  <2> QED BY <2>1, <2>2, <2>3, SafeKept DEF Covered
<1>3. CASE ReadCount(p)
  <2>1. pc[p] = "count" /\ UNCHANGED <<ver, dirty, held, orphans, mysql>>
    BY <1>3 DEF ReadCount, redis
  <2>2. ASSUME NEW g, Go(p, "version"), UNCHANGED todo, read' = [read EXCEPT ![p] = g]
        PROVE  Covered'
    <3> SUFFICES ASSUME NEW f \in Fields PROVE Safe(f)'
      BY DEF Covered
    <3>1. /\ pc'[p] = "version"
          /\ \A q \in Procs \ {p} : read'[q] = read[q] /\ pc'[q] = pc[q]
      BY <2>2 DEF Go, TypeOK
    <3>2. Covers(p, f) => Covers(p, f)'
      BY <2>1, <2>2, <3>1 DEF Covers
    <3>3. Covers(p, f) \/ f \in dirty \cup orphans => Safe(f)'
      BY <2>1, <3>2 DEF Safe
    <3> QED BY <2>1, <2>2, <3>1, <3>3, SafeKept DEF Covered
  <2>3. CASE Abort(p)
    BY <2>1, <2>3, SafeAbort
  <2> QED BY <1>3, <2>2, <2>3 DEF ReadCount
<1>4. CASE ReadVersion(p)
  <2>1. pc[p] = "version" /\ UNCHANGED <<ver, dirty, held, orphans, mysql>>
    BY <1>4 DEF ReadVersion, redis
  <2>2. CASE Abort(p)
    BY <2>1, <2>2, SafeAbort
  <2>3. CASE ~Abort(p)
    <3> SUFFICES ASSUME NEW f \in Fields PROVE Safe(f)'
      BY DEF Covered
    <3>1. /\ UNCHANGED todo /\ pc'[p] = "upsert"
          /\ \A q \in Procs \ {p} : read'[q] = read[q] /\ pc'[q] = pc[q]
      BY <1>4, <2>3 DEF ReadVersion, Go, TypeOK
    <3>2. read'[p].field = read[p].field /\ read'[p].ver = ver[read[p].field]
      <4>1. p \in DOMAIN read
        BY DEF TypeOK
      <4>2. read'[p] = [field |-> read[p].field, val |-> read[p].val,
                        ver |-> ver[read[p].field], at |-> read[p].at]
        BY <1>4, <2>3, <4>1 DEF ReadVersion
      <4> QED BY <4>2
    <3>3. ver[f] \in Nat
      BY DEF TypeOK
    <3>4. Covers(p, f) => Covers(p, f)'
      BY <2>1, <3>1, <3>2, <3>3 DEF Covers
    <3>5. Covers(p, f) \/ f \in dirty \cup orphans => Safe(f)'
      BY <2>1, <3>4 DEF Safe
    <3> QED BY <2>1, <3>1, <3>5, SafeKept DEF Covered
  <2> QED BY <2>2, <2>3
<1>5. CASE Upsert(p)
  <2>1. /\ pc[p] = "upsert" /\ UNCHANGED <<ver, dirty, held, orphans>>
        /\ UpsertAggregate(read[p]) \/ UNCHANGED mysql
    BY <1>5 DEF Upsert, redis
  <2>2. \A f \in Fields : ver[f] \in Nat /\ mysql[f].ver \in Nat /\ mysql'[f].ver \in Nat
    <3>1. TypeOK'
      BY <1>5, SyncTyped DEF SyncStep
    <3> QED BY <3>1 DEF TypeOK
  <2>3. \A f \in Fields : ver[f] <= mysql[f].ver => ver[f] <= mysql'[f].ver
    BY <2>1, <2>2, UpsertKeeps
  <2>4. CASE Abort(p)
    BY <2>1, <2>3, <2>4, SafeAbort
  <2>5. CASE ~Abort(p)
    <3> SUFFICES ASSUME NEW f \in Fields PROVE Safe(f)'
      BY DEF Covered
    <3>1. /\ UpsertAggregate(read[p])
          /\ todo' = [todo EXCEPT ![p] = @ \ {read[p].field}]
          /\ read' = [read EXCEPT ![p] = None]
          /\ Go(p, IF todo'[p] = {} THEN "del" ELSE "count")
      BY <1>5, <2>5 DEF Upsert
    <3>2. /\ \A q \in Procs \ {p} : todo'[q] = todo[q] /\ read'[q] = read[q] /\ pc'[q] = pc[q]
          /\ todo'[p] = todo[p] \ {read[p].field}
          /\ pc'[p] = IF todo'[p] = {} THEN "del" ELSE "count"
      BY <3>1 DEF Go, TypeOK
    <3>3. ASSUME Covers(p, f) PROVE Safe(f)'
      <4>1. CASE f = read[p].field
        <5>1. ver[f] <= read[p].ver /\ read[p].ver <= mysql'[f].ver
          BY <2>1, <3>1, <3>3, <4>1, UpsertKeeps DEF Covers
        <5>2. read[p].ver \in Nat
          BY DEF TypeOK
        <5> QED BY <2>1, <2>2, <5>1, <5>2 DEF Safe
      <4>2. CASE f # read[p].field
        <5>1. f \in todo'[p] /\ f \in held'[p] /\ pc'[p] = "count"
          BY <2>1, <3>2, <3>3, <4>2 DEF Covers
        <5> QED BY <5>1 DEF Safe, Covers
      <4> QED BY <4>1, <4>2
    <3>4. f \in dirty \cup orphans => Safe(f)'
      BY <2>1 DEF Safe
    <3> QED BY <2>1, <2>3, <3>2, <3>3, <3>4, SafeKept DEF Covered
  <2> QED BY <2>4, <2>5
<1>6. CASE DelProcessing(p)
  <2> SUFFICES ASSUME NEW f \in Fields PROVE Safe(f)'
    BY DEF Covered
  <2>1. /\ UNCHANGED <<ver, dirty, todo, read, mysql>> /\ ~Covers(p, f)
        /\ orphans \subseteq orphans'
    BY <1>6 DEF DelProcessing, redis, Covers
  <2>2. \A q \in Procs \ {p} : held'[q] = held[q] /\ pc'[q] = pc[q]
    BY <1>6 DEF DelProcessing, Go, TypeOK
  <2>3. f \in dirty \cup orphans => Safe(f)'
    BY <2>1 DEF Safe
  <2> QED BY <2>1, <2>2, <2>3, SafeKept DEF Covered
<1>7. CASE Requeue(p)
  <2> SUFFICES ASSUME NEW f \in Fields PROVE Safe(f)'
    BY DEF Covered
  <2>1. /\ UNCHANGED <<ver, todo, read, mysql>>
        /\ dirty \cup orphans \cup held[p] = dirty' \cup orphans'
    BY <1>7 DEF Requeue, Requeued
  <2>2. \A q \in Procs \ {p} : held'[q] = held[q] /\ pc'[q] = pc[q]
    BY <1>7 DEF Requeue, Go, TypeOK
  <2>3. Covers(p, f) \/ f \in dirty \cup orphans => Safe(f)'
    BY <2>1 DEF Safe, Covers
  <2> QED BY <2>1, <2>2, <2>3, SafeKept DEF Covered
<1>8. CASE ReleaseSyncLock(p)
  <2>1. UNCHANGED <<ver, dirty, held, orphans, todo, read, mysql>> /\ pc[p] = "release"
    BY <1>8 DEF ReleaseSyncLock, redis
  <2>2. \A q \in Procs \ {p} : pc'[q] = pc[q]
    BY <1>8 DEF ReleaseSyncLock, Go, TypeOK
  <2> QED BY <2>1, <2>2, SafeAside
<1> QED BY <1>1, <1>2, <1>3, <1>4, <1>5, <1>6, <1>7, <1>8 DEF SyncStep

LEMMA SafeFinalize ==
  ASSUME Covered, TypeOK, NEW p \in Procs,
         BeginFinalize(p) \/ FinalizeStep(p) \/ FinalizeFails(p)
  PROVE  Covered'
<1> USE DEF Go
<1>1. CASE BeginFinalize(p)
  BY <1>1, SafeAside DEF BeginFinalize, redis, sync, TypeOK
<1>2. CASE CheckPending(p)
  BY <1>2, SafeAside DEF CheckPending, redis, sync, TypeOK
<1>3. CASE CheckDirty(p)
  BY <1>3, SafeAside DEF CheckDirty, redis, sync, TypeOK
<1>4. CASE PeriodVersions(p)
  BY <1>4, SafeAside DEF PeriodVersions, redis, TypeOK
<1>5. CASE VerifyPeriodVersions(p)
  BY <1>5, SafeAside DEF VerifyPeriodVersions, Leave, redis, TypeOK
<1>6. CASE MarkPersisted(p)
  BY <1>6, SafeAside DEF MarkPersisted, redis, sync, TypeOK
<1>7. CASE Unlink(p)
  <2> SUFFICES ASSUME NEW f \in Fields PROVE Safe(f)'
    BY DEF Covered
  <2>1. /\ UNCHANGED <<dirty, held, orphans, read, mysql>> /\ ~Covers(p, f)
        /\ ver'[f] = IF f \in Closing THEN 0 ELSE ver[f]
    BY <1>7 DEF Unlink, Covers
  <2>2. \A q \in Procs \ {p} : todo'[q] = todo[q] /\ pc'[q] = pc[q]
    BY <1>7 DEF Unlink, Leave, TypeOK
  <2>3. CASE f \in Closing
    BY <2>1, <2>3 DEF Safe, TypeOK
  <2>4. CASE f \notin Closing
    <3>1. f \in dirty \cup orphans => Safe(f)'
      BY <2>1 DEF Safe
    <3> QED BY <2>1, <2>2, <2>4, <3>1, SafeKept DEF Covered
  <2> QED BY <2>3, <2>4
<1>8. CASE MarkDeleted(p)
  BY <1>8, SafeAside DEF MarkDeleted, Leave, redis, TypeOK
<1>9. CASE FinalizeFails(p)
  BY <1>9, SafeAside DEF FinalizeFails, Leave, redis, TypeOK
<1> QED
  BY <1>1, <1>2, <1>3, <1>4, <1>5, <1>6, <1>7, <1>8, <1>9 DEF FinalizeStep

\* What a dead process covered is in a processing set that it left behind.
LEMMA SafeCrash ==
  ASSUME Covered, TypeOK, NEW i \in Instances, Crash(i)
  PROVE  Covered'
<1> SUFFICES ASSUME NEW f \in Fields PROVE Safe(f)'
  BY DEF Covered
<1>1. UNCHANGED <<ver, dirty, mysql>> /\ orphans \subseteq orphans'
  BY DEF Crash, redis
<1>2. ASSUME NEW q \in Procs, Covers(q, f) PROVE Safe(f)'
  <2>1. CASE Home[q] = i
    BY <1>2, <2>1 DEF Crash, Covers, Safe
  <2>2. CASE Home[q] # i
    <3>1. held'[q] = held[q] /\ todo'[q] = todo[q] /\ read'[q] = read[q] /\ pc'[q] = pc[q]
      BY <2>2 DEF Crash
    <3>2. Covers(q, f)'
      BY <1>1, <1>2, <3>1 DEF Covers
    <3> QED BY <3>2 DEF Safe
  <2> QED BY <2>1, <2>2
<1> QED BY <1>1, <1>2 DEF Covered, Safe

LEMMA SafeUnchanged ==
  ASSUME Covered, UNCHANGED <<ver, dirty, held, orphans, todo, read, mysql, pc>>
  PROVE  Covered'
  BY DEF Covered, Safe, Covers

LEMMA CoveredInductive == TypeOK /\ Covered /\ [Next]_vars => Covered'
<1> SUFFICES ASSUME TypeOK, Covered, [Next]_vars PROVE Covered'
  OBVIOUS
<1>1. CASE UNCHANGED vars
  BY <1>1, SafeUnchanged DEF vars, redis, sync
<1>2. ASSUME NEW w \in Workers, TryEnqueue(Home[w]) \/ Dequeue(w) \/ Add(w) PROVE Covered'
  BY <1>2, SafeAdd, SafeUnchanged DEF TryEnqueue, Dequeue, redis, sync
<1>3. CASE BeginScan \/ ScanCurrent \/ ListAggregateIdentities \/ Snapshot \/ ResetReturns
  BY <1>3, SafeUnchanged
     DEF BeginScan, ScanCurrent, ListAggregateIdentities, Snapshot, ResetReturns, redis, sync
<1>4. CASE LockExpires \/ LockExpiresEarly
  BY <1>4, SafeUnchanged DEF LockExpires, LockExpiresEarly, redis
<1> QED
  BY <1>1, <1>2, <1>3, <1>4, SafeSync, SafeFinalize, SafeCrash DEF Next

LEMMA CoveredIsMarked == TypeOK /\ Covered => UnsyncedIsMarked
<1> SUFFICES ASSUME TypeOK, Covered, NEW f \in Fields, ver[f] > mysql[f].ver
             PROVE  f \in dirty \cup InProcessing
  BY DEF UnsyncedIsMarked
<1>1. ver[f] \in Nat /\ mysql[f].ver \in Nat
  BY DEF TypeOK
<1>2. f \in dirty \cup orphans \/ \E p \in Procs : f \in held[p]
  BY <1>1 DEF Covered, Safe, Covers
<1>3. ASSUME NEW p \in Procs, f \in held[p] PROVE f \in UNION {held[q] : q \in Procs}
  <2>1. held[p] \in {held[q] : q \in Procs}
    OBVIOUS
  <2> QED BY <1>3, <2>1
<1>4. f \in dirty \/ f \in orphans \/ f \in UNION {held[q] : q \in Procs}
  BY <1>2, <1>3
<1> QED BY <1>4 DEF InProcessing

\* However many syncs overlap, fail half way or die, usage that MySQL does not
\* have is marked in the dirty set or in a processing set (dynamicAddScript,
\* rotateDirtySet, requeueDirtySet).
THEOREM UsageIsMarked == Spec => []UnsyncedIsMarked
<1>1. Init => Covered
  BY DEF Init, Covered, Safe
<1> QED
  BY <1>1, InitTyped, StepTyped, CoveredInductive, CoveredIsMarked, PTL DEF Spec

-----------------------------------------------------------------------------
(* What a version stands for.  A counter that was never deleted has one value  *)
(* per version, and a larger one with a larger version; so has every row and   *)
(* every read of it that is still under way.  late is the exception: a counter *)
(* that was deleted and begun again, or deleted too early.                     *)

\* A counter that is in Redis for the first time has all its tokens, and a row
\* that is not torn is one of its values; a deleted one is in MySQL.
RowTrue(f) ==
    IF f \in gone
      THEN ver[f] = 0 /\ (f \notin torn => mysql[f].val = total[f])
      ELSE /\ total[f] = count[f]
           /\ mysql[f].ver <= ver[f] /\ mysql[f].val <= count[f]
           /\ f \notin torn /\ mysql[f].ver = ver[f] => mysql[f].val = count[f]

Reading(p, f) == pc[p] \in {"version", "upsert"} /\ read[p].field = f

\* What a sync has read is a value the counter had at version "at"; it is not
\* older than a row with a smaller version, and nothing is left to write for a
\* counter that was deleted.
ReadTrue(p, f) ==
    /\ f \notin gone => /\ read[p].at <= ver[f] /\ read[p].val <= count[f]
                        /\ read[p].at = ver[f] => read[p].val = count[f]
    /\ mysql[f].ver <= read[p].at => mysql[f].val <= read[p].val
    /\ pc[p] = "upsert" =>
          /\ read[p].at <= read[p].ver
          /\ read[p].ver <= (IF f \in gone THEN mysql[f].ver ELSE ver[f])

\* Of two reads of a counter, the one at the larger version has the larger value.
Ordered(p, q) == read[p].at <= read[q].at => read[p].val <= read[q].val

ValuesTrue ==
    \A f \in Fields \ late :
        /\ RowTrue(f)
        /\ \A p \in Procs : Reading(p, f) =>
              /\ ReadTrue(p, f)
              /\ \A q \in Procs : Reading(q, f) => Ordered(p, q)

\* What a finalizer has verified is still true: versions in MySQL only grow.
VerifiedTrue ==
    \A p \in Procs : \A f \in Closing :
        /\ pc[p] = "verify" => f \in todo[p] \/ seen[p][f] <= mysql[f].ver
        /\ pc[p] \in {"persisted", "unlink"} => seen[p][f] <= mysql[f].ver

\* Only counters of the period that is finalized are deleted, value and version.
DeletedWhole == gone \subseteq Closing /\ \A f \in Fields : ver[f] = 0 => count[f] = 0

\* What a quota reset owes is not lost between its steps.
ResetTrue ==
    \A f \in Scope :
        /\ owed[f] <= count[f]
        /\ stage = "idle" => owed[f] = 0
        /\ stage \in {"scan", "aggregates"} =>
              owed[f] = 0 \/ f \in found \cup hidden \cup unscanned \/ mysql[f].ver # 0
        /\ stage # "scan" => f \notin unscanned
        /\ stage \in {"snapshot", "done"} =>
              owed[f] = 0 \/ f \in found \cup failed \cup hidden \/ owed[f] <= baseline[f]
        /\ stage = "done" => f \notin found \/ f \in failed

HistoryInv == TypeOK /\ Covered /\ ValuesTrue /\ VerifiedTrue /\ DeletedWhole /\ ResetTrue

\* Numbers that are read of a row, a counter or a sync are natural numbers.
LEMMA Numbers ==
  ASSUME TypeOK
  PROVE  /\ \A f \in Fields : /\ count[f] \in Nat /\ ver[f] \in Nat /\ total[f] \in Nat
                              /\ mysql[f].val \in Nat /\ mysql[f].ver \in Nat
                              /\ owed[f] \in Nat /\ baseline[f] \in Nat
         /\ \A p \in Procs : read[p].val \in Nat /\ read[p].ver \in Nat /\ read[p].at \in Nat
         /\ \A p \in Procs : \A f \in Closing : seen[p][f] \in Nat
<1>1. /\ count \in [Fields -> Nat] /\ ver \in [Fields -> Nat] /\ total \in [Fields -> Nat]
      /\ mysql \in [Fields -> [val : Nat, ver : Nat]]
      /\ owed \in [Fields -> Nat] /\ baseline \in [Fields -> Nat]
      /\ read \in [Procs -> [field : Fields \cup {Nobody}, val : Nat, ver : Nat, at : Nat]]
      /\ seen \in [Procs -> [Closing -> Nat]]
  BY DEF TypeOK
<1> QED BY <1>1

\* A step that changes no value, row or history, and after which only syncs
\* that were reading before are reading.
LEMMA ValuesQuiet ==
  ASSUME ValuesTrue, UNCHANGED <<count, ver, mysql, total, gone, late, torn>>,
         \A q \in Procs : pc'[q] \in {"version", "upsert"} =>
                             pc'[q] = pc[q] /\ read'[q] = read[q]
  PROVE  ValuesTrue'
<1> SUFFICES ASSUME NEW f \in Fields \ late
             PROVE  /\ RowTrue(f)'
                    /\ \A p \in Procs : Reading(p, f)' =>
                          /\ ReadTrue(p, f)'
                          /\ \A q \in Procs : Reading(q, f)' => Ordered(p, q)'
  BY DEF ValuesTrue
<1>1. RowTrue(f)'
  BY DEF ValuesTrue, RowTrue
<1>2. ASSUME NEW p \in Procs, Reading(p, f)'
      PROVE  Reading(p, f) /\ read'[p] = read[p] /\ pc'[p] = pc[p]
  BY <1>2 DEF Reading
<1>3. ASSUME NEW p \in Procs, Reading(p, f)' PROVE ReadTrue(p, f)'
  BY <1>2, <1>3 DEF ValuesTrue, ReadTrue
<1>4. ASSUME NEW p \in Procs, Reading(p, f)', NEW q \in Procs, Reading(q, f)'
      PROVE  Ordered(p, q)'
  BY <1>2, <1>4 DEF ValuesTrue, Ordered
<1> QED BY <1>1, <1>3, <1>4

\* dynamicAddScript: the new version is larger than every one in a row or a
\* read, and the new value not smaller; a deleted counter becomes late.
LEMMA ValuesAdd ==
  ASSUME TypeOK, ValuesTrue, NEW w \in Workers, Add(w)
  PROVE  ValuesTrue'
<1>1. UNCHANGED <<mysql, gone, torn, read, pc>>
  BY DEF Add, sync
<1>2. CASE UNCHANGED <<redis, total, late>>
  BY <1>1, <1>2, ValuesQuiet DEF redis
<1>3. ASSUME NEW e \in Events, DynamicAddScript(e) PROVE ValuesTrue'
  <2> SUFFICES ASSUME NEW f \in Fields \ late'
               PROVE  /\ RowTrue(f)'
                      /\ \A p \in Procs : Reading(p, f)' =>
                            /\ ReadTrue(p, f)'
                            /\ \A q \in Procs : Reading(q, f)' => Ordered(p, q)'
    BY DEF ValuesTrue
  <2>1. f \notin late
    BY <1>3 DEF DynamicAddScript
  <2>2. TokensOf[e] \in Nat
    BY TokenStatisticsAssumption
  <2>3. PICK n \in Nat :
          \/ /\ f \notin gone /\ count'[f] = count[f] + n /\ total'[f] = total[f] + n
             /\ ver'[f] = ver[f] + 1
          \/ count'[f] = count[f] /\ total'[f] = total[f] /\ ver'[f] = ver[f]
    BY <1>3, <2>2 DEF DynamicAddScript
  <2>4. RowTrue(f)'
    BY <1>1, <2>1, <2>3, Numbers DEF ValuesTrue, RowTrue
  <2>5. ASSUME NEW p \in Procs, Reading(p, f)' PROVE Reading(p, f) /\ ReadTrue(p, f)'
    <3>1. Reading(p, f) /\ ReadTrue(p, f)
      BY <1>1, <2>1, <2>5 DEF Reading, ValuesTrue
    <3> QED BY <1>1, <2>3, <3>1, Numbers DEF ReadTrue
  <2>6. ASSUME NEW p \in Procs, Reading(p, f)', NEW q \in Procs, Reading(q, f)'
        PROVE  Ordered(p, q)'
    BY <1>1, <2>1, <2>5, <2>6 DEF ValuesTrue, Ordered
  <2> QED BY <2>4, <2>5, <2>6
<1>4. job[w].ev \in Events
  BY DEF Add, TypeOK
<1> QED BY <1>2, <1>3, <1>4 DEF Add

\* What all syncs but p have read stays true while rows and counters stay.
LEMMA OthersQuiet ==
  ASSUME TypeOK, ValuesTrue, NEW p \in Procs, NEW f \in Fields \ late,
         UNCHANGED <<count, ver, mysql, gone, late>>,
         \A q \in Procs \ {p} : pc'[q] = pc[q] /\ read'[q] = read[q]
  PROVE  \A q \in Procs \ {p} : Reading(q, f)' =>
            /\ Reading(q, f) /\ ReadTrue(q, f) /\ ReadTrue(q, f)'
            /\ \A s \in Procs \ {p} : Reading(s, f)' => Ordered(q, s)'
<1>1. ASSUME NEW q \in Procs \ {p}, Reading(q, f)'
      PROVE  Reading(q, f) /\ ReadTrue(q, f) /\ ReadTrue(q, f)'
  <2>1. Reading(q, f)
    BY <1>1 DEF Reading
  <2>2. ReadTrue(q, f)
    BY <2>1 DEF ValuesTrue
  <2> QED BY <2>1, <2>2 DEF ReadTrue
<1>2. ASSUME NEW q \in Procs \ {p}, Reading(q, f)', NEW s \in Procs \ {p}, Reading(s, f)'
      PROVE  Ordered(q, s)'
  BY <1>1, <1>2 DEF ValuesTrue, Ordered
<1> QED BY <1>1, <1>2

\* readAggregate reads the value, at a version, that is the newest there is.
LEMMA ValuesReadCount ==
  ASSUME TypeOK, ValuesTrue, NEW p \in Procs, ReadCount(p)
  PROVE  ValuesTrue'
<1>1. UNCHANGED <<count, ver, mysql, total, gone, late, torn>>
  BY DEF ReadCount, redis, ghosts
<1>2. CASE Abort(p)
  BY <1>1, <1>2, ValuesQuiet DEF Abort, Go, TypeOK
<1>3. ASSUME NEW g \in todo[p], ver[g] # 0, Go(p, "version"),
             read' = [read EXCEPT ![p] = [field |-> g, val |-> count[g],
                                          ver |-> 0, at |-> ver[g]]]
      PROVE  ValuesTrue'
  <2> SUFFICES ASSUME NEW f \in Fields \ late
               PROVE  /\ RowTrue(f)'
                      /\ \A q \in Procs : Reading(q, f)' =>
                            /\ ReadTrue(q, f)'
                            /\ \A s \in Procs : Reading(s, f)' => Ordered(q, s)'
    BY <1>1 DEF ValuesTrue
  <2>1. /\ pc'[p] = "version" /\ read'[p].field = g /\ read'[p].val = count[g]
        /\ read'[p].at = ver[g]
        /\ \A q \in Procs \ {p} : pc'[q] = pc[q] /\ read'[q] = read[q]
    BY <1>3 DEF Go, TypeOK
  <2>2. RowTrue(f) /\ RowTrue(f)'
    BY <1>1 DEF ValuesTrue, RowTrue
  <2>3. \A q \in Procs \ {p} : Reading(q, f)' =>
            /\ Reading(q, f) /\ ReadTrue(q, f) /\ ReadTrue(q, f)'
            /\ \A s \in Procs \ {p} : Reading(s, f)' => Ordered(q, s)'
    BY <1>1, <2>1, OthersQuiet
  <2>4. ASSUME Reading(p, f)'
        PROVE  /\ ReadTrue(p, f)' /\ f = g /\ f \notin gone
               /\ \A q \in Procs \ {p} : Reading(q, f)' => Ordered(p, q)' /\ Ordered(q, p)'
               /\ Ordered(p, p)'
    <3>1. f = g /\ f \notin gone
      BY <1>3, <2>1, <2>2, <2>4 DEF Reading, RowTrue
    <3>2. ReadTrue(p, f)'
      BY <1>1, <2>1, <2>2, <3>1, Numbers DEF ReadTrue, RowTrue
    <3>3. ASSUME NEW q \in Procs \ {p}, Reading(q, f)' PROVE Ordered(p, q)' /\ Ordered(q, p)'
      <4>1. ReadTrue(q, f) /\ read'[q] = read[q]
        BY <2>1, <2>3, <3>3
      <4>2. read[q].at <= ver[f] /\ read[q].val <= count[f]
            /\ (read[q].at = ver[f] => read[q].val = count[f])
        BY <3>1, <4>1 DEF ReadTrue
      <4>3. read[q].at \in Nat /\ read[q].val \in Nat /\ ver[f] \in Nat /\ count[f] \in Nat
        BY Numbers
      <4> QED BY <2>1, <3>1, <4>1, <4>2, <4>3 DEF Ordered
    <3>4. Ordered(p, p)'
      BY <2>1, <3>1, Numbers DEF Ordered
    <3> QED BY <3>1, <3>2, <3>3, <3>4
  <2> QED BY <2>2, <2>3, <2>4
<1> QED BY <1>2, <1>3 DEF ReadCount

\* ... and then a version, which is not older than the value.
LEMMA ValuesReadVersion ==
  ASSUME TypeOK, ValuesTrue, NEW p \in Procs, ReadVersion(p)
  PROVE  ValuesTrue'
<1>1. UNCHANGED <<count, ver, mysql, total, gone, late, torn>> /\ pc[p] = "version"
  BY DEF ReadVersion, redis, ghosts
<1>2. CASE Abort(p)
  BY <1>1, <1>2, ValuesQuiet DEF Abort, Go, TypeOK
<1>3. ASSUME ver[read[p].field] # 0, Go(p, "upsert"),
             read' = [read EXCEPT ![p] = [field |-> @.field, val |-> @.val,
                                          ver |-> ver[@.field], at |-> @.at]]
      PROVE  ValuesTrue'
  <2> SUFFICES ASSUME NEW f \in Fields \ late
               PROVE  /\ RowTrue(f)'
                      /\ \A q \in Procs : Reading(q, f)' =>
                            /\ ReadTrue(q, f)'
                            /\ \A s \in Procs : Reading(s, f)' => Ordered(q, s)'
    BY <1>1 DEF ValuesTrue
  <2>1. /\ pc'[p] = "upsert" /\ read'[p].field = read[p].field
        /\ read'[p].val = read[p].val /\ read'[p].at = read[p].at
        /\ read'[p].ver = ver[read[p].field]
        /\ \A q \in Procs \ {p} : pc'[q] = pc[q] /\ read'[q] = read[q]
    BY <1>3 DEF Go, TypeOK
  <2>2. RowTrue(f) /\ RowTrue(f)'
    BY <1>1 DEF ValuesTrue, RowTrue
  <2>3. \A q \in Procs : Reading(q, f)' => Reading(q, f)
    BY <1>1, <2>1 DEF Reading
  <2>4. ASSUME NEW q \in Procs, Reading(q, f)', NEW s \in Procs, Reading(s, f)'
        PROVE  Ordered(q, s)'
    <3>1. Ordered(q, s)
      BY <2>3, <2>4 DEF ValuesTrue
    <3>2. /\ read'[q].at = read[q].at /\ read'[q].val = read[q].val
          /\ read'[s].at = read[s].at /\ read'[s].val = read[s].val
      BY <2>1
    <3> QED BY <3>1, <3>2 DEF Ordered
  <2>5. ASSUME Reading(p, f)' PROVE ReadTrue(p, f)'
    <3>1. Reading(p, f) /\ ReadTrue(p, f) /\ read[p].field = f
      BY <2>3, <2>5 DEF ValuesTrue, Reading
    <3>2. f \notin gone
      BY <1>3, <2>2, <3>1 DEF RowTrue
    <3> QED BY <1>1, <2>1, <3>1, <3>2, Numbers DEF ReadTrue
  <2>6. ASSUME NEW q \in Procs \ {p}, Reading(q, f)' PROVE ReadTrue(q, f)'
    BY <1>1, <2>1, <2>6, OthersQuiet
  <2> QED BY <2>2, <2>4, <2>5, <2>6
<1> QED BY <1>2, <1>3 DEF ReadVersion

\* A row is written from a read that is newer than it: no other read is older
\* than the new row and not smaller, and of a deleted counter nothing is newer.
LEMMA ValuesUpsert ==
  ASSUME TypeOK, ValuesTrue, NEW p \in Procs, Upsert(p)
  PROVE  ValuesTrue'
<1> DEFINE g == read[p].field
<1>1. /\ UNCHANGED <<count, ver, total, gone, late>> /\ pc[p] = "upsert" /\ g \in Fields
      /\ pc'[p] \notin {"version", "upsert"}
      /\ \A q \in Procs \ {p} : pc'[q] = pc[q] /\ read'[q] = read[q]
  BY DEF Upsert, Abort, Go, redis, TypeOK
<1>2. CASE UNCHANGED <<mysql, torn>>
  BY <1>1, <1>2, ValuesQuiet
<1>3. CASE UpsertAggregate(read[p]) /\ Newer(read[p])
  <2>1. /\ mysql' = [mysql EXCEPT ![g] = [val |-> read[p].val, ver |-> read[p].ver]]
        /\ torn' = IF read[p].at = read[p].ver THEN torn \ {g} ELSE torn \cup {g}
        /\ read[p].ver > mysql[g].ver
    BY <1>3 DEF UpsertAggregate, Newer
  <2>2. mysql'[g].val = read[p].val /\ mysql'[g].ver = read[p].ver
        /\ \A f \in Fields \ {g} : mysql'[f] = mysql[f] /\ (f \in torn' <=> f \in torn)
    BY <1>1, <2>1 DEF TypeOK
  <2> SUFFICES ASSUME NEW f \in Fields \ late
               PROVE  /\ RowTrue(f)'
                      /\ \A q \in Procs : Reading(q, f)' =>
                            /\ ReadTrue(q, f)'
                            /\ \A s \in Procs : Reading(s, f)' => Ordered(q, s)'
    BY <1>1 DEF ValuesTrue
  <2>3. \A q \in Procs : Reading(q, f)' =>
          q # p /\ Reading(q, f) /\ ReadTrue(q, f) /\ read'[q] = read[q] /\ pc'[q] = pc[q]
    BY <1>1 DEF Reading, ValuesTrue
  <2>4. ASSUME NEW q \in Procs, Reading(q, f)', NEW s \in Procs, Reading(s, f)'
        PROVE  Ordered(q, s)'
    BY <2>3, <2>4 DEF ValuesTrue, Ordered
  <2>5. CASE f # g
    <3>1. RowTrue(f)'
      BY <1>1, <2>2, <2>5 DEF ValuesTrue, RowTrue
    <3>2. ASSUME NEW q \in Procs, Reading(q, f)' PROVE ReadTrue(q, f)'
      BY <1>1, <2>2, <2>3, <2>5, <3>2 DEF ReadTrue
    <3> QED BY <2>4, <3>1, <3>2
  <2>6. CASE f = g
    <3>1. Reading(p, f) /\ ReadTrue(p, f) /\ RowTrue(f)
      BY <1>1, <2>6 DEF Reading, ValuesTrue
    <3>2. f \notin gone
      BY <1>1, <2>1, <2>6, <3>1, Numbers DEF ReadTrue
    <3>3. /\ read[p].at <= ver[f] /\ read[p].val <= count[f]
          /\ read[p].at = ver[f] => read[p].val = count[f]
          /\ read[p].at <= read[p].ver /\ read[p].ver <= ver[f]
      BY <1>1, <3>1, <3>2 DEF ReadTrue
    <3>4. RowTrue(f)'
      BY <1>1, <2>1, <2>2, <2>6, <3>1, <3>2, <3>3, Numbers DEF RowTrue
    <3>5. ASSUME NEW q \in Procs, Reading(q, f)' PROVE ReadTrue(q, f)'
      <4>1. Ordered(p, q) /\ ReadTrue(q, f) /\ read'[q] = read[q] /\ pc'[q] = pc[q]
        BY <2>3, <3>1, <3>5 DEF ValuesTrue
      <4>2. mysql'[f].ver <= read[q].at => mysql'[f].val <= read[q].val
        BY <1>1, <2>2, <2>6, <3>3, <4>1, Numbers DEF Ordered
      <4> QED BY <1>1, <3>2, <4>1, <4>2 DEF ReadTrue
    <3> QED BY <2>4, <3>4, <3>5
  <2> QED BY <2>5, <2>6
<1> QED BY <1>2, <1>3 DEF Upsert, UpsertAggregate

\* UNLINK: a counter whose versions were verified and did not change since has
\* its last value in MySQL.
LEMMA ValuesUnlink ==
  ASSUME TypeOK, ValuesTrue, VerifiedTrue, DeletedWhole, NEW p \in Procs, Unlink(p)
  PROVE  ValuesTrue'
<1>1. /\ UNCHANGED <<mysql, total, torn, read>> /\ pc[p] = "unlink"
      /\ pc'[p] \notin {"version", "upsert"}
      /\ \A q \in Procs \ {p} : pc'[q] = pc[q]
  BY DEF Unlink, Leave, Go, TypeOK
<1>2. /\ \A f \in Fields : /\ count'[f] = IF f \in Closing THEN 0 ELSE count[f]
                           /\ ver'[f] = IF f \in Closing THEN 0 ELSE ver[f]
      /\ gone' = gone \cup {f \in Closing : ver[f] # 0}
      /\ late' = late \cup {f \in Closing : ver[f] # seen[p][f] /\ ver[f] # 0}
  BY DEF Unlink
<1> SUFFICES ASSUME NEW f \in Fields \ late'
             PROVE  /\ RowTrue(f)'
                    /\ \A q \in Procs : Reading(q, f)' =>
                          /\ ReadTrue(q, f)'
                          /\ \A s \in Procs : Reading(s, f)' => Ordered(q, s)'
  BY DEF ValuesTrue
<1>3. f \notin late /\ RowTrue(f)
  BY <1>2 DEF ValuesTrue
<1>4. \A q \in Procs : Reading(q, f)' =>
        Reading(q, f) /\ ReadTrue(q, f) /\ read'[q] = read[q] /\ pc'[q] = pc[q]
  BY <1>1, <1>3 DEF Reading, ValuesTrue
<1>5. ASSUME NEW q \in Procs, Reading(q, f)', NEW s \in Procs, Reading(s, f)'
      PROVE  Ordered(q, s)'
  BY <1>3, <1>4, <1>5 DEF ValuesTrue, Ordered
<1>6. CASE f \in Closing /\ ver[f] # 0
  <2>1. /\ f \notin gone /\ f \in gone' /\ ver'[f] = 0
        /\ seen[p][f] = ver[f] /\ seen[p][f] <= mysql[f].ver
    BY <1>1, <1>2, <1>3, <1>6 DEF RowTrue, VerifiedTrue
  <2>2. mysql[f].ver = ver[f]
    BY <1>3, <2>1, Numbers DEF RowTrue
  <2>3. RowTrue(f)'
    BY <1>1, <1>3, <2>1, <2>2 DEF RowTrue
  <2>4. ASSUME NEW q \in Procs, Reading(q, f)' PROVE ReadTrue(q, f)'
    BY <1>1, <1>4, <2>1, <2>2, <2>4 DEF ReadTrue
  <2> QED BY <1>5, <2>3, <2>4
<1>7. CASE ~(f \in Closing /\ ver[f] # 0)
  <2>1. (f \in gone' <=> f \in gone) /\ ver'[f] = ver[f] /\ count'[f] = count[f]
    BY <1>2, <1>7 DEF DeletedWhole
  <2>2. RowTrue(f)'
    BY <1>1, <1>3, <2>1 DEF RowTrue
  <2>3. ASSUME NEW q \in Procs, Reading(q, f)' PROVE ReadTrue(q, f)'
    BY <1>1, <1>4, <2>1, <2>3 DEF ReadTrue
  <2> QED BY <1>5, <2>2, <2>3
<1> QED BY <1>6, <1>7

\* A step after which only processes that were reading before are reading.
Unread == \A q \in Procs : pc'[q] \in {"version", "upsert"} =>
                              pc'[q] = pc[q] /\ read'[q] = read[q]

LEMMA ValuesStep ==
  ASSUME HistoryInv, [Next]_vars
  PROVE  ValuesTrue'
<1> USE DEF HistoryInv
<1>q. ASSUME Unread, UNCHANGED <<count, ver, mysql, total, gone, late, torn>>
      PROVE  ValuesTrue'
  BY <1>q, ValuesQuiet DEF Unread
<1> USE DEF redis, ghosts, Go
<1>1. CASE UNCHANGED vars
  BY <1>1, <1>q DEF vars, sync, Unread
<1>2. ASSUME NEW w \in Workers, TryEnqueue(Home[w]) \/ Dequeue(w) \/ Add(w) PROVE ValuesTrue'
  BY <1>2, <1>q, ValuesAdd DEF TryEnqueue, Dequeue, sync, Unread
<1>3. ASSUME NEW p \in Procs, AcquireSyncLock(p) \/ SyncStep(p) PROVE ValuesTrue'
  <2>1. CASE AcquireSyncLock(p)
    BY <2>1, <1>q DEF AcquireSyncLock, Return, Unread, TypeOK
  <2>2. CASE RotateDirtySet(p)
    BY <2>2, <1>q DEF RotateDirtySet, Unread, TypeOK
  <2>3. CASE DelProcessing(p) \/ Requeue(p)
    BY <2>3, <1>q DEF DelProcessing, Requeue, Unread, TypeOK
  <2>4. CASE ReleaseSyncLock(p)
    BY <2>4, <1>q DEF ReleaseSyncLock, Return, Unread, TypeOK
  <2> QED BY <1>3, <2>1, <2>2, <2>3, <2>4, ValuesReadCount, ValuesReadVersion,
             ValuesUpsert DEF SyncStep
<1>4. ASSUME NEW p \in Procs, BeginFinalize(p) \/ FinalizeStep(p) \/ FinalizeFails(p)
      PROVE  ValuesTrue'
  <2>1. CASE BeginFinalize(p) \/ CheckPending(p) \/ CheckDirty(p) \/ MarkPersisted(p)
    BY <2>1, <1>q DEF BeginFinalize, CheckPending, CheckDirty, MarkPersisted, sync, Unread, TypeOK
  <2>2. CASE PeriodVersions(p) \/ VerifyPeriodVersions(p) \/ MarkDeleted(p) \/ FinalizeFails(p)
    BY <2>2, <1>q DEF PeriodVersions, VerifyPeriodVersions, MarkDeleted, FinalizeFails,
       Leave, Unread, TypeOK
  <2> QED BY <1>4, <2>1, <2>2, ValuesUnlink DEF FinalizeStep
<1>5. CASE BeginScan \/ ScanCurrent \/ ListAggregateIdentities \/ Snapshot \/ ResetReturns
  BY <1>5, <1>q DEF BeginScan, ScanCurrent, ListAggregateIdentities, Snapshot, ResetReturns,
                  sync, Unread
<1>6. CASE LockExpires \/ LockExpiresEarly
  BY <1>6, <1>q DEF LockExpires, LockExpiresEarly, Unread
<1>7. ASSUME NEW i \in Instances, Crash(i) PROVE ValuesTrue'
  BY <1>7, <1>q DEF Crash, Unread
<1> QED BY <1>1, <1>2, <1>3, <1>4, <1>5, <1>6, <1>7 DEF Next

\* Only Upsert writes rows.
LEMMA OnlyUpsertWrites ==
  ASSUME [Next]_vars
  PROVE  UNCHANGED mysql \/ \E p \in Procs : Upsert(p)
<1>1. ASSUME NEW p \in Procs, ~Upsert(p),
             AcquireSyncLock(p) \/ SyncStep(p) \/ BeginFinalize(p) \/ FinalizeStep(p)
             \/ FinalizeFails(p)
      PROVE  UNCHANGED mysql
  BY <1>1 DEF AcquireSyncLock, SyncStep, RotateDirtySet, ReadCount, ReadVersion, DelProcessing,
     Requeue, ReleaseSyncLock, BeginFinalize, FinalizeStep, CheckPending, CheckDirty,
     PeriodVersions, VerifyPeriodVersions, MarkPersisted, Unlink, MarkDeleted, FinalizeFails
<1>2. ASSUME NEW w \in Workers, TryEnqueue(Home[w]) \/ Dequeue(w) \/ Add(w)
      PROVE  UNCHANGED mysql
  BY <1>2 DEF TryEnqueue, Dequeue, Add
<1>3. ASSUME \/ BeginScan \/ ScanCurrent \/ ListAggregateIdentities \/ Snapshot \/ ResetReturns
             \/ LockExpires \/ LockExpiresEarly \/ (\E i \in Instances : Crash(i))
      PROVE  UNCHANGED mysql
  BY <1>3 DEF BeginScan, ScanCurrent, ListAggregateIdentities, Snapshot, ResetReturns, LockExpires,
     LockExpiresEarly, Crash
<1> QED BY <1>1, <1>2, <1>3 DEF Next, vars

\* Versions in MySQL never go back.
LEMMA RowsGrow ==
  ASSUME TypeOK, [Next]_vars
  PROVE  \A f \in Fields : mysql[f].ver <= mysql'[f].ver
<1>1. CASE UNCHANGED mysql
  BY <1>1, Numbers
<1>2. ASSUME NEW p \in Procs, Upsert(p) PROVE \A f \in Fields : mysql[f].ver <= mysql'[f].ver
  BY <1>1, <1>2, UpsertKeeps DEF Upsert
<1> QED BY <1>1, <1>2, OnlyUpsertWrites

\* The labels at which a finalizer relies on what it verified.
Checked == {"verify", "persisted", "unlink"}

\* A step after which only processes that had verified something rely on it.
LEMMA VerifiedQuiet ==
  ASSUME TypeOK, TypeOK', VerifiedTrue, \A f \in Fields : mysql[f].ver <= mysql'[f].ver,
         \A q \in Procs : pc'[q] \in Checked =>
             pc'[q] = pc[q] /\ seen'[q] = seen[q] /\ todo'[q] = todo[q]
  PROVE  VerifiedTrue'
<1> SUFFICES ASSUME NEW q \in Procs, NEW f \in Closing
             PROVE  /\ pc'[q] = "verify" => f \in todo'[q] \/ seen'[q][f] <= mysql'[f].ver
                    /\ pc'[q] \in {"persisted", "unlink"} => seen'[q][f] <= mysql'[f].ver
  BY DEF VerifiedTrue
<1>1. f \in Fields /\ seen[q][f] \in Nat /\ mysql[f].ver \in Nat /\ mysql'[f].ver \in Nat
  <2>1. f \in Fields
    BY TokenStatisticsAssumption
  <2>2. mysql' \in [Fields -> [val : Nat, ver : Nat]]
    BY DEF TypeOK
  <2> QED BY <2>1, <2>2, Numbers
<1> QED BY <1>1 DEF VerifiedTrue, Checked

LEMMA VerifiedStep ==
  ASSUME TypeOK, TypeOK', VerifiedTrue, [Next]_vars
  PROVE  VerifiedTrue'
<1>0. \A f \in Fields : mysql[f].ver <= mysql'[f].ver
  BY RowsGrow
<1>q. ASSUME \A q \in Procs : pc'[q] \in Checked =>
                pc'[q] = pc[q] /\ seen'[q] = seen[q] /\ todo'[q] = todo[q]
      PROVE  VerifiedTrue'
  BY <1>0, <1>q, VerifiedQuiet
<1> USE DEF Go, Checked
<1>1. CASE UNCHANGED vars
  BY <1>1, <1>q DEF vars, sync, close
<1>2. ASSUME NEW w \in Workers, TryEnqueue(Home[w]) \/ Dequeue(w) \/ Add(w) PROVE VerifiedTrue'
  BY <1>2, <1>q DEF TryEnqueue, Dequeue, Add, sync, close
<1>3. ASSUME NEW p \in Procs, AcquireSyncLock(p) \/ SyncStep(p) PROVE VerifiedTrue'
  <2>1. CASE AcquireSyncLock(p) \/ ReleaseSyncLock(p)
    BY <2>1, <1>q DEF AcquireSyncLock, ReleaseSyncLock, Return, TypeOK
  <2>2. CASE RotateDirtySet(p)
    BY <2>2, <1>q DEF RotateDirtySet, close, TypeOK
  <2>3. CASE ReadCount(p) \/ ReadVersion(p)
    BY <2>3, <1>q DEF ReadCount, ReadVersion, Abort, close, TypeOK
  <2>4. CASE Upsert(p)
    <3>1. /\ \A q \in Procs \ {p} : pc'[q] = pc[q] /\ todo'[q] = todo[q]
          /\ pc'[p] \in {"requeue", "del", "count"} /\ seen' = seen
      BY <2>4 DEF Upsert, Abort, close, TypeOK
    <3> QED BY <3>1, <1>q
  <2>5. CASE DelProcessing(p) \/ Requeue(p)
    BY <2>5, <1>q DEF DelProcessing, Requeue, close, TypeOK
  <2> QED BY <1>3, <2>1, <2>2, <2>3, <2>4, <2>5 DEF SyncStep
<1>4. ASSUME NEW p \in Procs, BeginFinalize(p) \/ FinalizeStep(p) \/ FinalizeFails(p)
      PROVE  VerifiedTrue'
  <2>1. CASE BeginFinalize(p) \/ CheckPending(p) \/ CheckDirty(p)
    BY <2>1, <1>q DEF BeginFinalize, CheckPending, CheckDirty, sync, close, TypeOK
  <2>2. CASE PeriodVersions(p)
    <3>1. /\ pc'[p] = "verify" /\ seen'[p] = [f \in Closing |-> ver[f]]
          /\ todo'[p] = {f \in Closing : ver[f] # 0}
          /\ \A q \in Procs \ {p} : pc'[q] = pc[q] /\ seen'[q] = seen[q] /\ todo'[q] = todo[q]
          /\ mysql' = mysql
      BY <2>2 DEF PeriodVersions, TypeOK
    <3>2. \A f \in Closing : f \in todo'[p] \/ seen'[p][f] <= mysql'[f].ver
      BY <3>1, Numbers, TokenStatisticsAssumption
    <3> QED BY <3>1, <3>2 DEF VerifiedTrue
  <2>3. CASE VerifyPeriodVersions(p)
    <3>1. /\ pc[p] = "verify" /\ mysql' = mysql
          /\ \A q \in Procs \ {p} : pc'[q] = pc[q] /\ seen'[q] = seen[q] /\ todo'[q] = todo[q]
      BY <2>3 DEF VerifyPeriodVersions, Leave, TypeOK
    <3>2. CASE Leave(p)
      BY <3>1, <3>2, <1>q DEF Leave, TypeOK
    <3>3. ASSUME NEW g \in todo[p], VersionMatches(p, g), UNCHANGED <<seen, pc>>,
                 todo' = [todo EXCEPT ![p] = @ \ {g}]
          PROVE  VerifiedTrue'
      <4>1. todo'[p] = todo[p] \ {g}
        BY <3>3 DEF TypeOK
      <4>2. mysql[g].ver \in Nat /\ mysql[g].ver = seen[p][g]
        BY <3>3, Numbers DEF TypeOK, VersionMatches
      <4>3. seen[p][g] <= mysql[g].ver
        BY <4>2
      <4> QED BY <3>1, <3>3, <4>1, <4>3 DEF VerifiedTrue
    <3>4. CASE todo[p] = {} /\ pc' = [pc EXCEPT ![p] = "persisted"] /\ UNCHANGED <<seen, todo>>
      <4>1. pc'[p] = "persisted"
        BY <3>4 DEF TypeOK
      <4> QED BY <3>1, <3>4, <4>1 DEF VerifiedTrue
    <3> QED BY <2>3, <3>2, <3>3, <3>4 DEF VerifyPeriodVersions
  <2>4. CASE MarkPersisted(p)
    <3>1. /\ pc[p] = "persisted" /\ pc'[p] \in {"deleted", "unlink"}
          /\ UNCHANGED <<seen, todo, mysql>> /\ \A q \in Procs \ {p} : pc'[q] = pc[q]
      BY <2>4 DEF MarkPersisted, sync, TypeOK
    <3> QED BY <3>1 DEF VerifiedTrue
  <2>5. CASE Unlink(p)
    <3>1. /\ pc'[p] \in {"deleted", "idle"}
          /\ \A q \in Procs \ {p} : pc'[q] = pc[q] /\ seen'[q] = seen[q] /\ todo'[q] = todo[q]
      BY <2>5 DEF Unlink, Leave, TypeOK
    <3> QED BY <3>1, <1>q
  <2>6. CASE MarkDeleted(p) \/ FinalizeFails(p)
    BY <2>6, <1>q DEF MarkDeleted, FinalizeFails, Leave, TypeOK
  <2> QED BY <1>4, <2>1, <2>2, <2>3, <2>4, <2>5, <2>6 DEF FinalizeStep
<1>5. CASE BeginScan \/ ScanCurrent \/ ListAggregateIdentities \/ Snapshot \/ ResetReturns
  BY <1>5, <1>q DEF BeginScan, ScanCurrent, ListAggregateIdentities, Snapshot, ResetReturns, sync, close
<1>6. CASE LockExpires \/ LockExpiresEarly
  BY <1>6, <1>q DEF LockExpires, LockExpiresEarly, close
<1>7. ASSUME NEW i \in Instances, Crash(i) PROVE VerifiedTrue'
  BY <1>7, <1>q DEF Crash
<1> QED BY <1>1, <1>2, <1>3, <1>4, <1>5, <1>6, <1>7 DEF Next

\* What a step does to the counters: an Add raises value and version together,
\* an Unlink clears both for the period that is finalized.
Raised == /\ gone' = gone
          /\ \A f \in Fields : /\ count[f] <= count'[f]
                               /\ ver'[f] = 0 => ver[f] = 0 /\ count'[f] = count[f]
Cleared == /\ gone' \subseteq gone \cup Closing
           /\ \A f \in Fields : IF f \in Closing THEN count'[f] = 0 /\ ver'[f] = 0
                                ELSE count'[f] = count[f] /\ ver'[f] = ver[f]

LEMMA CountersMove ==
  ASSUME TypeOK, [Next]_vars
  PROVE  UNCHANGED <<count, ver, gone>> \/ Raised \/ Cleared
<1> USE DEF redis, ghosts
<1>1. CASE UNCHANGED vars
  BY <1>1 DEF vars
<1>2. ASSUME NEW w \in Workers, Add(w), ~UNCHANGED redis
      PROVE  Raised
  <2>1. job[w].ev \in Events /\ DynamicAddScript(job[w].ev) /\ gone' = gone
    BY <1>2 DEF Add, TypeOK
  <2>2. TokensOf[job[w].ev] \in Nat
    BY <2>1, TokenStatisticsAssumption
  <2> QED BY <2>1, <2>2, Numbers DEF DynamicAddScript, Raised
<1>3. ASSUME NEW w \in Workers, TryEnqueue(Home[w]) \/ Dequeue(w) \/ (Add(w) /\ UNCHANGED redis)
      PROVE  UNCHANGED <<count, ver, gone>>
  BY <1>3 DEF TryEnqueue, Dequeue, Add
<1>4. ASSUME NEW p \in Procs, AcquireSyncLock(p) \/ SyncStep(p)
      PROVE  UNCHANGED <<count, ver, gone>>
  BY <1>4 DEF AcquireSyncLock, SyncStep, RotateDirtySet, ReadCount, ReadVersion, Upsert,
     DelProcessing, Requeue, ReleaseSyncLock
<1>5. ASSUME NEW p \in Procs, ~Unlink(p),
             BeginFinalize(p) \/ FinalizeStep(p) \/ FinalizeFails(p)
      PROVE  UNCHANGED <<count, ver, gone>>
  BY <1>5 DEF BeginFinalize, FinalizeStep, CheckPending, CheckDirty, PeriodVersions,
     VerifyPeriodVersions, MarkPersisted, MarkDeleted, FinalizeFails
<1>6. ASSUME NEW p \in Procs, Unlink(p)
      PROVE  Cleared
  BY <1>6 DEF Unlink, Cleared
<1>7. ASSUME \/ BeginScan \/ ScanCurrent \/ ListAggregateIdentities \/ Snapshot \/ ResetReturns
             \/ LockExpires \/ LockExpiresEarly \/ (\E i \in Instances : Crash(i))
      PROVE  UNCHANGED <<count, ver, gone>>
  BY <1>7 DEF BeginScan, ScanCurrent, ListAggregateIdentities, Snapshot, ResetReturns, LockExpires,
     LockExpiresEarly, Crash
<1> QED BY <1>1, <1>2, <1>3, <1>4, <1>5, <1>6, <1>7 DEF Next

LEMMA DeletedStep ==
  ASSUME TypeOK, DeletedWhole, [Next]_vars
  PROVE  DeletedWhole'
  BY CountersMove DEF DeletedWhole, Raised, Cleared

\* The steps of a quota reset pass on what it owes: usage without a row is
\* marked, so the scan finds it or it is in a processing set.
LEMMA ResetStep ==
  ASSUME TypeOK, TypeOK', Covered, DeletedWhole, ResetTrue, [Next]_vars
  PROVE  ResetTrue'
<1> SUFFICES ASSUME NEW f \in Scope
             PROVE  /\ owed'[f] <= count'[f]
                    /\ stage' = "idle" => owed'[f] = 0
                    /\ stage' \in {"scan", "aggregates"} =>
                          \/ owed'[f] = 0 \/ mysql'[f].ver # 0
                          \/ f \in found' \cup hidden' \cup unscanned'
                    /\ stage' # "scan" => f \notin unscanned'
                    /\ stage' \in {"snapshot", "done"} =>
                          \/ owed'[f] = 0 \/ owed'[f] <= baseline'[f]
                          \/ f \in found' \cup failed' \cup hidden'
                    /\ stage' = "done" => f \notin found' \/ f \in failed'
  BY DEF ResetTrue
<1>1. /\ f \in Fields /\ f \notin Closing /\ f \notin gone
      /\ count[f] \in Nat /\ ver[f] \in Nat /\ mysql[f].ver \in Nat /\ owed[f] \in Nat
      /\ baseline[f] \in Nat
  BY TokenStatisticsAssumption, Numbers DEF DeletedWhole
<1>2. /\ owed[f] <= count[f]
      /\ stage = "idle" => owed[f] = 0
      /\ stage \in {"scan", "aggregates"} =>
            owed[f] = 0 \/ f \in found \cup hidden \cup unscanned \/ mysql[f].ver # 0
      /\ stage # "scan" => f \notin unscanned
      /\ stage \in {"snapshot", "done"} =>
            owed[f] = 0 \/ f \in found \cup failed \cup hidden \/ owed[f] <= baseline[f]
      /\ stage = "done" => f \notin found \/ f \in failed
      /\ ver[f] = 0 => count[f] = 0
  BY <1>1 DEF ResetTrue, DeletedWhole
<1>3. /\ count'[f] \in Nat /\ count[f] <= count'[f]
      /\ mysql'[f].ver \in Nat /\ mysql[f].ver <= mysql'[f].ver
  <2>1. count[f] <= count'[f]
    BY <1>1, CountersMove DEF Raised, Cleared
  <2>2. count' \in [Fields -> Nat] /\ mysql' \in [Fields -> [val : Nat, ver : Nat]]
    BY DEF TypeOK
  <2> QED BY <1>1, <2>1, <2>2, RowsGrow
<1>4. CASE UNCHANGED <<quota, scan>>
  BY <1>1, <1>2, <1>3, <1>4 DEF quota, scan
<1>s. ASSUME NEW ahead, NEW missed, SScan(ahead, missed)
      PROVE  \/ /\ stage' \in {"scan", "aggregates"} /\ (stage' # "scan" => f \notin unscanned')
                /\ found \subseteq found'
                /\ f \in ahead \cup missed => f \in found' \cup hidden' \cup unscanned'
             \/ stage' = "done" /\ f \in failed' /\ f \notin unscanned'
  BY <1>s DEF SScan
<1>5. CASE BeginScan
  <2>1. /\ SScan(dirty \cap Scope, (Scope \cap InProcessing) \ dirty)
        /\ owed'[f] = count[f] /\ mysql' = mysql /\ count' = count
    BY <1>1, <1>5 DEF BeginScan, redis
  <2>2. ASSUME f \notin dirty, f \notin InProcessing, mysql[f].ver = 0 PROVE count[f] = 0
    <3>1. ~(ver[f] > mysql[f].ver)
      BY <1>1, <2>2, CoveredIsMarked DEF UnsyncedIsMarked
    <3> QED BY <1>1, <1>2, <2>2, <3>1
  <2> QED BY <1>1, <1>s, <2>1, <2>2
<1>13. CASE ScanCurrent
  <2>1. /\ SScan(unscanned, hidden) /\ stage = "scan"
        /\ owed' = owed /\ mysql' = mysql /\ count' = count
    BY <1>13 DEF ScanCurrent, redis
  <2> QED BY <1>1, <1>2, <1>s, <2>1
<1>6. CASE ListAggregateIdentities
  <2>1. /\ owed' = owed /\ count' = count
        /\ \/ /\ stage' = "snapshot" /\ found' = found \cup {g \in Scope : mysql[g].ver # 0}
              /\ hidden' = {g \in hidden : mysql[g].ver = 0}
           \/ stage' = "done" /\ failed' = Scope
        /\ stage = "aggregates" /\ unscanned' = unscanned
    BY <1>6 DEF ListAggregateIdentities, AggregateIdentities, redis
  <2> QED BY <1>1, <1>2, <2>1
<1>7. CASE Snapshot
  <2>1. PICK g \in found :
          /\ found' = found \ {g}
          /\ \/ /\ baseline' = [baseline EXCEPT ![g] = IF ver[g] # 0 THEN count[g] ELSE @]
                /\ failed' = failed
             \/ /\ failed' = failed \cup {g}
                /\ \/ baseline' = baseline
                   \/ baseline' = [baseline EXCEPT ![g] = IF ver[g] # 0 THEN count[g] ELSE @]
    BY <1>7 DEF Snapshot
  <2>2. /\ stage = "snapshot" /\ stage' = "snapshot" /\ owed' = owed /\ count' = count
        /\ hidden' = hidden /\ unscanned' = unscanned
    BY <1>7 DEF Snapshot, redis, scan
  <2>3. baseline \in [Fields -> Nat]
    BY DEF TypeOK
  <2>4. CASE f = g
    BY <1>1, <1>2, <2>1, <2>2, <2>3, <2>4
  <2>5. CASE f # g
    BY <1>1, <1>2, <2>1, <2>2, <2>3, <2>5
  <2> QED BY <2>4, <2>5
<1>8. CASE ResetReturns
  BY <1>1, <1>2, <1>8 DEF ResetReturns, redis, scan
<1>14. ASSUME NEW p \in Procs, RotateDirtySet(p)
      PROVE  \/ UNCHANGED <<quota, scan>>
             \/ UNCHANGED quota /\ hidden' = hidden \cup unscanned /\ unscanned' = {}
  BY <1>14 DEF RotateDirtySet, DirtySetGoes
<1>15. CASE UNCHANGED quota /\ hidden' = hidden \cup unscanned /\ unscanned' = {}
  BY <1>1, <1>2, <1>3, <1>15 DEF quota
<1>9. ASSUME NEW p \in Procs, AcquireSyncLock(p) \/ SyncStep(p), ~RotateDirtySet(p)
      PROVE  UNCHANGED <<quota, scan>>
  BY <1>9 DEF AcquireSyncLock, SyncStep, ReadCount, ReadVersion, Upsert,
     DelProcessing, Requeue, ReleaseSyncLock
<1>10. ASSUME NEW p \in Procs, BeginFinalize(p) \/ FinalizeStep(p) \/ FinalizeFails(p)
      PROVE  UNCHANGED <<quota, scan>>
  BY <1>10 DEF BeginFinalize, FinalizeStep, CheckPending, CheckDirty, PeriodVersions,
     VerifyPeriodVersions, MarkPersisted, Unlink, MarkDeleted, FinalizeFails
<1>11. ASSUME NEW w \in Workers, TryEnqueue(Home[w]) \/ Dequeue(w) \/ Add(w)
      PROVE  UNCHANGED <<quota, scan>>
  BY <1>11 DEF TryEnqueue, Dequeue, Add
<1>12. ASSUME LockExpires \/ LockExpiresEarly \/ (\E i \in Instances : Crash(i))
      PROVE  UNCHANGED <<quota, scan>>
  BY <1>12 DEF LockExpires, LockExpiresEarly, Crash
<1> QED BY <1>4, <1>5, <1>6, <1>7, <1>8, <1>9, <1>10, <1>11, <1>12, <1>13, <1>14, <1>15
        DEF Next, vars

LEMMA HistoryInit == Init => HistoryInv
<1> SUFFICES ASSUME Init PROVE HistoryInv
  OBVIOUS
<1>1. Covered
  BY DEF Init, Covered, Safe
<1>2. ValuesTrue
  BY DEF Init, ValuesTrue, RowTrue, Reading
<1>3. VerifiedTrue /\ DeletedWhole
  BY DEF Init, VerifiedTrue, DeletedWhole
<1>4. ResetTrue
  BY TokenStatisticsAssumption DEF Init, ResetTrue
<1> QED BY <1>1, <1>2, <1>3, <1>4, InitTyped DEF HistoryInv

\* The inductive invariant of the rows, the reads under way, the finalizers and
\* the quota reset.
THEOREM HistoryInvariant == Spec => []HistoryInv
<1>1. HistoryInv /\ [Next]_vars => HistoryInv'
  <2> SUFFICES ASSUME HistoryInv, [Next]_vars PROVE HistoryInv'
    OBVIOUS
  <2>1. TypeOK' /\ Covered'
    BY StepTyped, CoveredInductive DEF HistoryInv
  <2> QED BY <2>1, ValuesStep, VerifiedStep, DeletedStep, ResetStep DEF HistoryInv
<1> QED BY <1>1, HistoryInit, PTL DEF Spec

\* A row with the version of its counter has its value, however syncs overlap
\* (readAggregate, UpsertAggregate), unless the read was torn.
THEOREM VersionsTell == Spec => []VersionTellsValue
<1>1. HistoryInv => VersionTellsValue
  BY DEF HistoryInv, ValuesTrue, RowTrue, VersionTellsValue
<1> QED BY <1>1, HistoryInvariant, PTL

\* A finalizer deletes only what MySQL has (PeriodFinalizer.Finalize), however
\* late the write of another sync arrives.
THEOREM DeletionsPersisted == Spec => []DeletedIsPersisted
<1>1. HistoryInv => DeletedIsPersisted
  BY DEF HistoryInv, ValuesTrue, RowTrue, DeletedIsPersisted, TypeOK
<1> QED BY <1>1, HistoryInvariant, PTL

\* A reset covers all usage from before it (quota_reset_service.go), however many
\* pages its scan takes: what is neither dirty nor in a processing set and has no
\* row was never used.
THEOREM ResetCovers == Spec => []ResetCoversUsage
<1>1. HistoryInv => ResetCoversUsage
  <2> SUFFICES ASSUME HistoryInv, stage = "done", NEW f \in Scope \ (failed \cup hidden)
               PROVE  EffectiveUsage(f) <= count[f] - owed[f]
    BY DEF ResetCoversUsage
  <2>1. f \in Fields /\ count[f] \in Nat /\ baseline[f] \in Nat /\ owed[f] \in Nat
    BY Numbers, TokenStatisticsAssumption DEF HistoryInv
  <2>2. owed[f] <= count[f] /\ (owed[f] = 0 \/ owed[f] <= baseline[f])
    BY DEF HistoryInv, ResetTrue
  <2> QED BY <2>1, <2>2 DEF EffectiveUsage
<1> QED BY <1>1, HistoryInvariant, PTL

\* No sync puts an older value in the place of a newer one (UpsertAggregate).
THEOREM RowsAdvance == Spec => HistoryAdvances
<1>1. HistoryInv /\ [Next]_vars =>
        [\A f \in Fields \ (late' \cup torn') : mysql'[f].val >= mysql[f].val]_vars
  <2> SUFFICES ASSUME HistoryInv, [Next]_vars, NEW f \in Fields \ (late' \cup torn')
               PROVE  mysql'[f].val >= mysql[f].val
    OBVIOUS
  <2>0. mysql[f].val \in Nat
    BY Numbers DEF HistoryInv
  <2>1. CASE UNCHANGED mysql
    BY <2>0, <2>1
  <2>2. ASSUME NEW p \in Procs, Upsert(p), ~UNCHANGED mysql
        PROVE  mysql'[f].val >= mysql[f].val
    <3>1. /\ pc[p] = "upsert" /\ Newer(read[p]) /\ UNCHANGED late
          /\ mysql' = [mysql EXCEPT ![read[p].field] = [val |-> read[p].val, ver |-> read[p].ver]]
          /\ torn' = IF read[p].at = read[p].ver THEN torn \ {read[p].field}
                                                 ELSE torn \cup {read[p].field}
      BY <2>2 DEF Upsert, UpsertAggregate
    <3>2. /\ read[p].field \in Fields /\ mysql \in [Fields -> [val : Nat, ver : Nat]]
          /\ read[p].ver \in Nat /\ read[p].val \in Nat
      BY <3>1 DEF HistoryInv, TypeOK
    <3>3. CASE f # read[p].field
      BY <2>0, <3>1, <3>2, <3>3
    <3>4. CASE f = read[p].field
      <4>1. read[p].at = read[p].ver /\ mysql'[f].val = read[p].val
        BY <3>1, <3>2, <3>4
      <4>2. mysql[f].ver < read[p].ver /\ mysql[f].ver \in Nat
        BY <3>1, <3>2, <3>4 DEF Newer
      <4>3. Reading(p, f) /\ ReadTrue(p, f)
        BY <3>1, <3>4 DEF HistoryInv, ValuesTrue, Reading
      <4>4. mysql[f].val <= read[p].val
        BY <3>2, <4>1, <4>2, <4>3 DEF ReadTrue
      <4> QED BY <2>0, <3>2, <4>1, <4>4
    <3> QED BY <3>3, <3>4
  <2> QED BY <2>1, <2>2, OnlyUpsertWrites
<1> QED BY <1>1, HistoryInvariant, PTL DEF Spec, HistoryAdvances
=============================================================================

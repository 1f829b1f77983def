---------------------- MODULE SystemOperationLockProofs ----------------------
(***************************************************************************)
(* Proofs about SystemOperationLock for any number of operations and any   *)
(* times.  That the creator of a record keeps the lock needs a lease that  *)
(* outlasts the failures of its renewal, which the theorems state as a     *)
(* hypothesis.                                                             *)
(***************************************************************************)
EXTENDS SystemOperationLock, TLAPS

Rows == [id : Nat, fp : Fingerprints \union {"-"},
         status : {"none", "processing", "succeeded", "failed_retryable"},
         locked : Nat, exp : Nat, body : Nat]

TStore == row \in Rows /\ lastId \in Nat
TOps   == /\ pc \in [Operations -> Labels] /\ t \in [Operations -> Nat]
          /\ existing \in [Operations -> Rows] /\ id \in [Operations -> Nat]
          /\ renewAt \in [Operations -> Nat]
Typed  == /\ TStore /\ TOps /\ now \in Nat /\ faults \in 0 .. MaxFaults
          /\ overran \subseteq Operations

\* What each operation has read and when; a renewal is never overdue.
OpInv(o) ==
    /\ t[o] <= now /\ id[o] <= lastId
    /\ pc[o] \in {"create", "get", "reclaim"} => now <= t[o] + MaxAcquire
    /\ pc[o] \in {"new", "create", "get"} => existing[o] = NoRow
    /\ pc[o] = "reclaim" => existing[o].id >= 1 /\ existing[o].id <= lastId
    /\ pc[o] = "running" => id[o] >= 1
    /\ renewAt[o] > 0 => pc[o] = "running" /\ now <= renewAt[o]
    /\ o \in overran => pc[o] \in {"running", "done"}

IdRow == row.id <= lastId /\ (row # NoRow => row.id >= 1)

BaseInv == Typed /\ IdRow /\ \A o \in Operations : OpInv(o)

\* What further failed renewals may cost.
Slack(f) == Interval * f

\* Nobody has kept record i beyond a lease that was taken over.
Kept(i) == \A q \in overran : id[q] # i

\* The holder of such a record: its creator renews it in time, whatever still
\* fails, and who took it over is within its lease.
Holds(o) ==
    pc[o] = "running" /\ Kept(id[o]) =>
        /\ row.id = id[o] /\ row.status = "processing"
        /\ existing[o] = NoRow =>
              /\ renewAt[o] > 0 /\ row.fp = o
              /\ renewAt[o] + Slack(faults) < row.locked
              /\ renewAt[o] + Slack(faults) < row.exp
        /\ existing[o] # NoRow =>
              now < t[o] + Timeout /\ t[o] + Timeout <= row.locked /\ t[o] + Timeout <= row.exp

LockInv == BaseInv /\ LeaseExclusive /\ \A o \in Operations : Holds(o)

\* The lease outlasts an Acquire and as many renewals as can fail, and a record
\* outlives its lease.
LeaseOutlasts == MaxAcquire + Interval + Slack(MaxFaults) < Timeout /\ Timeout <= TTL

-----------------------------------------------------------------------------
(* Types.                                                                    *)

LEMMA Constants == /\ TTL \in Nat /\ Timeout \in Nat /\ MaxTime \in Nat /\ MaxFaults \in Nat
                   /\ Interval \in Nat /\ Interval >= 1 /\ MaxAcquire \in Nat /\ MaxHold \in Nat
  BY StoreAssumption, LockAssumption

\* One failure costs one interval; fewer failures cost no more.
LEMMA SlackStep ==
  ASSUME NEW f \in Nat
  PROVE  /\ Slack(f) \in Nat
         /\ f > 0 => Slack(f) = Slack(f - 1) + Interval
         /\ \A g \in Nat : f <= g => Slack(f) <= Slack(g)
<1>1. Slack(f) \in Nat
  BY Constants DEF Slack
<1>2. f > 0 => Slack(f) = Slack(f - 1) + Interval
  BY Constants DEF Slack
<1>3. ASSUME NEW g \in Nat, f <= g PROVE Slack(f) <= Slack(g)
  <2>1. g - f \in Nat /\ Interval * g = Interval * f + Interval * (g - f)
    BY <1>3, Constants
  <2>2. Interval * (g - f) \in Nat /\ Interval * f \in Nat
    BY <2>1, Constants
  <2> QED BY <2>1, <2>2 DEF Slack
<1> QED BY <1>1, <1>2, <1>3

LEMMA NoneTyped == NoRow \in Rows
  BY DEF NoRow, Rows

LEMMA RowUpdates ==
  ASSUME NEW r \in Rows, NEW l \in Nat, NEW x \in Nat, NEW b \in Nat,
         NEW s \in {"processing", "succeeded", "failed_retryable"}
  PROVE  /\ [r EXCEPT !.locked = l, !.exp = x] \in Rows
         /\ [r EXCEPT !.status = s, !.locked = l, !.exp = x] \in Rows
         /\ [r EXCEPT !.status = s, !.locked = l, !.exp = x, !.body = b] \in Rows
  BY DEF Rows

LEMMA Fields ==
  ASSUME Typed
  PROVE  /\ row.id \in Nat /\ row.exp \in Nat /\ row.locked \in Nat /\ lastId \in Nat
         /\ now \in Nat /\ faults \in Nat /\ faults <= MaxFaults
         /\ \A o \in Operations :
               /\ t[o] \in Nat /\ id[o] \in Nat /\ renewAt[o] \in Nat /\ existing[o] \in Rows
               /\ existing[o].id \in Nat
  BY Constants DEF Typed, TStore, TOps, Rows

LEMMA FaultTyped ==
  ASSUME Typed, Fine \/ Fault PROVE faults' \in 0 .. MaxFaults /\ faults' <= faults
  BY Constants DEF Typed, Fine, Fault

\* A row written by a statement of the repository.
LEMMA StatementTyped ==
  ASSUME Typed, NEW o \in Operations, NEW i, NEW s, NEW x \in Nat,
         \/ CreateProcessing(o, x) \/ TryReclaim(i, s, x) \/ ExtendProcessingLock(i, o)
         \/ MarkSucceeded(i, 0, x) \/ MarkFailedRetryable(i, now, x) \/ UNCHANGED store
  PROVE  TStore'
<1>0. /\ row \in Rows /\ lastId \in Nat /\ now \in Nat /\ lastId + 1 \in Nat
      /\ x + Timeout \in Nat /\ x + TTL \in Nat /\ now + Timeout \in Nat /\ now + TTL \in Nat
  BY Constants DEF Typed, TStore
<1>1. CASE CreateProcessing(o, x)
  BY <1>0, <1>1 DEF CreateProcessing, TStore, Rows, Operations
<1>2. CASE TryReclaim(i, s, x)
  BY <1>0, <1>2, RowUpdates DEF TryReclaim, TStore
<1>3. CASE ExtendProcessingLock(i, o)
  BY <1>0, <1>3, RowUpdates DEF ExtendProcessingLock, TStore
<1>4. CASE MarkSucceeded(i, 0, x)
  BY <1>0, <1>4, RowUpdates, Zenon DEF MarkSucceeded, TStore
<1>5. CASE MarkFailedRetryable(i, now, x)
  BY <1>0, <1>5, RowUpdates DEF MarkFailedRetryable, TStore
<1>6. CASE UNCHANGED store
  BY <1>0, <1>6 DEF store, TStore
<1> QED BY <1>1, <1>2, <1>3, <1>4, <1>5, <1>6

LEMMA StopTyped ==
  ASSUME TOps, NEW o \in Operations, Stop(o), UNCHANGED <<t, existing, id>>
  PROVE  TOps'
  BY DEF TOps, Stop, Goto, Labels

LEMMA HoldTyped ==
  ASSUME TOps, now \in Nat, NEW o \in Operations, NEW i \in Nat, Hold(o, i), UNCHANGED <<t, existing>>
  PROVE  TOps'
<1>1. now + Interval \in Nat
  BY Constants
<1> QED BY <1>1 DEF TOps, Hold, Goto, Labels

LEMMA StepTyped ==
  ASSUME Typed, [Next]_vars
  PROVE  Typed'
<1>0. /\ TStore /\ TOps /\ now \in Nat /\ faults \in 0 .. MaxFaults /\ overran \subseteq Operations
      /\ row \in Rows /\ lastId \in Nat
  BY DEF Typed, TStore
<1>1. CASE UNCHANGED vars
  BY <1>0, <1>1 DEF vars, store, opVars, Typed, TStore, TOps
<1>2. CASE Cleanup /\ UNCHANGED overran
  BY <1>0, <1>2, NoneTyped DEF Cleanup, DeleteExpired, Fine, opVars, Typed, TStore, TOps
<1>3. CASE Tick
  BY <1>0, <1>3 DEF Tick, Fine, store, opVars, Typed, TStore, TOps
<1>4. ASSUME NEW o \in Operations, Step(o), UNCHANGED overran PROVE Typed'
  <2>f. faults' \in 0 .. MaxFaults
    BY <1>4, FaultTyped DEF Step, Acquire, Create, Get, Reclaim, Renew, Release, Crash
  <2>n. now' = now /\ overran' \subseteq Operations
    BY <1>0, <1>4 DEF Step, Acquire, Create, Get, Reclaim, Renew, Release, Crash
  <2>k. t[o] \in Nat /\ id[o] \in Nat /\ existing[o].id \in Nat /\ now + TTL \in Nat
        /\ now + Interval \in Nat
    BY Fields, Constants
  <2>1. TStore'
    <3>1. CASE Acquire(o) \/ Get(o) \/ Crash(o)
      BY <1>0, <3>1 DEF Acquire, Get, Crash, store, TStore
    <3>2. CASE Create(o)
      BY <2>k, <3>2, StatementTyped DEF Create
    <3>3. CASE Reclaim(o)
      BY <2>k, <3>3, StatementTyped DEF Reclaim
    <3>4. CASE Renew(o)
      BY <2>k, <3>4, StatementTyped DEF Renew
    <3>5. CASE Release(o)
      BY <2>k, <3>5, StatementTyped DEF Release
    <3> QED BY <1>4, <3>1, <3>2, <3>3, <3>4, <3>5 DEF Step
  <2>2. TOps'
    <3>1. CASE Acquire(o)
      BY <1>0, <3>1 DEF Acquire, Goto, TOps, Labels
    <3>2. CASE Create(o)
      <4>1. CASE Goto(o, "get") /\ UNCHANGED <<id, renewAt>>
        BY <1>0, <3>2, <4>1 DEF Create, Goto, TOps, Labels
      <4>2. CASE Hold(o, lastId') \/ (Stop(o) /\ UNCHANGED id)
        BY <1>0, <2>1, <3>2, <4>2, HoldTyped, StopTyped DEF Create, TStore
      <4> QED BY <3>2, <4>1, <4>2 DEF Create
    <3>3. CASE Get(o)
      <4>1. CASE Stop(o) /\ UNCHANGED existing
        BY <1>0, <3>3, <4>1, StopTyped DEF Get
      <4>2. CASE /\ existing' = [existing EXCEPT ![o] = row] /\ Goto(o, "reclaim")
                 /\ UNCHANGED renewAt
        BY <1>0, <3>3, <4>2 DEF Get, Goto, TOps, Labels
      <4> QED BY <3>3, <4>1, <4>2 DEF Get
    <3>4. CASE Reclaim(o)
      BY <1>0, <2>k, <3>4, HoldTyped, StopTyped DEF Reclaim
    <3>5. CASE Renew(o)
      BY <1>0, <2>k, <3>5 DEF Renew, TOps
    <3>6. CASE Release(o) \/ Crash(o)
      BY <1>0, <3>6, StopTyped DEF Release, Crash
    <3> QED BY <1>4, <3>1, <3>2, <3>3, <3>4, <3>5, <3>6 DEF Step
  <2> QED BY <1>0, <2>f, <2>n, <2>1, <2>2 DEF Typed
<1> QED BY <1>1, <1>2, <1>3, <1>4 DEF Next

-----------------------------------------------------------------------------
(* The steps.                                                                *)

OthersSame(o) ==
    \A p \in Operations \ {o} :
        /\ pc'[p] = pc[p] /\ t'[p] = t[p] /\ existing'[p] = existing[p]
        /\ id'[p] = id[p] /\ renewAt'[p] = renewAt[p]

\* What every step of operation o does to the others and to the shared state.
LEMMA StepFrame ==
  ASSUME Typed, NEW o \in Operations, Step(o)
  PROVE  OthersSame(o) /\ now' = now /\ faults' <= faults
<1>1. now' = now /\ faults' <= faults
  BY FaultTyped DEF Step, Acquire, Create, Get, Reclaim, Renew, Release, Crash
<1>2. OthersSame(o)
  BY DEF Step, Acquire, Create, Get, Reclaim, Renew, Release, Crash, Stop, Hold, Goto, OthersSame,
     Typed, TOps
<1> QED BY <1>1, <1>2

\* The statements on the row.
LEMMA RowIds ==
  ASSUME BaseInv, Typed', NEW o \in Operations, Step(o)
  PROVE  IdRow' /\ lastId' >= lastId
<1>0. row \in Rows /\ lastId \in Nat /\ IdRow /\ OpInv(o) /\ row.id \in Nat
  BY Fields DEF BaseInv, Typed, TStore
<1>1. CASE UNCHANGED store
  BY <1>0, <1>1 DEF store, IdRow
<1>2. CASE \E x : CreateProcessing(o, x)
  BY <1>0, <1>2 DEF CreateProcessing, IdRow
<1>3. ASSUME NEW i, NEW s, NEW x, i >= 1,
             \/ TryReclaim(i, s, x) \/ ExtendProcessingLock(i, o)
             \/ MarkSucceeded(i, 0, x) \/ MarkFailedRetryable(i, now, x)
      PROVE  IdRow' /\ lastId' >= lastId
  <2>1. row'.id = row.id /\ lastId' = lastId /\ (row' = row \/ row.id = i)
    BY <1>0, <1>3 DEF TryReclaim, Reclaimable, ExtendProcessingLock, Extendable, MarkSucceeded,
       MarkFailedRetryable, Rows
  <2> QED BY <1>0, <1>3, <2>1 DEF IdRow
<1>4. CASE Acquire(o) \/ Get(o) \/ Crash(o)
  BY <1>1, <1>4 DEF Acquire, Get, Crash
<1>5. CASE Create(o)
  BY <1>1, <1>2, <1>5 DEF Create
<1>6. CASE Reclaim(o)
  <2>1. existing[o].id >= 1
    BY <1>0, <1>6 DEF Reclaim, At, OpInv
  <2> QED BY <1>1, <1>3, <1>6, <2>1 DEF Reclaim
<1>7. CASE Renew(o) \/ Release(o)
  <2>1. id[o] >= 1
    BY <1>0, <1>7 DEF Renew, Release, At, OpInv
  <2> QED BY <1>1, <1>3, <1>7, <2>1 DEF Renew, Release
<1> QED BY <1>4, <1>5, <1>6, <1>7 DEF Step

\* What is known of o itself after its step.
LEMMA OpKept ==
  ASSUME BaseInv, Typed', NEW o \in Operations, Step(o), UNCHANGED overran
  PROVE  OpInv(o)'
<1>0. /\ Typed /\ IdRow /\ OpInv(o) /\ lastId' >= lastId /\ now' = now
      /\ now \in Nat /\ lastId \in Nat /\ lastId' \in Nat /\ t[o] \in Nat /\ id[o] \in Nat
      /\ row.id \in Nat /\ existing[o].id \in Nat
      /\ pc \in [Operations -> Labels] /\ t \in [Operations -> Nat] /\ id \in [Operations -> Nat]
      /\ existing \in [Operations -> Rows] /\ renewAt \in [Operations -> Nat]
  BY StepFrame, RowIds, Fields DEF BaseInv, Typed, TOps, TStore
<1>1. CASE Stop(o) /\ UNCHANGED <<t, id, existing>>
  <2>1. pc'[o] = "done" /\ renewAt'[o] = 0 /\ t'[o] = t[o] /\ id'[o] = id[o]
    BY <1>0, <1>1 DEF Stop, Goto
  <2> QED BY <1>0, <2>1 DEF OpInv
<1>2. ASSUME NEW i \in Nat, i >= 1, i <= lastId', Hold(o, i), UNCHANGED <<t, existing>>
      PROVE  OpInv(o)'
  <2>1. /\ pc'[o] = "running" /\ renewAt'[o] = now + Interval /\ t'[o] = t[o] /\ id'[o] = i
    BY <1>0, <1>2 DEF Hold, Goto
  <2> QED BY <1>0, <1>2, <2>1, Constants DEF OpInv
<1>3. CASE Acquire(o)
  <2>1. /\ pc[o] = "new" /\ pc'[o] = "create" /\ t'[o] = now /\ id'[o] = id[o]
        /\ existing'[o] = existing[o] /\ renewAt'[o] = renewAt[o]
    BY <1>0, <1>3 DEF Acquire, At, Goto
  <2> QED BY <1>0, <2>1, Constants DEF OpInv
<1>4. CASE Create(o)
  <2>0. pc[o] = "create" /\ UNCHANGED <<t, existing>>
    BY <1>4 DEF Create, At
  <2>1. CASE Goto(o, "get") /\ UNCHANGED <<id, renewAt>>
    <3>1. /\ pc'[o] = "get" /\ t'[o] = t[o] /\ id'[o] = id[o]
          /\ existing'[o] = existing[o] /\ renewAt'[o] = renewAt[o]
      BY <1>0, <2>0, <2>1 DEF Goto
    <3> QED BY <1>0, <2>0, <3>1 DEF OpInv
  <2>2. CASE Hold(o, lastId') /\ CreateProcessing(o, t[o])
    BY <1>0, <1>2, <2>0, <2>2 DEF CreateProcessing
  <2>3. CASE Stop(o) /\ UNCHANGED id
    BY <1>1, <2>0, <2>3
  <2> QED BY <1>4, <2>1, <2>2, <2>3 DEF Create
<1>5. CASE Get(o)
  <2>1. CASE Stop(o) /\ UNCHANGED existing
    BY <1>1, <1>5, <2>1 DEF Get
  <2>2. CASE /\ row # NoRow /\ existing' = [existing EXCEPT ![o] = row] /\ Goto(o, "reclaim")
             /\ UNCHANGED renewAt
    <3>1. /\ pc[o] = "get" /\ pc'[o] = "reclaim" /\ t'[o] = t[o] /\ id'[o] = id[o]
          /\ existing'[o] = row /\ renewAt'[o] = renewAt[o]
      BY <1>0, <1>5, <2>2 DEF Get, At, Goto
    <3> QED BY <1>0, <2>2, <3>1 DEF OpInv, IdRow
  <2> QED BY <1>5, <2>1, <2>2 DEF Get
<1>6. CASE Reclaim(o)
  <2>1. pc[o] = "reclaim" /\ UNCHANGED <<t, existing>>
    BY <1>6 DEF Reclaim, At
  <2>2. existing[o].id >= 1 /\ existing[o].id <= lastId'
    BY <1>0, <2>1 DEF OpInv
  <2>3. CASE Stop(o) /\ UNCHANGED id
    BY <1>1, <2>1, <2>3
  <2>4. CASE Hold(o, existing[o].id)
    BY <1>0, <1>2, <2>1, <2>2, <2>4
  <2> QED BY <1>6, <2>3, <2>4 DEF Reclaim
<1>7. CASE Renew(o)
  <2>1. /\ pc[o] = "running" /\ pc'[o] = "running" /\ t'[o] = t[o] /\ id'[o] = id[o]
        /\ existing'[o] = existing[o] /\ renewAt'[o] \in {0, now + Interval}
    BY <1>0, <1>7 DEF Renew, At
  <2> QED BY <1>0, <2>1, Constants DEF OpInv
<1>8. CASE Release(o) \/ Crash(o)
  BY <1>1, <1>8 DEF Release, Crash
<1> QED BY <1>3, <1>4, <1>5, <1>6, <1>7, <1>8 DEF Step

LEMMA BaseStep ==
  ASSUME BaseInv, [Next]_vars
  PROVE  BaseInv'
<1>0. Typed /\ Typed' /\ now \in Nat /\ lastId \in Nat /\ lastId' \in Nat
  BY StepTyped DEF BaseInv, Typed, TStore
<1>1. CASE UNCHANGED vars
  BY <1>0, <1>1 DEF vars, store, opVars, BaseInv, IdRow, OpInv
<1>2. ASSUME NEW o \in Operations, Step(o), UNCHANGED overran PROVE BaseInv'
  <2>1. IdRow' /\ lastId' >= lastId /\ OthersSame(o) /\ now' = now /\ OpInv(o)'
    BY <1>0, <1>2, RowIds, StepFrame, OpKept DEF BaseInv
  <2>2. ASSUME NEW p \in Operations \ {o} PROVE OpInv(p)'
    <3>1. id[p] \in Nat /\ existing[p].id \in Nat
      BY <1>0, Fields
    <3> QED BY <1>0, <1>2, <2>1, <3>1 DEF BaseInv, OpInv, OthersSame
  <2> QED BY <1>0, <2>1, <2>2 DEF BaseInv
<1>3. CASE Cleanup /\ UNCHANGED overran
  <2>1. row' = NoRow /\ UNCHANGED <<lastId, now, pc, t, existing, id, renewAt, overran>>
    BY <1>3 DEF Cleanup, DeleteExpired, opVars
  <2>2. row'.id = 0
    BY <2>1 DEF NoRow
  <2> QED BY <1>0, <2>1, <2>2 DEF BaseInv, IdRow, OpInv
<1>4. CASE Tick
  <2>1. /\ UNCHANGED <<row, lastId, pc, t, existing, id, renewAt>> /\ now' = now + 1
    BY <1>4 DEF Tick, store, opVars
  <2>2. ASSUME NEW o \in Operations PROVE OpInv(o)'
    <3>1. /\ pc[o] \in {"create", "get", "reclaim"} => now < t[o] + MaxAcquire
          /\ renewAt[o] # now \/ renewAt[o] = 0
          /\ o \in overran' => o \in overran \/ pc[o] = "running"
      BY <1>4 DEF Tick, At
    <3>2. t[o] \in Nat /\ renewAt[o] \in Nat /\ OpInv(o)
      BY <1>0, Fields DEF BaseInv
    <3> QED BY <1>0, <2>1, <3>1, <3>2, Constants DEF OpInv
  <2> QED BY <1>0, <2>1, <2>2 DEF BaseInv, IdRow
<1> QED BY <1>1, <1>2, <1>3, <1>4 DEF Next

-----------------------------------------------------------------------------
(* The lease.                                                                *)

\* Nobody reads the record of a holder as free, and the cleanup does not see it
\* as expired.
LEMMA HolderProtected ==
  ASSUME LockInv, NEW o \in Operations, pc[o] = "running", Kept(id[o])
  PROVE  /\ row.id = id[o] /\ row.id >= 1 /\ row # NoRow /\ row.status = "processing"
         /\ now < row.locked /\ now < row.exp
<1>0. Typed /\ OpInv(o) /\ Holds(o)
  BY DEF LockInv, BaseInv
<1>1. row.id = id[o] /\ row.status = "processing" /\ id[o] >= 1
  BY <1>0 DEF Holds, OpInv
<1>2. row # NoRow
  BY <1>0, <1>1, Fields DEF NoRow
<1>3. CASE existing[o] = NoRow
  <2>1. /\ renewAt[o] > 0 /\ renewAt[o] + Slack(faults) < row.locked
        /\ renewAt[o] + Slack(faults) < row.exp /\ now <= renewAt[o]
    BY <1>0, <1>3 DEF Holds, OpInv
  <2>2. Slack(faults) \in Nat
    BY <1>0, Fields, SlackStep
  <2> QED BY <1>0, <1>1, <1>2, <2>1, <2>2, Fields
<1>4. CASE existing[o] # NoRow
  BY <1>0, <1>1, <1>2, <1>4, Fields, Constants DEF Holds
<1> QED BY <1>3, <1>4

\* Two operations do not both hold a kept record.
LEMMA OneHolder ==
  ASSUME LockInv, NEW o \in Operations, NEW p \in Operations,
         pc[o] = "running", pc[p] = "running", Kept(id[o]), Kept(id[p])
  PROVE  o = p
  BY DEF LockInv, LeaseExclusive, Kept, At

\* A step changes the record of no operation but its own, which is not one that
\* has overrun before it has run.
LEMMA KeptSame ==
  ASSUME BaseInv, NEW o \in Operations, OthersSame(o), UNCHANGED overran,
         id'[o] = id[o] \/ pc[o] \notin {"running", "done"}
  PROVE  \A i : Kept(i)' <=> Kept(i)
<1>1. \A q \in overran : q \in Operations /\ id'[q] = id[q]
  BY DEF BaseInv, Typed, OpInv, OthersSame
<1> QED BY <1>1 DEF Kept

\* While the row is left alone, whoever holds it goes on holding it.
LEMMA HoldsOther ==
  ASSUME Typed, Typed', NEW o \in Operations, NEW p \in Operations \ {o}, OthersSame(o), row' = row,
         now' = now, faults' <= faults, Holds(p), \A i : Kept(i)' <=> Kept(i)
  PROVE  Holds(p)'
<1>1. Slack(faults') <= Slack(faults) /\ Slack(faults') \in Nat /\ Slack(faults) \in Nat
  <2>1. faults \in Nat /\ faults' \in Nat
    BY DEF Typed
  <2> QED BY <2>1, SlackStep
<1>2. renewAt[p] \in Nat /\ row.locked \in Nat /\ row.exp \in Nat
  BY Fields
<1>3. /\ pc'[p] = pc[p] /\ t'[p] = t[p] /\ existing'[p] = existing[p]
      /\ id'[p] = id[p] /\ renewAt'[p] = renewAt[p]
  BY DEF OthersSame
<1>4. Kept(id[p])' => Kept(id[p])
  BY <1>3 DEF Kept
<1> QED BY <1>1, <1>2, <1>3, <1>4 DEF Holds

\* The lock invariant after a step of o, from what the step did to o and to the
\* other holders.
LEMMA LockKept ==
  ASSUME LockInv, BaseInv', NEW o \in Operations, OthersSame(o), \A i : Kept(i)' <=> Kept(i),
         \A p \in Operations : Holds(p)',
         pc'[o] = "running" => \/ pc[o] = "running" /\ id'[o] = id[o]
                               \/ ~Kept(id'[o])
                               \/ \A p \in Operations \ {o} : pc[p] = "running" => ~Kept(id[p])
  PROVE  LockInv'
<1>1. ASSUME NEW p \in Operations, NEW q \in Operations, pc'[p] = "running", pc'[q] = "running",
             p # q, Kept(id[p])', Kept(id[q])'
      PROVE  FALSE
  <2>1. Kept(id'[p]) /\ Kept(id'[q])
    BY <1>1 DEF Kept
  <2>2. CASE p # o /\ q # o
    BY <1>1, <2>1, <2>2, OneHolder DEF OthersSame
  <2>3. CASE p = o
    BY <1>1, <2>1, <2>3, OneHolder DEF OthersSame
  <2>4. CASE q = o
    BY <1>1, <2>1, <2>4, OneHolder DEF OthersSame
  <2> QED BY <2>2, <2>3, <2>4
<1>2. LeaseExclusive'
  BY <1>1 DEF LeaseExclusive, Kept, At
<1> QED BY <1>2 DEF LockInv

\* A step that leaves the row alone and makes nobody a holder.
LEMMA QuietKeeps ==
  ASSUME LockInv, BaseInv', NEW o \in Operations, OthersSame(o), UNCHANGED <<row, now, overran>>,
         faults' <= faults, pc'[o] # "running",
         id'[o] = id[o] \/ pc[o] \notin {"running", "done"}
  PROVE  LockInv'
<1>1. BaseInv /\ \A i : Kept(i)' <=> Kept(i)
  BY KeptSame DEF LockInv
<1>2. ASSUME NEW p \in Operations PROVE Holds(p)'
  <2>1. CASE p = o
    BY <2>1 DEF Holds
  <2>2. CASE p # o
    BY <1>1, <2>2, HoldsOther DEF LockInv, BaseInv
  <2> QED BY <2>1, <2>2
<1> QED BY <1>1, <1>2, LockKept

\* A record is claimed only when nobody holds it.
LEMMA ClaimKeeps ==
  ASSUME LeaseOutlasts, LockInv, BaseInv', NEW o \in Operations, OthersSame(o),
         UNCHANGED <<now, overran>>, faults' <= faults,
         pc[o] \in {"create", "reclaim"},
         row = NoRow \/ row.locked <= t[o],
         row'.status = "processing",
         \/ pc'[o] # "running"
         \/ /\ pc'[o] = "running" /\ row'.id = id'[o] /\ t'[o] = t[o]
            /\ renewAt'[o] = now + Interval
            /\ row'.locked = t[o] + Timeout /\ row'.exp = t[o] + TTL
            /\ existing'[o] = NoRow => row'.fp = o
  PROVE  LockInv'
<1>0. Typed /\ Typed' /\ OpInv(o) /\ BaseInv
  BY DEF LockInv, BaseInv
<1>1. \A i : Kept(i)' <=> Kept(i)
  BY <1>0, KeptSame
<1>2. ASSUME NEW p \in Operations, pc[p] = "running", Kept(id[p]) PROVE FALSE
  <2>1. row # NoRow /\ now < row.locked
    BY <1>2, HolderProtected
  <2>2. row.locked <= t[o] /\ t[o] <= now
    BY <1>0, <2>1 DEF OpInv
  <2> QED BY <1>0, <2>1, <2>2, Fields
<1>3. ASSUME NEW p \in Operations \ {o} PROVE Holds(p)'
  BY <1>1, <1>2 DEF Holds, OthersSame
<1>4. Holds(o)'
  <2> SUFFICES ASSUME pc'[o] = "running" PROVE Holds(o)'
    BY DEF Holds
  <2>1. now <= t[o] + MaxAcquire /\ t[o] \in Nat /\ now \in Nat
    BY <1>0, Fields DEF OpInv
  <2>2. Slack(faults') <= Slack(MaxFaults) /\ Slack(faults') \in Nat /\ Slack(MaxFaults) \in Nat
    <3>1. faults' \in Nat /\ faults' <= MaxFaults /\ MaxFaults \in Nat
      BY <1>0, Constants DEF Typed
    <3> QED BY <3>1, SlackStep
  <2>3. /\ now + Interval + Slack(faults') < t[o] + Timeout
        /\ now + Interval + Slack(faults') < t[o] + TTL
        /\ now < t[o] + Timeout /\ t[o] + Timeout <= t[o] + TTL /\ now + Interval > 0
    BY <2>1, <2>2, Constants DEF LeaseOutlasts
  <2>4. row'.id = id'[o] /\ t'[o] = t[o] /\ renewAt'[o] = now + Interval
        /\ row'.locked = t[o] + Timeout /\ row'.exp = t[o] + TTL
        /\ existing'[o] = NoRow => row'.fp = o
        /\ now' = now /\ row'.status = "processing"
    OBVIOUS
  <2>5. /\ renewAt'[o] > 0 /\ renewAt'[o] + Slack(faults') < row'.locked
        /\ renewAt'[o] + Slack(faults') < row'.exp
        /\ now' < t'[o] + Timeout /\ t'[o] + Timeout <= row'.locked /\ t'[o] + Timeout <= row'.exp
    BY <2>1, <2>3, <2>4, Constants
  <2> QED BY <2>4, <2>5 DEF Holds, Slack
<1> QED BY <1>0, <1>1, <1>2, <1>3, <1>4, LockKept

\* A renewal or a release of the row touches no other holder's record: if it is
\* the record of o then o is its only holder.
LEMMA OwnRowKeeps ==
  ASSUME LockInv, BaseInv', NEW o \in Operations, OthersSame(o), UNCHANGED <<now, overran>>,
         faults' <= faults, pc[o] = "running", id'[o] = id[o], row.id = id[o], Holds(o)'
  PROVE  LockInv'
<1>0. BaseInv
  BY DEF LockInv
<1>1. \A i : Kept(i)' <=> Kept(i)
  BY <1>0, KeptSame
<1>2. ASSUME NEW p \in Operations \ {o} PROVE Holds(p)'
  <2>1. CASE pc[p] = "running" /\ Kept(id[p])
    <3>1. row.id = id[p]
      BY <2>1, HolderProtected
    <3> QED BY <2>1, <3>1, OneHolder
  <2>2. CASE ~(pc[p] = "running" /\ Kept(id[p]))
    BY <1>1, <2>2 DEF Holds, OthersSame
  <2> QED BY <2>1, <2>2
<1> QED BY <1>1, <1>2, LockKept

LEMMA RenewKeeps ==
  ASSUME LeaseOutlasts, LockInv, BaseInv', NEW o \in Operations, Renew(o), UNCHANGED overran
  PROVE  LockInv'
<1>0. /\ Typed /\ Typed' /\ OpInv(o) /\ BaseInv /\ Holds(o) /\ OthersSame(o) /\ now' = now
      /\ faults' <= faults
  BY StepFrame DEF LockInv, BaseInv, Step
<1>1. /\ pc[o] = "running" /\ pc'[o] = "running" /\ UNCHANGED <<t, existing, id>> /\ renewAt[o] = now
      /\ row \in Rows /\ renewAt \in [Operations -> Nat]
  BY <1>0 DEF Renew, At, Typed, TOps, TStore
<1>2. \A i : Kept(i)' <=> Kept(i)
  BY <1>0, <1>1, KeptSame
<1>3. /\ faults \in Nat /\ faults' \in Nat /\ Slack(faults') \in Nat /\ Slack(faults) \in Nat
      /\ Slack(faults') <= Slack(faults) /\ Slack(faults) <= Slack(MaxFaults)
      /\ Slack(MaxFaults) \in Nat /\ now \in Nat /\ t[o] \in Nat /\ t[o] <= now
      /\ row.locked \in Nat /\ row.exp \in Nat
  <2>1. faults \in Nat /\ faults' \in Nat /\ faults <= MaxFaults /\ MaxFaults \in Nat
    BY <1>0, Constants DEF Typed
  <2> QED BY <1>0, <2>1, Fields, SlackStep DEF OpInv
<1>4. CASE ExtendProcessingLock(id[o], o) /\ renewAt' = [renewAt EXCEPT ![o] = now + Interval]
  <2>1. /\ row.id = id[o] /\ row.fp = o /\ row'.id = row.id /\ row'.fp = row.fp
        /\ row'.status = "processing" /\ row'.locked = now + Timeout /\ row'.exp = now + TTL
        /\ renewAt'[o] = now + Interval
    BY <1>1, <1>4 DEF ExtendProcessingLock, Extendable, Rows
  <2>2. /\ now + Interval + Slack(faults') < now + Timeout
        /\ now + Interval + Slack(faults') < now + TTL /\ now + Interval > 0
        /\ t[o] + Timeout <= now + Timeout /\ t[o] + Timeout <= now + TTL
    BY <1>3, Constants DEF LeaseOutlasts
  <2>3. Holds(o)'
    BY <1>0, <1>1, <1>2, <2>1, <2>2 DEF Holds
  <2> QED BY <1>0, <1>1, <2>1, <2>3, OwnRowKeeps
<1>5. ASSUME NEW n \in Nat, UNCHANGED store, renewAt' = [renewAt EXCEPT ![o] = n],
             Kept(id[o]) /\ existing[o] = NoRow => /\ n > 0 /\ n + Slack(faults') < row.locked
                                                   /\ n + Slack(faults') < row.exp
      PROVE  LockInv'
  <2>1. row' = row /\ renewAt'[o] = n
    BY <1>1, <1>5 DEF store
  <2>2. Holds(o)'
    BY <1>0, <1>1, <1>2, <1>5, <2>1 DEF Holds
  <2>3. ASSUME NEW p \in Operations \ {o} PROVE Holds(p)'
    BY <1>0, <1>2, <2>1, HoldsOther DEF LockInv
  <2> QED BY <1>0, <1>1, <1>2, <2>2, <2>3, LockKept
<1>6. CASE ~Extendable(id[o], o) /\ UNCHANGED store /\ renewAt' = [renewAt EXCEPT ![o] = 0]
  BY <1>0, <1>1, <1>5, <1>6 DEF Holds, Extendable
<1>7. CASE Fault /\ UNCHANGED store /\ renewAt' = [renewAt EXCEPT ![o] = now + Interval]
  <2>1. faults > 0 /\ faults' = faults - 1
    BY <1>7 DEF Fault
  <2>2. Slack(faults) = Slack(faults') + Interval
    BY <1>3, <2>1, SlackStep
  <2>3. now + Interval \in Nat /\ now + Interval > 0
    BY <1>3, Constants
  <2>4. ASSUME Kept(id[o]), existing[o] = NoRow
        PROVE  now + Interval + Slack(faults') < row.locked /\ now + Interval + Slack(faults') < row.exp
    <3>1. renewAt[o] + Slack(faults) < row.locked /\ renewAt[o] + Slack(faults) < row.exp
      BY <1>0, <1>1, <2>4 DEF Holds
    <3> QED BY <1>1, <1>3, <2>2, <3>1, Constants
  <2> QED BY <1>5, <1>7, <2>3, <2>4
<1> QED BY <1>4, <1>6, <1>7 DEF Renew

LEMMA ReleaseKeeps ==
  ASSUME LockInv, BaseInv', NEW o \in Operations, Release(o), UNCHANGED overran
  PROVE  LockInv'
<1>0. /\ Typed /\ OthersSame(o) /\ now' = now /\ faults' <= faults
  BY StepFrame DEF LockInv, BaseInv, Step
<1>1. pc[o] = "running" /\ pc'[o] = "done" /\ id'[o] = id[o]
  BY <1>0 DEF Release, At, Stop, Goto, Typed, TOps
<1>2. CASE row.id = id[o]
  <2>1. Holds(o)'
    BY <1>1 DEF Holds
  <2> QED BY <1>0, <1>1, <1>2, <2>1, OwnRowKeeps
<1>3. CASE row.id # id[o]
  <2>1. row' = row
    BY <1>3 DEF Release, MarkSucceeded, MarkFailedRetryable, store
  <2> QED BY <1>0, <1>1, <2>1, QuietKeeps
<1> QED BY <1>2, <1>3

\* Acquire, with the claim of a new or an old record, and a death.
LEMMA AcquireKeeps ==
  ASSUME LeaseOutlasts, LockInv, BaseInv', NEW o \in Operations, UNCHANGED overran,
         Acquire(o) \/ Create(o) \/ Get(o) \/ Reclaim(o) \/ Crash(o)
  PROVE  LockInv'
<1>0. /\ Typed /\ OpInv(o) /\ OthersSame(o) /\ now' = now /\ faults' <= faults /\ lastId \in Nat
      /\ row \in Rows
  BY StepFrame DEF LockInv, BaseInv, Step, Typed, TStore
<1>1. CASE Acquire(o) \/ Get(o) \/ Crash(o)
  <2>1. pc'[o] # "running" /\ id'[o] = id[o] /\ row' = row
    BY <1>0, <1>1 DEF Acquire, Get, Crash, Stop, Goto, store, Typed, TOps
  <2> QED BY <1>0, <2>1, QuietKeeps
<1>2. CASE Create(o)
  <2>0. pc[o] = "create" /\ UNCHANGED <<t, existing>> /\ existing[o] = NoRow
    BY <1>0, <1>2 DEF Create, At, OpInv
  <2>1. CASE UNCHANGED store /\ UNCHANGED id /\ (Stop(o) \/ Goto(o, "get"))
    <3>1. pc'[o] # "running" /\ id'[o] = id[o] /\ row' = row
      BY <1>0, <2>1 DEF Stop, Goto, store, Typed, TOps
    <3> QED BY <1>0, <3>1, QuietKeeps
  <2>2. CASE CreateProcessing(o, t[o]) /\ Hold(o, lastId')
    <3>1. /\ pc'[o] = "running" /\ id'[o] = lastId + 1 /\ renewAt'[o] = now + Interval
          /\ row'.id = lastId + 1 /\ row'.fp = o /\ row'.status = "processing"
          /\ row'.locked = t[o] + Timeout /\ row'.exp = t[o] + TTL /\ row = NoRow
      BY <1>0, <2>2 DEF CreateProcessing, Hold, Goto, Typed, TOps
    <3> QED BY <1>0, <2>0, <3>1, ClaimKeeps
  <2>3. CASE CreateProcessing(o, t[o]) /\ Stop(o)
    <3>1. pc'[o] = "done" /\ row'.status = "processing" /\ row = NoRow
      BY <1>0, <2>3 DEF CreateProcessing, Stop, Goto, Typed, TOps
    <3> QED BY <1>0, <2>0, <3>1, ClaimKeeps
  <2> QED BY <1>2, <2>1, <2>2, <2>3 DEF Create
<1>3. CASE Reclaim(o)
  <2>0. /\ pc[o] = "reclaim" /\ UNCHANGED <<t, existing>> /\ existing[o].id >= 1
        /\ existing[o].id \in Nat
    BY <1>0, <1>3, Fields DEF Reclaim, At, OpInv
  <2>1. CASE UNCHANGED store /\ UNCHANGED id /\ Stop(o)
    <3>1. pc'[o] # "running" /\ id'[o] = id[o] /\ row' = row
      BY <1>0, <2>1 DEF Stop, Goto, store, Typed, TOps
    <3> QED BY <1>0, <3>1, QuietKeeps
  <2>2. CASE TryReclaim(existing[o].id, existing[o].status, t[o]) /\ Hold(o, existing[o].id)
    <3>1. /\ pc'[o] = "running" /\ id'[o] = existing[o].id /\ renewAt'[o] = now + Interval
          /\ row'.id = existing[o].id /\ row'.status = "processing"
          /\ row'.locked = t[o] + Timeout /\ row'.exp = t[o] + TTL /\ row.locked <= t[o]
      BY <1>0, <2>2 DEF TryReclaim, Reclaimable, Hold, Goto, Typed, TOps, Rows
    <3>2. existing'[o] # NoRow
      BY <2>0 DEF NoRow
    <3> QED BY <1>0, <2>0, <3>1, <3>2, ClaimKeeps
  <2> QED BY <1>3, <2>1, <2>2 DEF Reclaim
<1> QED BY <1>1, <1>2, <1>3

LEMMA CleanupKeeps ==
  ASSUME LockInv, BaseInv', Cleanup, UNCHANGED overran
  PROVE  LockInv'
<1>0. row.exp <= now /\ UNCHANGED <<now, pc, t, existing, id, renewAt, overran>> /\ Typed
  BY DEF Cleanup, DeleteExpired, ExpiredForCleanup, opVars, LockInv, BaseInv
<1>1. ASSUME NEW o \in Operations PROVE Holds(o)'
  <2>1. ASSUME pc[o] = "running", Kept(id[o]) PROVE FALSE
    BY <1>0, <2>1, HolderProtected, Fields
  <2> QED BY <1>0, <2>1 DEF Holds, Kept
<1>2. LeaseExclusive'
  BY <1>0 DEF LockInv, LeaseExclusive, At
<1> QED BY <1>1, <1>2 DEF LockInv

\* An operation whose lease of a taken-over record ends now has overrun.
LEMMA TickKeeps ==
  ASSUME LockInv, BaseInv', Tick
  PROVE  LockInv'
<1>0. /\ UNCHANGED <<row, faults, pc, t, existing, id, renewAt>> /\ now' = now + 1 /\ Typed
      /\ overran \subseteq overran'
  BY DEF Tick, Fine, store, opVars, LockInv, BaseInv
<1>1. ASSUME NEW o \in Operations PROVE Holds(o)'
  <2> SUFFICES ASSUME pc[o] = "running", Kept(id[o])' PROVE Holds(o)'
    BY <1>0 DEF Holds
  <2>1. Kept(id[o]) /\ o \notin overran'
    BY <1>0 DEF Kept
  <2>2. existing[o] # NoRow => now' < t[o] + Timeout
    <3>1. existing[o] # NoRow => ~(now' >= t[o] + Timeout)
      BY <2>1 DEF Tick, At
    <3>2. now' \in Nat /\ t[o] \in Nat
      BY <1>0, Fields
    <3> QED BY <3>1, <3>2, Constants
  <2> QED BY <1>0, <2>1, <2>2 DEF LockInv, Holds
<1>2. LeaseExclusive'
  BY <1>0 DEF LockInv, LeaseExclusive, At
<1> QED BY <1>1, <1>2 DEF LockInv

LEMMA LockStep ==
  ASSUME LeaseOutlasts, LockInv, [Next]_vars
  PROVE  LockInv'
<1>0. BaseInv'
  BY BaseStep DEF LockInv
<1>1. CASE UNCHANGED vars
  <2>1. UNCHANGED <<row, faults, now, pc, t, existing, id, renewAt, overran>>
    BY <1>1 DEF vars, store, opVars
  <2> QED BY <1>0, <2>1 DEF LockInv, Holds, Kept, LeaseExclusive, At
<1>2. ASSUME NEW o \in Operations, Step(o), UNCHANGED overran PROVE LockInv'
  BY <1>0, <1>2, AcquireKeeps, RenewKeeps, ReleaseKeeps DEF Step
<1> QED BY <1>0, <1>1, <1>2, CleanupKeeps, TickKeeps DEF Next

LEMMA LockInit == Init => BaseInv /\ LockInv
<1> SUFFICES ASSUME Init PROVE BaseInv /\ LockInv
  OBVIOUS
<1>1. /\ row = NoRow /\ lastId = 0 /\ now = 0 /\ faults = MaxFaults /\ overran = {}
      /\ \A o \in Operations : /\ pc[o] = "new" /\ t[o] = 0 /\ existing[o] = NoRow /\ id[o] = 0
                               /\ renewAt[o] = 0
  BY DEF Init, StoreInit
<1>2. Typed
  BY <1>1, NoneTyped, Constants DEF Init, Typed, TStore, TOps, Labels
<1>3. IdRow /\ \A o \in Operations : OpInv(o) /\ Holds(o)
  BY <1>1 DEF IdRow, OpInv, Holds, NoRow
<1>4. LeaseExclusive
  BY <1>1 DEF LeaseExclusive, At
<1> QED BY <1>2, <1>3, <1>4 DEF BaseInv, LockInv

-----------------------------------------------------------------------------
\* Every state is of the types the code stores, and the renewal goroutine runs
\* only while its operation does.
THEOREM LockTypes == Spec => []TypeOK
<1>1. BaseInv /\ [Next]_vars => BaseInv'
  BY BaseStep
<1>2. BaseInv => TypeOK
  <2> SUFFICES ASSUME BaseInv PROVE TypeOK
    OBVIOUS
  <2>1. Typed /\ \A o \in Operations : t[o] \in 0 .. now /\ id[o] \in 0 .. lastId
    BY Fields DEF BaseInv, OpInv
  <2>2. StoreTypeOK
    BY <2>1 DEF Typed, TStore, Rows, StoreTypeOK
  <2>3. t \in [Operations -> 0 .. now] /\ id \in [Operations -> 0 .. lastId]
    BY <2>1 DEF Typed, TOps
  <2> QED BY <2>1, <2>2, <2>3 DEF TypeOK, Typed, TOps, BaseInv, OpInv
<1> QED BY <1>1, <1>2, LockInit, PTL DEF Spec

\* The lease of a system operation is exclusive, for any number of operations,
\* when it outlasts an Acquire and the renewals that fail (renewLoop).
THEOREM LeaseHolds ==
  ASSUME MaxAcquire + Interval * (MaxFaults + 1) < Timeout, Timeout <= TTL
  PROVE  Spec => []LeaseExclusive
<1>1. LeaseOutlasts
  <2>1. Interval * (MaxFaults + 1) = Interval + Interval * MaxFaults
    BY Constants
  <2> QED BY <2>1, Constants DEF LeaseOutlasts, Slack
<1>2. LockInv /\ [Next]_vars => LockInv'
  BY <1>1, LockStep
<1>3. LockInv => LeaseExclusive
  BY DEF LockInv
<1> QED BY <1>2, <1>3, LockInit, PTL DEF Spec
============================================================================

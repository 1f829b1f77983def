------------------------- MODULE SystemOperationLock -------------------------
(***************************************************************************)
(* The lock that update, rollback and restart take                        *)
(* (service/system_operation_lock_service.go): one idempotency record      *)
(* whose locked_until is a lease, renewed by a goroutine of the holder     *)
(* every third of the lease.  The operation's id is the fingerprint.       *)
(***************************************************************************)
EXTENDS IdempotencyStore

CONSTANTS
    Interval,   \* renewInterval; the lease is Timeout
    MaxAcquire, \* bound on the duration of Acquire
    MaxHold     \* bound on the time from an Acquire to its Release

ASSUME LockAssumption ==
    Interval \in Nat \ {0} /\ MaxAcquire \in Nat /\ MaxHold \in Nat

VARIABLES
    pc, t,     \* where each operation is, and the time its Acquire took
    existing,  \* the record as its Acquire read it
    id,        \* the record it holds
    renewAt,   \* when its renewal is due; 0 if the goroutine has ended
    overran    \* operations that ran on after the end of a lease they took over

\* One operation per fingerprint: an operation id is used once.
Operations == Fingerprints
opVars     == <<pc, t, existing, id, renewAt>>
vars       == <<store, now, faults, opVars, overran>>

Labels == {"new", "create", "get", "reclaim", "running", "done"}

TypeOK ==
    /\ StoreTypeOK
    /\ pc \in [Operations -> Labels]
    /\ t \in [Operations -> 0 .. now] /\ id \in [Operations -> 0 .. lastId]
    /\ renewAt \in [Operations -> Nat]
    /\ \A o \in Operations : renewAt[o] > 0 => pc[o] = "running"
    /\ overran \subseteq Operations

Init ==
    /\ StoreInit
    /\ pc = [o \in Operations |-> "new"] /\ t = [o \in Operations |-> 0]
    /\ existing = [o \in Operations |-> NoRow] /\ id = [o \in Operations |-> 0]
    /\ renewAt = [o \in Operations |-> 0] /\ overran = {}

At(o, l)   == pc[o] = l
Goto(o, l) == pc' = [pc EXCEPT ![o] = l]

\* The operation is over: Release closes stopCh, which ends the renewal.
Stop(o) == Goto(o, "done") /\ renewAt' = [renewAt EXCEPT ![o] = 0]

\* The lock is returned and its renewal started.
Hold(o, i) ==
    /\ Goto(o, "running")
    /\ id' = [id EXCEPT ![o] = i] /\ renewAt' = [renewAt EXCEPT ![o] = now + Interval]

-----------------------------------------------------------------------------
\* Acquire takes its time ...
Acquire(o) ==
    /\ At(o, "new") /\ Goto(o, "create") /\ t' = [t EXCEPT ![o] = now]
    /\ Fine /\ UNCHANGED <<store, now, existing, id, renewAt>>

\* ... and tries to insert the record; when the read-back fails it is nobody's.
Create(o) ==
    /\ At(o, "create")
    /\ \/ /\ CreateProcessing(o, t[o])
          /\ \/ Hold(o, lastId') /\ Fine
             \/ Stop(o) /\ Fault /\ UNCHANGED id
       \/ row # NoRow /\ Goto(o, "get") /\ Fine /\ UNCHANGED <<store, id, renewAt>>
       \/ Stop(o) /\ Fault /\ UNCHANGED <<store, id>>
    /\ UNCHANGED <<now, t, existing>>

\* The record read is held: processing, and its lease runs.
Held(o) == row.status = "processing" /\ row.locked > t[o]

Get(o) ==
    /\ At(o, "get")
    /\ \/ /\ row # NoRow /\ ~Held(o) /\ Fine
          /\ existing' = [existing EXCEPT ![o] = row] /\ Goto(o, "reclaim")
          /\ UNCHANGED renewAt
       \/ (row = NoRow \/ Held(o)) /\ Stop(o) /\ Fine /\ UNCHANGED existing
       \/ Stop(o) /\ Fault /\ UNCHANGED existing
    /\ UNCHANGED <<store, now, t, id>>

\* A lost race is "busy", whatever the record says then.
Reclaim(o) ==
    /\ At(o, "reclaim")
    /\ LET e == existing[o]
       IN \/ TryReclaim(e.id, e.status, t[o]) /\ Hold(o, e.id) /\ Fine
          \/ /\ ~Reclaimable(e.id, e.status, t[o]) /\ Stop(o) /\ Fine
             /\ UNCHANGED <<store, id>>
          \/ Stop(o) /\ Fault /\ UNCHANGED <<store, id>>
    /\ UNCHANGED <<now, t, existing>>

\* renewLoop: an error is retried at the next tick, a record that does not
\* match any more ends the goroutine, not the operation.
Renew(o) ==
    /\ At(o, "running") /\ renewAt[o] = now
    /\ \/ /\ ExtendProcessingLock(id[o], o) /\ Fine
          /\ renewAt' = [renewAt EXCEPT ![o] = now + Interval]
       \/ /\ ~Extendable(id[o], o) /\ Fine /\ UNCHANGED store
          /\ renewAt' = [renewAt EXCEPT ![o] = 0]
       \/ /\ Fault /\ UNCHANGED store
          /\ renewAt' = [renewAt EXCEPT ![o] = now + Interval]
    /\ UNCHANGED <<now, pc, t, existing, id>>

\* Release: the record is marked whoever holds it by now.
Release(o) ==
    /\ At(o, "running")
    /\ \/ MarkSucceeded(id[o], 0, now + TTL) /\ Fine
       \/ MarkFailedRetryable(id[o], now, now + TTL) /\ Fine
       \/ Fault /\ UNCHANGED store
    /\ Stop(o) /\ UNCHANGED <<now, t, existing, id>>

-----------------------------------------------------------------------------
Crash(o) ==
    /\ pc[o] \notin {"new", "done"} /\ Stop(o) /\ Fault
    /\ UNCHANGED <<store, now, t, existing, id>>

Cleanup == DeleteExpired /\ Fine /\ UNCHANGED <<now, opVars>>

\* A renewal that is due happens before the clock moves on, and no Acquire and
\* no operation lasts longer than its bound.
Tick ==
    /\ now < MaxTime /\ now' = now + 1
    /\ \A o \in Operations :
          /\ renewAt[o] # now \/ renewAt[o] = 0
          /\ pc[o] \in {"create", "get", "reclaim"} => now < t[o] + MaxAcquire
          /\ pc[o] = "running" => now < t[o] + MaxHold
    /\ overran' = overran \union
          {o \in Operations : At(o, "running") /\ existing[o] # NoRow /\ now' >= t[o] + Timeout}
    /\ Fine /\ UNCHANGED <<store, opVars>>

Step(o) ==
    Acquire(o) \/ Create(o) \/ Get(o) \/ Reclaim(o) \/ Renew(o) \/ Release(o) \/ Crash(o)

Next ==
    \/ (\E o \in Operations : Step(o)) /\ UNCHANGED overran
    \/ Cleanup /\ UNCHANGED overran
    \/ Tick

Spec == Init /\ [][Next]_vars

-----------------------------------------------------------------------------
\* The lease holds: two operations run side by side only over a record that an
\* operation had taken over and kept beyond its lease (whose late release may
\* then free the lock of the next).  One that created its record keeps the lock
\* as long as it runs, and a death or a cleanup never lets two in.
LeaseExclusive ==
    \A o, p \in Operations : At(o, "running") /\ At(p, "running") /\ o # p =>
        \E q \in overran : id[q] \in {id[o], id[p]}

=============================================================================

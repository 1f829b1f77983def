-------------------------- MODULE IdempotencyStore --------------------------
(***************************************************************************)
(* One row of idempotency_records, the one of a scope and a key, and the   *)
(* statements of repository/idempotency_repo.go on it.  The coordinator    *)
(* (module Idempotency) and the global lock of system operations (module   *)
(* SystemOperationLock) are both built on them.                            *)
(***************************************************************************)
EXTENDS Integers

CONSTANTS
    Fingerprints,  \* request fingerprints; operation ids for the lock
    TTL,           \* life of a record
    Timeout,       \* ProcessingTimeout: how long locked_until protects a claim
    MaxTime,       \* bound on the clock
    MaxFaults      \* bound on failed statements and process deaths

ASSUME StoreAssumption ==
    /\ TTL \in Nat \ {0} /\ Timeout \in Nat \ {0}
    /\ MaxTime \in Nat /\ MaxFaults \in Nat

VARIABLES
    row,     \* the record, NoRow if there is none
    lastId,  \* the AUTO_INCREMENT counter
    now,
    faults   \* failures left

store == <<row, lastId>>

\* locked_until NULL is 0: both "locked_until <= now" and "not after now".
NoRow == [id |-> 0, fp |-> "-", status |-> "none", locked |-> 0, exp |-> 0, body |-> 0]

StoreTypeOK ==
    /\ row \in [id : Nat, fp : Fingerprints \union {"-"},
                status : {"none", "processing", "succeeded", "failed_retryable"},
                locked : Nat, exp : Nat, body : Nat]
    /\ lastId \in Nat /\ now \in Nat /\ faults \in Nat

StoreInit == row = NoRow /\ lastId = 0 /\ now = 0 /\ faults = MaxFaults

Fine  == UNCHANGED faults
Fault == faults > 0 /\ faults' = faults - 1

-----------------------------------------------------------------------------
\* INSERT IGNORE: only when there is no row.
CreateProcessing(fp, t) ==
    /\ row = NoRow /\ lastId' = lastId + 1
    /\ row' = [id |-> lastId + 1, fp |-> fp, status |-> "processing",
               locked |-> t + Timeout, exp |-> t + TTL, body |-> 0]

\* A faulty variant: the lock window is not compared.
ReclaimableWhileLocked(id, from, t) == row.id = id /\ row.status = from

\* The WHERE clause of TryReclaim.
Reclaimable(id, from, t) == row.id = id /\ row.status = from /\ row.locked <= t

\* TryReclaim.  The fingerprint and an old response stay in the row.
TryReclaim(id, from, t) ==
    /\ Reclaimable(id, from, t)
    /\ row' = [row EXCEPT !.status = "processing", !.locked = t + Timeout, !.exp = t + TTL]
    /\ UNCHANGED lastId

\* The WHERE clause of ExtendProcessingLock.
Extendable(id, fp) == row.id = id /\ row.status = "processing" /\ row.fp = fp

\* A faulty variant: the renewal moves expires_at only.
ExtendExpiryOnly(id, fp) ==
    /\ Extendable(id, fp)
    /\ row' = [row EXCEPT !.exp = now + TTL] /\ UNCHANGED lastId

ExtendProcessingLock(id, fp) ==
    /\ Extendable(id, fp)
    /\ row' = [row EXCEPT !.locked = now + Timeout, !.exp = now + TTL]
    /\ UNCHANGED lastId

\* MarkSucceeded and MarkFailedRetryable look at the id only, so they also
\* overwrite a row that somebody else has claimed meanwhile.
MarkSucceeded(id, body, exp) ==
    /\ row' = IF row.id = id
              THEN [row EXCEPT !.status = "succeeded", !.locked = 0, !.exp = exp, !.body = body]
              ELSE row
    /\ UNCHANGED lastId

MarkFailedRetryable(id, locked, exp) ==
    /\ row' = IF row.id = id
              THEN [row EXCEPT !.status = "failed_retryable", !.locked = locked, !.exp = exp]
              ELSE row
    /\ UNCHANGED lastId

\* A faulty variant: the cleanup goes by locked_until (NULL never matches).
UnlockedForCleanup == 0 < row.locked /\ row.locked <= now

\* The WHERE clause of DeleteExpired.
ExpiredForCleanup == row.exp <= now

\* The cleanup service's DeleteExpired.
DeleteExpired ==
    /\ row # NoRow /\ ExpiredForCleanup
    /\ row' = NoRow /\ UNCHANGED lastId

=============================================================================

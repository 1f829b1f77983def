---------------------------- MODULE OAuthRefresh ----------------------------
(* The renewal of one upstream OAuth account whose provider rotates refresh   *)
(* tokens.  On every instance of the server a background loop                 *)
(* (token_refresh_service.go) and request handlers that need an access token  *)
(* (claude_token_provider.go) share OAuthRefreshAPI.RefreshIfNeeded           *)
(* (oauth_refresh_api.go): a mutex of the process, a lock in Redis that is    *)
(* taken with SETNX and released with DEL, a second read of the account, the  *)
(* call to the provider, the store of the new credentials.                    *)
(*                                                                            *)
(* Credentials are abstracted to their generation: generation g+1 is what the *)
(* provider issues for the refresh token of generation g, which is spent by   *)
(* that.  _token_version, set from the clock at every store, grows with it.   *)
EXTENDS Naturals

CONSTANTS Loops,        \* background loops, one per instance
          Requests,     \* requests, each served once
          Instances,    \* server processes
          InstanceOf,   \* the process a loop or a handler belongs to
          MaxGen,       \* generations, a bound of the model
          MaxRetries,   \* cfg.MaxRetries
          MaxFaults,    \* failed statements, calls and locks and process
                        \* deaths together, a bound of the model
          Free

Workers == Loops \cup Requests

ASSUME OAuthAssumption ==
    /\ Loops \cap Requests = {}
    /\ InstanceOf \in [Workers -> Instances]
    /\ MaxGen \in Nat \ {0}
    /\ MaxRetries \in Nat \ {0}
    /\ MaxFaults \in Nat
    /\ Free \notin Workers

VARIABLES
    db,         \* the row of accounts: generation, status, temp_unschedulable
    issued,     \* the generation the provider issued last
    due,        \* generations up to this one are inside the refresh window
    lock,       \* the refresh lock in Redis: free, or who set it
    mutex,      \* localLocks of each process
    cache,      \* the access token in Redis, 0 when there is none
    pc,         \* where each worker is
    acct,       \* the generation of the account it was called with
    fresh,      \* freshAccount: generation and temp_unschedulable
    alias,      \* freshAccount is the account it was called with
    next,       \* the generation in newCredentials
    locked,     \* lockAcquired
    result,     \* what RefreshIfNeeded returns
    attempt,    \* the attempt of refreshWithRetry
    checked,    \* the stored generation CheckTokenVersion saw
    faults,     \* failures so far
    unlocked,   \* the lock in Redis failed or expired under its holder
    lost,       \* an issued generation was dropped by a failure
    blind,      \* the read of tryRecoverFromRefreshRace failed
    revived,    \* a worker renewed the account with a generation that only it had
    excused     \* a store of credentials fell between the check of a handler
                \* and its write to the cache, or the cache was not corrected

store == <<db, issued, due>>
redis == <<lock, cache>>
call  == <<acct, fresh, alias, next, locked, result, attempt, checked>>
count == <<faults, unlocked, lost, blind, revived, excused>>
vars  == <<store, redis, mutex, pc, call, count>>

Unsched == {"none", "running", "over"}
Results == {"held", "current", "refreshed", "retry", "fatal"}
PCs == {"idle", "done", "mutex", "acquire", "reread", "call", "recover", "persist",
        "release", "clear", "invalidate", "error", "unsched", "wait", "check",
        "store"}

TypeOK ==
    /\ db \in [gen : 1..MaxGen, status : {"active", "error"}, unsched : Unsched]
    /\ issued \in 1..MaxGen /\ due \in 0..MaxGen
    /\ lock \in Workers \cup {Free}
    /\ mutex \in [Instances -> Workers \cup {Free}]
    /\ cache \in 0..MaxGen
    /\ pc \in [Workers -> PCs]
    /\ acct \in [Workers -> 1..MaxGen]
    /\ fresh \in [Workers -> [gen : 1..MaxGen, unsched : Unsched]]
    /\ alias \in [Workers -> BOOLEAN] /\ locked \in [Workers -> BOOLEAN]
    /\ next \in [Workers -> 1..MaxGen]
    /\ result \in [Workers -> Results]
    /\ attempt \in [Workers -> 1..MaxRetries]
    /\ checked \in [Workers -> 0..MaxGen]
    /\ faults \in 0..MaxFaults
    /\ unlocked \in BOOLEAN /\ lost \in BOOLEAN /\ blind \in BOOLEAN
    /\ revived \in BOOLEAN /\ excused \in BOOLEAN

Init ==
    /\ db = [gen |-> 1, status |-> "active", unsched |-> "none"]
    /\ issued = 1 /\ due = 0
    /\ lock = Free /\ mutex = [i \in Instances |-> Free] /\ cache \in {0, 1}
    /\ pc = [w \in Workers |-> "idle"]
    /\ acct = [w \in Workers |-> 1] /\ next = [w \in Workers |-> 1]
    /\ fresh = [w \in Workers |-> [gen |-> 1, unsched |-> "none"]]
    /\ alias = [w \in Workers |-> FALSE] /\ locked = [w \in Workers |-> FALSE]
    /\ result = [w \in Workers |-> "current"]
    /\ attempt = [w \in Workers |-> 1]
    /\ checked = [w \in Workers |-> 0]
    /\ faults = 0
    /\ unlocked = FALSE /\ lost = FALSE /\ blind = FALSE /\ revived = FALSE /\ excused = FALSE

-----------------------------------------------------------------------------
(* Helpers.                                                                  *)

Go(w, p) == pc' = [pc EXCEPT ![w] = p]

\* One statement or call of the code fails.
Fault == /\ faults < MaxFaults
         /\ faults' = faults + 1
NoFault == UNCHANGED faults

\* The expiry of generation g lies inside the refresh window.
NeedsRefresh(g) == g <= due

\* A faulty variant: the comparison with NULL is not caught.
CandidateNotNull == db.status = "active" /\ db.unsched = "over"

\* WHERE status = 'active' AND (temp_unschedulable_until > NOW() AND ...) IS NOT TRUE
Candidate == db.status = "active" /\ db.unsched # "running"

\* A call of RefreshIfNeeded begins at the mutex of the process.
Enter(w) == Go(w, "mutex")

\* A loop waits for its next tick, a request is answered; neither keeps
\* anything.
After(w) == IF w \in Loops THEN "idle" ELSE "done"

Forget(w) ==
    /\ Go(w, After(w))
    /\ acct' = [acct EXCEPT ![w] = 1] /\ next' = [next EXCEPT ![w] = 1]
    /\ fresh' = [fresh EXCEPT ![w] = [gen |-> 1, unsched |-> "none"]]
    /\ alias' = [alias EXCEPT ![w] = FALSE]
    /\ locked' = [locked EXCEPT ![w] = FALSE]
    /\ result' = [result EXCEPT ![w] = "current"]
    /\ attempt' = [attempt EXCEPT ![w] = 1]
    /\ checked' = [checked EXCEPT ![w] = 0]

-----------------------------------------------------------------------------
(* The callers.                                                              *)

\* processRefresh lists the candidates and finds the account due.
ProcessRefresh(w) ==
    /\ w \in Loops /\ pc[w] = "idle"
    /\ Candidate /\ NeedsRefresh(db.gen)
    /\ acct' = [acct EXCEPT ![w] = db.gen]
    /\ Enter(w)
    /\ UNCHANGED <<store, redis, mutex, fresh, alias, next, locked, result,
                   attempt, checked, count>>

\* GetAccessToken of a request the scheduler gave this account: the cache has
\* no token, or cannot be read.  A hit returns at once and changes nothing.
GetAccessToken(w) ==
    /\ w \in Requests /\ pc[w] = "idle"
    /\ db.status = "active" /\ db.unsched # "running"
    /\ \/ cache = 0 /\ NoFault
       \/ cache # 0 /\ Fault
    /\ acct' = [acct EXCEPT ![w] = db.gen]
    /\ IF NeedsRefresh(db.gen) THEN Enter(w) ELSE Go(w, "check")
    /\ UNCHANGED <<store, redis, mutex, fresh, alias, next, locked, result,
                   attempt, checked, unlocked, lost, blind, revived, excused>>

-----------------------------------------------------------------------------
(* RefreshIfNeeded.                                                          *)

\* localMu.Lock().
LockLocal(w) ==
    /\ pc[w] = "mutex" /\ mutex[InstanceOf[w]] = Free
    /\ mutex' = [mutex EXCEPT ![InstanceOf[w]] = w]
    /\ Go(w, "acquire")
    /\ UNCHANGED <<store, redis, call, count>>

\* AcquireRefreshLock: SETNX sets the lock, or another holder has it, or Redis
\* answers with an error (after setting it, or not) and the refresh goes on
\* without the lock.
AcquireRefreshLock(w) ==
    /\ pc[w] = "acquire"
    /\ \/ /\ lock = Free
          /\ lock' = w /\ locked' = [locked EXCEPT ![w] = TRUE]
          /\ Go(w, "reread")
          /\ NoFault /\ UNCHANGED <<result, unlocked>>
       \/ /\ lock # Free
          /\ result' = [result EXCEPT ![w] = "held"]
          /\ Go(w, "release")
          /\ NoFault /\ UNCHANGED <<lock, locked, unlocked>>
       \/ /\ Fault /\ unlocked' = TRUE
          /\ lock' \in {lock, IF lock = Free THEN w ELSE lock}
          /\ Go(w, "reread")
          /\ UNCHANGED <<locked, result>>
    /\ UNCHANGED <<store, cache, mutex, acct, fresh, alias, next, attempt,
                   checked, lost, blind, revived, excused>>

\* The account is read again under the lock, or, when that fails, taken as it
\* was passed; it may no longer need a refresh.
Reread(w) ==
    /\ pc[w] = "reread"
    /\ \/ /\ NoFault
          /\ fresh' = [fresh EXCEPT ![w] = [gen |-> db.gen, unsched |-> db.unsched]]
          /\ alias' = [alias EXCEPT ![w] = FALSE]
       \/ /\ Fault
          /\ fresh' = [fresh EXCEPT ![w] = [gen |-> acct[w], unsched |-> "none"]]
          /\ alias' = [alias EXCEPT ![w] = TRUE]
    /\ IF NeedsRefresh(fresh'[w].gen)
         THEN Go(w, "call") /\ UNCHANGED result
         ELSE Go(w, "release") /\ result' = [result EXCEPT ![w] = "current"]
    /\ UNCHANGED <<store, redis, mutex, acct, next, locked, attempt, checked,
                   unlocked, lost, blind, revived, excused>>

\* executor.Refresh.  A refresh token that was used before is an invalid_grant;
\* the call may also fail, with or without effect at the provider.
Refresh(w) ==
    /\ pc[w] = "call"
    /\ \/ /\ fresh[w].gen = issued /\ NoFault
          /\ issued' = issued + 1
          /\ next' = [next EXCEPT ![w] = issued + 1]
          /\ revived' = (revived \/ fresh[w].gen > db.gen)
          /\ Go(w, "persist")
          /\ UNCHANGED <<result, lost>>
       \/ /\ fresh[w].gen = issued /\ Fault
          /\ issued' = issued + 1 /\ lost' = TRUE
          /\ result' = [result EXCEPT ![w] = "retry"]
          /\ Go(w, "release")
          /\ UNCHANGED <<next, revived>>
       \/ /\ Fault
          /\ result' = [result EXCEPT ![w] = "retry"]
          /\ Go(w, "release")
          /\ UNCHANGED <<issued, next, lost, revived>>
       \/ /\ fresh[w].gen # issued /\ NoFault
          /\ Go(w, "recover")
          /\ UNCHANGED <<issued, next, result, lost, revived>>
    /\ UNCHANGED <<db, due, redis, mutex, acct, fresh, alias, locked, attempt,
                   checked, unlocked, blind, excused>>

\* A faulty variant: a lost race is not recognised.
NeverRecovered(w) == FALSE

\* tryRecoverFromRefreshRace: a refresh token in the database other than the
\* one used means that somebody else has renewed the account.
RefreshTokenDiffers(w) == db.gen # fresh[w].gen

TryRecoverFromRefreshRace(w) ==
    /\ pc[w] = "recover"
    /\ \/ /\ RefreshTokenDiffers(w) /\ NoFault
          /\ fresh' = [fresh EXCEPT ![w] = [gen |-> db.gen, unsched |-> db.unsched]]
          /\ result' = [result EXCEPT ![w] = "current"]
          /\ UNCHANGED blind
       \/ /\ \/ ~RefreshTokenDiffers(w) /\ NoFault /\ UNCHANGED blind
             \/ Fault /\ blind' = TRUE
          /\ result' = [result EXCEPT ![w] = "fatal"]
          /\ UNCHANGED fresh
    /\ Go(w, "release")
    /\ UNCHANGED <<store, redis, mutex, acct, alias, next, locked, attempt,
                   checked, unlocked, lost, revived, excused>>

\* A faulty variant: the old credentials win.
MergeOldFirst(old, new) == old

\* MergeCredentials keeps an old field only where the new ones have none.
MergeCredentials(old, new) == new

\* persistAccountCredentials assigns the credentials to the account it was
\* given, also when the update then fails.
PersistAccountCredentials(w) ==
    LET creds == MergeCredentials(fresh[w].gen, next[w]) IN
    /\ pc[w] = "persist"
    /\ fresh' = [fresh EXCEPT ![w].gen = creds]
    /\ acct' = [acct EXCEPT ![w] = IF alias[w] THEN creds ELSE @]
    /\ \/ /\ NoFault
          /\ db' = [db EXCEPT !.gen = creds]
          /\ result' = [result EXCEPT ![w] = "refreshed"]
          /\ UNCHANGED lost
       \/ /\ Fault
          /\ lost' = TRUE
          /\ result' = [result EXCEPT ![w] = "retry"]
          /\ UNCHANGED db
    /\ Go(w, "release")
    /\ UNCHANGED <<issued, due, redis, mutex, alias, next, locked, attempt,
                   checked, unlocked, blind, revived, excused>>

-----------------------------------------------------------------------------
(* The return from RefreshIfNeeded and what the callers do with its result.  *)

\* What refreshWithRetry does next, unless the refresh was skipped.
LoopNext(w) ==
    CASE result[w] = "refreshed" -> "clear"
      [] result[w] = "fatal" -> "error"
      [] result[w] = "retry" /\ attempt[w] < MaxRetries -> "mutex"
      [] OTHER -> "unsched"

\* What GetAccessToken does next: a handler that finds the lock held waits and
\* looks at the cache again, any other goes on to the version check.
RequestNext(w) == IF result[w] = "held" THEN "wait" ELSE "check"

\* The deferred ReleaseRefreshLock deletes the lock whoever holds it now (the
\* deletion may fail), then the mutex is unlocked.
Release(w) ==
    /\ pc[w] = "release"
    /\ \/ locked[w] /\ lock' = Free /\ NoFault
       \/ locked[w] /\ Fault /\ UNCHANGED lock
       \/ ~locked[w] /\ NoFault /\ UNCHANGED lock
    /\ mutex' = [mutex EXCEPT ![InstanceOf[w]] = Free]
    /\ IF w \in Loops /\ result[w] \in {"held", "current"}
         THEN Forget(w)
         ELSE /\ Go(w, IF w \in Loops THEN LoopNext(w) ELSE RequestNext(w))
              /\ locked' = [locked EXCEPT ![w] = FALSE]
              /\ attempt' = [attempt EXCEPT ![w] =
                    IF w \in Loops /\ LoopNext(w) = "mutex" THEN @ + 1 ELSE @]
              /\ acct' = [acct EXCEPT ![w] =
                    IF w \in Requests /\ result[w] \in {"refreshed", "current"}
                      THEN fresh[w].gen ELSE @]
              /\ UNCHANGED <<fresh, alias, next, result, checked>>
    /\ UNCHANGED <<store, cache, unlocked, lost, blind, revived, excused>>

\* postRefreshActions: a running temp_unschedulable is cleared.
ClearTempUnschedulable(w) ==
    /\ pc[w] = "clear"
    /\ \/ fresh[w].unsched = "running" /\ NoFault
          /\ db' = [db EXCEPT !.unsched = "none"]
       \/ fresh[w].unsched = "running" /\ Fault /\ UNCHANGED db
       \/ fresh[w].unsched # "running" /\ NoFault /\ UNCHANGED db
    /\ Go(w, "invalidate")
    /\ UNCHANGED <<issued, due, redis, mutex, call, unlocked, lost,
                   blind, revived, excused>>

\* postRefreshActions: InvalidateToken deletes the cached token, or fails.
InvalidateToken(w) ==
    /\ pc[w] = "invalidate"
    /\ \/ NoFault /\ cache' = 0 /\ UNCHANGED excused
       \/ Fault /\ UNCHANGED cache /\ excused' = TRUE
    /\ Forget(w)
    /\ UNCHANGED <<store, lock, mutex, unlocked, lost, blind, revived>>

\* A faulty variant: the account is saved as the worker has it.
ErrorWholeRow(w) == [db EXCEPT !.status = "error", !.gen = acct[w]]

\* accountRepo.SetError changes the status and leaves the credentials alone.
ErrorRow(w) == [db EXCEPT !.status = "error"]

SetError(w) ==
    /\ pc[w] = "error"
    /\ \/ NoFault /\ db' = ErrorRow(w)
       \/ Fault /\ UNCHANGED db
    /\ Forget(w)
    /\ UNCHANGED <<issued, due, redis, mutex, unlocked, lost,
                   blind, revived, excused>>

\* The retries are used up: the account is put aside for ten minutes.
SetTempUnschedulable(w) ==
    /\ pc[w] = "unsched"
    /\ \/ NoFault /\ db' = [db EXCEPT !.unsched = "running"]
       \/ Fault /\ UNCHANGED db
    /\ Forget(w)
    /\ UNCHANGED <<issued, due, redis, mutex, unlocked, lost,
                   blind, revived, excused>>

\* ProviderLockHeldWaitForCache: a token in the cache is used, otherwise the
\* handler goes on with the token it has.
WaitForCache(w) ==
    /\ pc[w] = "wait"
    /\ \/ cache # 0 /\ Forget(w)
       \/ cache = 0 /\ Go(w, "check") /\ UNCHANGED call
    /\ UNCHANGED <<store, redis, mutex, count>>

\* A faulty variant: the version is not checked.
NeverStale(w) == FALSE

\* CheckTokenVersion: the stored credentials are newer than the handler's.
Stale(w) == db.gen > acct[w]

CheckTokenVersion(w) ==
    /\ pc[w] = "check"
    /\ \/ Stale(w) /\ NoFault /\ Forget(w)
       \/ /\ \/ ~Stale(w) /\ NoFault /\ checked' = [checked EXCEPT ![w] = db.gen]
             \/ Fault /\ checked' = [checked EXCEPT ![w] = 0]
          /\ Go(w, "store")
          /\ UNCHANGED <<acct, fresh, alias, next, locked, result, attempt>>
    /\ UNCHANGED <<store, redis, mutex, unlocked, lost, blind, revived, excused>>

\* SetAccessToken, which may fail.
SetAccessToken(w) ==
    /\ pc[w] = "store"
    /\ \/ /\ NoFault /\ cache' = acct[w]
          /\ excused' = (excused \/ checked[w] # db.gen)
       \/ Fault /\ UNCHANGED cache /\ excused' = TRUE
    /\ Forget(w)
    /\ UNCHANGED <<store, lock, mutex, unlocked, lost, blind, revived>>

\* A worker has stored new credentials and has yet to correct the cache.
Correcting(w) ==
    /\ result[w] = "refreshed"
    /\ pc[w] \in {"release", "clear", "invalidate", "check", "store"}

-----------------------------------------------------------------------------
(* Time and process deaths.                                                  *)

\* A generation enters the refresh window; older ones did so before.
Age ==
    /\ due < issued /\ due < MaxGen - 1
    /\ due' = due + 1
    /\ UNCHANGED <<db, issued, redis, mutex, pc, call, count>>

\* The ten minutes of temp_unschedulable are over.
UnschedEnds ==
    /\ db.unsched = "running"
    /\ db' = [db EXCEPT !.unsched = "over"]
    /\ UNCHANGED <<issued, due, redis, mutex, pc, call, count>>

\* The token in the cache reaches its TTL.
CacheExpires ==
    /\ cache # 0 /\ cache' = 0
    /\ UNCHANGED <<store, lock, mutex, pc, call, count>>

\* The lock reaches its TTL of 60 seconds after its holder has gone.
LockExpires ==
    /\ lock # Free /\ ~locked[lock] /\ lock' = Free
    /\ UNCHANGED <<store, cache, mutex, pc, call, count>>

\* The same while its holder still works.
LockExpiresEarly ==
    /\ lock # Free /\ locked[lock] /\ lock' = Free
    /\ Fault /\ unlocked' = TRUE
    /\ UNCHANGED <<store, cache, mutex, pc, call, lost, blind, revived, excused>>

\* A process dies and is started again; what it held in Redis stays.
Crash(i) ==
    LET dead == {w \in Workers : InstanceOf[w] = i} IN
    /\ Fault
    /\ \E w \in dead : pc[w] \notin {"idle", "done"}
    /\ mutex' = [mutex EXCEPT ![i] = Free]
    /\ pc' = [w \in Workers |->
          IF w \in dead /\ pc[w] # "idle" THEN After(w) ELSE pc[w]]
    /\ acct' = [w \in Workers |-> IF w \in dead THEN 1 ELSE acct[w]]
    /\ next' = [w \in Workers |-> IF w \in dead THEN 1 ELSE next[w]]
    /\ fresh' = [w \in Workers |->
          IF w \in dead THEN [gen |-> 1, unsched |-> "none"] ELSE fresh[w]]
    /\ alias' = [w \in Workers |-> alias[w] /\ w \notin dead]
    /\ locked' = [w \in Workers |-> locked[w] /\ w \notin dead]
    /\ result' = [w \in Workers |-> IF w \in dead THEN "current" ELSE result[w]]
    /\ attempt' = [w \in Workers |-> IF w \in dead THEN 1 ELSE attempt[w]]
    /\ checked' = [w \in Workers |-> IF w \in dead THEN 0 ELSE checked[w]]
    /\ lost' = (lost \/ \E w \in dead : pc[w] = "persist")
    /\ excused' = (excused \/ \E w \in dead : Correcting(w))
    /\ UNCHANGED <<store, redis, unlocked, blind, revived>>

Step(w) ==
    \/ LockLocal(w) \/ AcquireRefreshLock(w) \/ Reread(w) \/ Refresh(w)
    \/ TryRecoverFromRefreshRace(w) \/ PersistAccountCredentials(w)
    \/ Release(w) \/ ClearTempUnschedulable(w) \/ InvalidateToken(w)
    \/ SetError(w) \/ SetTempUnschedulable(w)
    \/ WaitForCache(w) \/ CheckTokenVersion(w) \/ SetAccessToken(w)

Next ==
    \/ \E w \in Loops : ProcessRefresh(w)
    \/ \E w \in Requests : GetAccessToken(w)
    \/ \E w \in Workers : Step(w)
    \/ Age \/ UnschedEnds \/ CacheExpires \/ LockExpires \/ LockExpiresEarly
    \/ \E i \in Instances : Crash(i)

\* Goroutines that can run do so, the ticker of each loop fires again, the
\* expiries of Redis and of temp_unschedulable happen; requests, failures and
\* the passing of a token's lifetime need not.
Fairness ==
    /\ \A w \in Workers : WF_vars(Step(w))
    /\ \A w \in Loops : WF_vars(ProcessRefresh(w))
    /\ WF_vars(UnschedEnds) /\ WF_vars(LockExpires)

Spec == Init /\ [][Next]_vars /\ Fairness
-----------------------------------------------------------------------------
(* Properties.                                                               *)

\* With a lock that works and a recovery that can read, an account is disabled
\* (SetError in refreshWithRetry) only when its refresh token was really lost:
\* a failure dropped an issued generation and the stored one is spent, unless
\* the worker that could not store it has renewed the account with it since.
ErrorIsDeserved ==
    db.status = "error" /\ ~unlocked /\ ~blind => lost /\ (db.gen < issued \/ revived)

\* Also with a lock that fails or expires, RefreshIfNeeded drops no refresh
\* token: the newest one is stored, or in the hands of the worker about to
\* store it, unless a failed call, a failed update or a death dropped it.
NoTokenLost ==
    issued > db.gen =>
        lost \/ \E w \in Workers : pc[w] = "persist" /\ next[w] = issued

\* Also with a lock that fails or expires, no statement of any worker puts
\* older credentials in the place of newer ones.
CredentialsAdvance == [][db'.gen >= db.gen]_vars

\* The version check keeps an old access token out of the cache: a cached token
\* is older than the stored one only until the worker that stored it corrects
\* the cache, or after a store slipped between check and write, or a failure.
StaleCacheExplained ==
    cache # 0 /\ cache < db.gen => excused \/ \E w \in Workers : Correcting(w)

\* A stored token that enters the refresh window is renewed, or its account is
\* disabled: skipped attempts, retries, the ten minutes aside and locks left by
\* dead processes only delay it.
TokenIsRenewed ==
    (NeedsRefresh(db.gen) /\ db.status = "active")
        ~> (~NeedsRefresh(db.gen) \/ db.status = "error")
=============================================================================

------------------------- MODULE OAuthRefreshProofs -------------------------
(* Proofs about OAuthRefresh for any number of loops, requests, instances,    *)
(* generations, retries and failures.                                         *)
EXTENDS OAuthRefresh, TLAPS

\* Between the lock in Redis and its release.
Critical == {"reread", "call", "recover", "persist"}

\* No worker and no row is ahead of the provider, and a token is only renewed
\* inside its window.
Behind ==
    /\ db.gen <= issued /\ due < MaxGen
    /\ \A w \in Workers : /\ acct[w] <= issued /\ fresh[w].gen <= issued
                          /\ pc[w] = "call" => fresh[w].gen <= due
                          /\ pc[w] = "recover" => fresh[w].gen < issued

\* A worker about to store a generation is the only one that has it: the row is
\* older, and so is whatever any worker would use or store.
StoresNewest ==
    \A w \in Workers : pc[w] = "persist" =>
        /\ next[w] = issued /\ db.gen < issued
        /\ \A u \in Workers : /\ acct[u] < issued /\ fresh[u].gen < issued
                              /\ pc[u] = "persist" => u = w

\* A generation that was dropped stays dropped until somebody who still has it
\* renews the account with it.
LostIsLost ==
    lost /\ ~revived => db.gen < issued /\ \A w \in Workers : pc[w] # "persist"

\* While the lock neither fails nor expires early, whoever works under it has it.
LockWorks ==
    ~unlocked => \A w \in Workers : /\ locked[w] => lock = w
                                    /\ pc[w] \in Critical => locked[w]

\* An invalid_grant that recovery does not explain is a lost token.
FatalIsLost ==
    ~unlocked /\ ~blind =>
        /\ db.status = "error" => lost
        /\ \A w \in Workers : pc[w] \in {"release", "error"} /\ result[w] = "fatal" => lost
        /\ \A w \in Workers : pc[w] = "error" => result[w] = "fatal"

\* A worker that has stored the newest credentials and will correct the cache.
WillCorrect(w) ==
    /\ result[w] = "refreshed"
    /\ \/ pc[w] = "release" /\ fresh[w].gen = db.gen
       \/ pc[w] \in {"clear", "invalidate"}
       \/ pc[w] \in {"check", "store"} /\ acct[w] = db.gen

\* An old token in the cache will be corrected, and a handler that has checked
\* the version and found it current does not write an old one.
CacheCorrected ==
    /\ cache # 0 /\ cache < db.gen => excused \/ \E w \in Workers : WillCorrect(w)
    /\ \A w \in Workers : pc[w] = "store" => checked[w] <= acct[w]

RefreshInv == /\ TypeOK /\ Behind /\ StoresNewest /\ NoTokenLost /\ LostIsLost
              /\ LockWorks /\ FatalIsLost /\ CacheCorrected

-----------------------------------------------------------------------------
(* Type correctness.                                                         *)

TCall == /\ acct \in [Workers -> 1..MaxGen] /\ next \in [Workers -> 1..MaxGen]
         /\ fresh \in [Workers -> [gen : 1..MaxGen, unsched : Unsched]]
         /\ alias \in [Workers -> BOOLEAN] /\ locked \in [Workers -> BOOLEAN]
         /\ result \in [Workers -> Results] /\ attempt \in [Workers -> 1..MaxRetries]
         /\ checked \in [Workers -> 0..MaxGen]
TStore == /\ db \in [gen : 1..MaxGen, status : {"active", "error"}, unsched : Unsched]
          /\ issued \in 1..MaxGen /\ due \in 0..MaxGen
TLock == /\ lock \in Workers \cup {Free} /\ mutex \in [Instances -> Workers \cup {Free}]
         /\ cache \in 0..MaxGen /\ pc \in [Workers -> PCs]
TCount == /\ faults \in 0..MaxFaults
          /\ unlocked \in BOOLEAN /\ lost \in BOOLEAN /\ blind \in BOOLEAN
          /\ revived \in BOOLEAN /\ excused \in BOOLEAN

LEMMA TypeParts == TypeOK <=> TCall /\ TStore /\ TLock /\ TCount
  BY DEF TypeOK, TCall, TStore, TLock, TCount

LEMMA TypePartsNext == TypeOK' <=> TCall' /\ TStore' /\ TLock' /\ TCount'
  BY DEF TypeOK, TCall, TStore, TLock, TCount

\* A group keeps its types while its variables do not change.
LEMMA PartsUnchanged ==
  ASSUME TypeOK
  PROVE  /\ UNCHANGED call => TCall'
         /\ UNCHANGED store => TStore'
         /\ UNCHANGED <<redis, mutex, pc>> => TLock'
         /\ UNCHANGED count => TCount'
  BY DEF TypeOK, TCall, TStore, TLock, TCount, call, store, redis, count

LEMMA FaultTyped == TypeOK /\ (Fault \/ NoFault) => faults' \in 0..MaxFaults
  BY OAuthAssumption DEF TypeOK, Fault, NoFault

\* A worker that is done keeps nothing; the others are not touched.
LEMMA ForgetFacts ==
  ASSUME TypeOK, NEW w \in Workers, Forget(w)
  PROVE  /\ TCall' /\ pc' \in [Workers -> PCs]
         /\ pc'[w] \in {"idle", "done"} /\ acct'[w] = 1 /\ fresh'[w].gen = 1
         /\ ~locked'[w] /\ result'[w] = "current"
         /\ \A u \in Workers \ {w} :
               /\ pc'[u] = pc[u] /\ acct'[u] = acct[u] /\ fresh'[u] = fresh[u]
               /\ next'[u] = next[u] /\ locked'[u] = locked[u] /\ result'[u] = result[u]
               /\ checked'[u] = checked[u] /\ alias'[u] = alias[u] /\ attempt'[u] = attempt[u]
<1>1. 1 \in 1..MaxGen /\ 1 \in 1..MaxRetries /\ 0 \in 0..MaxGen /\ "current" \in Results
      /\ [gen |-> 1, unsched |-> "none"] \in [gen : 1..MaxGen, unsched : Unsched]
  BY OAuthAssumption DEF Results, Unsched
<1>2. After(w) \in {"idle", "done"} /\ After(w) \in PCs
  BY DEF After, PCs
<1>3. TCall /\ pc \in [Workers -> PCs]
  BY TypeParts DEF TLock
<1>4. TCall'
  BY <1>1, <1>3 DEF Forget, TCall
<1> QED BY <1>2, <1>3, <1>4 DEF Forget, Go, TCall

\* The callers and the first steps under the locks.
LEMMA EnterTyped ==
  ASSUME TypeOK, Behind, NEW w \in Workers,
         ProcessRefresh(w) \/ GetAccessToken(w) \/ LockLocal(w) \/ AcquireRefreshLock(w)
         \/ Reread(w)
  PROVE  TypeOK'
<1> USE DEF Go
<1>1. CASE ProcessRefresh(w)
  <2>1. TCall' /\ TLock'
    BY <1>1 DEF ProcessRefresh, Enter, TypeOK, TCall, TLock, PCs, redis
  <2> QED BY <1>1, <2>1, TypePartsNext, PartsUnchanged DEF ProcessRefresh
<1>2. CASE GetAccessToken(w)
  <2>1. TCall' /\ TLock'
    BY <1>2 DEF GetAccessToken, Enter, TypeOK, TCall, TLock, PCs, redis
  <2>2. TCount'
    BY <1>2, FaultTyped DEF GetAccessToken, TypeOK, TCount
  <2> QED BY <1>2, <2>1, <2>2, TypePartsNext, PartsUnchanged DEF GetAccessToken
<1>3. CASE LockLocal(w)
  <2>1. TLock'
    BY <1>3, OAuthAssumption DEF LockLocal, TypeOK, TLock, PCs, redis
  <2> QED BY <1>3, <2>1, TypePartsNext, PartsUnchanged DEF LockLocal
<1>4. CASE AcquireRefreshLock(w)
  <2>1. TCall' /\ TLock'
    BY <1>4 DEF AcquireRefreshLock, TypeOK, TCall, TLock, PCs, Results
  <2>2. TCount'
    BY <1>4, FaultTyped DEF AcquireRefreshLock, TypeOK, TCount
  <2> QED BY <1>4, <2>1, <2>2, TypePartsNext, PartsUnchanged DEF AcquireRefreshLock
<1>5. CASE Reread(w)
  <2>1. fresh' \in [Workers -> [gen : 1..MaxGen, unsched : Unsched]]
    <3>1. PICK n \in [gen : 1..MaxGen, unsched : Unsched] : fresh' = [fresh EXCEPT ![w] = n]
      BY <1>5 DEF Reread, TypeOK, Unsched
    <3> QED BY <3>1 DEF TypeOK
  <2>2. TCall' /\ TLock'
    BY <1>5, <2>1 DEF Reread, TypeOK, TCall, TLock, PCs, Results, redis
  <2>3. TCount'
    BY <1>5, FaultTyped DEF Reread, TypeOK, TCount
  <2> QED BY <1>5, <2>2, <2>3, TypePartsNext, PartsUnchanged DEF Reread
<1> QED BY <1>1, <1>2, <1>3, <1>4, <1>5

\* The call to the provider, the recovery, the store and the release.
LEMMA RefreshTyped ==
  ASSUME TypeOK, Behind, NEW w \in Workers,
         Refresh(w) \/ TryRecoverFromRefreshRace(w) \/ PersistAccountCredentials(w) \/ Release(w)
  PROVE  TypeOK'
<1> USE DEF Go
<1>1. CASE Refresh(w)
  <2>1. fresh[w].gen = issued => issued + 1 \in 1..MaxGen
    BY <1>1, OAuthAssumption DEF Refresh, Behind, TypeOK
  <2>2. issued' \in 1..MaxGen /\ next' \in [Workers -> 1..MaxGen]
    BY <1>1, <2>1 DEF Refresh, TypeOK
  <2>3. TStore' /\ TCall'
    BY <1>1, <2>2 DEF Refresh, TypeOK, TStore, TCall, Results
  <2>4. TLock'
    BY <1>1 DEF Refresh, TypeOK, TLock, PCs, redis
  <2>5. TCount'
    BY <1>1, FaultTyped DEF Refresh, TypeOK, TCount
  <2> QED BY <2>3, <2>4, <2>5, TypePartsNext
<1>2. CASE TryRecoverFromRefreshRace(w)
  <2>1. fresh' \in [Workers -> [gen : 1..MaxGen, unsched : Unsched]]
    BY <1>2 DEF TryRecoverFromRefreshRace, TypeOK
  <2>2. TCall' /\ TLock'
    BY <1>2, <2>1 DEF TryRecoverFromRefreshRace, TypeOK, TCall, TLock, PCs, Results, redis
  <2>3. TCount'
    BY <1>2, FaultTyped DEF TryRecoverFromRefreshRace, TypeOK, TCount
  <2> QED BY <1>2, <2>2, <2>3, TypePartsNext, PartsUnchanged DEF TryRecoverFromRefreshRace
<1>3. CASE PersistAccountCredentials(w)
  <2>1. next[w] \in 1..MaxGen
    BY DEF TypeOK
  <2>2. fresh' \in [Workers -> [gen : 1..MaxGen, unsched : Unsched]]
    BY <1>3, <2>1 DEF PersistAccountCredentials, MergeCredentials, TypeOK
  <2>3. db' \in [gen : 1..MaxGen, status : {"active", "error"}, unsched : Unsched]
    BY <1>3, <2>1 DEF PersistAccountCredentials, MergeCredentials, TypeOK
  <2>4. TCall' /\ TLock'
    BY <1>3, <2>1, <2>2
       DEF PersistAccountCredentials, MergeCredentials, TypeOK, TCall, TLock, PCs, Results, redis
  <2>5. TCount'
    BY <1>3, FaultTyped DEF PersistAccountCredentials, TypeOK, TCount
  <2>6. TStore'
    BY <1>3, <2>3 DEF PersistAccountCredentials, TypeOK, TStore
  <2> QED BY <2>4, <2>5, <2>6, TypePartsNext
<1>4. CASE Release(w)
  <2>1. TCount'
    BY <1>4, FaultTyped DEF Release, TypeOK, TCount
  <2>2. /\ lock' \in Workers \cup {Free} /\ mutex' \in [Instances -> Workers \cup {Free}]
        /\ cache' \in 0..MaxGen
    BY <1>4, OAuthAssumption DEF Release, TypeOK
  <2>3. CASE Forget(w)
    BY <1>4, <2>1, <2>2, <2>3, ForgetFacts, TypePartsNext, PartsUnchanged DEF TLock, Release
  <2>4. CASE ~Forget(w)
    <3>1. /\ pc' = [pc EXCEPT ![w] = IF w \in Loops THEN LoopNext(w) ELSE RequestNext(w)]
          /\ locked' = [locked EXCEPT ![w] = FALSE]
          /\ attempt' = [attempt EXCEPT ![w] =
                IF w \in Loops /\ LoopNext(w) = "mutex" THEN @ + 1 ELSE @]
          /\ acct' = [acct EXCEPT ![w] =
                IF w \in Requests /\ result[w] \in {"refreshed", "current"}
                  THEN fresh[w].gen ELSE @]
          /\ UNCHANGED <<fresh, alias, next, result, checked>>
      BY <1>4, <2>4 DEF Release
    <3>2. /\ LoopNext(w) \in PCs /\ RequestNext(w) \in PCs
          /\ LoopNext(w) = "mutex" => attempt[w] < MaxRetries
      BY DEF LoopNext, RequestNext, PCs
    <3>3. TLock'
      BY <2>2, <3>1, <3>2 DEF TypeOK, TLock
    <3>4. attempt' \in [Workers -> 1..MaxRetries]
      BY <3>1, <3>2, OAuthAssumption DEF TypeOK
    <3>5. acct' \in [Workers -> 1..MaxGen]
      BY <3>1 DEF TypeOK
    <3>6. TCall'
      BY <3>1, <3>4, <3>5 DEF TypeOK, TCall
    <3> QED BY <1>4, <2>1, <3>3, <3>6, TypePartsNext, PartsUnchanged DEF Release
  <2> QED BY <2>3, <2>4
<1> QED BY <1>1, <1>2, <1>3, <1>4

\* What the callers do with the result.
LEMMA AfterTyped ==
  ASSUME TypeOK, NEW w \in Workers,
         \/ ClearTempUnschedulable(w) \/ InvalidateToken(w) \/ SetError(w)
         \/ SetTempUnschedulable(w) \/ WaitForCache(w) \/ CheckTokenVersion(w)
         \/ SetAccessToken(w)
  PROVE  TypeOK'
<1> USE DEF Go
<1>1. CASE ClearTempUnschedulable(w)
  <2>1. TStore'
    BY <1>1 DEF ClearTempUnschedulable, TypeOK, TStore, Unsched
  <2>2. TLock'
    BY <1>1 DEF ClearTempUnschedulable, TypeOK, TLock, PCs, redis
  <2>3. TCount'
    BY <1>1, FaultTyped DEF ClearTempUnschedulable, TypeOK, TCount
  <2> QED BY <1>1, <2>1, <2>2, <2>3, TypePartsNext, PartsUnchanged DEF ClearTempUnschedulable
<1>2. CASE InvalidateToken(w)
  <2>1. TCount'
    BY <1>2, FaultTyped DEF InvalidateToken, TypeOK, TCount
  <2>2. TLock' /\ TCall'
    BY <1>2, ForgetFacts, OAuthAssumption DEF InvalidateToken, TypeOK, TLock
  <2> QED BY <1>2, <2>1, <2>2, TypePartsNext, PartsUnchanged DEF InvalidateToken
<1>3. CASE SetError(w) \/ SetTempUnschedulable(w)
  <2>1. TCount'
    BY <1>3, FaultTyped DEF SetError, SetTempUnschedulable, TypeOK, TCount
  <2>2. TLock' /\ TCall'
    BY <1>3, ForgetFacts DEF SetError, SetTempUnschedulable, TypeOK, TLock, redis
  <2>3. TStore'
    BY <1>3 DEF SetError, ErrorRow, SetTempUnschedulable, TypeOK, TStore, Unsched
  <2> QED BY <2>1, <2>2, <2>3, TypePartsNext
<1>4. CASE WaitForCache(w)
  <2>1. TLock' /\ TCall'
    BY <1>4, ForgetFacts, PartsUnchanged DEF WaitForCache, TypeOK, TLock, PCs, redis
  <2> QED BY <1>4, <2>1, TypePartsNext, PartsUnchanged DEF WaitForCache
<1>5. CASE CheckTokenVersion(w)
  <2>1. TCount'
    BY <1>5, FaultTyped DEF CheckTokenVersion, TypeOK, TCount
  <2>2. CASE Forget(w)
    BY <1>5, <2>1, <2>2, ForgetFacts, TypePartsNext, PartsUnchanged
       DEF CheckTokenVersion, TypeOK, TLock, redis
  <2>3. CASE ~Forget(w)
    <3>1. checked' \in [Workers -> 0..MaxGen]
      BY <1>5, <2>3, OAuthAssumption DEF CheckTokenVersion, TypeOK
    <3>2. TCall' /\ TLock'
      BY <1>5, <2>3, <3>1 DEF CheckTokenVersion, TypeOK, TCall, TLock, PCs, redis
    <3> QED BY <1>5, <2>1, <3>2, TypePartsNext, PartsUnchanged DEF CheckTokenVersion
  <2> QED BY <2>2, <2>3
<1>6. CASE SetAccessToken(w)
  <2>1. TCount'
    BY <1>6, FaultTyped DEF SetAccessToken, TypeOK, TCount
  <2>2. TLock' /\ TCall'
    BY <1>6, ForgetFacts DEF SetAccessToken, TypeOK, TLock
  <2> QED BY <1>6, <2>1, <2>2, TypePartsNext, PartsUnchanged DEF SetAccessToken
<1> QED BY <1>1, <1>2, <1>3, <1>4, <1>5, <1>6

\* Time and process deaths.
LEMMA TimeTyped ==
  ASSUME TypeOK, Behind,
         \/ Age \/ UnschedEnds \/ CacheExpires \/ LockExpires \/ LockExpiresEarly
         \/ \E i \in Instances : Crash(i)
  PROVE  TypeOK'
<1>1. CASE Age
  <2>1. TStore'
    BY <1>1, OAuthAssumption DEF Age, TypeOK, TStore
  <2> QED BY <1>1, <2>1, TypePartsNext, PartsUnchanged DEF Age
<1>2. CASE UnschedEnds
  <2>1. TStore'
    BY <1>2 DEF UnschedEnds, TypeOK, TStore, Unsched
  <2> QED BY <1>2, <2>1, TypePartsNext, PartsUnchanged DEF UnschedEnds
<1>3. CASE CacheExpires
  <2>1. TLock'
    BY <1>3, OAuthAssumption DEF CacheExpires, TypeOK, TLock
  <2> QED BY <1>3, <2>1, TypePartsNext, PartsUnchanged DEF CacheExpires
<1>4. CASE LockExpires \/ LockExpiresEarly
  <2>1. TLock'
    BY <1>4 DEF LockExpires, LockExpiresEarly, TypeOK, TLock
  <2>2. TCount'
    BY <1>4, FaultTyped DEF LockExpires, LockExpiresEarly, count, TypeOK, TCount
  <2> QED BY <1>4, <2>1, <2>2, TypePartsNext, PartsUnchanged DEF LockExpires, LockExpiresEarly
<1>5. ASSUME NEW i \in Instances, Crash(i) PROVE TypeOK'
  <2>1. 1 \in 1..MaxGen /\ 1 \in 1..MaxRetries /\ 0 \in 0..MaxGen /\ "current" \in Results
        /\ [gen |-> 1, unsched |-> "none"] \in [gen : 1..MaxGen, unsched : Unsched]
    BY OAuthAssumption DEF Results, Unsched
  <2>2. TCall'
    BY <1>5, <2>1 DEF Crash, TypeOK, TCall
  <2>3. TLock'
    BY <1>5 DEF Crash, After, TypeOK, TLock, PCs, redis
  <2>4. TCount'
    BY <1>5, FaultTyped DEF Crash, TypeOK, TCount
  <2> QED BY <1>5, <2>2, <2>3, <2>4, TypePartsNext, PartsUnchanged DEF Crash
<1> QED BY <1>1, <1>2, <1>3, <1>4, <1>5

LEMMA StepTyped ==
  ASSUME TypeOK, Behind, [Next]_vars
  PROVE  TypeOK'
<1>1. CASE UNCHANGED vars
  BY <1>1, TypePartsNext, PartsUnchanged DEF vars
<1>2. Loops \subseteq Workers /\ Requests \subseteq Workers
  BY DEF Workers
<1> QED BY <1>1, <1>2, EnterTyped, RefreshTyped, AfterTyped, TimeTyped DEF Next, Step

-----------------------------------------------------------------------------
(* The inductive invariant.                                                  *)

\* What is read of a row or a worker is a natural number.
LEMMA Numbers ==
  ASSUME TypeOK
  PROVE  /\ db.gen \in Nat /\ db.gen >= 1 /\ issued \in Nat /\ due \in Nat /\ cache \in Nat
         /\ MaxGen \in Nat
         /\ \A w \in Workers : /\ acct[w] \in Nat /\ fresh[w].gen \in Nat /\ next[w] \in Nat
                               /\ checked[w] \in Nat
  BY OAuthAssumption DEF TypeOK

\* A step of w leaves what the others know and do.
OthersSame(w) ==
    \A u \in Workers \ {w} :
        /\ pc'[u] = pc[u] /\ acct'[u] = acct[u] /\ fresh'[u] = fresh[u]
        /\ next'[u] = next[u] /\ locked'[u] = locked[u] /\ result'[u] = result[u]
        /\ checked'[u] = checked[u]

\* A step that neither calls the provider nor stores what it issued: w takes a
\* generation only from where one was, and ends or keeps its promise to correct
\* the cache.
Tame(w) ==
    /\ OthersSame(w)
    /\ db'.gen = db.gen /\ UNCHANGED <<issued, due, lost, revived>>
    /\ acct'[w] \in {1, acct[w], fresh[w].gen, db.gen}
    /\ fresh'[w].gen \in {1, acct[w], fresh[w].gen, db.gen}
    /\ pc[w] # "persist" /\ pc'[w] # "persist"
    /\ pc'[w] = "recover" => fresh'[w].gen < issued
    /\ pc'[w] = "call" => fresh'[w].gen <= due

LEMMA TameGens ==
  ASSUME TypeOK, Behind, StoresNewest, NoTokenLost, LostIsLost, NEW w \in Workers, Tame(w)
  PROVE  Behind' /\ StoresNewest' /\ NoTokenLost' /\ LostIsLost'
<1>1. Behind'
  BY Numbers DEF Tame, OthersSame, Behind
<1>2. StoresNewest'
  BY Numbers DEF Tame, OthersSame, StoresNewest
<1>3. NoTokenLost'
  <2>1. ASSUME NEW u \in Workers, pc[u] = "persist", next[u] = issued
        PROVE  pc'[u] = "persist" /\ next'[u] = issued'
    BY <2>1 DEF Tame, OthersSame
  <2> QED BY <2>1 DEF NoTokenLost, Tame
<1>4. LostIsLost'
  BY DEF Tame, OthersSame, LostIsLost
<1> QED BY <1>1, <1>2, <1>3, <1>4

\* Nobody but w enters or leaves the section under the lock.
LEMMA LockKept ==
  ASSUME LockWorks, NEW w \in Workers, OthersSame(w), lock' = lock, unlocked => unlocked',
         locked'[w] => locked[w],
         pc'[w] \in Critical => pc[w] \in Critical /\ locked'[w] = locked[w]
  PROVE  LockWorks'
  BY DEF LockWorks, OthersSame

\* What w does about an error and about the cache.
Honest(w) ==
    /\ OthersSame(w) /\ db'.gen = db.gen
    /\ lost => lost'
    /\ unlocked => unlocked'
    /\ blind => blind'
    /\ excused => excused'
    /\ db'.status = "error" => db.status = "error" \/ pc[w] = "error"
    /\ pc'[w] \in {"release", "error"} /\ result'[w] = "fatal" =>
          (pc[w] = "release" /\ result[w] = "fatal") \/ lost' \/ blind' \/ unlocked'
    /\ pc'[w] = "error" => result'[w] = "fatal"
    /\ cache' = cache \/ cache' = 0 \/ cache' >= db.gen \/ excused'
    /\ WillCorrect(w) => WillCorrect(w)' \/ excused' \/ cache' = 0 \/ cache' >= db.gen
    /\ pc'[w] = "store" => checked'[w] <= acct'[w]

LEMMA HonestKeeps ==
  ASSUME TypeOK, TypeOK', FatalIsLost, CacheCorrected, NEW w \in Workers, Honest(w)
  PROVE  FatalIsLost' /\ CacheCorrected'
<1>1. FatalIsLost'
  BY DEF FatalIsLost, Honest, OthersSame
<1>2. CacheCorrected'
  <2>1. ASSUME cache' # 0, cache' < db'.gen, ~excused' PROVE \E u \in Workers : WillCorrect(u)'
    <3>1. db'.gen = db.gen /\ db.gen \in Nat /\ cache \in Nat /\ cache' \in Nat
      BY Numbers DEF Honest, TypeOK
    <3>2. cache' = cache /\ ~(cache' >= db.gen)
      BY <2>1, <3>1 DEF Honest
    <3>3. PICK u \in Workers : WillCorrect(u)
      BY <2>1, <3>1, <3>2 DEF CacheCorrected, Honest
    <3>4. CASE u = w
      BY <2>1, <3>2, <3>3, <3>4 DEF Honest
    <3>5. CASE u # w
      <4>1. WillCorrect(u)'
        BY <3>1, <3>3, <3>5 DEF Honest, OthersSame, WillCorrect
      <4> QED BY <4>1
    <3> QED BY <3>4, <3>5
  <2>2. \A u \in Workers : pc'[u] = "store" => checked'[u] <= acct'[u]
    BY DEF Honest, OthersSame, CacheCorrected
  <2> QED BY <2>1, <2>2 DEF CacheCorrected
<1> QED BY <1>1, <1>2

LEMMA TameKeeps ==
  ASSUME RefreshInv, TypeOK', NEW w \in Workers, Tame(w), Honest(w), LockWorks'
  PROVE  RefreshInv'
  BY TameGens, HonestKeeps DEF RefreshInv

\* Before the call to the provider.
LEMMA EnterKeeps ==
  ASSUME RefreshInv, TypeOK', NEW w \in Workers,
         ProcessRefresh(w) \/ GetAccessToken(w) \/ LockLocal(w) \/ AcquireRefreshLock(w)
         \/ Reread(w)
  PROVE  RefreshInv'
<1> USE DEF Go, store, redis, call, count
<1>0. TypeOK /\ LockWorks
  BY DEF RefreshInv
<1>1. CASE ProcessRefresh(w)
  <2>1. /\ OthersSame(w) /\ pc[w] = "idle" /\ pc'[w] = "mutex" /\ acct'[w] = db.gen
        /\ UNCHANGED <<db, issued, due, lock, cache, fresh, locked, result, unlocked, lost, blind,
                       revived, excused>>
    BY <1>0, <1>1 DEF ProcessRefresh, Enter, TypeOK, OthersSame
  <2>2. Tame(w) /\ Honest(w)
    BY <2>1 DEF Tame, Honest, WillCorrect
  <2>3. LockWorks'
    BY <1>0, <2>1, LockKept DEF Critical
  <2> QED BY <2>2, <2>3, TameKeeps
<1>2. CASE GetAccessToken(w)
  <2>1. /\ OthersSame(w) /\ pc[w] = "idle" /\ pc'[w] \in {"mutex", "check"} /\ acct'[w] = db.gen
        /\ UNCHANGED <<db, issued, due, lock, cache, fresh, locked, result, unlocked, lost, blind,
                       revived, excused>>
    BY <1>0, <1>2 DEF GetAccessToken, Enter, TypeOK, OthersSame
  <2>2. Tame(w) /\ Honest(w)
    BY <2>1 DEF Tame, Honest, WillCorrect
  <2>3. LockWorks'
    BY <1>0, <2>1, LockKept DEF Critical
  <2> QED BY <2>2, <2>3, TameKeeps
<1>3. CASE LockLocal(w)
  <2>1. /\ OthersSame(w) /\ pc[w] = "mutex" /\ pc'[w] = "acquire"
        /\ UNCHANGED <<db, issued, due, lock, cache, acct, fresh, locked, result, unlocked, lost,
                       blind, revived, excused>>
    BY <1>0, <1>3 DEF LockLocal, TypeOK, OthersSame
  <2>2. Tame(w) /\ Honest(w)
    BY <2>1 DEF Tame, Honest, WillCorrect
  <2>3. LockWorks'
    BY <1>0, <2>1, LockKept DEF Critical
  <2> QED BY <2>2, <2>3, TameKeeps
<1>4. CASE AcquireRefreshLock(w)
  <2>1. /\ OthersSame(w) /\ pc[w] = "acquire"
        /\ \/ pc'[w] = "reread"
           \/ pc'[w] = "release" /\ result'[w] = "held"
        /\ UNCHANGED <<db, issued, due, cache, acct, fresh, lost, blind, revived, excused>>
        /\ unlocked => unlocked'
    BY <1>0, <1>4 DEF AcquireRefreshLock, TypeOK, OthersSame
  <2>2. Tame(w) /\ Honest(w)
    BY <2>1 DEF Tame, Honest, WillCorrect
  <2>3. LockWorks'
    <3>1. CASE unlocked'
      BY <3>1 DEF LockWorks
    <3>2. CASE ~unlocked' /\ lock = Free
      <4>1. lock' = w /\ locked'[w] /\ \A u \in Workers \ {w} : ~locked[u] /\ ~unlocked
        BY <1>0, <1>4, <2>1, <3>2, OAuthAssumption DEF AcquireRefreshLock, LockWorks, TypeOK
      <4> QED BY <1>0, <2>1, <4>1 DEF LockWorks, OthersSame
    <3>3. CASE ~unlocked' /\ lock # Free
      <4>1. lock' = lock /\ pc'[w] = "release" /\ locked'[w] = locked[w]
        BY <1>0, <1>4, <3>3 DEF AcquireRefreshLock, TypeOK
      <4> QED BY <1>0, <2>1, <4>1, LockKept DEF Critical
    <3> QED BY <3>1, <3>2, <3>3
  <2> QED BY <2>2, <2>3, TameKeeps
<1>5. CASE Reread(w)
  <2>1. /\ OthersSame(w) /\ pc[w] = "reread"
        /\ fresh'[w].gen \in {db.gen, acct[w]}
        /\ \/ pc'[w] = "call" /\ fresh'[w].gen <= due /\ result'[w] = result[w]
           \/ pc'[w] = "release" /\ result'[w] = "current"
        /\ UNCHANGED <<db, issued, due, lock, cache, acct, locked, unlocked, lost, blind,
                       revived, excused>>
    BY <1>0, <1>5 DEF Reread, NeedsRefresh, TypeOK, OthersSame
  <2>2. Tame(w) /\ Honest(w)
    BY <2>1 DEF Tame, Honest, WillCorrect
  <2>3. LockWorks'
    BY <1>0, <2>1, LockKept DEF Critical
  <2> QED BY <2>2, <2>3, TameKeeps
<1> QED BY <1>1, <1>2, <1>3, <1>4, <1>5

\* The call to the provider: nobody else can have the generation it was made
\* with while somebody is about to store a newer one.
LEMMA RefreshKeeps ==
  ASSUME RefreshInv, TypeOK', NEW w \in Workers, Refresh(w)
  PROVE  RefreshInv'
<1> USE DEF Go
<1>0. TypeOK /\ Behind /\ StoresNewest /\ NoTokenLost /\ LostIsLost /\ LockWorks
  BY DEF RefreshInv
<1>1. /\ OthersSame(w) /\ pc[w] = "call"
      /\ UNCHANGED <<db, due, lock, cache, acct, fresh, locked, unlocked, blind, excused>>
      /\ lost => lost'
  BY <1>0 DEF Refresh, TypeOK, OthersSame, redis
<1>2. LockWorks'
  <2>1. pc'[w] \in PCs
    BY <1>0 DEF TypeOK
  <2> QED BY <1>0, <1>1, LockKept DEF Critical
<1>3. CASE fresh[w].gen = issued /\ issued' = issued + 1
  <2>1. \A u \in Workers : pc[u] # "persist"
    BY <1>0, <1>3, Numbers DEF StoresNewest
  <2>2. Behind'
    BY <1>0, <1>1, <1>3, Numbers DEF Behind, OthersSame, Refresh, TypeOK
  <2>3. CASE pc' = [pc EXCEPT ![w] = "persist"]
    <3>1. /\ pc'[w] = "persist" /\ next'[w] = issued' /\ result'[w] = result[w] /\ lost' = lost
          /\ revived' = (revived \/ fresh[w].gen > db.gen)
      BY <1>0, <1>1, <2>3 DEF Refresh, TypeOK
    <3>2. StoresNewest'
      BY <1>0, <1>1, <1>3, <2>1, <3>1, Numbers DEF StoresNewest, Behind, OthersSame
    <3>3. NoTokenLost'
      BY <3>1 DEF NoTokenLost
    <3>4. LostIsLost'
      BY <1>0, <1>3, <3>1, Numbers DEF LostIsLost
    <3>5. Honest(w)
      BY <1>1, <3>1 DEF Honest, WillCorrect
    <3> QED BY <1>2, <2>2, <3>2, <3>3, <3>4, <3>5, HonestKeeps DEF RefreshInv
  <2>4. CASE pc' = [pc EXCEPT ![w] = "release"]
    <3>1. pc'[w] = "release" /\ result'[w] = "retry" /\ lost'
      BY <1>0, <1>1, <1>3, <2>4, Numbers DEF Refresh, TypeOK
    <3>2. \A u \in Workers : pc'[u] # "persist"
      BY <1>1, <2>1, <3>1 DEF OthersSame
    <3>3. StoresNewest' /\ NoTokenLost'
      BY <3>1, <3>2 DEF StoresNewest, NoTokenLost
    <3>4. LostIsLost'
      BY <1>0, <1>1, <1>3, <3>2, Numbers DEF LostIsLost, Behind
    <3>5. Honest(w)
      BY <1>1, <3>1 DEF Honest, WillCorrect
    <3> QED BY <1>2, <2>2, <3>3, <3>4, <3>5, HonestKeeps DEF RefreshInv
  <2>5. CASE pc' = [pc EXCEPT ![w] = "recover"]
    BY <1>0, <1>3, <2>5, Numbers DEF Refresh, TypeOK
  <2> QED BY <2>3, <2>4, <2>5 DEF Refresh
<1>4. CASE /\ issued' = issued /\ lost' = lost /\ revived' = revived
           /\ \/ pc' = [pc EXCEPT ![w] = "release"] /\ result' = [result EXCEPT ![w] = "retry"]
              \/ pc' = [pc EXCEPT ![w] = "recover"] /\ result' = result /\ fresh[w].gen # issued
  <2>1. \/ pc'[w] = "release" /\ result'[w] = "retry"
        \/ pc'[w] = "recover" /\ fresh[w].gen < issued
    <3>1. fresh[w].gen \in Nat /\ issued \in Nat /\ fresh[w].gen <= issued
      BY <1>0, Numbers DEF Behind
    <3>2. \/ pc'[w] = "release" /\ result'[w] = "retry"
          \/ pc'[w] = "recover" /\ fresh[w].gen # issued
      BY <1>0, <1>4 DEF TypeOK
    <3> QED BY <3>1, <3>2
  <2>2. Tame(w) /\ Honest(w)
    BY <1>1, <1>4, <2>1 DEF Tame, Honest, WillCorrect
  <2> QED BY <1>2, <2>2, TameKeeps
<1> QED BY <1>3, <1>4 DEF Refresh

\* invalid_grant: with a working lock nobody else is about to store a newer
\* token, so a stored token that is not newer means that it was lost.
LEMMA RecoverKeeps ==
  ASSUME RefreshInv, TypeOK', NEW w \in Workers, TryRecoverFromRefreshRace(w)
  PROVE  RefreshInv'
<1> USE DEF Go
<1>0. TypeOK /\ Behind /\ NoTokenLost /\ LockWorks
  BY DEF RefreshInv
<1>1. /\ OthersSame(w) /\ pc[w] = "recover" /\ pc'[w] = "release"
      /\ fresh'[w].gen \in {db.gen, fresh[w].gen}
      /\ UNCHANGED <<db, issued, due, lock, cache, acct, locked, unlocked, lost, revived, excused>>
      /\ blind => blind'
  BY <1>0 DEF TryRecoverFromRefreshRace, TypeOK, OthersSame, redis, store
<1>2. result'[w] = "fatal" => lost \/ blind' \/ unlocked
  <2> SUFFICES ASSUME result'[w] = "fatal", ~blind', ~unlocked PROVE lost
    OBVIOUS
  <2>1. db.gen = fresh[w].gen
    BY <1>0 DEF TryRecoverFromRefreshRace, RefreshTokenDiffers, TypeOK
  <2>2. issued > db.gen
    BY <1>0, <1>1, <2>1, Numbers DEF Behind
  <2>3. ASSUME NEW u \in Workers, pc[u] = "persist" PROVE FALSE
    BY <1>0, <1>1, <2>3 DEF LockWorks, Critical
  <2> QED BY <1>0, <2>2, <2>3 DEF NoTokenLost
<1>3. Tame(w) /\ Honest(w)
  BY <1>1, <1>2 DEF Tame, Honest, WillCorrect
<1>4. LockWorks'
  BY <1>0, <1>1, LockKept DEF Critical
<1> QED BY <1>3, <1>4, TameKeeps

\* The store: what is stored is the newest generation, and the worker now owes
\* the cache a correction.
LEMMA PersistKeeps ==
  ASSUME RefreshInv, TypeOK', NEW w \in Workers, PersistAccountCredentials(w)
  PROVE  RefreshInv' /\ db'.gen >= db.gen
<1> USE DEF Go
<1>0. TypeOK /\ Behind /\ StoresNewest /\ LostIsLost /\ LockWorks /\ FatalIsLost /\ CacheCorrected
  BY DEF RefreshInv
<1>1. /\ OthersSame(w) /\ pc[w] = "persist" /\ pc'[w] = "release"
      /\ fresh'[w].gen = next[w] /\ acct'[w] \in {acct[w], next[w]}
      /\ UNCHANGED <<issued, due, lock, cache, locked, unlocked, blind, revived, excused>>
      /\ \/ db'.gen = next[w] /\ db'.status = db.status /\ result'[w] = "refreshed" /\ lost' = lost
         \/ db' = db /\ result'[w] = "retry" /\ lost'
  BY <1>0 DEF PersistAccountCredentials, MergeCredentials, TypeOK, OthersSame, redis
<1>2. /\ next[w] = issued /\ db.gen < issued
      /\ \A u \in Workers \ {w} : pc[u] # "persist"
  BY <1>0, <1>1 DEF StoresNewest
<1>3. \A u \in Workers : pc'[u] # "persist"
  BY <1>1, <1>2 DEF OthersSame
<1>4. Behind'
  BY <1>0, <1>1, <1>2, Numbers DEF Behind, OthersSame
<1>5. StoresNewest' /\ NoTokenLost' /\ LostIsLost'
  <2>1. db'.gen = issued \/ (db' = db /\ lost')
    BY <1>1, <1>2
  <2>2. NoTokenLost'
    BY <1>0, <1>1, <1>2, <2>1, Numbers DEF NoTokenLost
  <2>3. LostIsLost'
    BY <1>0, <1>1, <1>2, <1>3 DEF LostIsLost
  <2> QED BY <1>3, <2>2, <2>3 DEF StoresNewest
<1>6. LockWorks'
  BY <1>0, <1>1, LockKept DEF Critical
<1>7. FatalIsLost'
  BY <1>0, <1>1 DEF FatalIsLost, OthersSame
<1>8. CacheCorrected'
  <2>1. \A u \in Workers : pc'[u] = "store" => checked'[u] <= acct'[u]
    BY <1>0, <1>1 DEF CacheCorrected, OthersSame
  <2>2. CASE result'[w] = "refreshed"
    BY <1>1, <2>1, <2>2 DEF CacheCorrected, WillCorrect
  <2>3. CASE db' = db /\ result'[w] = "retry" /\ lost'
    <3>1. Honest(w)
      BY <1>1, <2>3 DEF Honest, WillCorrect
    <3> QED BY <1>0, <3>1, HonestKeeps
  <2> QED BY <1>1, <2>2, <2>3
<1>9. db'.gen >= db.gen
  BY <1>0, <1>1, <1>2, Numbers
<1> QED BY <1>4, <1>5, <1>6, <1>7, <1>8, <1>9 DEF RefreshInv

LEMMA ReleaseKeeps ==
  ASSUME RefreshInv, TypeOK', NEW w \in Workers, Release(w)
  PROVE  RefreshInv'
<1> USE DEF Go
<1>0. TypeOK /\ LockWorks
  BY DEF RefreshInv
<1>1. /\ OthersSame(w) /\ pc[w] = "release" /\ ~locked'[w]
      /\ UNCHANGED <<db, issued, due, cache, unlocked, lost, blind, revived, excused>>
      /\ lock' = lock \/ (locked[w] /\ lock' = Free)
  <2>1. CASE Forget(w)
    BY <1>0, <2>1, ForgetFacts DEF Release, OthersSame, store
  <2>2. CASE ~Forget(w)
    BY <1>0, <2>2 DEF Release, TypeOK, OthersSame, store
  <2> QED BY <2>1, <2>2
<1>2. \/ /\ pc'[w] \in {"idle", "done"} /\ acct'[w] = 1 /\ fresh'[w].gen = 1
         /\ result[w] \in {"held", "current"}
      \/ /\ fresh'[w] = fresh[w] /\ result'[w] = result[w]
         /\ acct'[w] \in {acct[w], fresh[w].gen}
         /\ pc'[w] \in {"clear", "error", "mutex", "unsched", "wait", "check"}
         /\ pc'[w] = "error" => result[w] = "fatal"
         /\ result[w] = "refreshed" =>
               pc'[w] = "clear" \/ (pc'[w] = "check" /\ acct'[w] = fresh[w].gen)
  <2>1. CASE w \in Loops /\ result[w] \in {"held", "current"}
    BY <1>0, <2>1, ForgetFacts DEF Release
  <2>2. CASE ~(w \in Loops /\ result[w] \in {"held", "current"})
    <3>1. /\ pc'[w] = IF w \in Loops THEN LoopNext(w) ELSE RequestNext(w)
          /\ acct'[w] = IF w \in Requests /\ result[w] \in {"refreshed", "current"}
                          THEN fresh[w].gen ELSE acct[w]
          /\ UNCHANGED <<fresh, result>>
      BY <1>0, <2>2 DEF Release, TypeOK
    <3>2. w \in Loops \/ w \in Requests
      BY DEF Workers
    <3> QED BY <3>1, <3>2 DEF LoopNext, RequestNext
  <2> QED BY <2>1, <2>2
<1>3. Tame(w) /\ Honest(w)
  BY <1>1, <1>2 DEF Tame, Honest, WillCorrect
<1>4. LockWorks'
  <2>1. pc'[w] \notin Critical
    BY <1>2 DEF Critical
  <2>2. CASE lock' = lock
    BY <1>0, <1>1, <2>1, <2>2, LockKept
  <2>3. CASE locked[w] /\ lock' = Free
    BY <1>0, <1>1, <2>1, <2>3 DEF LockWorks, OthersSame
  <2> QED BY <1>1, <2>2, <2>3
<1> QED BY <1>3, <1>4, TameKeeps

\* What the callers do with the result.
LEMMA AfterKeeps ==
  ASSUME RefreshInv, TypeOK', NEW w \in Workers,
         \/ ClearTempUnschedulable(w) \/ InvalidateToken(w) \/ SetError(w)
         \/ SetTempUnschedulable(w) \/ WaitForCache(w) \/ CheckTokenVersion(w)
         \/ SetAccessToken(w)
  PROVE  RefreshInv'
<1> USE DEF Go, redis, store
<1>0. TypeOK /\ LockWorks /\ CacheCorrected /\ db.gen \in Nat /\ acct[w] \in Nat /\ checked[w] \in Nat
  BY Numbers DEF RefreshInv
<1>a. ASSUME OthersSame(w), UNCHANGED <<lock, unlocked>>, pc'[w] \notin Critical,
             locked'[w] => locked[w]
      PROVE  LockWorks'
  BY <1>0, <1>a, LockKept
<1>1. CASE ClearTempUnschedulable(w)
  <2>1. /\ OthersSame(w) /\ pc[w] = "clear" /\ pc'[w] = "invalidate"
        /\ db'.gen = db.gen /\ db'.status = db.status
        /\ UNCHANGED <<issued, due, lock, cache, acct, fresh, locked, result, unlocked, lost, blind,
                       revived, excused>>
    BY <1>0, <1>1 DEF ClearTempUnschedulable, TypeOK, OthersSame, call
  <2>2. Tame(w) /\ Honest(w)
    BY <2>1 DEF Tame, Honest, WillCorrect
  <2> QED BY <1>a, <2>1, <2>2, TameKeeps DEF Critical
<1>2. ASSUME Forget(w), pc[w] \notin {"persist"}, db'.gen = db.gen,
             UNCHANGED <<issued, due, lock, unlocked, lost, blind, revived>>
      PROVE  Tame(w) /\ LockWorks' /\ OthersSame(w) /\ pc'[w] \in {"idle", "done"}
  <2>1. /\ OthersSame(w) /\ pc'[w] \in {"idle", "done"} /\ acct'[w] = 1 /\ fresh'[w].gen = 1
        /\ ~locked'[w]
    BY <1>0, <1>2, ForgetFacts DEF OthersSame
  <2>2. Tame(w)
    BY <1>2, <2>1 DEF Tame
  <2>3. LockWorks'
    BY <1>2, <1>a, <2>1 DEF Critical
  <2> QED BY <2>1, <2>2, <2>3
<1>3. CASE InvalidateToken(w)
  <2>1. /\ Forget(w) /\ pc[w] = "invalidate"
        /\ UNCHANGED <<db, issued, due, lock, unlocked, lost, blind, revived>>
        /\ (cache' = 0 /\ excused' = excused) \/ excused'
    BY <1>3 DEF InvalidateToken
  <2>2. Honest(w)
    BY <1>2, <2>1 DEF Honest
  <2> QED BY <1>2, <2>1, <2>2, TameKeeps
<1>4. CASE SetError(w) \/ SetTempUnschedulable(w)
  <2>1. /\ Forget(w) /\ pc[w] \in {"error", "unsched"} /\ db'.gen = db.gen
        /\ db'.status = "error" => db.status = "error" \/ pc[w] = "error"
        /\ UNCHANGED <<issued, due, lock, cache, unlocked, lost, blind, revived, excused>>
    BY <1>0, <1>4 DEF SetError, ErrorRow, SetTempUnschedulable, TypeOK
  <2>2. Honest(w)
    BY <1>2, <2>1 DEF Honest, WillCorrect
  <2> QED BY <1>2, <2>1, <2>2, TameKeeps
<1>5. CASE WaitForCache(w)
  <2>1. pc[w] = "wait" /\ UNCHANGED <<db, issued, due, lock, cache, unlocked, lost, blind,
                                      revived, excused>>
    BY <1>5 DEF WaitForCache, count
  <2>2. CASE Forget(w)
    <3>1. Honest(w)
      BY <1>2, <2>1, <2>2 DEF Honest, WillCorrect
    <3> QED BY <1>2, <2>1, <2>2, <3>1, TameKeeps
  <2>3. CASE ~Forget(w)
    <3>1. /\ OthersSame(w) /\ pc'[w] = "check"
          /\ UNCHANGED <<acct, fresh, locked, result>>
      BY <1>0, <1>5, <2>3 DEF WaitForCache, TypeOK, OthersSame, call
    <3>2. Tame(w) /\ Honest(w)
      BY <2>1, <3>1 DEF Tame, Honest, WillCorrect
    <3> QED BY <1>a, <2>1, <3>1, <3>2, TameKeeps DEF Critical
  <2> QED BY <2>2, <2>3
<1>6. CASE CheckTokenVersion(w)
  <2>1. pc[w] = "check" /\ UNCHANGED <<db, issued, due, lock, cache, unlocked, lost, blind,
                                       revived, excused>>
    BY <1>6 DEF CheckTokenVersion
  <2>2. CASE Stale(w) /\ Forget(w)
    <3>1. ~WillCorrect(w)
      BY <1>0, <2>1, <2>2 DEF Stale, WillCorrect
    <3>2. Honest(w)
      BY <1>2, <2>1, <2>2, <3>1 DEF Honest
    <3> QED BY <1>2, <2>1, <2>2, <3>2, TameKeeps
  <2>3. CASE ~(Stale(w) /\ Forget(w))
    <3>1. /\ OthersSame(w) /\ pc'[w] = "store"
          /\ UNCHANGED <<acct, fresh, locked, result>>
          /\ checked'[w] <= acct[w]
      BY <1>0, <1>6, <2>3 DEF CheckTokenVersion, Stale, TypeOK, OthersSame
    <3>2. Tame(w) /\ Honest(w)
      BY <2>1, <3>1 DEF Tame, Honest, WillCorrect
    <3> QED BY <1>a, <2>1, <3>1, <3>2, TameKeeps DEF Critical
  <2> QED BY <2>2, <2>3
<1>7. CASE SetAccessToken(w)
  <2>1. /\ Forget(w) /\ pc[w] = "store"
        /\ UNCHANGED <<db, issued, due, lock, unlocked, lost, blind, revived>>
        /\ \/ cache' = acct[w] /\ excused' = (excused \/ checked[w] # db.gen)
           \/ excused'
    BY <1>7 DEF SetAccessToken
  <2>2. checked[w] <= acct[w]
    BY <1>0, <2>1 DEF CacheCorrected
  <2>3. (excused => excused') /\ (cache' >= db.gen \/ excused')
    BY <1>0, <2>1, <2>2
  <2>4. Honest(w)
    BY <1>2, <2>1, <2>3 DEF Honest
  <2> QED BY <1>2, <2>1, <2>4, TameKeeps
<1> QED BY <1>1, <1>3, <1>4, <1>5, <1>6, <1>7

\* Time.
LEMMA TimeKeeps ==
  ASSUME RefreshInv, TypeOK',
         Age \/ UnschedEnds \/ CacheExpires \/ LockExpires \/ LockExpiresEarly
  PROVE  RefreshInv'
<1> USE DEF redis, store, call, count
<1>0. TypeOK /\ LockWorks /\ Behind
  BY DEF RefreshInv
<1>1. /\ db'.gen = db.gen /\ db'.status = db.status /\ due <= due' /\ due' < MaxGen
      /\ UNCHANGED <<issued, pc, acct, fresh, next, locked, result, checked, lost, blind, revived,
                     excused>>
      /\ cache' = cache \/ cache' = 0
      /\ unlocked => unlocked'
  BY <1>0, Numbers DEF Age, UnschedEnds, CacheExpires, LockExpires, LockExpiresEarly, Behind, TypeOK
<1>2. Behind'
  BY <1>0, <1>1, Numbers DEF Behind, TypeOK
<1>3. StoresNewest' /\ NoTokenLost' /\ LostIsLost'
  BY <1>1 DEF RefreshInv, StoresNewest, NoTokenLost, LostIsLost
<1>4. LockWorks'
  <2>1. CASE lock' = lock
    BY <1>0, <1>1, <2>1 DEF LockWorks
  <2>2. CASE LockExpires
    BY <1>0, <1>1, <2>2 DEF LockWorks, LockExpires
  <2>3. CASE LockExpiresEarly
    BY <2>3 DEF LockWorks, LockExpiresEarly
  <2> QED BY <2>1, <2>2, <2>3 DEF Age, UnschedEnds, CacheExpires
<1>5. FatalIsLost'
  BY <1>1 DEF RefreshInv, FatalIsLost
<1>6. CacheCorrected'
  <2>1. \A w \in Workers : WillCorrect(w) => WillCorrect(w)'
    BY <1>1 DEF WillCorrect
  <2> QED BY <1>1, <2>1 DEF RefreshInv, CacheCorrected
<1> QED BY <1>2, <1>3, <1>4, <1>5, <1>6 DEF RefreshInv

\* A process death: what its workers had is gone, and recorded as lost or as an
\* old token in the cache that nobody will correct.
LEMMA CrashKeeps ==
  ASSUME RefreshInv, TypeOK', NEW i \in Instances, Crash(i)
  PROVE  RefreshInv'
<1> DEFINE dead == {w \in Workers : InstanceOf[w] = i}
<1>0. TypeOK /\ Behind /\ StoresNewest /\ NoTokenLost /\ LostIsLost /\ LockWorks /\ FatalIsLost
      /\ CacheCorrected
  BY DEF RefreshInv
<1>1. /\ UNCHANGED <<db, issued, due, lock, cache, unlocked, blind, revived>>
      /\ lost' = (lost \/ \E w \in dead : pc[w] = "persist")
      /\ excused' = (excused \/ \E w \in dead : Correcting(w))
  BY DEF Crash, store, redis
<1>2. \A w \in dead : /\ pc'[w] \in {"idle", "done"} /\ acct'[w] = 1 /\ fresh'[w].gen = 1
                      /\ ~locked'[w]
  BY DEF Crash, After
<1>3. \A w \in Workers \ dead :
        /\ pc'[w] = pc[w] /\ acct'[w] = acct[w] /\ fresh'[w] = fresh[w]
        /\ next'[w] = next[w] /\ locked'[w] = locked[w] /\ result'[w] = result[w]
        /\ checked'[w] = checked[w]
  BY <1>0 DEF Crash, TypeOK
<1> HIDE DEF dead
<1>d. dead \subseteq Workers
  BY DEF dead
<1>4. Behind'
  BY <1>0, <1>1, <1>2, <1>3, Numbers DEF Behind
<1>5. StoresNewest'
  BY <1>0, <1>1, <1>2, <1>3, Numbers DEF StoresNewest
<1>6. NoTokenLost'
  BY <1>0, <1>1, <1>2, <1>3, <1>d DEF NoTokenLost
<1>7. LostIsLost'
  BY <1>0, <1>1, <1>2, <1>3, <1>d DEF LostIsLost, StoresNewest
<1>8. LockWorks'
  BY <1>0, <1>1, <1>2, <1>3 DEF LockWorks, Critical
<1>9. FatalIsLost'
  BY <1>0, <1>1, <1>2, <1>3 DEF FatalIsLost
<1>10. CacheCorrected'
  <2>1. ASSUME NEW w \in Workers, WillCorrect(w), ~excused' PROVE WillCorrect(w)'
    <3>1. Correcting(w)
      BY <2>1 DEF WillCorrect, Correcting
    <3>2. w \notin dead
      BY <1>1, <2>1, <3>1
    <3> QED BY <1>1, <1>3, <2>1, <3>2 DEF WillCorrect
  <2> QED BY <1>0, <1>1, <1>2, <1>3, <2>1 DEF CacheCorrected
<1> QED BY <1>4, <1>5, <1>6, <1>7, <1>8, <1>9, <1>10 DEF RefreshInv

LEMMA RefreshStep ==
  ASSUME RefreshInv, [Next]_vars
  PROVE  RefreshInv' /\ db'.gen >= db.gen
<1>0. TypeOK' /\ db.gen \in Nat
  BY StepTyped, Numbers DEF RefreshInv
<1>1. CASE UNCHANGED vars
  <2>1. UNCHANGED <<db, issued, due, lock, cache, pc, acct, fresh, next, locked, result, checked,
                    unlocked, lost, blind, revived, excused>>
    BY <1>1 DEF vars, store, redis, call, count
  <2> QED BY <1>0, <2>1 DEF RefreshInv, Behind, StoresNewest, NoTokenLost, LostIsLost, LockWorks,
             FatalIsLost, CacheCorrected, WillCorrect
<1>2. Loops \subseteq Workers /\ Requests \subseteq Workers
  BY DEF Workers
<1>3. CASE Next
  <2>1. RefreshInv'
    BY <1>0, <1>2, <1>3, EnterKeeps, RefreshKeeps, RecoverKeeps, PersistKeeps, ReleaseKeeps,
       AfterKeeps, TimeKeeps, CrashKeeps DEF Next, Step
  <2>2. CASE \E w \in Workers : PersistAccountCredentials(w)
    BY <1>0, <2>2, PersistKeeps
  <2>3. CASE ~\E w \in Workers : PersistAccountCredentials(w)
    <3>1. ASSUME NEW w \in Workers, Step(w), ~PersistAccountCredentials(w)
          PROVE  db'.gen = db.gen
      BY <3>1 DEF Step, LockLocal, AcquireRefreshLock, Reread, Refresh, TryRecoverFromRefreshRace,
         Release, ClearTempUnschedulable, InvalidateToken, SetError, ErrorRow,
         SetTempUnschedulable, WaitForCache, CheckTokenVersion, SetAccessToken, store,
         RefreshInv, TypeOK
    <3>2. ASSUME \/ \E w \in Loops : ProcessRefresh(w)
                 \/ \E w \in Requests : GetAccessToken(w)
                 \/ Age \/ UnschedEnds \/ CacheExpires \/ LockExpires \/ LockExpiresEarly
                 \/ \E i \in Instances : Crash(i)
          PROVE  db'.gen = db.gen
      BY <3>2 DEF ProcessRefresh, GetAccessToken, Age, UnschedEnds, CacheExpires, LockExpires,
         LockExpiresEarly, Crash, store, RefreshInv, TypeOK
    <3>3. CASE \E w \in Workers : Step(w)
      <4>1. PICK w \in Workers : Step(w)
        BY <3>3
      <4>2. db'.gen = db.gen
        BY <2>3, <3>1, <4>1
      <4> QED BY <1>0, <2>1, <4>2
    <3>4. CASE ~\E w \in Workers : Step(w)
      <4>1. db'.gen = db.gen
        BY <1>3, <3>2, <3>4 DEF Next
      <4> QED BY <1>0, <2>1, <4>1
    <3> QED BY <3>3, <3>4
  <2> QED BY <2>1, <2>2, <2>3
<1> QED BY <1>1, <1>3

LEMMA RefreshInit == Init => RefreshInv
<1> SUFFICES ASSUME Init PROVE RefreshInv
  OBVIOUS
<1>0. MaxGen \in Nat /\ MaxGen >= 1 /\ MaxRetries \in Nat /\ MaxRetries >= 1 /\ MaxFaults \in Nat
  BY OAuthAssumption
<1>1. TypeOK
  <2>1. TCall
    BY <1>0 DEF Init, TCall, Results, Unsched
  <2>2. TStore /\ TLock /\ TCount
    <3>1. TStore
      BY <1>0 DEF Init, TStore, Unsched
    <3>2. TLock
      BY <1>0 DEF Init, TLock, PCs
    <3>3. TCount
      <4>1. faults \in 0..MaxFaults
        BY <1>0 DEF Init
      <4> QED BY <4>1, Zenon DEF Init, TCount
    <3> QED BY <3>1, <3>2, <3>3
  <2> QED BY <2>1, <2>2, TypeParts
<1>2. Behind /\ StoresNewest /\ NoTokenLost /\ LostIsLost
  BY <1>0 DEF Init, Behind, StoresNewest, NoTokenLost, LostIsLost
<1>3. LockWorks /\ FatalIsLost /\ CacheCorrected
  BY DEF Init, LockWorks, FatalIsLost, CacheCorrected, Critical
<1> QED BY <1>1, <1>2, <1>3 DEF RefreshInv

-----------------------------------------------------------------------------
\* The inductive invariant of the renewal of an account.
THEOREM RefreshInvariant == Spec => []RefreshInv
<1>1. RefreshInv /\ [Next]_vars => RefreshInv'
  BY RefreshStep
<1> QED BY <1>1, RefreshInit, PTL DEF Spec

\* Every state is of the types the code stores; in particular the attempts of
\* refreshWithRetry stay within its retries.
THEOREM RefreshTypes == Spec => []TypeOK
<1>1. RefreshInv => TypeOK
  BY DEF RefreshInv
<1> QED BY <1>1, RefreshInvariant, PTL

\* RefreshIfNeeded drops no issued refresh token, also without a working lock.
THEOREM TokensKept == Spec => []NoTokenLost
<1>1. RefreshInv => NoTokenLost
  BY DEF RefreshInv
<1> QED BY <1>1, RefreshInvariant, PTL

\* No store puts older credentials in the place of newer ones, also without a
\* working lock.
THEOREM CredentialsGrow == Spec => CredentialsAdvance
<1>1. RefreshInv /\ [Next]_vars => [db'.gen >= db.gen]_vars
  BY RefreshStep
<1> QED BY <1>1, RefreshInvariant, PTL DEF Spec, CredentialsAdvance

\* refreshWithRetry disables an account only when its token was lost, if the
\* lock works and the recovery could read.
THEOREM ErrorsDeserved == Spec => []ErrorIsDeserved
<1>1. RefreshInv => ErrorIsDeserved
  BY DEF RefreshInv, FatalIsLost, LostIsLost, ErrorIsDeserved
<1> QED BY <1>1, RefreshInvariant, PTL

\* An old token in the cache has an explanation: the version check of
\* GetAccessToken and the invalidation after a refresh leave no other.
THEOREM StaleCacheHasCause == Spec => []StaleCacheExplained
<1>1. RefreshInv => StaleCacheExplained
  <2>1. \A w \in Workers : WillCorrect(w) => Correcting(w)
    BY DEF WillCorrect, Correcting
  <2> QED BY <2>1 DEF RefreshInv, CacheCorrected, StaleCacheExplained
<1> QED BY <1>1, RefreshInvariant, PTL
============================================================================

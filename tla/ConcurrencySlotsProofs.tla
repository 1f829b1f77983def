----------------------- MODULE ConcurrencySlotsProofs -----------------------
(***************************************************************************)
(* Proofs about ConcurrencySlots for every finite set of requests, every   *)
(* set of instances, every limit, queue and TTL, and every number of       *)
(* failures.                                                               *)
(***************************************************************************)
EXTENDS ConcurrencySlots, FiniteSetTheorems, TLAPS

\* The sorted set never has more members than the limit.
SlotsCounted == Cardinality(slots) <= MaxConcurrency

\* A request whose slot is protected is a member of the set.
HeldIsMember == Protected \subseteq slots

\* The waiters that the counter misses are accounted for.
WaitersCounted == Cardinality(Waiters) <= waiting + under

SlotsInv == TypeOK /\ SlotsCounted /\ HeldIsMember /\ SlotsHaveOwners

QueueInv == WaitersCounted /\ RefusalsJustified

-----------------------------------------------------------------------------
(* Types.                                                                  *)

\* The acquire script keeps the types, whatever it answers.
LEMMA AcquireTypes ==
    ASSUME TypeOK, NEW r \in Requests, AcquireScript(r)
    PROVE  /\ slots' \subseteq Requests
           /\ age' \in [Requests -> 0 .. SlotTTL]
  <1>1. Live \subseteq Requests
    BY DEF TypeOK, Live
  <1>2. slots' \subseteq Requests
    BY <1>1 DEF AcquireScript
  <1>3. 0 \in 0 .. SlotTTL
    BY SlotsAssumption
  <1>4. age' \in [Requests -> 0 .. SlotTTL]
    BY <1>3 DEF AcquireScript, TypeOK
  <1> QED
    BY <1>2, <1>4

\* A step of a request keeps the types.
LEMMA RequestTypes ==
    ASSUME TypeOK, NEW r \in Requests, RequestStep(r)
    PROVE  TypeOK'
  <1> USE SlotsAssumption
  <1>1. CASE Arrive(r)
    BY <1>1 DEF TypeOK, Arrive, Goto, Stages
  <1>2. CASE Cancel(r)
    BY <1>2 DEF TypeOK, Cancel
  <1>3. CASE TryAcquire(r)
    BY <1>3, AcquireTypes DEF TypeOK, TryAcquire, Goto, Stages
  <1>4. CASE TryCancelled(r)
    BY <1>4 DEF TypeOK, TryCancelled, Goto, Stages
  <1>5. CASE TryFails(r)
    BY <1>5 DEF TypeOK, TryFails, Goto, Stages, Fault
  <1>6. CASE AcquireReplyLost(r)
    BY <1>6, AcquireTypes DEF TypeOK, AcquireReplyLost, Fault
  <1>7. CASE JoinQueue(r)
    BY <1>7 DEF TypeOK, JoinQueue, HasPlace, Goto, Stages
  <1>8. CASE JoinFailsOpen(r)
    BY <1>8 DEF TypeOK, JoinFailsOpen, Goto, Stages, Fault
  <1>9. CASE JoinReplyLost(r)
    BY <1>9 DEF TypeOK, JoinReplyLost, HasPlace, Fault
  <1>10. CASE Poll(r)
    BY <1>10, AcquireTypes DEF TypeOK, Poll, Goto, Stages
  <1>11. CASE GiveUp(r)
    BY <1>11 DEF TypeOK, GiveUp, Goto, Stages
  <1>12. CASE Leave(r)
    BY <1>12 DEF TypeOK, Leave, Goto, Stages, Decremented, AfterQueue
  <1>13. CASE LeaveFails(r)
    BY <1>13 DEF TypeOK, LeaveFails, Goto, Stages, Fault, AfterQueue
  <1>14. CASE LeaveReplyLost(r)
    BY <1>14 DEF TypeOK, LeaveReplyLost, Fault, Decremented
  <1>15. CASE Release(r)
    BY <1>15 DEF TypeOK, Release, Goto, Stages
  <1>16. CASE ReleaseFails(r)
    BY <1>16 DEF TypeOK, ReleaseFails, Goto, Stages, Fault
  <1> QED
    BY <1>1, <1>2, <1>3, <1>4, <1>5, <1>6, <1>7, <1>8, <1>9, <1>10, <1>11, <1>12,
       <1>13, <1>14, <1>15, <1>16 DEF RequestStep

\* Every set of requests is finite.
LEMMA RequestsFinite ==
    ASSUME NEW S \in SUBSET Requests
    PROVE  IsFiniteSet(S) /\ Cardinality(S) \in Nat
  BY SlotsAssumption, FS_Subset, FS_CardinalityType

\* A step of an instance keeps the types.
LEMMA InstanceTypes ==
    ASSUME TypeOK, NEW p \in Instances, InstanceStep(p)
    PROVE  TypeOK'
  <1> USE SlotsAssumption
  <1>1. CASE SweepSlots(p)
    BY <1>1 DEF TypeOK, SweepSlots, Foreign, Active
  <1>2. CASE DeleteCounters(p)
    BY <1>2 DEF TypeOK, DeleteCounters
  <1>3. CASE CleanupFails(p)
    BY <1>3 DEF TypeOK, CleanupFails, Fault
  <1>4. CASE Crash(p)
    <2>1. Cardinality(Waiters \cap Served(p)) \in Nat
      BY RequestsFinite DEF Waiters
    <2>2. pc' \in [Requests -> Stages]
      BY <1>4 DEF Crash, TypeOK, Stages
    <2>3. broken' \subseteq Requests
      BY <1>4 DEF Crash, TypeOK, Served
    <2> QED
      BY <1>4, <2>1, <2>2, <2>3 DEF TypeOK, Crash, Fault
  <1> QED
    BY <1>1, <1>2, <1>3, <1>4 DEF InstanceStep

\* Every step keeps the types.
LEMMA TypesStep ==
    ASSUME TypeOK, [Next]_vars
    PROVE  TypeOK'
  <1> USE SlotsAssumption
  <1>1. CASE Tick
    BY <1>1 DEF TypeOK, Tick
  <1>2. CASE RemoveExpired
    BY <1>2 DEF TypeOK, RemoveExpired, Live
  <1>3. CASE CounterExpires
    BY <1>3 DEF TypeOK, CounterExpires
  <1>4. CASE UNCHANGED vars
    BY <1>4 DEF TypeOK, vars
  <1> QED
    BY <1>1, <1>2, <1>3, <1>4, RequestTypes, InstanceTypes DEF Next

-----------------------------------------------------------------------------
(* Slots.                                                                  *)

\* A subset of the slots respects the limit.
LEMMA FewerSlots ==
    ASSUME TypeOK, SlotsCounted, NEW S \in SUBSET slots
    PROVE  Cardinality(S) \in Nat /\ Cardinality(S) <= MaxConcurrency
  <1>1. S \in SUBSET Requests /\ slots \in SUBSET Requests
    BY DEF TypeOK
  <1>2. IsFiniteSet(slots) /\ Cardinality(slots) \in Nat /\ Cardinality(S) \in Nat
    BY <1>1, RequestsFinite
  <1>3. Cardinality(S) <= Cardinality(slots)
    BY <1>2, FS_Subset
  <1> QED
    BY <1>2, <1>3, SlotsAssumption DEF SlotsCounted

\* The acquire script respects the limit.
LEMMA AcquireCounted ==
    ASSUME TypeOK, SlotsCounted, NEW r \in Requests, AcquireScript(r)
    PROVE  SlotsCounted'
  <1>1. Live \in SUBSET slots
    BY DEF Live
  <1>2. Cardinality(Live) \in Nat /\ Cardinality(Live) <= MaxConcurrency
    BY <1>1, FewerSlots
  <1>3. IsFiniteSet(Live)
    BY <1>1, RequestsFinite DEF TypeOK
  <1>4. CASE Grants(r)
    <2>1. slots' = Live \cup {r}
      BY <1>4 DEF AcquireScript
    <2>2. Cardinality(slots') = IF r \in Live THEN Cardinality(Live) ELSE Cardinality(Live) + 1
      BY <2>1, <1>3, FS_AddElement
    <2> QED
      BY <2>2, <1>2, <1>4, SlotsAssumption DEF Grants, SlotsCounted
  <1>5. CASE ~Grants(r)
    BY <1>5, <1>2 DEF AcquireScript, SlotsCounted
  <1> QED
    BY <1>4, <1>5

\* What the script does to slots: younger members stay, nobody but the caller
\* becomes one, and the caller is one with a new score if it is granted.
LEMMA AcquireKeeps ==
    ASSUME TypeOK, NEW r \in Requests, AcquireScript(r)
    PROVE  /\ \A q \in slots : age[q] < SlotTTL => q \in slots'
           /\ \A q \in slots' : q # r => q \in slots
           /\ \A q \in Requests : q # r => age'[q] = age[q]
           /\ Grants(r) => r \in slots'
           /\ ~Grants(r) => (slots' \subseteq slots /\ age' = age)
  <1>1. \A q \in slots : age[q] < SlotTTL => q \in Live
    BY SlotsAssumption DEF Live, Expired, TypeOK
  <1>2. Live \subseteq slots
    BY DEF Live
  <1> QED
    BY <1>1, <1>2 DEF AcquireScript, TypeOK

\* A step that leaves the slots alone and in which no request becomes active.
LEMMA SlotsUnchanged ==
    ASSUME SlotsInv, UNCHANGED <<slots, age, swept>>,
           Active' \subseteq Active, Active \subseteq Active' \cup broken',
           broken \subseteq broken'
    PROVE  (SlotsCounted /\ HeldIsMember /\ SlotsHaveOwners)'
  BY DEF SlotsInv, SlotsCounted, HeldIsMember, SlotsHaveOwners, Protected

\* A step of a request respects the limit and leaves no slot without owner.
LEMMA RequestSlots ==
    ASSUME SlotsInv, NEW r \in Requests, RequestStep(r)
    PROVE  (SlotsCounted /\ HeldIsMember /\ SlotsHaveOwners)'
  <1>0. pc \in [Requests -> Stages]
    BY DEF SlotsInv, TypeOK
  <1>1. CASE Arrive(r)
    BY <1>0, <1>1, SlotsUnchanged DEF Arrive, Goto, Active
  <1>2. CASE Cancel(r)
    BY <1>2, SlotsUnchanged DEF Cancel, Active
  <1>3. CASE TryAcquire(r)
    <2>1. SlotsCounted'
      BY <1>3, AcquireCounted DEF TryAcquire, SlotsInv
    <2>2. Active' = IF Grants(r) THEN Active \cup {r} ELSE Active
      BY <1>0, <1>3 DEF TryAcquire, Goto, Active
    <2>3. r \notin Active
      BY <1>3 DEF TryAcquire, Active
    <2>4. HeldIsMember'
      BY <2>2, <2>3, <1>3, AcquireKeeps
         DEF TryAcquire, SlotsInv, HeldIsMember, Protected, Active
    <2>5. SlotsHaveOwners'
      BY <2>2, <1>3, AcquireKeeps DEF TryAcquire, SlotsInv, SlotsHaveOwners
    <2> QED
      BY <2>1, <2>4, <2>5
  <1>4. CASE TryCancelled(r)
    BY <1>0, <1>4, SlotsUnchanged DEF TryCancelled, Goto, Active
  <1>5. CASE TryFails(r)
    BY <1>0, <1>5, SlotsUnchanged DEF TryFails, Goto, Active
  <1>6. CASE AcquireReplyLost(r)
    <2>1. SlotsCounted'
      BY <1>6, AcquireCounted DEF AcquireReplyLost, SlotsInv
    <2>2. Active' = Active /\ r \notin Active
      BY <1>6 DEF AcquireReplyLost, Active
    <2>3. HeldIsMember'
      BY <2>2, <1>6, AcquireKeeps
         DEF AcquireReplyLost, SlotsInv, HeldIsMember, Protected, Active
    <2>4. SlotsHaveOwners'
      BY <2>2, <1>6, AcquireKeeps DEF AcquireReplyLost, SlotsInv, SlotsHaveOwners
    <2> QED
      BY <2>1, <2>3, <2>4
  <1>7. CASE JoinQueue(r)
    BY <1>0, <1>7, SlotsUnchanged DEF JoinQueue, Goto, Active
  <1>8. CASE JoinFailsOpen(r)
    BY <1>0, <1>8, SlotsUnchanged DEF JoinFailsOpen, Goto, Active
  <1>9. CASE JoinReplyLost(r)
    BY <1>9, SlotsUnchanged DEF JoinReplyLost, Active
  <1>10. CASE Poll(r)
    <2>1. SlotsCounted'
      BY <1>10, AcquireCounted DEF Poll, SlotsInv
    <2>2. Active' = IF Grants(r) THEN Active \cup {r} ELSE Active
      BY <1>0, <1>10 DEF Poll, Goto, Active
    <2>3. r \notin Active
      BY <1>10 DEF Poll, Active
    <2>4. HeldIsMember'
      BY <2>2, <2>3, <1>10, AcquireKeeps
         DEF Poll, SlotsInv, HeldIsMember, Protected, Active
    <2>5. SlotsHaveOwners'
      BY <2>2, <1>10, AcquireKeeps DEF Poll, SlotsInv, SlotsHaveOwners
    <2> QED
      BY <2>1, <2>4, <2>5
  <1>11. CASE GiveUp(r)
    BY <1>0, <1>11, SlotsUnchanged DEF GiveUp, Goto, Active
  <1>12. CASE Leave(r)
    BY <1>0, <1>12, SlotsUnchanged DEF Leave, Goto, Active, AfterQueue
  <1>13. CASE LeaveFails(r)
    BY <1>0, <1>13, SlotsUnchanged DEF LeaveFails, Goto, Active, AfterQueue
  <1>14. CASE LeaveReplyLost(r)
    BY <1>14, SlotsUnchanged DEF LeaveReplyLost, Active
  <1>15. CASE Release(r)
    <2>1. Active' = Active \ {r}
      BY <1>0, <1>15 DEF Release, Goto, Active
    <2>2. Cardinality(slots') <= MaxConcurrency
      BY <1>15, FewerSlots DEF Release, SlotsInv
    <2> QED
      BY <2>1, <2>2, <1>15
         DEF Release, SlotsInv, SlotsCounted, HeldIsMember, SlotsHaveOwners, Protected
  <1>16. CASE ReleaseFails(r)
    BY <1>0, <1>16, SlotsUnchanged DEF ReleaseFails, Goto, Active
  <1> QED
    BY <1>1, <1>2, <1>3, <1>4, <1>5, <1>6, <1>7, <1>8, <1>9, <1>10, <1>11, <1>12,
       <1>13, <1>14, <1>15, <1>16 DEF RequestStep

\* So does a step of an instance: a start records whose slots it removes, and
\* a crash whose slots it orphans.
LEMMA InstanceSlots ==
    ASSUME SlotsInv, NEW p \in Instances, InstanceStep(p)
    PROVE  (SlotsCounted /\ HeldIsMember /\ SlotsHaveOwners)'
  <1>1. CASE SweepSlots(p)
    <2>1. Active' = Active
      BY <1>1 DEF SweepSlots, Active
    <2>2. Cardinality(slots') <= MaxConcurrency
      BY <1>1, FewerSlots DEF SweepSlots, SlotsInv
    <2> QED
      BY <2>1, <2>2, <1>1
         DEF SweepSlots, SlotsInv, SlotsCounted, HeldIsMember, SlotsHaveOwners, Protected
  <1>2. CASE DeleteCounters(p)
    BY <1>2, SlotsUnchanged DEF DeleteCounters, Active
  <1>3. CASE CleanupFails(p)
    BY <1>3, SlotsUnchanged DEF CleanupFails, Active
  <1>4. CASE Crash(p)
    <2>1. Active' \subseteq Active /\ Active \subseteq Active' \cup Served(p)
      BY <1>4 DEF Crash, Active, Served
    <2> QED
      BY <2>1, <1>4, SlotsUnchanged DEF Crash
  <1> QED
    BY <1>1, <1>2, <1>3, <1>4 DEF InstanceStep

\* Every step keeps the invariant of the slots.
LEMMA SlotsStep ==
    ASSUME SlotsInv, [Next]_vars
    PROVE  SlotsInv'
  <1>1. TypeOK'
    BY TypesStep DEF SlotsInv
  <1>2. (SlotsCounted /\ HeldIsMember /\ SlotsHaveOwners)'
    <2>1. CASE Tick
      <3>1. Active' = Active
        BY <2>1 DEF Tick, Active
      <3>2. \A r \in Requests : age'[r] < SlotTTL => age[r] < SlotTTL
        BY <2>1, SlotsAssumption DEF Tick, SlotsInv, TypeOK
      <3> QED
        BY <3>1, <3>2, <2>1
           DEF Tick, SlotsInv, SlotsCounted, HeldIsMember, SlotsHaveOwners, Protected, Active
    <2>2. CASE RemoveExpired
      <3>1. Active' = Active
        BY <2>2 DEF RemoveExpired, Active
      <3>2. slots' \in SUBSET slots
        BY <2>2 DEF RemoveExpired, Live
      <3>3. Cardinality(slots') <= MaxConcurrency
        BY <3>2, FewerSlots DEF SlotsInv
      <3>4. \A r \in slots : age[r] < SlotTTL => r \in slots'
        BY <2>2, SlotsAssumption DEF RemoveExpired, Live, Expired, SlotsInv, TypeOK
      <3> QED
        BY <3>1, <3>2, <3>3, <3>4, <2>2
           DEF RemoveExpired, SlotsInv, SlotsCounted, HeldIsMember, SlotsHaveOwners, Protected
    <2>3. CASE CounterExpires
      BY <2>3, SlotsUnchanged DEF CounterExpires, Active
    <2>4. CASE UNCHANGED vars
      BY <2>4, SlotsUnchanged DEF vars, Active
    <2> QED
      BY <2>1, <2>2, <2>3, <2>4, RequestSlots, InstanceSlots DEF Next
  <1> QED
    BY <1>1, <1>2 DEF SlotsInv

-----------------------------------------------------------------------------
(* The wait queue.                                                         *)

\* A step that leaves the counter and the waiters alone.
LEMMA QueueUnchanged ==
    ASSUME QueueInv, UNCHANGED <<waiting, over, under>>, Waiters' = Waiters
    PROVE  QueueInv'
  BY DEF QueueInv, WaitersCounted, RefusalsJustified

\* The waiters with one more or one less.
LEMMA WaitersChange ==
    ASSUME NEW r \in Requests
    PROVE  /\ Waiters \in SUBSET Requests
           /\ Cardinality(Waiters) \in Nat
           /\ r \notin Waiters => Cardinality(Waiters \cup {r}) = Cardinality(Waiters) + 1
           /\ r \in Waiters =>
                Cardinality(Waiters) > 0 /\ Cardinality(Waiters \ {r}) = Cardinality(Waiters) - 1
  <1>1. Waiters \in SUBSET Requests
    BY DEF Waiters
  <1>2. IsFiniteSet(Waiters) /\ Cardinality(Waiters) \in Nat
    BY <1>1, RequestsFinite
  <1>3. Waiters \ {r} \in SUBSET Requests
    BY <1>1
  <1>4. Cardinality(Waiters \ {r}) \in Nat
    BY <1>3, RequestsFinite
  <1>5. r \notin Waiters => Cardinality(Waiters \cup {r}) = Cardinality(Waiters) + 1
    BY <1>2, FS_AddElement
  <1>6. r \in Waiters => Cardinality(Waiters \ {r}) = Cardinality(Waiters) - 1
    BY <1>2, FS_RemoveElement
  <1> QED
    BY <1>1, <1>2, <1>4, <1>5, <1>6

\* A step of a request keeps the counter's two bounds.
LEMMA RequestQueue ==
    ASSUME TypeOK, QueueInv, NEW r \in Requests, RequestStep(r)
    PROVE  QueueInv'
  <1>0. pc \in [Requests -> Stages]
    BY DEF TypeOK
  <1>1. CASE Arrive(r)
    BY <1>0, <1>1, QueueUnchanged DEF Arrive, Goto, Waiters
  <1>2. CASE Cancel(r)
    BY <1>2, QueueUnchanged DEF Cancel, Waiters
  <1>3. CASE TryAcquire(r)
    <2>1. Waiters' = Waiters
      BY <1>0, <1>3 DEF TryAcquire, Goto, Waiters
    <2> QED
      BY <2>1, <1>3, QueueUnchanged DEF TryAcquire
  <1>4. CASE TryCancelled(r)
    BY <1>0, <1>4, QueueUnchanged DEF TryCancelled, Goto, Waiters
  <1>5. CASE TryFails(r)
    BY <1>0, <1>5, QueueUnchanged DEF TryFails, Goto, Waiters
  <1>6. CASE AcquireReplyLost(r)
    BY <1>6, QueueUnchanged DEF AcquireReplyLost, Waiters
  <1>7. CASE JoinQueue(r)
    <2>1. r \notin Waiters
      BY <1>7 DEF JoinQueue, Waiters
    <2>2. CASE HasPlace
      <3>1. Waiters' = Waiters \cup {r} /\ waiting' = waiting + 1
        BY <1>0, <1>7, <2>2, SlotsAssumption DEF JoinQueue, Goto, Waiters, TypeOK
      <3> QED
        BY <3>1, <2>1, <1>7, WaitersChange
           DEF JoinQueue, QueueInv, WaitersCounted, RefusalsJustified, TypeOK
    <2>3. CASE ~HasPlace
      <3>1. Waiters' = Waiters /\ waiting' = waiting
        BY <1>0, <1>7, <2>3 DEF JoinQueue, Goto, Waiters
      <3> QED
        BY <3>1, <1>7, QueueUnchanged DEF JoinQueue
    <2> QED
      BY <2>2, <2>3
  <1>8. CASE JoinFailsOpen(r)
    <2>1. r \notin Waiters /\ Waiters' = Waiters \cup {r}
      BY <1>0, <1>8 DEF JoinFailsOpen, Goto, Waiters
    <2> QED
      BY <2>1, <1>8, WaitersChange
         DEF JoinFailsOpen, QueueInv, WaitersCounted, RefusalsJustified, TypeOK
  <1>9. CASE JoinReplyLost(r)
    <2>1. Cardinality(Waiters) \in Nat
      BY WaitersChange
    <2>2. Waiters' = Waiters
      BY <1>9 DEF JoinReplyLost, Waiters
    <2> QED
      BY <2>1, <2>2, <1>9
         DEF JoinReplyLost, QueueInv, WaitersCounted, RefusalsJustified, TypeOK
  <1>10. CASE Poll(r)
    <2>1. Waiters' = Waiters
      BY <1>0, <1>10 DEF Poll, Goto, Waiters
    <2> QED
      BY <2>1, <1>10, QueueUnchanged DEF Poll
  <1>11. CASE GiveUp(r)
    BY <1>0, <1>11, QueueUnchanged DEF GiveUp, Goto, Waiters
  <1>12. CASE Leave(r)
    <2>1. r \in Waiters /\ Waiters' = Waiters \ {r}
      BY <1>0, <1>12 DEF Leave, Goto, Waiters, AfterQueue
    <2> QED
      BY <2>1, <1>12, WaitersChange
         DEF Leave, Decremented, QueueInv, WaitersCounted, RefusalsJustified, TypeOK
  <1>13. CASE LeaveFails(r)
    <2>1. r \in Waiters /\ Waiters' = Waiters \ {r}
      BY <1>0, <1>13 DEF LeaveFails, Goto, Waiters, AfterQueue
    <2> QED
      BY <2>1, <1>13, WaitersChange
         DEF LeaveFails, QueueInv, WaitersCounted, RefusalsJustified, TypeOK
  <1>14. CASE LeaveReplyLost(r)
    <2>1. Cardinality(Waiters) \in Nat
      BY WaitersChange
    <2>2. Waiters' = Waiters
      BY <1>14 DEF LeaveReplyLost, Waiters
    <2> QED
      BY <2>1, <2>2, <1>14
         DEF LeaveReplyLost, Decremented, QueueInv, WaitersCounted, RefusalsJustified, TypeOK
  <1>15. CASE Release(r)
    BY <1>0, <1>15, QueueUnchanged DEF Release, Goto, Waiters
  <1>16. CASE ReleaseFails(r)
    BY <1>0, <1>16, QueueUnchanged DEF ReleaseFails, Goto, Waiters
  <1> QED
    BY <1>1, <1>2, <1>3, <1>4, <1>5, <1>6, <1>7, <1>8, <1>9, <1>10, <1>11, <1>12,
       <1>13, <1>14, <1>15, <1>16 DEF RequestStep

\* So does a step of an instance; a crash takes several waiters at once.
LEMMA InstanceQueue ==
    ASSUME TypeOK, QueueInv, NEW p \in Instances, InstanceStep(p)
    PROVE  QueueInv'
  <1>0. Waiters \in SUBSET Requests /\ IsFiniteSet(Waiters) /\ Cardinality(Waiters) \in Nat
    BY RequestsFinite DEF Waiters
  <1>1. CASE SweepSlots(p)
    BY <1>1, QueueUnchanged DEF SweepSlots, Waiters
  <1>2. CASE DeleteCounters(p)
    <2>1. Waiters' = Waiters
      BY <1>2 DEF DeleteCounters, Waiters
    <2> QED
      BY <2>1, <1>0, <1>2
         DEF DeleteCounters, QueueInv, WaitersCounted, RefusalsJustified, TypeOK
  <1>3. CASE CleanupFails(p)
    BY <1>3, QueueUnchanged DEF CleanupFails, Waiters
  <1>4. CASE Crash(p)
    <2> DEFINE Lost == Waiters \cap Served(p)
    <2>1. Waiters' = Waiters \ Lost
      BY <1>4 DEF Crash, Waiters, Served
    <2>2. Lost \in SUBSET Requests /\ Waiters \ Lost \in SUBSET Requests
      BY <1>0
    <2>3. Cardinality(Lost) \in Nat /\ Cardinality(Waiters \ Lost) \in Nat
      BY <2>2, RequestsFinite
    <2>4. Cardinality(Waiters) = Cardinality(Lost) + Cardinality(Waiters \ Lost)
      <3>1. Cardinality(Waiters \ Lost) = Cardinality(Waiters) - Cardinality(Waiters \cap Lost)
        BY <1>0, FS_Difference
      <3>2. Waiters \cap Lost = Lost
        OBVIOUS
      <3> HIDE DEF Lost
      <3> QED
        BY <3>1, <3>2, <2>3, <1>0
    <2> QED
      BY <2>1, <2>3, <2>4, <1>0, <1>4
         DEF Crash, QueueInv, WaitersCounted, RefusalsJustified, TypeOK
  <1> QED
    BY <1>1, <1>2, <1>3, <1>4 DEF InstanceStep

\* Every step keeps the counter's two bounds.
LEMMA QueueStep ==
    ASSUME TypeOK, QueueInv, [Next]_vars
    PROVE  QueueInv'
  <1>1. CASE Tick
    BY <1>1, QueueUnchanged DEF Tick, Waiters
  <1>2. CASE RemoveExpired
    BY <1>2, QueueUnchanged DEF RemoveExpired, Waiters
  <1>3. CASE CounterExpires
    <2>1. Waiters' = {} /\ waiting' = 0 /\ over' = 0 /\ under' = under
      BY <1>3 DEF CounterExpires, Waiters
    <2> QED
      BY <2>1, FS_EmptySet DEF QueueInv, WaitersCounted, RefusalsJustified, TypeOK
  <1>4. CASE UNCHANGED vars
    BY <1>4, QueueUnchanged DEF vars, Waiters
  <1> QED
    BY <1>1, <1>2, <1>3, <1>4, RequestQueue, InstanceQueue DEF Next

-----------------------------------------------------------------------------
(* Theorems.                                                               *)

\* The inductive invariant holds at first.
LEMMA SlotsInit == Init => SlotsInv /\ QueueInv
  <1> SUFFICES ASSUME Init PROVE SlotsInv /\ QueueInv
    OBVIOUS
  <1>1. TypeOK
    BY SlotsAssumption DEF Init, TypeOK, Stages
  <1>2. Active = {} /\ Waiters = {} /\ slots = {}
    BY DEF Init, Active, Waiters
  <1>3. SlotsCounted /\ HeldIsMember /\ SlotsHaveOwners
    BY <1>2, FS_EmptySet, SlotsAssumption
       DEF SlotsCounted, HeldIsMember, SlotsHaveOwners, Protected
  <1>4. QueueInv
    BY <1>2, FS_EmptySet DEF Init, QueueInv, WaitersCounted, RefusalsJustified
  <1> QED
    BY <1>1, <1>3, <1>4 DEF SlotsInv

\* The members of the sorted set, who owns them and what the wait counter
\* counts: the inductive invariant of slots and queue.
THEOREM SlotsInvariant == Spec => [](SlotsInv /\ QueueInv)
  <1>1. SlotsInv /\ QueueInv /\ [Next]_vars => (SlotsInv /\ QueueInv)'
    BY SlotsStep, QueueStep DEF SlotsInv
  <1> QED
    BY <1>1, SlotsInit, PTL DEF Spec

\* The variables keep their types; in particular the wait counter never
\* exceeds the limit of the queue.
THEOREM SlotTypes == Spec => []TypeOK
  <1>1. SlotsInv /\ QueueInv => TypeOK
    BY DEF SlotsInv
  <1> QED
    BY <1>1, SlotsInvariant, PTL

\* acquireScript keeps the limit for requests within the TTL whose slot no
\* start has removed.
THEOREM LimitIsKept == Spec => []LimitHolds
  <1>1. SlotsInv /\ QueueInv => LimitHolds
    <2> SUFFICES ASSUME SlotsInv PROVE LimitHolds
      OBVIOUS
    <2>1. Protected \in SUBSET slots
      BY DEF SlotsInv, HeldIsMember
    <2> QED
      BY <2>1, FewerSlots DEF SlotsInv, LimitHolds
  <1> QED
    BY <1>1, SlotsInvariant, PTL

\* Only a failed call or a crash leaves a slot behind.
THEOREM OwnersKnown == Spec => []SlotsHaveOwners
  <1>1. SlotsInv /\ QueueInv => SlotsHaveOwners
    BY DEF SlotsInv
  <1> QED
    BY <1>1, SlotsInvariant, PTL

\* The wait queue is longer than its limit only by what failed open, was
\* decremented twice or lost its counter.
THEOREM QueueIsBounded == Spec => []QueueBounded
  <1>1. SlotsInv /\ QueueInv => QueueBounded
    <2> SUFFICES ASSUME SlotsInv, QueueInv PROVE QueueBounded
      OBVIOUS
    <2>1. Waiters \in SUBSET Requests
      BY DEF Waiters
    <2>2. Cardinality(Waiters) \in Nat
      BY <2>1, RequestsFinite
    <2> QED
      BY <2>2, SlotsAssumption DEF SlotsInv, TypeOK, QueueInv, WaitersCounted, QueueBounded
  <1> QED
    BY <1>1, SlotsInvariant, PTL

\* A full queue is full of waiters, or of what failures and crashes left.
THEOREM RefusalsAreJustified == Spec => []RefusalsJustified
  <1>1. SlotsInv /\ QueueInv => RefusalsJustified
    BY DEF QueueInv
  <1> QED
    BY <1>1, SlotsInvariant, PTL
=============================================================================

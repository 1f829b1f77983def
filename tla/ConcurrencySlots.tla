-------------------------- MODULE ConcurrencySlots --------------------------
(***************************************************************************)
(* The concurrency slots and the wait counter of one user in Redis, shared *)
(* by the gateway requests of several instances                            *)
(* (repository/concurrency_cache.go, service/concurrency_service.go,       *)
(* handler/gateway_helper.go).                                             *)
(*                                                                         *)
(* A request tries to get a slot; when the user is at the limit it joins   *)
(* the wait queue, polls for a slot, leaves the queue, runs and gives the  *)
(* slot back.  The client may disconnect at any point, a call to Redis may *)
(* fail or be sent twice, an instance may crash, and an instance that      *)
(* starts clears what it takes for the remains of earlier processes.       *)
(*                                                                         *)
(* The Lua scripts are atomic.  A member of the sorted set is written as   *)
(* its request: every attempt has an id of its own, but an attempt that    *)
(* got its answer leaves a member only if it succeeded, and one that got   *)
(* none is the last, so that a request never has two.                      *)
(***************************************************************************)
EXTENDS Naturals, FiniteSets

CONSTANTS
    Requests,        \* the requests of the user
    Instances,       \* the processes, each with an id prefix of its own
    InstanceOf,      \* the process that serves a request
    MaxConcurrency,  \* the user's limit (zero, no limit, uses no slots)
    QueueLimit,      \* CalculateMaxWait(max) - max
    SlotTTL,         \* slotTTLSeconds, in ticks
    MaxFaults        \* bound: failed or repeated calls, and crashes

ASSUME SlotsAssumption ==
    /\ IsFiniteSet(Requests)
    /\ InstanceOf \in [Requests -> Instances]
    /\ MaxConcurrency \in Nat \ {0}
    /\ QueueLimit \in Nat \ {0}
    /\ SlotTTL \in Nat \ {0}
    /\ MaxFaults \in Nat

VARIABLES
    pc,         \* where each request is
    cancelled,  \* the requests whose client has gone
    slots,      \* the members of concurrency:user:{id}
    age,        \* ticks since the request's score was set
    waiting,    \* concurrency:wait:{id}, 0 when there is no key
    inst,       \* the state of each process
    faults,     \* how many failures there have been
    broken,     \* history: requests that a failure has hit
    swept,      \* history: running requests whose slot a start has removed
    over,       \* history: increments that nobody will take back
    under       \* history: decrements for which nobody was counted

vars == <<pc, cancelled, slots, age, waiting, inst, faults, broken, swept, over, under>>

Stages == {"idle", "trying", "queueing", "waiting", "leaving", "admitted", "running", "done"}

\* The requests that have been given a slot and have not returned it.
Active == {r \in Requests : pc[r] \in {"admitted", "running"}}

\* The requests in the wait queue, until their deferred decrement has run.
Waiters == {r \in Requests : pc[r] \in {"waiting", "leaving", "admitted"}}

TypeOK ==
    /\ pc \in [Requests -> Stages]
    /\ cancelled \subseteq Requests
    /\ slots \subseteq Requests
    /\ age \in [Requests -> 0 .. SlotTTL]
    /\ waiting \in 0 .. QueueLimit
    /\ inst \in [Instances -> {"off", "counters", "up", "down"}]
    /\ faults \in 0 .. MaxFaults
    /\ broken \subseteq Requests
    /\ swept \subseteq Requests
    /\ over \in Nat
    /\ under \in Nat

Init ==
    /\ pc = [r \in Requests |-> "idle"]
    /\ cancelled = {}
    /\ slots = {}
    /\ age = [r \in Requests |-> 0]
    /\ waiting = 0
    /\ inst = [p \in Instances |-> "off"]
    /\ faults = 0
    /\ broken = {}
    /\ swept = {}
    /\ over = 0
    /\ under = 0

-----------------------------------------------------------------------------
(* The scripts.                                                            *)

\* A faulty variant: the clean-up passes over the slots of dead processes.
ExpiredOfLive == {r \in slots : age[r] >= SlotTTL /\ inst[InstanceOf[r]] = "up"}

\* ZREMRANGEBYSCORE key -inf (now - ttl): the members that go, and the rest.
Expired == {r \in slots : age[r] >= SlotTTL}
Live    == slots \ Expired

\* A faulty variant: one member too many.
GrantsOneMore(r) == r \in Live \/ Cardinality(Live) <= MaxConcurrency

\* acquireScript answers 1: the id is there already, or there is room.
Grants(r) == r \in Live \/ Cardinality(Live) < MaxConcurrency

AcquireScript(r) ==
    /\ slots' = IF Grants(r) THEN Live \cup {r} ELSE Live
    /\ age' = IF Grants(r) THEN [age EXCEPT ![r] = 0] ELSE age

\* incrementWaitScript counts the caller.
HasPlace == waiting < QueueLimit

\* decrementWaitScript never goes below zero.
Decremented == IF waiting > 0 THEN waiting - 1 ELSE 0

Fault ==
    /\ faults < MaxFaults
    /\ faults' = faults + 1

Goto(r, stage) == pc' = [pc EXCEPT ![r] = stage]

-----------------------------------------------------------------------------
(* A request.                                                              *)

\* The instance serves requests once ProvideConcurrencyService has returned.
Arrive(r) ==
    /\ pc[r] = "idle"
    /\ inst[InstanceOf[r]] = "up"
    /\ Goto(r, "trying")
    /\ UNCHANGED <<cancelled, slots, age, waiting, inst, faults, broken, swept, over, under>>

\* The client disconnects: the context of the request is cancelled.
Cancel(r) ==
    /\ pc[r] \notin {"idle", "done"}
    /\ r \notin cancelled
    /\ cancelled' = cancelled \cup {r}
    /\ UNCHANGED <<pc, slots, age, waiting, inst, faults, broken, swept, over, under>>

\* TryAcquireUserSlot: the first attempt.
TryAcquire(r) ==
    /\ pc[r] = "trying"
    /\ r \notin cancelled
    /\ AcquireScript(r)
    /\ Goto(r, IF Grants(r) THEN "running" ELSE "queueing")
    /\ UNCHANGED <<cancelled, waiting, inst, faults, broken, swept, over, under>>

\* A cancelled context stops the call before it is sent.
TryCancelled(r) ==
    /\ pc[r] = "trying"
    /\ r \in cancelled
    /\ Goto(r, "done")
    /\ UNCHANGED <<cancelled, slots, age, waiting, inst, faults, broken, swept, over, under>>

\* Redis does not answer, and the request ends with an error.
TryFails(r) ==
    /\ pc[r] = "trying"
    /\ Fault
    /\ Goto(r, "done")
    /\ broken' = broken \cup {r}
    /\ UNCHANGED <<cancelled, slots, age, waiting, inst, swept, over, under>>

\* The script ran and its answer is lost: the client sends it again, with the
\* same id.
AcquireReplyLost(r) ==
    /\ pc[r] \in {"trying", "waiting"}
    /\ r \notin cancelled
    /\ Fault
    /\ AcquireScript(r)
    /\ broken' = broken \cup {r}
    /\ UNCHANGED <<pc, cancelled, waiting, inst, swept, over, under>>

\* A faulty variant: one waiter too many.
JoinOneMore(r) ==
    /\ pc[r] = "queueing"
    /\ r \notin cancelled
    /\ waiting <= QueueLimit
    /\ waiting' = waiting + 1
    /\ Goto(r, "waiting")
    /\ UNCHANGED <<cancelled, slots, age, inst, faults, broken, swept, over, under>>

\* IncrementWaitCount: the queue has room, or the request is turned away.
JoinQueue(r) ==
    /\ pc[r] = "queueing"
    /\ r \notin cancelled
    /\ \/ /\ HasPlace
          /\ waiting' = waiting + 1
          /\ Goto(r, "waiting")
       \/ /\ ~HasPlace
          /\ Goto(r, "done")
          /\ UNCHANGED waiting
    /\ UNCHANGED <<cancelled, slots, age, inst, faults, broken, swept, over, under>>

\* An error of the increment lets the request wait all the same, be it that
\* Redis failed or that the client has gone; nobody is counted for it.
JoinFailsOpen(r) ==
    /\ pc[r] = "queueing"
    /\ \/ r \in cancelled /\ UNCHANGED faults
       \/ Fault
    /\ Goto(r, "waiting")
    /\ under' = under + 1
    /\ UNCHANGED <<cancelled, slots, age, waiting, inst, broken, swept, over>>

\* The increment is repeated after its answer was lost.
JoinReplyLost(r) ==
    /\ pc[r] = "queueing"
    /\ r \notin cancelled
    /\ HasPlace
    /\ Fault
    /\ waiting' = waiting + 1
    /\ over' = over + 1
    /\ UNCHANGED <<pc, cancelled, slots, age, inst, broken, swept, under>>

\* waitForSlotWithPingTimeout: the timer fires and the request tries again.
Poll(r) ==
    /\ pc[r] = "waiting"
    /\ r \notin cancelled
    /\ AcquireScript(r)
    /\ Goto(r, IF Grants(r) THEN "admitted" ELSE "waiting")
    /\ UNCHANGED <<cancelled, waiting, inst, faults, broken, swept, over, under>>

\* The wait ends without a slot: maxConcurrencyWait is over, the client has
\* gone, or an attempt fails.
GiveUp(r) ==
    /\ pc[r] = "waiting"
    /\ Goto(r, "leaving")
    /\ UNCHANGED <<cancelled, slots, age, waiting, inst, faults, broken, swept, over, under>>

\* Where the request goes after its deferred DecrementWaitCount.
AfterQueue(r) == IF pc[r] = "admitted" THEN "running" ELSE "done"

\* A faulty variant: a request that gives up keeps its place in the counter.
LeaveIfAdmitted(r) ==
    /\ pc[r] \in {"leaving", "admitted"}
    /\ waiting' = IF pc[r] = "admitted" THEN Decremented ELSE waiting
    /\ Goto(r, AfterQueue(r))
    /\ UNCHANGED <<cancelled, slots, age, inst, faults, broken, swept, over, under>>

\* The deferred DecrementWaitCount, under a context of its own.
Leave(r) ==
    /\ pc[r] \in {"leaving", "admitted"}
    /\ waiting' = Decremented
    /\ Goto(r, AfterQueue(r))
    /\ UNCHANGED <<cancelled, slots, age, inst, faults, broken, swept, over, under>>

\* The decrement fails; the error is logged.
LeaveFails(r) ==
    /\ pc[r] \in {"leaving", "admitted"}
    /\ Fault
    /\ Goto(r, AfterQueue(r))
    /\ over' = over + 1
    /\ UNCHANGED <<cancelled, slots, age, waiting, inst, broken, swept, under>>

\* The decrement is repeated after its answer was lost.
LeaveReplyLost(r) ==
    /\ pc[r] \in {"leaving", "admitted"}
    /\ Fault
    /\ waiting' = Decremented
    /\ under' = under + 1
    /\ UNCHANGED <<pc, cancelled, slots, age, inst, broken, swept, over>>

\* A faulty variant: ZREM under the request's own context, which may be over.
ReleaseWithRequest(r) ==
    /\ pc[r] = "running"
    /\ slots' = IF r \in cancelled THEN slots ELSE slots \ {r}
    /\ Goto(r, "done")
    /\ UNCHANGED <<cancelled, age, waiting, inst, faults, broken, swept, over, under>>

\* The release function runs once: when the handler returns, or as soon as
\* the context is cancelled (wrapReleaseOnDone).
Release(r) ==
    /\ pc[r] = "running"
    /\ slots' = slots \ {r}
    /\ Goto(r, "done")
    /\ UNCHANGED <<cancelled, age, waiting, inst, faults, broken, swept, over, under>>

\* ZREM fails; the error is logged and the member stays.
ReleaseFails(r) ==
    /\ pc[r] = "running"
    /\ Fault
    /\ Goto(r, "done")
    /\ broken' = broken \cup {r}
    /\ UNCHANGED <<cancelled, slots, age, waiting, inst, swept, over, under>>

-----------------------------------------------------------------------------
(* An instance.                                                            *)

\* CleanupStaleProcessSlots, first part: the members without this process's
\* prefix are removed, whoever they belong to.
Foreign(p) == {r \in slots : InstanceOf[r] # p}

SweepSlots(p) ==
    /\ inst[p] = "off"
    /\ slots' = slots \ Foreign(p)
    /\ swept' = swept \cup (Foreign(p) \cap Active)
    /\ inst' = [inst EXCEPT ![p] = "counters"]
    /\ UNCHANGED <<pc, cancelled, age, waiting, faults, broken, over, under>>

\* Second part: the wait counters are deleted.  Then the instance serves.
DeleteCounters(p) ==
    /\ inst[p] = "counters"
    /\ waiting' = 0
    /\ under' = under + waiting
    /\ over' = 0
    /\ inst' = [inst EXCEPT ![p] = "up"]
    /\ UNCHANGED <<pc, cancelled, slots, age, faults, broken, swept>>

\* An error ends the cleanup; it is logged and the instance serves.
CleanupFails(p) ==
    /\ inst[p] \in {"off", "counters"}
    /\ Fault
    /\ inst' = [inst EXCEPT ![p] = "up"]
    /\ UNCHANGED <<pc, cancelled, slots, age, waiting, broken, swept, over, under>>

\* The requests a process has taken and not finished.
Served(p) == {r \in Requests : InstanceOf[r] = p /\ pc[r] \notin {"idle", "done"}}

\* The process dies: its requests end, what they had in Redis stays.
Crash(p) ==
    /\ inst[p] = "up"
    /\ Fault
    /\ inst' = [inst EXCEPT ![p] = "down"]
    /\ pc' = [r \in Requests |-> IF r \in Served(p) THEN "done" ELSE pc[r]]
    /\ broken' = broken \cup Served(p)
    /\ over' = over + Cardinality(Waiters \cap Served(p))
    /\ UNCHANGED <<cancelled, slots, age, waiting, swept, under>>

-----------------------------------------------------------------------------
(* Redis.                                                                  *)

\* The scores that still matter: of members and of running requests.
Timed == slots \cup Active

Tick ==
    /\ \E r \in Timed : age[r] < SlotTTL
    /\ age' = [r \in Requests |->
                IF r \in Timed /\ age[r] < SlotTTL THEN age[r] + 1 ELSE age[r]]
    /\ UNCHANGED <<pc, cancelled, slots, waiting, inst, faults, broken, swept, over, under>>

\* getCountScript, the load batches, cleanupExpiredSlotsScript, or the key's
\* own EXPIRE, which every acquisition sets to the same TTL.
RemoveExpired ==
    /\ Expired # {}
    /\ slots' = Live
    /\ UNCHANGED <<pc, cancelled, age, waiting, inst, faults, broken, swept, over, under>>

\* The counter's EXPIRE, which every increment refreshes, is longer than a
\* request waits.
CounterExpires ==
    /\ waiting > 0
    /\ Waiters = {}
    /\ waiting' = 0
    /\ over' = 0
    /\ UNCHANGED <<pc, cancelled, slots, age, inst, faults, broken, swept, under>>

-----------------------------------------------------------------------------
RequestStep(r) ==
    \/ Arrive(r) \/ Cancel(r)
    \/ TryAcquire(r) \/ TryCancelled(r) \/ TryFails(r) \/ AcquireReplyLost(r)
    \/ JoinQueue(r) \/ JoinFailsOpen(r) \/ JoinReplyLost(r)
    \/ Poll(r) \/ GiveUp(r)
    \/ Leave(r) \/ LeaveFails(r) \/ LeaveReplyLost(r)
    \/ Release(r) \/ ReleaseFails(r)

InstanceStep(p) == SweepSlots(p) \/ DeleteCounters(p) \/ CleanupFails(p) \/ Crash(p)

Next ==
    \/ \E r \in Requests : RequestStep(r)
    \/ \E p \in Instances : InstanceStep(p)
    \/ Tick \/ RemoveExpired \/ CounterExpires

\* Time passes, and expired members are removed.
Fairness == WF_vars(Tick) /\ WF_vars(RemoveExpired)

Spec == Init /\ [][Next]_vars /\ Fairness

-----------------------------------------------------------------------------
(* Properties.                                                             *)

\* The requests whose slot is protected: not older than the TTL, and not
\* taken away by the start of another instance.
Protected == {r \in Active : age[r] < SlotTTL /\ r \notin swept}

\* acquireScript enforces the limit across instances, retries, failures and
\* crashes: at most MaxConcurrency requests run whose slot has neither outlived
\* its TTL nor been removed by a starting instance.
LimitHolds == Cardinality(Protected) <= MaxConcurrency

\* A slot is occupied by a running request, or by one that a failed call or a
\* crash has hit: cancelling, timing out and being turned away leave nothing.
SlotsHaveOwners == slots \subseteq Active \cup broken

\* The queue is no longer than its limit, except for the waiters whose
\* increment failed open, decrements executed twice and deleted counters.
QueueBounded == Cardinality(Waiters) <= QueueLimit + under

\* The counter counts nobody who does not wait, except after a failed or lost
\* decrement, an increment executed twice or a crash: a request that finds the
\* queue full is not turned away for nothing.
RefusalsJustified == waiting <= Cardinality(Waiters) + over

\* A slot that a finished request has left behind is freed in the end.
LeakEnds == \A r \in Requests : (pc[r] = "done" /\ r \in slots) ~> (r \notin slots)
=============================================================================

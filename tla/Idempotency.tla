---------------------------- MODULE Idempotency ----------------------------
(***************************************************************************)
(* IdempotencyCoordinator.Execute (service/idempotency.go): requests that  *)
(* carry the same Idempotency-Key, possibly with different payloads, race  *)
(* for one record; the winner runs the protected operation.  A request     *)
(* takes its time once, at the start, and every later comparison uses it.  *)
(***************************************************************************)
EXTENDS IdempotencyStore, Sequences

CONSTANTS
    Clients,   \* requests in flight
    Backoff,   \* FailedRetryBackoff
    MaxExec    \* bound on a request's duration, far below TTL

ASSUME ExecAssumption == Backoff \in Nat /\ MaxExec \in Nat /\ MaxExec < TTL

VARIABLES
    pc, req,   \* where each request is, and its local variables
    ran        \* the operations that took effect: payload, time of the request, of the effect

clientVars == <<pc, req>>
vars       == <<store, now, faults, clientVars, ran>>

Labels == {"idle", "create", "get", "reclaimExpired", "getLatest", "decide",
           "reclaimFailed", "exec", "markSucceeded", "markFailed"}
\* The steps of a request that owns the record.
Owning == {"exec", "markSucceeded", "markFailed"}

\* fp and t: fingerprint and time of the request; existing: the record as it
\* was read; id: the record it owns; body: its response; replay: a stored
\* response it was answered with.
NoReq == [fp |-> "-", t |-> 0, existing |-> NoRow, id |-> 0, body |-> 0, replay |-> 0]

TypeOK ==
    /\ StoreTypeOK
    /\ pc \in [Clients -> Labels]
    /\ \A c \in Clients : /\ req[c].fp \in Fingerprints \union {"-"}
                          /\ req[c].id \in 0 .. lastId /\ req[c].t \in 0 .. now
    /\ ran \in Seq([fp : Fingerprints, t : 0 .. now, at : 0 .. now])

Init ==
    /\ StoreInit
    /\ pc = [c \in Clients |-> "idle"] /\ req = [c \in Clients |-> NoReq]
    /\ ran = <<>>

At(c, l)   == pc[c] = l
Goto(c, l) == pc' = [pc EXCEPT ![c] = l]
Return(c)  == Goto(c, "idle") /\ req' = [req EXCEPT ![c] = NoReq]
Owns(c, id) == Goto(c, "exec") /\ req' = [req EXCEPT ![c].id = id]

-----------------------------------------------------------------------------
\* A request with a key arrives; an answer of the last one is forgotten.
Arrive(c, fp) ==
    /\ At(c, "idle") /\ Goto(c, "create")
    /\ req' = [req EXCEPT ![c] = [NoReq EXCEPT !.fp = fp, !.t = now]]
    /\ Fine /\ UNCHANGED <<store, now, ran>>

\* CreateProcessing; when its read-back fails the new record has no owner.
Create(c) ==
    /\ At(c, "create")
    /\ \/ /\ CreateProcessing(req[c].fp, req[c].t)
          /\ \/ Owns(c, lastId') /\ Fine
             \/ Return(c) /\ Fault
       \/ row # NoRow /\ Goto(c, "get") /\ Fine /\ UNCHANGED <<store, req>>
       \/ Return(c) /\ Fault /\ UNCHANGED store
    /\ UNCHANGED <<now, ran>>

\* A faulty variant: the payload of the record is not compared.
AnyPayload(c) == TRUE

\* The record that was read belongs to the same payload.
SamePayload(c) == row.fp = req[c].fp

\* GetByScopeAndKeyHash and the checks on its result: a missing record, another
\* payload, a record that expired before the request came.
Get(c) ==
    /\ At(c, "get")
    /\ \/ /\ row # NoRow /\ SamePayload(c) /\ Fine
          /\ req' = [req EXCEPT ![c].existing = row]
          /\ Goto(c, IF row.exp <= req[c].t THEN "reclaimExpired" ELSE "decide")
       \/ (row = NoRow \/ ~SamePayload(c)) /\ Fine /\ Return(c)
       \/ Fault /\ Return(c)
    /\ UNCHANGED <<store, now, ran>>

ReclaimExpired(c) ==
    /\ At(c, "reclaimExpired")
    /\ LET e == req[c].existing
       IN \/ TryReclaim(e.id, e.status, req[c].t) /\ Owns(c, e.id) /\ Fine
          \/ /\ ~Reclaimable(e.id, e.status, req[c].t) /\ Goto(c, "getLatest") /\ Fine
             /\ UNCHANGED <<store, req>>
          \/ Fault /\ Return(c) /\ UNCHANGED store
    /\ UNCHANGED <<now, ran>>

\* The record again, after a lost race.
GetLatest(c) ==
    /\ At(c, "getLatest")
    /\ \/ /\ row # NoRow /\ SamePayload(c) /\ Fine
          /\ req' = [req EXCEPT ![c].existing = row] /\ Goto(c, "decide")
       \/ (row = NoRow \/ ~SamePayload(c)) /\ Fine /\ Return(c)
       \/ Fault /\ Return(c)
    /\ UNCHANGED <<store, now, ran>>

\* The switch on the status: replay, refuse, or take up a failed operation.
Decide(c) ==
    /\ At(c, "decide")
    /\ LET e == req[c].existing
       IN \/ /\ e.status = "succeeded" /\ Goto(c, "idle")
             /\ req' = [req EXCEPT ![c].replay = e.body]
          \/ /\ \/ e.status = "processing"
                \/ e.status = "failed_retryable" /\ e.locked > req[c].t
             /\ Return(c)
          \/ /\ e.status = "failed_retryable" /\ e.locked <= req[c].t
             /\ Goto(c, "reclaimFailed") /\ UNCHANGED req
    /\ Fine /\ UNCHANGED <<store, now, ran>>

ReclaimFailed(c) ==
    /\ At(c, "reclaimFailed")
    /\ LET e == req[c].existing
       IN \/ TryReclaim(e.id, "failed_retryable", req[c].t) /\ Owns(c, e.id) /\ Fine
          \/ /\ ~Reclaimable(e.id, "failed_retryable", req[c].t) /\ Fine
             /\ Return(c) /\ UNCHANGED store
          \/ Fault /\ Return(c) /\ UNCHANGED store
    /\ UNCHANGED <<now, ran>>

\* The protected operation: it takes effect or fails without one.
Exec(c) ==
    /\ At(c, "exec")
    /\ \/ /\ ran' = Append(ran, [fp |-> req[c].fp, t |-> req[c].t, at |-> now])
          /\ req' = [req EXCEPT ![c].body = Len(ran')] /\ Goto(c, "markSucceeded")
       \/ Goto(c, "markFailed") /\ UNCHANGED <<ran, req>>
    /\ Fine /\ UNCHANGED <<store, now>>

\* A failure here leaves the record processing until it expires.
MarkOk(c) ==
    /\ At(c, "markSucceeded")
    /\ \/ MarkSucceeded(req[c].id, req[c].body, req[c].t + TTL) /\ Fine
       \/ Fault /\ UNCHANGED store
    /\ Return(c) /\ UNCHANGED <<now, ran>>

MarkFailed(c) ==
    /\ At(c, "markFailed")
    /\ \/ MarkFailedRetryable(req[c].id, now + Backoff, req[c].t + TTL) /\ Fine
       \/ Fault /\ UNCHANGED store
    /\ Return(c) /\ UNCHANGED <<now, ran>>

-----------------------------------------------------------------------------
Crash(c) ==
    /\ ~At(c, "idle") /\ Fault /\ Return(c)
    /\ UNCHANGED <<store, now, ran>>

Cleanup == DeleteExpired /\ Fine /\ UNCHANGED <<now, clientVars, ran>>

\* No request lasts longer than MaxExec.
Tick ==
    /\ now < MaxTime /\ now' = now + 1
    /\ \A c \in Clients : ~At(c, "idle") => now < req[c].t + MaxExec
    /\ Fine /\ UNCHANGED <<store, clientVars, ran>>

Execute(c) ==
    \/ \E fp \in Fingerprints : Arrive(c, fp)
    \/ Create(c) \/ Get(c) \/ ReclaimExpired(c) \/ GetLatest(c) \/ Decide(c)
    \/ ReclaimFailed(c) \/ Exec(c) \/ MarkOk(c) \/ MarkFailed(c)

Next ==
    \/ \E c \in Clients : Execute(c) \/ Crash(c)
    \/ Cleanup \/ Tick

Spec == Init /\ [][Next]_vars

-----------------------------------------------------------------------------
\* The record is a lock: at most one request is between its claim and its mark,
\* whatever the others have read before, and also when the cleanup deletes
\* the record or a process dies.
ExecutesAlone ==
    \A c, d \in Clients : pc[c] \in Owning /\ pc[d] \in Owning => c = d

\* An answer replayed from the record is that of an operation that took effect
\* for the same payload, never of a conflicting request or of none.
ReplayIsGenuine ==
    \A c \in Clients : LET b == req[c].replay IN
        b # 0 => b \in 1 .. Len(ran) /\ ran[b].fp = req[c].fp

\* The first operation a key performs is not repeated as long as its record
\* lives, whatever fails, dies or is retried after it, and however late the
\* cleanup and the reclaims come.
OncePerFirstLife ==
    \A j \in 2 .. Len(ran) : ran[1].t + TTL <= ran[j].at

=============================================================================

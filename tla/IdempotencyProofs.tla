-------------------------- MODULE IdempotencyProofs --------------------------
(***************************************************************************)
(* Proofs about Idempotency for any number of requests and payloads and    *)
(* any times.  Genuine replays need no assumption on the times; that a     *)
(* record is a lock needs a processing timeout above every request's       *)
(* duration, which those theorems state as a hypothesis.                   *)
(***************************************************************************)
EXTENDS Idempotency, SequenceTheorems, TLAPS

Rows == [id : Nat, fp : Fingerprints \union {"-"},
         status : {"none", "processing", "succeeded", "failed_retryable"},
         locked : Nat, exp : Nat, body : Nat]
Reqs == [fp : Fingerprints \union {"-"}, t : Nat, existing : Rows, id : Nat, body : Nat,
         replay : Nat]
Effects == [fp : Fingerprints, t : Nat, at : Nat]

Typed ==
    /\ row \in Rows /\ lastId \in Nat /\ now \in Nat /\ faults \in Nat
    /\ pc \in [Clients -> Labels] /\ req \in [Clients -> Reqs] /\ ran \in Seq(Effects)

\* The clock: no request and no effect comes from the future, and no request is
\* older than MaxExec.
TimelyReq(c) == /\ req[c].t <= now
                /\ pc[c] # "idle" => now <= req[c].t + MaxExec /\ req[c].fp \in Fingerprints
TimelyRan == \A i \in 1 .. Len(ran) : ran[i].t <= now /\ ran[i].at <= now

\* The steps of a request that decides on a record it has read.
Reading == {"reclaimExpired", "getLatest", "decide", "reclaimFailed"}

\* An id belongs to one payload for ever.
IdRow == row.id <= lastId /\ (row # NoRow => row.id >= 1)
IdReq(c) ==
    /\ req[c].id <= lastId /\ req[c].existing.id <= lastId
    /\ pc[c] \in Reading => /\ req[c].existing.id >= 1 /\ req[c].existing.fp = req[c].fp
                            /\ row.id = req[c].existing.id => row.fp = req[c].fp
    /\ pc[c] \in Owning => /\ req[c].id >= 1
                           /\ row.id = req[c].id => row.fp = req[c].fp

\* Response b, if it is one, is that of an operation with payload fp; every
\* response on its way to a replay is.
Answers(b, fp) == b # 0 => b \in 1 .. Len(ran) /\ ran[b].fp = fp
GenuineReq(c) ==
    /\ pc[c] \in Reading => Answers(req[c].existing.body, req[c].fp)
    /\ pc[c] = "markSucceeded" => Answers(req[c].body, req[c].fp)
    /\ Answers(req[c].replay, req[c].fp)

RecordRow == IdRow /\ TimelyRan /\ Answers(row.body, row.fp)
RecordReq(c) == TimelyReq(c) /\ IdReq(c) /\ GenuineReq(c)

RecordInv == Typed /\ RecordRow /\ \A c \in Clients : RecordReq(c)

\* The record of an owner is as its claim left it.
HoldsReq(c) ==
    pc[c] \in Owning => /\ row.id = req[c].id /\ row.status = "processing"
                       /\ row.locked = req[c].t + Timeout /\ row.exp = req[c].t + TTL

\* What is known of a record marked as succeeded: its operation took effect, and
\* it lives as long as the first one's record at least.
Lasts(r) == r.status = "succeeded" => Len(ran) >= 1 /\ ran[1].t + TTL <= r.exp

LastsReq(c) ==
    /\ pc[c] \in Reading => Lasts(req[c].existing)
    /\ pc[c] = "reclaimExpired" => req[c].existing.exp <= req[c].t
    /\ pc[c] = "markSucceeded" => Len(ran) >= 1 /\ ran[1].t <= req[c].t

\* The record of the first operation that took effect has not expired.
FirstLife == Len(ran) >= 1 /\ now < ran[1].t + TTL

\* During that time nobody can claim the record: it is succeeded or processing,
\* and whoever read it before as expired came before its lock ran out.
GuardsRow ==
    FirstLife => /\ row.id >= 1 /\ row.status \in {"processing", "succeeded"}
                 /\ ran[1].t + TTL <= row.exp
                 /\ row.status = "processing" => ran[1].t + Timeout <= row.locked
GuardsReq(c) ==
    FirstLife => /\ pc[c] \notin {"exec", "markFailed"}
                 /\ pc[c] = "reclaimExpired" => /\ req[c].existing.status # "succeeded"
                                                /\ req[c].t < ran[1].t + Timeout

ExclusiveReq(c) == HoldsReq(c) /\ LastsReq(c) /\ GuardsReq(c)

ExclusiveInv ==
    /\ RecordInv
    /\ Lasts(row) /\ GuardsRow /\ \A c \in Clients : ExclusiveReq(c)
    /\ ExecutesAlone /\ OncePerFirstLife

-----------------------------------------------------------------------------
(* Types.                                                                    *)

LEMMA NoneTyped == NoRow \in Rows /\ NoReq \in Reqs
  BY DEF NoRow, NoReq, Rows, Reqs

LEMMA Constants == /\ TTL \in Nat /\ Timeout \in Nat /\ MaxTime \in Nat /\ MaxFaults \in Nat
                   /\ Backoff \in Nat /\ MaxExec \in Nat /\ MaxExec < TTL
  BY StoreAssumption, ExecAssumption

\* Appending an effect leaves the earlier ones where they are.
LEMMA AppendedEffect ==
  ASSUME NEW s \in Seq(Effects), NEW e \in Effects
  PROVE  /\ Append(s, e) \in Seq(Effects) /\ Len(s) \in Nat /\ Len(Append(s, e)) = Len(s) + 1
         /\ Append(s, e)[Len(s) + 1] = e
         /\ \A i \in 1 .. Len(s) : Append(s, e)[i] = s[i]
  OBVIOUS

\* The parts that a step of a request touches.
TStore == row \in Rows /\ lastId \in Nat
TReq   == pc \in [Clients -> Labels] /\ req \in [Clients -> Reqs]

LEMMA TypedParts == Typed <=> TStore /\ TReq /\ now \in Nat /\ faults \in Nat /\ ran \in Seq(Effects)
  BY DEF Typed, TStore, TReq

LEMMA TypedPartsNext ==
  Typed' <=> TStore' /\ TReq' /\ now' \in Nat /\ faults' \in Nat /\ ran' \in Seq(Effects)
  BY DEF Typed, TStore, TReq

LEMMA FaultTyped == ASSUME faults \in Nat, Fault \/ Fine PROVE faults' \in Nat
  BY DEF Fault, Fine

LEMMA ReturnTyped == ASSUME TReq, NEW c \in Clients, Return(c) PROVE TReq'
  BY NoneTyped DEF TReq, Return, Goto, Labels

LEMMA OwnsTyped == ASSUME TReq, NEW c \in Clients, NEW i \in Nat, Owns(c, i) PROVE TReq'
  BY DEF TReq, Owns, Goto, Labels, Reqs

\* The updates of a record and of a request's variables.
LEMMA RowUpdates ==
  ASSUME NEW r \in Rows, NEW l \in Nat, NEW x \in Nat, NEW b \in Nat,
         NEW s \in {"processing", "succeeded", "failed_retryable"}
  PROVE  /\ [r EXCEPT !.status = s, !.locked = l, !.exp = x] \in Rows
         /\ [r EXCEPT !.status = s, !.locked = l, !.exp = x, !.body = b] \in Rows
  BY DEF Rows

LEMMA ReqUpdates ==
  ASSUME NEW q \in Reqs, NEW r \in Rows, NEW b \in Nat
  PROVE  /\ [q EXCEPT !.existing = r] \in Reqs /\ [q EXCEPT !.body = b] \in Reqs
         /\ [q EXCEPT !.id = b] \in Reqs /\ [q EXCEPT !.replay = b] \in Reqs
  BY DEF Reqs

LEMMA ReclaimTyped ==
  ASSUME TStore, NEW i, NEW s, NEW x \in Nat, TryReclaim(i, s, x) PROVE TStore'
<1>1. x + Timeout \in Nat /\ x + TTL \in Nat
  BY Constants
<1> QED BY <1>1, RowUpdates DEF TStore, TryReclaim

\* The statements and the marks write what the columns hold.
LEMMA MarkTyped ==
  ASSUME TStore, NEW i, NEW b \in Nat, NEW x \in Nat,
         MarkSucceeded(i, b, x) \/ MarkFailedRetryable(i, b, x)
  PROVE  TStore'
<1>1. CASE MarkSucceeded(i, b, x)
  BY <1>1, RowUpdates, Zenon DEF TStore, MarkSucceeded
<1>2. CASE MarkFailedRetryable(i, b, x)
  BY <1>2, RowUpdates DEF TStore, MarkFailedRetryable
<1> QED BY <1>1, <1>2

LEMMA RequestFields ==
  ASSUME TReq, NEW c \in Clients
  PROVE  /\ req[c].fp \in Fingerprints \union {"-"} /\ req[c].t \in Nat /\ req[c].id \in Nat
         /\ req[c].existing \in Rows /\ req[c].body \in Nat /\ req[c].replay \in Nat
         /\ req[c].existing.id \in Nat /\ req[c].existing.exp \in Nat
         /\ req[c].existing.locked \in Nat /\ req[c].existing.body \in Nat
  BY DEF TReq, Reqs, Rows

LEMMA RowFields ==
  ASSUME TStore
  PROVE  /\ row.id \in Nat /\ row.exp \in Nat /\ row.locked \in Nat /\ row.body \in Nat
         /\ row.fp \in Fingerprints \union {"-"}
         /\ row.status \in {"none", "processing", "succeeded", "failed_retryable"}
  BY DEF TStore, Rows

LEMMA StepTyped ==
  ASSUME Typed, \A c \in Clients : TimelyReq(c), [Next]_vars
  PROVE  Typed'
<1>0. TStore /\ TReq /\ now \in Nat /\ faults \in Nat /\ ran \in Seq(Effects)
  BY TypedParts
<1>1. CASE UNCHANGED vars
  BY <1>0, <1>1, TypedPartsNext DEF vars, store, clientVars, TStore, TReq
<1>2. CASE Cleanup
  <2>1. TStore' /\ TReq' /\ now' = now /\ ran' = ran /\ faults' = faults
    BY <1>0, <1>2, NoneTyped DEF Cleanup, DeleteExpired, Fine, clientVars, TStore, TReq
  <2> QED BY <1>0, <2>1, TypedPartsNext
<1>3. CASE Tick
  <2>1. TStore' /\ TReq' /\ now' = now + 1 /\ ran' = ran /\ faults' = faults
    BY <1>0, <1>3 DEF Tick, Fine, clientVars, store, TStore, TReq
  <2> QED BY <1>0, <2>1, TypedPartsNext
<1>4. ASSUME NEW c \in Clients, Execute(c) \/ Crash(c) PROVE Typed'
  <2> USE RequestFields, Constants
  <2>f. faults' \in Nat
    BY <1>0, <1>4, FaultTyped DEF Execute, Crash, Arrive, Create, Get, ReclaimExpired, GetLatest,
       Decide, ReclaimFailed, Exec, MarkOk, MarkFailed
  <2>n. now' = now
    BY <1>4 DEF Execute, Crash, Arrive, Create, Get, ReclaimExpired, GetLatest,
       Decide, ReclaimFailed, Exec, MarkOk, MarkFailed
  <2>1. CASE Crash(c)
    <3>1. TStore' /\ TReq' /\ ran' = ran
      BY <1>0, <2>1, ReturnTyped DEF Crash, store, TStore
    <3> QED BY <1>0, <2>f, <2>n, <3>1, TypedPartsNext
  <2>2. CASE \E fp \in Fingerprints : Arrive(c, fp)
    <3>1. TStore' /\ TReq' /\ ran' = ran
      <4>1. PICK fp \in Fingerprints : Arrive(c, fp)
        BY <2>2
      <4>2. [NoReq EXCEPT !.fp = fp, !.t = now] \in Reqs
        BY <1>0, NoneTyped DEF Reqs
      <4> QED BY <1>0, <4>1, <4>2 DEF Arrive, Goto, Labels, store, TStore, TReq
    <3> QED BY <1>0, <2>f, <2>n, <3>1, TypedPartsNext
  <2>3. CASE Create(c)
    <3>1. ran' = ran
      BY <2>3 DEF Create
    <3>2. CASE CreateProcessing(req[c].fp, req[c].t)
      <4>1. TStore' /\ lastId' \in Nat
        <5>1. req[c].t + Timeout \in Nat /\ req[c].t + TTL \in Nat /\ lastId + 1 \in Nat
          BY <1>0 DEF TStore
        <5> QED BY <1>0, <3>2, <5>1 DEF CreateProcessing, TStore, Rows
      <4>2. CASE UNCHANGED store
        BY <1>0, <3>2, <4>2 DEF CreateProcessing, TStore, store
      <4>3. CASE Owns(c, lastId') \/ Return(c)
        <5>1. TReq'
          BY <1>0, <4>1, <4>3, OwnsTyped, ReturnTyped
        <5> QED BY <1>0, <2>f, <2>n, <3>1, <4>1, <5>1, TypedPartsNext
      <4> QED BY <2>3, <4>2, <4>3 DEF Create
    <3>3. CASE UNCHANGED store
      <4>1. CASE Return(c)
        <5>1. TReq' /\ TStore'
          BY <1>0, <3>3, <4>1, ReturnTyped DEF store, TStore
        <5> QED BY <1>0, <2>f, <2>n, <3>1, <5>1, TypedPartsNext
      <4>2. CASE Goto(c, "get") /\ UNCHANGED req
        <5>1. TReq' /\ TStore'
          BY <1>0, <3>3, <4>2 DEF store, TStore, TReq, Goto, Labels
        <5> QED BY <1>0, <2>f, <2>n, <3>1, <5>1, TypedPartsNext
      <4>3. CASE CreateProcessing(req[c].fp, req[c].t)
        BY <1>0, <3>3, <4>3 DEF CreateProcessing, TStore, store
      <4> QED BY <2>3, <4>1, <4>2, <4>3 DEF Create
    <3> QED BY <2>3, <3>2, <3>3 DEF Create
  <2>4. CASE Get(c) \/ GetLatest(c)
    <3>1. TStore' /\ ran' = ran
      BY <1>0, <2>4 DEF Get, GetLatest, store, TStore
    <3>2. CASE Return(c)
      BY <1>0, <2>f, <2>n, <3>1, <3>2, ReturnTyped, TypedPartsNext
    <3>3. CASE \E l \in Labels : Goto(c, l) /\ req' = [req EXCEPT ![c].existing = row]
      <4>1. TReq'
        <5>1. [req[c] EXCEPT !.existing = row] \in Reqs
          BY <1>0, ReqUpdates DEF TStore, TReq
        <5>2. req' \in [Clients -> Reqs]
          BY <1>0, <3>3, <5>1 DEF TReq
        <5>3. pc' \in [Clients -> Labels]
          BY <1>0, <3>3 DEF TReq, Goto
        <5> QED BY <5>2, <5>3 DEF TReq
      <4> QED BY <1>0, <2>f, <2>n, <3>1, <4>1, TypedPartsNext
    <3> QED BY <2>4, <3>2, <3>3 DEF Get, GetLatest, Labels
  <2>5. CASE ReclaimExpired(c) \/ ReclaimFailed(c)
    <3>1. ran' = ran
      BY <2>5 DEF ReclaimExpired, ReclaimFailed
    <3>2. TStore'
      BY <1>0, <2>5, ReclaimTyped DEF ReclaimExpired, ReclaimFailed, store, TStore
    <3>3. TReq'
      <4>1. CASE Return(c) \/ Owns(c, req[c].existing.id)
        BY <1>0, <4>1, ReturnTyped, OwnsTyped
      <4>2. CASE Goto(c, "getLatest") /\ UNCHANGED req
        BY <1>0, <4>2 DEF TReq, Goto, Labels
      <4> QED BY <2>5, <4>1, <4>2 DEF ReclaimExpired, ReclaimFailed
    <3> QED BY <1>0, <2>f, <2>n, <3>1, <3>2, <3>3, TypedPartsNext
  <2>6. CASE Decide(c)
    <3>1. TStore' /\ ran' = ran
      BY <1>0, <2>6 DEF Decide, store, TStore
    <3>2. TReq'
      <4>1. CASE Return(c)
        BY <1>0, <4>1, ReturnTyped
      <4>2. CASE Goto(c, "idle") /\ req' = [req EXCEPT ![c].replay = req[c].existing.body]
        BY <1>0, <4>2 DEF TReq, Goto, Labels, Reqs
      <4>3. CASE Goto(c, "reclaimFailed") /\ UNCHANGED req
        BY <1>0, <4>3 DEF TReq, Goto, Labels
      <4> QED BY <2>6, <4>1, <4>2, <4>3 DEF Decide
    <3> QED BY <1>0, <2>f, <2>n, <3>1, <3>2, TypedPartsNext
  <2>7. CASE Exec(c)
    <3>0. TStore'
      BY <1>0, <2>7 DEF Exec, store, TStore
    <3>1. CASE Goto(c, "markFailed") /\ UNCHANGED <<ran, req>>
      <4>1. TReq'
        BY <1>0, <3>1 DEF TReq, Goto, Labels
      <4> QED BY <1>0, <2>f, <2>n, <3>0, <3>1, <4>1, TypedPartsNext
    <3>2. CASE /\ ran' = Append(ran, [fp |-> req[c].fp, t |-> req[c].t, at |-> now])
               /\ req' = [req EXCEPT ![c].body = Len(ran')] /\ Goto(c, "markSucceeded")
      <4>1. [fp |-> req[c].fp, t |-> req[c].t, at |-> now] \in Effects
        BY <1>0, <2>7 DEF Exec, At, TimelyReq, Effects
      <4>2. ran' \in Seq(Effects) /\ Len(ran') \in Nat
        BY <1>0, <3>2, <4>1, AppendedEffect
      <4>3. TReq'
        BY <1>0, <3>2, <4>2, ReqUpdates DEF TReq, Goto, Labels
      <4> QED BY <1>0, <2>f, <2>n, <3>0, <4>2, <4>3, TypedPartsNext
    <3> QED BY <2>7, <3>1, <3>2 DEF Exec
  <2>8. CASE MarkOk(c) \/ MarkFailed(c)
    <3>1. TReq' /\ ran' = ran
      BY <1>0, <2>8, ReturnTyped DEF MarkOk, MarkFailed
    <3>2. TStore'
      BY <1>0, <2>8, MarkTyped DEF MarkOk, MarkFailed, store, TStore
    <3> QED BY <1>0, <2>f, <2>n, <3>1, <3>2, TypedPartsNext
  <2> QED BY <1>4, <2>1, <2>2, <2>3, <2>4, <2>5, <2>6, <2>7, <2>8 DEF Execute
<1> QED BY <1>1, <1>2, <1>3, <1>4 DEF Next

-----------------------------------------------------------------------------
(* Genuine replays.                                                          *)

OthersSame(c) == \A d \in Clients \ {c} : pc'[d] = pc[d] /\ req'[d] = req[d]

\* A statement leaves the record its id and payload, deletes it, or makes one
\* with a new id.
RowSafe ==
    /\ lastId' >= lastId /\ IdRow'
    /\ \/ row'.id = row.id /\ row'.fp = row.fp
       \/ row'.id = 0
       \/ row'.id = lastId + 1

RanGrows ==
    /\ Len(ran') >= Len(ran)
    /\ \A i \in 1 .. Len(ran) : ran'[i] = ran[i]

LEMMA RanSame == ASSUME Typed, ran' = ran PROVE RanGrows
  BY DEF Typed, RanGrows

LEMMA AnswersKept ==
  ASSUME Typed, Typed', RanGrows, NEW b \in Nat, NEW fp, Answers(b, fp)
  PROVE  b # 0 => b \in 1 .. Len(ran') /\ ran'[b].fp = fp
<1>1. Len(ran) \in Nat /\ Len(ran') \in Nat
  BY DEF Typed
<1> QED BY <1>1 DEF Answers, RanGrows

\* What a request knows stays true while others work.
LEMMA OthersKept ==
  ASSUME Typed, Typed', NEW c \in Clients, NEW d \in Clients \ {c}, RecordReq(d),
         OthersSame(c), RowSafe, RanGrows, now' = now
  PROVE  RecordReq(d)'
<1>0. TStore /\ TReq /\ now \in Nat /\ lastId \in Nat /\ lastId' \in Nat /\ row'.id \in Nat
  BY TypedParts, TypedPartsNext, RowFields DEF TStore, Typed, Rows
<1>1. pc'[d] = pc[d] /\ req'[d] = req[d]
  BY DEF OthersSame
<1>2. TimelyReq(d)'
  BY <1>1 DEF RecordReq, TimelyReq
<1>3. IdReq(d)'
  <2>1. /\ req[d].existing.id \in Nat /\ req[d].id \in Nat /\ row.id \in Nat
    BY <1>0, RequestFields, RowFields
  <2>2. ASSUME NEW i \in Nat, i >= 1, i <= lastId, row'.id = i PROVE row.id = i /\ row'.fp = row.fp
    BY <1>0, <2>1, <2>2 DEF RowSafe
  <2>3. lastId' >= lastId
    BY DEF RowSafe
  <2>4. IdReq(d)
    BY DEF RecordReq
  <2> HIDE DEF RowSafe
  <2> QED BY <1>0, <1>1, <2>1, <2>2, <2>3, <2>4 DEF IdReq
<1>4. GenuineReq(d)'
  <2>1. /\ req[d].existing.body \in Nat /\ req[d].body \in Nat /\ req[d].replay \in Nat
    BY <1>0, RequestFields
  <2> QED BY <1>1, <2>1, AnswersKept DEF RecordReq, GenuineReq, Answers
<1> QED BY <1>2, <1>3, <1>4 DEF RecordReq

\* A request that is answered has nothing left to know.
LEMMA ReturnOwn ==
  ASSUME Typed, Typed', NEW c \in Clients, Return(c)
  PROVE  OthersSame(c) /\ pc'[c] = "idle" /\ RecordReq(c)'
<1>1. pc'[c] = "idle" /\ req'[c] = NoReq
  BY DEF Return, Goto, Typed
<1>2. OthersSame(c)
  BY DEF Return, Goto, Typed, OthersSame
<1>3. now' \in Nat /\ lastId' \in Nat
  BY DEF Typed
<1>4. /\ req'[c].t = 0 /\ req'[c].id = 0 /\ req'[c].existing.id = 0 /\ req'[c].replay = 0
  BY <1>1 DEF NoReq, NoRow
<1> QED BY <1>1, <1>2, <1>3, <1>4 DEF RecordReq, TimelyReq, IdReq, GenuineReq, Reading, Owning, Answers

\* A step of request c keeps the invariant if it keeps the record's part and
\* its own.
LEMMA RecordKept ==
  ASSUME RecordInv, Typed', NEW c \in Clients, OthersSame(c), RowSafe, RanGrows, now' = now,
         TimelyRan', Answers(row.body, row.fp)', RecordReq(c)'
  PROVE  RecordInv'
<1>1. ASSUME NEW d \in Clients PROVE RecordReq(d)'
  BY OthersKept DEF RecordInv
<1>2. RecordRow'
  BY DEF RecordRow, RowSafe
<1> QED BY <1>1, <1>2 DEF RecordInv

\* A step that leaves the table and the effects alone.
LEMMA QuietKept ==
  ASSUME RecordInv, Typed', NEW c \in Clients, OthersSame(c), UNCHANGED <<store, now, ran>>,
         RecordReq(c)'
  PROVE  RecordInv'
<1>1. Typed /\ RecordRow /\ lastId \in Nat
  BY DEF RecordInv, Typed
<1>2. RowSafe
  BY <1>1 DEF RowSafe, RecordRow, IdRow, store
<1>3. RanGrows
  BY <1>1, RanSame
<1>4. TimelyRan' /\ Answers(row.body, row.fp)'
  BY <1>1 DEF RecordRow, TimelyRan, Answers, store
<1> QED BY <1>2, <1>3, <1>4, RecordKept

\* A statement that writes the record, with the request that sends it.
LEMMA WriteKept ==
  ASSUME RecordInv, Typed', NEW c \in Clients, OthersSame(c), RowSafe, UNCHANGED <<now, ran>>,
         Answers(row.body, row.fp)', RecordReq(c)'
  PROVE  RecordInv'
<1>1. Typed /\ RecordRow
  BY DEF RecordInv
<1>2. RanGrows
  BY <1>1, RanSame
<1>3. TimelyRan'
  BY <1>1 DEF RecordRow, TimelyRan
<1> QED BY <1>2, <1>3, RecordKept

LEMMA CreateSafe ==
  ASSUME RecordInv, NEW fp, NEW x, CreateProcessing(fp, x)
  PROVE  /\ RowSafe /\ Answers(row.body, row.fp)'
         /\ row'.id = lastId + 1 /\ lastId' = lastId + 1 /\ row'.fp = fp
         /\ row'.status = "processing" /\ row'.locked = x + Timeout /\ row'.exp = x + TTL
<1>1. lastId \in Nat
  BY DEF RecordInv, Typed
<1> QED BY <1>1 DEF CreateProcessing, RowSafe, IdRow, Answers

LEMMA ReclaimSafe ==
  ASSUME RecordInv, NEW i \in Nat, i >= 1, NEW s, NEW x, TryReclaim(i, s, x), ran' = ran
  PROVE  /\ RowSafe /\ Answers(row.body, row.fp)'
         /\ row.id = i /\ row.status = s /\ row.locked <= x
         /\ row'.id = i /\ row'.fp = row.fp /\ lastId' = lastId
         /\ row'.status = "processing" /\ row'.locked = x + Timeout /\ row'.exp = x + TTL
<1>1. row \in Rows /\ lastId \in Nat /\ RecordRow
  BY DEF RecordInv, Typed
<1>2. /\ row.id = i /\ row.status = s /\ row.locked <= x
      /\ row'.id = i /\ row'.fp = row.fp /\ lastId' = lastId /\ row'.body = row.body
      /\ row'.status = "processing" /\ row'.locked = x + Timeout /\ row'.exp = x + TTL
  BY <1>1 DEF TryReclaim, Reclaimable, Rows
<1>3. RowSafe
  BY <1>1, <1>2 DEF RowSafe, RecordRow, IdRow
<1>4. Answers(row.body, row.fp)'
  BY <1>1, <1>2 DEF RecordRow, Answers
<1> QED BY <1>2, <1>3, <1>4

LEMMA MarkSafe ==
  ASSUME RecordInv, NEW c \in Clients, pc[c] \in {"markSucceeded", "markFailed"}, ran' = ran,
         NEW l, NEW x,
         \/ pc[c] = "markSucceeded" /\ MarkSucceeded(req[c].id, req[c].body, x)
         \/ pc[c] = "markFailed" /\ MarkFailedRetryable(req[c].id, l, x)
  PROVE  RowSafe /\ Answers(row.body, row.fp)'
<1>1. row \in Rows /\ lastId \in Nat /\ RecordRow
  BY DEF RecordInv, Typed
<1>2. row'.id = row.id /\ row'.fp = row.fp /\ lastId' = lastId
  BY <1>1 DEF MarkSucceeded, MarkFailedRetryable, Rows
<1>3. (row.id = req[c].id => row.fp = req[c].fp) /\ req[c].id >= 1 /\ req[c].id \in Nat
  BY RequestFields, TypedParts DEF RecordInv, RecordReq, IdReq, Owning
<1>4. RowSafe
  BY <1>1, <1>2, <1>3 DEF RowSafe, RecordRow, IdRow, MarkSucceeded, MarkFailedRetryable
<1>5. row'.body = row.body \/ (row.id = req[c].id /\ pc[c] = "markSucceeded" /\ row'.body = req[c].body)
  BY <1>1 DEF MarkSucceeded, MarkFailedRetryable, Rows
<1>6. Answers(row.body, row.fp)'
  BY <1>1, <1>2, <1>3, <1>5 DEF RecordRow, Answers, RecordInv, RecordReq, GenuineReq
<1> QED BY <1>4, <1>6

\* The claim of a record makes c its owner.
LEMMA OwnsOwn ==
  ASSUME RecordInv, Typed', NEW c \in Clients, pc[c] # "idle", NEW i \in Nat, i >= 1, i <= lastId',
         Owns(c, i), now' = now, lastId' >= lastId, ran' = ran, row'.id = i => row'.fp = req[c].fp
  PROVE  /\ OthersSame(c) /\ RecordReq(c)' /\ pc'[c] = "exec"
         /\ req'[c].t = req[c].t /\ req'[c].id = i
<1>0. TReq /\ lastId \in Nat /\ lastId' \in Nat /\ RecordReq(c)
  BY TypedParts DEF RecordInv, Typed
<1>1. /\ OthersSame(c) /\ pc'[c] = "exec" /\ req'[c].id = i /\ req'[c].t = req[c].t
      /\ req'[c].fp = req[c].fp /\ req'[c].existing = req[c].existing
      /\ req'[c].replay = req[c].replay
  BY <1>0 DEF Owns, Goto, OthersSame, TReq, Reqs
<1>2. req[c].existing.id \in Nat
  BY <1>0, RequestFields
<1>3. TimelyReq(c)'
  BY <1>0, <1>1 DEF RecordReq, TimelyReq
<1>4. IdReq(c)'
  BY <1>0, <1>1, <1>2 DEF RecordReq, IdReq, Reading, Owning
<1>5. GenuineReq(c)'
  BY <1>0, <1>1 DEF RecordReq, GenuineReq, Reading, Answers
<1> QED BY <1>1, <1>3, <1>4, <1>5 DEF RecordReq

-----------------------------------------------------------------------------
(* The record as a lock.                                                     *)

\* Numbers that the arguments about time need.
LEMMA Times ==
  ASSUME RecordInv
  PROVE  /\ now \in Nat /\ row.locked \in Nat /\ row.exp \in Nat /\ row.id \in Nat
         /\ Len(ran) \in Nat
         /\ \A i \in 1 .. Len(ran) : ran[i].t \in Nat /\ ran[i].at \in Nat
         /\ \A c \in Clients : /\ req[c].t \in Nat /\ req[c].existing.exp \in Nat
                               /\ req[c].t <= now
                               /\ pc[c] # "idle" => now <= req[c].t + MaxExec
<1>1. TStore /\ TReq /\ now \in Nat /\ ran \in Seq(Effects)
  BY TypedParts DEF RecordInv
<1>2. \A i \in 1 .. Len(ran) : ran[i] \in Effects
  BY <1>1
<1> QED BY <1>1, <1>2, RowFields, RequestFields DEF RecordInv, RecordReq, TimelyReq, Effects

\* Before the clock has passed the end of the first life nobody sees an expired
\* record of it.
LEMMA NotYetExpired ==
  ASSUME ExclusiveInv, FirstLife, NEW c \in Clients
  PROVE  row.exp > req[c].t
<1>1. RecordInv /\ 1 \in 1 .. Len(ran)
  BY Times DEF ExclusiveInv, FirstLife
<1> QED BY <1>1, Times, Constants DEF ExclusiveInv, FirstLife, GuardsRow

\* Other requests are not disturbed by a step that leaves record, clock and
\* effects alone.
LEMMA QuietExclusive ==
  ASSUME ExclusiveInv, RecordInv', NEW c \in Clients, OthersSame(c), UNCHANGED <<row, now, ran>>,
         pc'[c] \in Owning => /\ pc[c] \in Owning /\ pc'[c] # "markSucceeded"
                              /\ req'[c].id = req[c].id /\ req'[c].t = req[c].t
                              /\ pc[c] \in {"exec", "markFailed"},
         pc'[c] \in Reading =>
             \/ req'[c].existing = row /\ (pc'[c] = "reclaimExpired" => row.exp <= req[c].t)
             \/ pc[c] \in Reading /\ req'[c].existing = req[c].existing /\ pc'[c] # "reclaimExpired",
         pc'[c] = "reclaimExpired" => req'[c].t = req[c].t
  PROVE  ExclusiveInv'
<1>1. ASSUME NEW d \in Clients, d # c PROVE ExclusiveReq(d)'
  BY <1>1 DEF ExclusiveInv, ExclusiveReq, HoldsReq, LastsReq, Lasts, GuardsReq, FirstLife, OthersSame
<1>2. HoldsReq(c)'
  BY DEF ExclusiveInv, ExclusiveReq, HoldsReq
<1>3. LastsReq(c)'
  BY DEF ExclusiveInv, ExclusiveReq, LastsReq, Lasts, Owning, Reading
<1>4. GuardsReq(c)'
  <2>1. FirstLife' <=> FirstLife
    BY DEF FirstLife
  <2>2. CASE FirstLife /\ pc'[c] = "reclaimExpired"
    BY <2>2, NotYetExpired, Times DEF Reading, ExclusiveInv
  <2> QED BY <2>1, <2>2 DEF GuardsReq, ExclusiveInv, ExclusiveReq, Owning
<1>5. (Lasts(row) /\ GuardsRow /\ OncePerFirstLife)'
  BY DEF ExclusiveInv, Lasts, GuardsRow, FirstLife, OncePerFirstLife
<1>6. ExecutesAlone'
  BY DEF ExclusiveInv, ExecutesAlone, OthersSame
<1> QED BY <1>1, <1>2, <1>3, <1>4, <1>5, <1>6 DEF ExclusiveInv, ExclusiveReq

\* A claim: with a processing timeout above every request's duration nobody
\* owns the record that is claimed, and the first life is over or not begun.
LEMMA ClaimExclusive ==
  ASSUME MaxExec < Timeout, ExclusiveInv, RecordInv', NEW c \in Clients, OthersSame(c),
         UNCHANGED <<now, ran>>,
         \/ row = NoRow
         \/ /\ pc[c] = "reclaimExpired" /\ row.status = req[c].existing.status
            /\ row.locked <= req[c].t
         \/ row.status = "failed_retryable",
         row'.status = "processing",
         \/ pc'[c] = "idle"
         \/ /\ pc'[c] = "exec" /\ row'.id = req'[c].id
            /\ row'.locked = req'[c].t + Timeout /\ row'.exp = req'[c].t + TTL
  PROVE  ExclusiveInv'
<1>0. RecordInv
  BY DEF ExclusiveInv
<1>1. ASSUME NEW d \in Clients, pc[d] \in Owning PROVE FALSE
  <2>1. /\ row.id = req[d].id /\ row.status = "processing" /\ row.locked = req[d].t + Timeout
        /\ req[d].id >= 1
    BY <1>0, <1>1 DEF ExclusiveInv, ExclusiveReq, HoldsReq, RecordInv, RecordReq, IdReq
  <2>2. row # NoRow /\ req[d].id \in Nat
    <3>1. req[d].id \in Nat
      BY <1>0, RequestFields, TypedParts DEF RecordInv
    <3> QED BY <2>1, <3>1 DEF NoRow
  <2>3. row.locked <= req[c].t
    BY <2>1, <2>2
  <2>4. pc[d] # "idle"
    BY <1>1 DEF Owning
  <2> QED BY <1>0, <2>1, <2>3, <2>4, Times, Constants
<1>2. ~FirstLife
  <2> SUFFICES ASSUME FirstLife PROVE FALSE
    OBVIOUS
  <2>1. /\ row.id >= 1 /\ row.status \in {"processing", "succeeded"}
        /\ row.status = "processing" => ran[1].t + Timeout <= row.locked
        /\ pc[c] = "reclaimExpired" => /\ req[c].existing.status # "succeeded"
                                       /\ req[c].t < ran[1].t + Timeout
    BY DEF ExclusiveInv, ExclusiveReq, GuardsRow, GuardsReq
  <2>2. row # NoRow
    BY <2>1 DEF NoRow
  <2>3. /\ row.status = "processing" /\ row.locked <= req[c].t /\ ran[1].t + Timeout <= row.locked
        /\ req[c].t < ran[1].t + Timeout
    BY <2>1, <2>2
  <2>4. 1 \in 1 .. Len(ran)
    BY <1>0, Times DEF FirstLife
  <2> QED BY <1>0, <2>3, <2>4, Times, Constants
<1>3. ~FirstLife'
  BY <1>2 DEF FirstLife
<1>4. ASSUME NEW d \in Clients PROVE ExclusiveReq(d)'
  <2>1. CASE d = c
    BY <1>3, <2>1 DEF ExclusiveReq, HoldsReq, LastsReq, GuardsReq, Reading, Owning
  <2>2. CASE d # c
    <3>1. pc'[d] = pc[d] /\ req'[d] = req[d] /\ pc'[d] \notin Owning
      BY <1>1, <2>2 DEF OthersSame
    <3> QED BY <1>3, <3>1 DEF ExclusiveInv, ExclusiveReq, HoldsReq, LastsReq, Lasts, GuardsReq
  <2> QED BY <2>1, <2>2
<1>5. (Lasts(row) /\ GuardsRow /\ OncePerFirstLife)'
  BY <1>3 DEF ExclusiveInv, Lasts, GuardsRow, OncePerFirstLife
<1>6. ExecutesAlone'
  BY <1>1 DEF ExecutesAlone, OthersSame
<1> QED BY <1>4, <1>5, <1>6 DEF ExclusiveInv

\* The mark of the owner, who is alone.
LEMMA MarkExclusive ==
  ASSUME ExclusiveInv, RecordInv', NEW c \in Clients, OthersSame(c), UNCHANGED <<now, ran>>,
         pc'[c] = "idle",
         \/ /\ pc[c] = "markSucceeded" /\ row'.id = row.id
            /\ row'.status = "succeeded" /\ row'.exp = req[c].t + TTL
         \/ /\ pc[c] = "markFailed" /\ row'.id = row.id
            /\ row'.status = "failed_retryable"
  PROVE  ExclusiveInv'
<1>0. RecordInv /\ pc[c] \in Owning
  BY DEF ExclusiveInv, Owning
<1>1. \A d \in Clients : pc'[d] \notin Owning
  BY <1>0 DEF ExclusiveInv, ExecutesAlone, OthersSame, Owning
<1>2. FirstLife' <=> FirstLife
  BY DEF FirstLife
<1>3. FirstLife => pc[c] = "markSucceeded"
  BY DEF ExclusiveInv, ExclusiveReq, GuardsReq
<1>4. pc[c] = "markSucceeded" => Len(ran) >= 1 /\ ran[1].t + TTL <= req[c].t + TTL
  <2>1. pc[c] = "markSucceeded" => Len(ran) >= 1 /\ ran[1].t <= req[c].t
    BY DEF ExclusiveInv, ExclusiveReq, LastsReq
  <2>2. Len(ran) >= 1 => 1 \in 1 .. Len(ran)
    BY <1>0, Times
  <2> QED BY <1>0, <2>1, <2>2, Times, Constants
<1>5. ASSUME NEW d \in Clients PROVE ExclusiveReq(d)'
  <2>1. CASE d = c
    BY <2>1 DEF ExclusiveReq, HoldsReq, LastsReq, GuardsReq, Reading, Owning
  <2>2. CASE d # c
    <3>1. pc'[d] = pc[d] /\ req'[d] = req[d] /\ pc'[d] \notin Owning
      BY <1>1, <2>2 DEF OthersSame
    <3> QED BY <1>2, <3>1 DEF ExclusiveInv, ExclusiveReq, HoldsReq, LastsReq, Lasts, GuardsReq
  <2> QED BY <2>1, <2>2
<1>6. Lasts(row)'
  BY <1>4 DEF Lasts
<1>7. GuardsRow'
  BY <1>2, <1>3, <1>4 DEF ExclusiveInv, GuardsRow
<1>8. ExecutesAlone' /\ OncePerFirstLife'
  BY <1>1 DEF ExclusiveInv, ExecutesAlone, OncePerFirstLife
<1> QED BY <1>5, <1>6, <1>7, <1>8 DEF ExclusiveInv

\* An operation takes effect: it is the first, or the first one's record has
\* expired.
LEMMA EffectExclusive ==
  ASSUME MaxExec < Timeout, ExclusiveInv, RecordInv', NEW c \in Clients, OthersSame(c),
         UNCHANGED <<row, now>>, pc[c] = "exec", pc'[c] = "markSucceeded",
         req'[c].t = req[c].t, req'[c].id = req[c].id,
         Len(ran') = Len(ran) + 1, ran'[Len(ran) + 1].t = req[c].t,
         ran'[Len(ran) + 1].at = now, \A i \in 1 .. Len(ran) : ran'[i] = ran[i]
  PROVE  ExclusiveInv'
<1>0. RecordInv /\ pc[c] \in Owning /\ Len(ran) \in Nat
  BY Times DEF ExclusiveInv, Owning
<1>1. ~FirstLife
  BY DEF ExclusiveInv, ExclusiveReq, GuardsReq
<1>2. /\ row.id = req[c].id /\ row.status = "processing" /\ req[c].id >= 1
      /\ row.locked = req[c].t + Timeout /\ row.exp = req[c].t + TTL
  BY <1>0 DEF ExclusiveInv, ExclusiveReq, HoldsReq, RecordInv, RecordReq, IdReq
<1>3. /\ pc'[c] \in Owning
      /\ \A d \in Clients \ {c} : /\ pc'[d] = pc[d] /\ req'[d] = req[d] /\ pc'[d] \notin Owning
  BY <1>0 DEF ExclusiveInv, ExecutesAlone, OthersSame, Owning
<1>4. ExecutesAlone'
  BY <1>3 DEF ExecutesAlone
<1>5. ASSUME NEW d \in Clients, d # c PROVE req[d].t < req[c].t + Timeout
  BY <1>0, Times, Constants
<1>6. HoldsReq(c)'
  BY <1>2 DEF HoldsReq
<1>7. \A d \in Clients \ {c} : HoldsReq(d)'
  BY <1>3 DEF HoldsReq
<1>8. CASE Len(ran) = 0
  <2>1. Len(ran') = 1 /\ ran'[1].t = req[c].t
    BY <1>0, <1>8
  <2>2. ASSUME NEW d \in Clients \ {c}, pc[d] \in Reading PROVE req[d].existing.status # "succeeded"
    BY <1>8, <2>2 DEF ExclusiveInv, ExclusiveReq, LastsReq, Lasts
  <2>3. ASSUME NEW d \in Clients \ {c} PROVE ExclusiveReq(d)'
    <3>1. LastsReq(d)'
      BY <1>3, <2>2, <2>3 DEF ExclusiveInv, ExclusiveReq, LastsReq, Lasts, Owning
    <3>2. GuardsReq(d)'
      BY <1>3, <1>5, <2>1, <2>2, <2>3 DEF GuardsReq, Owning, Reading
    <3> QED BY <1>7, <2>3, <3>1, <3>2 DEF ExclusiveReq
  <2>4. ExclusiveReq(c)'
    BY <1>0, <1>6, <2>1, Times DEF ExclusiveReq, LastsReq, GuardsReq, Reading
  <2>5. (Lasts(row) /\ GuardsRow)'
    <3>1. row'.status = "processing" /\ row'.id >= 1 /\ ran'[1].t + TTL <= row'.exp
          /\ ran'[1].t + Timeout <= row'.locked
      BY <1>0, <1>2, <2>1, Times, Constants
    <3> QED BY <3>1 DEF Lasts, GuardsRow
  <2>6. OncePerFirstLife'
    <3>1. \A j \in 2 .. 1 : FALSE
      OBVIOUS
    <3> QED BY <2>1, <3>1 DEF OncePerFirstLife
  <2> QED BY <1>4, <2>3, <2>4, <2>5, <2>6 DEF ExclusiveInv
<1>9. CASE Len(ran) >= 1
  <2>1. 1 \in 1 .. Len(ran) /\ ran'[1] = ran[1] /\ Len(ran') >= 1
    BY <1>0, <1>9
  <2>2. ran[1].t + TTL <= now
    BY <1>0, <1>1, <1>9, <2>1, Times, Constants DEF FirstLife
  <2>3. ~FirstLife'
    BY <1>0, <2>1, <2>2, Times, Constants DEF FirstLife
  <2>4. ran[1].t <= req[c].t
    <3>1. now <= req[c].t + MaxExec
      BY <1>0, Times
    <3> QED BY <1>0, <2>1, <2>2, <3>1, Times, Constants
  <2>5. ASSUME NEW d \in Clients \ {c} PROVE ExclusiveReq(d)'
    <3>1. LastsReq(d)'
      BY <1>3, <2>1, <2>5 DEF ExclusiveInv, ExclusiveReq, LastsReq, Lasts, Owning
    <3> QED BY <1>7, <2>3, <2>5, <3>1 DEF ExclusiveReq, GuardsReq
  <2>6. ExclusiveReq(c)'
    BY <1>6, <2>1, <2>3, <2>4 DEF ExclusiveReq, LastsReq, GuardsReq, Reading
  <2>7. (Lasts(row) /\ GuardsRow)'
    BY <1>2, <2>3 DEF Lasts, GuardsRow
  <2>8. OncePerFirstLife'
    <3> SUFFICES ASSUME NEW j \in 2 .. Len(ran') PROVE ran'[1].t + TTL <= ran'[j].at
      BY DEF OncePerFirstLife
    <3>1. CASE j = Len(ran) + 1
      BY <2>1, <2>2, <3>1
    <3>2. CASE j \in 2 .. Len(ran)
      BY <1>0, <2>1, <3>2 DEF ExclusiveInv, OncePerFirstLife
    <3> QED BY <1>0, <3>1, <3>2
  <2> QED BY <1>4, <2>5, <2>6, <2>7, <2>8 DEF ExclusiveInv
<1> QED BY <1>0, <1>8, <1>9

\* The cleanup deletes no record that has an owner, and none in its first life.
LEMMA CleanupExclusive ==
  ASSUME ExclusiveInv, RecordInv', Cleanup
  PROVE  ExclusiveInv'
<1>0. RecordInv /\ row.exp <= now /\ row' = NoRow /\ UNCHANGED <<now, pc, req, ran>>
  BY DEF ExclusiveInv, Cleanup, DeleteExpired, ExpiredForCleanup, clientVars
<1>1. ASSUME NEW c \in Clients, pc[c] \in Owning PROVE FALSE
  <2>1. row.exp = req[c].t + TTL /\ pc[c] # "idle"
    BY <1>1 DEF ExclusiveInv, ExclusiveReq, HoldsReq, Owning
  <2> QED BY <1>0, <2>1, Times, Constants
<1>2. ~FirstLife
  <2> SUFFICES ASSUME FirstLife PROVE FALSE
    OBVIOUS
  <2>1. ran[1].t + TTL <= row.exp /\ 1 \in 1 .. Len(ran)
    BY <1>0, Times DEF ExclusiveInv, GuardsRow, FirstLife
  <2> QED BY <1>0, <2>1, Times, Constants DEF FirstLife
<1>3. ~FirstLife'
  BY <1>0, <1>2 DEF FirstLife
<1>4. ASSUME NEW c \in Clients PROVE ExclusiveReq(c)'
  BY <1>0, <1>1, <1>3 DEF ExclusiveInv, ExclusiveReq, HoldsReq, LastsReq, Lasts, GuardsReq
<1>5. (Lasts(row) /\ GuardsRow /\ ExecutesAlone /\ OncePerFirstLife)'
  BY <1>0, <1>3 DEF ExclusiveInv, Lasts, NoRow, GuardsRow, ExecutesAlone, OncePerFirstLife
<1> QED BY <1>4, <1>5 DEF ExclusiveInv

LEMMA TickExclusive ==
  ASSUME ExclusiveInv, RecordInv', Tick
  PROVE  ExclusiveInv'
<1>0. RecordInv /\ now' = now + 1 /\ UNCHANGED <<row, pc, req, ran>>
  BY DEF ExclusiveInv, Tick, clientVars, store
<1>1. FirstLife' => FirstLife
  <2> SUFFICES ASSUME FirstLife' PROVE FirstLife
    OBVIOUS
  <2>1. 1 \in 1 .. Len(ran)
    BY <1>0, Times DEF FirstLife
  <2> QED BY <1>0, <2>1, Times, Constants DEF FirstLife
<1> QED BY <1>0, <1>1 DEF ExclusiveInv, ExclusiveReq, HoldsReq, LastsReq, Lasts, GuardsReq, GuardsRow,
           ExecutesAlone, OncePerFirstLife

-----------------------------------------------------------------------------
(* The steps of a request.                                                   *)

\* Both invariants at once: the second under the hypothesis on the timeout.
Exclusively == ExclusiveInv /\ MaxExec < Timeout

\* Nothing of the code depends on what a quiet step leaves behind.
QuietStep(c) ==
    /\ OthersSame(c) /\ UNCHANGED <<row, lastId, now, ran>>
    /\ RecordReq(c)'
    /\ pc'[c] \in Owning => /\ pc[c] \in Owning /\ pc'[c] # "markSucceeded"
                            /\ req'[c].id = req[c].id /\ req'[c].t = req[c].t
                            /\ pc[c] \in {"exec", "markFailed"}
    /\ pc'[c] \in Reading =>
          \/ req'[c].existing = row /\ (pc'[c] = "reclaimExpired" => row.exp <= req[c].t)
          \/ pc[c] \in Reading /\ req'[c].existing = req[c].existing /\ pc'[c] # "reclaimExpired"
    /\ pc'[c] = "reclaimExpired" => req'[c].t = req[c].t

LEMMA QuietKeeps ==
  ASSUME RecordInv, Typed', NEW c \in Clients, QuietStep(c)
  PROVE  RecordInv' /\ (Exclusively => ExclusiveInv')
<1>1. RecordInv'
  BY QuietKept DEF QuietStep, store
<1>2. ASSUME Exclusively PROVE ExclusiveInv'
  BY <1>1, <1>2, QuietExclusive DEF QuietStep, Exclusively
<1> QED BY <1>1, <1>2

\* A request that is answered without having touched the table.
LEMMA ReturnKeeps ==
  ASSUME RecordInv, Typed', NEW c \in Clients, Return(c), UNCHANGED <<store, now, ran>>
  PROVE  RecordInv' /\ (Exclusively => ExclusiveInv')
<1>1. QuietStep(c)
  BY ReturnOwn DEF QuietStep, RecordInv, store, Owning, Reading
<1> QED BY <1>1, QuietKeeps

LEMMA ArriveKeeps ==
  ASSUME RecordInv, Typed', NEW c \in Clients, NEW fp \in Fingerprints, Arrive(c, fp)
  PROVE  RecordInv' /\ (Exclusively => ExclusiveInv')
<1>0. Typed /\ now \in Nat /\ lastId \in Nat
  BY DEF RecordInv, Typed
<1>1. /\ OthersSame(c) /\ pc'[c] = "create" /\ UNCHANGED <<row, lastId, now, ran>>
      /\ req'[c].fp = fp /\ req'[c].t = now /\ req'[c].id = 0 /\ req'[c].existing.id = 0
      /\ req'[c].replay = 0
  BY <1>0 DEF Arrive, Goto, OthersSame, Typed, store, NoReq, NoRow
<1>2. RecordReq(c)'
  BY <1>0, <1>1, Constants DEF RecordReq, TimelyReq, IdReq, GenuineReq, Reading, Owning, Answers
<1>3. QuietStep(c)
  BY <1>1, <1>2 DEF QuietStep, Owning, Reading
<1> QED BY <1>3, QuietKeeps

LEMMA CreateKeeps ==
  ASSUME RecordInv, Typed', NEW c \in Clients, Create(c)
  PROVE  RecordInv' /\ (Exclusively => ExclusiveInv')
<1>0. Typed /\ TReq /\ lastId \in Nat /\ pc[c] = "create" /\ UNCHANGED <<now, ran>> /\ RecordReq(c)
  BY TypedParts DEF RecordInv, Typed, Create, At
<1>1. CASE CreateProcessing(req[c].fp, req[c].t) /\ Owns(c, lastId')
  <2>1. /\ RowSafe /\ Answers(row.body, row.fp)'
        /\ row'.id = lastId + 1 /\ lastId' = lastId + 1 /\ row'.fp = req[c].fp
        /\ row'.status = "processing" /\ row'.locked = req[c].t + Timeout
        /\ row'.exp = req[c].t + TTL
    BY <1>1, CreateSafe
  <2>2. /\ OthersSame(c) /\ RecordReq(c)' /\ pc'[c] = "exec"
        /\ req'[c].t = req[c].t /\ req'[c].id = lastId + 1
    BY <1>0, <1>1, <2>1, OwnsOwn
  <2>3. RecordInv'
    BY <1>0, <2>1, <2>2, WriteKept
  <2>4. ASSUME Exclusively PROVE ExclusiveInv'
    <3>1. row = NoRow
      BY <1>1 DEF CreateProcessing
    <3> QED BY <1>0, <2>1, <2>2, <2>3, <2>4, <3>1, ClaimExclusive DEF Exclusively
  <2> QED BY <2>3, <2>4
<1>2. CASE CreateProcessing(req[c].fp, req[c].t) /\ Return(c)
  <2>1. RowSafe /\ Answers(row.body, row.fp)' /\ row'.status = "processing" /\ row = NoRow
    BY <1>2, CreateSafe DEF CreateProcessing
  <2>2. OthersSame(c) /\ pc'[c] = "idle" /\ RecordReq(c)'
    BY <1>0, <1>2, ReturnOwn
  <2>3. RecordInv'
    BY <1>0, <2>1, <2>2, WriteKept
  <2>4. ASSUME Exclusively PROVE ExclusiveInv'
    BY <1>0, <2>1, <2>2, <2>3, <2>4, ClaimExclusive DEF Exclusively
  <2> QED BY <2>3, <2>4
<1>3. CASE Goto(c, "get") /\ UNCHANGED <<store, req>>
  <2>1. /\ OthersSame(c) /\ pc'[c] = "get" /\ req'[c] = req[c]
    BY <1>0, <1>3 DEF Goto, OthersSame, TReq
  <2>2. RecordReq(c)'
    BY <1>0, <1>3, <2>1 DEF RecordReq, TimelyReq, IdReq, GenuineReq, Reading, Owning, Answers, store
  <2>3. QuietStep(c)
    BY <1>0, <1>3, <2>1, <2>2 DEF QuietStep, Owning, Reading, store
  <2> QED BY <2>3, QuietKeeps
<1>4. CASE Return(c) /\ UNCHANGED store
  BY <1>0, <1>4, ReturnKeeps
<1> QED BY <1>1, <1>2, <1>3, <1>4 DEF Create

\* Get and GetLatest: what is read is the record of the request's own payload.
LEMMA GetKeeps ==
  ASSUME RecordInv, Typed', NEW c \in Clients, Get(c) \/ GetLatest(c)
  PROVE  RecordInv' /\ (Exclusively => ExclusiveInv')
<1>0. /\ Typed /\ TReq /\ lastId \in Nat /\ pc[c] \in {"get", "getLatest"}
      /\ UNCHANGED <<store, now, ran>> /\ RecordReq(c) /\ RecordRow
  BY TypedParts DEF RecordInv, Typed, Get, GetLatest, At
<1>1. CASE Return(c)
  BY <1>0, <1>1, ReturnKeeps
<1>2. CASE /\ row # NoRow /\ row.fp = req[c].fp /\ req' = [req EXCEPT ![c].existing = row]
           /\ \/ Goto(c, "reclaimExpired") /\ row.exp <= req[c].t
              \/ Goto(c, "decide")
  <2>1. /\ OthersSame(c) /\ pc'[c] \in {"reclaimExpired", "decide"}
        /\ pc'[c] = "reclaimExpired" => row.exp <= req[c].t
        /\ req'[c].existing = row /\ req'[c].fp = req[c].fp /\ req'[c].t = req[c].t
        /\ req'[c].id = req[c].id /\ req'[c].replay = req[c].replay
    BY <1>0, <1>2 DEF Goto, OthersSame, TReq, Reqs
  <2>2. /\ TimelyReq(c)' /\ GenuineReq(c)'
    BY <1>0, <1>2, <2>1 DEF RecordReq, RecordRow, TimelyReq, GenuineReq, Owning, Answers
  <2>3. IdReq(c)'
    BY <1>0, <1>2, <2>1 DEF RecordReq, RecordRow, IdReq, IdRow, Owning, store
  <2>4. QuietStep(c)
    BY <1>0, <2>1, <2>2, <2>3 DEF QuietStep, RecordReq, Owning, Reading, store
  <2> QED BY <2>4, QuietKeeps
<1> QED BY <1>1, <1>2 DEF Get, GetLatest, SamePayload

LEMMA ReclaimKeeps ==
  ASSUME RecordInv, Typed', NEW c \in Clients, ReclaimExpired(c) \/ ReclaimFailed(c)
  PROVE  RecordInv' /\ (Exclusively => ExclusiveInv')
<1>0. /\ Typed /\ TReq /\ lastId \in Nat /\ pc[c] \in {"reclaimExpired", "reclaimFailed"}
      /\ UNCHANGED <<now, ran>> /\ RecordReq(c) /\ RecordRow
  BY TypedParts DEF RecordInv, Typed, ReclaimExpired, ReclaimFailed, At
<1>e. /\ req[c].existing.id \in Nat /\ req[c].existing.id >= 1 /\ req[c].existing.id <= lastId
      /\ row.id = req[c].existing.id => row.fp = req[c].fp
  BY <1>0, RequestFields DEF RecordReq, IdReq, Reading
<1>1. CASE Return(c) /\ UNCHANGED store
  BY <1>0, <1>1, ReturnKeeps
<1>2. CASE Goto(c, "getLatest") /\ UNCHANGED <<store, req>> /\ pc[c] = "reclaimExpired"
  <2>1. /\ OthersSame(c) /\ pc'[c] = "getLatest" /\ req'[c] = req[c]
    BY <1>0, <1>2 DEF Goto, OthersSame, TReq
  <2>2. RecordReq(c)'
    BY <1>0, <1>2, <2>1 DEF RecordReq, TimelyReq, IdReq, GenuineReq, Reading, Owning, Answers, store
  <2>3. QuietStep(c)
    BY <1>0, <1>2, <2>1, <2>2 DEF QuietStep, Owning, Reading, store
  <2> QED BY <2>3, QuietKeeps
<1>3. ASSUME NEW s, TryReclaim(req[c].existing.id, s, req[c].t), Owns(c, req[c].existing.id),
             \/ pc[c] = "reclaimExpired" /\ s = req[c].existing.status
             \/ s = "failed_retryable"
      PROVE  RecordInv' /\ (Exclusively => ExclusiveInv')
  <2>1. /\ RowSafe /\ Answers(row.body, row.fp)'
        /\ row.id = req[c].existing.id /\ row.status = s /\ row.locked <= req[c].t
        /\ row'.id = req[c].existing.id /\ row'.fp = row.fp /\ lastId' = lastId
        /\ row'.status = "processing" /\ row'.locked = req[c].t + Timeout
        /\ row'.exp = req[c].t + TTL
    BY <1>0, <1>e, <1>3, ReclaimSafe
  <2>2. /\ OthersSame(c) /\ RecordReq(c)' /\ pc'[c] = "exec"
        /\ req'[c].t = req[c].t /\ req'[c].id = req[c].existing.id
    BY <1>0, <1>e, <1>3, <2>1, OwnsOwn
  <2>3. RecordInv'
    BY <1>0, <2>1, <2>2, WriteKept
  <2>4. ASSUME Exclusively PROVE ExclusiveInv'
    BY <1>0, <1>3, <2>1, <2>2, <2>3, <2>4, ClaimExclusive DEF Exclusively
  <2> QED BY <2>3, <2>4
<1> QED BY <1>1, <1>2, <1>3 DEF ReclaimExpired, ReclaimFailed, At

LEMMA DecideKeeps ==
  ASSUME RecordInv, Typed', NEW c \in Clients, Decide(c)
  PROVE  RecordInv' /\ (Exclusively => ExclusiveInv')
<1>0. /\ Typed /\ TReq /\ lastId \in Nat /\ pc[c] = "decide"
      /\ UNCHANGED <<store, now, ran>> /\ RecordReq(c)
  BY TypedParts DEF RecordInv, Typed, Decide, At
<1>1. CASE Return(c)
  BY <1>0, <1>1, ReturnKeeps
<1>2. CASE \/ Goto(c, "idle") /\ req' = [req EXCEPT ![c].replay = req[c].existing.body]
           \/ Goto(c, "reclaimFailed") /\ UNCHANGED req
  <2>1. /\ OthersSame(c) /\ pc'[c] \in {"idle", "reclaimFailed"}
        /\ req'[c].existing = req[c].existing /\ req'[c].fp = req[c].fp /\ req'[c].t = req[c].t
        /\ req'[c].id = req[c].id /\ req'[c].replay \in {req[c].replay, req[c].existing.body}
    BY <1>0, <1>2 DEF Goto, OthersSame, TReq, Reqs
  <2>2. RecordReq(c)'
    BY <1>0, <2>1 DEF RecordReq, TimelyReq, IdReq, GenuineReq, Reading, Owning, Answers, store
  <2>3. QuietStep(c)
    BY <1>0, <2>1, <2>2 DEF QuietStep, Owning, Reading, store
  <2> QED BY <2>3, QuietKeeps
<1> QED BY <1>1, <1>2 DEF Decide

LEMMA ExecKeeps ==
  ASSUME RecordInv, Typed', NEW c \in Clients, Exec(c)
  PROVE  RecordInv' /\ (Exclusively => ExclusiveInv')
<1>0. /\ Typed /\ TReq /\ lastId \in Nat /\ pc[c] = "exec" /\ ran \in Seq(Effects) /\ Len(ran) \in Nat
      /\ UNCHANGED <<store, now>> /\ RecordReq(c) /\ RecordRow
  BY TypedParts DEF RecordInv, Typed, Exec, At
<1>1. CASE Goto(c, "markFailed") /\ UNCHANGED <<ran, req>>
  <2>1. OthersSame(c) /\ pc'[c] = "markFailed" /\ req'[c] = req[c]
    BY <1>0, <1>1 DEF Goto, OthersSame, TReq
  <2>2. RecordReq(c)'
    BY <1>0, <1>1, <2>1 DEF RecordReq, TimelyReq, IdReq, GenuineReq, Reading, Owning, Answers, store
  <2>3. QuietStep(c)
    BY <1>0, <1>1, <2>1, <2>2 DEF QuietStep, Owning, Reading, store
  <2> QED BY <2>3, QuietKeeps
<1>2. CASE /\ ran' = Append(ran, [fp |-> req[c].fp, t |-> req[c].t, at |-> now])
           /\ req' = [req EXCEPT ![c].body = Len(ran')] /\ Goto(c, "markSucceeded")
  <2>0. [fp |-> req[c].fp, t |-> req[c].t, at |-> now] \in Effects
    BY <1>0, RequestFields, TypedParts DEF RecordReq, TimelyReq, Effects
  <2>1. /\ Len(ran') = Len(ran) + 1
        /\ ran'[Len(ran) + 1] = [fp |-> req[c].fp, t |-> req[c].t, at |-> now]
        /\ \A i \in 1 .. Len(ran) : ran'[i] = ran[i]
    BY <1>0, <1>2, <2>0, AppendedEffect
  <2>2. /\ OthersSame(c) /\ pc'[c] = "markSucceeded" /\ req'[c].body = Len(ran) + 1
        /\ req'[c].existing = req[c].existing /\ req'[c].fp = req[c].fp /\ req'[c].t = req[c].t
        /\ req'[c].id = req[c].id /\ req'[c].replay = req[c].replay
    BY <1>0, <1>2, <2>1 DEF Goto, OthersSame, TReq, Reqs
  <2>3. RanGrows
    BY <1>0, <2>1 DEF RanGrows
  <2>4. RowSafe
    BY <1>0 DEF RowSafe, RecordRow, IdRow, store
  <2>5. Answers(row.body, row.fp)'
    BY <1>0, <2>3, AnswersKept, RowFields, TypedParts DEF RecordRow, Answers, store
  <2>6. TimelyRan'
    <3>1. ASSUME NEW i \in 1 .. Len(ran') PROVE ran'[i].t <= now /\ ran'[i].at <= now
      <4>1. CASE i = Len(ran) + 1
        BY <1>0, <2>1, <4>1, TypedParts DEF RecordReq, TimelyReq
      <4>2. CASE i \in 1 .. Len(ran)
        BY <1>0, <2>1, <4>2 DEF RecordRow, TimelyRan
      <4> QED BY <1>0, <2>1, <4>1, <4>2
    <3> QED BY <1>0, <3>1 DEF TimelyRan
  <2>7. RecordReq(c)'
    <3>1. TimelyReq(c)' /\ IdReq(c)'
      BY <1>0, <2>2 DEF RecordReq, TimelyReq, IdReq, Reading, Owning, store
    <3>2. Answers(req[c].replay, req[c].fp)'
      <4>1. req[c].replay \in Nat /\ Answers(req[c].replay, req[c].fp)
        BY <1>0, RequestFields DEF RecordReq, GenuineReq
      <4> QED BY <1>0, <2>2, <2>3, <4>1, AnswersKept DEF Answers
    <3>3. Answers(req[c].body, req[c].fp)'
      BY <1>0, <2>1, <2>2 DEF Answers
    <3> QED BY <2>2, <3>1, <3>2, <3>3 DEF RecordReq, GenuineReq, Reading
  <2>8. RecordInv'
    BY <1>0, <2>2, <2>3, <2>4, <2>5, <2>6, <2>7, RecordKept
  <2>9. ASSUME Exclusively PROVE ExclusiveInv'
    BY <1>0, <2>1, <2>2, <2>8, <2>9, EffectExclusive DEF Exclusively, store
  <2> QED BY <2>8, <2>9
<1> QED BY <1>1, <1>2 DEF Exec

LEMMA MarkKeeps ==
  ASSUME RecordInv, Typed', NEW c \in Clients, MarkOk(c) \/ MarkFailed(c)
  PROVE  RecordInv' /\ (Exclusively => ExclusiveInv')
<1>0. /\ Typed /\ row \in Rows /\ UNCHANGED <<now, ran>> /\ Return(c)
      /\ pc[c] \in {"markSucceeded", "markFailed"}
  BY DEF RecordInv, Typed, MarkOk, MarkFailed, At
<1>1. CASE UNCHANGED store
  BY <1>0, <1>1, ReturnKeeps
<1>2. ASSUME \/ pc[c] = "markSucceeded" /\ MarkSucceeded(req[c].id, req[c].body, req[c].t + TTL)
             \/ /\ pc[c] = "markFailed"
                /\ MarkFailedRetryable(req[c].id, now + Backoff, req[c].t + TTL)
      PROVE  RecordInv' /\ (Exclusively => ExclusiveInv')
  <2>1. RowSafe /\ Answers(row.body, row.fp)'
    BY <1>0, <1>2, MarkSafe
  <2>2. OthersSame(c) /\ pc'[c] = "idle" /\ RecordReq(c)'
    BY <1>0, ReturnOwn
  <2>3. RecordInv'
    BY <1>0, <2>1, <2>2, WriteKept
  <2>4. ASSUME Exclusively PROVE ExclusiveInv'
    <3>1. row.id = req[c].id
      BY <1>0, <2>4 DEF Exclusively, ExclusiveInv, ExclusiveReq, HoldsReq, Owning
    <3>2. /\ row'.id = row.id
          /\ pc[c] = "markSucceeded" => row'.status = "succeeded" /\ row'.exp = req[c].t + TTL
          /\ pc[c] = "markFailed" => row'.status = "failed_retryable"
      BY <1>0, <1>2, <3>1 DEF MarkSucceeded, MarkFailedRetryable, Rows
    <3> QED BY <1>0, <2>2, <2>3, <2>4, <3>2, MarkExclusive DEF Exclusively
  <2> QED BY <2>3, <2>4
<1> QED BY <1>1, <1>2 DEF MarkOk, MarkFailed, At

LEMMA TimeKeeps ==
  ASSUME RecordInv, Typed', Cleanup \/ Tick
  PROVE  RecordInv' /\ (Exclusively => ExclusiveInv')
<1>0. Typed /\ RecordRow /\ now \in Nat /\ lastId \in Nat /\ UNCHANGED <<lastId, pc, req, ran>>
  BY DEF RecordInv, Typed, Cleanup, Tick, DeleteExpired, clientVars, store
<1>1. RecordInv'
  <2>1. CASE Cleanup
    <3>1. row' = NoRow /\ now' = now /\ row'.id = 0 /\ row'.body = 0
      BY <2>1 DEF Cleanup, DeleteExpired, NoRow
    <3>2. RecordRow'
      BY <1>0, <3>1 DEF RecordRow, IdRow, TimelyRan, Answers
    <3>3. ASSUME NEW c \in Clients PROVE RecordReq(c)'
      BY <1>0, <3>1 DEF RecordInv, RecordReq, TimelyReq, IdReq, GenuineReq, Answers
    <3> QED BY <3>2, <3>3 DEF RecordInv
  <2>2. CASE Tick
    <3>1. row' = row /\ now' = now + 1
      BY <2>2 DEF Tick, store
    <3>2. RecordRow'
      <4>1. ASSUME NEW i \in 1 .. Len(ran) PROVE ran[i].t <= now + 1 /\ ran[i].at <= now + 1
        BY <4>1, Times DEF RecordInv, RecordRow, TimelyRan
      <4> QED BY <1>0, <3>1, <4>1 DEF RecordRow, IdRow, TimelyRan, Answers
    <3>3. ASSUME NEW c \in Clients PROVE RecordReq(c)'
      <4>1. TimelyReq(c)'
        BY <1>0, <2>2, <3>1, Times, Constants DEF Tick, At, RecordInv, RecordReq, TimelyReq
      <4> QED BY <1>0, <3>1, <4>1 DEF RecordInv, RecordReq, IdReq, GenuineReq, Answers
    <3> QED BY <3>2, <3>3 DEF RecordInv
  <2> QED BY <2>1, <2>2
<1> QED BY <1>1, CleanupExclusive, TickExclusive DEF Exclusively

LEMMA RecordStep ==
  ASSUME RecordInv, [Next]_vars
  PROVE  RecordInv' /\ (Exclusively => ExclusiveInv')
<1>0. Typed'
  BY StepTyped DEF RecordInv, RecordReq
<1>1. CASE UNCHANGED vars
  <2>1. UNCHANGED <<row, lastId, now, pc, req, ran>>
    BY <1>1 DEF vars, store, clientVars
  <2>2. RecordInv'
    BY <1>0, <2>1 DEF RecordInv, RecordRow, RecordReq, IdRow, TimelyRan, TimelyReq, IdReq,
       GenuineReq, Answers
  <2>3. ASSUME Exclusively PROVE ExclusiveInv'
    BY <2>1, <2>2, <2>3 DEF Exclusively, ExclusiveInv, ExclusiveReq, HoldsReq, LastsReq, Lasts,
       GuardsReq, GuardsRow, FirstLife, ExecutesAlone, OncePerFirstLife
  <2> QED BY <2>2, <2>3
<1>2. CASE \E c \in Clients : Crash(c)
  BY <1>0, <1>2, ReturnKeeps DEF Crash
<1>3. CASE \E c \in Clients : Execute(c)
  BY <1>0, <1>3, ArriveKeeps, CreateKeeps, GetKeeps, ReclaimKeeps, DecideKeeps, ExecKeeps,
     MarkKeeps DEF Execute
<1> QED BY <1>0, <1>1, <1>2, <1>3, TimeKeeps DEF Next

LEMMA RecordInit == Init => RecordInv /\ ExclusiveInv
<1> SUFFICES ASSUME Init PROVE RecordInv /\ ExclusiveInv
  OBVIOUS
<1>1. /\ row = NoRow /\ lastId = 0 /\ now = 0 /\ faults = MaxFaults /\ ran = <<>> /\ Len(ran) = 0
      /\ \A c \in Clients : pc[c] = "idle" /\ req[c] = NoReq
  BY DEF Init, StoreInit
<1>2. Typed
  BY <1>1, NoneTyped, Constants DEF Init, Typed, Labels
<1>3. RecordRow
  BY <1>1 DEF RecordRow, IdRow, TimelyRan, Answers, NoRow
<1>4. ASSUME NEW c \in Clients PROVE RecordReq(c)
  BY <1>1 DEF RecordReq, TimelyReq, IdReq, GenuineReq, Answers, NoReq, NoRow, Reading, Owning
<1>5. ASSUME NEW c \in Clients PROVE ExclusiveReq(c)
  BY <1>1 DEF ExclusiveReq, HoldsReq, LastsReq, GuardsReq, FirstLife, Reading, Owning
<1>6. Lasts(row) /\ GuardsRow /\ ExecutesAlone /\ OncePerFirstLife
  BY <1>1 DEF Lasts, NoRow, GuardsRow, FirstLife, ExecutesAlone, OncePerFirstLife, Owning
<1> QED BY <1>2, <1>3, <1>4, <1>5, <1>6 DEF RecordInv, ExclusiveInv

-----------------------------------------------------------------------------
\* The invariant of the record and of what requests know of it, whatever the
\* processing timeout is.
THEOREM RecordInvariant == Spec => []RecordInv
<1>1. RecordInv /\ [Next]_vars => RecordInv'
  BY RecordStep
<1> QED BY <1>1, RecordInit, PTL DEF Spec

\* Every state is of the types the code stores; no request owns a record that
\* was never inserted, and none comes from the future.
THEOREM RecordTypes == Spec => []TypeOK
<1>1. RecordInv => TypeOK
  <2> SUFFICES ASSUME RecordInv PROVE TypeOK
    OBVIOUS
  <2>0. Typed /\ TStore /\ TReq /\ now \in Nat /\ lastId \in Nat
    BY TypedParts DEF RecordInv, Typed
  <2>1. StoreTypeOK /\ pc \in [Clients -> Labels]
    BY <2>0 DEF Typed, Rows, StoreTypeOK
  <2>2. \A c \in Clients : /\ req[c].fp \in Fingerprints \union {"-"}
                           /\ req[c].id \in 0 .. lastId /\ req[c].t \in 0 .. now
    BY <2>0, RequestFields DEF RecordInv, RecordReq, TimelyReq, IdReq
  <2>3. ran \in Seq([fp : Fingerprints, t : 0 .. now, at : 0 .. now])
    <3>1. ran \in Seq(Effects) /\ Len(ran) \in Nat
      BY <2>0 DEF Typed
    <3>2. ASSUME NEW i \in 1 .. Len(ran)
          PROVE  ran[i] \in [fp : Fingerprints, t : 0 .. now, at : 0 .. now]
      <4>1. ran[i] \in Effects /\ ran[i].t <= now /\ ran[i].at <= now
        BY <3>1 DEF RecordInv, RecordRow, TimelyRan
      <4> QED BY <2>0, <4>1 DEF Effects
    <3>3. ran \in [1 .. Len(ran) -> [fp : Fingerprints, t : 0 .. now, at : 0 .. now]]
      BY <3>1, <3>2, LenProperties
    <3> DEFINE S == [fp : Fingerprints, t : 0 .. now, at : 0 .. now]
    <3>4. ran \in [1 .. Len(ran) -> S]
      BY <3>3
    <3> HIDE DEF S
    <3>5. ran \in Seq(S)
      BY <3>1, <3>4, SeqDef
    <3> QED BY <3>5 DEF S
  <2> QED BY <2>1, <2>2, <2>3 DEF TypeOK
<1> QED BY <1>1, RecordInvariant, PTL

\* A replayed response is that of an operation that took effect for the same
\* payload (Decide), whatever times are configured.
THEOREM ReplaysGenuine == Spec => []ReplayIsGenuine
<1>1. RecordInv => ReplayIsGenuine
  BY DEF RecordInv, RecordReq, GenuineReq, Answers, ReplayIsGenuine
<1> QED BY <1>1, RecordInvariant, PTL

\* The invariant of the record as a lock, for a processing timeout that exceeds
\* the duration of every request.
THEOREM ExclusiveInvariant ==
  ASSUME MaxExec < Timeout
  PROVE  Spec => []ExclusiveInv
<1>1. ExclusiveInv /\ [Next]_vars => ExclusiveInv'
  BY RecordStep DEF Exclusively, ExclusiveInv
<1> QED BY <1>1, RecordInit, PTL DEF Spec

\* Such a record is a lock: Execute runs the operation of one request at a time.
THEOREM OwnersAlone ==
  ASSUME MaxExec < Timeout
  PROVE  Spec => []ExecutesAlone
<1>1. ExclusiveInv => ExecutesAlone
  BY DEF ExclusiveInv
<1> QED BY <1>1, ExclusiveInvariant, PTL

\* And the first operation of a key is not repeated while its record lives.
THEOREM OnceInFirstLife ==
  ASSUME MaxExec < Timeout
  PROVE  Spec => []OncePerFirstLife
<1>1. ExclusiveInv => OncePerFirstLife
  BY DEF ExclusiveInv
<1> QED BY <1>1, ExclusiveInvariant, PTL
============================================================================

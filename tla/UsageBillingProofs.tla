------------------------- MODULE UsageBillingProofs -------------------------
(***************************************************************************)
(* Proofs about UsageBilling for every set of tasks, requests, payloads    *)
(* and costs, every pool, queue and overflow policy, every quota,    *)
(* limit, number of retention jobs and size of their batches, and every    *)
(* number of failed statements.                                            *)
(***************************************************************************)
EXTENDS UsageBilling, FiniteSetTheorems, TLAPS

\* The steps of a transaction after its claim, after the look at the archive,
\* and with the key's row locked.
Claimed  == {"archive", "user", "key", "keyUpdate", "account", "commit"}
Charging == Claimed \ {"archive"}
KeyHeld  == {"keyUpdate", "account", "commit"}

\* A request was charged once for the claim in the dedup table or in the
\* archive, and once for every claim that was deleted unarchived.
ChargeIsClaimed ==
    \A r \in Requests :
        charges[r] = drops[r] + (IF dedup[r] # None \/ archive[r] # None THEN 1 ELSE 0)

\* A transaction past its claim is the only one for its request, and nobody
\* has committed that request, in either table.
ClaimIsHeld ==
    \A t \in Tasks :
        /\ pc[t] \in Claimed  => claim[RequestOf[t]] = t /\ dedup[RequestOf[t]] = None
        /\ pc[t] \in Charging => archive[RequestOf[t]] = None

\* The retention jobs select only claims that have grown old.
OldIsClaimed ==
    /\ \A r \in old : dedup[r] # None
    /\ \A j \in Jobs : expired[j] \subseteq old

\* What a job is about to delete it has copied, and no claim was deleted
\* unarchived, as long as no DELETE ran between two statements of another.
MovedIsArchived ==
    ~overlapped =>
        /\ \A j \in Jobs : jpc[j] = "delete" => \A r \in Batch(expired[j]) : archive[r] # None
        /\ \A r \in Requests : drops[r] = 0

\* What a transaction has read of the key is still true when it commits.
KeyIsHeld ==
    \A t \in Tasks : pc[t] \in KeyHeld => locks["key"] = t /\ prev[t] = keyUsed

\* User, key and account have been charged the same.
ChargedAlike == funds = keyUsed /\ funds = accountUsed

BillingInv ==
    /\ TypeOK /\ ChargeIsClaimed /\ ClaimIsHeld /\ OldIsClaimed /\ MovedIsArchived /\ KeyIsHeld
    /\ ChargedAlike /\ CrossingsAreReported

-----------------------------------------------------------------------------
(* Sums over finite sets.  MapThenSumSet is a recursive function on the     *)
(* subsets of the set.  That the recursion has a solution, that the order   *)
(* of the terms does not matter and that a sum depends on its terms only    *)
(* is shown by induction on the subsets of a finite set, in the form "a     *)
(* non-empty set of subsets has a minimal member".                          *)

\* The term that the recursion takes next.
Some(s) == CHOOSE x \in s : TRUE

\* g is a solution of the recursion on the subsets of S.
Unrolls(g, f, S) ==
    g = [s \in SUBSET S |-> IF s = {} THEN 0 ELSE f[Some(s)] + g[s \ {Some(s)}]]
UnrollOf(f, S) == CHOOSE g : Unrolls(g, f, S)

\* The sum is the value of a solution at S.
LEMMA TotalIsUnrolled ==
    ASSUME NEW f, NEW S
    PROVE  Total(f, S) = UnrollOf(f, S)[S]
BY DEF Total, MapThenSumSet, MapThenFoldSet, UnrollOf, Unrolls, Some

\* What holds of a set when it holds of its proper subsets holds of all subsets
\* of a finite set.
LEMMA SubsetInduction ==
    ASSUME NEW S, IsFiniteSet(S), NEW Good,
           \A T \in SUBSET S :
              (\A U \in SUBSET T : U # T => U \in Good) => T \in Good
    PROVE  \A T \in SUBSET S : T \in Good
<1> DEFINE Bad == {T \in SUBSET S : T \notin Good}
           R   == StrictSubsetOrdering(S)
<1>1. SUFFICES ASSUME Bad # {} PROVE FALSE
  OBVIOUS
<1>2. IsWellFoundedOn(R, SUBSET S)
  BY FS_StrictSubsetOrderingWellFounded, FS_FiniteSubsetsOfFinite
<1>3. Bad \subseteq SUBSET S
  OBVIOUS
<1>4. PICK T \in Bad : \A U \in Bad : ~ (<<U, T>> \in R)
  <2> HIDE DEF Bad, R
  <2> QED BY <1>1, <1>2, <1>3, WFMin
<1>5. \A U \in SUBSET T : U # T => <<U, T>> \in R
  BY DEF StrictSubsetOrdering
<1>6. \A U \in SUBSET T : U # T => U \in Good
  <2>1. SUFFICES ASSUME NEW U \in SUBSET T, U # T, U \notin Good
                 PROVE  FALSE
    OBVIOUS
  <2>2. U \in Bad
    BY <2>1
  <2>3. <<U, T>> \in R
    BY <1>5, <2>1
  <2> HIDE DEF R, Bad
  <2> QED BY <1>4, <2>2, <2>3
<1> QED BY <1>6

\* The term taken next is one of the set.
LEMMA SomeIsMember ==
    ASSUME NEW s, s # {}
    PROVE  Some(s) \in s
BY DEF Some

\* One step of the recursion.
LEMMA UnrollsAt ==
    ASSUME NEW f, NEW S, NEW g, Unrolls(g, f, S), NEW T \in SUBSET S
    PROVE  /\ T = {} => g[T] = 0
           /\ T # {} => g[T] = f[Some(T)] + g[T \ {Some(T)}]
BY DEF Unrolls

\* A solution is one for every smaller set.
LEMMA UnrollsOnSubset ==
    ASSUME NEW f, NEW S, NEW g, Unrolls(g, f, S), NEW U \in SUBSET S
    PROVE  Unrolls([s \in SUBSET U |-> g[s]], f, U)
<1> DEFINE h == [s \in SUBSET U |-> g[s]]
<1>1. ASSUME NEW s \in SUBSET U
      PROVE  h[s] = IF s = {} THEN 0 ELSE f[Some(s)] + h[s \ {Some(s)}]
  <2>1. h[s] = g[s] /\ h[s \ {Some(s)}] = g[s \ {Some(s)}]
    OBVIOUS
  <2> HIDE DEF h
  <2> QED BY <2>1, UnrollsAt
<1> HIDE DEF h
<1>2. h = [s \in SUBSET U |-> h[s]]
  BY DEF h
<1>3. [s \in SUBSET U |-> h[s]]
        = [s \in SUBSET U |-> IF s = {} THEN 0 ELSE f[Some(s)] + h[s \ {Some(s)}]]
  BY <1>1
<1>4. Unrolls(h, f, U)
  BY <1>2, <1>3 DEF Unrolls
<1> QED BY <1>4 DEF h

\* There is at most one solution.
LEMMA UnrollsOnce ==
    ASSUME NEW f, NEW S, IsFiniteSet(S), NEW g, NEW h,
           Unrolls(g, f, S), Unrolls(h, f, S)
    PROVE  g = h
<1> DEFINE Good == {T \in SUBSET S : g[T] = h[T]}
<1>1. ASSUME NEW T \in SUBSET S, \A U \in SUBSET T : U # T => U \in Good
      PROVE  T \in Good
  <2>1. CASE T = {}
    BY <2>1, UnrollsAt
  <2>2. CASE T # {}
    <3>1. Some(T) \in T
      BY <2>2, SomeIsMember
    <3>2. T \ {Some(T)} \in Good
      BY <1>1, <3>1
    <3> QED BY <2>2, <3>2, UnrollsAt
  <2> QED BY <2>1, <2>2
<1>2. \A T \in SUBSET S : T \in Good
  <2> HIDE DEF Good
  <2> QED BY <1>1, SubsetInduction
<1>3. g = [s \in SUBSET S |-> g[s]] /\ h = [s \in SUBSET S |-> h[s]]
  BY DEF Unrolls
<1> QED BY <1>2, <1>3

\* There is a solution: for a set, from those for its proper subsets.
LEMMA UnrollExists ==
    ASSUME NEW f, NEW S, IsFiniteSet(S)
    PROVE  Unrolls(UnrollOf(f, S), f, S)
<1> DEFINE Good == {T \in SUBSET S : Unrolls(UnrollOf(f, T), f, T)}
<1>1. ASSUME NEW T \in SUBSET S, \A U \in SUBSET T : U # T => U \in Good
      PROVE  T \in Good
  <2> DEFINE g == [s \in SUBSET T |-> IF s = {} THEN 0
                     ELSE f[Some(s)] + UnrollOf(f, s \ {Some(s)})[s \ {Some(s)}]]
  <2>1. ASSUME NEW U \in SUBSET T, U # T
        PROVE  g[U] = UnrollOf(f, U)[U]
    <3>0. Unrolls(UnrollOf(f, U), f, U)
      BY <1>1, <2>1
    <3>1. CASE U = {}
      <4>1. g[U] = 0
        BY <3>1
      <4>2. UnrollOf(f, U)[U] = 0
        BY <3>0, <3>1, UnrollsAt
      <4> QED BY <4>1, <4>2
    <3>2. CASE U # {}
      <4> DEFINE V == U \ {Some(U)}
      <4>1. Some(U) \in U
        BY <3>2, SomeIsMember
      <4>2. V \in SUBSET U /\ V \in SUBSET T /\ V # T /\ IsFiniteSet(V)
        BY <4>1, FS_Subset
      <4>3. Unrolls(UnrollOf(f, V), f, V)
        BY <1>1, <4>2
      <4>4. Unrolls([s \in SUBSET V |-> UnrollOf(f, U)[s]], f, V)
        BY <3>0, <4>2, UnrollsOnSubset
      <4>5. UnrollOf(f, V) = [s \in SUBSET V |-> UnrollOf(f, U)[s]]
        <5> HIDE DEF V
        <5> QED BY <4>2, <4>3, <4>4, UnrollsOnce
      <4>6. UnrollOf(f, V)[V] = UnrollOf(f, U)[V]
        BY <4>5
      <4>7. UnrollOf(f, U)[U] = f[Some(U)] + UnrollOf(f, U)[V]
        BY <3>0, <3>2, UnrollsAt
      <4>8. g[U] = f[Some(U)] + UnrollOf(f, V)[V]
        BY <3>2
      <4> QED BY <4>6, <4>7, <4>8
    <3> QED BY <3>1, <3>2
  <2>2. ASSUME NEW s \in SUBSET T
        PROVE  g[s] = IF s = {} THEN 0 ELSE f[Some(s)] + g[s \ {Some(s)}]
    <3>1. CASE s = {}
      BY <3>1
    <3>2. CASE s # {}
      <4>1. Some(s) \in s
        BY <3>2, SomeIsMember
      <4>2. s \ {Some(s)} \in SUBSET T /\ s \ {Some(s)} # T
        BY <4>1
      <4>3. g[s \ {Some(s)}] = UnrollOf(f, s \ {Some(s)})[s \ {Some(s)}]
        <5> HIDE DEF g
        <5> QED BY <2>1, <4>2
      <4>4. g[s] = f[Some(s)] + UnrollOf(f, s \ {Some(s)})[s \ {Some(s)}]
        BY <3>2
      <4> HIDE DEF g
      <4> QED BY <3>2, <4>3, <4>4
    <3> QED BY <3>1, <3>2
  <2>3. g = [s \in SUBSET T |-> g[s]]
    OBVIOUS
  <2>4. Unrolls(g, f, T)
    <3> HIDE DEF g
    <3>1. [s \in SUBSET T |-> g[s]]
            = [s \in SUBSET T |-> IF s = {} THEN 0 ELSE f[Some(s)] + g[s \ {Some(s)}]]
      BY <2>2
    <3> QED BY <2>3, <3>1 DEF Unrolls
  <2> HIDE DEF g
  <2> QED BY <2>4 DEF UnrollOf
<1>2. \A T \in SUBSET S : T \in Good
  <2> HIDE DEF Good
  <2> QED BY <1>1, SubsetInduction
<1> QED BY <1>2

\* The sum of nothing, and the sum with its first term taken out.
LEMMA SumStep ==
    ASSUME NEW f, NEW S, IsFiniteSet(S)
    PROVE  /\ S = {} => Total(f, S) = 0
           /\ S # {} => Total(f, S) = f[Some(S)] + Total(f, S \ {Some(S)})
<1>1. Unrolls(UnrollOf(f, S), f, S)
  BY UnrollExists
<1>2. CASE S = {}
  BY <1>1, <1>2, UnrollsAt, TotalIsUnrolled
<1>3. CASE S # {}
  <2> DEFINE V == S \ {Some(S)}
  <2>1. V \in SUBSET S /\ IsFiniteSet(V)
    BY FS_Subset
  <2>2. Unrolls(UnrollOf(f, V), f, V)
    BY <2>1, UnrollExists
  <2>3. Unrolls([s \in SUBSET V |-> UnrollOf(f, S)[s]], f, V)
    BY <1>1, <2>1, UnrollsOnSubset
  <2>4. UnrollOf(f, V) = [s \in SUBSET V |-> UnrollOf(f, S)[s]]
    <3> HIDE DEF V
    <3> QED BY <2>1, <2>2, <2>3, UnrollsOnce
  <2>5. UnrollOf(f, V)[V] = UnrollOf(f, S)[V]
    BY <2>4
  <2> QED BY <1>1, <1>3, <2>5, UnrollsAt, TotalIsUnrolled
<1> QED BY <1>2, <1>3

\* Any term may be taken out first.
LEMMA SumTakesOut ==
    ASSUME NEW f, NEW S, IsFiniteSet(S), \A x \in S : f[x] \in Nat
    PROVE  /\ Total(f, S) \in Nat
           /\ \A x \in S : Total(f, S) = f[x] + Total(f, S \ {x})
<1> DEFINE Good == {T \in SUBSET S :
                      /\ Total(f, T) \in Nat
                      /\ \A x \in T : Total(f, T) = f[x] + Total(f, T \ {x})}
<1>1. ASSUME NEW T \in SUBSET S, \A U \in SUBSET T : U # T => U \in Good
      PROVE  T \in Good
  <2>0. IsFiniteSet(T)
    BY FS_Subset
  <2>1. CASE T = {}
    <3>1. Total(f, T) = 0
      BY <2>0, <2>1, SumStep
    <3> QED BY <2>1, <3>1
  <2>2. CASE T # {}
    <3> DEFINE p == Some(T)
    <3>1. p \in T /\ f[p] \in Nat
      BY <2>2, SomeIsMember
    <3>2. Total(f, T) = f[p] + Total(f, T \ {p})
      BY <2>0, <2>2, SumStep
    <3> HIDE DEF p
    <3>3. T \ {p} \in Good
      BY <1>1, <3>1
    <3>4. Total(f, T \ {p}) \in Nat /\ Total(f, T) \in Nat
      BY <3>1, <3>2, <3>3
    <3>5. ASSUME NEW x \in T, x # p
          PROVE  Total(f, T) = f[x] + Total(f, T \ {x})
      <4>1. T \ {x} \in Good
        BY <1>1
      <4> DEFINE W == (T \ {x}) \ {p}
      <4>2. (T \ {p}) \ {x} = W /\ W # T /\ W \in SUBSET T
        OBVIOUS
      <4> HIDE DEF W
      <4>3. Total(f, T \ {p}) = f[x] + Total(f, W)
        <5>1. x \in T \ {p}
          BY <3>5
        <5> QED BY <3>3, <4>2, <5>1
      <4>4. Total(f, T \ {x}) = f[p] + Total(f, W)
        <5>1. p \in T \ {x}
          BY <3>1, <3>5
        <5> QED BY <4>1, <5>1 DEF W
      <4>5. W \in Good
        BY <1>1, <4>2
      <4>6. Total(f, W) \in Nat /\ f[x] \in Nat
        BY <4>5
      <4> HIDE DEF Good
      <4> QED BY <3>1, <3>2, <4>3, <4>4, <4>6
    <3> QED BY <3>2, <3>4, <3>5
  <2> QED BY <2>1, <2>2
<1>2. \A T \in SUBSET S : T \in Good
  <2> HIDE DEF Good
  <2> QED BY <1>1, SubsetInduction
<1> QED BY <1>2

\* One more term.
LEMMA SumAdds ==
    ASSUME NEW f, NEW S, IsFiniteSet(S), NEW x, x \notin S,
           \A y \in S \union {x} : f[y] \in Nat
    PROVE  Total(f, S \union {x}) = Total(f, S) + f[x]
<1>1. IsFiniteSet(S \union {x}) /\ (S \union {x}) \ {x} = S
  BY FS_AddElement
<1>2. Total(f, S \union {x}) = f[x] + Total(f, (S \union {x}) \ {x})
  BY <1>1, SumTakesOut
<1>3. Total(f, S) \in Nat /\ f[x] \in Nat
  BY SumTakesOut
<1>4. Total(f, S \union {x}) = f[x] + Total(f, S)
  BY <1>1, <1>2, Zenon
<1> QED BY <1>3, <1>4

\* A sum over a set is the sum over a part of it and that over the rest.
LEMMA SumSplits ==
    ASSUME NEW f, NEW S, IsFiniteSet(S), \A x \in S : f[x] \in Nat
    PROVE  \A T \in SUBSET S : Total(f, S) = Total(f, S \ T) + Total(f, T)
<1> DEFINE Good == {T \in SUBSET S : Total(f, S) = Total(f, S \ T) + Total(f, T)}
<1>0. \A T \in SUBSET S : IsFiniteSet(T) /\ Total(f, T) \in Nat
  BY FS_Subset, SumTakesOut
<1>1. ASSUME NEW T \in SUBSET S, \A U \in SUBSET T : U # T => U \in Good
      PROVE  T \in Good
  <2>1. CASE T = {}
    <3>1. Total(f, T) = 0 /\ S \ T = S
      BY <1>0, <2>1, SumStep
    <3> QED BY <1>0, <3>1
  <2>2. CASE T # {}
    <3>1. PICK x \in T : TRUE
      BY <2>2
    <3>2. T \ {x} \in Good
      BY <1>1, <3>1
    <3>3. S \ (T \ {x}) = (S \ T) \union {x} /\ x \notin S \ T
      OBVIOUS
    <3>4. Total(f, S \ (T \ {x})) = Total(f, S \ T) + f[x]
      BY <1>0, <3>3, SumAdds
    <3>5. Total(f, T) = f[x] + Total(f, T \ {x})
      BY <1>0, SumTakesOut
    <3>6. Total(f, S) = Total(f, S \ (T \ {x})) + Total(f, T \ {x})
      BY <3>2
    <3>7. Total(f, S \ T) \in Nat /\ Total(f, T \ {x}) \in Nat /\ f[x] \in Nat
      BY <1>0
    <3>8. Total(f, S) = Total(f, S \ T) + Total(f, T)
      BY <3>4, <3>5, <3>6, <3>7
    <3> QED BY <3>8
  <2> QED BY <2>1, <2>2
<1>2. \A T \in SUBSET S : T \in Good
  <2> HIDE DEF Good
  <2> QED BY <1>1, SubsetInduction
<1> QED BY <1>2

\* Sums of the same terms are the same.
LEMMA SumDependsOnTerms ==
    ASSUME NEW f, NEW g, NEW S, IsFiniteSet(S), \A x \in S : f[x] = g[x]
    PROVE  Total(f, S) = Total(g, S)
<1> DEFINE Good == {T \in SUBSET S : Total(f, T) = Total(g, T)}
<1>1. ASSUME NEW T \in SUBSET S, \A U \in SUBSET T : U # T => U \in Good
      PROVE  T \in Good
  <2>0. IsFiniteSet(T)
    BY FS_Subset
  <2>1. CASE T = {}
    BY <2>0, <2>1, SumStep
  <2>2. CASE T # {}
    <3>1. Some(T) \in T
      BY <2>2, SomeIsMember
    <3>2. T \ {Some(T)} \in Good
      BY <1>1, <3>1
    <3> QED BY <2>0, <2>2, <3>1, <3>2, SumStep
  <2> QED BY <2>1, <2>2
<1>2. \A T \in SUBSET S : T \in Good
  <2> HIDE DEF Good
  <2> QED BY <1>1, SubsetInduction
<1> QED BY <1>2

-----------------------------------------------------------------------------
\* The first task of the queue is a task.
LEMMA HeadIsTask ==
    ASSUME TypeOK, queue # <<>>
    PROVE  Head(queue) \in Tasks /\ Tail(queue) \in Seq(Tasks)
BY DEF TypeOK

\* A task joins the queue.
LEMMA AppendTask ==
    ASSUME TypeOK, NEW t \in Tasks
    PROVE  Append(queue, t) \in Seq(Tasks)
<1>1. queue \in Seq(Tasks)
  BY DEF TypeOK
<1> QED BY <1>1

\* A cost is a positive number.
LEMMA CostIsPositive == \A t \in Tasks : CostOf(t) \in Nat \ {0} /\ FingerprintOf[t] # None
                                         /\ RequestOf[t] \in Requests /\ t # None
BY BillingAssumption DEF CostOf

\* The end of a transaction keeps the types.
LEMMA EndTxType ==
    ASSUME TypeOK, NEW t \in Tasks, EndTx(t)
    PROVE  /\ pc' \in [Tasks -> Labels] /\ queue' \in Seq(Tasks) /\ inPool' \subseteq Tasks
           /\ stopped' \in BOOLEAN
           /\ claim' \in [Requests -> Tasks \union {None}]
           /\ locks' \in [Rows -> Tasks \union {None}] /\ prev' \in [Tasks -> Nat]
BY DEF TypeOK, EndTx, Goto, Labels

\* The cost of a claimed request is a number.
LEMMA ClaimedCostType ==
    ASSUME TypeOK
    PROVE  \A r \in ClaimedRequests : ClaimedCost[r] \in Nat
BY BillingAssumption DEF TypeOK, ClaimedCost, ClaimedRequests, ClaimedWith

\* What the claims of a batch have cost is a number.
LEMMA LostType ==
    ASSUME TypeOK, OldIsClaimed, NEW j \in Jobs, NEW S \in SUBSET expired[j]
    PROVE  /\ S \subseteq ClaimedRequests /\ IsFiniteSet(S)
           /\ Total(ClaimedCost, S) \in Nat
<1>1. S \subseteq Requests /\ S \subseteq ClaimedRequests
  BY DEF TypeOK, OldIsClaimed, ClaimedRequests, ClaimedWith
<1>2. IsFiniteSet(S)
  BY <1>1, BillingAssumption, FS_Subset
<1>3. \A r \in S : ClaimedCost[r] \in Nat
  BY <1>1, ClaimedCostType
<1> QED BY <1>1, <1>2, <1>3, SumTakesOut

\* Every step keeps the types.
LEMMA TypeStep ==
    ASSUME TypeOK, OldIsClaimed, [Next]_vars
    PROVE  TypeOK'
<1> USE DEF TypeOK, Labels, Goto, Fine, Fault, pool, claims, jobs, txState, books, vars
<1>1. ASSUME NEW t \in Tasks, Submit(t) PROVE TypeOK'
  <2>1. pc' \in [Tasks -> Labels]
    BY <1>1 DEF Submit
  <2>2. queue' = queue \/ queue' = Append(queue, t)
    BY <1>1 DEF Submit
  <2>3. queue' \in Seq(Tasks)
    BY <2>2, AppendTask
  <2> QED BY <1>1, <2>1, <2>3 DEF Submit
<1>2. ASSUME NEW t \in Tasks, Fail(t) PROVE TypeOK'
  <2>1. EndTx(t) /\ faults' \in Nat /\ UNCHANGED <<claims, jobs, books>>
    BY <1>2 DEF Fail
  <2> QED BY <2>1, EndTxType
<1>3. ASSUME NEW t \in Tasks, ClaimKey(t) PROVE TypeOK'
  <2>1. CASE EndTx(t)
    BY <1>3, <2>1, EndTxType DEF ClaimKey
  <2>2. CASE /\ Goto(t, "archive") /\ claim' = [claim EXCEPT ![RequestOf[t]] = t]
             /\ UNCHANGED <<pool, locks, prev>>
    BY <1>3, <2>2, CostIsPositive DEF ClaimKey
  <2> QED BY <1>3, <2>1, <2>2 DEF ClaimKey
<1>4. ASSUME NEW t \in Tasks, CheckArchive(t) PROVE TypeOK'
  BY <1>4, EndTxType DEF CheckArchive
<1>5. ASSUME NEW t \in Tasks, DeductBalance(t) PROVE TypeOK'
  BY <1>5 DEF DeductBalance, LockRow, Rows
<1>6. ASSUME NEW t \in Tasks, ReadKey(t) PROVE TypeOK'
  BY <1>6 DEF ReadKey, LockRow, Rows
<1>7. ASSUME NEW t \in Tasks, UpdateKey(t) PROVE TypeOK'
  BY <1>7 DEF UpdateKey
<1>8. ASSUME NEW t \in Tasks, UpdateAccount(t) PROVE TypeOK'
  BY <1>8 DEF UpdateAccount, LockRow, Rows
<1>9. ASSUME NEW t \in Tasks, Commit(t) PROVE TypeOK'
  <2>1. dedup' \in [Requests -> Fingerprints \union {None}]
        /\ charges' \in [Requests -> Nat]
        /\ id' \in [Requests -> Nat] /\ lastId' \in Nat
    BY <1>9, BillingAssumption DEF Commit
  <2>2. funds' \in Nat /\ keyUsed' \in Nat /\ accountUsed' \in Nat
        /\ crossed' \in Nat /\ outbox' \in Nat
    <3>1. /\ funds' = funds + CostOf(t) /\ keyUsed' = keyUsed + CostOf(t)
          /\ accountUsed' = accountUsed + CostOf(t)
          /\ crossed' = crossed \/ crossed' = crossed + 1
          /\ outbox' = outbox \/ outbox' = outbox + 1
      BY <1>9 DEF Commit
    <3>2. /\ CostOf(t) \in Nat /\ funds \in Nat /\ keyUsed \in Nat /\ accountUsed \in Nat
          /\ crossed \in Nat /\ outbox \in Nat
      BY CostIsPositive
    <3>3. \A m, n \in Nat : m + n \in Nat /\ m + 1 \in Nat
      OBVIOUS
    <3> QED BY <3>1, <3>2, <3>3, Zenon
  <2>3. keyStatus' \in {"active", "quota_exhausted"}
    BY <1>9 DEF Commit, KeyStatusAfter
  <2> QED BY <1>9, <2>1, <2>2, <2>3, EndTxType DEF Commit
<1>10. CASE Dequeue
  BY <1>10, HeadIsTask DEF Dequeue
<1>11. CASE Stop
  BY <1>11 DEF Stop
<1>12. ASSUME NEW r \in Requests, Age(r) PROVE TypeOK'
  BY <1>12 DEF Age
<1>13. ASSUME NEW j \in Jobs, StartCleanup(j) PROVE TypeOK'
  BY <1>13 DEF StartCleanup
<1>14. ASSUME NEW j \in Jobs, CleanupFails(j) PROVE TypeOK'
  BY <1>14 DEF CleanupFails
<1>15. ASSUME NEW j \in Jobs, ArchiveBatch(j) PROVE TypeOK'
  BY <1>15 DEF ArchiveBatch
<1>16. ASSUME NEW j \in Jobs, DeleteBatch(j) PROVE TypeOK'
  <2> DEFINE open == {r \in Victims(j) : archive[r] = None}
  <2>1. open \subseteq expired[j]
    BY DEF Victims, Batch
  <2>2. Total(ClaimedCost, open) \in Nat
    BY <2>1, LostType
  <2>3. lost' = lost + Total(ClaimedCost, open)
    BY <1>16 DEF DeleteBatch
  <2>4. lost' \in Nat
    <3> HIDE DEF open
    <3> QED BY <2>2, <2>3
  <2>5. dedup' \in [Requests -> Fingerprints \union {None}] /\ id' \in [Requests -> Nat]
    BY <1>16 DEF DeleteBatch
  <2>6. drops' \in [Requests -> Nat]
    BY <1>16 DEF DeleteBatch
  <2>7. jpc' \in [Jobs -> {"idle", "copy", "delete"}] /\ expired' \in [Jobs -> SUBSET Requests]
    BY <1>16 DEF DeleteBatch
  <2>8. overlapped' \in BOOLEAN
    BY <1>16, Zenon DEF DeleteBatch
  <2> QED BY <1>16, <2>4, <2>5, <2>6, <2>7, <2>8 DEF DeleteBatch
<1>17. CASE UNCHANGED vars
  BY <1>17
<1> QED BY <1>1, <1>2, <1>3, <1>4, <1>5, <1>6, <1>7, <1>8, <1>9, <1>10, <1>11,
           <1>12, <1>13, <1>14, <1>15, <1>16, <1>17 DEF Next, Apply

-----------------------------------------------------------------------------
\* What the end of a transaction means for the others: they keep their claims,
\* their locks and what they read.
LEMMA EndTxFacts ==
    ASSUME TypeOK, ClaimIsHeld, KeyIsHeld, NEW t \in Tasks, EndTx(t)
    PROVE  /\ pc'[t] = "done"
           /\ \A u \in Tasks \ {t} :
                 /\ pc'[u] = pc[u] /\ prev'[u] = prev[u]
                 /\ pc[u] \in Claimed => claim'[RequestOf[u]] = u
                 /\ pc[u] \in KeyHeld => locks'["key"] = u
BY CostIsPositive DEF TypeOK, EndTx, Goto, ClaimIsHeld, KeyIsHeld, Rows

\* The batch of a job depends on its own rows only.
LEMMA BatchKept ==
    ASSUME NEW j \in Jobs, expired'[j] = expired[j], \A s \in expired[j] : id'[s] = id[s]
    PROVE  Batch(expired[j])' = Batch(expired[j])
<1> DEFINE S == expired[j]
<1>1. Batch(expired[j])' = {r \in S : Cardinality({s \in S : id'[s] < id'[r]}) < BatchSize}
  BY DEF Batch
<1>2. ASSUME NEW r \in S
      PROVE  {s \in S : id'[s] < id'[r]} = {s \in S : id[s] < id[r]}
  <2>1. id'[r] = id[r]
    OBVIOUS
  <2> QED BY <2>1
<1>3. Batch(S) = {r \in S : Cardinality({s \in S : id[s] < id[r]}) < BatchSize}
  BY DEF Batch
<1> HIDE DEF S
<1>4. \A r \in S : Cardinality({s \in S : id'[s] < id'[r]}) = Cardinality({s \in S : id[s] < id[r]})
  BY <1>2
<1> QED BY <1>1, <1>3, <1>4 DEF S

\* A step that changes neither the tables nor the books.
LEMMA TablesKept ==
    ASSUME BillingInv, UNCHANGED <<claims, jobs, books>>
    PROVE  /\ ChargeIsClaimed' /\ OldIsClaimed' /\ MovedIsArchived'
           /\ ChargedAlike' /\ CrossingsAreReported'
<1> USE DEF claims, jobs, books
<1>1. ChargeIsClaimed' /\ OldIsClaimed'
  BY DEF BillingInv, ChargeIsClaimed, OldIsClaimed
<1>2. ChargedAlike' /\ CrossingsAreReported'
  BY DEF BillingInv, ChargedAlike, CrossingsAreReported
<1>3. \A j \in Jobs : Batch(expired[j])' = Batch(expired[j])
  BY BatchKept
<1>4. MovedIsArchived'
  BY <1>3 DEF BillingInv, MovedIsArchived
<1> QED BY <1>1, <1>2, <1>4

\* A transaction that ends without changing the tables keeps the invariant.
LEMMA EndTxKeeps ==
    ASSUME BillingInv, TypeOK', NEW t \in Tasks, EndTx(t), UNCHANGED <<claims, jobs, books>>
    PROVE  BillingInv'
<1>1. ClaimIsHeld'
  BY EndTxFacts DEF BillingInv, ClaimIsHeld, Claimed, Charging, claims
<1>2. KeyIsHeld'
  BY EndTxFacts DEF BillingInv, KeyIsHeld, KeyHeld, books
<1> QED BY <1>1, <1>2, TablesKept DEF BillingInv

\* crossedTotal compares the counter before and after the update with the limit.
LEMMA AccountCrossedMeans ==
    ASSUME TypeOK, NEW c \in Nat
    PROVE  AccountCrossed(c) <=> Limit > 0 /\ accountUsed + c >= Limit /\ accountUsed < Limit
<1>1. accountUsed \in Nat /\ Limit \in Nat
  BY BillingAssumption DEF TypeOK
<1> QED BY <1>1 DEF AccountCrossed

\* The commit: the claim was held and in neither table, so this is the first
\* charge of the request, and the counters were those the transaction read.
LEMMA CommitKeeps ==
    ASSUME BillingInv, TypeOK', NEW t \in Tasks, Commit(t)
    PROVE  BillingInv'
<1> DEFINE r == RequestOf[t]
           c == CostOf(t)
<1> USE CostIsPositive DEF jobs
<1>0. /\ TypeOK /\ EndTx(t) /\ r \in Requests /\ c \in Nat \ {0}
      /\ ClaimIsHeld /\ KeyIsHeld /\ pc[t] = "commit"
  BY DEF BillingInv, Commit
<1>1. claim[r] = t /\ dedup[r] = None /\ archive[r] = None /\ prev[t] = keyUsed
  BY <1>0 DEF ClaimIsHeld, KeyIsHeld, Claimed, Charging, KeyHeld
<1>2. ChargeIsClaimed'
  <2>1. /\ dedup' = [dedup EXCEPT ![r] = FingerprintOf[t]] /\ archive' = archive
        /\ charges' = [charges EXCEPT ![r] = @ + 1] /\ drops' = drops
        /\ dedup \in [Requests -> Fingerprints \union {None}]
        /\ charges \in [Requests -> Nat] /\ drops \in [Requests -> Nat]
    BY <1>0 DEF Commit, TypeOK
  <2>2. charges[r] = drops[r]
    BY <1>0, <1>1, <2>1 DEF BillingInv, ChargeIsClaimed
  <2>3. charges'[r] = drops'[r] + 1 /\ dedup'[r] # None
    BY <1>0, <2>1, <2>2
  <2>4. \A s \in Requests \ {r} : charges'[s] = charges[s] /\ dedup'[s] = dedup[s]
    BY <2>1
  <2> QED BY <2>1, <2>3, <2>4 DEF BillingInv, ChargeIsClaimed
<1>3. ClaimIsHeld'
  <2> SUFFICES ASSUME NEW u \in Tasks
               PROVE  /\ pc'[u] \in Claimed => claim'[RequestOf[u]] = u /\ dedup'[RequestOf[u]] = None
                      /\ pc'[u] \in Charging => archive'[RequestOf[u]] = None
    BY DEF ClaimIsHeld
  <2>1. CASE u = t
    BY <1>0, <2>1, EndTxFacts DEF Claimed, Charging
  <2>2. CASE u # t /\ pc[u] \in Claimed
    <3>1. RequestOf[u] # r
      BY <1>0, <1>1, <2>2 DEF ClaimIsHeld
    <3> QED BY <1>0, <2>2, <3>1, EndTxFacts DEF Commit, ClaimIsHeld, TypeOK, Claimed, Charging
  <2>3. CASE u # t /\ pc[u] \notin Claimed
    BY <1>0, <2>3, EndTxFacts DEF Claimed, Charging
  <2> QED BY <2>1, <2>2, <2>3
<1>4. KeyIsHeld'
  BY <1>0, EndTxFacts DEF KeyIsHeld, KeyHeld
<1>5. OldIsClaimed' /\ MovedIsArchived'
  <2>1. OldIsClaimed'
    BY <1>0 DEF BillingInv, OldIsClaimed, Commit, TypeOK
  <2>2. /\ UNCHANGED <<archive, jpc, expired, drops, overlapped>>
        /\ id' = [id EXCEPT ![r] = lastId + 1]
    BY DEF Commit
  <2>3. \A j \in Jobs : \A s \in expired[j] : id'[s] = id[s]
    <3>1. \A j \in Jobs : \A s \in expired[j] : s \in Requests /\ s # r
      BY <1>0, <1>1 DEF BillingInv, OldIsClaimed, TypeOK
    <3>2. id \in [Requests -> Nat]
      BY <1>0 DEF TypeOK
    <3> HIDE DEF r
    <3> QED BY <2>2, <3>1, <3>2
  <2>4. \A j \in Jobs : Batch(expired[j])' = Batch(expired[j])
    BY <2>2, <2>3, BatchKept
  <2> QED BY <2>1, <2>2, <2>4 DEF BillingInv, MovedIsArchived
<1>6. ChargedAlike'
  BY <1>0 DEF BillingInv, ChargedAlike, Commit
<1>7. CrossingsAreReported'
  <2>1. crossed' = IF Quota > 0 /\ keyUsed' >= Quota THEN 1 ELSE 0
    <3>1. /\ keyUsed' = keyUsed + c
          /\ crossed' = crossed + (IF Quota > 0 /\ keyUsed < Quota /\ keyUsed + c >= Quota
                                   THEN 1 ELSE 0)
      BY <1>0, <1>1 DEF Commit, KeyCrossed
    <3>2. keyUsed \in Nat /\ Quota \in Nat
          /\ crossed = IF Quota > 0 /\ keyUsed >= Quota THEN 1 ELSE 0
      BY <1>0, BillingAssumption DEF TypeOK, BillingInv, CrossingsAreReported
    <3> HIDE DEF c
    <3> QED BY <1>0, <3>1, <3>2
  <2>2. outbox' = IF Limit > 0 /\ accountUsed' >= Limit THEN 1 ELSE 0
    <3>1. /\ accountUsed' = accountUsed + c
          /\ outbox' = outbox + (IF Limit > 0 /\ accountUsed + c >= Limit
                                    /\ accountUsed < Limit THEN 1 ELSE 0)
      <4>1. /\ accountUsed' = accountUsed + c
            /\ outbox' = outbox + (IF AccountCrossed(c) THEN 1 ELSE 0)
        BY DEF Commit
      <4> QED BY <1>0, <4>1, AccountCrossedMeans
    <3>2. accountUsed \in Nat /\ Limit \in Nat
          /\ outbox = IF Limit > 0 /\ accountUsed >= Limit THEN 1 ELSE 0
      BY <1>0, BillingAssumption DEF TypeOK, BillingInv, CrossingsAreReported
    <3> HIDE DEF c
    <3> QED BY <1>0, <3>1, <3>2
  <2> QED BY <2>1, <2>2 DEF CrossingsAreReported
<1> QED BY <1>2, <1>3, <1>4, <1>5, <1>6, <1>7 DEF BillingInv

\* The steps of a transaction between its claim and its commit.
LEMMA BillingStep ==
    ASSUME BillingInv, [Next]_vars
    PROVE  BillingInv'
<1> USE DEF Goto, Fine, pool, claims, jobs, txState, books
<1>0. TypeOK /\ TypeOK'
  BY TypeStep DEF BillingInv
<1>b. ASSUME ClaimIsHeld', KeyIsHeld', UNCHANGED <<claims, jobs, books>>
      PROVE  BillingInv'
  BY <1>0, <1>b, TablesKept DEF BillingInv
<1>c. ASSUME NEW t \in Tasks, NEW l \in Labels \ Claimed, pc' = [pc EXCEPT ![t] = l],
             UNCHANGED <<claims, jobs, txState, books>>
      PROVE  ClaimIsHeld' /\ KeyIsHeld'
  BY <1>c, <1>0 DEF BillingInv, ClaimIsHeld, KeyIsHeld, TypeOK, Claimed, Charging, KeyHeld
<1>1. ASSUME NEW t \in Tasks, Submit(t) PROVE BillingInv'
  BY <1>1, <1>b, <1>c DEF Submit, Labels, Claimed
<1>2. ASSUME NEW t \in Tasks, Fail(t) PROVE BillingInv'
  BY <1>2, <1>0, EndTxKeeps DEF Fail
<1>3. ASSUME NEW t \in Tasks, ClaimKey(t) PROVE BillingInv'
  <2>1. CASE EndTx(t)
    BY <1>3, <2>1, <1>0, EndTxKeeps DEF ClaimKey
  <2>2. CASE /\ dedup[RequestOf[t]] = None /\ pc' = [pc EXCEPT ![t] = "archive"]
             /\ claim' = [claim EXCEPT ![RequestOf[t]] = t]
    <3>1. claim[RequestOf[t]] = None /\ UNCHANGED <<claims, jobs, books, locks, prev>>
      BY <1>3, <2>2 DEF ClaimKey, EndTx
    <3>2. ClaimIsHeld'
      BY <1>0, <2>2, <3>1, CostIsPositive
         DEF BillingInv, ClaimIsHeld, TypeOK, Claimed, Charging
    <3>3. KeyIsHeld'
      BY <1>0, <2>2, <3>1 DEF BillingInv, KeyIsHeld, TypeOK, KeyHeld
    <3> QED BY <1>b, <3>1, <3>2, <3>3
  <2> QED BY <1>3, <2>1, <2>2 DEF ClaimKey
<1>4. ASSUME NEW t \in Tasks, CheckArchive(t) PROVE BillingInv'
  <2>1. CASE EndTx(t)
    BY <1>4, <2>1, <1>0, EndTxKeeps DEF CheckArchive
  <2>2. CASE archive[RequestOf[t]] = None /\ pc' = [pc EXCEPT ![t] = "user"]
    <3>1. pc[t] = "archive" /\ UNCHANGED <<claims, jobs, books, txState>>
      BY <1>4, <2>2 DEF CheckArchive, Archived
    <3> QED BY <1>0, <1>b, <2>2, <3>1
               DEF BillingInv, ClaimIsHeld, KeyIsHeld, TypeOK, Claimed, Charging, KeyHeld
  <2> QED BY <1>4, <2>1, <2>2 DEF CheckArchive, Archived
<1>5. ASSUME NEW t \in Tasks, DeductBalance(t) PROVE BillingInv'
  BY <1>0, <1>b, <1>5 DEF DeductBalance, LockRow, BillingInv, ClaimIsHeld, KeyIsHeld,
     TypeOK, Rows, Claimed, Charging, KeyHeld
<1>6. ASSUME NEW t \in Tasks, ReadKey(t) PROVE BillingInv'
  BY <1>0, <1>b, <1>6, CostIsPositive DEF ReadKey, LockRow, BillingInv, ClaimIsHeld,
     KeyIsHeld, TypeOK, Rows, Claimed, Charging, KeyHeld
<1>7. ASSUME NEW t \in Tasks, UpdateKey(t) PROVE BillingInv'
  BY <1>0, <1>b, <1>7 DEF UpdateKey, BillingInv, ClaimIsHeld, KeyIsHeld,
     TypeOK, Claimed, Charging, KeyHeld
<1>8. ASSUME NEW t \in Tasks, UpdateAccount(t) PROVE BillingInv'
  BY <1>0, <1>b, <1>8 DEF UpdateAccount, LockRow, BillingInv, ClaimIsHeld, KeyIsHeld,
     TypeOK, Rows, Claimed, Charging, KeyHeld
<1>9. ASSUME NEW t \in Tasks, Commit(t) PROVE BillingInv'
  BY <1>0, <1>9, CommitKeeps
<1>10. CASE Dequeue
  BY <1>10, <1>0, <1>b, <1>c, HeadIsTask DEF Dequeue, Labels, Claimed
<1>11. CASE Stop
  BY <1>11, <1>b DEF Stop, BillingInv, ClaimIsHeld, KeyIsHeld
<1>d. ASSUME ChargeIsClaimed', ClaimIsHeld', OldIsClaimed', MovedIsArchived',
             UNCHANGED <<pc, txState, books>>
      PROVE  BillingInv'
  BY <1>0, <1>d DEF BillingInv, KeyIsHeld, ChargedAlike, CrossingsAreReported
<1>12. ASSUME NEW r \in Requests, Age(r) PROVE BillingInv'
  <2>1. ChargeIsClaimed' /\ ClaimIsHeld' /\ OldIsClaimed'
    BY <1>0, <1>12 DEF Age, BillingInv, ChargeIsClaimed, ClaimIsHeld, OldIsClaimed
  <2>2. MovedIsArchived'
    BY <1>12 DEF Age, BillingInv, MovedIsArchived, Batch
  <2> QED BY <1>12, <1>d, <2>1, <2>2 DEF Age
<1>13. ASSUME NEW j \in Jobs, StartCleanup(j) \/ CleanupFails(j) PROVE BillingInv'
  <2>1. /\ UNCHANGED <<pc, claims, old, drops, overlapped, txState, books>>
        /\ jpc'[j] # "delete" /\ (expired'[j] = old \/ expired'[j] = {})
        /\ \A k \in Jobs \ {j} : jpc'[k] = jpc[k] /\ expired'[k] = expired[k]
    BY <1>0, <1>13 DEF StartCleanup, CleanupFails, TypeOK
  <2>2. ChargeIsClaimed' /\ ClaimIsHeld' /\ OldIsClaimed'
    BY <2>1 DEF BillingInv, ChargeIsClaimed, ClaimIsHeld, OldIsClaimed
  <2>3. \A k \in Jobs \ {j} : Batch(expired[k])' = Batch(expired[k])
    BY <2>1, BatchKept
  <2>4. MovedIsArchived'
    BY <2>1, <2>3 DEF BillingInv, MovedIsArchived
  <2> QED BY <1>d, <2>1, <2>2, <2>4
<1>14. ASSUME NEW j \in Jobs, ArchiveBatch(j) PROVE BillingInv'
  <2>1. /\ UNCHANGED <<pc, dedup, id, old, expired, drops, overlapped, txState, books>>
        /\ \A k \in Jobs \ {j} : jpc'[k] = jpc[k]
    BY <1>0, <1>14 DEF ArchiveBatch, TypeOK
  <2>2. \A r \in Requests : archive'[r] = IF r \in Batch(expired[j]) /\ archive[r] = None
                                            THEN dedup[r] ELSE archive[r]
    BY <1>14 DEF ArchiveBatch
  <2>3. \A r \in Batch(expired[j]) : r \in Requests /\ dedup[r] # None
    BY <1>0 DEF BillingInv, OldIsClaimed, Batch, TypeOK
  <2>4. ChargeIsClaimed' /\ OldIsClaimed'
    BY <2>1, <2>2, <2>3 DEF BillingInv, ChargeIsClaimed, OldIsClaimed
  <2>5. ClaimIsHeld'
    BY <2>1, <2>2, <2>3, CostIsPositive DEF BillingInv, ClaimIsHeld, Claimed, Charging
  <2>6. \A k \in Jobs : Batch(expired[k])' = Batch(expired[k])
    BY <2>1, BatchKept
  <2>7. \A k \in Jobs : \A r \in Batch(expired[k]) : r \in Requests
    BY <1>0 DEF Batch, TypeOK
  <2>8. MovedIsArchived'
    BY <2>1, <2>2, <2>3, <2>6, <2>7 DEF BillingInv, MovedIsArchived
  <2> QED BY <1>d, <2>1, <2>4, <2>5, <2>8
<1>15. ASSUME NEW j \in Jobs, DeleteBatch(j) PROVE BillingInv'
  <2> DEFINE gone == Batch(expired[j])
  <2>1. /\ UNCHANGED <<pc, archive, txState, books>> /\ jpc[j] = "delete"
        /\ \A r \in Requests :
              /\ dedup'[r] = IF r \in gone THEN None ELSE dedup[r]
              /\ drops'[r] = drops[r] + (IF r \in gone /\ archive[r] = None THEN 1 ELSE 0)
        /\ old' = old \ gone
        /\ \A k \in Jobs : expired'[k] \subseteq expired[k] \ gone
    BY <1>0, <1>15 DEF DeleteBatch, Victims, TypeOK, Batch
  <2>2. /\ overlapped' = (overlapped \/ \E k \in Jobs \ {j} : jpc[k] = "delete")
        /\ jpc'[j] # "delete" /\ \A k \in Jobs \ {j} : jpc'[k] = jpc[k]
    BY <1>0, <1>15 DEF DeleteBatch, TypeOK
  <2>3. gone \subseteq expired[j] /\ gone \subseteq Requests /\ \A r \in gone : dedup[r] # None
    BY <1>0 DEF BillingInv, OldIsClaimed, Batch, TypeOK
  <2>4. (~overlapped => \A r \in gone : archive[r] # None) /\ old \subseteq Requests
    BY <1>0, <2>1 DEF BillingInv, MovedIsArchived, TypeOK
  <2> HIDE DEF gone
  <2>5. ChargeIsClaimed'
    <3> SUFFICES ASSUME NEW r \in Requests
                 PROVE  charges'[r] = drops'[r] + (IF dedup'[r] # None \/ archive'[r] # None
                                                   THEN 1 ELSE 0)
      BY DEF ChargeIsClaimed
    <3>1. /\ charges[r] = drops[r] + (IF dedup[r] # None \/ archive[r] # None THEN 1 ELSE 0)
          /\ drops[r] \in Nat
      BY <1>0 DEF BillingInv, ChargeIsClaimed, TypeOK
    <3> QED BY <2>1, <2>3, <3>1
  <2>6. OldIsClaimed'
    BY <2>1, <2>4 DEF BillingInv, OldIsClaimed
  <2>7. ClaimIsHeld'
    BY <2>1, CostIsPositive DEF BillingInv, ClaimIsHeld
  <2>8. MovedIsArchived'
    <3> SUFFICES ASSUME ~overlapped'
                 PROVE  /\ \A k \in Jobs : jpc'[k] # "delete"
                        /\ \A r \in Requests : drops'[r] = 0
      BY DEF MovedIsArchived
    <3>1. ~overlapped /\ \A k \in Jobs \ {j} : jpc[k] # "delete"
      BY <2>2
    <3>2. \A r \in Requests : drops[r] = 0
      BY <3>1 DEF BillingInv, MovedIsArchived
    <3> QED BY <2>1, <2>2, <2>4, <3>1, <3>2
  <2> QED BY <1>d, <2>1, <2>5, <2>6, <2>7, <2>8
<1>16. CASE UNCHANGED vars
  BY <1>16, <1>b DEF vars, BillingInv, ClaimIsHeld, KeyIsHeld
<1> QED BY <1>1, <1>2, <1>3, <1>4, <1>5, <1>6, <1>7, <1>8, <1>9, <1>10, <1>11,
           <1>12, <1>13, <1>14, <1>15, <1>16 DEF Next, Apply

\* The invariant holds in the initial states.
LEMMA BillingInit == Init => BillingInv
<1> SUFFICES ASSUME Init PROVE BillingInv
  OBVIOUS
<1>1. TypeOK
  <2>1. queue \in Seq(Tasks) /\ faults \in Nat
    BY BillingAssumption DEF Init
  <2>2. /\ pc \in [Tasks -> Labels] /\ prev \in [Tasks -> Nat]
        /\ charges \in [Requests -> Nat] /\ locks \in [Rows -> Tasks \union {None}]
    BY DEF Init, Labels
  <2>3. /\ id \in [Requests -> Nat] /\ drops \in [Requests -> Nat]
        /\ jpc \in [Jobs -> {"idle", "copy", "delete"}] /\ expired \in [Jobs -> SUBSET Requests]
    BY DEF Init
  <2> QED BY <2>1, <2>2, <2>3 DEF Init, TypeOK
<1>2. ChargeIsClaimed /\ ClaimIsHeld /\ OldIsClaimed /\ MovedIsArchived /\ KeyIsHeld
  BY DEF Init, ChargeIsClaimed, ClaimIsHeld, OldIsClaimed, MovedIsArchived, KeyIsHeld, Claimed,
     Charging, KeyHeld
<1>3. ChargedAlike /\ CrossingsAreReported
  BY BillingAssumption DEF Init, ChargedAlike, CrossingsAreReported
<1> QED BY <1>1, <1>2, <1>3 DEF BillingInv

\* The inductive invariant of the billing transactions and the retention jobs.
THEOREM BillingInvariant == Spec => []BillingInv
<1>1. BillingInv /\ [Next]_vars => BillingInv'
  BY BillingStep
<1> QED BY BillingInit, <1>1, PTL DEF Spec

\* A request is charged at most once, as the claim is taken in the transaction
\* that charges; for any number of retention jobs it is charged again only if
\* its claim was deleted unarchived, and that takes a job whose batch another
\* job shifted between its two statements.
THEOREM ChargedOnce == Spec => []ChargedOncePerRequest
<1>1. ASSUME BillingInv PROVE ChargedOncePerRequest
  <2>1. \A r \in Requests : drops[r] \in Nat
    BY <1>1 DEF BillingInv, TypeOK
  <2> QED BY <1>1, <2>1 DEF BillingInv, ChargeIsClaimed, MovedIsArchived, ChargedOncePerRequest
<1> QED BY <1>1, BillingInvariant, PTL

\* The request that uses up the key's quota reports it, and the one that uses
\* up the account's limit, because the rows are locked from the read to the
\* commit.
THEOREM CrossingsReported == Spec => []CrossingsAreReported
<1>1. BillingInv => CrossingsAreReported
  BY DEF BillingInv
<1> QED BY <1>1, BillingInvariant, PTL

-----------------------------------------------------------------------------
(* The books.                                                              *)

\* While a moved claim is in both tables, its copies are the same.
CopiesAgree ==
    \A r \in Requests : dedup[r] # None /\ archive[r] # None => dedup[r] = archive[r]

\* The inductive invariant of the books: finitely many requests are claimed,
\* and their costs and those of the lost claims add up to what was charged.
BooksInv ==
    /\ BillingInv /\ CopiesAgree
    /\ IsFiniteSet(ClaimedRequests) /\ funds = Total(ClaimedCost, ClaimedRequests) + lost

\* The claims are what decides about the sum.
LEMMA SameClaimsSameSum ==
    ASSUME \A r \in Requests : ClaimedWith(r)' = ClaimedWith(r)
    PROVE  ClaimedRequests' = ClaimedRequests /\ ClaimedCost' = ClaimedCost
<1>1. ClaimedRequests' = ClaimedRequests
  BY DEF ClaimedRequests
<1>2. \A r \in ClaimedRequests : r \in Requests
  BY DEF ClaimedRequests
<1> QED BY <1>1, <1>2 DEF ClaimedCost

\* A step that leaves the claims and the user's books alone.
LEMMA BooksUnchanged ==
    ASSUME BooksInv, BillingInv', CopiesAgree', funds' = funds, lost' = lost,
           \A r \in Requests : ClaimedWith(r)' = ClaimedWith(r)
    PROVE  BooksInv'
BY SameClaimsSameSum DEF BooksInv

\* The commit adds one request to the claims and its cost to the books.
LEMMA BooksCommit ==
    ASSUME BooksInv, BillingInv', NEW t \in Tasks, Commit(t)
    PROVE  BooksInv'
<1> DEFINE r == RequestOf[t]
<1>1. /\ TypeOK /\ TypeOK' /\ r \in Requests
      /\ FingerprintOf[t] # None /\ FingerprintOf[t] \in Fingerprints
      /\ dedup[r] = None /\ archive[r] = None
      /\ dedup' = [dedup EXCEPT ![r] = FingerprintOf[t]] /\ archive' = archive
      /\ funds' = funds + Cost[FingerprintOf[t]] /\ funds \in Nat
      /\ lost' = lost /\ lost \in Nat
  BY CostIsPositive, BillingAssumption
     DEF BooksInv, BillingInv, Commit, CostOf, ClaimIsHeld, Claimed, Charging, TypeOK, jobs
<1> HIDE DEF r
<1>2. /\ r \notin ClaimedRequests
      /\ ClaimedWith(r)' = FingerprintOf[t]
      /\ \A s \in Requests \ {r} : ClaimedWith(s)' = ClaimedWith(s)
  BY <1>1 DEF ClaimedRequests, ClaimedWith, TypeOK
<1>3. ClaimedRequests' = ClaimedRequests \union {r}
  BY <1>1, <1>2 DEF ClaimedRequests
<1>4. /\ ClaimedCost'[r] = Cost[FingerprintOf[t]]
      /\ \A s \in ClaimedRequests : ClaimedCost'[s] = ClaimedCost[s]
  <2>1. ClaimedRequests \subseteq Requests
    BY DEF ClaimedRequests
  <2>2. /\ ClaimedCost = [s \in ClaimedRequests |-> Cost[ClaimedWith(s)]]
        /\ ClaimedCost' = [s \in ClaimedRequests' |-> Cost[ClaimedWith(s)']]
    BY DEF ClaimedCost
  <2> QED BY <1>2, <1>3, <2>1, <2>2
<1>5. /\ IsFiniteSet(ClaimedRequests) /\ IsFiniteSet(ClaimedRequests')
      /\ funds = Total(ClaimedCost, ClaimedRequests) + lost
  BY <1>3, FS_AddElement DEF BooksInv
<1>6. \A s \in ClaimedRequests \union {r} : ClaimedCost'[s] \in Nat
  BY <1>1, <1>4, ClaimedCostType, BillingAssumption
<1>7. Total(ClaimedCost', ClaimedRequests \union {r})
        = Total(ClaimedCost', ClaimedRequests) + ClaimedCost'[r]
  BY <1>2, <1>5, <1>6, SumAdds
<1>8. Total(ClaimedCost', ClaimedRequests) = Total(ClaimedCost, ClaimedRequests)
  BY <1>4, <1>5, SumDependsOnTerms
<1>9. funds' = Total(ClaimedCost, ClaimedRequests)' + lost'
  <2>1. /\ Total(ClaimedCost, ClaimedRequests) \in Nat
        /\ Cost[FingerprintOf[t]] \in Nat
    BY <1>1, <1>5, ClaimedCostType, SumTakesOut, BillingAssumption
  <2>2. Total(ClaimedCost, ClaimedRequests)'
          = Total(ClaimedCost, ClaimedRequests) + Cost[FingerprintOf[t]]
    BY <1>3, <1>4, <1>7, <1>8
  <2> QED BY <1>1, <1>5, <2>1, <2>2
<1>10. CopiesAgree'
  BY <1>1 DEF BooksInv, CopiesAgree, TypeOK
<1> QED BY <1>5, <1>9, <1>10 DEF BooksInv

\* The delete takes the unarchived requests of its batch from the claims and
\* adds their cost to what is lost.
LEMMA BooksDelete ==
    ASSUME BooksInv, BillingInv', NEW j \in Jobs, DeleteBatch(j)
    PROVE  BooksInv'
<1> DEFINE gone == Batch(expired[j])
           open == {r \in gone : archive[r] = None}
<1>1. /\ TypeOK /\ OldIsClaimed /\ CopiesAgree /\ archive' = archive /\ funds' = funds
      /\ \A r \in Requests : dedup'[r] = IF r \in gone THEN None ELSE dedup[r]
      /\ lost' = lost + Total(ClaimedCost, open) /\ lost \in Nat
  BY DEF BooksInv, BillingInv, DeleteBatch, Victims, TypeOK, books
<1>2. gone \subseteq expired[j] /\ gone \subseteq Requests /\ open \subseteq expired[j]
      /\ \A r \in gone : dedup[r] # None
  BY <1>1 DEF OldIsClaimed, Batch, TypeOK
<1>3. open \subseteq ClaimedRequests /\ Total(ClaimedCost, open) \in Nat
  BY <1>1, <1>2, LostType
<1> HIDE DEF gone
<1>4. /\ \A r \in open : ClaimedWith(r)' = None
      /\ \A r \in Requests \ open : ClaimedWith(r)' = ClaimedWith(r)
  BY <1>1, <1>2 DEF ClaimedWith, CopiesAgree
<1> HIDE DEF open
<1>5. ClaimedRequests' = ClaimedRequests \ open /\ ClaimedRequests \subseteq Requests
  BY <1>3, <1>4 DEF ClaimedRequests
<1>6. \A r \in ClaimedRequests \ open : ClaimedCost'[r] = ClaimedCost[r]
  <2>1. /\ ClaimedCost = [s \in ClaimedRequests |-> Cost[ClaimedWith(s)]]
        /\ ClaimedCost' = [s \in ClaimedRequests' |-> Cost[ClaimedWith(s)']]
    BY DEF ClaimedCost
  <2> QED BY <1>4, <1>5, <2>1
<1>7. /\ IsFiniteSet(ClaimedRequests) /\ IsFiniteSet(ClaimedRequests \ open)
      /\ funds = Total(ClaimedCost, ClaimedRequests) + lost
  BY FS_Subset DEF BooksInv
<1>8. /\ Total(ClaimedCost, ClaimedRequests)
           = Total(ClaimedCost, ClaimedRequests \ open) + Total(ClaimedCost, open)
      /\ Total(ClaimedCost, ClaimedRequests \ open) \in Nat
  BY <1>1, <1>3, <1>7, ClaimedCostType, SumSplits, SumTakesOut
<1>9. Total(ClaimedCost', ClaimedRequests \ open) = Total(ClaimedCost, ClaimedRequests \ open)
  BY <1>6, <1>7, SumDependsOnTerms
<1>10. funds' = Total(ClaimedCost, ClaimedRequests)' + lost'
  BY <1>1, <1>3, <1>5, <1>7, <1>8, <1>9
<1>11. CopiesAgree'
  BY <1>1 DEF CopiesAgree
<1> QED BY <1>5, <1>7, <1>10, <1>11 DEF BooksInv

\* Every step keeps the books: only a commit and a delete change them.
LEMMA BooksStep ==
    ASSUME BooksInv, [Next]_vars
    PROVE  BooksInv'
<1>0. TypeOK /\ BillingInv /\ BillingInv' /\ CopiesAgree /\ OldIsClaimed
  BY BillingStep DEF BooksInv, BillingInv
<1>1. ASSUME NEW t \in Tasks, Commit(t) PROVE BooksInv'
  BY <1>0, <1>1, BooksCommit
<1>2. ASSUME UNCHANGED <<dedup, archive, funds, lost>> PROVE BooksInv'
  BY <1>0, <1>2, BooksUnchanged DEF CopiesAgree, ClaimedWith
<1>3. ASSUME NEW j \in Jobs, ArchiveBatch(j) PROVE BooksInv'
  <2>1. /\ dedup' = dedup /\ funds' = funds /\ lost' = lost
        /\ \A r \in Requests : archive'[r] = IF r \in Batch(expired[j]) /\ archive[r] = None
                                              THEN dedup[r] ELSE archive[r]
    BY <1>3 DEF ArchiveBatch, books
  <2>2. \A r \in Batch(expired[j]) : dedup[r] # None
    BY <1>0 DEF OldIsClaimed, Batch
  <2> QED BY <1>0, <2>1, <2>2, BooksUnchanged DEF CopiesAgree, ClaimedWith
<1>4. ASSUME NEW j \in Jobs, DeleteBatch(j) PROVE BooksInv'
  BY <1>0, <1>4, BooksDelete
<1>5. ASSUME NEW t \in Tasks, Submit(t) \/ Fail(t) \/ ClaimKey(t) \/ CheckArchive(t)
             \/ DeductBalance(t) \/ ReadKey(t) \/ UpdateKey(t) \/ UpdateAccount(t)
      PROVE  BooksInv'
  BY <1>2, <1>5 DEF Submit, Fail, ClaimKey, CheckArchive, DeductBalance, ReadKey,
     UpdateKey, UpdateAccount, claims, jobs, books
<1>6. CASE Dequeue \/ Stop \/ \E r \in Requests : Age(r)
  BY <1>2, <1>6 DEF Dequeue, Stop, Age, claims, jobs, books
<1>7. CASE \E j \in Jobs : StartCleanup(j) \/ CleanupFails(j)
  BY <1>2, <1>7 DEF StartCleanup, CleanupFails, claims, books
<1>8. CASE UNCHANGED vars
  BY <1>2, <1>8 DEF vars, claims, jobs, books
<1> QED BY <1>1, <1>3, <1>4, <1>5, <1>6, <1>7, <1>8 DEF Next, Apply

\* At first nothing is claimed or charged.
LEMMA BooksInit == Init => BooksInv
<1> SUFFICES ASSUME Init PROVE BooksInv
  OBVIOUS
<1>1. \A r \in Requests : ClaimedWith(r) = None
  BY DEF Init, ClaimedWith
<1>2. ClaimedRequests = {}
  BY <1>1 DEF ClaimedRequests
<1>3. IsFiniteSet(ClaimedRequests) /\ Total(ClaimedCost, ClaimedRequests) = 0
  BY <1>2, FS_EmptySet, SumStep
<1>4. CopiesAgree /\ funds = 0 /\ lost = 0
  BY DEF Init, CopiesAgree
<1> QED BY <1>3, <1>4, BillingInit DEF BooksInv

\* What user, key and account have been charged is, in every state, the sum of
\* the costs of the requests claimed in the dedup table or in the archive and
\* of those whose claim the retention jobs deleted unarchived: failed
\* statements and repetitions neither add to it nor take from it.
THEOREM BooksBalance == Spec => []BooksAgree
<1>1. BooksInv /\ [Next]_vars => BooksInv'
  BY BooksStep
<1>2. BooksInv => BooksAgree
  BY DEF BooksInv, BillingInv, ChargedAlike, BooksAgree, Total
<1> QED BY BooksInit, <1>1, <1>2, PTL DEF Spec

=============================================================================

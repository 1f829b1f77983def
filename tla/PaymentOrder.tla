---------------------------- MODULE PaymentOrder ----------------------------
(***************************************************************************)
(* One payment order of Sub2API, from its creation to the credit it buys:  *)
(* the webhook, the user's cancel and verify calls, the expiry sweep, the  *)
(* WeChat reconciliation and the administrator's retry, all running as     *)
(* concurrent request handlers over one row of payment_orders             *)
(* (service/payment_order.go, payment_order_lifecycle.go,                  *)
(* payment_fulfillment.go).                                                *)
(*                                                                         *)
(* A handler is a worker with a program counter.  One step is one          *)
(* statement on the database or one call of the payment provider: between  *)
(* two of them every other handler may run, and a statement may fail.      *)
(* Every ent update of the row also sets updated_at (UpdateDefault).       *)
(***************************************************************************)
EXTENDS Integers, FiniteSets

CONSTANTS
    Workers,      \* request handlers and background sweeps
    OrderType,    \* "balance" or "subscription"
    PayAmount,    \* what the order asks the provider to collect
    Amounts,      \* what a payer may end up paying
    Tolerance,    \* paymentAmountToleranceForCurrency
    Timeout,      \* order_timeout: creation to expires_at
    Grace,        \* paymentGraceMinutes
    MaxTime,      \* bound on the clock
    Cancelable,   \* does the provider implement CancelableProvider
    Faults,       \* the kinds of failure that may happen
    MaxFaults     \* how many of them

(* "db": a statement of a handler fails; "read": the reads with which a    *)
(* confirmation starts fail; "mark": the update of markFailed fails;       *)
(* "audit": a row of the audit log is not written or not read;             *)
(* "reread": the read after a committed grant fails; "query": the provider *)
(* cannot be asked; "provider": CreatePayment fails; "crash": the process  *)
(* dies; and in refunds "gateway": the provider refuses; "ambiguous": it   *)
(* refunds and the answer is lost; "rollback": the deduction cannot be     *)
(* given back.                                                             *)
FaultKinds == {"db", "read", "mark", "audit", "reread", "query", "provider", "crash",
               "gateway", "ambiguous", "rollback"}

ASSUME OrderTypeAssumption == OrderType \in {"balance", "subscription"}
ASSUME AmountAssumption ==
    /\ PayAmount \in Nat \ {0}
    /\ Amounts \subseteq Nat
    /\ Tolerance \in Nat
ASSUME TimeAssumption ==
    Timeout \in Nat /\ Grace \in Nat /\ MaxTime \in Nat
ASSUME FaultAssumption ==
    Cancelable \in BOOLEAN /\ Faults \subseteq FaultKinds /\ MaxFaults \in Nat

VARIABLES
    status,      \* the status column; "NONE" before the row exists
    paidAt,      \* paid_at is set
    tradeNo,     \* "none", "create": what CreatePayment returned, "upstream": the final one
    updatedAt, expiresAt,
    code,        \* the redeem code PAY-<id>: "none", "unused", "used"
    credited,    \* how often the user got what the order sells
    rebates,     \* how often the inviter got the affiliate rebate
    audit,       \* the audit actions that later steps look up
    upstream,    \* the provider's payment: "none", "created", "open", "paid", "closed"
    paidAmt,     \* what was paid there
    acked,       \* a webhook delivery was answered with 2xx
    now,
    pc, job,     \* where each worker is, and in which handler
    seen,        \* the trade number a handler has in hand: notificationTradeNo
    faults       \* failures left

order    == <<status, paidAt, tradeNo, updatedAt, expiresAt>>
goods    == <<code, credited, rebates, audit>>
provider == <<upstream, paidAmt>>
control  == <<pc, job, seen, acked>>
vars     == <<order, goods, provider, control, now, faults>>

Statuses == {"NONE", "PENDING", "PAID", "RECHARGING", "COMPLETED", "FAILED",
             "CANCELLED", "EXPIRED", "REFUND_REQUESTED", "REFUNDING",
             "REFUNDED", "PARTIALLY_REFUNDED", "REFUND_FAILED"}
Jobs     == {"none", "create", "webhook", "verify", "cancel", "expire", "retry"}
Labels   == {"idle", "invoke", "saveTrade", "createFail", "query", "persist",
             "closeUpstream", "cancel", "confirm", "already", "retryReset",
             "fulfil", "lock", "lookup", "createCode", "redeem", "group",
             "assign", "auditAssigned", "rebate", "complete", "markFailed"}
\* The steps a worker takes between locking the order in RECHARGING and
\* leaving that status again.
Fulfilling == {"lookup", "createCode", "redeem", "group", "assign",
               "auditAssigned", "rebate", "complete", "markFailed"}
AuditActions == {"SUBSCRIPTION_ASSIGNED", "SUBSCRIPTION_SUCCESS",
                 "AFFILIATE_REBATE", "REFUND_ROLLBACK_FAILED", "REFUND_NO_TRADE_NO"}

TypeOK ==
    /\ status \in Statuses /\ paidAt \in BOOLEAN
    /\ tradeNo \in {"none", "create", "upstream"}
    /\ updatedAt \in Nat /\ expiresAt \in Nat /\ now \in Nat
    /\ code \in {"none", "unused", "used"} /\ credited \in Nat /\ rebates \in Nat
    /\ audit \subseteq AuditActions
    /\ upstream \in {"none", "created", "open", "paid", "closed"}
    /\ paidAmt \in Nat /\ acked \in BOOLEAN
    /\ pc \in [Workers -> Labels] /\ job \in [Workers -> Jobs]
    /\ seen \in [Workers -> {"none", "create", "upstream"}]
    /\ faults \in Nat

Init ==
    /\ status = "NONE" /\ paidAt = FALSE /\ tradeNo = "none"
    /\ updatedAt = 0 /\ expiresAt = 0 /\ now = 0
    /\ code = "none" /\ credited = 0 /\ rebates = 0 /\ audit = {}
    /\ upstream = "none" /\ paidAmt = 0 /\ acked = FALSE
    /\ pc = [w \in Workers |-> "idle"] /\ job = [w \in Workers |-> "none"]
    /\ seen = [w \in Workers |-> "none"]
    /\ faults = MaxFaults

-----------------------------------------------------------------------------
(* Control flow of a handler, and the faults of its environment.           *)

Fine       == UNCHANGED faults
Fault(k)   == k \in Faults /\ faults > 0 /\ faults' = faults - 1

At(w, l) == pc[w] = l

\* The trade number in hand is of use up to the confirmation only.
Goto(w, l) ==
    /\ pc' = [pc EXCEPT ![w] = l]
    /\ seen' = IF l = "confirm" THEN seen ELSE [seen EXCEPT ![w] = "none"]
    /\ UNCHANGED <<job, acked>>

\* A handler starts, with the trade number t of the order it has read, or of
\* the notification it was called with.
Start(w, j, l, t) ==
    /\ pc[w] = "idle"
    /\ pc' = [pc EXCEPT ![w] = l] /\ job' = [job EXCEPT ![w] = j]
    /\ seen' = [seen EXCEPT ![w] = t]
    /\ UNCHANGED acked

\* A handler returns, with or without an error: the webhook handler answers
\* 2xx, which ends the provider's deliveries, exactly when there was none.
Return(w, ok) ==
    /\ pc' = [pc EXCEPT ![w] = "idle"] /\ job' = [job EXCEPT ![w] = "none"]
    /\ seen' = [seen EXCEPT ![w] = "none"]
    /\ acked' = IF ok /\ job[w] = "webhook" THEN TRUE ELSE acked

SetStatus(s) == status' = s /\ updatedAt' = now

-----------------------------------------------------------------------------
(* Creating the order.                                                     *)

\* createOrderInTx: the row and its recharge code in one transaction.
CreateOrder(w) ==
    /\ status = "NONE"
    /\ Start(w, "create", "invoke", "none")
    /\ SetStatus("PENDING") /\ expiresAt' = now + Timeout
    /\ Fine /\ UNCHANGED <<paidAt, tradeNo, goods, provider, now>>

\* invokeProvider up to CreatePayment; an error does not say whether the
\* payment exists upstream.
InvokeProvider(w) ==
    /\ At(w, "invoke")
    /\ \/ upstream' = "created" /\ Goto(w, "saveTrade") /\ Fine
       \/ upstream' \in {upstream, "created"} /\ Goto(w, "createFail") /\ Fault("provider")
    /\ UNCHANGED <<order, goods, paidAmt, now>>

\* invokeProvider, the rest: store what CreatePayment returned and answer the
\* caller, who can pay from here on.
SaveTradeNo(w) ==
    /\ At(w, "saveTrade")
    /\ \/ /\ tradeNo' \in {tradeNo, "create", "upstream"}
          /\ updatedAt' = now
          /\ upstream' = IF upstream = "created" THEN "open" ELSE upstream
          /\ Return(w, TRUE) /\ Fine
       \/ /\ Fault("db") /\ Goto(w, "createFail")
          /\ UNCHANGED <<tradeNo, updatedAt, upstream>>
    /\ UNCHANGED <<status, paidAt, expiresAt, goods, paidAmt, now>>

\* CreateOrder after a failed invokeProvider: FAILED whatever the status is.
CreateFail(w) ==
    /\ At(w, "createFail")
    /\ \/ SetStatus("FAILED") /\ Fine
       \/ Fault("db") /\ UNCHANGED <<status, updatedAt>>
    /\ Return(w, FALSE)
    /\ UNCHANGED <<paidAt, tradeNo, expiresAt, goods, provider, now>>

-----------------------------------------------------------------------------
(* Cancel, expiry and reconciliation: checkPaid and what follows it.       *)

CancelOrder(w) ==
    /\ status = "PENDING"
    /\ Start(w, "cancel", "query", tradeNo)
    /\ Fine /\ UNCHANGED <<order, goods, provider, now>>

\* A faulty variant: only orders with a trade number are swept.
TimedOutWithTradeNo == status = "PENDING" /\ expiresAt <= now /\ tradeNo # "none"

\* The WHERE clause of the sweep's query.
TimedOut == status = "PENDING" /\ expiresAt <= now

ExpireTimedOutOrders(w) ==
    /\ TimedOut
    /\ Start(w, "expire", "query", tradeNo)
    /\ Fine /\ UNCHANGED <<order, goods, provider, now>>

\* VerifyOrderByOutTradeNo; ReconcilePendingWxpayOrders is the same call on
\* the pending orders that have not timed out.
VerifyOrder(w) ==
    /\ status \in {"PENDING", "EXPIRED"}
    /\ Start(w, "verify", "query", tradeNo)
    /\ Fine /\ UNCHANGED <<order, goods, provider, now>>

\* What checkPaid's empty result leads to: cancelCore goes on to cancel.
NotPaid(w) ==
    IF job[w] \in {"cancel", "expire"} THEN Goto(w, "cancel") ELSE Return(w, TRUE)

\* checkPaidWithOptions up to the answer of QueryOrder.  A payment reported
\* with an invalid amount, twice, counts as no answer ("query").  The answer
\* need not bring a trade number worth storing: it may be empty, or be the
\* reference the query was made with (paymentOrderShouldPersistUpstreamTradeNo).
CheckPaid(w) ==
    /\ At(w, "query")
    /\ \/ upstream = "paid" /\ Fine /\ Goto(w, "confirm")
       \/ upstream = "paid" /\ Fine /\ seen[w] # "upstream" /\ Goto(w, "persist")
       \/ /\ upstream # "paid" /\ Fine
          /\ IF job[w] \in {"cancel", "expire"} /\ Cancelable
             THEN Goto(w, "closeUpstream") ELSE NotPaid(w)
       \/ Fault("query") /\ NotPaid(w)
    /\ UNCHANGED <<order, goods, provider, now>>

\* The trade number of the answer goes into the row whatever its status; a
\* failure is logged only, and the number is handed on all the same.
PersistTradeNo(w) ==
    /\ At(w, "persist")
    /\ \/ tradeNo' = "upstream" /\ updatedAt' = now /\ Fine
       \/ Fault("db") /\ UNCHANGED <<tradeNo, updatedAt>>
    /\ pc' = [pc EXCEPT ![w] = "confirm"] /\ seen' = [seen EXCEPT ![w] = "upstream"]
    /\ UNCHANGED <<status, paidAt, expiresAt, job, acked, goods, provider, now>>

\* CancelPayment: its error is ignored, and a payment made meanwhile stands.
CloseUpstream(w) ==
    /\ At(w, "closeUpstream")
    /\ upstream' \in IF upstream \in {"created", "open"} THEN {upstream, "closed"}
                     ELSE {upstream}
    /\ Goto(w, "cancel")
    /\ Fine /\ UNCHANGED <<order, goods, paidAmt, now>>

\* A faulty variant: the WHERE clause of cancelCore is forgotten.
CancelAnyStatus == TRUE

\* The WHERE clause of cancelCore's update.
CancelWhere == status = "PENDING"

\* The finalStatus that CancelOrder and ExpireTimedOutOrders pass.
FinalStatus(w) == IF job[w] = "expire" THEN "EXPIRED" ELSE "CANCELLED"

\* The last statement of cancelCore.
CancelCore(w) ==
    /\ At(w, "cancel")
    /\ \/ /\ Fine
          /\ IF CancelWhere THEN SetStatus(FinalStatus(w))
             ELSE UNCHANGED <<status, updatedAt>>
       \/ Fault("db") /\ UNCHANGED <<status, updatedAt>>
    /\ Return(w, TRUE)
    /\ UNCHANGED <<paidAt, tradeNo, expiresAt, goods, provider, now>>

-----------------------------------------------------------------------------
(* Payment confirmed.                                                      *)

\* A verified notification of success, which carries the provider's trade
\* number; providers repeat and delay them.
Webhook(w) ==
    /\ upstream = "paid"
    /\ Start(w, "webhook", "confirm", "upstream")
    /\ Fine /\ UNCHANGED <<order, goods, provider, now>>

\* A faulty variant: only a missing amount is refused.
AnyAmountOk(a) == a > 0

\* The check of confirmPayment on the amount that was paid.
AmountOk(a) == a > 0 /\ a - PayAmount <= Tolerance /\ PayAmount - a <= Tolerance

\* The WHERE clause of toPaid.
Confirmable ==
    \/ status \in {"PENDING", "CANCELLED"}
    \/ status = "EXPIRED" /\ updatedAt >= now - Grace

\* confirmPayment and the conditional update of toPaid, which stores the trade
\* number it was handed, an empty one too.  A failed read of the
\* order (or, in the webhook handler, of its provider) is no error: a delivery
\* is then acknowledged with nothing recorded.
ConfirmPayment(w) ==
    /\ At(w, "confirm")
    /\ \/ /\ Fault("read") /\ Return(w, TRUE)
          /\ UNCHANGED <<status, updatedAt, paidAt, tradeNo>>
       \/ /\ ~AmountOk(paidAmt) /\ Fine /\ Return(w, FALSE)
          /\ UNCHANGED <<status, updatedAt, paidAt, tradeNo>>
       \/ /\ AmountOk(paidAmt) /\ Confirmable /\ Fine
          /\ SetStatus("PAID") /\ paidAt' = TRUE /\ tradeNo' = seen[w]
          /\ Goto(w, "fulfil")
       \/ /\ AmountOk(paidAmt) /\ ~Confirmable /\ Fine /\ Goto(w, "already")
          /\ UNCHANGED <<status, updatedAt, paidAt, tradeNo>>
       \/ /\ Fault("db") /\ Return(w, FALSE)
          /\ UNCHANGED <<status, updatedAt, paidAt, tradeNo>>
    /\ UNCHANGED <<expiresAt, goods, provider, now>>

\* alreadyProcessed: a failed fulfilment is taken up again, one in progress is
\* an error (so that the provider calls again), anything else is acknowledged.
AlreadyProcessed(w) ==
    /\ At(w, "already")
    /\ \/ status = "FAILED" /\ Goto(w, "fulfil") /\ Fine
       \/ /\ status # "FAILED" /\ Fine
          /\ Return(w, status \notin {"PAID", "RECHARGING"})
       \/ Fault("db") /\ Return(w, TRUE)
    /\ UNCHANGED <<order, goods, provider, now>>

\* RetryFulfillment: the checks on the order as read ...
RetryFulfillment(w) ==
    /\ paidAt /\ status \in {"FAILED", "PAID"}
    /\ Start(w, "retry", "retryReset", "none")
    /\ Fine /\ UNCHANGED <<order, goods, provider, now>>

\* A faulty variant: the reset is unconditional.
ResetAnyStatus == TRUE

\* The WHERE clause of the reset.
ResetWhere == status \in {"FAILED", "PAID"}

\* ... and the reset, whose row count is not looked at.
RetryReset(w) ==
    /\ At(w, "retryReset")
    /\ \/ /\ Fine /\ Goto(w, "fulfil")
          /\ IF ResetWhere THEN SetStatus("PAID")
             ELSE UNCHANGED <<status, updatedAt>>
       \/ Fault("db") /\ Return(w, FALSE) /\ UNCHANGED <<status, updatedAt>>
    /\ UNCHANGED <<paidAt, tradeNo, expiresAt, goods, provider, now>>

-----------------------------------------------------------------------------
(* Fulfilment.                                                             *)

\* Execute{Balance,Subscription}Fulfillment: the checks on the order as read.
ExecuteFulfillment(w) ==
    /\ At(w, "fulfil")
    /\ \/ /\ Fine
          /\ IF status \in {"PAID", "FAILED"} THEN Goto(w, "lock")
             ELSE Return(w, status = "COMPLETED")
       \/ Fault("db") /\ Return(w, FALSE)
    /\ UNCHANGED <<order, goods, provider, now>>

\* A faulty variant: the lock is taken whatever the status has become.
LockAnyStatus == TRUE

\* The WHERE clause of the update to RECHARGING.
LockWhere == status \in {"PAID", "FAILED"}

\* The conditional update to RECHARGING is the lock; losing it is no error.
LockOrder(w) ==
    /\ At(w, "lock")
    /\ \/ /\ LockWhere /\ Fine /\ SetStatus("RECHARGING")
          /\ Goto(w, IF OrderType = "balance" THEN "lookup" ELSE "group")
       \/ /\ ~LockWhere /\ Fine /\ Return(w, TRUE)
          /\ UNCHANGED <<status, updatedAt>>
       \/ Fault("db") /\ Return(w, FALSE) /\ UNCHANGED <<status, updatedAt>>
    /\ UNCHANGED <<paidAt, tradeNo, expiresAt, goods, provider, now>>

\* resolveRedeemAction: create, redeem, or skip to the rest.
RedeemAction ==
    IF code = "none" THEN "createCode"
    ELSE IF code = "unused" THEN "redeem" ELSE "rebate"

\* A failed lookup counts as "no code yet".
ResolveRedeemAction(w) ==
    /\ At(w, "lookup")
    /\ \/ Goto(w, RedeemAction) /\ Fine
       \/ Fault("db") /\ Goto(w, "createCode")
    /\ UNCHANGED <<order, goods, provider, now>>

\* CreateCode: the code is unique.
CreateCode(w) ==
    /\ At(w, "createCode")
    /\ \/ code = "none" /\ code' = "unused" /\ Goto(w, "redeem") /\ Fine
       \/ code # "none" /\ Goto(w, "markFailed") /\ Fine /\ UNCHANGED code
       \/ Fault("db") /\ Goto(w, "markFailed") /\ UNCHANGED code
    /\ UNCHANGED <<order, credited, rebates, audit, provider, now>>

\* Redeem: marking the code used and adding the balance are one transaction;
\* the read of the code after the commit can still fail.
Redeem(w) ==
    /\ At(w, "redeem")
    /\ \/ /\ code = "unused" /\ code' = "used" /\ credited' = credited + 1
          /\ \/ Goto(w, "rebate") /\ Fine
             \/ Goto(w, "markFailed") /\ Fault("reread")
       \/ /\ code # "unused" /\ Goto(w, "markFailed") /\ Fine
          /\ UNCHANGED <<code, credited>>
       \/ /\ Fault("db") /\ Goto(w, "markFailed")
          /\ UNCHANGED <<code, credited>>
    /\ UNCHANGED <<order, rebates, audit, provider, now>>

\* A faulty variant: only the record of the completion is looked up.
AlreadyCompleted == "SUBSCRIPTION_SUCCESS" \in audit

\* What doSub asks hasAuditLog.
AlreadyAssigned ==
    audit \cap {"SUBSCRIPTION_ASSIGNED", "SUBSCRIPTION_SUCCESS"} # {}

\* doSub: the group must be active, and a grant found in the audit log is not
\* repeated; hasAuditLog answers FALSE when its query fails.
CheckAssigned(w) ==
    /\ At(w, "group")
    /\ \/ /\ Fine
          /\ Goto(w, IF AlreadyAssigned THEN "rebate" ELSE "assign")
       \/ Fault("audit") /\ Goto(w, "assign")
       \/ Fault("db") /\ Goto(w, "markFailed")
    /\ UNCHANGED <<order, goods, provider, now>>

\* A faulty variant: the error of AssignOrExtendSubscription is dropped.
AssignErrorDropped(w) ==
    /\ At(w, "assign") /\ Goto(w, "auditAssigned")
    /\ \/ credited' = credited + 1 /\ Fine
       \/ Fault("db") /\ UNCHANGED credited
    /\ UNCHANGED <<order, code, rebates, audit, provider, now>>

\* AssignOrExtendSubscription: its final read can fail after the extension.
AssignSubscription(w) ==
    /\ At(w, "assign")
    /\ \/ /\ credited' = credited + 1
          /\ \/ Goto(w, "auditAssigned") /\ Fine
             \/ Goto(w, "markFailed") /\ Fault("reread")
       \/ Fault("db") /\ Goto(w, "markFailed") /\ UNCHANGED credited
    /\ UNCHANGED <<order, code, rebates, audit, provider, now>>

AuditAssigned(w) ==
    /\ At(w, "auditAssigned")
    /\ \/ audit' = audit \union {"SUBSCRIPTION_ASSIGNED"} /\ Fine
       \/ Fault("audit") /\ UNCHANGED audit
    /\ Goto(w, "rebate")
    /\ UNCHANGED <<order, code, credited, rebates, provider, now>>

\* A faulty variant: the rebate is accrued without looking at the claim.
RebateAlwaysClaimable == TRUE

\* tryClaimAffiliateRebateAudit inserts the claim.
RebateClaimable == "AFFILIATE_REBATE" \notin audit

\* applyAffiliateRebateForOrder: the claim in the audit log and the accrual
\* are one transaction.
ApplyRebate(w) ==
    /\ At(w, "rebate")
    /\ \/ /\ RebateClaimable
          /\ rebates' = rebates + 1 /\ audit' = audit \union {"AFFILIATE_REBATE"}
          /\ Goto(w, "complete") /\ Fine
       \/ /\ ~RebateClaimable /\ Goto(w, "complete") /\ Fine
          /\ UNCHANGED <<rebates, audit>>
       \/ /\ Fault("db") /\ Goto(w, "markFailed") /\ UNCHANGED <<rebates, audit>>
    /\ UNCHANGED <<order, code, credited, provider, now>>

\* markCompleted: conditional on RECHARGING, its row count not looked at.
MarkCompleted(w) ==
    /\ At(w, "complete")
    /\ \/ /\ IF status = "RECHARGING" THEN SetStatus("COMPLETED")
             ELSE UNCHANGED <<status, updatedAt>>
          /\ audit' = IF OrderType = "subscription"
                      THEN audit \union {"SUBSCRIPTION_SUCCESS"} ELSE audit
          /\ Return(w, TRUE) /\ Fine
       \/ /\ Fault("db") /\ Goto(w, "markFailed")
          /\ UNCHANGED <<status, updatedAt, audit>>
    /\ UNCHANGED <<paidAt, tradeNo, expiresAt, code, credited, rebates, provider, now>>

\* markFailed: conditional on RECHARGING; its own failure is logged only.
MarkFailed(w) ==
    /\ At(w, "markFailed")
    /\ \/ /\ Fine
          /\ IF status = "RECHARGING" THEN SetStatus("FAILED")
             ELSE UNCHANGED <<status, updatedAt>>
       \/ Fault("mark") /\ UNCHANGED <<status, updatedAt>>
    /\ Return(w, FALSE)
    /\ UNCHANGED <<paidAt, tradeNo, expiresAt, goods, provider, now>>

-----------------------------------------------------------------------------
(* The environment.                                                        *)

\* The payer pays: only a payment whose link was handed out.
PayUpstream(a) ==
    /\ upstream = "open"
    /\ upstream' = "paid" /\ paidAmt' = a
    /\ Fine /\ UNCHANGED <<order, goods, control, now>>

\* The clock starts with the order.
Tick ==
    /\ status # "NONE" /\ now < MaxTime /\ now' = now + 1
    /\ Fine /\ UNCHANGED <<order, goods, provider, control>>

Crash(w) ==
    /\ pc[w] # "idle" /\ Fault("crash") /\ Return(w, FALSE)
    /\ UNCHANGED <<order, goods, provider, now>>

-----------------------------------------------------------------------------
\* The handlers' entry points ...
Enter(w) ==
    \/ CreateOrder(w) \/ CancelOrder(w) \/ ExpireTimedOutOrders(w)
    \/ VerifyOrder(w) \/ Webhook(w) \/ RetryFulfillment(w)

\* ... and the rest of their steps.
Step(w) ==
    \/ InvokeProvider(w) \/ SaveTradeNo(w) \/ CreateFail(w)
    \/ CheckPaid(w) \/ PersistTradeNo(w) \/ CloseUpstream(w) \/ CancelCore(w)
    \/ ConfirmPayment(w) \/ AlreadyProcessed(w) \/ RetryReset(w)
    \/ ExecuteFulfillment(w) \/ LockOrder(w)
    \/ ResolveRedeemAction(w) \/ CreateCode(w) \/ Redeem(w)
    \/ CheckAssigned(w) \/ AssignSubscription(w) \/ AuditAssigned(w)
    \/ ApplyRebate(w) \/ MarkCompleted(w) \/ MarkFailed(w)

OrderNext ==
    \/ \E w \in Workers : Enter(w) \/ Step(w) \/ Crash(w)
    \/ \E a \in Amounts : PayUpstream(a)
    \/ Tick

Spec == Init /\ [][OrderNext]_vars

-----------------------------------------------------------------------------
(* What the order promises.                                                *)

\* The phase of the ledger an order is in.
Phase ==
    IF ~paidAt THEN "unpaid"
    ELSE IF status \in {"REFUNDED", "PARTIALLY_REFUNDED"} THEN "refunded"
    ELSE IF status = "REFUNDING" THEN "refunding"
    ELSE IF status \in {"COMPLETED", "REFUND_REQUESTED", "REFUND_FAILED"} THEN "done"
    ELSE "paid"

Ledger == INSTANCE PaymentLedger WITH phase <- Phase, granted <- credited

\* Whatever the handlers, the provider and the failures do, the order behaves
\* as the ledger: paid once, granted once and only when paid, completed only
\* when granted.
ImplementsLedger == Ledger!LedgerSpec

\* An order is credited at most once, however often the provider notifies, an
\* administrator retries, a statement fails or a process dies between two steps
\* of doBalance, and where the grant is known, of doSub.
CreditedAtMostOnce == credited <= 1

\* Nothing is granted that was not paid: a credit follows a payment of the
\* right amount at the provider, recorded in the order (confirmPayment).
CreditNeedsPayment ==
    credited > 0 =>
        /\ upstream = "paid" /\ paidAt
        /\ paidAmt > 0 /\ paidAmt \in PayAmount - Tolerance .. PayAmount + Tolerance

\* A completed order has been credited and its rebate settled: markCompleted
\* is never reached around the grant.
CompletedIsCredited ==
    status = "COMPLETED" => credited >= 1 /\ rebates = 1

\* RECHARGING is a lock: the handlers between LockOrder and the end of the
\* fulfilment are at most one, also after crashes, and it holds the status.
FulfilmentExclusive ==
    \A w \in Workers : pc[w] \in Fulfilling =>
        /\ status = "RECHARGING"
        /\ \A v \in Workers : pc[v] \in Fulfilling => v = w

\* The inviter's rebate is accrued at most once per order and only for an
\* order that was credited (applyAffiliateRebateForOrder).
RebateAtMostOnce == rebates <= 1 /\ (rebates > 0 => credited > 0)

\* A paid order is never taken back to an unpaid status by a late cancel,
\* expiry sweep or failed creation, and a completed one is never reopened.
PaidStaysPaid ==
    [][/\ paidAt => paidAt' /\ status' \notin {"NONE", "PENDING", "CANCELLED", "EXPIRED"}
       /\ status = "COMPLETED" => status' = "COMPLETED"]_vars

-----------------------------------------------------------------------------
(* Fairness: net/http runs every request to its end, so a worker that is   *)
(* not idle goes on; the provider repeats its notification until it is     *)
(* acknowledged; the expiry service sweeps every interval; and an          *)
(* administrator retries what can be retried.  Each of them starts its own *)
(* goroutine: strong fairness only because the workers of the model are a  *)
(* fixed pool, and may all be busy now and then.                           *)

Fairness ==
    /\ \A w \in Workers : WF_vars(Step(w))
    /\ WF_vars(Tick)
    /\ SF_vars(~acked /\ \E w \in Workers : Webhook(w))
    /\ SF_vars(\E w \in Workers : ExpireTimedOutOrders(w))
    /\ SF_vars(\E w \in Workers : RetryFulfillment(w))

FairSpec == Spec /\ Fairness

PaidInFull == upstream = "paid" /\ AmountOk(paidAmt)

\* A payment leads to a completed order, unless its notification was
\* acknowledged while the order was cancelled or expired: no mix of cancels,
\* sweeps, retries, failed statements and notifications acknowledged without
\* effect leaves an order pending, paid or failed for ever.  What leaves one
\* RECHARGING for ever is not among the run's faults: a process that dies
\* there, and a failed update of markFailed.
PaymentSettles ==
    PaidInFull ~> \/ status = "COMPLETED"
                  \/ acked /\ status \in {"CANCELLED", "EXPIRED"}

=============================================================================

---------------------------- MODULE PaymentRefund ----------------------------
(***************************************************************************)
(* Refunds of a payment order (service/payment_refund.go), composed with   *)
(* the order of PaymentOrder: the user's request and the administrator's   *)
(* PrepareRefund / ExecuteRefund run as further handlers over the same     *)
(* row, next to late notifications, retries and the user's own spending.   *)
(*                                                                         *)
(* What the refund takes back is the user's balance for a balance order    *)
(* and days of the subscription for a subscription order; both are the     *)
(* number Holding below.                                                   *)
(***************************************************************************)
EXTENDS PaymentOrder

CONSTANTS
    Refunders,       \* handlers of refund calls
    Amount,          \* what the order credits: money, or days
    RefundAmounts,   \* the amounts an administrator asks for
    Opening,         \* what the user held before the order
    MaxSpend         \* bound on what the user uses up

ASSUME RefundAssumption ==
    /\ Amount \in Nat \ {0} /\ RefundAmounts \subseteq 1 .. Amount
    /\ Opening \in Nat /\ MaxSpend \in Nat

VARIABLES
    rpc,          \* where each refund handler is
    plan,         \* its RefundPlan
    deducted,     \* taken from the user for refunds, less what was given back
    revoked,      \* the subscription was deleted
    gwRefunded,   \* what the provider has paid back
    spent         \* what the user has used up

refundVars == <<rpc, plan, deducted, revoked, gwRefunded, spent>>
allVars    == <<vars, refundVars>>
rest       == <<paidAt, tradeNo, expiresAt, code, credited, rebates, provider,
                control, now>>

\* The user's balance, or the days left of the subscription.
Holding == IF revoked THEN 0 ELSE Opening + credited * Amount - deducted - spent

Min2(a, b) == IF a < b THEN a ELSE b

\* A faulty variant: an order that is paid but not delivered is refundable.
RefundableWhenPaid == {"PAID", "COMPLETED", "REFUND_REQUESTED", "REFUND_FAILED"}

\* The statuses PrepareRefund and ExecuteRefund accept.
Refundable == {"COMPLETED", "REFUND_REQUESTED", "REFUND_FAILED"}

RefundLabels == {"idle", "request", "lock", "deduct", "gateway", "rollback",
                 "auditRollback", "refundFailed", "restore", "markOk"}
\* The steps between locking the order in REFUNDING and leaving that status.
Refunding == RefundLabels \ {"idle", "request", "lock"}

\* RefundPlan: the refund asked for, what to take from the user, the status
\* and whether there is a trade number in the order as read.
NoPlan == [amount |-> 0, take |-> 0, from |-> "NONE", trade |-> FALSE]
Plans  == [amount : RefundAmounts \union {0}, take : 0 .. Amount,
           from : Refundable \union {"NONE"}, trade : BOOLEAN]

RefundTypeOK ==
    /\ TypeOK
    /\ rpc \in [Refunders -> RefundLabels] /\ plan \in [Refunders -> Plans]
    /\ deducted \in Int /\ revoked \in BOOLEAN /\ gwRefunded \in Nat /\ spent \in Nat

RefundInit ==
    /\ Init
    /\ rpc = [r \in Refunders |-> "idle"] /\ plan = [r \in Refunders |-> NoPlan]
    /\ deducted = 0 /\ revoked = FALSE /\ gwRefunded = 0 /\ spent = 0

RAt(r, l)   == rpc[r] = l
RGoto(r, l) == rpc' = [rpc EXCEPT ![r] = l] /\ UNCHANGED plan
RReturn(r)  == rpc' = [rpc EXCEPT ![r] = "idle"] /\ plan' = [plan EXCEPT ![r] = NoPlan]

-----------------------------------------------------------------------------
(* The user's request.                                                     *)

\* validateRefundRequest and the look at the balance.
RequestRefund(r) ==
    /\ RAt(r, "idle")
    /\ OrderType = "balance" /\ status = "COMPLETED" /\ Holding >= Amount
    /\ RGoto(r, "request")
    /\ Fine /\ UNCHANGED <<status, updatedAt, audit, deducted, revoked, gwRefunded, spent, rest>>

\* The update, conditional on COMPLETED.
MarkRequested(r) ==
    /\ RAt(r, "request")
    /\ \/ status = "COMPLETED" /\ SetStatus("REFUND_REQUESTED") /\ Fine
       \/ status # "COMPLETED" /\ Fine /\ UNCHANGED <<status, updatedAt>>
       \/ Fault("db") /\ UNCHANGED <<status, updatedAt>>
    /\ RReturn(r)
    /\ UNCHANGED <<audit, deducted, revoked, gwRefunded, spent, rest>>

-----------------------------------------------------------------------------
(* The administrator's refund.                                             *)

\* prepDeduct: at most the balance of this moment; a subscription gives all
\* its days if it is found active, and nothing under force if it is not.
Takes(amt, deduct, force) ==
    CASE ~deduct                               -> {0}
      [] deduct /\ OrderType = "balance"       ->
            {IF Holding > 0 THEN Min2(amt, Holding) ELSE 0}
      [] deduct /\ OrderType = "subscription"  ->
            IF Holding > 0 THEN {Amount} ELSE IF force THEN {0} ELSE {}

PrepareRefund(r, amt, deduct, force) ==
    /\ RAt(r, "idle") /\ status \in Refundable
    /\ \E t \in Takes(amt, deduct, force) :
          plan' = [plan EXCEPT ![r] = [amount |-> amt, take |-> t, from |-> status,
                                       trade |-> tradeNo # "none"]]
    /\ rpc' = [rpc EXCEPT ![r] = "lock"]
    /\ Fine /\ UNCHANGED <<status, updatedAt, audit, deducted, revoked, gwRefunded, spent, rest>>

\* A faulty variant: the update to REFUNDING is unconditional.
LockRefundAnyStatus == TRUE

\* The WHERE clause of the update to REFUNDING.
LockRefundWhere == status \in Refundable

\* ExecuteRefund: the conditional update to REFUNDING is the lock.
LockRefund(r) ==
    /\ RAt(r, "lock")
    /\ \/ LockRefundWhere /\ SetStatus("REFUNDING") /\ RGoto(r, "deduct") /\ Fine
       \/ ~LockRefundWhere /\ RReturn(r) /\ Fine /\ UNCHANGED <<status, updatedAt>>
       \/ Fault("db") /\ RReturn(r) /\ UNCHANGED <<status, updatedAt>>
    /\ UNCHANGED <<audit, deducted, revoked, gwRefunded, spent, rest>>

\* A faulty variant: a retry does not look for an earlier deduction.
NeverDeductedBefore == FALSE

\* hasAuditLog: an earlier attempt could not give its deduction back.
DeductedBefore == "REFUND_ROLLBACK_FAILED" \in audit

\* Such a deduction is not repeated.
SkipDeduction(r) ==
    /\ DeductedBefore
    /\ plan' = [plan EXCEPT ![r].take = 0]
    /\ rpc' = [rpc EXCEPT ![r] = "gateway"]
    /\ UNCHANGED <<deducted, revoked>>

\* DeductBalance, or ExtendSubscription by minus the days, which revokes a
\* subscription that would not outlive it and refuses an expired one.
TakeBack(r) ==
    \/ /\ OrderType = "balance" \/ Holding > plan[r].take
       /\ deducted' = deducted + plan[r].take /\ RGoto(r, "gateway") /\ UNCHANGED revoked
    \/ /\ OrderType = "subscription" /\ ~revoked
       /\ 0 < Holding /\ Holding <= plan[r].take
       /\ revoked' = TRUE /\ RGoto(r, "gateway") /\ UNCHANGED deducted
    \/ /\ OrderType = "subscription" /\ Holding <= 0
       /\ RGoto(r, "restore") /\ UNCHANGED <<deducted, revoked>>

Deduct(r) ==
    /\ RAt(r, "deduct")
    /\ \/ plan[r].take = 0 /\ Fine /\ RGoto(r, "gateway") /\ UNCHANGED <<deducted, revoked>>
       \/ plan[r].take > 0 /\ Fine /\ SkipDeduction(r)
       \/ plan[r].take > 0 /\ Fine /\ ~DeductedBefore /\ TakeBack(r)
       \/ plan[r].take > 0 /\ Fault("audit") /\ TakeBack(r)
       \/ plan[r].take > 0 /\ Fault("db") /\ RGoto(r, "restore") /\ UNCHANGED <<deducted, revoked>>
    /\ UNCHANGED <<status, updatedAt, audit, gwRefunded, spent, rest>>

\* calculateGatewayRefundAmount.
GatewayAmount(amt) == IF amt = Amount THEN paidAmt ELSE (paidAmt * amt) \div Amount

\* A faulty variant: the error of the provider is dropped.
GatewayErrorDropped(r) ==
    /\ RAt(r, "gateway") /\ RGoto(r, "markOk")
    /\ \/ gwRefunded' = gwRefunded + GatewayAmount(plan[r].amount) /\ Fine
       \/ Fault("gateway") /\ UNCHANGED gwRefunded
    /\ UNCHANGED <<status, updatedAt, audit, deducted, revoked, spent, rest>>

\* gwRefund: the provider pays back no more than it received; "pending" counts
\* as success.  An order without a trade number is refunded without asking the
\* provider, which only the audit log says.
GatewayRefund(r) ==
    /\ RAt(r, "gateway")
    /\ LET ga   == GatewayAmount(plan[r].amount)
           fits == gwRefunded + ga <= paidAmt
       IN \/ /\ ~plan[r].trade /\ RGoto(r, "markOk") /\ UNCHANGED gwRefunded
             /\ \/ Fine /\ audit' = audit \union {"REFUND_NO_TRADE_NO"}
                \/ Fault("audit") /\ UNCHANGED audit
          \/ /\ plan[r].trade /\ fits /\ gwRefunded' = gwRefunded + ga
             /\ \/ Fine /\ RGoto(r, "markOk")
                \/ Fault("ambiguous") /\ RGoto(r, "rollback")
             /\ UNCHANGED audit
          \/ /\ plan[r].trade /\ ~fits /\ Fine /\ RGoto(r, "rollback")
             /\ UNCHANGED <<gwRefunded, audit>>
          \/ /\ plan[r].trade /\ Fault("gateway") /\ RGoto(r, "rollback")
             /\ UNCHANGED <<gwRefunded, audit>>
    /\ UNCHANGED <<status, updatedAt, deducted, revoked, spent, rest>>

\* A faulty variant: the deduction is not given back.
RollbackForgotten(r) ==
    /\ RAt(r, "rollback") /\ RGoto(r, "restore") /\ Fine
    /\ UNCHANGED <<status, updatedAt, audit, deducted, revoked, gwRefunded, spent, rest>>

\* RollbackRefund: a revoked subscription cannot be extended again.
RollbackRefund(r) ==
    /\ RAt(r, "rollback")
    /\ \/ plan[r].take = 0 /\ Fine /\ RGoto(r, "restore") /\ UNCHANGED deducted
       \/ /\ plan[r].take > 0 /\ ~revoked /\ Fine /\ RGoto(r, "restore")
          /\ deducted' = deducted - plan[r].take
       \/ plan[r].take > 0 /\ revoked /\ Fine /\ RGoto(r, "auditRollback") /\ UNCHANGED deducted
       \/ plan[r].take > 0 /\ Fault("rollback") /\ RGoto(r, "auditRollback") /\ UNCHANGED deducted
    /\ UNCHANGED <<status, updatedAt, audit, revoked, gwRefunded, spent, rest>>

AuditRollback(r) ==
    /\ RAt(r, "auditRollback")
    /\ \/ audit' = audit \union {"REFUND_ROLLBACK_FAILED"} /\ Fine
       \/ Fault("audit") /\ UNCHANGED audit
    /\ RGoto(r, "refundFailed")
    /\ UNCHANGED <<status, updatedAt, deducted, revoked, gwRefunded, spent, rest>>

\* handleGwFail, restoreStatus and markRefundOk: the update that ends
\* REFUNDING is unconditional, and its failure leaves the order there.
Finally(r, l, s) ==
    /\ RAt(r, l)
    /\ \/ SetStatus(s) /\ Fine
       \/ Fault("db") /\ UNCHANGED <<status, updatedAt>>
    /\ RReturn(r)
    /\ UNCHANGED <<audit, deducted, revoked, gwRefunded, spent, rest>>

MarkRefundFailed(r) == Finally(r, "refundFailed", "REFUND_FAILED")
RestoreStatus(r)    == Finally(r, "restore",
    IF plan[r].from = "REFUND_REQUESTED" THEN "REFUND_REQUESTED" ELSE "COMPLETED")
MarkRefundOk(r)     == Finally(r, "markOk",
    IF plan[r].amount < Amount THEN "PARTIALLY_REFUNDED" ELSE "REFUNDED")

-----------------------------------------------------------------------------
RefundCrash(r) ==
    /\ rpc[r] # "idle" /\ Fault("crash") /\ RReturn(r)
    /\ UNCHANGED <<status, updatedAt, audit, deducted, revoked, gwRefunded, spent, rest>>

\* The user's requests use up the balance (below zero if need be), the
\* calendar the days.
Spend ==
    /\ spent < MaxSpend /\ Holding > 0 /\ spent' = spent + 1
    /\ Fine /\ UNCHANGED <<status, updatedAt, audit, rpc, plan, deducted, revoked, gwRefunded, rest>>

RefundStep(r) ==
    \/ RequestRefund(r) \/ MarkRequested(r)
    \/ \E amt \in RefundAmounts, deduct, force \in BOOLEAN : PrepareRefund(r, amt, deduct, force)
    \/ LockRefund(r) \/ Deduct(r) \/ GatewayRefund(r)
    \/ RollbackRefund(r) \/ AuditRollback(r)
    \/ MarkRefundFailed(r) \/ RestoreStatus(r) \/ MarkRefundOk(r)

RefundNext ==
    \/ OrderNext /\ UNCHANGED refundVars
    \/ \E r \in Refunders : RefundStep(r) \/ RefundCrash(r)
    \/ Spend

RefundSpec == RefundInit /\ [][RefundNext]_allVars

-----------------------------------------------------------------------------
(* What refunds promise.                                                   *)

RefundStatuses == {"REFUND_REQUESTED", "REFUNDING", "REFUNDED",
                   "PARTIALLY_REFUNDED", "REFUND_FAILED"}

\* REFUNDING is a lock: at most one refund handler is past LockRefund, and the
\* order is REFUNDING as long as it is, so its unconditional final update
\* overwrites nobody's status.
RefundExclusive ==
    \A r \in Refunders : rpc[r] \in Refunding =>
        /\ status = "REFUNDING"
        /\ \A q \in Refunders : rpc[q] \in Refunding => q = r

\* The user is charged for a refund at most once, whatever is retried.
DeductedAtMostOnce == 0 <= deducted /\ deducted <= Amount

\* An order that stands as completed (or requested) has no deduction pending,
\* unless the audit log says that giving it back failed.
RestedIsWhole ==
    status \in {"COMPLETED", "REFUND_REQUESTED"}
        /\ "REFUND_ROLLBACK_FAILED" \notin audit => deducted = 0 /\ ~revoked

\* An order marked refunded was paid back by the provider in full, or never
\* went to the provider because its trade number was empty and the audit log
\* says so (gwRefund); an order that stands was not paid back at all.
RefundedIsPaidBack ==
    /\ status = "REFUNDED" =>
          \/ gwRefunded = paidAmt
          \/ gwRefunded = 0 /\ "REFUND_NO_TRADE_NO" \in audit
    /\ status \in {"COMPLETED", "REFUND_REQUESTED"} => gwRefunded = 0

\* A refunded order is final, and an order on its way to a refund is never
\* taken back into fulfilment by a late notification or retry: it ends
\* refunded or completed.
RefundIsFinal ==
    [][/\ (status \in {"REFUNDED", "PARTIALLY_REFUNDED"} => UNCHANGED status)
       /\ (status \in RefundStatuses => status' \in RefundStatuses \union {"COMPLETED"})]_allVars

=============================================================================

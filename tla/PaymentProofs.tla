---------------------------- MODULE PaymentProofs ----------------------------
(***************************************************************************)
(* Proofs about PaymentOrder for every number of handlers, every amount,   *)
(* tolerance, time-out, grace period and failure budget, and about         *)
(* PaymentRefund for every number of refund handlers and opening balance.  *)
(***************************************************************************)
EXTENDS PaymentRefund, TLAPS

Creating   == {"invoke", "saveTrade", "createFail"}
\* The steps reached only after the provider has reported the payment, and
\* those reached only after it has been recorded in the order.
Recorded   == {"retryReset", "fulfil", "lock"} \union Fulfilling
Reported   == {"persist", "confirm", "already"} \union Recorded

PaidStatuses == {"PAID", "RECHARGING", "COMPLETED"}

\* One handler creates the order; until it hands out the payment link nobody
\* can pay.
CreationInv ==
    /\ \A w \in Workers : pc[w] \in Creating =>
          /\ upstream \in {"none", "created", "closed"}
          /\ status \in {"PENDING", "CANCELLED", "EXPIRED"}
          /\ \A v \in Workers : pc[v] \in Creating => v = w
    /\ status = "NONE" => /\ upstream = "none"
                          /\ \A w \in Workers : pc[w] = "idle"

\* What the row says of the payment, and what a handler has checked of it.
PaymentInv ==
    /\ paidAt => /\ upstream = "paid" /\ AmountOk(paidAmt)
                 /\ status \in PaidStatuses \union {"FAILED"}
    /\ status \in PaidStatuses => paidAt
    /\ status = "FAILED" /\ ~paidAt => /\ upstream \notin {"open", "paid"}
                                       /\ \A w \in Workers : pc[w] \notin Creating
    /\ status \in PaidStatuses \union {"NONE", "PENDING", "CANCELLED", "EXPIRED", "FAILED"}
    /\ \A w \in Workers :
          /\ pc[w] \in Reported => upstream = "paid"
          /\ pc[w] \in Recorded => paidAt
          /\ pc[w] = "already"  => AmountOk(paidAmt)

\* What has been granted, and what a handler knows of it.
GoodsInv ==
    /\ OrderType = "balance" => credited = IF code = "used" THEN 1 ELSE 0
    /\ AlreadyAssigned => credited >= 1
    /\ credited >= 1 => paidAt
    /\ rebates = IF "AFFILIATE_REBATE" \in audit THEN 1 ELSE 0
    /\ rebates >= 1 => credited >= 1
    /\ status = "COMPLETED" => credited >= 1 /\ rebates = 1
    /\ \A w \in Workers :
          /\ pc[w] \in {"auditAssigned", "rebate", "complete"} => credited >= 1
          /\ pc[w] = "complete" => rebates = 1
          /\ pc[w] \in {"lookup", "createCode", "redeem"} => OrderType = "balance"
          /\ pc[w] \in {"group", "assign", "auditAssigned"} => OrderType = "subscription"

OrderInv == TypeOK /\ CreationInv /\ PaymentInv /\ FulfilmentExclusive /\ GoodsInv

\* A balance order is granted together with its code; a subscription is not,
\* so its grant is known later only if the audit log and the read after the
\* extension do not fail.
GrantIsKnown == OrderType = "balance" \/ Faults \cap {"audit", "reread"} = {}

\* A subscription that is granted is in the audit log, or the order is still
\* locked and its handler has nothing left to do but write it there.
GrantInv ==
    OrderType = "subscription" =>
        /\ credited <= 1
        /\ credited = 1 => \/ AlreadyAssigned
                           \/ /\ status = "RECHARGING"
                              /\ \A w \in Workers : pc[w] \in Fulfilling => pc[w] = "auditAssigned"
        /\ \A w \in Workers : pc[w] = "assign" => credited = 0

OnceInv == OrderInv /\ GrantInv

-----------------------------------------------------------------------------
(* Where three handlers that branch several ways can go.                   *)

\* checkPaid goes on to confirm only a payment the provider reports.
LEMMA CheckPaidGoes ==
    ASSUME TypeOK, NEW w \in Workers, CheckPaid(w)
    PROVE  \E l \in {"confirm", "persist", "closeUpstream", "cancel", "idle"} :
              pc' = [pc EXCEPT ![w] = l] /\ (l \in {"confirm", "persist"} => upstream = "paid")
BY DEF TypeOK, CheckPaid, NotPaid, Goto, Return

\* A trade number that could not be stored leaves the payment unopened.
LEMMA SaveTradeNoGoes ==
    ASSUME TypeOK, NEW w \in Workers, SaveTradeNo(w)
    PROVE  \/ pc' = [pc EXCEPT ![w] = "idle"]
           \/ pc' = [pc EXCEPT ![w] = "createFail"] /\ upstream' = upstream
BY DEF TypeOK, SaveTradeNo, Goto, Return

\* A confirmation records the payment and goes on to the fulfilment, or
\* changes nothing and returns or looks at the status again.
LEMMA ConfirmPaymentGoes ==
    ASSUME NEW w \in Workers, ConfirmPayment(w)
    PROVE  /\ pc[w] = "confirm" /\ UNCHANGED <<upstream, paidAmt>>
           /\ \/ /\ AmountOk(paidAmt) /\ Confirmable
                 /\ status' = "PAID" /\ paidAt' = TRUE
                 /\ pc' = [pc EXCEPT ![w] = "fulfil"]
              \/ /\ UNCHANGED <<status, paidAt>>
                 /\ \/ pc' = [pc EXCEPT ![w] = "idle"]
                    \/ AmountOk(paidAmt) /\ pc' = [pc EXCEPT ![w] = "already"]
BY DEF ConfirmPayment, At, Goto, Return, SetStatus, provider

\* alreadyProcessed and Execute*Fulfillment read the row and nothing else.
LEMMA ReadersGo ==
    ASSUME TypeOK, NEW w \in Workers, AlreadyProcessed(w) \/ ExecuteFulfillment(w)
    PROVE  \E l \in {"fulfil", "lock", "idle"} : pc' = [pc EXCEPT ![w] = l]
BY DEF TypeOK, AlreadyProcessed, ExecuteFulfillment, Goto, Return

-----------------------------------------------------------------------------
(* Types, in two parts: where the handlers are, and what the data is.      *)

ControlType ==
    /\ pc \in [Workers -> Labels] /\ job \in [Workers -> Jobs]
    /\ seen \in [Workers -> {"none", "create", "upstream"}]
    /\ acked \in BOOLEAN

DataType ==
    /\ status \in Statuses /\ paidAt \in BOOLEAN
    /\ tradeNo \in {"none", "create", "upstream"}
    /\ updatedAt \in Nat /\ expiresAt \in Nat /\ now \in Nat
    /\ code \in {"none", "unused", "used"} /\ credited \in Nat /\ rebates \in Nat
    /\ audit \subseteq AuditActions
    /\ upstream \in {"none", "created", "open", "paid", "closed"}
    /\ paidAmt \in Nat
    /\ faults \in Nat

\* A fault is taken from a budget that is not used up.
LEMMA FaultType ==
    ASSUME faults \in Nat, Fine \/ \E k \in FaultKinds : Fault(k)
    PROVE  faults' \in Nat
BY DEF Fine, Fault

\* A handler only moves between the labels of its program.
LEMMA ControlStep ==
    ASSUME TypeOK, [OrderNext]_vars
    PROVE  ControlType'
<1> USE DEF TypeOK, ControlType, Jobs, Labels, Goto, Start, Return, vars,
            control
<1>1. ASSUME NEW w \in Workers, CreateOrder(w) PROVE ControlType' BY <1>1 DEF CreateOrder
<1>2. ASSUME NEW w \in Workers, CancelOrder(w) PROVE ControlType' BY <1>2 DEF CancelOrder
<1>3. ASSUME NEW w \in Workers, ExpireTimedOutOrders(w) PROVE ControlType'
  BY <1>3 DEF ExpireTimedOutOrders, TimedOut
<1>4. ASSUME NEW w \in Workers, VerifyOrder(w) PROVE ControlType' BY <1>4 DEF VerifyOrder
<1>5. ASSUME NEW w \in Workers, Webhook(w) PROVE ControlType' BY <1>5 DEF Webhook
<1>6. ASSUME NEW w \in Workers, RetryFulfillment(w) PROVE ControlType' BY <1>6 DEF RetryFulfillment
<1>7. ASSUME NEW w \in Workers, InvokeProvider(w) PROVE ControlType' BY <1>7 DEF InvokeProvider
<1>8. ASSUME NEW w \in Workers, SaveTradeNo(w) PROVE ControlType' BY <1>8 DEF SaveTradeNo
<1>9. ASSUME NEW w \in Workers, CreateFail(w) PROVE ControlType' BY <1>9 DEF CreateFail
<1>10. ASSUME NEW w \in Workers, CheckPaid(w) PROVE ControlType' BY <1>10 DEF CheckPaid, NotPaid
<1>11. ASSUME NEW w \in Workers, PersistTradeNo(w) PROVE ControlType' BY <1>11 DEF PersistTradeNo
<1>12. ASSUME NEW w \in Workers, CloseUpstream(w) PROVE ControlType' BY <1>12 DEF CloseUpstream
<1>13. ASSUME NEW w \in Workers, CancelCore(w) PROVE ControlType'
  BY <1>13 DEF CancelCore, FinalStatus, CancelWhere
<1>14. ASSUME NEW w \in Workers, ConfirmPayment(w) PROVE ControlType'
  BY <1>14 DEF ConfirmPayment, Confirmable
<1>15. ASSUME NEW w \in Workers, AlreadyProcessed(w) PROVE ControlType'
  BY <1>15 DEF AlreadyProcessed
<1>16. ASSUME NEW w \in Workers, RetryReset(w) PROVE ControlType'
  BY <1>16 DEF RetryReset, ResetWhere
<1>17. ASSUME NEW w \in Workers, ExecuteFulfillment(w) PROVE ControlType'
  BY <1>17 DEF ExecuteFulfillment
<1>18. ASSUME NEW w \in Workers, LockOrder(w) PROVE ControlType' BY <1>18 DEF LockOrder, LockWhere
<1>19. ASSUME NEW w \in Workers, ResolveRedeemAction(w) PROVE ControlType'
  BY <1>19 DEF ResolveRedeemAction, RedeemAction
<1>20. ASSUME NEW w \in Workers, CreateCode(w) PROVE ControlType' BY <1>20 DEF CreateCode
<1>21. ASSUME NEW w \in Workers, Redeem(w) PROVE ControlType' BY <1>21 DEF Redeem
<1>22. ASSUME NEW w \in Workers, CheckAssigned(w) PROVE ControlType'
  BY <1>22 DEF CheckAssigned, AlreadyAssigned
<1>23. ASSUME NEW w \in Workers, AssignSubscription(w) PROVE ControlType'
  BY <1>23 DEF AssignSubscription
<1>24. ASSUME NEW w \in Workers, AuditAssigned(w) PROVE ControlType' BY <1>24 DEF AuditAssigned
<1>25. ASSUME NEW w \in Workers, ApplyRebate(w) PROVE ControlType' BY <1>25 DEF ApplyRebate
<1>26. ASSUME NEW w \in Workers, MarkCompleted(w) PROVE ControlType' BY <1>26 DEF MarkCompleted
<1>27. ASSUME NEW w \in Workers, MarkFailed(w) PROVE ControlType' BY <1>27 DEF MarkFailed
<1>28. ASSUME NEW w \in Workers, Crash(w) PROVE ControlType' BY <1>28 DEF Crash
<1>29. ASSUME NEW a \in Amounts, PayUpstream(a) PROVE ControlType' BY <1>29 DEF PayUpstream
<1>30. CASE Tick BY <1>30 DEF Tick
<1>31. CASE UNCHANGED vars BY <1>31
<1> QED BY <1>1, <1>2, <1>3, <1>4, <1>5, <1>6, <1>7, <1>8, <1>9, <1>10, <1>11,
      <1>12, <1>13, <1>14, <1>15, <1>16, <1>17, <1>18, <1>19, <1>20, <1>21,
      <1>22, <1>23, <1>24, <1>25, <1>26, <1>27, <1>28, <1>29, <1>30, <1>31 DEF
      OrderNext, Enter, Step

\* Every column, and the budget of faults, keeps its type.
LEMMA DataStep ==
    ASSUME TypeOK, [OrderNext]_vars
    PROVE  DataType'
<1> USE AmountAssumption, TimeAssumption, FaultType DEF TypeOK, DataType,
            Statuses, AuditActions, FaultKinds, SetStatus, vars, order, goods,
            provider
<1>1. ASSUME NEW w \in Workers, CreateOrder(w) PROVE DataType' BY <1>1 DEF CreateOrder
<1>2. ASSUME NEW w \in Workers, CancelOrder(w) PROVE DataType' BY <1>2 DEF CancelOrder
<1>3. ASSUME NEW w \in Workers, ExpireTimedOutOrders(w) PROVE DataType'
  BY <1>3 DEF ExpireTimedOutOrders, TimedOut
<1>4. ASSUME NEW w \in Workers, VerifyOrder(w) PROVE DataType' BY <1>4 DEF VerifyOrder
<1>5. ASSUME NEW w \in Workers, Webhook(w) PROVE DataType' BY <1>5 DEF Webhook
<1>6. ASSUME NEW w \in Workers, RetryFulfillment(w) PROVE DataType' BY <1>6 DEF RetryFulfillment
<1>7. ASSUME NEW w \in Workers, InvokeProvider(w) PROVE DataType' BY <1>7 DEF InvokeProvider
<1>8. ASSUME NEW w \in Workers, SaveTradeNo(w) PROVE DataType' BY <1>8 DEF SaveTradeNo
<1>9. ASSUME NEW w \in Workers, CreateFail(w) PROVE DataType' BY <1>9 DEF CreateFail
<1>10. ASSUME NEW w \in Workers, CheckPaid(w) PROVE DataType' BY <1>10 DEF CheckPaid, NotPaid
<1>11. ASSUME NEW w \in Workers, PersistTradeNo(w) PROVE DataType' BY <1>11 DEF PersistTradeNo
<1>12. ASSUME NEW w \in Workers, CloseUpstream(w) PROVE DataType' BY <1>12 DEF CloseUpstream
<1>13. ASSUME NEW w \in Workers, CancelCore(w) PROVE DataType' BY <1>13 DEF CancelCore, FinalStatus
<1>14. ASSUME NEW w \in Workers, ConfirmPayment(w) PROVE DataType' BY <1>14 DEF ConfirmPayment
<1>15. ASSUME NEW w \in Workers, AlreadyProcessed(w) PROVE DataType' BY <1>15 DEF AlreadyProcessed
<1>16. ASSUME NEW w \in Workers, RetryReset(w) PROVE DataType'
  <2>1. faults' \in Nat BY <1>16 DEF RetryReset
  <2> QED BY <1>16, <2>1 DEF RetryReset, DataType, Fine, Fault
<1>17. ASSUME NEW w \in Workers, ExecuteFulfillment(w) PROVE DataType'
  BY <1>17 DEF ExecuteFulfillment
<1>18. ASSUME NEW w \in Workers, LockOrder(w) PROVE DataType' BY <1>18 DEF LockOrder
<1>19. ASSUME NEW w \in Workers, ResolveRedeemAction(w) PROVE DataType'
  BY <1>19 DEF ResolveRedeemAction, RedeemAction
<1>20. ASSUME NEW w \in Workers, CreateCode(w) PROVE DataType' BY <1>20 DEF CreateCode
<1>21. ASSUME NEW w \in Workers, Redeem(w) PROVE DataType' BY <1>21 DEF Redeem
<1>22. ASSUME NEW w \in Workers, CheckAssigned(w) PROVE DataType'
  BY <1>22 DEF CheckAssigned, AlreadyAssigned
<1>23. ASSUME NEW w \in Workers, AssignSubscription(w) PROVE DataType'
  BY <1>23 DEF AssignSubscription
<1>24. ASSUME NEW w \in Workers, AuditAssigned(w) PROVE DataType' BY <1>24 DEF AuditAssigned
<1>25. ASSUME NEW w \in Workers, ApplyRebate(w) PROVE DataType'
  <2>1. audit' \subseteq AuditActions BY <1>25 DEF ApplyRebate
  <2>2. rebates' \in Nat BY <1>25 DEF ApplyRebate
  <2>3. faults' \in Nat BY <1>25 DEF ApplyRebate
  <2> QED BY <1>25, <2>1, <2>2, <2>3 DEF ApplyRebate
<1>26. ASSUME NEW w \in Workers, MarkCompleted(w) PROVE DataType' BY <1>26 DEF MarkCompleted
<1>27. ASSUME NEW w \in Workers, MarkFailed(w) PROVE DataType' BY <1>27 DEF MarkFailed
<1>28. ASSUME NEW w \in Workers, Crash(w) PROVE DataType' BY <1>28 DEF Crash
<1>29. ASSUME NEW a \in Amounts, PayUpstream(a) PROVE DataType' BY <1>29 DEF PayUpstream
<1>30. CASE Tick BY <1>30 DEF Tick
<1>31. CASE UNCHANGED vars BY <1>31
<1> QED BY <1>1, <1>2, <1>3, <1>4, <1>5, <1>6, <1>7, <1>8, <1>9, <1>10, <1>11,
      <1>12, <1>13, <1>14, <1>15, <1>16, <1>17, <1>18, <1>19, <1>20, <1>21,
      <1>22, <1>23, <1>24, <1>25, <1>26, <1>27, <1>28, <1>29, <1>30, <1>31 DEF
      OrderNext, Enter, Step

-----------------------------------------------------------------------------
(* The parts of the invariant, each preserved by every step.               *)

\* Nobody opens, pays or completes an order that is still being created.
LEMMA CreationStep ==
    ASSUME OrderInv, [OrderNext]_vars
    PROVE  CreationInv'
<1> USE DEF OrderInv, TypeOK, CreationInv, PaymentInv, Creating, Reported,
            Recorded, Fulfilling, PaidStatuses, SetStatus, Goto, Start,
            Return, At, vars, order, goods, provider, control
<1>1. ASSUME NEW w \in Workers, CreateOrder(w) PROVE CreationInv' BY <1>1 DEF CreateOrder
<1>2. ASSUME NEW w \in Workers, CancelOrder(w) PROVE CreationInv' BY <1>2 DEF CancelOrder
<1>3. ASSUME NEW w \in Workers, ExpireTimedOutOrders(w) PROVE CreationInv'
  BY <1>3 DEF ExpireTimedOutOrders, TimedOut
<1>4. ASSUME NEW w \in Workers, VerifyOrder(w) PROVE CreationInv' BY <1>4 DEF VerifyOrder
<1>5. ASSUME NEW w \in Workers, Webhook(w) PROVE CreationInv' BY <1>5 DEF Webhook
<1>6. ASSUME NEW w \in Workers, RetryFulfillment(w) PROVE CreationInv' BY <1>6 DEF RetryFulfillment
<1>7. ASSUME NEW w \in Workers, InvokeProvider(w) PROVE CreationInv' BY <1>7 DEF InvokeProvider
<1>8. ASSUME NEW w \in Workers, SaveTradeNo(w) PROVE CreationInv'
  <2>1. pc[w] = "saveTrade" /\ UNCHANGED status
    BY <1>8 DEF SaveTradeNo
  <2>2. CASE pc' = [pc EXCEPT ![w] = "idle"]
    <3>1. \A v \in Workers : pc'[v] \notin Creating
      BY <2>1, <2>2
    <3> QED
      BY <2>1, <3>1
  <2>3. CASE pc' = [pc EXCEPT ![w] = "createFail"] /\ upstream' = upstream
    BY <2>1, <2>3
  <2> QED
    BY <1>8, <2>2, <2>3, SaveTradeNoGoes
<1>9. ASSUME NEW w \in Workers, CreateFail(w) PROVE CreationInv' BY <1>9 DEF CreateFail
<1>10. ASSUME NEW w \in Workers, CheckPaid(w) PROVE CreationInv'
  BY <1>10, CheckPaidGoes DEF CheckPaid
<1>11. ASSUME NEW w \in Workers, PersistTradeNo(w) PROVE CreationInv' BY <1>11 DEF PersistTradeNo
<1>12. ASSUME NEW w \in Workers, CloseUpstream(w) PROVE CreationInv' BY <1>12 DEF CloseUpstream
<1>13. ASSUME NEW w \in Workers, CancelCore(w) PROVE CreationInv'
  BY <1>13 DEF CancelCore, FinalStatus, CancelWhere
<1>14. ASSUME NEW w \in Workers, ConfirmPayment(w) PROVE CreationInv'
  BY <1>14 DEF ConfirmPayment, Confirmable
<1>15. ASSUME NEW w \in Workers, AlreadyProcessed(w) PROVE CreationInv'
  BY <1>15 DEF AlreadyProcessed
<1>16. ASSUME NEW w \in Workers, RetryReset(w) PROVE CreationInv'
  BY <1>16 DEF RetryReset, ResetWhere
<1>17. ASSUME NEW w \in Workers, ExecuteFulfillment(w) PROVE CreationInv'
  BY <1>17 DEF ExecuteFulfillment
<1>18. ASSUME NEW w \in Workers, LockOrder(w) PROVE CreationInv' BY <1>18 DEF LockOrder, LockWhere
<1>19. ASSUME NEW w \in Workers, ResolveRedeemAction(w) PROVE CreationInv'
  BY <1>19 DEF ResolveRedeemAction, RedeemAction
<1>20. ASSUME NEW w \in Workers, CreateCode(w) PROVE CreationInv' BY <1>20 DEF CreateCode
<1>21. ASSUME NEW w \in Workers, Redeem(w) PROVE CreationInv' BY <1>21 DEF Redeem
<1>22. ASSUME NEW w \in Workers, CheckAssigned(w) PROVE CreationInv'
  BY <1>22 DEF CheckAssigned, AlreadyAssigned
<1>23. ASSUME NEW w \in Workers, AssignSubscription(w) PROVE CreationInv'
  BY <1>23 DEF AssignSubscription
<1>24. ASSUME NEW w \in Workers, AuditAssigned(w) PROVE CreationInv' BY <1>24 DEF AuditAssigned
<1>25. ASSUME NEW w \in Workers, ApplyRebate(w) PROVE CreationInv' BY <1>25 DEF ApplyRebate
<1>26. ASSUME NEW w \in Workers, MarkCompleted(w) PROVE CreationInv' BY <1>26 DEF MarkCompleted
<1>27. ASSUME NEW w \in Workers, MarkFailed(w) PROVE CreationInv' BY <1>27 DEF MarkFailed
<1>28. ASSUME NEW w \in Workers, Crash(w) PROVE CreationInv' BY <1>28 DEF Crash
<1>29. ASSUME NEW a \in Amounts, PayUpstream(a) PROVE CreationInv' BY <1>29 DEF PayUpstream
<1>30. CASE Tick BY <1>30 DEF Tick
<1>31. CASE UNCHANGED vars BY <1>31
<1> QED BY <1>1, <1>2, <1>3, <1>4, <1>5, <1>6, <1>7, <1>8, <1>9, <1>10, <1>11,
      <1>12, <1>13, <1>14, <1>15, <1>16, <1>17, <1>18, <1>19, <1>20, <1>21,
      <1>22, <1>23, <1>24, <1>25, <1>26, <1>27, <1>28, <1>29, <1>30, <1>31 DEF
      OrderNext, Enter, Step

\* Recording a payment needs one reported in full, and no handler takes it back.
LEMMA PaymentStep ==
    ASSUME OrderInv, [OrderNext]_vars
    PROVE  PaymentInv'
<1> USE DEF OrderInv, TypeOK, CreationInv, PaymentInv, Creating, Reported,
            Recorded, Fulfilling, PaidStatuses, SetStatus, Goto, Start,
            Return, At, vars, order, goods, provider, control
<1>1. ASSUME NEW w \in Workers, CreateOrder(w) PROVE PaymentInv' BY <1>1 DEF CreateOrder
<1>2. ASSUME NEW w \in Workers, CancelOrder(w) PROVE PaymentInv' BY <1>2 DEF CancelOrder
<1>3. ASSUME NEW w \in Workers, ExpireTimedOutOrders(w) PROVE PaymentInv'
  BY <1>3 DEF ExpireTimedOutOrders, TimedOut
<1>4. ASSUME NEW w \in Workers, VerifyOrder(w) PROVE PaymentInv' BY <1>4 DEF VerifyOrder
<1>5. ASSUME NEW w \in Workers, Webhook(w) PROVE PaymentInv' BY <1>5 DEF Webhook
<1>6. ASSUME NEW w \in Workers, RetryFulfillment(w) PROVE PaymentInv' BY <1>6 DEF RetryFulfillment
<1>7. ASSUME NEW w \in Workers, InvokeProvider(w) PROVE PaymentInv' BY <1>7 DEF InvokeProvider
<1>8. ASSUME NEW w \in Workers, SaveTradeNo(w) PROVE PaymentInv' BY <1>8 DEF SaveTradeNo
<1>9. ASSUME NEW w \in Workers, CreateFail(w) PROVE PaymentInv' BY <1>9 DEF CreateFail
<1>10. ASSUME NEW w \in Workers, CheckPaid(w) PROVE PaymentInv'
  BY <1>10, CheckPaidGoes DEF CheckPaid
<1>11. ASSUME NEW w \in Workers, PersistTradeNo(w) PROVE PaymentInv' BY <1>11 DEF PersistTradeNo
<1>12. ASSUME NEW w \in Workers, CloseUpstream(w) PROVE PaymentInv' BY <1>12 DEF CloseUpstream
<1>13. ASSUME NEW w \in Workers, CancelCore(w) PROVE PaymentInv'
  BY <1>13 DEF CancelCore, FinalStatus, CancelWhere
<1>14. ASSUME NEW w \in Workers, ConfirmPayment(w) PROVE PaymentInv'
  <2>1. CASE pc' = [pc EXCEPT ![w] = "idle"] /\ UNCHANGED <<status, paidAt>>
    BY <1>14, <2>1, ConfirmPaymentGoes
  <2>2. CASE /\ AmountOk(paidAmt) /\ pc' = [pc EXCEPT ![w] = "already"]
             /\ UNCHANGED <<status, paidAt>>
    BY <1>14, <2>2, ConfirmPaymentGoes
  <2>3. CASE /\ AmountOk(paidAmt) /\ Confirmable /\ status' = "PAID"
             /\ paidAt' = TRUE /\ pc' = [pc EXCEPT ![w] = "fulfil"]
    BY <1>14, <2>3, ConfirmPaymentGoes DEF Confirmable
  <2> QED
    BY <1>14, <2>1, <2>2, <2>3, ConfirmPaymentGoes
<1>15. ASSUME NEW w \in Workers, AlreadyProcessed(w) PROVE PaymentInv'
  BY <1>15 DEF AlreadyProcessed
<1>16. ASSUME NEW w \in Workers, RetryReset(w) PROVE PaymentInv'
  BY <1>16 DEF RetryReset, ResetWhere
<1>17. ASSUME NEW w \in Workers, ExecuteFulfillment(w) PROVE PaymentInv'
  BY <1>17 DEF ExecuteFulfillment
<1>18. ASSUME NEW w \in Workers, LockOrder(w) PROVE PaymentInv' BY <1>18 DEF LockOrder, LockWhere
<1>19. ASSUME NEW w \in Workers, ResolveRedeemAction(w) PROVE PaymentInv'
  BY <1>19 DEF ResolveRedeemAction, RedeemAction
<1>20. ASSUME NEW w \in Workers, CreateCode(w) PROVE PaymentInv' BY <1>20 DEF CreateCode
<1>21. ASSUME NEW w \in Workers, Redeem(w) PROVE PaymentInv' BY <1>21 DEF Redeem
<1>22. ASSUME NEW w \in Workers, CheckAssigned(w) PROVE PaymentInv'
  BY <1>22 DEF CheckAssigned, AlreadyAssigned
<1>23. ASSUME NEW w \in Workers, AssignSubscription(w) PROVE PaymentInv'
  BY <1>23 DEF AssignSubscription
<1>24. ASSUME NEW w \in Workers, AuditAssigned(w) PROVE PaymentInv' BY <1>24 DEF AuditAssigned
<1>25. ASSUME NEW w \in Workers, ApplyRebate(w) PROVE PaymentInv' BY <1>25 DEF ApplyRebate
<1>26. ASSUME NEW w \in Workers, MarkCompleted(w) PROVE PaymentInv' BY <1>26 DEF MarkCompleted
<1>27. ASSUME NEW w \in Workers, MarkFailed(w) PROVE PaymentInv' BY <1>27 DEF MarkFailed
<1>28. ASSUME NEW w \in Workers, Crash(w) PROVE PaymentInv' BY <1>28 DEF Crash
<1>29. ASSUME NEW a \in Amounts, PayUpstream(a) PROVE PaymentInv' BY <1>29 DEF PayUpstream
<1>30. CASE Tick BY <1>30 DEF Tick
<1>31. CASE UNCHANGED vars BY <1>31
<1> QED BY <1>1, <1>2, <1>3, <1>4, <1>5, <1>6, <1>7, <1>8, <1>9, <1>10, <1>11,
      <1>12, <1>13, <1>14, <1>15, <1>16, <1>17, <1>18, <1>19, <1>20, <1>21,
      <1>22, <1>23, <1>24, <1>25, <1>26, <1>27, <1>28, <1>29, <1>30, <1>31 DEF
      OrderNext, Enter, Step

\* Only the holder of RECHARGING fulfils, and only it gives the status up.
LEMMA ExclusiveStep ==
    ASSUME OrderInv, [OrderNext]_vars
    PROVE  FulfilmentExclusive'
<1> USE DEF OrderInv, TypeOK, FulfilmentExclusive, PaymentInv, Fulfilling,
            PaidStatuses, SetStatus, Goto, Start, Return, At, vars, order,
            goods, provider, control
<1>1. ASSUME NEW w \in Workers, CreateOrder(w) PROVE FulfilmentExclusive' BY <1>1 DEF CreateOrder
<1>2. ASSUME NEW w \in Workers, CancelOrder(w) PROVE FulfilmentExclusive' BY <1>2 DEF CancelOrder
<1>3. ASSUME NEW w \in Workers, ExpireTimedOutOrders(w) PROVE FulfilmentExclusive'
  BY <1>3 DEF ExpireTimedOutOrders, TimedOut
<1>4. ASSUME NEW w \in Workers, VerifyOrder(w) PROVE FulfilmentExclusive' BY <1>4 DEF VerifyOrder
<1>5. ASSUME NEW w \in Workers, Webhook(w) PROVE FulfilmentExclusive' BY <1>5 DEF Webhook
<1>6. ASSUME NEW w \in Workers, RetryFulfillment(w) PROVE FulfilmentExclusive'
  BY <1>6 DEF RetryFulfillment
<1>7. ASSUME NEW w \in Workers, InvokeProvider(w) PROVE FulfilmentExclusive'
  BY <1>7 DEF InvokeProvider
<1>8. ASSUME NEW w \in Workers, SaveTradeNo(w) PROVE FulfilmentExclusive'
  <2>1. PICK l \in {"createFail", "idle"} : pc' = [pc EXCEPT ![w] = l]
    BY <1>8, SaveTradeNoGoes
  <2>2. UNCHANGED status
    BY <1>8 DEF SaveTradeNo
  <2> QED
    BY <2>1, <2>2
<1>9. ASSUME NEW w \in Workers, CreateFail(w) PROVE FulfilmentExclusive'
  <2>1. status # "RECHARGING"
    BY <1>9 DEF CreateFail, CreationInv, Creating
  <2> QED
    BY <1>9, <2>1 DEF CreateFail
<1>10. ASSUME NEW w \in Workers, CheckPaid(w) PROVE FulfilmentExclusive'
  BY <1>10, CheckPaidGoes DEF CheckPaid
<1>11. ASSUME NEW w \in Workers, PersistTradeNo(w) PROVE FulfilmentExclusive'
  BY <1>11 DEF PersistTradeNo
<1>12. ASSUME NEW w \in Workers, CloseUpstream(w) PROVE FulfilmentExclusive'
  BY <1>12 DEF CloseUpstream
<1>13. ASSUME NEW w \in Workers, CancelCore(w) PROVE FulfilmentExclusive'
  BY <1>13 DEF CancelCore, FinalStatus, CancelWhere
<1>14. ASSUME NEW w \in Workers, ConfirmPayment(w) PROVE FulfilmentExclusive'
  <2>1. CASE pc' = [pc EXCEPT ![w] = "idle"] /\ UNCHANGED <<status, paidAt>>
    BY <1>14, <2>1, ConfirmPaymentGoes
  <2>2. CASE /\ AmountOk(paidAmt) /\ pc' = [pc EXCEPT ![w] = "already"]
             /\ UNCHANGED <<status, paidAt>>
    BY <1>14, <2>2, ConfirmPaymentGoes
  <2>3. CASE /\ AmountOk(paidAmt) /\ Confirmable /\ status' = "PAID"
             /\ paidAt' = TRUE /\ pc' = [pc EXCEPT ![w] = "fulfil"]
    BY <1>14, <2>3, ConfirmPaymentGoes DEF Confirmable
  <2> QED
    BY <1>14, <2>1, <2>2, <2>3, ConfirmPaymentGoes
<1>15. ASSUME NEW w \in Workers, AlreadyProcessed(w) PROVE FulfilmentExclusive'
  <2>1. PICK l \in {"fulfil", "lock", "idle"} : pc' = [pc EXCEPT ![w] = l]
    BY <1>15, ReadersGo
  <2>2. UNCHANGED status
    BY <1>15 DEF AlreadyProcessed
  <2> QED
    BY <2>1, <2>2
<1>16. ASSUME NEW w \in Workers, RetryReset(w) PROVE FulfilmentExclusive'
  BY <1>16 DEF RetryReset, ResetWhere
<1>17. ASSUME NEW w \in Workers, ExecuteFulfillment(w) PROVE FulfilmentExclusive'
  <2>1. PICK l \in {"fulfil", "lock", "idle"} : pc' = [pc EXCEPT ![w] = l]
    BY <1>17, ReadersGo
  <2>2. UNCHANGED status
    BY <1>17 DEF ExecuteFulfillment
  <2> QED
    BY <2>1, <2>2
<1>18. ASSUME NEW w \in Workers, LockOrder(w) PROVE FulfilmentExclusive'
  <2>1. CASE LockWhere /\ SetStatus("RECHARGING")
    <3>1. \A v \in Workers : pc[v] \notin Fulfilling
      BY <2>1 DEF LockWhere
    <3>2. \E l : pc' = [pc EXCEPT ![w] = l]
      BY <1>18 DEF LockOrder
    <3> QED
      BY <2>1, <3>1, <3>2
  <2>2. CASE pc' = [pc EXCEPT ![w] = "idle"] /\ UNCHANGED status
    BY <2>2
  <2> QED
    BY <1>18, <2>1, <2>2 DEF LockOrder
<1>19. ASSUME NEW w \in Workers, ResolveRedeemAction(w) PROVE FulfilmentExclusive'
  BY <1>19 DEF ResolveRedeemAction, RedeemAction
<1>20. ASSUME NEW w \in Workers, CreateCode(w) PROVE FulfilmentExclusive' BY <1>20 DEF CreateCode
<1>21. ASSUME NEW w \in Workers, Redeem(w) PROVE FulfilmentExclusive' BY <1>21 DEF Redeem
<1>22. ASSUME NEW w \in Workers, CheckAssigned(w) PROVE FulfilmentExclusive'
  BY <1>22 DEF CheckAssigned, AlreadyAssigned
<1>23. ASSUME NEW w \in Workers, AssignSubscription(w) PROVE FulfilmentExclusive'
  BY <1>23 DEF AssignSubscription
<1>24. ASSUME NEW w \in Workers, AuditAssigned(w) PROVE FulfilmentExclusive'
  BY <1>24 DEF AuditAssigned
<1>25. ASSUME NEW w \in Workers, ApplyRebate(w) PROVE FulfilmentExclusive' BY <1>25 DEF ApplyRebate
<1>26. ASSUME NEW w \in Workers, MarkCompleted(w) PROVE FulfilmentExclusive'
  <2>1. pc[w] = "complete" /\ \A v \in Workers \ {w} : pc[v] \notin Fulfilling
    BY <1>26 DEF MarkCompleted
  <2>2. CASE pc' = [pc EXCEPT ![w] = "idle"]
    BY <2>1, <2>2
  <2>3. CASE pc' = [pc EXCEPT ![w] = "markFailed"] /\ UNCHANGED status
    BY <2>1, <2>3
  <2> QED
    BY <1>26, <2>2, <2>3 DEF MarkCompleted
<1>27. ASSUME NEW w \in Workers, MarkFailed(w) PROVE FulfilmentExclusive' BY <1>27 DEF MarkFailed
<1>28. ASSUME NEW w \in Workers, Crash(w) PROVE FulfilmentExclusive' BY <1>28 DEF Crash
<1>29. ASSUME NEW a \in Amounts, PayUpstream(a) PROVE FulfilmentExclusive' BY <1>29 DEF PayUpstream
<1>30. CASE Tick BY <1>30 DEF Tick
<1>31. CASE UNCHANGED vars BY <1>31
<1> QED BY <1>1, <1>2, <1>3, <1>4, <1>5, <1>6, <1>7, <1>8, <1>9, <1>10, <1>11,
      <1>12, <1>13, <1>14, <1>15, <1>16, <1>17, <1>18, <1>19, <1>20, <1>21,
      <1>22, <1>23, <1>24, <1>25, <1>26, <1>27, <1>28, <1>29, <1>30, <1>31 DEF
      OrderNext, Enter, Step

\* Credit, rebate and completion come in this order.
LEMMA GoodsStep ==
    ASSUME OrderInv, [OrderNext]_vars
    PROVE  GoodsInv'
<1> USE OrderTypeAssumption DEF OrderInv, TypeOK, GoodsInv, AlreadyAssigned,
            PaymentInv, FulfilmentExclusive, Recorded, Fulfilling, SetStatus,
            Goto, Start, Return, At, vars, order, goods, provider, control
<1>1. ASSUME NEW w \in Workers, CreateOrder(w) PROVE GoodsInv' BY <1>1 DEF CreateOrder
<1>2. ASSUME NEW w \in Workers, CancelOrder(w) PROVE GoodsInv' BY <1>2 DEF CancelOrder
<1>3. ASSUME NEW w \in Workers, ExpireTimedOutOrders(w) PROVE GoodsInv'
  BY <1>3 DEF ExpireTimedOutOrders, TimedOut
<1>4. ASSUME NEW w \in Workers, VerifyOrder(w) PROVE GoodsInv' BY <1>4 DEF VerifyOrder
<1>5. ASSUME NEW w \in Workers, Webhook(w) PROVE GoodsInv' BY <1>5 DEF Webhook
<1>6. ASSUME NEW w \in Workers, RetryFulfillment(w) PROVE GoodsInv' BY <1>6 DEF RetryFulfillment
<1>7. ASSUME NEW w \in Workers, InvokeProvider(w) PROVE GoodsInv' BY <1>7 DEF InvokeProvider
<1>8. ASSUME NEW w \in Workers, SaveTradeNo(w) PROVE GoodsInv' BY <1>8 DEF SaveTradeNo
<1>9. ASSUME NEW w \in Workers, CreateFail(w) PROVE GoodsInv' BY <1>9 DEF CreateFail
<1>10. ASSUME NEW w \in Workers, CheckPaid(w) PROVE GoodsInv'
  BY <1>10, CheckPaidGoes DEF CheckPaid
<1>11. ASSUME NEW w \in Workers, PersistTradeNo(w) PROVE GoodsInv' BY <1>11 DEF PersistTradeNo
<1>12. ASSUME NEW w \in Workers, CloseUpstream(w) PROVE GoodsInv' BY <1>12 DEF CloseUpstream
<1>13. ASSUME NEW w \in Workers, CancelCore(w) PROVE GoodsInv'
  BY <1>13 DEF CancelCore, FinalStatus, CancelWhere
<1>14. ASSUME NEW w \in Workers, ConfirmPayment(w) PROVE GoodsInv'
  BY <1>14 DEF ConfirmPayment, Confirmable
<1>15. ASSUME NEW w \in Workers, AlreadyProcessed(w) PROVE GoodsInv' BY <1>15 DEF AlreadyProcessed
<1>16. ASSUME NEW w \in Workers, RetryReset(w) PROVE GoodsInv' BY <1>16 DEF RetryReset, ResetWhere
<1>17. ASSUME NEW w \in Workers, ExecuteFulfillment(w) PROVE GoodsInv'
  BY <1>17 DEF ExecuteFulfillment
<1>18. ASSUME NEW w \in Workers, LockOrder(w) PROVE GoodsInv' BY <1>18 DEF LockOrder, LockWhere
<1>19. ASSUME NEW w \in Workers, ResolveRedeemAction(w) PROVE GoodsInv'
  BY <1>19 DEF ResolveRedeemAction, RedeemAction
<1>20. ASSUME NEW w \in Workers, CreateCode(w) PROVE GoodsInv' BY <1>20 DEF CreateCode
<1>21. ASSUME NEW w \in Workers, Redeem(w) PROVE GoodsInv' BY <1>21 DEF Redeem
<1>22. ASSUME NEW w \in Workers, CheckAssigned(w) PROVE GoodsInv'
  BY <1>22 DEF CheckAssigned, AlreadyAssigned
<1>23. ASSUME NEW w \in Workers, AssignSubscription(w) PROVE GoodsInv'
  BY <1>23 DEF AssignSubscription
<1>24. ASSUME NEW w \in Workers, AuditAssigned(w) PROVE GoodsInv' BY <1>24 DEF AuditAssigned
<1>25. ASSUME NEW w \in Workers, ApplyRebate(w) PROVE GoodsInv'
  <2>1. pc[w] = "rebate" /\ credited >= 1 /\ UNCHANGED <<status, paidAt, code, credited>>
    BY <1>25 DEF ApplyRebate
  <2>2. CASE /\ "AFFILIATE_REBATE" \notin audit /\ rebates' = rebates + 1
             /\ audit' = audit \union {"AFFILIATE_REBATE"}
             /\ pc' = [pc EXCEPT ![w] = "complete"]
    <3>1. rebates' = 1 /\ "AFFILIATE_REBATE" \in audit'
      BY <2>2
    <3>2. AlreadyAssigned' => AlreadyAssigned
      BY <2>2
    <3>3. status # "COMPLETED"
      BY <2>1
    <3> QED
      BY <2>1, <2>2, <3>1, <3>2, <3>3
  <2>3. CASE /\ "AFFILIATE_REBATE" \in audit /\ UNCHANGED <<rebates, audit>>
             /\ pc' = [pc EXCEPT ![w] = "complete"]
    BY <2>1, <2>3
  <2>4. CASE UNCHANGED <<rebates, audit>> /\ pc' = [pc EXCEPT ![w] = "markFailed"]
    BY <2>1, <2>4
  <2> QED
    BY <1>25, <2>2, <2>3, <2>4 DEF ApplyRebate, RebateClaimable
<1>26. ASSUME NEW w \in Workers, MarkCompleted(w) PROVE GoodsInv' BY <1>26 DEF MarkCompleted
<1>27. ASSUME NEW w \in Workers, MarkFailed(w) PROVE GoodsInv' BY <1>27 DEF MarkFailed
<1>28. ASSUME NEW w \in Workers, Crash(w) PROVE GoodsInv' BY <1>28 DEF Crash
<1>29. ASSUME NEW a \in Amounts, PayUpstream(a) PROVE GoodsInv' BY <1>29 DEF PayUpstream
<1>30. CASE Tick BY <1>30 DEF Tick
<1>31. CASE UNCHANGED vars BY <1>31
<1> QED BY <1>1, <1>2, <1>3, <1>4, <1>5, <1>6, <1>7, <1>8, <1>9, <1>10, <1>11,
      <1>12, <1>13, <1>14, <1>15, <1>16, <1>17, <1>18, <1>19, <1>20, <1>21,
      <1>22, <1>23, <1>24, <1>25, <1>26, <1>27, <1>28, <1>29, <1>30, <1>31 DEF
      OrderNext, Enter, Step

\* A granted subscription is never granted again while the grant is known.
LEMMA GrantStep ==
    ASSUME GrantIsKnown, OnceInv, [OrderNext]_vars
    PROVE  GrantInv'
<1> USE OrderTypeAssumption DEF OnceInv, OrderInv, TypeOK, GoodsInv, GrantInv,
            AlreadyAssigned, FulfilmentExclusive, Fulfilling, SetStatus, Goto,
            Start, Return, At, vars, order, goods, provider, control
<1>1. ASSUME NEW w \in Workers, CreateOrder(w) PROVE GrantInv' BY <1>1 DEF CreateOrder
<1>2. ASSUME NEW w \in Workers, CancelOrder(w) PROVE GrantInv' BY <1>2 DEF CancelOrder
<1>3. ASSUME NEW w \in Workers, ExpireTimedOutOrders(w) PROVE GrantInv'
  BY <1>3 DEF ExpireTimedOutOrders, TimedOut
<1>4. ASSUME NEW w \in Workers, VerifyOrder(w) PROVE GrantInv' BY <1>4 DEF VerifyOrder
<1>5. ASSUME NEW w \in Workers, Webhook(w) PROVE GrantInv' BY <1>5 DEF Webhook
<1>6. ASSUME NEW w \in Workers, RetryFulfillment(w) PROVE GrantInv' BY <1>6 DEF RetryFulfillment
<1>7. ASSUME NEW w \in Workers, InvokeProvider(w) PROVE GrantInv' BY <1>7 DEF InvokeProvider
<1>8. ASSUME NEW w \in Workers, SaveTradeNo(w) PROVE GrantInv' BY <1>8 DEF SaveTradeNo
<1>9. ASSUME NEW w \in Workers, CreateFail(w) PROVE GrantInv'
  <2>1. status # "RECHARGING"
    BY <1>9 DEF CreateFail, CreationInv, Creating
  <2>2. credited = 0
    BY <2>1, <1>9 DEF CreateFail, CreationInv, Creating, PaymentInv, PaidStatuses
  <2>3. pc' = [pc EXCEPT ![w] = "idle"] /\ UNCHANGED <<audit, credited>>
    BY <1>9 DEF CreateFail
  <2> QED
    BY <2>2, <2>3
<1>10. ASSUME NEW w \in Workers, CheckPaid(w) PROVE GrantInv'
  BY <1>10, CheckPaidGoes DEF CheckPaid
<1>11. ASSUME NEW w \in Workers, PersistTradeNo(w) PROVE GrantInv' BY <1>11 DEF PersistTradeNo
<1>12. ASSUME NEW w \in Workers, CloseUpstream(w) PROVE GrantInv' BY <1>12 DEF CloseUpstream
<1>13. ASSUME NEW w \in Workers, CancelCore(w) PROVE GrantInv'
  BY <1>13 DEF CancelCore, FinalStatus, CancelWhere
<1>14. ASSUME NEW w \in Workers, ConfirmPayment(w) PROVE GrantInv'
  BY <1>14 DEF ConfirmPayment, Confirmable
<1>15. ASSUME NEW w \in Workers, AlreadyProcessed(w) PROVE GrantInv' BY <1>15 DEF AlreadyProcessed
<1>16. ASSUME NEW w \in Workers, RetryReset(w) PROVE GrantInv' BY <1>16 DEF RetryReset, ResetWhere
<1>17. ASSUME NEW w \in Workers, ExecuteFulfillment(w) PROVE GrantInv'
  BY <1>17 DEF ExecuteFulfillment
<1>18. ASSUME NEW w \in Workers, LockOrder(w) PROVE GrantInv' BY <1>18 DEF LockOrder, LockWhere
<1>19. ASSUME NEW w \in Workers, ResolveRedeemAction(w) PROVE GrantInv'
  BY <1>19 DEF ResolveRedeemAction, RedeemAction
<1>20. ASSUME NEW w \in Workers, CreateCode(w) PROVE GrantInv' BY <1>20 DEF CreateCode
<1>21. ASSUME NEW w \in Workers, Redeem(w) PROVE GrantInv' BY <1>21 DEF Redeem
<1>22. ASSUME NEW w \in Workers, CheckAssigned(w) PROVE GrantInv'
  <2> SUFFICES ASSUME OrderType = "subscription" PROVE GrantInv'
    OBVIOUS
  <2>1. pc[w] = "group" /\ status = "RECHARGING" /\ UNCHANGED <<status, credited, audit>>
    BY <1>22 DEF CheckAssigned
  <2>2. CASE AlreadyAssigned /\ pc' = [pc EXCEPT ![w] = "rebate"]
    BY <2>1, <2>2
  <2>3. CASE ~AlreadyAssigned /\ pc' = [pc EXCEPT ![w] = "assign"]
    <3>1. credited = 0
      BY <2>1, <2>3
    <3> QED
      BY <2>1, <2>3, <3>1
  <2>4. CASE pc' = [pc EXCEPT ![w] = "markFailed"]
    BY <2>1, <2>4
  <2>5. "audit" \notin Faults
    BY DEF GrantIsKnown
  <2> QED
    BY <1>22, <2>2, <2>3, <2>4, <2>5 DEF CheckAssigned, Fault
<1>23. ASSUME NEW w \in Workers, AssignSubscription(w) PROVE GrantInv'
  <2> SUFFICES ASSUME OrderType = "subscription" PROVE GrantInv'
    OBVIOUS
  <2>1. pc[w] = "assign" /\ credited = 0 /\ status = "RECHARGING" /\ UNCHANGED <<status, audit>>
    BY <1>23 DEF AssignSubscription
  <2>2. CASE credited' = credited + 1 /\ pc' = [pc EXCEPT ![w] = "auditAssigned"]
    BY <2>1, <2>2
  <2>3. CASE UNCHANGED credited /\ pc' = [pc EXCEPT ![w] = "markFailed"]
    BY <2>1, <2>3
  <2>4. "reread" \notin Faults
    BY DEF GrantIsKnown
  <2> QED
    BY <1>23, <2>2, <2>3, <2>4 DEF AssignSubscription, Fault
<1>24. ASSUME NEW w \in Workers, AuditAssigned(w) PROVE GrantInv'
  <2>1. "audit" \notin Faults
    BY <1>24 DEF AuditAssigned, GrantIsKnown
  <2>2. pc' = [pc EXCEPT ![w] = "rebate"] /\ UNCHANGED credited
    BY <1>24 DEF AuditAssigned
  <2>3. AlreadyAssigned'
    BY <1>24, <2>1 DEF AuditAssigned, Fault
  <2>4. \A v \in Workers : pc'[v] # "assign"
    BY <1>24, <2>2 DEF AuditAssigned
  <2> QED
    BY <2>2, <2>3, <2>4
<1>25. ASSUME NEW w \in Workers, ApplyRebate(w) PROVE GrantInv' BY <1>25 DEF ApplyRebate
<1>26. ASSUME NEW w \in Workers, MarkCompleted(w) PROVE GrantInv' BY <1>26 DEF MarkCompleted
<1>27. ASSUME NEW w \in Workers, MarkFailed(w) PROVE GrantInv' BY <1>27 DEF MarkFailed
<1>28. ASSUME NEW w \in Workers, Crash(w) PROVE GrantInv' BY <1>28 DEF Crash
<1>29. ASSUME NEW a \in Amounts, PayUpstream(a) PROVE GrantInv' BY <1>29 DEF PayUpstream
<1>30. CASE Tick BY <1>30 DEF Tick
<1>31. CASE UNCHANGED vars BY <1>31
<1> QED BY <1>1, <1>2, <1>3, <1>4, <1>5, <1>6, <1>7, <1>8, <1>9, <1>10, <1>11,
      <1>12, <1>13, <1>14, <1>15, <1>16, <1>17, <1>18, <1>19, <1>20, <1>21,
      <1>22, <1>23, <1>24, <1>25, <1>26, <1>27, <1>28, <1>29, <1>30, <1>31 DEF
      OrderNext, Enter, Step

-----------------------------------------------------------------------------
(* The refinement: what a step can do to the variables of the ledger.      *)

LedgerMove ==
    \/ UNCHANGED <<paidAt, credited>> /\ (status' = "COMPLETED" <=> status = "COMPLETED")
    \/ ~paidAt /\ paidAt' = TRUE /\ status' # "COMPLETED" /\ UNCHANGED credited
    \/ /\ paidAt /\ status # "COMPLETED" /\ UNCHANGED <<paidAt, status>>
       /\ credited' = credited + 1
    \/ /\ paidAt /\ status # "COMPLETED" /\ status' = "COMPLETED" /\ UNCHANGED paidAt
       /\ credited >= 1 /\ UNCHANGED credited

\* Every step records the payment, grants, completes, or does none of these.
LEMMA LedgerMoves ==
    ASSUME OrderInv, [OrderNext]_vars
    PROVE  LedgerMove
<1> USE OrderTypeAssumption DEF LedgerMove, OrderInv, TypeOK, GoodsInv,
            PaymentInv, Recorded, PaidStatuses, CreationInv, Creating,
            FulfilmentExclusive, Fulfilling, SetStatus, At, vars, order,
            goods, provider, control
<1>1. ASSUME NEW w \in Workers, CreateOrder(w) PROVE LedgerMove BY <1>1 DEF CreateOrder
<1>2. ASSUME NEW w \in Workers, CancelOrder(w) PROVE LedgerMove BY <1>2 DEF CancelOrder
<1>3. ASSUME NEW w \in Workers, ExpireTimedOutOrders(w) PROVE LedgerMove
  BY <1>3 DEF ExpireTimedOutOrders, TimedOut
<1>4. ASSUME NEW w \in Workers, VerifyOrder(w) PROVE LedgerMove BY <1>4 DEF VerifyOrder
<1>5. ASSUME NEW w \in Workers, Webhook(w) PROVE LedgerMove BY <1>5 DEF Webhook
<1>6. ASSUME NEW w \in Workers, RetryFulfillment(w) PROVE LedgerMove BY <1>6 DEF RetryFulfillment
<1>7. ASSUME NEW w \in Workers, InvokeProvider(w) PROVE LedgerMove BY <1>7 DEF InvokeProvider
<1>8. ASSUME NEW w \in Workers, SaveTradeNo(w) PROVE LedgerMove BY <1>8 DEF SaveTradeNo
<1>9. ASSUME NEW w \in Workers, CreateFail(w) PROVE LedgerMove BY <1>9 DEF CreateFail
<1>10. ASSUME NEW w \in Workers, CheckPaid(w) PROVE LedgerMove BY <1>10 DEF CheckPaid
<1>11. ASSUME NEW w \in Workers, PersistTradeNo(w) PROVE LedgerMove BY <1>11 DEF PersistTradeNo
<1>12. ASSUME NEW w \in Workers, CloseUpstream(w) PROVE LedgerMove BY <1>12 DEF CloseUpstream
<1>13. ASSUME NEW w \in Workers, CancelCore(w) PROVE LedgerMove
  BY <1>13 DEF CancelCore, FinalStatus, CancelWhere
<1>14. ASSUME NEW w \in Workers, ConfirmPayment(w) PROVE LedgerMove
  BY <1>14 DEF ConfirmPayment, Confirmable
<1>15. ASSUME NEW w \in Workers, AlreadyProcessed(w) PROVE LedgerMove
  BY <1>15 DEF AlreadyProcessed
<1>16. ASSUME NEW w \in Workers, RetryReset(w) PROVE LedgerMove
  BY <1>16 DEF RetryReset, ResetWhere
<1>17. ASSUME NEW w \in Workers, ExecuteFulfillment(w) PROVE LedgerMove
  BY <1>17 DEF ExecuteFulfillment
<1>18. ASSUME NEW w \in Workers, LockOrder(w) PROVE LedgerMove BY <1>18 DEF LockOrder, LockWhere
<1>19. ASSUME NEW w \in Workers, ResolveRedeemAction(w) PROVE LedgerMove
  BY <1>19 DEF ResolveRedeemAction, RedeemAction
<1>20. ASSUME NEW w \in Workers, CreateCode(w) PROVE LedgerMove BY <1>20 DEF CreateCode
<1>21. ASSUME NEW w \in Workers, Redeem(w) PROVE LedgerMove BY <1>21 DEF Redeem
<1>22. ASSUME NEW w \in Workers, CheckAssigned(w) PROVE LedgerMove
  BY <1>22 DEF CheckAssigned, AlreadyAssigned
<1>23. ASSUME NEW w \in Workers, AssignSubscription(w) PROVE LedgerMove
  BY <1>23 DEF AssignSubscription
<1>24. ASSUME NEW w \in Workers, AuditAssigned(w) PROVE LedgerMove BY <1>24 DEF AuditAssigned
<1>25. ASSUME NEW w \in Workers, ApplyRebate(w) PROVE LedgerMove BY <1>25 DEF ApplyRebate
<1>26. ASSUME NEW w \in Workers, MarkCompleted(w) PROVE LedgerMove BY <1>26 DEF MarkCompleted
<1>27. ASSUME NEW w \in Workers, MarkFailed(w) PROVE LedgerMove BY <1>27 DEF MarkFailed
<1>28. ASSUME NEW w \in Workers, Crash(w) PROVE LedgerMove BY <1>28 DEF Crash
<1>29. ASSUME NEW a \in Amounts, PayUpstream(a) PROVE LedgerMove BY <1>29 DEF PayUpstream
<1>30. CASE Tick BY <1>30 DEF Tick
<1>31. CASE UNCHANGED vars BY <1>31
<1> QED BY <1>1, <1>2, <1>3, <1>4, <1>5, <1>6, <1>7, <1>8, <1>9, <1>10, <1>11,
      <1>12, <1>13, <1>14, <1>15, <1>16, <1>17, <1>18, <1>19, <1>20, <1>21,
      <1>22, <1>23, <1>24, <1>25, <1>26, <1>27, <1>28, <1>29, <1>30, <1>31 DEF
      OrderNext, Enter, Step

\* Without refunds the order goes through three phases of the ledger.
LEMMA PhaseIs ==
    ASSUME OrderInv
    PROVE  Phase = IF ~paidAt THEN "unpaid" ELSE IF status = "COMPLETED" THEN "done" ELSE "paid"
BY DEF OrderInv, PaymentInv, PaidStatuses, Phase

\* Every step of the order is a step of the ledger or leaves it unchanged.
LEMMA LedgerStep ==
    ASSUME OnceInv, OnceInv', [OrderNext]_vars
    PROVE  [Ledger!LedgerNext]_(Ledger!ledger)
<1>1. Phase = IF ~paidAt THEN "unpaid" ELSE IF status = "COMPLETED" THEN "done" ELSE "paid"
  BY PhaseIs DEF OnceInv
<1>2. Phase' = IF ~paidAt' THEN "unpaid" ELSE IF status' = "COMPLETED" THEN "done" ELSE "paid"
  BY DEF OnceInv, OrderInv, PaymentInv, PaidStatuses, Phase
<1>3. LedgerMove
  BY LedgerMoves DEF OnceInv
<1>4. credited \in {0, 1} /\ credited' \in {0, 1}
  BY OrderTypeAssumption DEF OnceInv, OrderInv, TypeOK, GoodsInv, GrantInv
<1> QED
  BY <1>1, <1>2, <1>3, <1>4 DEF LedgerMove, Ledger!LedgerNext, Ledger!ledger,
     Ledger!Pay, Ledger!Grant, Ledger!Finish

-----------------------------------------------------------------------------
(* The theorems.                                                           *)

\* Before the order exists all of it holds.
LEMMA InitInv == Init => OnceInv
<1> SUFFICES ASSUME Init PROVE OnceInv
  OBVIOUS
<1>1. TypeOK
  BY FaultAssumption DEF Init, TypeOK, Statuses, Labels, Jobs
<1>2. CreationInv /\ PaymentInv /\ FulfilmentExclusive
  BY DEF Init, CreationInv, PaymentInv, FulfilmentExclusive, Creating, Reported, Recorded,
     Fulfilling, PaidStatuses
<1>3. GoodsInv /\ GrantInv
  BY DEF Init, GoodsInv, GrantInv, AlreadyAssigned
<1> QED
  BY <1>1, <1>2, <1>3 DEF OnceInv, OrderInv

\* Both parts make up the type invariant.
LEMMA TypeStep ==
    ASSUME TypeOK, [OrderNext]_vars
    PROVE  TypeOK'
BY ControlStep, DataStep DEF TypeOK, ControlType, DataType

\* The parts of the invariant hold each other up.
LEMMA OrderInvStep == OrderInv /\ [OrderNext]_vars => OrderInv'
BY TypeStep, CreationStep, PaymentStep, ExclusiveStep, GoodsStep DEF OrderInv

\* Every handler, failure and crash leaves the order in a well-formed state.
THEOREM TypeCorrect == Spec => []TypeOK
<1>1. Init => TypeOK
  BY InitInv DEF OnceInv, OrderInv
<1>2. TypeOK /\ [OrderNext]_vars => TypeOK'
  BY TypeStep
<1> QED
  BY <1>1, <1>2, PTL DEF Spec

\* The inductive invariant that the safety theorems rest on.
THEOREM OrderInvariant == Spec => []OrderInv
<1>1. Init => OrderInv
  BY InitInv DEF OnceInv
<1> QED
  BY <1>1, OrderInvStep, PTL DEF Spec

\* At most one handler fulfils an order at a time, and only while the row is
\* RECHARGING, for any number of handlers and any failures (the conditional
\* updates of Execute*Fulfillment, markCompleted and markFailed).
THEOREM FulfilmentIsExclusive == Spec => []FulfilmentExclusive
BY OrderInvariant, PTL DEF OrderInv

\* Nothing is granted without a payment of the right amount that the order
\* records (confirmPayment, toPaid).
THEOREM CreditIsPaidFor == Spec => []CreditNeedsPayment
<1>1. OrderInv => CreditNeedsPayment
  BY AmountAssumption DEF OrderInv, TypeOK, GoodsInv, PaymentInv, CreditNeedsPayment, AmountOk
<1> QED
  BY <1>1, OrderInvariant, PTL

\* A completed order has been credited and its rebate settled (doBalance,
\* doSub, markCompleted).
THEOREM CompletionIsCredited == Spec => []CompletedIsCredited
<1>1. OrderInv => CompletedIsCredited
  BY DEF OrderInv, GoodsInv, CompletedIsCredited
<1> QED
  BY <1>1, OrderInvariant, PTL

\* The inviter's rebate is accrued at most once, for an order that was
\* credited (applyAffiliateRebateForOrder).
THEOREM RebateIsOnce == Spec => []RebateAtMostOnce
<1>1. OrderInv => RebateAtMostOnce
  BY DEF OrderInv, TypeOK, GoodsInv, RebateAtMostOnce
<1> QED
  BY <1>1, OrderInvariant, PTL

\* No handler takes a paid order back to an unpaid status or reopens a
\* completed one (the WHERE clauses of cancelCore, toPaid and the reset of
\* RetryFulfillment; CreateOrder's unconditional FAILED).
THEOREM PaidIsKept == Spec => PaidStaysPaid
<1>1. ASSUME OrderInv, OrderInv', [OrderNext]_vars
      PROVE  [/\ paidAt => paidAt' /\ status' \notin {"NONE", "PENDING", "CANCELLED", "EXPIRED"}
              /\ status = "COMPLETED" => status' = "COMPLETED"]_vars
  <2>1. LedgerMove
    BY <1>1, LedgerMoves
  <2> QED
    BY <1>1, <2>1 DEF LedgerMove, OrderInv, TypeOK, PaymentInv, PaidStatuses
<1> QED
  BY <1>1, OrderInvariant, PTL DEF Spec, PaidStaysPaid

\* The inductive invariant behind the grant made once.
THEOREM OnceInvariant == ASSUME GrantIsKnown PROVE Spec => []OnceInv
<1>1. OnceInv /\ [OrderNext]_vars => OnceInv'
  BY OrderInvStep, GrantStep DEF OnceInv
<1> QED
  BY <1>1, InitInv, PTL DEF Spec

\* What the order sells is granted at most once: a balance order under every
\* failure, a subscription as long as the audit log and the read after the
\* extension work (doBalance, doSub).
THEOREM CreditIsOnce == ASSUME GrantIsKnown PROVE Spec => []CreditedAtMostOnce
<1>1. OnceInv => CreditedAtMostOnce
  BY OrderTypeAssumption DEF OnceInv, OrderInv, TypeOK, GoodsInv, GrantInv, CreditedAtMostOnce
<1> QED
  BY <1>1, OnceInvariant, PTL

\* Under the same condition the order implements the ledger.
THEOREM OrderImplementsLedger == ASSUME GrantIsKnown PROVE Spec => ImplementsLedger
<1>1. Init => Ledger!Open
  BY DEF Init, Ledger!Open, Phase
<1>2. OnceInv /\ OnceInv' /\ [OrderNext]_vars => [Ledger!LedgerNext]_(Ledger!ledger)
  BY LedgerStep
<1> QED
  BY <1>1, <1>2, OnceInvariant, PTL DEF Spec, ImplementsLedger, Ledger!LedgerSpec

-----------------------------------------------------------------------------
(***************************************************************************)
(* Refunds.  An order under refund is, for the handlers of PaymentOrder,   *)
(* an order that is done: none of them changes anything but the trade      *)
(* number.  So the invariant of orders is kept for the statuses before,    *)
(* and Settled takes its place from COMPLETED on.                          *)
(***************************************************************************)

SettledStatuses == {"COMPLETED"} \union RefundStatuses

\* What a completed order says of its payment and its grant, and that nobody
\* creates or fulfils it.
Settled ==
    /\ paidAt /\ upstream = "paid" /\ AmountOk(paidAmt)
    /\ OrderType = "balance" => credited = IF code = "used" THEN 1 ELSE 0
    /\ credited >= 1 /\ rebates = 1 /\ "AFFILIATE_REBATE" \in audit
    /\ \A w \in Workers : pc[w] \notin Creating \union Fulfilling

OrderPart ==
    /\ status \notin SettledStatuses => OrderInv
    /\ status \in SettledStatuses => Settled

\* A refund works on the plan it prepared.
PlansMade ==
    \A r \in Refunders : rpc[r] \in Refunding \union {"lock"} =>
        plan[r].amount \in RefundAmounts

RefundInv == RefundTypeOK /\ OrderPart /\ RefundExclusive /\ PlansMade

\* Nothing of the user's is held back; or the audit log says that it may be.
Whole  == deducted = 0 /\ ~revoked
Booked == "REFUND_ROLLBACK_FAILED" \in audit

\* What one refund has taken while it asks the provider, and until it is
\* given back.
Taken(r) ==
    /\ plan[r].take = 0 => Booked \/ Whole
    /\ plan[r].take > 0 => \/ deducted = plan[r].take /\ ~revoked
                           \/ deducted = 0 /\ revoked

DeductionInv ==
    /\ deducted \in 0 .. Amount
    /\ status \notin SettledStatuses => Whole
    /\ status \in Refundable => Booked \/ Whole
    /\ \A r \in Refunders :
          /\ rpc[r] \in {"deduct", "restore"} => Booked \/ Whole
          /\ rpc[r] \in {"gateway", "rollback"} => Taken(r)
          /\ rpc[r] = "refundFailed" => Booked

\* The provider was not asked, and the audit log says so.
Skipped == gwRefunded = 0 /\ "REFUND_NO_TRADE_NO" \in audit

\* What the provider has paid back.
GatewayInv ==
    /\ status \notin {"REFUNDING", "REFUNDED", "PARTIALLY_REFUNDED"} => gwRefunded = 0
    /\ status = "REFUNDED" => gwRefunded = paidAmt \/ Skipped
    /\ \A r \in Refunders :
          /\ rpc[r] \in Refunding \ {"markOk"} => gwRefunded = 0
          /\ rpc[r] = "markOk" => gwRefunded = GatewayAmount(plan[r].amount) \/ Skipped

-----------------------------------------------------------------------------
(* What the handlers of PaymentOrder do to an order under refund.          *)

\* Late notifications, cancels, sweeps and retries find nothing to do.
Undisturbed ==
    /\ UNCHANGED <<status, paidAt, code, credited, rebates, audit, upstream, paidAmt>>
    /\ \A w \in Workers : pc'[w] \notin Creating \union Fulfilling

\* From COMPLETED on that is all they do.
LEMMA SettledStep ==
    ASSUME TypeOK, Settled, status \in SettledStatuses, [OrderNext]_vars
    PROVE  Undisturbed
<1> USE DEF TypeOK, Settled, SettledStatuses, RefundStatuses, Undisturbed, Creating,
            Fulfilling, Goto, Start, Return, At, vars, order, goods, provider, control
<1>1. ASSUME NEW w \in Workers, CreateOrder(w) PROVE Undisturbed BY <1>1 DEF CreateOrder
<1>2. ASSUME NEW w \in Workers, CancelOrder(w) PROVE Undisturbed BY <1>2 DEF CancelOrder
<1>3. ASSUME NEW w \in Workers, ExpireTimedOutOrders(w) PROVE Undisturbed
  BY <1>3 DEF ExpireTimedOutOrders, TimedOut
<1>4. ASSUME NEW w \in Workers, VerifyOrder(w) PROVE Undisturbed BY <1>4 DEF VerifyOrder
<1>5. ASSUME NEW w \in Workers, Webhook(w) PROVE Undisturbed BY <1>5 DEF Webhook
<1>6. ASSUME NEW w \in Workers, RetryFulfillment(w) PROVE Undisturbed BY <1>6 DEF RetryFulfillment
<1>7. ASSUME NEW w \in Workers, InvokeProvider(w) PROVE Undisturbed BY <1>7 DEF InvokeProvider
<1>8. ASSUME NEW w \in Workers, SaveTradeNo(w) PROVE Undisturbed BY <1>8 DEF SaveTradeNo
<1>9. ASSUME NEW w \in Workers, CreateFail(w) PROVE Undisturbed BY <1>9 DEF CreateFail
<1>10. ASSUME NEW w \in Workers, CheckPaid(w) PROVE Undisturbed BY <1>10 DEF CheckPaid, NotPaid
<1>11. ASSUME NEW w \in Workers, PersistTradeNo(w) PROVE Undisturbed BY <1>11 DEF PersistTradeNo
<1>12. ASSUME NEW w \in Workers, CloseUpstream(w) PROVE Undisturbed BY <1>12 DEF CloseUpstream
<1>13. ASSUME NEW w \in Workers, CancelCore(w) PROVE Undisturbed
  BY <1>13 DEF CancelCore, FinalStatus, CancelWhere
<1>14. ASSUME NEW w \in Workers, ConfirmPayment(w) PROVE Undisturbed
  BY <1>14 DEF ConfirmPayment, Confirmable
<1>15. ASSUME NEW w \in Workers, AlreadyProcessed(w) PROVE Undisturbed
  BY <1>15 DEF AlreadyProcessed
<1>16. ASSUME NEW w \in Workers, RetryReset(w) PROVE Undisturbed
  BY <1>16 DEF RetryReset, ResetWhere
<1>17. ASSUME NEW w \in Workers, ExecuteFulfillment(w) PROVE Undisturbed
  BY <1>17 DEF ExecuteFulfillment
<1>18. ASSUME NEW w \in Workers, LockOrder(w) PROVE Undisturbed BY <1>18 DEF LockOrder, LockWhere
<1>19. ASSUME NEW w \in Workers, ResolveRedeemAction(w) PROVE Undisturbed
  BY <1>19 DEF ResolveRedeemAction, RedeemAction
<1>20. ASSUME NEW w \in Workers, CreateCode(w) PROVE Undisturbed BY <1>20 DEF CreateCode
<1>21. ASSUME NEW w \in Workers, Redeem(w) PROVE Undisturbed BY <1>21 DEF Redeem
<1>22. ASSUME NEW w \in Workers, CheckAssigned(w) PROVE Undisturbed
  BY <1>22 DEF CheckAssigned, AlreadyAssigned
<1>23. ASSUME NEW w \in Workers, AssignSubscription(w) PROVE Undisturbed
  BY <1>23 DEF AssignSubscription
<1>24. ASSUME NEW w \in Workers, AuditAssigned(w) PROVE Undisturbed BY <1>24 DEF AuditAssigned
<1>25. ASSUME NEW w \in Workers, ApplyRebate(w) PROVE Undisturbed BY <1>25 DEF ApplyRebate
<1>26. ASSUME NEW w \in Workers, MarkCompleted(w) PROVE Undisturbed BY <1>26 DEF MarkCompleted
<1>27. ASSUME NEW w \in Workers, MarkFailed(w) PROVE Undisturbed BY <1>27 DEF MarkFailed
<1>28. ASSUME NEW w \in Workers, Crash(w) PROVE Undisturbed BY <1>28 DEF Crash
<1>29. ASSUME NEW a \in Amounts, PayUpstream(a) PROVE Undisturbed BY <1>29 DEF PayUpstream
<1>30. CASE Tick BY <1>30 DEF Tick
<1>31. CASE UNCHANGED vars BY <1>31
<1> QED BY <1>1, <1>2, <1>3, <1>4, <1>5, <1>6, <1>7, <1>8, <1>9, <1>10, <1>11,
      <1>12, <1>13, <1>14, <1>15, <1>16, <1>17, <1>18, <1>19, <1>20, <1>21,
      <1>22, <1>23, <1>24, <1>25, <1>26, <1>27, <1>28, <1>29, <1>30, <1>31 DEF
      OrderNext, Enter, Step

\* The handlers of PaymentOrder keep the order's part of the invariant, and
\* none of them begins or ends a refund.
LEMMA OrderPartStep ==
    ASSUME TypeOK, OrderPart, [OrderNext]_vars
    PROVE  /\ OrderPart'
           /\ status \in SettledStatuses => Undisturbed
           /\ status \notin SettledStatuses => status' \notin RefundStatuses
<1>1. TypeOK'
  BY TypeStep
<1>2. CASE status \in SettledStatuses
  <2>1. Settled /\ Undisturbed
    BY <1>2, SettledStep DEF OrderPart
  <2>2. Settled'
    BY <2>1 DEF Settled, Undisturbed
  <2>3. status' \in SettledStatuses
    BY <1>2, <2>1 DEF Undisturbed
  <2> QED
    BY <1>1, <1>2, <2>1, <2>2, <2>3 DEF OrderPart
<1>3. CASE status \notin SettledStatuses
  <2>1. OrderInv'
    BY <1>3, OrderInvStep DEF OrderPart
  <2>2. status' \notin RefundStatuses
    BY <2>1 DEF OrderInv, PaymentInv, PaidStatuses, RefundStatuses
  <2>3. ASSUME status' \in SettledStatuses PROVE Settled'
    <3>1. status' = "COMPLETED"
      BY <2>2, <2>3 DEF SettledStatuses
    <3> QED
      BY <1>1, <2>1, <3>1 DEF OrderInv, CreationInv, PaymentInv, FulfilmentExclusive, GoodsInv,
         Settled, Creating, Fulfilling, PaidStatuses
  <2> QED
    BY <1>1, <1>3, <2>1, <2>2, <2>3 DEF OrderPart
<1> QED
  BY <1>2, <1>3

-----------------------------------------------------------------------------
(* Types.                                                                  *)

\* The amount asked of the provider is a number.
LEMMA GatewayAmountType ==
    ASSUME paidAmt \in Nat, NEW a \in RefundAmounts \union {0}
    PROVE  GatewayAmount(a) \in Nat
<1>1. a \in Nat /\ Amount \in Nat /\ Amount > 0
  BY RefundAssumption
<1>2. paidAmt * a \in Nat
  BY <1>1
<1>3. \A n \in Nat : n \div Amount \in Nat
  BY <1>1
<1> QED
  BY <1>1, <1>2, <1>3 DEF GatewayAmount

\* So is what the user holds.
LEMMA HoldingType == ASSUME RefundTypeOK PROVE Holding \in Int
<1>1. credited * Amount \in Int
  BY RefundAssumption DEF RefundTypeOK, TypeOK
<1> QED
  BY <1>1, RefundAssumption DEF RefundTypeOK, TypeOK, Holding

\* prepDeduct plans to take no more than the refund or the subscription.
LEMMA TakesType ==
    ASSUME RefundTypeOK, NEW amt \in RefundAmounts, NEW deduct \in BOOLEAN, NEW force \in BOOLEAN
    PROVE  Takes(amt, deduct, force) \subseteq 0 .. Amount
<1>1. Holding \in Int /\ amt \in 1 .. Amount /\ Amount \in Nat
  BY HoldingType, RefundAssumption
<1>2. Holding > 0 => Min2(amt, Holding) \in 0 .. Amount
  BY <1>1 DEF Min2
<1> QED
  BY <1>1, <1>2, OrderTypeAssumption DEF Takes

\* A refund handler only moves between the labels of its program, with a plan
\* of the right form.
RefundControl ==
    rpc' \in [Refunders -> RefundLabels] /\ plan' \in [Refunders -> Plans]

\* Going on keeps the plan ...
LEMMA GotoType ==
    ASSUME RefundTypeOK, NEW r \in Refunders, NEW l \in RefundLabels, RGoto(r, l)
    PROVE  RefundControl
BY DEF RefundTypeOK, RGoto, RefundControl

\* ... and returning drops it.
LEMMA ReturnType ==
    ASSUME RefundTypeOK, NEW r \in Refunders, RReturn(r)
    PROVE  RefundControl
<1>1. NoPlan \in Plans
  BY RefundAssumption DEF NoPlan, Plans
<1> QED
  BY <1>1 DEF RefundTypeOK, RReturn, RefundControl, RefundLabels

\* Leaving the deduction out of a plan makes a plan.
LEMMA SkippedPlan ==
    ASSUME plan \in [Refunders -> Plans], NEW r \in Refunders
    PROVE  [plan EXCEPT ![r].take = 0] \in [Refunders -> Plans]
BY RefundAssumption DEF Plans

\* What no refund touches, and what one may do to the columns it does.
LEMMA RefundColumns ==
    ASSUME RefundTypeOK, UNCHANGED rest, Fine \/ \E k \in FaultKinds : Fault(k),
           status' \in Statuses, updatedAt' \in {updatedAt, now}, audit' \subseteq AuditActions
    PROVE  TypeOK'
<1>1. faults' \in Nat
  BY FaultType DEF RefundTypeOK, TypeOK
<1> QED
  BY <1>1 DEF RefundTypeOK, TypeOK, rest, provider, control

\* Every step of a refund keeps the types.
LEMMA RefundStepType ==
    ASSUME RefundTypeOK, NEW r \in Refunders, RefundStep(r) \/ RefundCrash(r)
    PROVE  RefundTypeOK'
<1> USE DEF RefundTypeOK
<1> DEFINE Types == /\ RefundControl /\ TypeOK'
                    /\ deducted' \in Int /\ revoked' \in BOOLEAN /\ gwRefunded' \in Nat /\ spent' \in Nat
<1>0. SUFFICES Types
  BY DEF RefundControl
<1>a. TypeOK BY DEF RefundTypeOK
<1>b. status \in Statuses /\ audit \subseteq AuditActions
  BY DEF TypeOK
<1>1. CASE RequestRefund(r)
  <2>1. RefundControl
    BY <1>1, GotoType DEF RequestRefund, RefundLabels
  <2>2. TypeOK'
    BY <1>1, <1>b, RefundColumns DEF RequestRefund
  <2> QED
    BY <1>1, <2>1, <2>2 DEF RequestRefund
<1>2. CASE MarkRequested(r)
  <2>1. RefundControl
    BY <1>2, ReturnType DEF MarkRequested
  <2>2. status' \in Statuses /\ updatedAt' \in {updatedAt, now}
    BY <1>2, <1>b DEF MarkRequested, SetStatus, Statuses
  <2>3. Fine \/ \E k \in FaultKinds : Fault(k)
    BY <1>2 DEF MarkRequested, FaultKinds
  <2>4. TypeOK'
    BY <1>2, <1>b, <2>2, <2>3, RefundColumns DEF MarkRequested
  <2> QED
    BY <1>2, <2>1, <2>4 DEF MarkRequested
<1>3. ASSUME NEW amt \in RefundAmounts, NEW deduct \in BOOLEAN, NEW force \in BOOLEAN,
             PrepareRefund(r, amt, deduct, force)
      PROVE  Types
  <2>1. PICK t \in Takes(amt, deduct, force) :
           plan' = [plan EXCEPT ![r] = [amount |-> amt, take |-> t, from |-> status,
                                        trade |-> tradeNo # "none"]]
    BY <1>3 DEF PrepareRefund
  <2>2. t \in 0 .. Amount
    BY <2>1, TakesType
  <2>3. status \in Refundable
    BY <1>3 DEF PrepareRefund
  <2>4. [amount |-> amt, take |-> t, from |-> status, trade |-> tradeNo # "none"] \in Plans
    BY <2>2, <2>3 DEF Plans
  <2>5. RefundControl
    BY <1>3, <2>1, <2>4 DEF PrepareRefund, RefundControl, RefundLabels
  <2>6. TypeOK'
    BY <1>3, <1>b, RefundColumns DEF PrepareRefund
  <2> QED
    BY <1>3, <2>5, <2>6 DEF PrepareRefund
<1>4. CASE LockRefund(r)
  <2>1. RefundControl
    BY <1>4, GotoType, ReturnType DEF LockRefund, RefundLabels
  <2>2. status' \in Statuses /\ updatedAt' \in {updatedAt, now}
    BY <1>4, <1>b DEF LockRefund, SetStatus, Statuses
  <2>3. Fine \/ \E k \in FaultKinds : Fault(k)
    BY <1>4 DEF LockRefund, FaultKinds
  <2>4. TypeOK'
    BY <1>4, <1>b, <2>2, <2>3, RefundColumns DEF LockRefund
  <2> QED
    BY <1>4, <2>1, <2>4 DEF LockRefund
<1>5. CASE Deduct(r)
  <2>1. Fine \/ \E k \in FaultKinds : Fault(k)
    BY <1>5 DEF Deduct, FaultKinds
  <2>2. TypeOK'
    BY <1>5, <1>b, <2>1, RefundColumns DEF Deduct
  <2>3. plan[r].take \in 0 .. Amount
    BY DEF Plans
  <2>4. ASSUME RGoto(r, "gateway") \/ RGoto(r, "restore") PROVE RefundControl
    BY <2>4, GotoType DEF RefundLabels
  <2>5. ASSUME SkipDeduction(r) PROVE RefundControl
    BY <2>5, SkippedPlan DEF SkipDeduction, RefundControl, RefundLabels
  <2>6. RefundControl
    BY <1>5, <2>4, <2>5 DEF Deduct, TakeBack
  <2>7. ASSUME SkipDeduction(r) PROVE deducted' = deducted /\ revoked' = revoked
    BY <2>7, Zenon DEF SkipDeduction
  <2>8. ASSUME TakeBack(r) PROVE deducted' \in Int /\ revoked' \in BOOLEAN
    <3>1. deducted' \in Int
      BY <2>3, <2>8 DEF TakeBack
    <3>2. revoked' \in BOOLEAN
      BY <2>8, Zenon DEF TakeBack
    <3> QED
      BY <3>1, <3>2
  <2>9. deducted' \in Int /\ revoked' \in BOOLEAN
    BY <1>5, <2>7, <2>8 DEF Deduct
  <2> QED
    BY <1>5, <2>2, <2>6, <2>9 DEF Deduct
<1>6. CASE GatewayRefund(r)
  <2>1. Fine \/ \E k \in FaultKinds : Fault(k)
    BY <1>6 DEF GatewayRefund, FaultKinds
  <2>0. audit' \subseteq AuditActions
    BY <1>6, <1>b DEF GatewayRefund, AuditActions, TypeOK
  <2>2. TypeOK'
    BY <1>6, <1>b, <2>0, <2>1, RefundColumns DEF GatewayRefund
  <2>3. ASSUME RGoto(r, "markOk") \/ RGoto(r, "rollback") PROVE RefundControl
    BY <2>3, GotoType DEF RefundLabels
  <2>4. RefundControl
    BY <1>6, <2>3 DEF GatewayRefund
  <2>5. GatewayAmount(plan[r].amount) \in Nat
    BY GatewayAmountType DEF Plans, TypeOK
  <2>6. gwRefunded' \in Nat
    BY <1>6, <2>5 DEF GatewayRefund
  <2> QED
    BY <1>6, <2>2, <2>4, <2>6 DEF GatewayRefund
<1>7. CASE RollbackRefund(r)
  <2>1. Fine \/ \E k \in FaultKinds : Fault(k)
    BY <1>7 DEF RollbackRefund, FaultKinds
  <2>2. TypeOK'
    BY <1>7, <1>b, <2>1, RefundColumns DEF RollbackRefund
  <2>3. RefundControl
    BY <1>7, GotoType DEF RollbackRefund, RefundLabels
  <2>4. plan[r].take \in 0 .. Amount
    BY DEF Plans
  <2> QED
    BY <1>7, <2>2, <2>3, <2>4 DEF RollbackRefund
<1>8. CASE AuditRollback(r)
  <2>1. Fine \/ \E k \in FaultKinds : Fault(k)
    BY <1>8 DEF AuditRollback, FaultKinds
  <2>2. audit' \subseteq AuditActions
    BY <1>8, <1>b DEF AuditRollback, AuditActions
  <2>3. TypeOK'
    BY <1>8, <1>b, <2>1, <2>2, RefundColumns DEF AuditRollback
  <2>4. RefundControl
    BY <1>8, GotoType DEF AuditRollback, RefundLabels
  <2> QED
    BY <1>8, <2>3, <2>4 DEF AuditRollback
<1>9. ASSUME NEW l, NEW s \in Statuses, Finally(r, l, s) PROVE Types
  <2>1. Fine \/ \E k \in FaultKinds : Fault(k)
    BY <1>9 DEF Finally, FaultKinds
  <2>2. status' \in Statuses /\ updatedAt' \in {updatedAt, now}
    BY <1>9, <1>b DEF Finally, SetStatus
  <2>3. TypeOK'
    BY <1>9, <1>b, <2>1, <2>2, RefundColumns DEF Finally
  <2>4. RefundControl
    BY <1>9, ReturnType DEF Finally
  <2> QED
    BY <1>9, <2>3, <2>4 DEF Finally
<1>10. CASE MarkRefundFailed(r) \/ RestoreStatus(r) \/ MarkRefundOk(r)
  BY <1>9, <1>10 DEF MarkRefundFailed, RestoreStatus, MarkRefundOk, Statuses
<1>11. CASE RefundCrash(r)
  <2>1. Fine \/ \E k \in FaultKinds : Fault(k)
    BY <1>11 DEF RefundCrash, FaultKinds
  <2>2. TypeOK'
    BY <1>11, <1>b, <2>1, RefundColumns DEF RefundCrash
  <2> QED
    BY <1>11, <2>2, ReturnType DEF RefundCrash
<1> QED
  BY <1>1, <1>2, <1>3, <1>4, <1>5, <1>6, <1>7, <1>8, <1>10, <1>11 DEF RefundStep

\* Every step keeps the types.
LEMMA RefundTypes ==
    ASSUME RefundTypeOK, [RefundNext]_allVars
    PROVE  RefundTypeOK'
<1>1. CASE OrderNext /\ UNCHANGED refundVars
  BY <1>1, TypeStep DEF RefundTypeOK, refundVars
<1>2. CASE Spend
  <2>1. TypeOK'
    BY <1>2, RefundColumns DEF Spend, RefundTypeOK, TypeOK
  <2> QED
    BY <1>2, <2>1 DEF Spend, RefundTypeOK
<1>3. CASE UNCHANGED allVars
  <2>1. TypeOK'
    BY <1>3, TypeStep DEF RefundTypeOK, allVars
  <2> QED
    BY <1>3, <2>1 DEF RefundTypeOK, allVars, refundVars
<1> QED
  BY <1>1, <1>2, <1>3, RefundStepType DEF RefundNext

-----------------------------------------------------------------------------
(* The lock.                                                               *)

\* What a step of refund handler r does to the status and to its own place:
\* it looks, asks, prepares, locks, works under the lock or gives it up.
Turn(r) ==
    /\ \A q \in Refunders \ {r} : rpc'[q] = rpc[q] /\ plan'[q] = plan[q]
    /\ \/ UNCHANGED status /\ rpc'[r] \in {"idle", "request"}
       \/ rpc'[r] = "idle" /\ status = "COMPLETED" /\ status' = "REFUND_REQUESTED"
       \/ /\ UNCHANGED status /\ rpc'[r] = "lock"
          /\ plan'[r].amount \in RefundAmounts
       \/ /\ rpc[r] = "lock" /\ status \in Refundable
          /\ status' = "REFUNDING" /\ rpc'[r] = "deduct" /\ plan'[r] = plan[r]
       \/ /\ rpc[r] \in Refunding /\ rpc'[r] \in Refunding /\ UNCHANGED status
          /\ plan'[r].amount = plan[r].amount
       \/ /\ rpc[r] \in Refunding /\ rpc'[r] = "idle"
          /\ status' \in {"REFUND_FAILED", "REFUND_REQUESTED", "COMPLETED",
                          "PARTIALLY_REFUNDED", "REFUNDED"}

\* What it leaves of the order: the audit log is written under the lock only.
Columns ==
    /\ UNCHANGED <<paidAt, tradeNo, code, credited, rebates, upstream, paidAmt, pc>>
    /\ audit \subseteq audit'
    /\ audit' # audit => \E r \in Refunders : rpc[r] \in Refunding

\* A handler moves itself and nobody else.
LEMMA GotoMoves ==
    ASSUME RefundTypeOK, NEW r \in Refunders, NEW l, RGoto(r, l)
    PROVE  /\ rpc'[r] = l /\ plan'[r] = plan[r]
           /\ \A q \in Refunders \ {r} : rpc'[q] = rpc[q] /\ plan'[q] = plan[q]
BY DEF RefundTypeOK, RGoto

\* The same of a handler that returns ...
LEMMA ReturnMoves ==
    ASSUME RefundTypeOK, NEW r \in Refunders, RReturn(r)
    PROVE  /\ rpc'[r] = "idle"
           /\ \A q \in Refunders \ {r} : rpc'[q] = rpc[q] /\ plan'[q] = plan[q]
BY DEF RefundTypeOK, RReturn

\* ... and of one that leaves an earlier deduction as it is.
LEMMA SkipMoves ==
    ASSUME RefundTypeOK, NEW r \in Refunders, SkipDeduction(r)
    PROVE  /\ rpc'[r] = "gateway" /\ plan'[r].take = 0
           /\ plan'[r].amount = plan[r].amount
           /\ \A q \in Refunders \ {r} : rpc'[q] = rpc[q] /\ plan'[q] = plan[q]
BY DEF RefundTypeOK, SkipDeduction, Plans

\* Every step of a refund handler is one of these.
LEMMA RefundMoves ==
    ASSUME RefundTypeOK, OrderPart, NEW r \in Refunders, RefundStep(r) \/ RefundCrash(r)
    PROVE  Turn(r) /\ Columns
<1> USE GotoMoves, ReturnMoves DEF Columns, rest, provider, control, RAt
<1>1. CASE RequestRefund(r)
  BY <1>1 DEF RequestRefund, Turn
<1>2. CASE MarkRequested(r)
  BY <1>2 DEF MarkRequested, SetStatus, Turn
<1>3. ASSUME NEW amt \in RefundAmounts, NEW deduct \in BOOLEAN, NEW force \in BOOLEAN,
             PrepareRefund(r, amt, deduct, force)
      PROVE  Turn(r) /\ Columns
  <2>2. PICK t : plan' = [plan EXCEPT ![r] = [amount |-> amt, take |-> t, from |-> status,
                                              trade |-> tradeNo # "none"]]
    BY <1>3 DEF PrepareRefund
  <2>3. plan'[r] = [amount |-> amt, take |-> t, from |-> status, trade |-> tradeNo # "none"]
    BY <2>2 DEF RefundTypeOK
  <2>4. plan'[r].amount = amt
    BY <2>3
  <2>5. rpc'[r] = "lock" /\ \A q \in Refunders \ {r} : rpc'[q] = rpc[q] /\ plan'[q] = plan[q]
    BY <1>3 DEF PrepareRefund, RefundTypeOK
  <2> QED
    BY <1>3, <2>4, <2>5 DEF PrepareRefund, Turn
<1>4. CASE LockRefund(r)
  BY <1>4 DEF LockRefund, LockRefundWhere, SetStatus, Turn
<1>5. CASE Deduct(r)
  <2>1. rpc[r] \in Refunding /\ UNCHANGED status /\ Columns
    BY <1>5 DEF Deduct, Refunding, RefundLabels
  <2>2. ASSUME RGoto(r, "gateway") \/ RGoto(r, "restore") PROVE Turn(r)
    BY <2>1, <2>2 DEF Turn, Refunding, RefundLabels
  <2>3. ASSUME SkipDeduction(r) PROVE Turn(r)
    BY <2>1, <2>3, SkipMoves DEF Turn, Refunding, RefundLabels
  <2> QED
    BY <1>5, <2>1, <2>2, <2>3 DEF Deduct, TakeBack
<1>6. CASE GatewayRefund(r)
  <2>1. rpc[r] \in Refunding /\ UNCHANGED status /\ Columns
    BY <1>6 DEF GatewayRefund, Refunding, RefundLabels
  <2>2. RGoto(r, "markOk") \/ RGoto(r, "rollback")
    BY <1>6 DEF GatewayRefund
  <2> QED
    BY <2>1, <2>2 DEF Turn, Refunding, RefundLabels
<1>7. CASE RollbackRefund(r)
  <2>1. rpc[r] \in Refunding /\ UNCHANGED status /\ Columns
    BY <1>7 DEF RollbackRefund, Refunding, RefundLabels
  <2>2. RGoto(r, "restore") \/ RGoto(r, "auditRollback")
    BY <1>7 DEF RollbackRefund
  <2> QED
    BY <2>1, <2>2 DEF Turn, Refunding, RefundLabels
<1>8. CASE AuditRollback(r)
  <2>1. rpc[r] \in Refunding /\ UNCHANGED status /\ Columns
    BY <1>8 DEF AuditRollback, Refunding, RefundLabels
  <2> QED
    BY <1>8, <2>1 DEF AuditRollback, Turn, Refunding, RefundLabels
<1>9. ASSUME NEW l \in Refunding, NEW s, Finally(r, l, s),
             s \in {"REFUND_FAILED", "REFUND_REQUESTED", "COMPLETED", "PARTIALLY_REFUNDED",
                    "REFUNDED"}
      PROVE  Turn(r) /\ Columns
  BY <1>9 DEF Finally, SetStatus, Turn
<1>10. CASE MarkRefundFailed(r) \/ RestoreStatus(r) \/ MarkRefundOk(r)
  <2>1. {"refundFailed", "restore", "markOk"} \subseteq Refunding
    BY DEF Refunding, RefundLabels
  <2> QED
    BY <1>9, <1>10, <2>1 DEF MarkRefundFailed, RestoreStatus, MarkRefundOk
<1>11. CASE RefundCrash(r)
  BY <1>11 DEF RefundCrash, Turn
<1> QED
  BY <1>1, <1>2, <1>3, <1>4, <1>5, <1>6, <1>7, <1>8, <1>10, <1>11 DEF RefundStep

\* The conditional update to REFUNDING admits one handler, and it alone
\* leaves that status again.
LEMMA TurnKeepsLock ==
    ASSUME RefundExclusive, PlansMade, NEW r \in Refunders, Turn(r)
    PROVE  /\ RefundExclusive' /\ PlansMade'
           /\ status' # status => status \in SettledStatuses /\ status' \in SettledStatuses
<1>1. status \in Refundable => \A q \in Refunders : rpc[q] \notin Refunding
  BY DEF RefundExclusive, Refundable
<1>2. {"idle", "request", "lock"} \cap Refunding = {} /\ "deduct" \in Refunding
  BY DEF Refunding, RefundLabels
<1>3. "COMPLETED" \in Refundable /\ Refundable \subseteq SettledStatuses
  BY DEF Refundable, SettledStatuses, RefundStatuses
<1>4. RefundExclusive'
  BY <1>1, <1>2, <1>3 DEF RefundExclusive, Turn
<1>5. PlansMade'
  BY <1>2 DEF PlansMade, Turn
<1>6. status' # status => status \in SettledStatuses /\ status' \in SettledStatuses
  BY DEF RefundExclusive, Turn, SettledStatuses, RefundStatuses, Refundable
<1> QED
  BY <1>4, <1>5, <1>6

\* What a refund leaves of the order keeps the order's part.
LEMMA ColumnsKeepOrder ==
    ASSUME TypeOK', OrderPart, RefundExclusive, Columns,
           status' # status => status \in SettledStatuses /\ status' \in SettledStatuses
    PROVE  OrderPart'
<1>2. CASE status \in SettledStatuses
  <2>1. Settled' /\ status' \in SettledStatuses
    BY <1>2 DEF OrderPart, Settled, Columns
  <2> QED
    BY <2>1 DEF OrderPart
<1>3. CASE status \notin SettledStatuses
  <2>1. UNCHANGED <<status, audit>>
    BY <1>3 DEF Columns, RefundExclusive, SettledStatuses, RefundStatuses
  <2>2. OrderInv
    BY <1>3 DEF OrderPart
  <2>3. CreationInv' /\ FulfilmentExclusive'
    BY <2>1, <2>2 DEF OrderInv, CreationInv, FulfilmentExclusive, Columns
  <2>4. PaymentInv'
    BY <2>1, <2>2 DEF OrderInv, PaymentInv, Columns
  <2>5. GoodsInv'
    BY <2>1, <2>2 DEF OrderInv, GoodsInv, AlreadyAssigned, Columns
  <2> QED
    BY <1>3, <2>1, <2>3, <2>4, <2>5 DEF OrderPart, OrderInv
<1> QED
  BY <1>2, <1>3

\* The user's spending leaves the order and the refunds alone.
LEMMA SpendQuiet ==
    ASSUME Spend
    PROVE  /\ UNCHANGED <<status, audit, rpc, plan, deducted, revoked, gwRefunded>>
           /\ UNCHANGED <<paidAt, tradeNo, code, credited, rebates, upstream, paidAmt, pc>>
BY DEF Spend, rest, provider, control

\* The handlers of the order leave the refunds alone, and the status of an
\* order under refund.
LEMMA OrderQuiet ==
    ASSUME RefundInv, OrderNext, UNCHANGED refundVars
    PROVE  /\ OrderPart' /\ UNCHANGED <<rpc, plan, deducted, revoked, gwRefunded>>
           /\ status \in SettledStatuses => UNCHANGED <<status, audit, paidAmt>>
           /\ status \notin SettledStatuses => status' \notin RefundStatuses
BY OrderPartStep DEF RefundInv, RefundTypeOK, refundVars, Undisturbed

\* The parts of the invariant hold each other up.
LEMMA RefundInvStep ==
    ASSUME RefundInv, [RefundNext]_allVars
    PROVE  RefundInv'
<1>1. RefundTypeOK'
  BY RefundTypes DEF RefundInv
<1>2. CASE OrderNext /\ UNCHANGED refundVars
  <2>1. OrderPart' /\ PlansMade'
    BY <1>2, OrderQuiet DEF RefundInv, PlansMade
  <2>2. RefundExclusive'
    BY <1>2, OrderQuiet DEF RefundInv, RefundExclusive, SettledStatuses, RefundStatuses
  <2> QED
    BY <1>1, <2>1, <2>2 DEF RefundInv
<1>3. ASSUME NEW r \in Refunders, RefundStep(r) \/ RefundCrash(r) PROVE RefundInv'
  <2>1. Turn(r) /\ Columns
    BY <1>3, RefundMoves DEF RefundInv
  <2>2. TypeOK'
    BY <1>1 DEF RefundTypeOK
  <2> QED
    BY <1>1, <2>1, <2>2, TurnKeepsLock, ColumnsKeepOrder DEF RefundInv
<1>4. CASE Spend
  <2>1. TypeOK' /\ UNCHANGED status /\ Columns
    BY <1>1, <1>4, SpendQuiet DEF RefundTypeOK, Columns
  <2>2. OrderPart'
    BY <2>1, ColumnsKeepOrder DEF RefundInv
  <2> QED
    BY <1>1, <1>4, <2>2, SpendQuiet DEF RefundInv, RefundExclusive, PlansMade
<1>5. CASE UNCHANGED allVars
  <2>1. OrderPart'
    BY <1>5, OrderPartStep DEF RefundInv, RefundTypeOK, allVars
  <2> QED
    BY <1>1, <1>5, <2>1 DEF RefundInv, RefundExclusive, PlansMade, allVars, refundVars, vars, order
<1> QED
  BY <1>2, <1>3, <1>4, <1>5 DEF RefundNext

-----------------------------------------------------------------------------
(* What is taken from the user.                                            *)

\* A handler under the lock is alone there.
LEMMA AloneUnderLock ==
    ASSUME RefundExclusive, NEW r \in Refunders, rpc[r] \in Refunding, Turn(r)
    PROVE  /\ status = "REFUNDING"
           /\ \A q \in Refunders \ {r} : rpc'[q] \notin Refunding
BY DEF RefundExclusive, Turn

\* Outside the lock a refund handler takes and gives nothing.
LEMMA OutsideKeeps ==
    ASSUME RefundTypeOK, NEW r \in Refunders, RefundStep(r) \/ RefundCrash(r),
           rpc[r] \notin Refunding
    PROVE  UNCHANGED <<deducted, revoked, gwRefunded, audit>>
<1> USE DEF RAt, Refunding, RefundLabels
<1>1. CASE RequestRefund(r) BY <1>1 DEF RequestRefund
<1>2. CASE MarkRequested(r) BY <1>2 DEF MarkRequested
<1>3. CASE \E amt \in RefundAmounts, deduct, force \in BOOLEAN : PrepareRefund(r, amt, deduct, force)
  BY <1>3 DEF PrepareRefund
<1>4. CASE LockRefund(r) BY <1>4 DEF LockRefund
<1>5. CASE Deduct(r) BY <1>5 DEF Deduct
<1>6. CASE GatewayRefund(r) BY <1>6 DEF GatewayRefund
<1>7. CASE RollbackRefund(r) BY <1>7 DEF RollbackRefund
<1>8. CASE AuditRollback(r) BY <1>8 DEF AuditRollback
<1>9. CASE MarkRefundFailed(r) \/ RestoreStatus(r) \/ MarkRefundOk(r)
  BY <1>9 DEF MarkRefundFailed, RestoreStatus, MarkRefundOk, Finally
<1>10. CASE RefundCrash(r) BY <1>10 DEF RefundCrash
<1> QED
  BY <1>1, <1>2, <1>3, <1>4, <1>5, <1>6, <1>7, <1>8, <1>9, <1>10 DEF RefundStep

\* The part of DeductionInv about one handler.
Deducting(r) ==
    /\ rpc[r] \in {"deduct", "restore"} => Booked \/ Whole
    /\ rpc[r] \in {"gateway", "rollback"} => Taken(r)
    /\ rpc[r] = "refundFailed" => Booked

\* The invariant is the sum of its parts.
LEMMA DeductingIs ==
    DeductionInv <=> /\ deducted \in 0 .. Amount
                     /\ status \notin SettledStatuses => Whole
                     /\ status \in Refundable => Booked \/ Whole
                     /\ \A r \in Refunders : Deducting(r)
BY DEF DeductionInv, Deducting

\* The handler under the lock books what it takes, gives it back or says in
\* the audit log that it could not.
LEMMA DeductingStep ==
    ASSUME "audit" \notin Faults, RefundInv, DeductionInv, NEW r \in Refunders,
           rpc[r] \in Refunding, RefundStep(r) \/ RefundCrash(r)
    PROVE  /\ deducted' \in 0 .. Amount /\ Deducting(r)'
           /\ status' \in Refundable => Booked' \/ Whole'
<1> DEFINE Goal == /\ deducted' \in 0 .. Amount /\ Deducting(r)'
                   /\ status' \in Refundable => Booked' \/ Whole'
<1>t. RefundTypeOK /\ status = "REFUNDING" /\ deducted \in 0 .. Amount /\ revoked \in BOOLEAN
  BY DEF RefundInv, RefundExclusive, RefundTypeOK, DeductionInv
<1>p. plan[r].take \in 0 .. Amount /\ Amount \in Nat
  BY <1>t, RefundAssumption DEF RefundTypeOK, Plans
<1>d. Deducting(r)
  BY DeductingIs
<1>s. "REFUNDING" \notin Refundable
  BY DEF Refundable
<1>1. CASE RequestRefund(r) \/ MarkRequested(r) \/ LockRefund(r)
  BY <1>1 DEF RequestRefund, MarkRequested, LockRefund, RAt, Refunding
<1>2. ASSUME NEW amt \in RefundAmounts, NEW deduct \in BOOLEAN, NEW force \in BOOLEAN,
             PrepareRefund(r, amt, deduct, force)
      PROVE  Goal
  BY <1>2 DEF PrepareRefund, RAt, Refunding
<1>3. CASE Deduct(r)
  <2>1. rpc[r] = "deduct" /\ (Booked \/ Whole) /\ status' = status /\ audit' = audit
    BY <1>3, <1>d DEF Deduct, RAt, Deducting
  <2>2. ASSUME RGoto(r, "restore"), UNCHANGED <<deducted, revoked>> PROVE Goal
    <3>1. rpc'[r] = "restore" /\ (Booked' \/ Whole')
      BY <1>t, <2>1, <2>2, GotoMoves DEF Booked, Whole
    <3> QED
      BY <1>t, <1>s, <2>1, <2>2, <3>1 DEF Deducting
  <2>3. ASSUME plan[r].take = 0, RGoto(r, "gateway"), UNCHANGED <<deducted, revoked>> PROVE Goal
    <3>1. rpc'[r] = "gateway" /\ plan'[r] = plan[r] /\ (Booked' \/ Whole')
      BY <1>t, <2>1, <2>3, GotoMoves DEF Booked, Whole
    <3>2. Taken(r)'
      BY <2>3, <3>1 DEF Taken
    <3> QED
      BY <1>t, <1>s, <2>1, <2>3, <3>1, <3>2 DEF Deducting
  <2>4. ASSUME SkipDeduction(r) PROVE Goal
    <3>1. deducted' = deducted /\ revoked' = revoked /\ Booked'
      BY <2>1, <2>4, Zenon DEF SkipDeduction, DeductedBefore, Booked
    <3>2. rpc'[r] = "gateway" /\ plan'[r].take = 0
      BY <1>t, <2>4, SkipMoves
    <3>3. Taken(r)'
      BY <3>1, <3>2 DEF Taken
    <3> QED
      BY <1>t, <1>s, <2>1, <3>1, <3>2, <3>3 DEF Deducting
  <2>5. ASSUME plan[r].take > 0, ~DeductedBefore, TakeBack(r) PROVE Goal
    <3>1. Whole
      BY <2>1, <2>5 DEF DeductedBefore, Booked
    <3>2. ASSUME deducted' = deducted + plan[r].take, RGoto(r, "gateway"), UNCHANGED revoked
          PROVE  Goal
      <4>1. rpc'[r] = "gateway" /\ plan'[r] = plan[r]
        BY <1>t, <3>2, GotoMoves
      <4>2. deducted' = plan[r].take /\ ~revoked'
        BY <1>p, <3>1, <3>2 DEF Whole
      <4>3. Taken(r)'
        BY <2>5, <4>1, <4>2 DEF Taken
      <4> QED
        BY <1>p, <1>t, <1>s, <2>1, <4>1, <4>2, <4>3 DEF Deducting
    <3>3. ASSUME revoked' = TRUE, RGoto(r, "gateway"), UNCHANGED deducted
          PROVE  Goal
      <4>1. rpc'[r] = "gateway" /\ plan'[r] = plan[r]
        BY <1>t, <3>3, GotoMoves
      <4>2. deducted' = 0 /\ revoked'
        BY <3>1, <3>3 DEF Whole
      <4>3. Taken(r)'
        BY <2>5, <4>1, <4>2 DEF Taken
      <4> QED
        BY <1>p, <1>t, <1>s, <2>1, <4>1, <4>2, <4>3 DEF Deducting
    <3> QED
      BY <2>2, <2>5, <3>2, <3>3 DEF TakeBack
  <2>6. ~Fault("audit")
    BY DEF Fault
  <2> QED
    BY <1>3, <2>2, <2>3, <2>4, <2>5, <2>6 DEF Deduct
<1>4. CASE GatewayRefund(r)
  <2>1. rpc[r] = "gateway" /\ Taken(r) /\ UNCHANGED <<status, deducted, revoked>>
        /\ audit \subseteq audit'
    BY <1>4, <1>d DEF GatewayRefund, RAt, Deducting
  <2>2. RGoto(r, "markOk") \/ RGoto(r, "rollback")
    BY <1>4 DEF GatewayRefund
  <2>3. rpc'[r] \in {"markOk", "rollback"} /\ plan'[r] = plan[r]
    BY <1>t, <2>2, GotoMoves
  <2>4. Taken(r)'
    BY <2>1, <2>3 DEF Taken, Booked, Whole
  <2> QED
    BY <1>t, <1>s, <2>1, <2>3, <2>4 DEF Deducting
<1>5. CASE RollbackRefund(r)
  <2>1. rpc[r] = "rollback" /\ Taken(r) /\ UNCHANGED <<status, audit, revoked>>
    BY <1>5, <1>d DEF RollbackRefund, RAt, Deducting
  <2>2. CASE plan[r].take = 0 /\ RGoto(r, "restore") /\ UNCHANGED deducted
    <3>1. rpc'[r] = "restore" /\ (Booked' \/ Whole')
      BY <1>t, <2>1, <2>2, GotoMoves DEF Taken, Booked, Whole
    <3> QED
      BY <1>t, <1>s, <2>1, <2>2, <3>1 DEF Deducting
  <2>3. CASE plan[r].take > 0 /\ ~revoked /\ RGoto(r, "restore") /\ deducted' = deducted - plan[r].take
    <3>1. rpc'[r] = "restore"
      BY <1>t, <2>3, GotoMoves
    <3>2. deducted' = 0 /\ ~revoked'
      BY <1>p, <1>t, <2>1, <2>3 DEF Taken
    <3>3. Whole'
      BY <3>2 DEF Whole
    <3> QED
      BY <1>p, <1>t, <1>s, <2>1, <3>1, <3>2, <3>3 DEF Deducting
  <2>4. CASE RGoto(r, "auditRollback") /\ UNCHANGED deducted
    <3>1. rpc'[r] = "auditRollback"
      BY <1>t, <2>4, GotoMoves
    <3> QED
      BY <1>t, <1>s, <2>1, <2>4, <3>1 DEF Deducting
  <2> QED
    BY <1>5, <2>2, <2>3, <2>4 DEF RollbackRefund
<1>6. CASE AuditRollback(r)
  <2>1. ~Fault("audit")
    BY DEF Fault
  <2>2. rpc'[r] = "refundFailed" /\ Booked' /\ UNCHANGED <<status, deducted>>
    BY <1>6, <1>t, <2>1, GotoMoves DEF AuditRollback, Booked
  <2> QED
    BY <1>t, <1>s, <2>2 DEF Deducting
<1>7. ASSUME MarkRefundFailed(r) \/ RestoreStatus(r) \/ MarkRefundOk(r)
      PROVE  Goal
  <2>1. rpc'[r] = "idle" /\ UNCHANGED <<audit, deducted, revoked>>
    BY <1>7, <1>t, ReturnMoves DEF MarkRefundFailed, RestoreStatus, MarkRefundOk, Finally
  <2>2. CASE MarkRefundFailed(r)
    BY <1>t, <1>d, <1>s, <2>1, <2>2 DEF MarkRefundFailed, Finally, RAt, Deducting, Booked
  <2>3. CASE RestoreStatus(r)
    BY <1>t, <1>d, <1>s, <2>1, <2>3 DEF RestoreStatus, Finally, RAt, Deducting, Booked, Whole
  <2>4. CASE MarkRefundOk(r)
    <3>1. status' \notin Refundable
      BY <1>t, <2>4 DEF MarkRefundOk, Finally, SetStatus, Refundable
    <3> QED
      BY <1>t, <2>1, <3>1 DEF Deducting
  <2> QED
    BY <1>7, <2>2, <2>3, <2>4
<1>8. CASE RefundCrash(r)
  <2>1. rpc'[r] = "idle" /\ UNCHANGED <<status, deducted>>
    BY <1>8, <1>t, ReturnMoves DEF RefundCrash
  <2> QED
    BY <1>t, <1>s, <2>1 DEF Deducting
<1> QED
  BY <1>1, <1>2, <1>3, <1>4, <1>5, <1>6, <1>7, <1>8 DEF RefundStep

\* Nobody else takes or gives.
LEMMA DeductionStep ==
    ASSUME "audit" \notin Faults, RefundInv, DeductionInv, [RefundNext]_allVars
    PROVE  DeductionInv'
<1> SUFFICES /\ deducted' \in 0 .. Amount
             /\ status' \notin SettledStatuses => Whole'
             /\ status' \in Refundable => Booked' \/ Whole'
             /\ \A q \in Refunders : Deducting(q)'
  BY DEF DeductionInv, Deducting
<1>0. /\ deducted \in 0 .. Amount
      /\ status \notin SettledStatuses => Whole
      /\ status \in Refundable => Booked \/ Whole
      /\ \A q \in Refunders : Deducting(q)
  BY DeductingIs
<1>r. "COMPLETED" \in Refundable /\ Refundable \subseteq SettledStatuses
  BY DEF Refundable, SettledStatuses, RefundStatuses
<1>1. CASE OrderNext /\ UNCHANGED refundVars
  <2>1. /\ UNCHANGED <<rpc, plan, deducted, revoked>>
        /\ status \in SettledStatuses => UNCHANGED <<status, audit>>
    BY <1>1, OrderQuiet
  <2>2. CASE status \in SettledStatuses
    BY <1>0, <2>1, <2>2 DEF Whole, Booked, Deducting, Taken
  <2>3. CASE status \notin SettledStatuses
    <3>1. Whole' /\ deducted' \in 0 .. Amount
      BY <1>0, <2>1, <2>3 DEF Whole
    <3>2. \A q \in Refunders : rpc'[q] \notin Refunding
      BY <2>1, <2>3 DEF RefundInv, RefundExclusive, SettledStatuses, RefundStatuses
    <3>3. \A q \in Refunders : Deducting(q)'
      BY <3>2 DEF Deducting, Refunding, RefundLabels
    <3> QED
      BY <3>1, <3>3
  <2> QED
    BY <2>2, <2>3
<1>2. ASSUME NEW r \in Refunders, RefundStep(r) \/ RefundCrash(r), rpc[r] \in Refunding
      PROVE  /\ deducted' \in 0 .. Amount
             /\ status' \notin SettledStatuses => Whole'
             /\ status' \in Refundable => Booked' \/ Whole'
             /\ \A q \in Refunders : Deducting(q)'
  <2>1. Turn(r)
    BY <1>2, RefundMoves DEF RefundInv
  <2>2. status = "REFUNDING" /\ \A q \in Refunders \ {r} : rpc'[q] \notin Refunding
    BY <1>2, <2>1, AloneUnderLock DEF RefundInv
  <2>3. \A q \in Refunders \ {r} : Deducting(q)'
    BY <2>2 DEF Deducting, Refunding, RefundLabels
  <2>4. status' \in SettledStatuses
    BY <2>1, <2>2 DEF Turn, SettledStatuses, RefundStatuses
  <2> QED
    BY <1>2, <2>3, <2>4, DeductingStep
<1>3. ASSUME NEW r \in Refunders, RefundStep(r) \/ RefundCrash(r), rpc[r] \notin Refunding
      PROVE  /\ deducted' \in 0 .. Amount
             /\ status' \notin SettledStatuses => Whole'
             /\ status' \in Refundable => Booked' \/ Whole'
             /\ \A q \in Refunders : Deducting(q)'
  <2>1. Turn(r)
    BY <1>3, RefundMoves DEF RefundInv
  <2>2. UNCHANGED <<deducted, revoked, audit>>
    BY <1>3, OutsideKeeps DEF RefundInv
  <2>3. (Whole' <=> Whole) /\ (Booked' <=> Booked)
    BY <2>2 DEF Whole, Booked
  <2>4. \A q \in Refunders \ {r} : Deducting(q)'
    BY <1>0, <2>1, <2>2, <2>3 DEF Turn, Deducting, Taken
  <2>5. Deducting(r)'
    <3>1. rpc'[r] \in {"idle", "request", "lock", "deduct"}
      BY <1>3, <2>1 DEF Turn
    <3>2. rpc'[r] = "deduct" => status \in Refundable
      BY <1>3, <2>1 DEF Turn
    <3> QED
      BY <1>0, <2>3, <3>1, <3>2 DEF Deducting
  <2>6. status' \in Refundable => status \in Refundable
    BY <1>3, <1>r, <2>1 DEF Turn, Refundable
  <2>7. status' \notin SettledStatuses => status \notin SettledStatuses
    BY <1>3, <2>1, TurnKeepsLock DEF RefundInv
  <2> QED
    BY <1>0, <2>2, <2>3, <2>4, <2>5, <2>6, <2>7
<1>4. CASE Spend
  BY <1>0, <1>4, SpendQuiet DEF Whole, Booked, Deducting, Taken
<1>5. CASE UNCHANGED allVars
  BY <1>0, <1>5 DEF Whole, Booked, Deducting, Taken, allVars, refundVars, vars, order, goods
<1> QED
  BY <1>1, <1>2, <1>3, <1>4, <1>5 DEF RefundNext

-----------------------------------------------------------------------------
(* What the provider pays back.                                            *)

\* The part of GatewayInv about one handler.
PayingBack(r) ==
    /\ rpc[r] \in Refunding \ {"markOk"} => gwRefunded = 0
    /\ rpc[r] = "markOk" => gwRefunded = GatewayAmount(plan[r].amount) \/ Skipped

\* The handler under the lock ends in success only with the provider's, or
\* with the note that there was nothing to ask it with.
LEMMA PayingBackStep ==
    ASSUME "ambiguous" \notin Faults, "audit" \notin Faults, RefundInv, GatewayInv, NEW r \in Refunders,
           rpc[r] \in Refunding, RefundStep(r) \/ RefundCrash(r)
    PROVE  /\ PayingBack(r)'
           /\ status' \notin {"REFUNDING", "REFUNDED", "PARTIALLY_REFUNDED"} => gwRefunded' = 0
           /\ status' = "REFUNDED" => gwRefunded' = paidAmt' \/ Skipped'
<1> DEFINE Goal ==
      /\ PayingBack(r)'
      /\ status' \notin {"REFUNDING", "REFUNDED", "PARTIALLY_REFUNDED"} => gwRefunded' = 0
      /\ status' = "REFUNDED" => gwRefunded' = paidAmt' \/ Skipped'
<1>t. RefundTypeOK /\ status = "REFUNDING" /\ PayingBack(r)
  BY DEF RefundInv, RefundExclusive, GatewayInv, PayingBack
<1>n. gwRefunded \in Nat
  BY <1>t DEF RefundTypeOK
<1>p. plan[r].amount \in RefundAmounts
  BY DEF RefundInv, PlansMade
<1>c. Columns /\ paidAmt' = paidAmt
  BY RefundMoves DEF RefundInv, Columns
<1>l. "idle" \notin Refunding /\ "markOk" \in Refunding
  BY DEF Refunding, RefundLabels
<1>1. CASE RequestRefund(r) \/ MarkRequested(r) \/ LockRefund(r)
  BY <1>1 DEF RequestRefund, MarkRequested, LockRefund, RAt, Refunding
<1>2. ASSUME NEW amt \in RefundAmounts, NEW deduct \in BOOLEAN, NEW force \in BOOLEAN,
             PrepareRefund(r, amt, deduct, force)
      PROVE  Goal
  BY <1>2 DEF PrepareRefund, RAt, Refunding
<1>3. CASE Deduct(r) \/ RollbackRefund(r) \/ AuditRollback(r)
  <2>1. rpc[r] \in Refunding \ {"markOk"} /\ UNCHANGED <<status, gwRefunded>>
    BY <1>3 DEF Deduct, RollbackRefund, AuditRollback, RAt, Refunding, RefundLabels
  <2>2. ASSUME RGoto(r, "gateway") \/ RGoto(r, "restore") \/ RGoto(r, "auditRollback")
                  \/ RGoto(r, "refundFailed")
        PROVE  rpc'[r] # "markOk"
    BY <1>t, <2>2, GotoMoves
  <2>3. rpc'[r] # "markOk"
    BY <1>3, <1>t, <2>2, SkipMoves DEF Deduct, TakeBack, RollbackRefund, AuditRollback
  <2> QED
    BY <1>t, <2>1, <2>3 DEF PayingBack
<1>4. CASE GatewayRefund(r)
  <2>1. rpc[r] = "gateway" /\ UNCHANGED status /\ gwRefunded = 0
    BY <1>4, <1>t DEF GatewayRefund, RAt, PayingBack
  <2>2. ~Fault("ambiguous") /\ ~Fault("audit")
    BY DEF Fault
  <2>3. GatewayAmount(plan[r].amount) \in Nat
    BY <1>p, <1>t, GatewayAmountType DEF RefundTypeOK, TypeOK
  <2>4. CASE RGoto(r, "rollback") /\ UNCHANGED gwRefunded
    <3>1. rpc'[r] = "rollback"
      BY <1>t, <2>4, GotoMoves
    <3> QED
      BY <1>t, <2>1, <2>4, <3>1 DEF PayingBack
  <2>5. CASE RGoto(r, "markOk") /\ gwRefunded' = gwRefunded + GatewayAmount(plan[r].amount)
    <3>1. rpc'[r] = "markOk" /\ plan'[r] = plan[r]
      BY <1>t, <2>5, GotoMoves
    <3>2. GatewayAmount(plan[r].amount)' = GatewayAmount(plan[r].amount)
      BY <1>c, <3>1 DEF GatewayAmount
    <3>3. gwRefunded' = GatewayAmount(plan[r].amount)'
      BY <2>1, <2>3, <2>5, <3>2
    <3> QED
      BY <1>t, <2>1, <3>1, <3>3 DEF PayingBack
  <2>6. CASE RGoto(r, "markOk") /\ UNCHANGED gwRefunded /\ "REFUND_NO_TRADE_NO" \in audit'
    <3>1. rpc'[r] = "markOk" /\ Skipped'
      BY <1>t, <2>1, <2>6, GotoMoves DEF Skipped
    <3> QED
      BY <1>t, <2>1, <3>1 DEF PayingBack
  <2> QED
    BY <1>4, <2>2, <2>4, <2>5, <2>6 DEF GatewayRefund
<1>5. CASE MarkRefundFailed(r) \/ RestoreStatus(r)
  <2>1. rpc'[r] = "idle" /\ UNCHANGED gwRefunded
    BY <1>5, <1>t, ReturnMoves DEF MarkRefundFailed, RestoreStatus, Finally
  <2>2. rpc[r] \in Refunding \ {"markOk"} /\ status' # "REFUNDED"
    BY <1>5, <1>t DEF MarkRefundFailed, RestoreStatus, Finally, RAt, SetStatus
  <2> QED
    BY <1>t, <1>l, <2>1, <2>2 DEF PayingBack
<1>6. CASE MarkRefundOk(r)
  <2>1. rpc[r] = "markOk" /\ rpc'[r] = "idle" /\ UNCHANGED gwRefunded
    BY <1>6, <1>t, ReturnMoves DEF MarkRefundOk, Finally, RAt
  <2>2. gwRefunded = GatewayAmount(plan[r].amount) \/ Skipped'
    BY <1>c, <1>t, <2>1 DEF PayingBack, Skipped, Columns
  <2>3. status' \in {"REFUNDING", "REFUNDED", "PARTIALLY_REFUNDED"}
    BY <1>6, <1>t DEF MarkRefundOk, Finally, SetStatus
  <2>4. ASSUME status' = "REFUNDED" PROVE gwRefunded' = paidAmt' \/ Skipped'
    <3>1. ~(plan[r].amount < Amount)
      BY <1>6, <1>t, <2>4 DEF MarkRefundOk, Finally, SetStatus
    <3>2. plan[r].amount \in 1 .. Amount /\ Amount \in Nat
      BY <1>p, RefundAssumption
    <3>3. plan[r].amount = Amount
      BY <3>1, <3>2
    <3> QED
      BY <1>c, <2>1, <2>2, <3>3 DEF GatewayAmount
  <2> QED
    BY <1>l, <2>1, <2>3, <2>4 DEF PayingBack
<1>7. CASE RefundCrash(r)
  <2>1. rpc'[r] = "idle" /\ UNCHANGED status
    BY <1>7, <1>t, ReturnMoves DEF RefundCrash
  <2> QED
    BY <1>t, <1>l, <2>1 DEF PayingBack
<1> QED
  BY <1>1, <1>2, <1>3, <1>4, <1>5, <1>6, <1>7 DEF RefundStep

\* Nobody else asks the provider.
LEMMA GatewayStep ==
    ASSUME "ambiguous" \notin Faults, "audit" \notin Faults, RefundInv, GatewayInv, [RefundNext]_allVars
    PROVE  GatewayInv'
<1> DEFINE Closing == {"REFUNDING", "REFUNDED", "PARTIALLY_REFUNDED"}
           Goal == /\ status' \notin Closing => gwRefunded' = 0
                   /\ status' = "REFUNDED" => gwRefunded' = paidAmt' \/ Skipped'
                   /\ \A q \in Refunders : PayingBack(q)'
<1> SUFFICES Goal
  BY DEF GatewayInv, PayingBack
<1>0. /\ status \notin Closing => gwRefunded = 0
      /\ status = "REFUNDED" => gwRefunded = paidAmt \/ Skipped
      /\ \A q \in Refunders : PayingBack(q)
  BY DEF GatewayInv, PayingBack
<1>1. CASE OrderNext /\ UNCHANGED refundVars
  <2>1. /\ UNCHANGED <<rpc, plan, gwRefunded>>
        /\ status \in SettledStatuses => UNCHANGED <<status, audit, paidAmt>>
        /\ status \notin SettledStatuses => status' \notin RefundStatuses
    BY <1>1, OrderQuiet
  <2>2. CASE status \in SettledStatuses
    BY <1>0, <2>1, <2>2 DEF PayingBack, GatewayAmount, Skipped
  <2>3. CASE status \notin SettledStatuses
    <3>1. \A q \in Refunders : rpc'[q] \notin Refunding
      BY <2>1, <2>3 DEF RefundInv, RefundExclusive, SettledStatuses, RefundStatuses
    <3>2. \A q \in Refunders : PayingBack(q)'
      BY <3>1 DEF PayingBack, Refunding, RefundLabels
    <3>3. gwRefunded' = 0 /\ status' # "REFUNDED"
      BY <1>0, <2>1, <2>3 DEF SettledStatuses, RefundStatuses
    <3> QED
      BY <3>2, <3>3
  <2> QED
    BY <2>2, <2>3
<1>2. ASSUME NEW r \in Refunders, RefundStep(r) \/ RefundCrash(r), rpc[r] \in Refunding
      PROVE  Goal
  <2>1. Turn(r)
    BY <1>2, RefundMoves DEF RefundInv
  <2>2. status = "REFUNDING" /\ \A q \in Refunders \ {r} : rpc'[q] \notin Refunding
    BY <1>2, <2>1, AloneUnderLock DEF RefundInv
  <2>3. \A q \in Refunders \ {r} : PayingBack(q)'
    BY <2>2 DEF PayingBack, Refunding, RefundLabels
  <2> QED
    BY <1>2, <2>3, PayingBackStep
<1>3. ASSUME NEW r \in Refunders, RefundStep(r) \/ RefundCrash(r), rpc[r] \notin Refunding
      PROVE  Goal
  <2>1. Turn(r) /\ Columns
    BY <1>3, RefundMoves DEF RefundInv
  <2>2. UNCHANGED <<gwRefunded, audit, paidAmt>>
    BY <1>3, <2>1, OutsideKeeps DEF RefundInv, Columns
  <2>3. \A q \in Refunders \ {r} : PayingBack(q)'
    BY <1>0, <2>1, <2>2 DEF Turn, PayingBack, GatewayAmount, Skipped
  <2>4. status' # status => status \in Refundable /\ status' \in {"REFUND_REQUESTED", "REFUNDING"}
    BY <1>3, <2>1 DEF Turn, Refundable
  <2>5. rpc'[r] \in {"idle", "request", "lock", "deduct"}
        /\ (rpc'[r] = "deduct" => status \in Refundable)
    BY <1>3, <2>1 DEF Turn
  <2>6. PayingBack(r)'
    BY <1>0, <2>2, <2>5 DEF PayingBack, Refunding, RefundLabels, Refundable
  <2> QED
    BY <1>0, <2>2, <2>3, <2>4, <2>6 DEF Refundable, Skipped
<1>4. CASE Spend
  BY <1>0, <1>4, SpendQuiet DEF PayingBack, GatewayAmount, Skipped
<1>5. CASE UNCHANGED allVars
  BY <1>0, <1>5 DEF PayingBack, GatewayAmount, Skipped, allVars, refundVars, vars, order,
     goods, provider
<1> QED
  BY <1>1, <1>2, <1>3, <1>4, <1>5 DEF RefundNext

-----------------------------------------------------------------------------
(* The grant and the ledger, with refunds.                                 *)

\* No refund makes a grant or hides one.
LEMMA RefundGrantStep ==
    ASSUME GrantIsKnown, RefundInv, GrantInv, [RefundNext]_allVars
    PROVE  GrantInv'
<1>1. ASSUME [OrderNext]_vars PROVE GrantInv'
  <2>1. CASE status \in SettledStatuses
    <3>1. Undisturbed
      BY <1>1, <2>1, OrderPartStep DEF RefundInv, RefundTypeOK
    <3>2. status # "RECHARGING"
      BY <2>1 DEF SettledStatuses, RefundStatuses
    <3> QED
      BY <3>1, <3>2 DEF Undisturbed, GrantInv, AlreadyAssigned, Fulfilling
  <2>2. CASE status \notin SettledStatuses
    BY <1>1, <2>2, GrantStep DEF RefundInv, OrderPart, OnceInv
  <2> QED
    BY <2>1, <2>2
<1>2. ASSUME Columns,
             status' # status => status \in SettledStatuses /\ status' \in SettledStatuses
      PROVE  GrantInv'
  <2>1. AlreadyAssigned => AlreadyAssigned'
    BY <1>2 DEF Columns, AlreadyAssigned
  <2>2. status = "RECHARGING" => status' = "RECHARGING"
    BY <1>2 DEF SettledStatuses, RefundStatuses
  <2> QED
    BY <1>2, <2>1, <2>2 DEF Columns, GrantInv
<1>3. ASSUME NEW r \in Refunders, RefundStep(r) \/ RefundCrash(r) PROVE GrantInv'
  BY <1>2, <1>3, RefundMoves, TurnKeepsLock DEF RefundInv
<1>4. CASE Spend
  BY <1>2, <1>4, SpendQuiet DEF Columns
<1> QED
  BY <1>1, <1>3, <1>4 DEF RefundNext, allVars

\* Every step is a step of the ledger or leaves it unchanged.
LEMMA RefundLedgerStep ==
    ASSUME GrantIsKnown, RefundInv, GrantInv, [RefundNext]_allVars
    PROVE  [Ledger!LedgerNext]_(Ledger!ledger)
<1> DEFINE Goal == [Ledger!LedgerNext]_(Ledger!ledger)
<1>s. ASSUME status' = status, paidAt' = paidAt, credited' = credited PROVE Goal
  BY <1>s DEF Ledger!ledger, Phase
<1>1. ASSUME [OrderNext]_vars PROVE Goal
  <2>1. CASE status \in SettledStatuses
    <3>1. Undisturbed
      BY <1>1, <2>1, OrderPartStep DEF RefundInv, RefundTypeOK
    <3> QED
      BY <1>s, <3>1 DEF Undisturbed
  <2>2. CASE status \notin SettledStatuses
    <3>1. OnceInv
      BY <2>2 DEF RefundInv, OrderPart, OnceInv
    <3>2. OnceInv'
      BY <1>1, <3>1, OrderInvStep, GrantStep DEF OnceInv
    <3> QED
      BY <1>1, <3>1, <3>2, LedgerStep
  <2> QED
    BY <2>1, <2>2
<1>2. ASSUME NEW r \in Refunders, RefundStep(r) \/ RefundCrash(r) PROVE Goal
  <2>1. Turn(r) /\ paidAt' = paidAt /\ credited' = credited
    BY <1>2, RefundMoves DEF RefundInv, Columns
  <2>2. rpc[r] \in Refunding => status = "REFUNDING"
    BY DEF RefundInv, RefundExclusive
  <2>3. status \in SettledStatuses => paidAt
    BY DEF RefundInv, OrderPart, Settled
  <2>4. CASE status' = status
    BY <1>s, <2>1, <2>4
  <2>5. CASE status \in Refundable /\ status' = "REFUNDING"
    <3>1. paidAt
      BY <2>3, <2>5 DEF Refundable, SettledStatuses, RefundStatuses
    <3>2. Phase = "done" /\ Phase' = "refunding"
      BY <2>1, <2>5, <3>1 DEF Refundable, Phase
    <3> QED
      BY <2>1, <3>2 DEF Ledger!LedgerNext, Ledger!BeginRefund
  <2>6. CASE status = "REFUNDING" /\ status' \in {"REFUNDED", "PARTIALLY_REFUNDED"}
    <3>1. paidAt
      BY <2>3, <2>6 DEF SettledStatuses, RefundStatuses
    <3>2. Phase = "refunding" /\ Phase' = "refunded"
      BY <2>1, <2>6, <3>1 DEF Phase
    <3> QED
      BY <2>1, <3>2 DEF Ledger!LedgerNext, Ledger!FinishRefund
  <2>7. CASE status = "REFUNDING" /\ status' \in Refundable
    <3>1. paidAt
      BY <2>3, <2>7 DEF SettledStatuses, RefundStatuses
    <3>2. Phase = "refunding" /\ Phase' = "done"
      BY <2>1, <2>7, <3>1 DEF Refundable, Phase
    <3> QED
      BY <2>1, <3>2 DEF Ledger!LedgerNext, Ledger!AbortRefund
  <2>8. CASE status = "COMPLETED" /\ status' = "REFUND_REQUESTED"
    <3>1. Phase' = Phase
      BY <2>1, <2>8 DEF Phase
    <3> QED
      BY <2>1, <3>1 DEF Ledger!ledger
  <2> QED
    BY <2>1, <2>2, <2>4, <2>5, <2>6, <2>7, <2>8 DEF Turn, Refundable
<1>3. CASE Spend
  BY <1>s, <1>3, SpendQuiet
<1> QED
  BY <1>1, <1>2, <1>3 DEF RefundNext, allVars

-----------------------------------------------------------------------------
(* The theorems.                                                           *)

\* Before the order exists there is nothing to refund.
LEMMA RefundInitInv == RefundInit => RefundInv /\ DeductionInv /\ GatewayInv /\ GrantInv
<1> SUFFICES ASSUME RefundInit PROVE RefundInv /\ DeductionInv /\ GatewayInv /\ GrantInv
  OBVIOUS
<1>1. OnceInv /\ status = "NONE" /\ ~paidAt
  BY InitInv DEF RefundInit, Init
<1>2. \A r \in Refunders : rpc[r] = "idle" /\ rpc[r] \notin Refunding
  BY DEF RefundInit, Refunding
<1>3. OrderPart
  BY <1>1 DEF OrderPart, OnceInv, SettledStatuses, RefundStatuses
<1>4. NoPlan \in Plans
  BY RefundAssumption DEF NoPlan, Plans
<1>5. RefundTypeOK
  <2>1. TypeOK
    BY <1>1 DEF OnceInv, OrderInv
  <2>2. rpc \in [Refunders -> RefundLabels] /\ plan \in [Refunders -> Plans]
    BY <1>4 DEF RefundInit, RefundLabels
  <2>3. deducted = 0 /\ gwRefunded = 0 /\ spent = 0
    BY DEF RefundInit
  <2>4. revoked \in BOOLEAN
    BY Zenon DEF RefundInit
  <2> QED
    BY <2>1, <2>2, <2>3, <2>4 DEF RefundTypeOK
<1>6. RefundExclusive /\ PlansMade
  BY <1>2 DEF RefundExclusive, PlansMade
<1>7. DeductionInv
  BY <1>2, RefundAssumption DEF RefundInit, DeductionInv, Whole
<1>8. GatewayInv
  BY <1>1, <1>2 DEF RefundInit, GatewayInv
<1> QED
  BY <1>1, <1>3, <1>5, <1>6, <1>7, <1>8 DEF RefundInv, OnceInv

\* The inductive invariant that the theorems about refunds rest on.
THEOREM RefundInvariant == RefundSpec => []RefundInv
BY RefundInitInv, RefundInvStep, PTL DEF RefundSpec

\* REFUNDING is a lock for any number of refund handlers and any failures:
\* at most one is past ExecuteRefund's conditional update, and nobody else
\* changes the status meanwhile, so the unconditional updates of markRefundOk,
\* handleGwFail and restoreStatus overwrite nothing.
THEOREM RefundLock == RefundSpec => []RefundExclusive
BY RefundInvariant, PTL DEF RefundInv

\* What is shown above of an order that is never refunded holds of
\* one that is: paid for, credited when completed, one rebate, one handler in
\* the fulfilment.
THEOREM RefundsKeepOrder ==
    RefundSpec => [](CreditNeedsPayment /\ CompletedIsCredited /\ RebateAtMostOnce
                        /\ FulfilmentExclusive)
<1>1. RefundInv => CreditNeedsPayment /\ CompletedIsCredited /\ RebateAtMostOnce /\ FulfilmentExclusive
  <2> SUFFICES ASSUME RefundInv
               PROVE  CreditNeedsPayment /\ CompletedIsCredited /\ RebateAtMostOnce
                         /\ FulfilmentExclusive
    OBVIOUS
  <2>1. TypeOK
    BY DEF RefundInv, RefundTypeOK
  <2>2. CASE status \in SettledStatuses
    BY <2>1, <2>2, AmountAssumption DEF RefundInv, OrderPart, Settled, TypeOK, CreditNeedsPayment,
       AmountOk, CompletedIsCredited, RebateAtMostOnce, FulfilmentExclusive
  <2>3. CASE status \notin SettledStatuses
    BY <2>1, <2>3, AmountAssumption DEF RefundInv, OrderPart, SettledStatuses, OrderInv, TypeOK,
       GoodsInv, PaymentInv, CreditNeedsPayment, AmountOk, CompletedIsCredited, RebateAtMostOnce
  <2> QED
    BY <2>2, <2>3
<1> QED
  BY <1>1, RefundInvariant, PTL

\* A refunded order stays refunded, and no late notification, sweep or retry
\* takes an order back from its refund into fulfilment.
THEOREM RefundsAreFinal == RefundSpec => RefundIsFinal
<1>1. ASSUME RefundInv, [RefundNext]_allVars
      PROVE  [/\ (status \in {"REFUNDED", "PARTIALLY_REFUNDED"} => UNCHANGED status)
              /\ (status \in RefundStatuses =>
                     status' \in RefundStatuses \union {"COMPLETED"})]_allVars
  <2>1. CASE OrderNext /\ UNCHANGED refundVars
    <3>1. status \in RefundStatuses => UNCHANGED status
      BY <1>1, <2>1, OrderQuiet DEF SettledStatuses
    <3> QED
      BY <3>1 DEF RefundStatuses
  <2>2. ASSUME NEW r \in Refunders, RefundStep(r) \/ RefundCrash(r)
        PROVE  /\ (status \in {"REFUNDED", "PARTIALLY_REFUNDED"} => UNCHANGED status)
               /\ (status \in RefundStatuses => status' \in RefundStatuses \union {"COMPLETED"})
    <3>1. Turn(r) /\ (rpc[r] \in Refunding => status = "REFUNDING")
      BY <1>1, <2>2, RefundMoves DEF RefundInv, RefundExclusive
    <3> QED
      BY <3>1 DEF Turn, RefundStatuses, Refundable
  <2>3. CASE Spend
    BY <2>3, SpendQuiet
  <2> QED
    BY <1>1, <2>1, <2>2, <2>3 DEF RefundNext
<1> QED
  BY <1>1, RefundInvariant, PTL DEF RefundSpec, RefundIsFinal

\* The inductive invariant behind what is taken from the user.
THEOREM DeductionInvariant ==
    ASSUME "audit" \notin Faults PROVE RefundSpec => [](RefundInv /\ DeductionInv)
<1>1. RefundInv /\ DeductionInv /\ [RefundNext]_allVars => (RefundInv /\ DeductionInv)'
  BY RefundInvStep, DeductionStep
<1> QED
  BY <1>1, RefundInitInv, PTL DEF RefundSpec

\* As long as the audit log can be written and read, the user is charged for
\* a refund at most once, whatever fails, is retried or dies in between.
THEOREM DeductedOnce ==
    ASSUME "audit" \notin Faults PROVE RefundSpec => []DeductedAtMostOnce
<1>1. RefundInv /\ DeductionInv => DeductedAtMostOnce
  BY RefundAssumption DEF DeductionInv, DeductedAtMostOnce
<1> QED
  BY <1>1, DeductionInvariant, PTL

\* Under the same condition an order that stands as completed or requested
\* holds nothing back, unless the audit log says that giving back failed.
THEOREM RestsWhole ==
    ASSUME "audit" \notin Faults PROVE RefundSpec => []RestedIsWhole
<1>1. RefundInv /\ DeductionInv => RestedIsWhole
  BY DEF DeductionInv, RestedIsWhole, Refundable, Booked, Whole
<1> QED
  BY <1>1, DeductionInvariant, PTL

\* As long as no answer of the provider and no row of the audit log is lost, an
\* order marked REFUNDED was paid back in full or is logged as never sent to
\* the provider for want of a trade number, and one that stands as completed
\* was not paid back at all.
THEOREM PaidBack ==
    ASSUME "ambiguous" \notin Faults, "audit" \notin Faults
    PROVE  RefundSpec => []RefundedIsPaidBack
<1>1. RefundInv /\ GatewayInv /\ [RefundNext]_allVars => (RefundInv /\ GatewayInv)'
  BY RefundInvStep, GatewayStep
<1>2. RefundInv /\ GatewayInv => RefundedIsPaidBack
  BY DEF GatewayInv, RefundedIsPaidBack, Skipped
<1> QED
  BY <1>1, <1>2, RefundInitInv, PTL DEF RefundSpec

\* The inductive invariant behind the grant made once.
THEOREM RefundOnceInvariant ==
    ASSUME GrantIsKnown PROVE RefundSpec => [](RefundInv /\ GrantInv)
<1>1. RefundInv /\ GrantInv /\ [RefundNext]_allVars => (RefundInv /\ GrantInv)'
  BY RefundInvStep, RefundGrantStep
<1> QED
  BY <1>1, RefundInitInv, PTL DEF RefundSpec

\* With refunds, too, what the order sells is granted at most once.
THEOREM CreditIsOnceWithRefunds ==
    ASSUME GrantIsKnown PROVE RefundSpec => []CreditedAtMostOnce
<1>1. RefundInv /\ GrantInv => CreditedAtMostOnce
  <2> SUFFICES ASSUME RefundInv, GrantInv PROVE credited <= 1
    BY DEF CreditedAtMostOnce
  <2>1. OrderType = "balance" => credited = IF code = "used" THEN 1 ELSE 0
    BY DEF RefundInv, OrderPart, Settled, OrderInv, GoodsInv
  <2> QED
    BY <2>1, OrderTypeAssumption DEF GrantInv
<1> QED
  BY <1>1, RefundOnceInvariant, PTL

\* The order with its refunds implements the ledger: refunds start only from
\* a done order, and end it or leave it done.
THEOREM RefundImplementsLedger ==
    ASSUME GrantIsKnown PROVE RefundSpec => ImplementsLedger
<1>1. RefundInit => Ledger!Open
  BY DEF RefundInit, Init, Ledger!Open, Phase
<1>2. RefundInv /\ GrantInv /\ [RefundNext]_allVars => [Ledger!LedgerNext]_(Ledger!ledger)
  BY RefundLedgerStep
<1> QED
  BY <1>1, <1>2, RefundOnceInvariant, PTL DEF RefundSpec, ImplementsLedger, Ledger!LedgerSpec
=============================================================================

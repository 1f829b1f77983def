---------------------------- MODULE PaymentLedger ----------------------------
(***************************************************************************)
(* What a payment order promises the payer, without handlers, statuses or  *)
(* failures: money comes in once, the goods are granted once and before    *)
(* the order is done, and a refund starts only from a done order and ends  *)
(* it or leaves it done.                                                   *)
(***************************************************************************)
EXTENDS Naturals

VARIABLES phase, granted

ledger == <<phase, granted>>

Phases == {"unpaid", "paid", "done", "refunding", "refunded"}

Open == phase = "unpaid" /\ granted = 0

Pay          == phase = "unpaid" /\ phase' = "paid" /\ UNCHANGED granted
Grant        == phase = "paid" /\ granted = 0 /\ granted' = 1 /\ UNCHANGED phase
Finish       == phase = "paid" /\ granted = 1 /\ phase' = "done" /\ UNCHANGED granted
BeginRefund  == phase = "done" /\ phase' = "refunding" /\ UNCHANGED granted
AbortRefund  == phase = "refunding" /\ phase' = "done" /\ UNCHANGED granted
FinishRefund == phase = "refunding" /\ phase' = "refunded" /\ UNCHANGED granted

LedgerNext ==
    Pay \/ Grant \/ Finish \/ BeginRefund \/ AbortRefund \/ FinishRefund

LedgerSpec == Open /\ [][LedgerNext]_ledger

=============================================================================

--------------------------- MODULE MCPaymentRefund ---------------------------
(* Symmetry for the runs of PaymentRefund.                                 *)
EXTENDS PaymentRefund, TLC

HandlerSymmetry == Permutations(Workers) \union Permutations(Refunders)

=============================================================================

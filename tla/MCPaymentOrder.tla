---------------------------- MODULE MCPaymentOrder ----------------------------
(* Model values and symmetry for the runs of PaymentOrder.                 *)
EXTENDS PaymentOrder, TLC

WorkerSymmetry == Permutations(Workers)

=============================================================================

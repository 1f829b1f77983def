--------------------------- MODULE MCUsageBilling ---------------------------
(* Three tasks for two requests: a first submission, the same id again with *)
(* another payload, and another request.                                    *)
EXTENDS UsageBilling, TLC

CONSTANTS t1, t2, t3, r1, r2, f1, f2, f3

MCRequestOf     == t1 :> r1 @@ t2 :> r1 @@ t3 :> r2
MCFingerprintOf == t1 :> f1 @@ t2 :> f2 @@ t3 :> f3
MCCost          == f1 :> 2 @@ f2 :> 1 @@ f3 :> 2

=============================================================================

------------------------- MODULE MCConcurrencySlots -------------------------
(* Three requests of one user; the third goes to another instance.         *)
EXTENDS ConcurrencySlots

CONSTANTS p1, p2, r1, r2, r3

MCInstanceOf == [r \in Requests |-> IF r = r3 THEN p2 ELSE p1]

=============================================================================

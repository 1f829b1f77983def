---------------------------- MODULE MCIdempotency ----------------------------
(* Symmetry for the runs of Idempotency.                                   *)
EXTENDS Idempotency, TLC

RequestSymmetry == Permutations(Clients) \union Permutations(Fingerprints)

=============================================================================

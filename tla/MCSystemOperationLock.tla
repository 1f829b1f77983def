------------------------ MODULE MCSystemOperationLock ------------------------
(* Symmetry for the runs of SystemOperationLock.                           *)
EXTENDS SystemOperationLock, TLC

OperationSymmetry == Permutations(Operations)

=============================================================================

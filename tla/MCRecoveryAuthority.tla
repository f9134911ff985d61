-------------------------- MODULE MCRecoveryAuthority --------------------------
(***************************************************************************)
(* Instances of the recovery authority for TLC.                            *)
(***************************************************************************)
EXTENDS RecoveryAuthority, TLC

Symmetry == Permutations(Process)
=============================================================================

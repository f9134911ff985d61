--------------------------- MODULE MCJsonStateStore ---------------------------
(***************************************************************************)
(* Instances of the state store for TLC.                                   *)
(***************************************************************************)
EXTENDS JsonStateStore, TLC

Symmetry == Permutations(Writer)
=============================================================================

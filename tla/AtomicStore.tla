------------------------------ MODULE AtomicStore ------------------------------
(***************************************************************************)
(* What the state file promises: an update is one atomic change of the     *)
(* stored value, and no committed update is ever lost.  The value is the   *)
(* number of each process's updates it contains.                           *)
(***************************************************************************)
EXTENDS Integers

CONSTANT Writer

VARIABLE file

Init == file = [p \in Writer |-> 0]

Update(p) == file' = [file EXCEPT ![p] = @ + 1]

Spec == Init /\ [][\E p \in Writer : Update(p)]_file
=============================================================================

---------------------------- MODULE MCMissionRunner ----------------------------
(***************************************************************************)
(* Instances of the mission runner for TLC.                                *)
(***************************************************************************)
EXTENDS MissionRunner, TLC

CONSTANTS r1, r2, repo, c1, m1, m2, m3, p1, p2

OneRun  == { r1 }
TwoRuns == { r1, r2 }

OneRepository  == { repo }
SameRepository == [r \in Run |-> repo]

OneCommit    == { c1 }
NoFunctional == {}
NoStages     == {}
OneDimension == { "ROUTE" }
EngineeringAndValidation == { "EXECUTION", "VALIDATION" }

OneProcess   == { p1 }
TwoProcesses == { p1, p2 }

\* m2 needs m1, m1 the operator's authorization, m3 nothing.  The dependent mission
\* comes first, so that the order of the queue does not stand in for it, and m1 next,
\* so that one run is left to execute it again or to execute m2.
ThreeMissions == <<m2, m1, m3>>
SecondNeedsFirst == (m1 :> {} @@ m2 :> { m1 } @@ m3 :> {})
FirstIsGated == { m1 }

Symmetry == Permutations(Run) \cup Permutations(Process)
=============================================================================

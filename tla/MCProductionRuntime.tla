------------------------ MODULE MCProductionRuntime ------------------------
(***************************************************************************)
(* Instances of the production runtime for TLC.                            *)
(***************************************************************************)
EXTENDS ProductionRefinement, TLC

CONSTANTS r1, r2, repo, c1, c2

OneRun  == { r1 }
TwoRuns == { r1, r2 }

OneRepository == { repo }
SameRepository == [r \in Run |-> repo]

OneCommit  == { c1 }
TwoCommits == { c1, c2 }

NoFunctional  == {}
AllFunctional == { r1 }

\* One stage type of each side of resume's split, and a kernel acceptance stage.
EngineeringAndValidation == { "EXECUTION", "VALIDATION" }
KernelStages == { "VALIDATION", "ACCEPTANCE" }
AcceptanceOnly == { "ACCEPTANCE" }
NoStages == {}

OneDimension == { "ROUTE" }
PreviewPolicy == { "ROUTE", "PREVIEW" }

\* The runs of one repository are interchangeable.
Symmetry == Permutations(Run)
=============================================================================

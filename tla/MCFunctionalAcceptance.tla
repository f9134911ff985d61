----------------------- MODULE MCFunctionalAcceptance -----------------------
(***************************************************************************)
(* An instance of FunctionalAcceptance for TLC: one run, and a pull request *)
(* that may be superseded once.                                             *)
(***************************************************************************)
EXTENDS FunctionalAcceptance

CONSTANTS r, repo, c1, c2

OneRun         == { r }
OneRepository  == { repo }
SameRepository == [x \in Run |-> repo]
TwoCommits     == { c1, c2 }
OneDimension   == { "ROUTE" }
AllStageTypes  == KernelStages \cup { "VALIDATION" }

LocalStages == { "PREREQUISITE", "APPLICATION_LAUNCH", "RUNTIME_VERIFICATION",
                 "BROWSER_JOURNEY", "NATIVE_JOURNEY", "ACCEPTANCE" }
=============================================================================

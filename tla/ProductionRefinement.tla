----------------------- MODULE ProductionRefinement -----------------------
(***************************************************************************)
(* The production runtime implements RunLifecycle.                         *)
(***************************************************************************)
EXTENDS ProductionRuntime

Phase(s) ==
  CASE s \in { "NONE", "IDLE" }                                     -> "ABSENT"
    [] s \in { "PLANNING", "AUTHORIZED", "QUEUED", "STARTING" }     -> "LAUNCHING"
    [] s \in Pausable                                               -> "WORKING"
    [] s \in { "PAUSED", "RECOVERING" }                             -> "SUSPENDED"
    [] s \in { "BLOCKED", "FAILED" }                                -> "STOPPED"
    [] s = "AWAITING_APPROVAL"                                      -> "APPROVAL"
    [] OTHER                                                        -> s

\* The same as a function, which TLC computes once.
PhaseOf == [s \in Status \cup { "NONE" } |-> Phase(s)]

phaseBar  == [r \in Run |-> PhaseOf[status[r]]]
holderBar == { r \in Run : Leased(r) }

Lifecycle == INSTANCE RunLifecycle WITH phase <- phaseBar, holder <- holderBar

\* The runtime's every behaviour, seen as phases and lease holders, is one
\* RunLifecycle allows: whatever the order of calls, leases and phases move
\* together as promised.
ImplementsLifecycle == Lifecycle!Spec
=============================================================================

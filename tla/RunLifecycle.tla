--------------------------- MODULE RunLifecycle ---------------------------
(***************************************************************************)
(* What the production runtime promises about runs and leases, without its *)
(* seventeen statuses, its stages or its clock.  A run is launched, works, *)
(* is suspended or stopped and brought back, and settles.  holder is the   *)
(* set of runs whose lease is active: a lease is taken at launch or when a *)
(* suspended run goes back to work, it is kept while the run works, and it *)
(* is given up by every step that leaves work.                             *)
(***************************************************************************)
CONSTANT Run

VARIABLES phase, holder

Phase == { "ABSENT", "LAUNCHING", "WORKING", "SUSPENDED", "STOPPED",
           "APPROVAL", "COMPLETED", "CERTIFIED", "CANCELLED" }

TypeOK == phase \in [Run -> Phase] /\ holder \subseteq Run

Init == phase = [r \in Run |-> "ABSENT"] /\ holder = {}

Enter(r, p) == phase' = [phase EXCEPT ![r] = p]

Launch(r) ==
  phase[r] = "ABSENT" /\ Enter(r, "LAUNCHING") /\ holder' = holder \cup { r }

Work(r) ==
  phase[r] = "LAUNCHING" /\ Enter(r, "WORKING") /\ UNCHANGED holder

\* Losing the lease to the sweep of expired leases suspends a run.
Interrupt(S) ==
  /\ S # {} /\ S \subseteq holder
  /\ \A r \in S : phase[r] \in { "LAUNCHING", "WORKING" }
  /\ phase'  = [r \in Run |-> IF r \in S THEN "SUSPENDED" ELSE phase[r]]
  /\ holder' = holder \ S

Suspend(r) ==
  phase[r] = "WORKING" /\ Enter(r, "SUSPENDED") /\ holder' = holder \ { r }

\* Back to work, with a new lease or (a bare transition) without one.
Resume(r) ==
  /\ phase[r] = "SUSPENDED" /\ Enter(r, "WORKING")
  /\ holder' \in { holder, holder \cup { r } }

Stop(r) ==
  /\ phase[r] \in { "LAUNCHING", "WORKING", "SUSPENDED", "APPROVAL" }
  /\ Enter(r, "STOPPED") /\ holder' = holder \ { r }

Recover(r) ==
  phase[r] = "STOPPED" /\ Enter(r, "SUSPENDED") /\ UNCHANGED holder

\* A stopped run recovered and resumed at once.
Restart(r) ==
  phase[r] = "STOPPED" /\ Enter(r, "WORKING") /\ holder' = holder \cup { r }

Settle(r) ==
  /\ \/ phase[r] = "WORKING"  /\ \E p \in { "APPROVAL", "COMPLETED" } : Enter(r, p)
     \/ phase[r] \in { "APPROVAL", "COMPLETED" } /\ Enter(r, "CERTIFIED")
     \/ phase[r] \in { "LAUNCHING", "WORKING", "SUSPENDED", "APPROVAL" } /\ Enter(r, "CANCELLED")
  /\ holder' = holder \ { r }

Next ==
  \/ \E S \in SUBSET Run : Interrupt(S)
  \/ \E r \in Run : Launch(r) \/ Work(r) \/ Suspend(r) \/ Resume(r) \/ Stop(r)
                    \/ Recover(r) \/ Restart(r) \/ Settle(r)

Spec == Init /\ [][Next]_<<phase, holder>>
=============================================================================

----------------------------- MODULE MissionQueue -----------------------------
(***************************************************************************)
(* GovernedMissionQueue (production-runtime/mission-queue.ts): the missions *)
(* of one system, each with a status and possibly an execution blocker, and *)
(* the functions that derive eligibility and the next mission from them.    *)
(* A queue is a function from missions to [status, blocker] records; Order  *)
(* is the order of the array the code keeps.  The mission a COMPLETE or     *)
(* ACTIVE status was given to keeps it; everything else is derived.         *)
(***************************************************************************)
EXTENDS Integers, Sequences

CONSTANTS Order,     \* the missions, in queue order
          Requires   \* the dependencies each mission declares

Mission == { Order[i] : i \in DOMAIN Order }

NoMission == "NO_MISSION"

\* reconcile refuses a queue with repeated ids, unknown dependencies or a cycle.
ASSUME QueueAssumption ==
  /\ Order \in Seq(Mission)
  /\ \A i, j \in DOMAIN Order : Order[i] = Order[j] => i = j
  /\ Requires \in [Mission -> SUBSET Mission]
  /\ NoMission \notin Mission
  /\ \A S \in SUBSET Mission : S # {} => \E m \in S : Requires[m] \cap S = {}

MissionStatus == { "ELIGIBLE", "ACTIVE", "COMPLETE", "BLOCKED" }

MissionItem == [status : MissionStatus, blocker : BOOLEAN]

Completed(q) == { m \in Mission : q[m].status = "COMPLETE" }

\* A mission an execution holds, or held when it failed.
InHand(q) == { m \in Mission : q[m].status = "ACTIVE" \/ q[m].blocker }

\* Mutant: dependencies are not looked at.
DerivedWithoutDependencies(q, m) == IF q[m].blocker THEN "BLOCKED" ELSE "ELIGIBLE"

Derived(q, m) ==
  IF ~q[m].blocker /\ Requires[m] \subseteq Completed(q) THEN "ELIGIBLE" ELSE "BLOCKED"

\* Mutant: an active mission is derived anew.
ReconcileActiveToo(q) ==
  [m \in Mission |-> IF q[m].status = "COMPLETE" THEN q[m]
                     ELSE [q[m] EXCEPT !.status = Derived(q, m)]]

Reconcile(q) ==
  [m \in Mission |-> IF q[m].status \in { "COMPLETE", "ACTIVE" } THEN q[m]
                     ELSE [q[m] EXCEPT !.status = Derived(q, m)]]

\* Mutant: a blocked mission does not hold the queue.
NextMissionAroundBlocked(q) ==
  LET eligible == { i \in DOMAIN Order : Reconcile(q)[Order[i]].status = "ELIGIBLE" }
  IN  IF (\E m \in Mission : q[m].status = "ACTIVE") \/ eligible = {} THEN NoMission
      ELSE Order[CHOOSE i \in eligible : \A j \in eligible : i <= j]

\* next: nothing while a mission is in hand, else the first eligible one.
NextMission(q) ==
  LET eligible == { i \in DOMAIN Order : Reconcile(q)[Order[i]].status = "ELIGIBLE" }
  IN  IF InHand(q) # {} \/ eligible = {} THEN NoMission
      ELSE Order[CHOOSE i \in eligible : \A j \in eligible : i <= j]

\* updateMissionStatus: ACTIVE and COMPLETE clear the execution blocker, and
\* COMPLETE is refused before its dependencies.
MayUpdate(q, m, s) == s = "COMPLETE" => Requires[m] \subseteq Completed(q)

Updated(q, m, s) ==
  Reconcile([q EXCEPT ![m] = [status  |-> s,
                              blocker |-> @.blocker /\ s \notin { "ACTIVE", "COMPLETE" }]])

\* blockMissionForRun, whatever the mission's status.
Blocked(q, m) == Reconcile([q EXCEPT ![m] = [status |-> "BLOCKED", blocker |-> TRUE]])
=============================================================================

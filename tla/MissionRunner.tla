----------------------------- MODULE MissionRunner -----------------------------
(***************************************************************************)
(* Missions executed by production runs.  A process is one `pbos run`: it   *)
(* may ask the operator to authorize the next mission, then runs            *)
(* ProductionMissionRunner.run, which calls the production runtime and the  *)
(* mission queue one method at a time and awaits the mission's executor.    *)
(* Processes share the state file, so any other process may act between two *)
(* calls: another runner, the sweep of expired leases that every command    *)
(* starts with, an operator's pause, resume or cancel, a reconciliation of  *)
(* the queue.  A process may die at any step.                               *)
(*                                                                          *)
(* The runs and leases are those of ProductionRuntime; pc[p] is where       *)
(* process p is, mine[p] its run, held[p] the stage id it keeps across the  *)
(* await, target[p] its mission, seen[p] the status that mission had in the *)
(* queue item it read.  Which of several candidate runs was saved last is   *)
(* not kept: any of them may be the one the code finds.                     *)
(***************************************************************************)
EXTENDS ProductionRuntime, MissionQueue

CONSTANTS Process,
          ApprovalRequired   \* missions the operator must authorize

NoRun == "NO_RUN"

ASSUME RunnerAssumption ==
  /\ ApprovalRequired \subseteq Mission
  /\ NoRun \notin Run
  /\ "EXECUTION" \in StageType
  \* the queue is one system's, and a system has one repository
  /\ \A r, q \in Run : RepositoryOf[r] = RepositoryOf[q]

VARIABLES queue,     \* the durable mission queue
          missionOf, \* run.selectedMission
          approved,  \* missions with a signed START_PRODUCTION_MISSION approval
          pc, mine, held, target, seen

localVars  == <<mine, held, target, seen>>
runnerVars == <<queue, missionOf, approved, pc, localVars>>
allVars    == <<vars, runnerVars>>

Location == { "idle", "prompt", "select", "queue", "start", "go", "activate", "open",
              "await", "complete", "validate", "check", "record", "judge", "approval",
              "finish", "settle", "block", "stop", "catch", "blame", "fail", "certified",
              "reactivate" }

RunnerTypeOK ==
  /\ TypeOK
  /\ queue     \in [Mission -> MissionItem]
  /\ missionOf \in [Run -> Mission \cup { NoMission }]
  /\ approved  \subseteq ApprovalRequired
  /\ pc        \in [Process -> Location]
  /\ mine      \in [Process -> Run \cup { NoRun }]
  /\ held      \in [Process -> 0 .. MaxStages]
  /\ target    \in [Process -> Mission \cup { NoMission }]
  /\ seen      \in [Process -> MissionStatus \cup { "NONE" }]

RunnerInit ==
  /\ Init
  /\ queue     = Reconcile([m \in Mission |-> [status |-> "BLOCKED", blocker |-> FALSE]])
  /\ missionOf = [r \in Run |-> NoMission]
  /\ approved  = {}
  /\ pc        = [p \in Process |-> "idle"]
  /\ mine      = [p \in Process |-> NoRun]
  /\ held      = [p \in Process |-> 0]
  /\ target    = [p \in Process |-> NoMission]
  /\ seen      = [p \in Process |-> "NONE"]

-----------------------------------------------------------------------------
(* Steps of a process *)

At(p, here) == pc[p] = here

\* Going idle ends the call: nothing a process kept survives it.
Goto(p, there) ==
  /\ pc' = [pc EXCEPT ![p] = there]
  /\ IF there # "idle" THEN UNCHANGED localVars
     ELSE /\ mine'   = [mine EXCEPT ![p] = NoRun]
          /\ held'   = [held EXCEPT ![p] = 0]
          /\ target' = [target EXCEPT ![p] = NoMission]
          /\ seen'   = [seen EXCEPT ![p] = "NONE"]

\* A call of transition: the next location when the table accepts it, the
\* handler's when it throws.
Moves(p, s, there, handler) ==
  LET r == mine[p] IN
  /\ IF MayTransition(status[r], s)
     THEN Transition(r, s) /\ Goto(p, there)
     ELSE UNCHANGED vars /\ Goto(p, handler)
  /\ UNCHANGED <<queue, missionOf, approved>>

\* A call of startStage, keeping the id of the stage it opens.
Opens(p, type, there, handler) ==
  LET r == mine[p] IN
  /\ IF StageOpen(r)
     THEN Heartbeat(r) /\ Goto(p, handler)
     ELSE /\ StartStage(r, type)
          /\ pc'   = [pc EXCEPT ![p] = there]
          /\ held' = [held EXCEPT ![p] = Len(stages[r]) + 1]
          /\ UNCHANGED <<mine, target, seen>>
  /\ UNCHANGED <<queue, missionOf, approved>>

Updates(q) == queue' = q /\ UNCHANGED <<vars, missionOf, approved>>

-----------------------------------------------------------------------------
(* Authorization: the status is read before the prompt and written after it. *)

\* The command asks before its run, unless the mission is authorized already, and
\* for the mission its sequence stopped at, whether it is or not.
Prompt(p) ==
  /\ At(p, "idle")
  /\ NextMission(queue) \in ApprovalRequired
  /\ pc'     = [pc EXCEPT ![p] = "prompt"]
  /\ target' = [target EXCEPT ![p] = NextMission(queue)]
  /\ seen'   = [seen EXCEPT ![p] = "ELIGIBLE"]
  /\ UNCHANGED <<vars, queue, missionOf, approved, mine, held>>

Approve(p) ==
  /\ At(p, "prompt")
  /\ queue' = IF MayUpdate(queue, target[p], seen[p])
              THEN Updated(queue, target[p], seen[p]) ELSE queue
  /\ approved' = approved \cup { target[p] }
  /\ Goto(p, "select")
  /\ UNCHANGED <<vars, missionOf>>

Decline(p) ==
  /\ At(p, "prompt")
  /\ Goto(p, "idle")
  /\ UNCHANGED <<vars, queue, missionOf, approved>>

-----------------------------------------------------------------------------
(* Selection: resume the recovering run, or begin the next mission. *)

Selects(p, m, s, r, there) ==
  /\ At(p, "idle") \/ At(p, "select")
  /\ m \in ApprovalRequired => m \in approved
  /\ pc'     = [pc EXCEPT ![p] = there]
  /\ mine'   = [mine EXCEPT ![p] = r]
  /\ target' = [target EXCEPT ![p] = m]
  /\ seen'   = [seen EXCEPT ![p] = s]
  /\ UNCHANGED <<queue, approved, held>>

\* The run must have stopped in its execution stage.  A stage somebody opened on
\* it since makes resume choose another status, which the runner then refuses.
PickUp(p, r) ==
  LET m == missionOf[r] IN
  /\ status[r] = "RECOVERING" /\ checkpoint[r] = "EXECUTION" /\ m \in Mission
  /\ Resume(r)
  /\ Selects(p, m, queue[m].status, r, IF status'[r] = "RUNNING" THEN "activate" ELSE "idle")
  /\ UNCHANGED missionOf

Launch(p, r) ==
  LET m == NextMission(queue) IN
  /\ m # NoMission
  /\ Begin(r)
  /\ missionOf' = [missionOf EXCEPT ![r] = m]
  /\ Selects(p, m, "ELIGIBLE", r, "queue")

Enqueue(p) == At(p, "queue") /\ Moves(p, "QUEUED", "start", "idle")
Start(p)   == At(p, "start") /\ Moves(p, "STARTING", "go", "idle")
Go(p)      == At(p, "go")    /\ Moves(p, "RUNNING", "activate", "idle")

Activate(p) ==
  At(p, "activate") /\ Updates(Updated(queue, target[p], "ACTIVE")) /\ Goto(p, "open")

Open(p) == At(p, "open") /\ Opens(p, "EXECUTION", "await", "idle")

-----------------------------------------------------------------------------
(* Execution and validation: from here on an error goes to the catch block. *)

\* The executor settles.  What it reports (a revision, files, commands, evidence)
\* is recorded through heartbeats; evidence that is refused after some of it was
\* recorded is an error too.
Answer(p) ==
  /\ At(p, "await")
  /\ UNCHANGED vars \/ Heartbeat(mine[p])
  /\ \E there \in { "complete", "catch" } : Goto(p, there)
  /\ UNCHANGED <<queue, missionOf, approved>>

Complete(p) ==
  /\ At(p, "complete")
  /\ CompleteStage(mine[p], held[p])
  /\ Goto(p, "validate")
  /\ UNCHANGED <<queue, missionOf, approved>>

Validate(p) == At(p, "validate") /\ Moves(p, "VALIDATING", "check", "catch")

Check(p) == At(p, "check") /\ Opens(p, "VALIDATION", "record", "catch")

\* recordValidation per result; a deferred validation is linked to its remediation
\* run, which leaves the run VALIDATING, its stage open, to the background monitor.
Record(p) ==
  /\ At(p, "record")
  /\ \/ Heartbeat(mine[p]) /\ Goto(p, "judge")
     \/ RecordValidation(mine[p]) /\ Goto(p, "idle")
  /\ UNCHANGED <<queue, missionOf, approved>>

\* Mutant: the run completes before its mission.
JudgeRunFirst(p) ==
  /\ At(p, "judge")
  /\ CompleteStage(mine[p], held[p])
  /\ \E there \in { "block", IF target[p] \in ApprovalRequired THEN "approval" ELSE "settle" } :
       Goto(p, there)
  /\ UNCHANGED <<queue, missionOf, approved>>

Judge(p) ==
  /\ At(p, "judge")
  /\ CompleteStage(mine[p], held[p])
  /\ \E there \in { "block", IF target[p] \in ApprovalRequired THEN "approval" ELSE "finish" } :
       Goto(p, there)
  /\ UNCHANGED <<queue, missionOf, approved>>

\* The runner hands back the mission as it read it on selection, and the command asks
\* to authorize that one, unless it certifies it at once or the mission has gone to
\* certification by another way.
Approval(p) ==
  /\ At(p, "approval")
  /\ \E there \in { "idle", "prompt" } : Moves(p, "AWAITING_APPROVAL", there, "catch")

\* The mission completes before its run.
Finish(p) ==
  /\ At(p, "finish")
  /\ IF MayUpdate(queue, target[p], "COMPLETE")
     THEN Updates(Updated(queue, target[p], "COMPLETE")) /\ Goto(p, "settle")
     ELSE UNCHANGED <<vars, queue, missionOf, approved>> /\ Goto(p, "catch")

Settle(p) == At(p, "settle") /\ Moves(p, "COMPLETED", "idle", "catch")

Block(p) ==
  At(p, "block") /\ Updates(Blocked(queue, missionOf[mine[p]])) /\ Goto(p, "stop")

Stop(p) == At(p, "stop") /\ Moves(p, "BLOCKED", "idle", "catch")

-----------------------------------------------------------------------------
(* The catch block *)

Catch(p) ==
  LET r == mine[p] IN
  /\ At(p, "catch")
  /\ IF status[r] \in { "BLOCKED", "FAILED", "CANCELLED" }
     THEN UNCHANGED vars /\ Goto(p, "idle")
     ELSE /\ Goto(p, "blame")
          /\ IF active[r] # 0 THEN FailStage(r) ELSE UNCHANGED vars
  /\ UNCHANGED <<queue, missionOf, approved>>

Blame(p) ==
  At(p, "blame") /\ Updates(Blocked(queue, missionOf[mine[p]])) /\ Goto(p, "fail")

Fail(p) == At(p, "fail") /\ Moves(p, "FAILED", "idle", "idle")

-----------------------------------------------------------------------------
(* Other commands *)

\* certify: the run first, its mission after.
Certify(p, r) ==
  /\ At(p, "idle")
  /\ status[r] = "AWAITING_APPROVAL" /\ queue[missionOf[r]].status = "ACTIVE"
  /\ Transition(r, "CERTIFIED")
  /\ pc'     = [pc EXCEPT ![p] = "certified"]
  /\ target' = [target EXCEPT ![p] = missionOf[r]]
  /\ UNCHANGED <<queue, missionOf, approved, mine, held, seen>>

Certified(p) ==
  /\ At(p, "certified")
  /\ IF MayUpdate(queue, target[p], "COMPLETE")
     THEN Updates(Updated(queue, target[p], "COMPLETE"))
     ELSE UNCHANGED <<vars, queue, missionOf, approved>>
  /\ Goto(p, "idle")

\* reconcileFailedCanonExecution: a run that failed for want of infrastructure
\* goes back to its execution checkpoint, and its mission becomes active again.
Retry(p, r) ==
  /\ At(p, "idle")
  /\ RecoverFailedExecution(r)
  /\ pc'     = [pc EXCEPT ![p] = "reactivate"]
  /\ target' = [target EXCEPT ![p] = missionOf[r]]
  /\ UNCHANGED <<queue, missionOf, approved, mine, held, seen>>

Reactivate(p) ==
  At(p, "reactivate") /\ Updates(Updated(queue, target[p], "ACTIVE")) /\ Goto(p, "idle")

\* reconcileMissionExecutionState, on the run found for each mission in hand.
Executing == { "AUTHORIZED", "QUEUED", "STARTING", "RUNNING", "VALIDATING", "REPAIRING",
               "GENERATING_PREVIEW", "AWAITING_APPROVAL", "PAUSED", "RECOVERING" }

Reconciled(q, m, s) ==
  CASE m \notin InHand(q) -> q[m]
    [] m \in InHand(q) /\ s = "NONE" ->
         IF q[m].status = "ACTIVE" THEN [status |-> "BLOCKED", blocker |-> TRUE] ELSE q[m]
    [] m \in InHand(q) /\ s \in { "BLOCKED", "FAILED", "CANCELLED" } ->
         [status |-> "BLOCKED", blocker |-> TRUE]
    [] m \in InHand(q) /\ s \in Executing -> [status |-> "ACTIVE", blocker |-> FALSE]
    [] OTHER -> q[m]

RunsOf(m) == { r \in Run : missionOf[r] = m }

ReconcileMissionExecutionState ==
  /\ \E found \in [Mission -> Run \cup { NoRun }] :
       /\ \A m \in Mission : IF RunsOf(m) = {} THEN found[m] = NoRun ELSE found[m] \in RunsOf(m)
       /\ queue' = Reconcile([m \in Mission |->
                     Reconciled(queue, m, IF found[m] = NoRun THEN "NONE" ELSE status[found[m]])])
  /\ UNCHANGED <<vars, missionOf, approved, pc, localVars>>

Crash(p) ==
  /\ pc[p] # "idle"
  /\ Goto(p, "idle")
  /\ UNCHANGED <<vars, queue, missionOf, approved>>

-----------------------------------------------------------------------------

Runs(p) ==
  \/ \E r \in Run : PickUp(p, r) \/ Launch(p, r) \/ Certify(p, r) \/ Retry(p, r)
  \/ Prompt(p) \/ Approve(p) \/ Decline(p)
  \/ Enqueue(p) \/ Start(p) \/ Go(p) \/ Activate(p) \/ Open(p) \/ Answer(p)
  \/ Complete(p) \/ Validate(p) \/ Check(p) \/ Record(p) \/ Judge(p) \/ Approval(p)
  \/ Finish(p) \/ Settle(p) \/ Block(p) \/ Stop(p)
  \/ Catch(p) \/ Blame(p) \/ Fail(p) \/ Certified(p) \/ Reactivate(p)
  \/ Crash(p)

Operates ==
  /\ \/ Tick
     \/ RecoverStaleRuns
     \/ \E r \in Run : Pause(r) \/ Resume(r) \/ Cancel(r)
  /\ UNCHANGED runnerVars

RunnerNext ==
  \/ Operates
  \/ ReconcileMissionExecutionState
  \/ \E p \in Process : Runs(p)

RunnerSpec == RunnerInit /\ [][RunnerNext]_allVars

-----------------------------------------------------------------------------

(* What running missions keeps true, one runner at a time *)

\* The places where a process works on its mission.
Working == { "open", "await", "complete", "validate", "check", "record", "judge",
             "approval", "finish", "block" }

\* The queue is worked one mission at a time: at most one mission is active or
\* waits behind an execution blocker, through failures, retries, crashes and
\* reconciliations.
OneMissionInHand == \A m, n \in InHand(queue) : m = n

\* As long as a process works on a mission the queue holds it, so that no other
\* mission can be selected, whatever happens to its run meanwhile.
MissionHeld ==
  \A p \in Process : pc[p] \in Working => target[p] \in InHand(queue)

\* ... and the missions it depends on are, and stay, complete.
DependenciesHold ==
  \A p \in Process : pc[p] \in Working => Requires[target[p]] \subseteq Completed(queue)

\* The mission completes before its run: a completed run never leaves its mission
\* to be executed again.
CompletedRunHasCompleteMission ==
  \A r \in Run : status[r] = "COMPLETED" => missionOf[r] \in Completed(queue)

-----------------------------------------------------------------------------
(* The queue rebuilt.  Every `pbos run`, unless it resumes a validation, has the
   mission planner compile the queue again from the canon: which missions are
   complete follows from the canon, and nothing else is kept of the missions, neither
   that one is active nor an execution blocker.  A specification of its own, which no
   run checks: what is said above holds between two of these. *)

ResumableValidation == { "VALIDATING", "BLOCKED", "PAUSED", "RECOVERING", "AWAITING_APPROVAL" }

EnsureReadinessQueue(p) ==
  /\ At(p, "idle")
  /\ \A r \in Run : linked[r] => status[r] \notin ResumableValidation
  /\ \E complete \in SUBSET Mission :
       queue' = Reconcile([m \in Mission |->
                  [status  |-> IF m \in complete THEN "COMPLETE" ELSE "BLOCKED",
                   blocker |-> FALSE]])
  /\ UNCHANGED <<vars, missionOf, approved, pc, localVars>>

RebuildingSpec ==
  RunnerInit /\ [][RunnerNext \/ \E p \in Process : EnsureReadinessQueue(p)]_allVars

\* "Mission selection is blocked until the existing run is recovered" is recorded when
\* a failure blocks a mission: no run begins beside one that failed or is blocked.
\* RebuildingSpec does not keep it.
SelectionWaitsForRecovery ==
  \A p \in Process : At(p, "queue") => \A r \in Run : status[r] \notin { "BLOCKED", "FAILED" }

-----------------------------------------------------------------------------
(* What the repository says of execution, and two runners do not keep *)

\* "Duplicate execution state is prohibited": one executor works on a repository.
OneExecutor ==
  \A p, q \in Process : (p # q /\ At(p, "await") /\ At(q, "await")) =>
     RepositoryOf[mine[p]] # RepositoryOf[mine[q]]
=============================================================================

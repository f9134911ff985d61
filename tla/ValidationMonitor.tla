--------------------------- MODULE ValidationMonitor ---------------------------
(***************************************************************************)
(* A production run under validation: the detached background monitor that  *)
(* polls its remediation run (operator-continuity/background-monitor.ts),   *)
(* the batch record of an autonomous batch (autonomous-batch-service.ts),   *)
(* the functional verification of the kernel (autonomous-production-        *)
(* kernel.ts) and the commands of the operator that resume, approve, merge  *)
(* and certify (genesis-console/pbos-cli.ts).  All of them share the run,   *)
(* the remediation run and the pull request, and each may die at any step.  *)
(*                                                                          *)
(* The run is the one ProductionRuntime models, with as much of it as these *)
(* callers look at: of its stages the one that is open, of its lease        *)
(* whether it would be found expired.  kind says what the run builds; a     *)
(* batch is not linked to its remediation run before it passes.  The        *)
(* operator is not asked to extend a spent repair budget here               *)
(* (RecoveryAuthority), nor to apply one of the recoveries of known         *)
(* defects.                                                                 *)
(***************************************************************************)
EXTENDS Remediation, ProductionStatus

CONSTANTS Monitor, Command,  \* the processes that monitor, and the operator's
          Kinds,             \* what the run may build
          RepairLimit        \* run.repairAttemptLimit

NoMonitor == "NO_MONITOR"

ASSUME MonitorAssumption ==
  /\ Process = Monitor \cup Command
  /\ Monitor \cap Command = {}
  /\ NoMonitor \notin Process
  /\ Kinds \subseteq { "ARTIFACT", "FUNCTIONAL", "BATCH" }
  /\ RepairLimit \in Nat

VARIABLES kind,
          status,    \* run.status
          lease,     \* of the run's lease
          attempts,  \* run.repairAttempts
          stage,     \* the type of the run's open stage
          checkpoint, \* run.resumeCheckpoint
          commit,    \* run.currentCommit
          linked,    \* the remediation run is among run.evidenceIds
          mission,   \* the run's mission in the queue
          job,       \* the background job of the remediation run
          monitor,   \* ... and the process it names
          batch,     \* the state of the autonomous batch
          aim,       \* what a command resumes the remediation run for
          released   \* the head of the pull request when PBOS merged it

leaseOfRun  == <<status, lease>>
stageOfRun  == <<stage, checkpoint>>
runVars     == <<status, lease, attempts, stage, checkpoint, commit, linked, mission>>
monitorVars == <<kind, job, monitor, batch, aim, released>>
vars == <<remediationVars, runVars, monitorVars>>

Location ==
  Engine \cup
  { "idle", "recover", "restart", "rebind", "repair", "count", "revalidate", "approve", "verify",
    "reject", "spend", "refuse", "halt", "batch", "poll",
    "revive", "launch", "spawn", "watch", "prompt", "merge", "certify" }

\* The stages a run has here; VALIDATION stands for every stage of validation.
Stages == { "VALIDATION", "REPAIR" }

BatchState == { "VALIDATING", "REMEDIATING", "WAITING_FOR_INFRASTRUCTURE",
                "READY_FOR_CERTIFICATION", "BLOCKED" }

TypeOK ==
  /\ RemediationTypeOK
  /\ at       \in [Process -> Location]
  /\ kind     \in Kinds
  /\ status   \in Status
  /\ lease    \in { "NONE", "HEALTHY", "EXPIRED" }
  /\ attempts \in 0 .. RepairLimit
  /\ stage    \in { "NONE" } \cup Stages
  /\ checkpoint \in { "NONE", "RUN_START" } \cup Stages
  /\ commit   \in Commit
  /\ linked   \in BOOLEAN
  /\ mission  \in { "ACTIVE", "BLOCKED", "COMPLETE" }
  /\ job      \in { "NONE", "RUNNING", "COMPLETED", "BLOCKED" }
  /\ monitor  \in Monitor \cup { NoMonitor }
  /\ batch    \in BatchState
  /\ aim      \in [Command -> { "RESUME", "APPROVE" }]
  /\ released \in Commit \cup { NoCommit }

\* The run has published its pull request and entered validation; the command that
\* built it is about to launch its monitor.
Init ==
  /\ RemediationInit
  /\ \E p \in Command : at = [q \in Process |-> IF q = p THEN "launch" ELSE "idle"]
  /\ kind \in Kinds
  /\ status = "VALIDATING" /\ lease = "HEALTHY" /\ attempts = 0 /\ stage = "VALIDATION" /\ checkpoint = "NONE"
  /\ commit = 1 /\ linked = (kind # "BATCH") /\ mission = "ACTIVE"
  /\ job = "NONE" /\ monitor = NoMonitor /\ batch = "VALIDATING"
  /\ aim = [p \in Command |-> "RESUME"]
  /\ released = NoCommit

-----------------------------------------------------------------------------
(* Calls of the production runtime *)

Renewed == IF lease = "NONE" THEN "NONE" ELSE "HEALTHY"

\* heartbeat, and the calls that begin with it.
Heartbeat == lease' = Renewed /\ UNCHANGED status

\* Mutant: the lease stays with a run that waits for approval.
MovesKeepingLease(s) ==
  /\ MayTransition(status, s)
  /\ status' = s
  /\ lease'  = IF s \in Terminal \cup { "PAUSED" } THEN "NONE" ELSE lease

\* transition, once the table accepts it; the lease as commitTransition leaves it.
Moves(s) ==
  /\ MayTransition(status, s)
  /\ status' = s
  /\ lease'  = IF s \in Terminal \cup { "AWAITING_APPROVAL", "PAUSED" } THEN "NONE" ELSE lease

\* The same for a caller p: it goes on there, or to the handler when the call throws.
Calls(p, s, there, handler) ==
  IF MayTransition(status, s) THEN Moves(s) /\ Goto(p, there)
                              ELSE UNCHANGED leaseOfRun /\ Goto(p, handler)

\* resume goes back to validation, unless the stage that is open, or was when the run was
\* swept, is no stage of validation, or there was none.
Checkpoint == IF stage = "NONE" THEN checkpoint ELSE stage

BackToWork ==
  LET validates == Checkpoint \in { "NONE" } \cup ValidationStages
      starts    == validates /\ stage = "NONE"
  IN /\ status' = IF validates THEN "VALIDATING" ELSE "RUNNING"
     /\ lease'  = IF starts \/ lease = "NONE" THEN "HEALTHY" ELSE lease
     /\ stage'  = IF starts THEN "VALIDATION" ELSE stage
     /\ UNCHANGED checkpoint

Spent == attempts >= RepairLimit

\* recoverBlockedValidation and recoverBlockedFunctionalValidation on commit c.
Recovers(c) ==
  /\ status = "BLOCKED" /\ ~Spent /\ commit = c /\ linked
  /\ BackToWork /\ mission' = "ACTIVE"

\* updateRepositoryPosition or rebindRepositoryAfterRemediation, if c is another commit.
Rebinds(c) ==
  /\ commit' = c
  /\ IF commit = c THEN UNCHANGED leaseOfRun ELSE Heartbeat

-----------------------------------------------------------------------------
(* Environment of the run *)

MonitorAlive == \E m \in Monitor : at[m] # "idle"

\* While a monitor polls, it renews the lease of a run that is being validated, and of
\* no other; the other steps, but for the operator's, are short against a lease.
Renews(p) ==
  IF at[p] \in Engine \cup { "batch", "poll" } THEN p \in Monitor /\ status = "VALIDATING"
                                              ELSE at[p] \notin { "idle", "watch", "prompt" }

\* A lease runs out: nobody renews it, or its holder was too slow.
Expire ==
  /\ lease = "HEALTHY"
  /\ ((\A p \in Process : ~Renews(p)) /\ UNCHANGED faults) \/ Mishap("EXPIRY")
  /\ lease' = "EXPIRED"
  /\ UNCHANGED <<provider, rem, callVars, mishap, status, attempts, stageOfRun, commit, linked, mission, monitorVars>>

\* recoverStaleRuns, with which every command begins.
RecoverStaleRuns ==
  /\ lease = "EXPIRED" /\ lease' = "NONE"
  /\ IF status \in ActiveStatus
     THEN /\ status' = "RECOVERING" /\ stage' = "NONE"
          /\ checkpoint' = IF stage = "NONE" THEN "RUN_START" ELSE stage
     ELSE UNCHANGED <<status, stage, checkpoint>>
  /\ UNCHANGED <<remediationVars, attempts, commit, linked, mission, monitorVars>>

\* pbos pause and cancel.
OperatorStops ==
  /\ Mishap("OPERATOR")
  /\ \E s \in { "PAUSED", "CANCELLED" } :
       /\ status \in IF s = "PAUSED" THEN Pausable ELSE Status \ Terminal
       /\ Moves(s)
  /\ UNCHANGED <<provider, rem, callVars, mishap, attempts, stageOfRun, commit, linked, mission,
                 monitorVars>>

\* pbos resume
OperatorResumes ==
  /\ status \in { "PAUSED", "RECOVERING" }
  /\ BackToWork
  /\ UNCHANGED <<remediationVars, attempts, commit, linked, mission, monitorVars>>

-----------------------------------------------------------------------------
(* The monitor: one poll is a resume of the remediation run, the            *)
(* reconciliation of the production run with its result, and the update of  *)
(* the batch.                                                               *)

Result(p) == copy[p].state

\* What a monitor's step leaves alone but for the run and its own place.
Quiet == UNCHANGED <<provider, rem, copy, seen, mishap, faults, monitorVars>>

\* ... when the record it holds is no longer of use.
Drop(p) == copy' = [copy EXCEPT ![p] = Started]

QuietDrop(p) == Drop(p) /\ UNCHANGED <<provider, rem, seen, mishap, faults, monitorVars>>

\* Where the poll of a run that is not reconciled goes on.
Onward == IF kind = "BATCH" THEN "batch" ELSE "poll"

\* Mutant: the validated head is not compared with the run's commit.
BranchAnyRevision(p) ==
  CASE Result(p) = "REMEDIATION_PUSHED"      -> "rebind"
    [] Result(p) = "READY_FOR_CERTIFICATION" -> IF kind = "FUNCTIONAL" THEN "verify" ELSE "approve"
    [] Result(p) = "BLOCKED"                 -> "halt"
    [] OTHER                                 -> Onward

\* A run that is being validated goes on by the result; a head that is ready must be
\* the commit the run has at this moment.
Branch(p) ==
  CASE Result(p) = "REMEDIATION_PUSHED" -> "rebind"
    [] Result(p) = "READY_FOR_CERTIFICATION" ->
         IF copy[p].headSha # commit THEN "refuse" ELSE IF kind = "FUNCTIONAL" THEN "verify" ELSE "approve"
    [] Result(p) = "BLOCKED" -> "halt"
    [] OTHER -> Onward

\* reconcileProductionMission
Reconcile(p) ==
  /\ at[p] = "answered"
  /\ IF linked /\ status = "VALIDATING"
     THEN Heartbeat /\ Goto(p, Branch(p))
     ELSE /\ UNCHANGED leaseOfRun
          /\ Goto(p, IF linked /\ status = "BLOCKED"
                        /\ Result(p) \in { "READY_FOR_CERTIFICATION", "REMEDIATION_PUSHED" }
                     THEN "recover" ELSE Onward)
  /\ UNCHANGED <<attempts, stageOfRun, commit, linked, mission>> /\ Quiet

Replacement(p) == IF Result(p) = "READY_FOR_CERTIFICATION" THEN copy[p].headSha ELSE copy[p].revision

\* A blocked run is moved to the replacement revision, then recovered.
Recover(p) ==
  /\ at[p] = "recover"
  /\ Rebinds(Replacement(p)) /\ Goto(p, "restart")
  /\ UNCHANGED <<attempts, stageOfRun, linked, mission>> /\ Quiet

Restart(p) ==
  /\ at[p] = "restart"
  /\ \/ Recovers(Replacement(p)) /\ Goto(p, IF status' = "VALIDATING" THEN Branch(p) ELSE Onward)
     \/ /\ status = "BLOCKED" /\ (Spent \/ commit # Replacement(p))
        /\ Goto(p, "failed")
        /\ UNCHANGED <<leaseOfRun, stageOfRun, mission>>
     \/ /\ status # "BLOCKED"
        /\ Goto(p, IF status = "VALIDATING" THEN Branch(p) ELSE Onward)
        /\ UNCHANGED <<leaseOfRun, stageOfRun, mission>>
  /\ UNCHANGED <<attempts, commit, linked>> /\ Quiet

\* A remediation was pushed: the run moves to its revision, its stage ends, an
\* attempt is counted between two transitions, and validation starts again.
Rebind(p) ==
  /\ at[p] = "rebind"
  /\ Rebinds(copy[p].revision) /\ Goto(p, "repair")
  /\ UNCHANGED <<attempts, stageOfRun, linked, mission>> /\ Quiet

Repair(p) ==
  /\ at[p] = "repair" /\ stage' = "NONE"
  /\ Calls(p, "REPAIRING", "count", "failed")
  /\ UNCHANGED <<attempts, checkpoint, commit, linked, mission>> /\ Quiet

\* recordRepairAttempt(STARTED)
Count(p) ==
  /\ at[p] = "count"
  /\ IF Spent THEN Goto(p, "failed") /\ UNCHANGED attempts
              ELSE attempts' = attempts + 1 /\ Goto(p, "revalidate")
  /\ Heartbeat
  /\ UNCHANGED <<stageOfRun, commit, linked, mission>> /\ Quiet

\* startStage refuses to open a second stage.
Revalidate(p) ==
  /\ at[p] = "revalidate"
  /\ IF MayTransition(status, "VALIDATING")
     THEN /\ status' = "VALIDATING" /\ lease' = Renewed
          /\ IF stage = "NONE" THEN stage' = "VALIDATION" /\ Goto(p, Onward)
                               ELSE UNCHANGED stage /\ Goto(p, "failed")
     ELSE UNCHANGED <<leaseOfRun, stage>> /\ Goto(p, "failed")
  /\ UNCHANGED <<attempts, checkpoint, commit, linked, mission>> /\ Quiet

\* The stage ends and the run awaits approval.
Approve(p) ==
  /\ at[p] = "approve"
  /\ stage' = "NONE"
  /\ Calls(p, "AWAITING_APPROVAL", Onward, "refuse")
  /\ UNCHANGED <<attempts, checkpoint, commit, linked, mission>> /\ Quiet

\* verifyApplication: the application is launched, probed and exercised under a
\* heartbeat of its own.  acceptFunctionalApplication wants the evidence to be the
\* current commit's.
Verify(p) ==
  /\ at[p] = "verify"
  /\ \/ /\ status = "VALIDATING" /\ commit = copy[p].headSha
        /\ Moves("AWAITING_APPROVAL") /\ stage' = "NONE" /\ Goto(p, Onward)
     \/ Heartbeat /\ UNCHANGED stage /\ Goto(p, "reject")
  /\ UNCHANGED <<attempts, checkpoint, commit, linked, mission>> /\ Quiet

\* Its catch block: the open stage fails, and the run is repaired for the time it takes
\* to count the attempt; both catch blocks then block it.
Reject(p) ==
  /\ at[p] = "reject"
  /\ stage' = "NONE"
  /\ IF status = "VALIDATING" /\ ~Spent
     THEN Moves("REPAIRING") /\ Goto(p, "spend")
     ELSE UNCHANGED leaseOfRun /\ Goto(p, "refuse")
  /\ UNCHANGED <<attempts, checkpoint, commit, linked, mission>> /\ Quiet

Spend(p) ==
  /\ at[p] = "spend" /\ Goto(p, "refuse")
  /\ attempts' = IF Spent THEN attempts ELSE attempts + 1
  /\ Heartbeat
  /\ UNCHANGED <<stageOfRun, commit, linked, mission>> /\ Quiet

\* Mutant: only the mission is blocked.
RefuseQuietly(p) ==
  /\ at[p] = "refuse" /\ Goto(p, "failed")
  /\ stage' = "NONE" /\ mission' = "BLOCKED"
  /\ UNCHANGED <<leaseOfRun, checkpoint, attempts, commit, linked>> /\ Quiet

\* The monitor's own catch block blocks the run and its mission, and throws on.
Refuse(p) ==
  /\ at[p] = "refuse" /\ Goto(p, "failed")
  /\ stage' = "NONE"
  /\ IF status \in { "BLOCKED", "FAILED", "CANCELLED" }
     THEN mission' = "BLOCKED" /\ UNCHANGED leaseOfRun
     ELSE IF MayTransition(status, "BLOCKED")
     THEN mission' = "BLOCKED" /\ Moves("BLOCKED")
     ELSE UNCHANGED <<mission, leaseOfRun>>
  /\ UNCHANGED <<attempts, checkpoint, commit, linked>> /\ Quiet

\* The result is final: nothing can be remediated.
Halt(p) ==
  /\ at[p] = "halt"
  /\ stage' = "NONE"
  /\ Calls(p, "BLOCKED", Onward, "failed")
  /\ mission' = IF MayTransition(status, "BLOCKED") THEN "BLOCKED" ELSE mission
  /\ UNCHANGED <<attempts, checkpoint, commit, linked>> /\ Quiet

-----------------------------------------------------------------------------
(* updateForValidation *)

BatchOf(state) ==
  CASE state \in { "REMEDIATION_REQUIRED", "REMEDIATION_PUSHED" } -> "REMEDIATING"
    [] state = "WAITING_FOR_CHECKS"                               -> "VALIDATING"
    [] OTHER                                                      -> state

\* How the batch's run follows; a spent budget throws after the transition.
FollowRemediation(p) ==
  /\ batch' = "REMEDIATING" /\ status = "VALIDATING"
  /\ status' = "REPAIRING" /\ lease' = Renewed
  /\ IF Spent THEN stage' = "NONE" /\ UNCHANGED attempts /\ Goto(p, "failed")
              ELSE stage' = "REPAIR" /\ attempts' = attempts + 1 /\ Goto(p, "poll")
  /\ UNCHANGED linked

FollowValidation(p) ==
  /\ batch' = "VALIDATING" /\ status = "REPAIRING"
  /\ status' = "VALIDATING" /\ lease' = Renewed /\ stage' = "VALIDATION"
  /\ Goto(p, "poll")
  /\ UNCHANGED <<attempts, linked>>

FollowReady(p) ==
  /\ batch' = "READY_FOR_CERTIFICATION" /\ status = "VALIDATING"
  /\ Moves("AWAITING_APPROVAL") /\ stage' = "NONE" /\ linked' = TRUE
  /\ Goto(p, "poll")
  /\ UNCHANGED attempts

FollowBlocked(p) ==
  /\ batch' = "BLOCKED" /\ status \notin { "BLOCKED", "FAILED", "CANCELLED" }
  /\ stage' = "NONE"
  /\ Calls(p, "BLOCKED", "poll", "failed")
  /\ UNCHANGED <<attempts, linked>>

FollowNothing(p) ==
  /\ ~(batch' = "REMEDIATING" /\ status = "VALIDATING")
  /\ ~(batch' = "VALIDATING" /\ status = "REPAIRING")
  /\ ~(batch' = "READY_FOR_CERTIFICATION" /\ status = "VALIDATING")
  /\ ~(batch' = "BLOCKED" /\ status \notin { "BLOCKED", "FAILED", "CANCELLED" })
  /\ Heartbeat /\ Goto(p, "poll")
  /\ UNCHANGED <<attempts, stage, linked>>

UpdateForValidation(p) ==
  /\ at[p] = "batch"
  /\ batch' = BatchOf(Result(p))
  /\ \/ FollowRemediation(p) \/ FollowValidation(p) \/ FollowReady(p)
     \/ FollowBlocked(p) \/ FollowNothing(p)
  /\ UNCHANGED <<provider, rem, copy, seen, mishap, faults, checkpoint, commit, mission,
                 kind, job, monitor, aim, released>>

-----------------------------------------------------------------------------
(* The end of a poll, and of the monitor *)

Poll(p) ==
  /\ at[p] = "poll"
  /\ IF Result(p) \in { "READY_FOR_CERTIFICATION", "BLOCKED" }
     THEN /\ job' = IF Result(p) = "BLOCKED" THEN "BLOCKED" ELSE "COMPLETED"
          /\ Goto(p, "idle")
     ELSE UNCHANGED job /\ Goto(p, "read")
  /\ Drop(p)
  /\ UNCHANGED <<provider, rem, seen, mishap, faults, runVars, kind, monitor, batch, aim, released>>

\* The polling limit.
PollLimit(p) ==
  /\ at[p] = "poll" /\ Mishap("LIMIT")
  /\ Result(p) \notin { "READY_FOR_CERTIFICATION", "BLOCKED" }
  /\ Goto(p, "failed") /\ Drop(p)
  /\ UNCHANGED <<provider, rem, seen, mishap, runVars, monitorVars>>

\* The catch block of run: the job is blocked, and a batch with it.
Failed(p) ==
  /\ at[p] = "failed" /\ Goto(p, "idle")
  /\ job' = "BLOCKED"
  /\ IF kind = "BATCH" /\ status \notin { "BLOCKED", "FAILED", "CANCELLED" }
                       /\ MayTransition(status, "BLOCKED")
     THEN Moves("BLOCKED") /\ stage' = "NONE"
     ELSE UNCHANGED <<leaseOfRun, stage>>
  /\ batch' = IF kind = "BATCH" THEN "BLOCKED" ELSE batch
  /\ Drop(p)
  /\ UNCHANGED <<provider, rem, seen, mishap, faults, attempts, checkpoint, commit, linked, mission,
                 kind, monitor, aim, released>>

-----------------------------------------------------------------------------
(* pbos run: resumeExistingProductionValidation *)

Resumable == { "VALIDATING", "BLOCKED", "PAUSED", "RECOVERING", "AWAITING_APPROVAL" }

\* A command while a monitor is at work is a disturbance of its own.
Given(p) ==
  at[p] = "idle" /\ (Mishap("COMMAND") \/ (~MonitorAlive /\ UNCHANGED faults))

\* A command stops at once on a blocked remediation run whose production run is not
\* blocked, and on a blocked production run without budget.
Attach(p) ==
  /\ Given(p) /\ linked /\ status \in Resumable
  /\ ~(rem.state = "BLOCKED" /\ status # "BLOCKED" /\ ~Retryable(rem))
  /\ ~(status = "BLOCKED" /\ Spent)
  /\ aim' = [aim EXCEPT ![p] = IF status = "AWAITING_APPROVAL" THEN "APPROVE" ELSE "RESUME"]
  /\ Goto(p, "read")
  /\ UNCHANGED <<provider, rem, copy, seen, mishap, runVars, kind, job, monitor, batch, released>>

Resuming(p) == aim' = [aim EXCEPT ![p] = "RESUME"]

\* Only the head that was accepted is offered for approval.
OfferApproval(p) ==
  /\ at[p] = "answered" /\ aim[p] = "APPROVE"
  /\ Result(p) = "READY_FOR_CERTIFICATION" /\ copy[p].headSha = commit
  /\ Goto(p, "prompt") /\ Drop(p) /\ Resuming(p)
  /\ UNCHANGED <<provider, rem, seen, mishap, faults, runVars, kind, job, monitor, batch, released>>

\* The pull request advanced after acceptance: the run is blocked and resumed.
RefuseApproval(p) ==
  /\ at[p] = "answered" /\ aim[p] = "APPROVE"
  /\ ~(Result(p) = "READY_FOR_CERTIFICATION" /\ copy[p].headSha = commit)
  /\ Calls(p, "BLOCKED", "read", "idle")
  /\ Resuming(p) /\ Drop(p)
  /\ UNCHANGED <<provider, rem, seen, mishap, faults, attempts, stageOfRun, commit, linked, mission,
                 kind, job, monitor, batch, released>>

\* A head that is ready is the run's commit from here on.
Resumed(p) ==
  /\ at[p] = "answered" /\ aim[p] = "RESUME"
  /\ IF Result(p) = "READY_FOR_CERTIFICATION"
     THEN Rebinds(copy[p].headSha) /\ Goto(p, "revive") /\ UNCHANGED copy
     ELSE /\ Goto(p, IF Result(p) = "BLOCKED" THEN "idle" ELSE "launch")
          /\ Drop(p) /\ UNCHANGED <<leaseOfRun, commit>>
  /\ UNCHANGED <<provider, rem, seen, mishap, faults, attempts, stageOfRun, linked, mission, monitorVars>>

\* A protected gate before the run is revived: the staging migration is refused and a run
\* being validated paused, or the acceptance authority is not given.
Gate(p) ==
  /\ at[p] = "revive" /\ Mishap("OPERATOR") /\ Goto(p, "idle")
  /\ IF status = "VALIDATING" THEN Moves("PAUSED") \/ UNCHANGED leaseOfRun ELSE UNCHANGED leaseOfRun
  /\ Drop(p)
  /\ UNCHANGED <<provider, rem, seen, mishap, attempts, stageOfRun, commit, linked, mission, monitorVars>>

\* The staging migration fails: the mission is blocked, then the run, if the table lets it.
GateFails(p) ==
  /\ at[p] = "revive" /\ Mishap("ERROR") /\ Goto(p, "idle")
  /\ IF status = "BLOCKED" THEN UNCHANGED <<leaseOfRun, mission>>
     ELSE /\ mission' = "BLOCKED"
          /\ IF MayTransition(status, "BLOCKED") THEN Moves("BLOCKED") ELSE UNCHANGED leaseOfRun
  /\ Drop(p)
  /\ UNCHANGED <<provider, rem, seen, mishap, attempts, stageOfRun, commit, linked, monitorVars>>

Revive(p) ==
  /\ at[p] = "revive"
  /\ \/ /\ status \in { "PAUSED", "RECOVERING" } /\ BackToWork
        /\ Goto(p, "launch") /\ UNCHANGED mission
     \/ Recovers(copy[p].headSha) /\ Goto(p, "launch")
     \/ /\ status \notin { "PAUSED", "RECOVERING", "BLOCKED" }
        /\ Goto(p, "launch") /\ UNCHANGED <<leaseOfRun, stageOfRun, mission>>
     \/ /\ status = "BLOCKED" /\ (Spent \/ commit # copy[p].headSha)
        /\ Goto(p, "idle") /\ UNCHANGED <<leaseOfRun, stageOfRun, mission>>
  /\ UNCHANGED <<attempts, commit, linked>> /\ QuietDrop(p)

-----------------------------------------------------------------------------
(* Launching a monitor, and watching it *)

\* pbos with no command relaunches the monitor of a run that is not finished.
Relaunch(p) ==
  /\ at[p] = "idle"
  /\ rem.state \notin { "BLOCKED", "READY_FOR_CERTIFICATION" }
  /\ Goto(p, "launch")
  /\ UNCHANGED runVars /\ Quiet

\* BackgroundProcessLauncher.launch: a job whose process lives is left alone.
Launch(p) ==
  /\ at[p] = "launch"
  /\ Goto(p, IF job = "RUNNING" /\ at[monitor] # "idle" THEN "watch" ELSE "spawn")
  /\ UNCHANGED runVars /\ Quiet

\* The process is spawned and its job saved.
Spawn(p) ==
  /\ at[p] = "spawn"
  /\ \E m \in Monitor :
       /\ at[m] = "idle"
       /\ at' = [at EXCEPT ![m] = "read", ![p] = "watch"]
       /\ job' = "RUNNING" /\ monitor' = m
  /\ UNCHANGED <<provider, rem, copy, seen, mishap, faults, runVars, kind, batch, aim, released>>

\* streamProductionTelemetry, until the run waits, stops, or the terminal detaches.
Watch(p) ==
  /\ at[p] = "watch"
  /\ \/ status = "AWAITING_APPROVAL" /\ rem.state = "READY_FOR_CERTIFICATION" /\ Goto(p, "prompt")
     \/ Goto(p, "idle")
  /\ UNCHANGED runVars /\ Quiet

-----------------------------------------------------------------------------
(* promptForValidatedMissionPromotion *)

\* Asked to certify and merge, the operator declines, or agrees and assertCertifiable
\* holds.
Answer(p) ==
  /\ at[p] = "prompt"
  /\ \/ Goto(p, "idle")
     \/ status = "AWAITING_APPROVAL" /\ mission = "ACTIVE" /\ Goto(p, "merge")
  /\ UNCHANGED runVars /\ Quiet

\* Mutant: a merge that failed is not noticed.
MergeAttempted(p) ==
  /\ at[p] = "merge"
  /\ \/ /\ Squash
        /\ released' = head /\ Goto(p, "certify")
     \/ pr # "OPEN" /\ UNCHANGED <<provider, released>> /\ Goto(p, "certify")
  /\ UNCHANGED <<rem, copy, seen, mishap, faults, runVars, kind, job, monitor, batch, aim>>

\* mergePullRequest: whatever head the pull request has by now; a merged one is left
\* alone, a closed one is an error.
MergePullRequest(p) ==
  /\ at[p] = "merge"
  /\ \/ /\ Squash
        /\ released' = head /\ Goto(p, "certify")
     \/ /\ pr # "OPEN" /\ UNCHANGED <<provider, released>>
        /\ Goto(p, IF pr = "MERGED" THEN "certify" ELSE "idle")
  /\ UNCHANGED <<rem, copy, seen, mishap, faults, runVars, kind, job, monitor, batch, aim>>

\* certify
Certify(p) ==
  /\ at[p] = "certify" /\ Goto(p, "idle")
  /\ IF status = "AWAITING_APPROVAL" /\ mission = "ACTIVE"
     THEN Moves("CERTIFIED") /\ mission' = "COMPLETE"
     ELSE UNCHANGED <<leaseOfRun, mission>>
  /\ UNCHANGED <<attempts, stageOfRun, commit, linked>> /\ Quiet

-----------------------------------------------------------------------------

Crash(p) ==
  /\ at[p] # "idle" /\ Mishap("CRASH")
  /\ Goto(p, "idle") /\ Drop(p) /\ Forget(p)
  /\ aim' = [q \in Command |-> IF q = p THEN "RESUME" ELSE aim[q]]
  /\ UNCHANGED <<provider, rem, mishap, runVars, kind, job, monitor, batch, released>>

ResumesRemediation(p) == Resume(p) /\ UNCHANGED <<runVars, monitorVars>>

Monitors(p) ==
  \/ ResumesRemediation(p)
  \/ Reconcile(p) \/ Recover(p) \/ Restart(p)
  \/ Rebind(p) \/ Repair(p) \/ Count(p) \/ Revalidate(p)
  \/ Approve(p) \/ Verify(p) \/ Reject(p) \/ Spend(p) \/ Refuse(p)
  \/ Halt(p) \/ UpdateForValidation(p) \/ Poll(p) \/ Failed(p)

\* A command that fails ends.
Fails(p) == at[p] = "failed" /\ Goto(p, "idle") /\ Drop(p) /\ Resuming(p)
            /\ UNCHANGED <<provider, rem, seen, mishap, faults, runVars, kind, job, monitor, batch, released>>

Operates(p) ==
  \/ ResumesRemediation(p)
  \/ OfferApproval(p) \/ RefuseApproval(p) \/ Resumed(p)
  \/ Gate(p) \/ GateFails(p) \/ Revive(p)
  \/ Launch(p) \/ Spawn(p) \/ Watch(p)
  \/ Answer(p) \/ MergePullRequest(p) \/ Certify(p) \/ Fails(p)

Next ==
  \/ Provider /\ UNCHANGED <<runVars, monitorVars>>
  \/ Expire \/ RecoverStaleRuns \/ OperatorStops \/ OperatorResumes
  \/ \E p \in Monitor : Monitors(p) \/ PollLimit(p) \/ Crash(p)
  \/ \E p \in Command : Attach(p) \/ Relaunch(p) \/ Operates(p) \/ Crash(p)

Spec == Init /\ [][Next]_vars

-----------------------------------------------------------------------------
(* Fairness *)

\* The provider starts the workflow of an open pull request's head, and workflows end.
ProviderFairness ==
  /\ WF_vars(pr = "OPEN" /\ ChecksStart /\ UNCHANGED <<runVars, monitorVars>>)
  /\ WF_vars((ChecksPass \/ ChecksEnd) /\ UNCHANGED <<runVars, monitorVars>>)

\* A process that lives takes its next step.  Its waits are finite: the delay before a
\* retry passes, and CI of a merged revision is not waited for forever.
ProcessFairness ==
  /\ \A p \in Monitor : WF_vars(Monitors(p))
  /\ \A p \in Command : WF_vars(Operates(p))
  /\ \A p \in Process :
       /\ SF_vars(/\ at[p] = "decide"
                  /\ RetryInfrastructure(p) \/ ExhaustInfrastructure(p)
                  /\ UNCHANGED <<runVars, monitorVars>>)
       /\ SF_vars(/\ at[p] = "decide"
                  /\ AwaitMergedValidation(p) /\ rem'.state = "BLOCKED"
                  /\ UNCHANGED <<runVars, monitorVars>>)

\* Time passes for a lease nobody renews; the operator opens PBOS again while there is
\* something to resume, and every opening sweeps the expired leases.
OperatorReturns ==
  /\ WF_vars(Expire) /\ WF_vars(RecoverStaleRuns)
  /\ \A p \in Command : WF_vars(~MonitorAlive /\ (Relaunch(p) \/ Attach(p)))

FairSpec == Spec /\ ProviderFairness /\ ProcessFairness /\ OperatorReturns

-----------------------------------------------------------------------------
(* Properties *)

Underway == { "VALIDATING", "REPAIRING" }

\* A run that waits for approval, or is certified, is at a commit whose checks have
\* passed, whatever was pushed, rerun, merged or rebound by the monitor and by a command
\* while the other looked away (reconcileProductionMission,
\* resumeExistingProductionValidation).  A batch is approved without a comparison.
ApprovedRevisionPassed ==
  kind # "BATCH" /\ status \in { "AWAITING_APPROVAL", "CERTIFIED" } => commit \in passed

\* A certified run's pull request is merged and its mission complete: neither a closed
\* pull request nor a run blocked behind the prompt's back is certified
\* (promptForValidatedMissionPromotion).
CertifiedIsMerged ==
  status = "CERTIFIED" => pr = "MERGED" /\ mission = "COMPLETE"

\* Every fix the engine pushed is counted as an attempt, but for the one being recorded:
\* so long as no process dies in between and one process resumes at a time (resume).
FixesAreCounted ==
  mishap \notin { "CRASH", "COMMAND" } =>
    fixes = rem.attempt + Cardinality({ p \in Process : at[p] = "push" })

\* The run as the production runtime's abstract specification sees it.
PhaseOfRun ==
  CASE status \in Pausable                   -> "WORKING"
    [] status \in { "PAUSED", "RECOVERING" } -> "SUSPENDED"
    [] status \in { "BLOCKED", "FAILED" }    -> "STOPPED"
    [] status = "AWAITING_APPROVAL"          -> "APPROVAL"
    [] OTHER                                 -> status

theRun    == { "run" }
phaseBar  == [r \in theRun |-> PhaseOfRun]
holderBar == { r \in theRun : lease # "NONE" }

Lifecycle == INSTANCE RunLifecycle WITH Run <- theRun, phase <- phaseBar, holder <- holderBar

\* The monitor, the commands and the sweep together take the run through the phases
\* RunLifecycle allows, and the lease with it.
FollowsLifecycle == [][Lifecycle!Next]_<<phaseBar, holderBar>>

\* Validation ends, by a result, by the operator or by the sweep of expired leases: no
\* monitor polls forever and no run stays behind a monitor that stopped (run, resume).
ValidationEnds ==
  (mishap # "SKIP" /\ status \in Underway) ~> (status \notin Underway)

\* If nothing goes wrong, a result that is final reaches the production run: it is
\* approved or blocked, and does not have to be recovered (reconcileProductionMission).
ResultsAreHonoured ==
  (mishap = "NOTHING" /\ linked /\ rem.state \in { "READY_FOR_CERTIFICATION", "BLOCKED" })
    ~> (status \in { "AWAITING_APPROVAL", "CERTIFIED", "BLOCKED" })
=============================================================================

------------------------ MODULE FunctionalAcceptance ------------------------
(***************************************************************************)
(* The functional acceptance of one run: the background monitor finds its  *)
(* checks passed, positions the checkout, deploys the preview and calls    *)
(* AutonomousProductionKernel.verifyApplication; the kernel drives         *)
(* FunctionalApplicationRuntime.execute, which prepares the application,   *)
(* launches it as a detached process group, observes it through its port   *)
(* and stops it.  The run, its stages and its lease are those of           *)
(* ProductionRuntime, called one method at a time, while a terminal may    *)
(* pause, cancel, resume or sweep the run between two calls.               *)
(*                                                                         *)
(* The port belongs to whichever application listens on it.  An            *)
(* application serves the revision that was checked out when it started    *)
(* to listen.  A launch is the shell that was spawned (npm) and the server *)
(* below it: signals reach the group while the shell has not exited.       *)
(***************************************************************************)
EXTENDS ProductionRuntime

CONSTANTS
  Target,       \* the run
  HasNative,    \* the plan has native journeys
  MaxLaunches,  \* bound: times the monitor takes the run up
  MaxMishaps    \* bound: crashes, stalls, lingering servers, held pipes, moved checkouts,
                \* pauses and cancellations

Nothing == "NOTHING"

KernelStages == { "PREREQUISITE", "APPLICATION_LAUNCH", "RUNTIME_VERIFICATION",
                  "BROWSER_JOURNEY", "NATIVE_JOURNEY", "ACCEPTANCE", "PREVIEW" }

ASSUME AcceptanceAssumption ==
  /\ Run = { Target } /\ Functional = Run
  /\ KernelStages \subseteq StageType
  /\ HasNative \in BOOLEAN /\ Nothing \notin Commit
  /\ MaxLaunches \in Nat /\ MaxMishaps \in Nat

VARIABLES
  at,        \* where the monitor process is
  phase,     \* the stage it verifies for
  job,       \* the verification: plan.commit, what it observed, whether it failed
  target,    \* where the journeys run: the application or the plan's deployed preview
  canon,     \* the plan has journeys under a visual canon
  deployed,  \* the commit of plan.durablePreview
  head,      \* HEAD of the shared checkout
  shell,     \* launch -> the spawned child
  server,    \* launch -> the server below it
  rev,       \* launch -> the revision it serves
  launch,    \* the monitor's turn, and the launch of that turn
  command,   \* the bounded command under way
  done,      \* history: stages whose work succeeded
  calm,      \* history: no crash, no lingering server, no checkout moved underneath
  mishaps

hostVars == <<head, shell, server, rev>>
kernelVars == <<at, phase, job, launch, command>>
planVars == <<target, canon, deployed>>
boundVars == <<calm, mishaps>>
acceptanceVars == <<kernelVars, hostVars, planVars, done, boundVars>>
allVars == <<vars, acceptanceVars>>

Launch == 1 .. MaxLaunches

Location == { "idle", "position", "deploy", "verify", "close", "record", "open", "check",
              "canon", "work", "health", "report", "stop", "stopping", "evidence", "preview",
              "finish", "accept", "fail", "repair", "count", "block", "refuse", "halt" }

NoJob == [commit |-> Nothing, seen |-> {}, failed |-> FALSE]

AcceptanceTypeOK ==
  /\ TypeOK
  /\ at \in Location /\ phase \in KernelStages
  /\ job \in [commit : Commit \cup { Nothing }, seen : SUBSET Commit, failed : BOOLEAN]
  /\ target \in { "APPLICATION", "PREVIEW" } /\ canon \in BOOLEAN
  /\ deployed \in Commit \cup { Nothing }
  /\ head \in Commit
  /\ shell  \in [Launch -> { "none", "live", "signalled", "exited" }]
  /\ server \in [Launch -> { "none", "loading", "listening", "lingering" }]
  /\ rev    \in [Launch -> Commit \cup { Nothing }]
  /\ launch \in 0 .. MaxLaunches
  /\ command \in { "none", "running", "held" }
  /\ done \subseteq 1 .. MaxStages
  /\ calm \in BOOLEAN /\ mishaps \in 0 .. MaxMishaps

\* The run as its executor leaves it: validating, linked to the remediation run of its
\* pull request, with a plan; remediation may have spent attempts already.
AcceptanceInit ==
  /\ status     = [r \in Run |-> "VALIDATING"]
  /\ stages     = [r \in Run |-> << [type |-> "VALIDATION", status |-> "RUNNING"] >>]
  /\ active     = [r \in Run |-> 1]
  /\ checkpoint = [r \in Run |-> "NONE"]
  /\ attempts   \in [Run -> { 0, RepairLimit }]
  /\ limit      = [r \in Run |-> RepairLimit]
  /\ linked     = [r \in Run |-> TRUE]
  /\ revision   = [r \in Run |-> FirstCommit]
  /\ plan       = [r \in Run |-> FirstCommit]
  /\ evidence   = [r \in Run |-> {}]
  /\ previews   = [r \in Run |-> FALSE]
  /\ lease      = [r \in Run |-> "ACTIVE"]
  /\ left       = [r \in Run |-> LeaseTtl]
  /\ at = "idle" /\ phase = "PREREQUISITE" /\ job = NoJob
  /\ target \in { "APPLICATION", "PREVIEW" } /\ canon \in BOOLEAN
  /\ deployed = Nothing
  /\ head = FirstCommit
  /\ shell  = [k \in Launch |-> "none"]
  /\ server = [k \in Launch |-> "none"]
  /\ rev    = [k \in Launch |-> Nothing]
  /\ launch = 0 /\ command = "none" /\ done = {}
  /\ calm = TRUE /\ mishaps = 0

-----------------------------------------------------------------------------
(* Helpers *)

Goto(l) == at' = l /\ UNCHANGED <<phase, job, launch, command>>

\* Steps that leave the host, the plan and the history alone.
Quiet == UNCHANGED <<hostVars, planVars, done, boundVars>>

Steady == UNCHANGED vars

Listening == { k \in Launch : server[k] \in { "listening", "lingering" } }

\* Neither process of the launch is left.
Gone(k) ==
  /\ shell'  = [shell EXCEPT ![k] = "exited"]
  /\ server' = [server EXCEPT ![k] = "none"]
  /\ rev'    = [rev EXCEPT ![k] = Nothing]

\* What a request to the plan's base URL is answered by.
Answers == IF target = "PREVIEW" THEN { deployed } \ { Nothing } ELSE { rev[k] : k \in Listening }

\* An error inside execute: before the launch it leaves the runtime at once, after it
\* the finally block stops the application first.
Throw ==
  /\ at' = IF phase \in { "PREREQUISITE", "APPLICATION_LAUNCH" } THEN "fail" ELSE "stop"
  /\ job' = [job EXCEPT !.failed = TRUE]

\* The reporter's stage for each event.
Following ==
  [ PREREQUISITE         |-> "APPLICATION_LAUNCH",
    APPLICATION_LAUNCH   |-> "RUNTIME_VERIFICATION",
    RUNTIME_VERIFICATION |-> "BROWSER_JOURNEY",
    BROWSER_JOURNEY      |-> IF HasNative THEN "NATIVE_JOURNEY" ELSE "ACCEPTANCE",
    NATIVE_JOURNEY       |-> "ACCEPTANCE",
    ACCEPTANCE           |-> "PREVIEW" ]

\* The phase whose stage is still open when execute returns.
LastPhase == IF target = "PREVIEW" THEN "PREVIEW" ELSE "ACCEPTANCE"

RequiredStages == AcceptanceStages \cup (IF target = "PREVIEW" THEN { "PREVIEW" } ELSE {})

Open == active[Target] # 0

\* A verification died within a stage of its own.
Interrupted == at = "idle" /\ Open /\ stages[Target][active[Target]].type \in KernelStages

CompleteActive == IF Open THEN CompleteStage(Target, active[Target]) ELSE Steady

\* The active stage, if it is the one this phase opened.
DoneNow == IF Open /\ stages[Target][active[Target]].type = phase THEN { active[Target] } ELSE {}

-----------------------------------------------------------------------------
(* The monitor, before the kernel *)

\* A remediation moved the pull request's head: lineage and plan follow it, and the
\* preview of the old revision goes.
Supersede(c) ==
  /\ at = "idle" /\ status[Target] = "BLOCKED" /\ c \notin { revision[Target], FirstCommit }
  /\ RebindRepositoryAfterRemediation(Target, c)
  /\ deployed' = Nothing
  /\ UNCHANGED <<kernelVars, hostVars, target, canon, done, boundVars>>

TakeUp ==
  /\ at' = "position" /\ launch' = launch + 1
  /\ UNCHANGED <<phase, job, command>> /\ Quiet

\* reconcileProductionMission with passed checks: a blocked run is recovered first.
Recover ==
  /\ at = "idle" /\ launch < MaxLaunches
  /\ RecoverBlockedValidation(Target)
  /\ TakeUp

Poll ==
  /\ at = "idle" /\ launch < MaxLaunches /\ status[Target] = "VALIDATING"
  /\ Heartbeat(Target)
  /\ TakeUp

\* GitMergedRevisionPositioner, once the pull request is merged or the lineage rebound;
\* otherwise the executor's checkout is taken as it stands.
Position ==
  /\ at = "position"
  /\ \/ head' = revision[Target] /\ Goto("deploy")
     \/ revision[Target] = FirstCommit /\ UNCHANGED head /\ Goto("deploy")
     \/ UNCHANGED head /\ Goto("refuse")
  /\ Steady /\ UNCHANGED <<shell, server, rev, planVars, done, boundVars>>

\* deploy polls until the deployment is READY and compares its commit with the plan's;
\* attachDurablePreview keeps it in the plan.
Deploy ==
  /\ at = "deploy"
  /\ IF target = "APPLICATION" \/ deployed # Nothing
     THEN Goto("verify") /\ Steady /\ UNCHANGED deployed
     ELSE \/ deployed' = plan[Target] /\ Goto("verify") /\ Heartbeat(Target)
          \/ Goto("refuse") /\ Steady /\ UNCHANGED deployed
  /\ UNCHANGED <<hostVars, target, canon, done, boundVars>>

-----------------------------------------------------------------------------
(* verifyApplication *)

\* Its guard: errors before the try block go to the monitor's catch block.
Verify ==
  /\ at = "verify"
  /\ IF status[Target] = "VALIDATING"
     THEN /\ at' = "close"
          /\ job' = [commit |-> plan[Target], seen |-> {}, failed |-> FALSE]
          /\ phase' = "PREREQUISITE" /\ UNCHANGED <<launch, command>>
     ELSE Goto("refuse")
  /\ Steady /\ Quiet

\* Whatever stage is active is completed as the validation stage.
Close ==
  /\ at = "close" /\ CompleteActive /\ Goto("record") /\ Quiet

Record ==
  /\ at = "record" /\ RecordValidation(Target) /\ Goto("open") /\ Quiet

\* startStage; the reporter's calls run inside execute.
OpenStage ==
  /\ at = "open"
  /\ IF StageOpen(Target)
     THEN /\ Heartbeat(Target)
          /\ IF phase = "PREREQUISITE" THEN Goto("refuse")
             ELSE Throw /\ UNCHANGED <<phase, launch, command>>
     ELSE /\ StartStage(Target, phase)
          /\ Goto(IF phase = "PREREQUISITE" THEN "check" ELSE "work")
  /\ Quiet

\* The reporter ends the stage of the phase whose event it gets.
Report ==
  /\ at = "report"
  /\ done' = done \cup DoneNow
  /\ CompleteActive
  /\ at' = "open" /\ phase' = Following[phase]
  /\ UNCHANGED <<job, launch, command, hostVars, planVars, boundVars>>

\* recordAcceptanceEvidence, recordPreview, completeActiveStage.
RecordEvidence ==
  /\ at = "evidence"
  /\ RecordAcceptanceEvidence(Target, job.commit, Dimension)
  /\ Goto("preview") /\ Quiet

RecordManifest ==
  /\ at = "preview" /\ RecordPreview(Target) /\ Goto("finish") /\ Quiet

Finish ==
  /\ at = "finish"
  /\ done' = done \cup DoneNow
  /\ CompleteActive
  /\ Goto("accept")
  /\ UNCHANGED <<hostVars, planVars, boundVars>>

Acceptable ==
  /\ CertificationEvidence(Target) /\ RequiredStages \subseteq CompletedTypes(Target)
  /\ MayTransition(status[Target], "AWAITING_APPROVAL")

Accept ==
  /\ at = "accept"
  /\ IF Acceptable THEN AcceptFunctionalApplication(Target) /\ Goto("idle")
     ELSE Steady /\ Goto("fail")
  /\ Quiet

-----------------------------------------------------------------------------
(* Its catch block, and the monitor's *)

\* Mutant: the open stage is left to the monitor's catch block.
FailWithoutStage ==
  /\ at = "fail" /\ Steady /\ Goto("repair") /\ Quiet

Fail ==
  /\ at = "fail"
  /\ IF Open THEN FailStage(Target) ELSE Steady
  /\ Goto("repair") /\ Quiet

\* Blocked for good without budget, else in repair for as long as it takes to count.
Repair ==
  /\ at = "repair"
  /\ IF status[Target] = "VALIDATING"
     THEN IF RepairsLeft(Target) = 0
          THEN Transition(Target, "BLOCKED") /\ Goto("refuse")
          ELSE Transition(Target, "REPAIRING") /\ Goto("count")
     ELSE Steady /\ Goto("block")
  /\ Quiet

Count ==
  /\ at = "count"
  /\ IF attempts[Target] < limit[Target]
     THEN RecordRepairAttempt(Target) /\ Goto("block")
     ELSE Heartbeat(Target) /\ Goto("refuse")
  /\ Quiet

Block ==
  /\ at = "block"
  /\ IF status[Target] = "REPAIRING" THEN Transition(Target, "BLOCKED") ELSE Steady
  /\ Goto("refuse") /\ Quiet

Refuse ==
  /\ at = "refuse" /\ CompleteActive /\ Goto("halt") /\ Quiet

\* Mutant: a run still under validation is left for the next monitor.
HaltUnlessValidating ==
  /\ at = "halt"
  /\ IF status[Target] \notin { "BLOCKED", "FAILED", "CANCELLED", "VALIDATING" }
        /\ MayTransition(status[Target], "BLOCKED")
     THEN Transition(Target, "BLOCKED") ELSE Steady
  /\ Goto("idle") /\ Quiet

\* A transition the table refuses throws out of the catch block.
Halt ==
  /\ at = "halt"
  /\ IF status[Target] \notin { "BLOCKED", "FAILED", "CANCELLED" }
        /\ MayTransition(status[Target], "BLOCKED")
     THEN Transition(Target, "BLOCKED") ELSE Steady
  /\ Goto("idle") /\ Quiet

-----------------------------------------------------------------------------
(* FunctionalApplicationRuntime.execute *)

\* HEAD is the plan's commit, and the disk reserve, the visual canon and the protected
\* environment are in order.
Check ==
  /\ at = "check"
  /\ \/ head = job.commit /\ Goto(IF canon THEN "canon" ELSE "work")
     \/ Throw /\ UNCHANGED <<phase, launch, command>>
  /\ Steady /\ Quiet

\* VISUAL_CANON_VERIFIED opens no stage, but the reporter ends the active one, as it
\* does for every event: the prerequisites have not run yet.
ReportCanon ==
  /\ at = "canon" /\ CompleteActive /\ Goto("work") /\ Quiet

Bounded == { "PREREQUISITE", "BROWSER_JOURNEY", "NATIVE_JOURNEY" }

\* runBoundedCommand: a prerequisite, a browser or a native journey.
StartCommand ==
  /\ at = "work" /\ phase \in Bounded /\ command = "none"
  /\ command' = "running"
  /\ UNCHANGED <<at, phase, job, launch>> /\ Steady /\ Quiet

\* What the command's report is about: a browser journey asks the application, a native
\* one builds the checkout.
Observed ==
  CASE phase = "BROWSER_JOURNEY" -> Answers
    [] phase = "NATIVE_JOURNEY"  -> { head }
    [] OTHER                     -> {}

\* The command closes: exit 0 with a valid report of plan.commit, or an error.
CommandCloses ==
  /\ command # "none"
  /\ \/ /\ phase = "BROWSER_JOURNEY" => Answers # {}
        /\ at' = "report" /\ job' = [job EXCEPT !.seen = @ \cup Observed]
     \/ Throw
  /\ command' = "none"
  /\ UNCHANGED <<phase, launch>> /\ Steady /\ Quiet

\* Mutant: the timeout is never armed.
NoTimeout == FALSE /\ UNCHANGED allVars

\* SIGTERM, and SIGKILL a second later, reach the group of a child that still runs.
TimeOut ==
  /\ command = "running"
  /\ Throw /\ command' = "none"
  /\ UNCHANGED <<phase, launch>> /\ Steady /\ Quiet

\* The direct child has exited but a descendant keeps its pipes: there is no close event,
\* and signalProcessTree returns early.
HoldPipes ==
  /\ command = "running" /\ mishaps < MaxMishaps
  /\ command' = "held" /\ mishaps' = mishaps + 1
  /\ UNCHANGED <<at, phase, job, launch, hostVars, planVars, done, calm>> /\ Steady

\* launch spawns the application as a group of its own; a preview needs none.
Spawn ==
  /\ at = "work" /\ phase = "APPLICATION_LAUNCH"
  /\ IF target = "PREVIEW"
     THEN Goto("report") /\ UNCHANGED <<shell, server>>
     ELSE /\ shell'  = [shell EXCEPT ![launch] = "live"]
          /\ server' = [server EXCEPT ![launch] = "loading"]
          /\ Goto("health")
  /\ Steady /\ UNCHANGED <<head, rev, planVars, done, boundVars>>

\* waitUntilHealthy: any answer on the health path will do.
Answered ==
  /\ at = "health" /\ Listening # {}
  /\ Goto("report") /\ Steady /\ Quiet

\* The child exited first, or the startup deadline passed.
Unhealthy ==
  /\ at = "health"
  /\ at' = "stop" /\ job' = [job EXCEPT !.failed = TRUE]
  /\ UNCHANGED <<phase, launch, command>> /\ Steady /\ Quiet

\* The runtime probes.
Probe ==
  /\ at = "work" /\ phase = "RUNTIME_VERIFICATION"
  /\ \/ /\ Answers # {}
        /\ at' = "report" /\ job' = [job EXCEPT !.seen = @ \cup Answers]
     \/ Throw
  /\ UNCHANGED <<phase, launch, command>> /\ Steady /\ Quiet

\* verifyDurablePreview asks the preview once more; a plan without one has nothing to
\* report.
VerifyPreview ==
  /\ at = "work" /\ phase = "ACCEPTANCE" /\ target = "PREVIEW"
  /\ \/ Goto("report")
     \/ Throw /\ UNCHANGED <<phase, launch, command>>
  /\ Steady /\ Quiet

Return ==
  /\ at = "work" /\ phase = LastPhase
  /\ Goto("stop") /\ Steady /\ Quiet

Stopped == IF job.failed THEN "fail" ELSE "evidence"

\* Mutant: the finally block stops nothing.
StopNothing ==
  /\ at = "stop"
  /\ Goto(Stopped)
  /\ UNCHANGED shell
  /\ Steady /\ UNCHANGED <<head, server, rev, planVars, done, boundVars>>

\* application.stop: SIGTERM to the group, unless its leader has exited.
Stop ==
  /\ at = "stop"
  /\ IF target = "APPLICATION" /\ shell[launch] = "live"
     THEN shell' = [shell EXCEPT ![launch] = "signalled"] /\ Goto("stopping")
     ELSE UNCHANGED shell /\ Goto(Stopped)
  /\ Steady /\ UNCHANGED <<head, server, rev, planVars, done, boundVars>>

\* waitForExit: the leader's exit ends the wait, two seconds kill the group.
AwaitExit ==
  /\ at = "stopping" /\ shell[launch] = "exited"
  /\ Goto(Stopped) /\ Steady /\ Quiet

Kill ==
  /\ at = "stopping" /\ shell[launch] = "signalled"
  /\ Gone(launch)
  /\ Goto(Stopped)
  /\ Steady /\ UNCHANGED <<head, planVars, done, boundVars>>

-----------------------------------------------------------------------------
(* The host *)

\* The server starts to listen with the revision it finds in the checkout; if the port
\* is taken it fails, and its shell with it.
Listen(k) ==
  /\ server[k] = "loading"
  /\ IF Listening = {}
     THEN /\ server' = [server EXCEPT ![k] = "listening"]
          /\ rev' = [rev EXCEPT ![k] = head] /\ UNCHANGED shell
     ELSE Gone(k)
  /\ Steady /\ UNCHANGED <<kernelVars, head, planVars, done, boundVars>>

\* The application fails, or obeys the signal.
Exit(k) ==
  /\ shell[k] \in { "live", "signalled" }
  /\ Gone(k)
  /\ Steady /\ UNCHANGED <<kernelVars, head, planVars, done, boundVars>>

\* Fault: the shell obeys the signal before the server does, and nobody waits for it.
Linger(k) ==
  /\ shell[k] = "signalled" /\ server[k] = "listening" /\ mishaps < MaxMishaps
  /\ shell'  = [shell EXCEPT ![k] = "exited"]
  /\ server' = [server EXCEPT ![k] = "lingering"]
  /\ mishaps' = mishaps + 1 /\ calm' = FALSE
  /\ Steady /\ UNCHANGED <<kernelVars, head, rev, planVars, done>>

Subside(k) ==
  /\ server[k] = "lingering"
  /\ Gone(k)
  /\ Steady /\ UNCHANGED <<kernelVars, head, planVars, done, boundVars>>

\* Fault: another command moves the shared checkout; harmless unless a verification has
\* compared its HEAD already.
MoveCheckout(c) ==
  /\ c # head /\ mishaps < MaxMishaps
  /\ head' = c
  /\ mishaps' = mishaps + 1
  /\ calm' = (calm /\ at \in { "idle", "position", "deploy", "verify", "close", "record" })
  /\ Steady /\ UNCHANGED <<kernelVars, shell, server, rev, planVars, done>>

\* Fault: PBOS dies; the application, detached, does not.
Crash ==
  /\ at # "idle" /\ mishaps < MaxMishaps
  /\ at' = "idle" /\ job' = NoJob /\ command' = "none"
  /\ mishaps' = mishaps + 1 /\ calm' = FALSE
  /\ Steady /\ UNCHANGED <<phase, launch, hostVars, planVars, done>>

\* The kernel's timer renews the lease while execute runs.
Beat ==
  /\ at \in { "check", "canon", "work", "health", "report", "open", "stop", "stopping" }
  /\ Leased(Target) /\ left[Target] < LeaseTtl
  /\ Heartbeat(Target)
  /\ UNCHANGED acceptanceVars

\* A lease runs out after its holder died (any other idle time is left out, to bound
\* the sweeps) or, a mishap, while the host sleeps.
Expire ==
  /\ Tick
  /\ IF at = "idle" THEN Interrupted /\ UNCHANGED mishaps
     ELSE mishaps < MaxMishaps /\ mishaps' = mishaps + 1
  /\ UNCHANGED <<kernelVars, hostVars, planVars, done, calm>>

-----------------------------------------------------------------------------
(* The terminal *)

Interrupt(Operation) ==
  /\ mishaps < MaxMishaps /\ mishaps' = mishaps + 1
  /\ Operation
  /\ UNCHANGED <<kernelVars, hostVars, planVars, done, calm>>

Commands ==
  \/ Interrupt(Pause(Target))
  \/ Interrupt(Cancel(Target))
  \/ RecoverStaleRuns /\ UNCHANGED acceptanceVars
  \/ Resume(Target) /\ UNCHANGED acceptanceVars
  \/ CertifyFunctionalApplication(Target) /\ UNCHANGED acceptanceVars

-----------------------------------------------------------------------------
(* The specification *)

Kernel ==
  \/ Recover \/ Poll \/ Position \/ Deploy
  \/ Verify \/ Close \/ Record \/ OpenStage \/ Report
  \/ RecordEvidence \/ RecordManifest \/ Finish \/ Accept
  \/ Fail \/ Repair \/ Count \/ Block \/ Refuse \/ Halt
  \/ Check \/ ReportCanon \/ StartCommand \/ Spawn \/ Answered \/ Unhealthy \/ Probe \/ VerifyPreview
  \/ Return \/ Stop \/ AwaitExit \/ Kill \/ TimeOut \/ CommandCloses

Host ==
  \/ \E k \in Launch : Listen(k) \/ Exit(k) \/ Linger(k) \/ Subside(k)
  \/ \E c \in Commit : MoveCheckout(c) \/ Supersede(c)
  \/ Crash \/ Beat \/ Expire \/ HoldPipes

AcceptanceNext == Kernel \/ Host \/ Commands

AcceptanceSpec == AcceptanceInit /\ [][AcceptanceNext]_allVars

\* PBOS runs on and its timers fire.  Nothing is asked of the application, of the
\* commands it runs or of the operator.
Synchronous ==
  \/ Position \/ Deploy \/ Verify \/ Close \/ Record \/ OpenStage \/ Report
  \/ RecordEvidence \/ RecordManifest \/ Finish \/ Accept
  \/ Fail \/ Repair \/ Count \/ Block \/ Refuse \/ Halt
  \/ Check \/ ReportCanon \/ StartCommand \/ Spawn \/ Probe \/ VerifyPreview \/ Return \/ Stop \/ AwaitExit

Fairness ==
  /\ WF_allVars(Synchronous)
  /\ WF_allVars(TimeOut)
  /\ WF_allVars(Kill)
  /\ WF_allVars(Unhealthy)

AcceptanceFairSpec == AcceptanceSpec /\ Fairness

-----------------------------------------------------------------------------
(* Properties *)

\* Evidence is recorded, and a run accepted, only for the revision that answered: unless
\* an application was left behind or the checkout moved underneath, nothing a verification
\* observed came from another launch or another commit (execute, verifyApplication).
EvidenceIsExact ==
  calm /\ at \in { "evidence", "preview", "finish", "accept" } => job.seen = { job.commit }

\* A kernel stage is on record as COMPLETED only if its work succeeded, whatever the
\* terminal did to the run meanwhile (reporter, catch blocks, recoverStaleRuns).  A
\* visual canon ends PREREQUISITE early, and a crash leaves a stage to the next turn.
CompletedMeansDone ==
  LET exempt == IF canon THEN { "PREREQUISITE" } ELSE {}
      completed == { i \in DOMAIN stages[Target] :
                       /\ stages[Target][i].status = "COMPLETED"
                       /\ stages[Target][i].type \in KernelStages \ exempt }
  IN  calm => completed \subseteq done

\* A verification that ends, and does not die, leaves no run behind that is still being
\* validated or repaired: nobody would come back to it (both catch blocks).
NoRunIsLeftUnderway ==
  [][at # "idle" /\ at' = "idle" /\ mishaps' = mishaps
       => status'[Target] \notin { "VALIDATING", "REPAIRING", "RUNNING" }]_allVars

\* A verification ends, although the application never listens, a journey never ends or a
\* server never obeys; only a descendant that keeps a command's pipes open holds it up
\* (runBoundedCommand, waitUntilHealthy, waitForExit).
VerificationEnds == at # "idle" ~> (at = "idle" \/ command = "held")
=============================================================================

--------------------- MODULE FunctionalAcceptanceProofs ---------------------
(***************************************************************************)
(* Proofs about the functional acceptance of a run, for every number of    *)
(* launches and mishaps, every set of commits and every plan.  Each of its *)
(* steps is a call of the production runtime or leaves the run alone, so   *)
(* what is proved of the runtime holds in the composition.                 *)
(***************************************************************************)
EXTENDS FunctionalAcceptance, ProductionRuntimeProofs

-----------------------------------------------------------------------------
(* Where the monitor is *)

Job == [commit : Commit \cup { Nothing }, seen : SUBSET (Commit \cup { Nothing }),
        failed : BOOLEAN]

\* The types of the verification's own variables.
KernelTypeOK ==
  /\ at \in Location /\ phase \in KernelStages
  /\ job \in Job
  /\ target \in { "APPLICATION", "PREVIEW" } /\ canon \in BOOLEAN
  /\ deployed \in Commit \cup { Nothing }
  /\ head \in Commit
  /\ shell  \in [Launch -> { "none", "live", "signalled", "exited" }]
  /\ server \in [Launch -> { "none", "loading", "listening", "lingering" }]
  /\ rev    \in [Launch -> Commit \cup { Nothing }]
  /\ launch \in 0 .. MaxLaunches
  /\ command \in { "none", "running", "held" }
  /\ mishaps \in Nat

\* From verifyApplication's guard to its acceptance.
Verifying == { "close", "record", "open", "check", "canon", "work", "health", "report",
               "stop", "stopping", "evidence", "preview", "finish", "accept" }

\* A command runs within a stage that has one; the last phase reports nothing; the plan
\* is never dropped, and the verification is of its commit.
Sequence ==
  /\ command # "none" => at = "work" /\ phase \in Bounded
  /\ at = "report" => phase # "PREVIEW"
  /\ at = "health" => phase = "APPLICATION_LAUNCH"
  /\ at = "canon" => canon /\ phase = "PREREQUISITE"
  /\ at \in { "close", "record", "check" } => phase = "PREREQUISITE"
  /\ plan[Target] \in Commit
  /\ at \in Verifying => job.commit = plan[Target]

KInv == IInv /\ KernelTypeOK /\ Sequence

-----------------------------------------------------------------------------
(* What a verification observes *)

Alive(k) == shell[k] \in { "live", "signalled" }

LatePhases == { "RUNTIME_VERIFICATION", "BROWSER_JOURNEY", "NATIVE_JOURNEY", "ACCEPTANCE",
                "PREVIEW" }

\* Where the application of this turn may be alive.
Launched ==
  \/ phase = "APPLICATION_LAUNCH" /\ at \in { "health", "report", "stop", "stopping" }
  \/ phase \in LatePhases /\ at \in { "open", "work", "report", "stop", "stopping" }

\* HEAD has been compared with the plan's commit.
Compared ==
  \/ at \in { "canon", "work", "health", "report", "stop", "stopping" }
  \/ at = "open" /\ phase # "PREREQUISITE"

\* The probes have succeeded.
Probed ==
  \/ at \in { "open", "work", "report" } /\ phase \in LatePhases \ { "RUNTIME_VERIFICATION" }
  \/ at = "report" /\ phase = "RUNTIME_VERIFICATION"
  \/ at \in { "stop", "stopping" } /\ ~job.failed
  \/ at \in { "evidence", "preview", "finish", "accept" }

\* As long as it is calm, only the application of this turn is alive, and whatever
\* answers, answers with the plan's commit.
ObservesPlan ==
  calm =>
    /\ \A k \in Launch : Alive(k) => k = launch /\ Launched /\ target = "APPLICATION"
    /\ \A k \in Launch : shell[k] = "signalled" => at = "stopping"
    /\ \A k \in Launch : server[k] # "lingering"
    /\ \A k \in Launch : ~Alive(k) => server[k] = "none"
    /\ \A k \in Launch : server[k] = "listening" => rev[k] = job.commit
    /\ Compared => head = job.commit
    /\ deployed \in { Nothing, plan[Target] }
    /\ job.seen \subseteq { job.commit }
    /\ Probed => job.seen # {}

-----------------------------------------------------------------------------
(* The stages it opens *)

\* Where a stage the kernel opened may be active.
Staged == { "check", "canon", "work", "health", "report", "stop", "stopping", "evidence",
            "preview", "finish", "fail" }

OwnStage ==
  calm /\ Open /\ stages[Target][active[Target]].type \in KernelStages =>
    stages[Target][active[Target]].type = phase /\ at \in Staged
-----------------------------------------------------------------------------
(* Every step is a call of the runtime *)

\* The calls the monitor, the kernel and the terminal make, and the clock's.
Calls ==
  \/ Tick \/ RecoverStaleRuns
  \/ RecoverBlockedValidation(Target) \/ Resume(Target)
  \/ Pause(Target) \/ Cancel(Target)
  \/ AcceptFunctionalApplication(Target) \/ CertifyFunctionalApplication(Target)
  \/ \E s \in CallerTargets : Transition(Target, s)
  \/ Heartbeat(Target) \/ RecordValidation(Target) \/ RecordRepairAttempt(Target)
  \/ RecordPreview(Target)
  \/ \E c \in Commit : RecordAcceptanceEvidence(Target, c, Dimension)
  \/ \E type \in KernelStages : StartStage(Target, type)
  \/ \E i \in DOMAIN stages[Target] : CompleteStage(Target, i)
  \/ FailStage(Target)

LEMMA CallIsNext == ASSUME TypeOK, Calls PROVE Next
<1> USE AcceptanceAssumption
<1>1. Target \in Run /\ KernelStages \subseteq StageType  OBVIOUS
<1>2. ASSUME NEW c \in Commit, RecordAcceptanceEvidence(Target, c, Dimension) PROVE Next
  <2>1. CASE Dimension # {}
    <3>1. Dimension \in (SUBSET Dimension) \ { {} }  BY <2>1
    <3>2. QED  BY <1>1, <1>2, <3>1 DEF Next, LineageNext
  <2>2. CASE Dimension = {}
    <3>1. evidence' = [evidence EXCEPT ![Target] = @ \cup [commit : { c }, dimension : {}]]
      BY <1>2, <2>2 DEF RecordAcceptanceEvidence
    <3>2. [commit : { c }, dimension : {}] = {}  OBVIOUS
    <3>3. evidence' = evidence  BY <1>1, <3>1, <3>2 DEF TypeOK
    <3>4. Heartbeat(Target)
      BY <1>2, <3>3 DEF RecordAcceptanceEvidence, Heartbeat, lineageVars
    <3>5. QED  BY <1>1, <3>4 DEF Next, LifecycleNext
  <2>3. QED  BY <2>1, <2>2
<1>3. CASE RecordValidation(Target) \/ RecordRepairAttempt(Target) \/ RecordPreview(Target)
  BY <1>1, <1>3 DEF Next, LineageNext
<1>4. QED  BY <1>1, <1>2, <1>3 DEF Calls, Next, LifecycleNext

\* The calls keep the plan.
LEMMA CallKeepsPlan == ASSUME Calls PROVE plan' = plan
  BY DEF Calls, Tick, RecoverStaleRuns, RecoverBlockedValidation, Resume, Pause, Cancel,
     AcceptFunctionalApplication, CertifyFunctionalApplication, Transition, Heartbeat,
     RecordValidation, RecordRepairAttempt, RecordPreview, RecordAcceptanceEvidence,
     StartStage, CompleteStage, FailStage, lineageVars

LEMMA CompletionIsACall ==
  ASSUME IInv, CompleteActive PROVE Steady \/ Calls
<1>1. Target \in Run  BY AcceptanceAssumption
<1>2. Open => active[Target] \in DOMAIN stages[Target]
  BY <1>1 DEF IInv, ActiveStageRuns, Open
<1>3. QED  BY <1>2 DEF CompleteActive, Calls

LEMMA KernelCalls == ASSUME KInv, Kernel PROVE Steady \/ Calls
<1>1. ASSUME \/ Recover \/ Poll \/ Deploy \/ Record \/ RecordManifest \/ Accept
             \/ Fail \/ Repair \/ Count \/ Block \/ Halt
      PROVE  Steady \/ Calls
  BY <1>1 DEF Calls, CallerTargets, Recover, Poll, Deploy, Record, RecordManifest, Accept,
     Fail, Repair, Count, Block, Halt
<1>2. CASE Close \/ Report \/ Finish \/ Refuse \/ ReportCanon
  BY <1>2, CompletionIsACall DEF KInv, Close, Report, Finish, Refuse, ReportCanon
<1>3. CASE OpenStage
  BY <1>3 DEF OpenStage, Calls, KInv, KernelTypeOK
<1>4. CASE RecordEvidence
  <2>1. job.commit \in Commit
    BY <1>4 DEF RecordEvidence, KInv, Sequence, Verifying
  <2>2. QED  BY <1>4, <2>1 DEF RecordEvidence, Calls
<1>5. CASE \/ Position \/ Verify \/ Check \/ StartCommand \/ Spawn \/ Answered \/ Unhealthy
           \/ Probe \/ VerifyPreview \/ Return \/ Stop \/ AwaitExit \/ Kill \/ TimeOut
           \/ CommandCloses
  BY <1>5 DEF Position, Verify, Check, StartCommand, Spawn, Answered, Unhealthy, Probe,
     VerifyPreview, Return, Stop, AwaitExit, Kill, TimeOut, CommandCloses
<1>6. QED  BY <1>1, <1>2, <1>3, <1>4, <1>5 DEF Kernel

LEMMA StepIsACall ==
  ASSUME KInv, AcceptanceNext
  PROVE  Steady \/ Calls \/ \E c \in Commit : Supersede(c)
<1>1. CASE Host
  BY <1>1 DEF Host, Listen, Exit, Linger, Subside, MoveCheckout, Crash, Beat, Expire, HoldPipes,
     Calls
<1>2. CASE Commands
  BY <1>2 DEF Commands, Interrupt, Calls
<1>3. QED  BY <1>1, <1>2, KernelCalls DEF AcceptanceNext

\* A step of the composition is a step of the production runtime, or leaves it alone.
LEMMA StepIsRuntimeStep == ASSUME KInv, [AcceptanceNext]_allVars PROVE [Next]_vars
<1>1. CASE UNCHANGED allVars  BY <1>1 DEF allVars
<1>2. CASE AcceptanceNext
  <2>1. CASE Calls  BY <2>1, CallIsNext DEF KInv, IInv
  <2>2. ASSUME NEW c \in Commit, Supersede(c) PROVE Next
    BY <2>2, AcceptanceAssumption DEF Supersede, Next, LineageNext
  <2>3. QED  BY <1>2, <2>1, <2>2, StepIsACall DEF Steady
<1>3. QED  BY <1>1, <1>2

-----------------------------------------------------------------------------
(* The inductive invariant *)

LEMMA NewJob ==
  ASSUME NEW c \in Commit \cup { Nothing }
  PROVE  [commit |-> c, seen |-> {}, failed |-> FALSE] \in Job
  BY DEF Job

LEMMA JobUpdates ==
  ASSUME NEW j \in Job, NEW more \in SUBSET (Commit \cup { Nothing })
  PROVE  /\ [j EXCEPT !.failed = TRUE] \in Job
         /\ [j EXCEPT !.seen = @ \cup more] \in Job
         /\ [j EXCEPT !.failed = TRUE].commit = j.commit
         /\ [j EXCEPT !.failed = TRUE].seen = j.seen
         /\ [j EXCEPT !.failed = TRUE].failed
         /\ [j EXCEPT !.seen = @ \cup more].commit = j.commit
         /\ [j EXCEPT !.seen = @ \cup more].seen = j.seen \cup more
         /\ [j EXCEPT !.seen = @ \cup more].failed = j.failed
  BY DEF Job

LEMMA InitKInv == AcceptanceInit => KInv
<1> SUFFICES ASSUME AcceptanceInit PROVE KInv  OBVIOUS
<1> USE ConstantAssumption, AcceptanceAssumption
<1>1. IInv
  <2>1. << [type |-> "VALIDATION", status |-> "RUNNING"] >> \in Seq(Stage)
    BY DEF Stage
  <2>2. stages \in [Run -> Seq(Stage)]  BY <2>1 DEF AcceptanceInit
  <2>3. attempts \in [Run -> Nat]  BY DEF AcceptanceInit
  <2>4. TypeOK  BY <2>2, <2>3 DEF AcceptanceInit, TypeOK, Status
  <2>5. LeaseHolder /\ LaunchHoldsLease
    BY DEF AcceptanceInit, LeaseHolder, LaunchHoldsLease, Leased, LeaseRequired
  <2>6. ActiveStageRuns
    BY DEF AcceptanceInit, ActiveStageRuns
  <2>7. QED  BY <2>4, <2>5, <2>6 DEF IInv
<1>2. KernelTypeOK
  BY NewJob DEF AcceptanceInit, KernelTypeOK, Location, KernelStages, NoJob
<1>3. Sequence
  BY DEF AcceptanceInit, Sequence, Verifying
<1>4. QED  BY <1>1, <1>2, <1>3 DEF KInv

\* What the steps of the monitor and of verifyApplication keep.
LEMMA VerificationKeepsTypes ==
  ASSUME KInv,
         \/ Recover \/ Poll \/ Position \/ Deploy
         \/ Verify \/ Close \/ Record \/ OpenStage \/ Report
         \/ RecordEvidence \/ RecordManifest \/ Finish \/ Accept
         \/ Fail \/ Repair \/ Count \/ Block \/ Refuse \/ Halt
  PROVE  KernelTypeOK'
<1> USE DEF KInv, KernelTypeOK, Goto, Quiet, hostVars, planVars, boundVars, Location
<1>1. CASE Recover \/ Poll  BY <1>1, AcceptanceAssumption DEF Recover, Poll, TakeUp
<1>2. CASE Position
  <2>1. revision[Target] \in Commit  BY AcceptanceAssumption DEF IInv, TypeOK
  <2>2. QED  BY <1>2, <2>1 DEF Position
<1>3. CASE Deploy  BY <1>3 DEF Deploy, Sequence
<1>4. CASE Verify
  <2>1. CASE status[Target] = "VALIDATING"
    <3>1. job' \in Job
      BY <1>4, <2>1, NewJob DEF Verify, Sequence
    <3>2. at' = "close" /\ phase' = "PREREQUISITE" /\ UNCHANGED <<launch, command>>
      BY <1>4, <2>1 DEF Verify
    <3>3. phase' \in KernelStages  BY <3>2 DEF KernelStages
    <3>4. UNCHANGED <<head, shell, server, rev, target, canon, deployed, mishaps>>
      BY <1>4 DEF Verify
    <3>5. QED  BY <3>1, <3>2, <3>3, <3>4
  <2>2. CASE status[Target] # "VALIDATING"  BY <1>4, <2>2 DEF Verify
  <2>3. QED  BY <2>1, <2>2
<1>5. CASE Close \/ Record \/ RecordEvidence \/ RecordManifest \/ Finish \/ Accept
  BY <1>5 DEF Close, Record, RecordEvidence, RecordManifest, Finish, Accept
<1>6. CASE OpenStage  BY <1>6, JobUpdates DEF OpenStage, Throw
<1>7. CASE Report
  <2>1. Following[phase] \in KernelStages
    BY <1>7 DEF Report, Following, Sequence, KernelStages
  <2>2. QED  BY <1>7, <2>1 DEF Report
<1>8. CASE Fail \/ Repair \/ Count \/ Block \/ Refuse \/ Halt
  BY <1>8 DEF Fail, Repair, Count, Block, Refuse, Halt
<1>9. QED  BY <1>1, <1>2, <1>3, <1>4, <1>5, <1>6, <1>7, <1>8

\* What the steps of execute keep.
LEMMA ExecutionKeepsTypes ==
  ASSUME KInv,
         \/ Check \/ ReportCanon \/ StartCommand \/ Spawn \/ Answered \/ Unhealthy \/ Probe
         \/ VerifyPreview \/ Return \/ Stop \/ AwaitExit \/ Kill \/ TimeOut \/ CommandCloses
  PROVE  KernelTypeOK'
<1> USE DEF KInv, KernelTypeOK, Goto, Quiet, hostVars, planVars, boundVars, Location
<1>1. Answers \subseteq Commit \cup { Nothing } /\ Observed \subseteq Commit \cup { Nothing }
  BY DEF Answers, Listening, Observed
<1>2. /\ [job EXCEPT !.failed = TRUE] \in Job
      /\ [job EXCEPT !.seen = @ \cup Answers] \in Job
      /\ [job EXCEPT !.seen = @ \cup Observed] \in Job
  <2>1. job \in Job  OBVIOUS
  <2>2. QED  BY <1>1, <2>1, JobUpdates
<1>3. CASE \/ Check \/ ReportCanon \/ StartCommand \/ Unhealthy \/ Answered \/ VerifyPreview
           \/ Return \/ AwaitExit \/ TimeOut
  BY <1>2, <1>3 DEF Check, ReportCanon, StartCommand, Unhealthy, Answered, VerifyPreview,
     Return, AwaitExit, TimeOut, Throw, Stopped
<1>4. CASE Spawn  BY <1>4 DEF Spawn
<1>5. CASE Stop  BY <1>5 DEF Stop, Stopped
<1>6. CASE Kill  BY <1>6 DEF Kill, Gone, Stopped
<1>7. CASE Probe
  <2>1. at' \in Location  BY <1>7 DEF Probe, Throw
  <2>2. job' \in Job  BY <1>2, <1>7 DEF Probe, Throw
  <2>3. QED  BY <1>7, <2>1, <2>2 DEF Probe
<1>8. CASE CommandCloses
  <2>1. at' \in Location  BY <1>8 DEF CommandCloses, Throw
  <2>2. job' \in Job  BY <1>2, <1>8 DEF CommandCloses, Throw
  <2>3. QED  BY <1>8, <2>1, <2>2 DEF CommandCloses
<1>9. QED  BY <1>3, <1>4, <1>5, <1>6, <1>7, <1>8

\* What the host, the faults, the clock and the terminal keep.
LEMMA SurroundingsKeepTypes ==
  ASSUME KInv, Host \/ Commands PROVE KernelTypeOK'
<1> USE DEF KInv, KernelTypeOK, kernelVars, hostVars, planVars, boundVars, Location
<1>1. ASSUME NEW k \in Launch, Listen(k) \/ Exit(k) \/ Linger(k) \/ Subside(k)
      PROVE  KernelTypeOK'
  BY <1>1 DEF Listen, Exit, Linger, Subside, Gone
<1>2. ASSUME NEW c \in Commit, MoveCheckout(c) \/ Supersede(c) PROVE KernelTypeOK'
  BY <1>2 DEF MoveCheckout, Supersede
<1>3. CASE Crash  BY <1>3, NewJob DEF Crash, NoJob
<1>4. CASE Beat \/ Expire \/ HoldPipes
  BY <1>4 DEF Beat, Expire, HoldPipes, acceptanceVars
<1>5. CASE Commands  BY <1>5 DEF Commands, Interrupt, acceptanceVars
<1>6. QED  BY <1>1, <1>2, <1>3, <1>4, <1>5 DEF Host

\* The plan changes at a supersession only.
LEMMA PlanStays ==
  ASSUME KInv, AcceptanceNext, ~\E c \in Commit : Supersede(c) PROVE plan' = plan
  BY StepIsACall, CallKeepsPlan DEF Steady, vars, lineageVars

LEMMA KernelKeepsSequence == ASSUME KInv, Kernel PROVE Sequence'
<1> USE DEF KInv, Sequence, Verifying, Goto, Quiet, planVars
<1>1. plan' = plan
  BY KernelCalls, CallKeepsPlan DEF Steady, vars, lineageVars
<1>13. /\ [job EXCEPT !.failed = TRUE].commit = job.commit
       /\ [job EXCEPT !.seen = @ \cup Answers].commit = job.commit
       /\ [job EXCEPT !.seen = @ \cup Observed].commit = job.commit
  <2>1. job \in [commit : Commit \cup { Nothing }, seen : SUBSET (Commit \cup { Nothing }),
                 failed : BOOLEAN]
    BY DEF KernelTypeOK, Job
  <2>2. QED  BY <2>1
<1>2. CASE Recover \/ Poll  BY <1>1, <1>2 DEF Recover, Poll, TakeUp
<1>3. CASE Position \/ Deploy  BY <1>1, <1>3 DEF Position, Deploy
<1>4. CASE Verify
  <2>1. command = "none"  BY <1>4 DEF Verify
  <2>2. CASE status[Target] = "VALIDATING"  BY <1>1, <1>4, <2>1, <2>2 DEF Verify
  <2>3. CASE status[Target] # "VALIDATING"  BY <1>1, <1>4, <2>1, <2>3 DEF Verify
  <2>4. QED  BY <2>2, <2>3
<1>5. CASE Close \/ Record \/ RecordEvidence \/ RecordManifest \/ Finish \/ Accept
  BY <1>1, <1>5 DEF Close, Record, RecordEvidence, RecordManifest, Finish, Accept
<1>6. CASE OpenStage
  <2>1. at = "open" /\ command = "none"  BY <1>6 DEF OpenStage
  <2>2. job'.commit = job.commit /\ phase' = phase /\ command' = command
    BY <1>6, <1>13 DEF OpenStage, Throw
  <2>3. at' \in { "refuse", "fail", "stop", "check", "work" }
        /\ (at' = "check" => phase = "PREREQUISITE")
    BY <1>6 DEF OpenStage, Throw
  <2>4. QED  BY <1>1, <1>6, <2>1, <2>2, <2>3
<1>7. CASE Report  BY <1>1, <1>7 DEF Report
<1>8. CASE Fail \/ Repair \/ Count \/ Block \/ Refuse \/ Halt
  BY <1>1, <1>8 DEF Fail, Repair, Count, Block, Refuse, Halt
<1>9. CASE Check
  <2>1. command = "none"  BY <1>9 DEF Check
  <2>2. QED  BY <1>1, <1>9, <2>1 DEF Check, Throw
<1>10. CASE ReportCanon \/ StartCommand \/ Answered \/ AwaitExit \/ Stop \/ Kill
  BY <1>1, <1>10 DEF ReportCanon, StartCommand, Answered, AwaitExit, Stop, Kill, Stopped
<1>17. CASE Return  BY <1>1, <1>17 DEF Return, LastPhase, Bounded
<1>11. CASE Spawn  BY <1>1, <1>11 DEF Spawn, Bounded
<1>12. CASE Unhealthy  BY <1>1, <1>12 DEF Unhealthy, KernelTypeOK, Job
<1>14. CASE Probe
  <2>1. command = "none" /\ job'.commit = job.commit  BY <1>13, <1>14 DEF Probe, Bounded, Throw
  <2>2. QED  BY <1>1, <1>14, <2>1 DEF Probe, Throw
<1>15. CASE VerifyPreview
  <2>1. command = "none" /\ job'.commit = job.commit
    BY <1>13, <1>15 DEF VerifyPreview, Bounded, Throw
  <2>2. QED  BY <1>1, <1>15, <2>1 DEF VerifyPreview, Throw
<1>16. CASE TimeOut \/ CommandCloses
  <2>1. at = "work" /\ phase \in Bounded /\ command' = "none"
    BY <1>16 DEF TimeOut, CommandCloses
  <2>2. phase' = phase /\ canon' = canon /\ at' \in { "report", "fail", "stop" }
        /\ job'.commit = job.commit
    BY <1>13, <1>16 DEF TimeOut, CommandCloses, Throw
  <2>3. QED  BY <1>1, <2>1, <2>2 DEF Bounded
<1>18. QED
  BY <1>2, <1>3, <1>4, <1>5, <1>6, <1>7, <1>8, <1>9, <1>10, <1>11, <1>12, <1>14, <1>15, <1>16,
     <1>17
  DEF Kernel

LEMMA SurroundingsKeepSequence == ASSUME KInv, Host \/ Commands PROVE Sequence'
<1> USE DEF KInv, Sequence, Verifying, kernelVars, hostVars, planVars
<1>1. ASSUME NEW c \in Commit, Supersede(c) PROVE Sequence'
  <2>1. plan' = [plan EXCEPT ![Target] = c]
    BY <1>1 DEF Supersede, RebindRepositoryAfterRemediation, Rebind
  <2>2. plan'[Target] = c
    BY <2>1, AcceptanceAssumption DEF IInv, TypeOK
  <2>3. QED  BY <1>1, <2>2 DEF Supersede
<1>2. CASE ~\E c \in Commit : Supersede(c)
  <2>1. plan' = plan  BY <1>2, PlanStays DEF AcceptanceNext
  <2>2. ASSUME NEW k \in Launch, Listen(k) \/ Exit(k) \/ Linger(k) \/ Subside(k)
        PROVE  Sequence'
    BY <2>1, <2>2 DEF Listen, Exit, Linger, Subside
  <2>3. ASSUME NEW c \in Commit, MoveCheckout(c) PROVE Sequence'
    BY <2>1, <2>3 DEF MoveCheckout
  <2>4. CASE Crash  BY <2>1, <2>4 DEF Crash
  <2>5. CASE Beat \/ Expire \/ Commands
    BY <2>1, <2>5 DEF Beat, Expire, Commands, Interrupt, acceptanceVars
  <2>6. CASE HoldPipes  BY <2>1, <2>6 DEF HoldPipes
  <2>7. QED  BY <1>2, <2>2, <2>3, <2>4, <2>5, <2>6 DEF Host
<1>3. QED  BY <1>1, <1>2

\* Each step of the composition keeps the runtime's invariant, the types of the verification
\* and the order of its steps.
THEOREM AcceptanceKeepsKInv == KInv /\ [AcceptanceNext]_allVars => KInv'
<1> SUFFICES ASSUME KInv, [AcceptanceNext]_allVars PROVE KInv'  OBVIOUS
<1>1. IInv'  BY StepIsRuntimeStep, NextKeepsIInv DEF KInv
<1>2. CASE AcceptanceNext
  <2>1. KernelTypeOK'
    BY <1>2, VerificationKeepsTypes, ExecutionKeepsTypes, SurroundingsKeepTypes
    DEF AcceptanceNext, Kernel
  <2>2. Sequence'
    BY <1>2, KernelKeepsSequence, SurroundingsKeepSequence DEF AcceptanceNext
  <2>3. QED  BY <1>1, <2>1, <2>2 DEF KInv
<1>3. CASE UNCHANGED allVars
  <2>1. KernelTypeOK' /\ Sequence'
    BY <1>3 DEF KInv, KernelTypeOK, Sequence, Bounded, allVars, acceptanceVars, kernelVars,
       hostVars, planVars, boundVars, vars, lineageVars
  <2>2. QED  BY <1>1, <2>1 DEF KInv
<1>4. QED  BY <1>2, <1>3

\* In the composition, too, the runtime keeps its types, leases follow execution, and
\* activeStageId names a running stage, whatever the kernel, its host, its faults and the
\* terminal do.
THEOREM AcceptanceKeepsRuntime ==
  AcceptanceSpec => [](TypeOK /\ LeaseHolder /\ LaunchHoldsLease /\ ActiveStageRuns)
<1>1. KInv => TypeOK /\ LeaseHolder /\ LaunchHoldsLease /\ ActiveStageRuns
  BY DEF KInv, IInv
<1>2. QED  BY <1>1, InitKInv, AcceptanceKeepsKInv, PTL DEF AcceptanceSpec

\* The composition implements the runtime: each of its steps is one call of a method of
\* ProductionRuntimeService, or none.
THEOREM AcceptanceRefinesRuntime == AcceptanceSpec => [][Next]_vars
  BY InitKInv, AcceptanceKeepsKInv, StepIsRuntimeStep, PTL DEF AcceptanceSpec

-----------------------------------------------------------------------------
(* Evidence is exact *)

LEMMA InitObservesPlan == AcceptanceInit => ObservesPlan
  BY DEF AcceptanceInit, ObservesPlan, Alive, Compared, Probed, NoJob, Launch

\* What the job is after a step of execute.
LEMMA JobFields ==
  ASSUME KernelTypeOK, NEW more
  PROVE  /\ [job EXCEPT !.failed = TRUE].commit = job.commit
         /\ [job EXCEPT !.failed = TRUE].seen = job.seen
         /\ [job EXCEPT !.failed = TRUE].failed
         /\ [job EXCEPT !.seen = @ \cup more].commit = job.commit
         /\ [job EXCEPT !.seen = @ \cup more].seen = job.seen \cup more
         /\ [job EXCEPT !.seen = @ \cup more].failed = job.failed
<1>1. job \in [commit : Commit \cup { Nothing }, seen : SUBSET (Commit \cup { Nothing }),
               failed : BOOLEAN]
  BY DEF KernelTypeOK, Job
<1>2. QED  BY <1>1

\* A request of the journeys is answered by the plan's commit.
LEMMA AnswersArePlan ==
  ASSUME KInv, ObservesPlan, calm, at \in Verifying PROVE Answers \subseteq { job.commit }
<1>1. \A k \in Listening : server[k] = "listening"
  BY DEF Listening, ObservesPlan
<1>2. QED  BY <1>1 DEF Answers, Listening, ObservesPlan, KInv, Sequence

\* The steps of the monitor and of verifyApplication that touch neither the host nor what
\* was observed: no application is alive where they are taken.
LEMMA KernelKeepsObservation ==
  ASSUME KInv, ObservesPlan,
         \/ Recover \/ Poll \/ Position \/ Deploy
         \/ Verify \/ Close \/ Record \/ OpenStage \/ Report
         \/ RecordEvidence \/ RecordManifest \/ Finish \/ Accept
         \/ Fail \/ Repair \/ Count \/ Block \/ Refuse \/ Halt
  PROVE  ObservesPlan'
<1> USE DEF ObservesPlan, Alive, Launched, Compared, Probed, LatePhases, Goto, Quiet, hostVars,
    planVars, boundVars
<1>1. plan' = plan
  BY KernelCalls, CallKeepsPlan DEF Steady, vars, lineageVars, Kernel
<1>2. CASE Recover \/ Poll  BY <1>1, <1>2 DEF Recover, Poll, TakeUp
<1>3. CASE Position  BY <1>1, <1>3 DEF Position
<1>4. CASE Deploy  BY <1>1, <1>4 DEF Deploy
<1>5. CASE Verify  BY <1>1, <1>5 DEF Verify
<1>6. CASE Close \/ Record \/ RecordEvidence \/ RecordManifest \/ Finish \/ Accept
  BY <1>1, <1>6 DEF Close, Record, RecordEvidence, RecordManifest, Finish, Accept, KInv, Sequence
<1>7. CASE OpenStage  BY <1>1, <1>7, JobFields DEF OpenStage, Throw, KInv
<1>8. CASE Report  BY <1>1, <1>8 DEF Report, Following, KInv, KernelTypeOK, KernelStages, Sequence
<1>9. CASE Fail \/ Repair \/ Count \/ Block \/ Refuse \/ Halt
  BY <1>1, <1>9 DEF Fail, Repair, Count, Block, Refuse, Halt
<1>10. QED  BY <1>2, <1>3, <1>4, <1>5, <1>6, <1>7, <1>8, <1>9

LEMMA ExecutionKeepsObservation ==
  ASSUME KInv, ObservesPlan,
         \/ Check \/ ReportCanon \/ StartCommand \/ Spawn \/ Answered \/ Unhealthy \/ Probe
         \/ VerifyPreview \/ Return \/ Stop \/ AwaitExit \/ Kill \/ TimeOut \/ CommandCloses
  PROVE  ObservesPlan'
<1> USE DEF ObservesPlan, Alive, Launched, Compared, Probed, LatePhases, Goto, Quiet, hostVars,
    planVars, boundVars
<1>1. plan' = plan
  BY KernelCalls, CallKeepsPlan DEF Steady, vars, lineageVars, Kernel
<1>2. CASE Check  BY <1>1, <1>2, JobFields DEF Check, Throw, KInv, Sequence
<1>3. CASE ReportCanon \/ StartCommand \/ Answered
  BY <1>1, <1>3 DEF ReportCanon, StartCommand, Answered, KInv, Sequence
<1>4. CASE Spawn  BY <1>1, <1>4 DEF Spawn, KInv, KernelTypeOK
<1>5. CASE Unhealthy  BY <1>1, <1>5, JobFields DEF Unhealthy, KInv, Sequence
<1>6. CASE Probe
  <2>1. calm => Answers \subseteq { job.commit }  BY <1>6, AnswersArePlan DEF Probe, Verifying
  <2>2. CASE job' = [job EXCEPT !.seen = @ \cup Answers] /\ at' = "report" /\ Answers # {}
    <3>1. job'.commit = job.commit /\ job'.seen = job.seen \cup Answers
      BY <2>2, JobFields DEF KInv
    <3>2. QED  BY <1>1, <1>6, <2>1, <2>2, <3>1 DEF Probe
  <2>3. CASE Throw
    <3>1. job'.commit = job.commit /\ job'.seen = job.seen /\ job'.failed /\ at' = "stop"
      BY <1>6, <2>3, JobFields DEF Probe, Throw, KInv
    <3>2. QED  BY <1>1, <1>6, <3>1 DEF Probe
  <2>4. QED  BY <1>6, <2>2, <2>3 DEF Probe
<1>7. CASE VerifyPreview  BY <1>1, <1>7, JobFields DEF VerifyPreview, Throw, KInv
<1>8. CASE Return  BY <1>1, <1>8 DEF Return, LastPhase
<1>9. CASE Stop  BY <1>1, <1>9 DEF Stop, Stopped, KInv, KernelTypeOK
<1>10. CASE AwaitExit  BY <1>1, <1>10 DEF AwaitExit, Stopped
<1>11. CASE Kill  BY <1>1, <1>11 DEF Kill, Gone, Stopped, KInv, KernelTypeOK
<1>12. CASE TimeOut  BY <1>1, <1>12, JobFields DEF TimeOut, Throw, KInv, Sequence, Bounded
<1>13. CASE CommandCloses
  <2>1. at = "work" /\ phase \in Bounded  BY <1>13 DEF CommandCloses, KInv, Sequence
  <2>2. calm => Observed \subseteq { job.commit }
    BY <2>1, AnswersArePlan DEF Observed, Verifying
  <2>3. CASE /\ phase = "BROWSER_JOURNEY" => Answers # {}
             /\ at' = "report" /\ job' = [job EXCEPT !.seen = @ \cup Observed]
    <3>1. job'.commit = job.commit /\ job'.seen = job.seen \cup Observed
      BY <2>3, JobFields DEF KInv
    <3>2. calm /\ phase \in LatePhases => job'.seen # {}  BY <2>1, <3>1 DEF Bounded
    <3>3. QED  BY <1>1, <1>13, <2>1, <2>2, <2>3, <3>1, <3>2 DEF CommandCloses, Bounded
  <2>4. CASE Throw
    <3>1. /\ job'.commit = job.commit /\ job'.seen = job.seen /\ job'.failed
          /\ at' = IF phase = "PREREQUISITE" THEN "fail" ELSE "stop"
      BY <2>1, <2>4, JobFields DEF Throw, KInv, Bounded
    <3>2. QED  BY <1>1, <1>13, <2>1, <3>1 DEF CommandCloses, Bounded
  <2>5. QED  BY <1>13, <2>3, <2>4 DEF CommandCloses
<1>14. QED
  BY <1>2, <1>3, <1>4, <1>5, <1>6, <1>7, <1>8, <1>9, <1>10, <1>11, <1>12, <1>13

LEMMA SurroundingsKeepObservation ==
  ASSUME KInv, ObservesPlan, Host \/ Commands PROVE ObservesPlan'
<1> USE DEF ObservesPlan, Alive, Launched, Compared, Probed, LatePhases, kernelVars, hostVars,
    planVars, boundVars
<1>1. ASSUME NEW c \in Commit, Supersede(c) PROVE ObservesPlan'
  BY <1>1 DEF Supersede
<1>2. CASE ~\E c \in Commit : Supersede(c)
  <2>1. plan' = plan  BY <1>2, PlanStays DEF AcceptanceNext
  <2>2. ASSUME NEW k \in Launch, Listen(k) PROVE ObservesPlan'
    BY <2>1, <2>2 DEF Listen, Gone, KInv, KernelTypeOK
  <2>3. ASSUME NEW k \in Launch, Exit(k) PROVE ObservesPlan'
    BY <2>1, <2>3 DEF Exit, Gone, KInv, KernelTypeOK
  <2>4. ASSUME NEW k \in Launch, Linger(k) \/ Subside(k) PROVE ObservesPlan'
    BY <2>4 DEF Linger, Subside
  <2>5. ASSUME NEW c \in Commit, MoveCheckout(c) PROVE ObservesPlan'
    BY <2>1, <2>5 DEF MoveCheckout
  <2>6. CASE Crash  BY <2>6 DEF Crash
  <2>7. CASE Beat \/ Expire \/ Commands \/ HoldPipes
    BY <2>1, <2>7 DEF Beat, Expire, Commands, Interrupt, acceptanceVars, HoldPipes
  <2>8. QED  BY <1>2, <2>2, <2>3, <2>4, <2>5, <2>6, <2>7 DEF Host
<1>3. QED  BY <1>1, <1>2

LEMMA StepKeepsObservation ==
  KInv /\ ObservesPlan /\ [AcceptanceNext]_allVars => ObservesPlan'
<1> SUFFICES ASSUME KInv, ObservesPlan, [AcceptanceNext]_allVars PROVE ObservesPlan'  OBVIOUS
<1>1. CASE AcceptanceNext
  BY <1>1, KernelKeepsObservation, ExecutionKeepsObservation, SurroundingsKeepObservation
  DEF AcceptanceNext, Kernel
<1>2. CASE UNCHANGED allVars
  BY <1>2 DEF ObservesPlan, Alive, Launched, Compared, Probed, allVars, acceptanceVars,
     kernelVars, hostVars, planVars, boundVars, vars, lineageVars
<1>3. QED  BY <1>1, <1>2

\* Unless an application was left behind or the checkout moved underneath, all the evidence
\* a verification records, and all it accepts the run for, was observed on the commit of
\* its plan, and there is some (execute, verifyApplication).
THEOREM RecordedEvidenceIsExact == AcceptanceSpec => []EvidenceIsExact
<1>1. ObservesPlan => EvidenceIsExact
  BY DEF ObservesPlan, EvidenceIsExact, Probed
<1>2. QED
  BY <1>1, InitKInv, InitObservesPlan, AcceptanceKeepsKInv, StepKeepsObservation, PTL
  DEF AcceptanceSpec

-----------------------------------------------------------------------------
(* No run is left underway *)

\* Only the last step of a verification returns to idle without a mishap, and it leaves
\* the run accepted or stopped: the status table lets Halt block it from every status
\* under work.
THEOREM VerificationSettlesTheRun == AcceptanceSpec => NoRunIsLeftUnderway
<1> DEFINE Settled == status'[Target] \notin { "VALIDATING", "REPAIRING", "RUNNING" }
<1>1. ASSUME KInv, AcceptanceNext, at # "idle", at' = "idle", mishaps' = mishaps
      PROVE  Settled
  <2>1. Accept \/ Halt
    <3>1. ~Crash  BY <1>1 DEF Crash, KInv, KernelTypeOK
    <3>2. Host => Crash
      BY <1>1 DEF Host, Listen, Exit, Linger, Subside, MoveCheckout, Supersede, Beat, Expire,
         HoldPipes, acceptanceVars, kernelVars
    <3>3. ~Commands  BY <1>1 DEF Commands, Interrupt, acceptanceVars, kernelVars
    <3>4. \/ Recover \/ Poll \/ Position \/ Deploy \/ Verify \/ Close \/ Record \/ OpenStage
          \/ Report \/ RecordEvidence \/ RecordManifest \/ Finish
          => at' # "idle"
      BY DEF Recover, Poll, TakeUp, Position, Deploy, Verify, Close, Record, OpenStage, Throw,
         Report, RecordEvidence, RecordManifest, Finish, Goto
    <3>5. Fail \/ Repair \/ Count \/ Block \/ Refuse => at' # "idle"
      BY DEF Fail, Repair, Count, Block, Refuse, Goto
    <3>6. \/ Check \/ ReportCanon \/ StartCommand \/ Spawn \/ Answered \/ Unhealthy \/ Probe
          \/ VerifyPreview \/ Return \/ Stop \/ AwaitExit \/ Kill \/ TimeOut \/ CommandCloses
          => at' # "idle"
      BY <1>1 DEF Check, ReportCanon, StartCommand, Spawn, Answered, Unhealthy, Probe,
         VerifyPreview, Return, Stop, AwaitExit, Kill, TimeOut, CommandCloses, Throw, Goto, Stopped
    <3>7. QED  BY <1>1, <3>1, <3>2, <3>3, <3>4, <3>5, <3>6 DEF AcceptanceNext, Kernel
  <2>2. status \in [Run -> Status \cup { "NONE" }] /\ Target \in Run
    BY <1>1, AcceptanceAssumption DEF KInv, IInv, TypeOK
  <2>3. CASE Accept
    <3>1. status' = [status EXCEPT ![Target] = "AWAITING_APPROVAL"]
      BY <1>1, <2>3 DEF Accept, Goto, AcceptFunctionalApplication, CommitTransition
    <3>2. QED  BY <2>2, <3>1
  <2>4. CASE Halt
    <3>1. CASE status[Target] \in { "VALIDATING", "REPAIRING", "RUNNING" }
      <4>1. MayTransition(status[Target], "BLOCKED")
        BY <3>1 DEF MayTransition, Successors
      <4>2. status' = [status EXCEPT ![Target] = "BLOCKED"]
        BY <2>4, <3>1, <4>1 DEF Halt, Transition, CommitTransition
      <4>3. QED  BY <2>2, <4>2
    <3>2. CASE status[Target] \notin { "VALIDATING", "REPAIRING", "RUNNING" }
      <4>1. status' = status \/ status' = [status EXCEPT ![Target] = "BLOCKED"]
        BY <2>4 DEF Halt, Transition, CommitTransition, Steady, vars
      <4>2. QED  BY <2>2, <3>2, <4>1
    <3>3. QED  BY <3>1, <3>2
  <2>5. QED  BY <2>1, <2>3, <2>4
<1>2. KInv /\ [AcceptanceNext]_allVars
      => [at # "idle" /\ at' = "idle" /\ mishaps' = mishaps => Settled]_allVars
  BY <1>1
<1>3. QED
  BY <1>2, InitKInv, AcceptanceKeepsKInv, PTL DEF AcceptanceSpec, NoRunIsLeftUnderway

-----------------------------------------------------------------------------
(* A completed stage is done *)

\* The step completes no stage, and no stage of the kernel becomes active.
OpensNoKernelStage ==
  /\ \A i \in DOMAIN stages'[Target] :
       stages'[Target][i].status = "COMPLETED" =>
         i \in DOMAIN stages[Target] /\ stages'[Target][i] = stages[Target][i]
  /\ \/ active'[Target] = 0
     \/ active'[Target] = active[Target] /\ stages'[Target] = stages[Target]
     \/ stages'[Target][active'[Target]].type = "VALIDATION"

\* The calls other than those that start and complete a stage.
LEMMA OtherCallsOpenNoKernelStage ==
  ASSUME IInv,
         \/ Steady \/ Tick \/ RecoverStaleRuns
         \/ RecoverBlockedValidation(Target) \/ Resume(Target)
         \/ Pause(Target) \/ Cancel(Target)
         \/ AcceptFunctionalApplication(Target) \/ CertifyFunctionalApplication(Target)
         \/ \E s \in CallerTargets : Transition(Target, s)
         \/ Heartbeat(Target) \/ RecordValidation(Target) \/ RecordRepairAttempt(Target)
         \/ RecordPreview(Target)
         \/ \E c \in Commit : RecordAcceptanceEvidence(Target, c, Dimension)
         \/ \E c \in Commit : RebindRepositoryAfterRemediation(Target, c)
         \/ FailStage(Target)
  PROVE  OpensNoKernelStage
<1>1. Target \in Run /\ TypeOK /\ ActiveStageRuns  BY AcceptanceAssumption DEF IInv
<1>2. stages[Target] \in Seq(Stage)  BY <1>1 DEF TypeOK
<1>3. CASE UNCHANGED stageVars  BY <1>3 DEF OpensNoKernelStage, stageVars
<1>4. ASSUME active'[Target] = 0, active[Target] # 0,
             stages'[Target] = [stages[Target] EXCEPT ![active[Target]].status = "FAILED"]
      PROVE  OpensNoKernelStage
  <2>1. active[Target] \in DOMAIN stages[Target]  BY <1>1, <1>4 DEF ActiveStageRuns
  <2>2. /\ DOMAIN stages'[Target] = DOMAIN stages[Target]
        /\ stages'[Target][active[Target]].status = "FAILED"
        /\ \A j \in DOMAIN stages[Target] :
             j # active[Target] => stages'[Target][j] = stages[Target][j]
    BY <1>2, <1>4, <2>1, EndStage
  <2>3. QED  BY <1>4, <2>2 DEF OpensNoKernelStage
<1>5. CASE FailStage(Target)
  <2>1. active'[Target] = 0  BY <1>1, <1>5 DEF FailStage, TypeOK
  <2>2. stages'[Target] = [stages[Target] EXCEPT ![active[Target]].status = "FAILED"]
    BY <1>1, <1>5 DEF FailStage, TypeOK
  <2>3. QED  BY <1>4, <1>5, <2>1, <2>2 DEF FailStage
<1>6. CASE RecoverStaleRuns
  <2>1. CASE Target \in Swept /\ StageOpen(Target)
    BY <1>1, <1>4, <1>6, <2>1 DEF RecoverStaleRuns, StageOpen
  <2>2. CASE ~(Target \in Swept /\ StageOpen(Target))
    <3>1. stages'[Target] = stages[Target] /\ active'[Target] \in { 0, active[Target] }
      BY <1>1, <1>6, <2>2 DEF RecoverStaleRuns
    <3>2. QED  BY <3>1 DEF OpensNoKernelStage
  <2>3. QED  BY <2>1, <2>2
<1>7. ASSUME BackToWork(Target) PROVE OpensNoKernelStage
  <2>1. CASE UNCHANGED stageVars  BY <1>3, <2>1
  <2>2. CASE /\ stages' = Opened(Target, "VALIDATION")
             /\ active' = [active EXCEPT ![Target] = Len(stages[Target]) + 1]
    <3> DEFINE t == Append(stages[Target], [type |-> "VALIDATION", status |-> "RUNNING"])
    <3>1. stages'[Target] = t /\ active'[Target] = Len(stages[Target]) + 1
      BY <1>1, <2>2 DEF Opened, TypeOK
    <3>2. \A i \in DOMAIN t :
            \/ i \in DOMAIN stages[Target] /\ t[i] = stages[Target][i]
            \/ t[i].status = "RUNNING"
      BY <1>2
    <3>3. t[Len(stages[Target]) + 1].type = "VALIDATION"  BY <1>2
    <3>4. QED  BY <3>1, <3>2, <3>3 DEF OpensNoKernelStage
  <2>3. QED  BY <1>7, <2>1, <2>2 DEF BackToWork
<1>8. CASE RecoverBlockedValidation(Target) \/ Resume(Target)
  BY <1>3, <1>7, <1>8 DEF RecoverBlockedValidation, RecoverAndResume, Resume
<1>9. CASE ~(\/ RecoverBlockedValidation(Target) \/ Resume(Target) \/ RecoverStaleRuns
             \/ FailStage(Target))
  BY <1>3, <1>9 DEF Steady, vars, Tick, Pause, Cancel, AcceptFunctionalApplication,
     CertifyFunctionalApplication, Transition, Heartbeat, RecordValidation, RecordRepairAttempt,
     RecordPreview, RecordAcceptanceEvidence, RebindRepositoryAfterRemediation
<1>10. QED  BY <1>5, <1>6, <1>8, <1>9

\* A stage of the kernel is active.
OwnOpen == Open /\ stages[Target][active[Target]].type \in KernelStages

StagesAreDone == OwnStage /\ CompletedMeansDone

\* Enough for a step that completes nothing: a stage the kernel has open stays the one of
\* its phase.
LEMMA QuietStages ==
  ASSUME StagesAreDone, OpensNoKernelStage,
         calm' => calm, canon' = canon, done \subseteq done',
         calm /\ OwnOpen => phase' = phase /\ at' \in Staged
  PROVE  StagesAreDone'
<1>1. CompletedMeansDone'
  BY DEF StagesAreDone, OpensNoKernelStage, CompletedMeansDone
<1>2. OwnStage'
  BY DEF StagesAreDone, OpensNoKernelStage, OwnStage, OwnOpen, Open, KernelStages
<1>3. QED  BY <1>1, <1>2 DEF StagesAreDone

\* A step that completes the active stage, which is of no concern or done.
LEMMA CompletingStages ==
  ASSUME KInv, StagesAreDone, CompleteActive,
         calm' => calm, canon' = canon, done \subseteq done',
         calm /\ OwnOpen =>
           \/ active[Target] \in done'
           \/ canon /\ stages[Target][active[Target]].type = "PREREQUISITE"
  PROVE  StagesAreDone'
<1>1. Target \in Run /\ TypeOK /\ ActiveStageRuns  BY AcceptanceAssumption DEF KInv, IInv
<1>2. CASE Open
  <2> DEFINE i == active[Target]
  <2>1. i \in DOMAIN stages[Target]  BY <1>1, <1>2 DEF Open, ActiveStageRuns
  <2>2. stages'[Target] = [stages[Target] EXCEPT ![i].status = "COMPLETED"] /\ active'[Target] = 0
    BY <1>1, <1>2 DEF CompleteActive, CompleteStage, TypeOK
  <2>3. stages[Target] \in Seq(Stage)  BY <1>1 DEF TypeOK
  <2>4. /\ DOMAIN stages'[Target] = DOMAIN stages[Target]
        /\ stages'[Target][i].type = stages[Target][i].type
        /\ \A j \in DOMAIN stages[Target] : j # i => stages'[Target][j] = stages[Target][j]
    BY <2>1, <2>2, <2>3, EndStage
  <2>5. OwnStage'  BY <2>2 DEF OwnStage, Open
  <2>6. CompletedMeansDone'
    BY <1>2, <2>1, <2>4 DEF StagesAreDone, CompletedMeansDone, OwnOpen
  <2>7. QED  BY <2>5, <2>6 DEF StagesAreDone
<1>3. CASE ~Open
  <2>1. UNCHANGED <<stages, active>>  BY <1>3 DEF CompleteActive, Steady, vars, stageVars
  <2>2. QED  BY <1>3, <2>1 DEF StagesAreDone, OwnStage, CompletedMeansDone, Open
<1>4. QED  BY <1>2, <1>3

\* The stage the kernel opens is the one of its phase.
LEMMA OpeningStages ==
  ASSUME KInv, StagesAreDone, OpenStage PROVE StagesAreDone'
<1>1. Target \in Run /\ TypeOK /\ phase \in StageType
  BY AcceptanceAssumption DEF KInv, IInv, KernelTypeOK
<1>2. UNCHANGED <<canon, done, calm, phase>> /\ at = "open"
  BY DEF OpenStage, Quiet, planVars, boundVars, Goto
<1>3. CASE StageOpen(Target)
  <2>1. OpensNoKernelStage
    BY <1>3, OtherCallsOpenNoKernelStage DEF OpenStage, KInv
  <2>2. calm => ~OwnOpen  BY <1>2 DEF StagesAreDone, OwnStage, OwnOpen, Staged
  <2>3. QED  BY <1>2, <2>1, <2>2, QuietStages
<1>4. CASE ~StageOpen(Target)
  <2> DEFINE t == Append(stages[Target], [type |-> phase, status |-> "RUNNING"])
             n == Len(stages[Target]) + 1
  <2>1. stages'[Target] = t /\ active'[Target] = n
    BY <1>1, <1>4 DEF OpenStage, StartStage, Opened, TypeOK
  <2>2. at' \in { "check", "work" }  BY <1>4 DEF OpenStage, Goto
  <2>3. stages[Target] \in Seq(Stage)  BY <1>1 DEF TypeOK
  <2>4. /\ t[n].type = phase
        /\ \A i \in DOMAIN t :
             \/ i \in DOMAIN stages[Target] /\ t[i] = stages[Target][i]
             \/ t[i].status = "RUNNING"
    BY <2>3
  <2> HIDE DEF t, n
  <2>5. OwnStage'  BY <1>2, <2>1, <2>2, <2>4 DEF OwnStage, Staged
  <2>6. CompletedMeansDone'
    BY <1>2, <2>1, <2>4 DEF StagesAreDone, CompletedMeansDone
  <2>7. QED  BY <2>5, <2>6 DEF StagesAreDone
<1>5. QED  BY <1>3, <1>4

LEMMA KernelKeepsStages == ASSUME KInv, StagesAreDone, Kernel PROVE StagesAreDone'
<1> USE DEF Goto, Quiet, planVars, boundVars
<1>1. calm /\ OwnOpen => /\ at \in Staged /\ stages[Target][active[Target]].type = phase
                        /\ active[Target] \in DoneNow
  BY DEF StagesAreDone, OwnStage, OwnOpen, DoneNow
<1>2. IInv  BY DEF KInv
<1>3. CASE Close \/ Refuse
  BY <1>1, <1>3, CompletingStages DEF Close, Refuse, Staged
<1>4. CASE ReportCanon
  BY <1>1, <1>4, CompletingStages DEF ReportCanon, KInv, Sequence
<1>5. CASE Report \/ Finish
  BY <1>1, <1>5, CompletingStages DEF Report, Finish
<1>6. CASE OpenStage  BY <1>6, OpeningStages
<1>7. CASE Fail
  <2>1. OpensNoKernelStage  BY <1>2, <1>7, OtherCallsOpenNoKernelStage DEF Fail
  <2>2. CASE Open
    <3>1. active'[Target] = 0
      BY <1>2, <1>7, <2>2, AcceptanceAssumption DEF Fail, FailStage, IInv, TypeOK
    <3>2. OwnStage'  BY <3>1 DEF OwnStage, Open
    <3>3. CompletedMeansDone'
      BY <1>7, <2>1 DEF Fail, StagesAreDone, OpensNoKernelStage, CompletedMeansDone
    <3>4. QED  BY <3>2, <3>3 DEF StagesAreDone
  <2>3. CASE ~Open  BY <1>7, <2>1, <2>3, QuietStages DEF Fail, OwnOpen
  <2>4. QED  BY <2>2, <2>3
<1>8. CASE \/ Recover \/ Poll \/ Position \/ Deploy \/ Verify \/ Record \/ Accept
           \/ Repair \/ Count \/ Block \/ Halt
  <2>1. OpensNoKernelStage
    BY <1>2, <1>8, OtherCallsOpenNoKernelStage
    DEF Recover, Poll, Position, Deploy, Verify, Record, Accept, Repair, Count, Block, Halt,
        CallerTargets
  <2>2. at \notin Staged /\ UNCHANGED <<canon, done, calm>>
    BY <1>8 DEF Recover, Poll, TakeUp, Position, Deploy, Verify, Record, Accept, Repair, Count,
       Block, Halt, Staged
  <2>3. QED  BY <1>1, <2>1, <2>2, QuietStages
<1>9. CASE RecordEvidence \/ RecordManifest
  <2>1. OpensNoKernelStage
    <3>1. RecordEvidence => job.commit \in Commit
      BY DEF RecordEvidence, KInv, Sequence, Verifying
    <3>2. QED
      BY <1>2, <1>9, <3>1, OtherCallsOpenNoKernelStage DEF RecordEvidence, RecordManifest
  <2>2. UNCHANGED <<canon, done, calm, phase>> /\ at' \in Staged
    BY <1>9 DEF RecordEvidence, RecordManifest, Staged
  <2>3. QED  BY <2>1, <2>2, QuietStages
<1>10. CASE \/ Check \/ StartCommand \/ Spawn \/ Answered \/ Unhealthy \/ Probe \/ VerifyPreview
            \/ Return \/ Stop \/ AwaitExit \/ Kill \/ TimeOut \/ CommandCloses
  <2>1. Steady /\ UNCHANGED <<canon, done, calm, phase>>
    BY <1>10 DEF Check, StartCommand, Spawn, Answered, Unhealthy, Probe, VerifyPreview, Return,
       Stop, AwaitExit, Kill, TimeOut, CommandCloses
  <2>2. at' \in Staged
    BY <1>10 DEF Check, StartCommand, Spawn, Answered, Unhealthy, Probe, VerifyPreview, Return,
       Stop, AwaitExit, Kill, TimeOut, CommandCloses, Throw, Stopped, Staged
  <2>3. OpensNoKernelStage  BY <1>2, <2>1, OtherCallsOpenNoKernelStage
  <2>4. QED  BY <2>1, <2>2, <2>3, QuietStages
<1>11. QED
  BY <1>3, <1>4, <1>5, <1>6, <1>7, <1>8, <1>9, <1>10 DEF Kernel

LEMMA SurroundingsKeepStages ==
  ASSUME KInv, StagesAreDone, Host \/ Commands PROVE StagesAreDone'
<1> USE DEF kernelVars, planVars, boundVars, acceptanceVars
<1>1. OpensNoKernelStage
  <2>1. CASE Commands
    BY <2>1, OtherCallsOpenNoKernelStage DEF KInv, Commands, Interrupt
  <2>2. CASE Host
    <3>1. \/ Steady \/ Tick \/ Heartbeat(Target)
          \/ \E c \in Commit : RebindRepositoryAfterRemediation(Target, c)
      <4>1. ASSUME NEW k \in Launch, Listen(k) \/ Exit(k) \/ Linger(k) \/ Subside(k)
            PROVE  Steady
        BY <4>1 DEF Listen, Exit, Linger, Subside
      <4>2. ASSUME NEW c \in Commit, MoveCheckout(c) PROVE Steady
        BY <4>2 DEF MoveCheckout
      <4>3. ASSUME NEW c \in Commit, Supersede(c)
            PROVE  RebindRepositoryAfterRemediation(Target, c)
        BY <4>3 DEF Supersede
      <4>4. Crash \/ HoldPipes => Steady  BY DEF Crash, HoldPipes
      <4>5. Beat => Heartbeat(Target)  BY DEF Beat
      <4>6. Expire => Tick  BY DEF Expire
      <4>7. QED  BY <2>2, <4>1, <4>2, <4>3, <4>4, <4>5, <4>6 DEF Host
    <3>2. QED  BY <3>1, OtherCallsOpenNoKernelStage DEF KInv
  <2>3. QED  BY <2>1, <2>2
<1>2. /\ (calm' => calm) /\ canon' = canon /\ done' = done
      /\ calm' => phase' = phase /\ at' = at
  <2> DEFINE Kept == /\ (calm' => calm) /\ canon' = canon /\ done' = done
                     /\ calm' => phase' = phase /\ at' = at
  <2>1. ASSUME NEW k \in Launch, Listen(k) \/ Exit(k) \/ Linger(k) \/ Subside(k) PROVE Kept
    BY <2>1 DEF Listen, Exit, Linger, Subside
  <2>2. ASSUME NEW c \in Commit, MoveCheckout(c) \/ Supersede(c) PROVE Kept
    <3>1. MoveCheckout(c) => (calm' => calm) /\ UNCHANGED <<at, phase, canon, done>>
      BY Zenon DEF MoveCheckout
    <3>2. Supersede(c) => UNCHANGED <<at, phase, canon, done, calm>>
      BY DEF Supersede
    <3>3. QED  BY <2>2, <3>1, <3>2
  <2>3. CASE Crash \/ HoldPipes \/ Beat \/ Expire  BY <2>3 DEF Crash, HoldPipes, Beat, Expire
  <2>4. CASE Commands  BY <2>4 DEF Commands, Interrupt
  <2>5. QED  BY <2>1, <2>2, <2>3, <2>4 DEF Host
<1>4. CASE calm'
  <2>1. calm /\ OwnOpen => phase' = phase /\ at' \in Staged
    BY <1>2, <1>4 DEF StagesAreDone, OwnStage, OwnOpen
  <2>2. QED  BY <1>1, <1>2, <2>1, QuietStages
<1>5. CASE ~calm'
  BY <1>5 DEF StagesAreDone, OwnStage, CompletedMeansDone
<1>6. QED  BY <1>4, <1>5

\* Without a crash, no stage of the kernel is on record as COMPLETED whose work did not
\* succeed, whatever the terminal does to the run between two calls (the reporter, both
\* catch blocks, recoverStaleRuns).
THEOREM CompletedStagesAreDone == AcceptanceSpec => []CompletedMeansDone
<1>1. AcceptanceInit => StagesAreDone
  <2>1. ASSUME AcceptanceInit
        PROVE  /\ stages[Target] = << [type |-> "VALIDATION", status |-> "RUNNING"] >>
               /\ active[Target] = 1
    BY <2>1, AcceptanceAssumption DEF AcceptanceInit
  <2>2. QED  BY <2>1 DEF StagesAreDone, OwnStage, CompletedMeansDone, KernelStages
<1>2. KInv /\ StagesAreDone /\ [AcceptanceNext]_allVars => StagesAreDone'
  <2> SUFFICES ASSUME KInv, StagesAreDone, [AcceptanceNext]_allVars PROVE StagesAreDone'
    OBVIOUS
  <2>1. CASE AcceptanceNext
    BY <2>1, KernelKeepsStages, SurroundingsKeepStages DEF AcceptanceNext
  <2>2. CASE UNCHANGED allVars
    BY <2>2 DEF StagesAreDone, OwnStage, CompletedMeansDone, Open, allVars, acceptanceVars,
       kernelVars, planVars, boundVars, vars, stageVars
  <2>3. QED  BY <2>1, <2>2
<1>3. StagesAreDone => CompletedMeansDone  BY DEF StagesAreDone
<1>4. QED
  BY <1>1, <1>2, <1>3, InitKInv, AcceptanceKeepsKInv, PTL DEF AcceptanceSpec
=============================================================================

------------------------- MODULE ProductionRuntime -------------------------
(***************************************************************************)
(* ProductionRuntimeService: the durable production runs, their stages and *)
(* their execution leases, one action per method.  A method is one step:   *)
(* the service is synchronous, so inside one process nothing interleaves   *)
(* with it.  Any legal sequence of calls on any run is a behaviour.        *)
(*                                                                         *)
(* A run that was never begun has status "NONE".  A stage is the pair      *)
(* [type, status]; its id is its index in stages[r], and active[r] = 0     *)
(* stands for an undefined activeStageId.  left[r] is the time before the  *)
(* lease expires, so an ACTIVE lease with left[r] = 0 is expired and a     *)
(* positive one is healthy.  An evidence item (passing, from an executable *)
(* source) is the commit it is bound to and the dimension it speaks for.   *)
(***************************************************************************)
EXTENDS Integers, Sequences, ProductionStatus

CONSTANTS Run,              \* run ids
          Repository,
          RepositoryOf,     \* the repository a run is begun on
          Functional,       \* runs whose mission has a FUNCTIONAL_APPLICATION policy
          Commit,
          FirstCommit,      \* startingCommit
          Dimension,        \* the functional policy's required dimensions
          StageType,        \* the stage types in play
          AcceptanceStages, \* those acceptFunctionalApplication demands
          LeaseTtl,
          RepairLimit,      \* DEFAULT_PRODUCTION_REPAIR_LIMIT
          MaxStages         \* bound on the stages of a run

NoPlan == "NO_PLAN"

ASSUME ConstantAssumption ==
  /\ RepositoryOf \in [Run -> Repository]
  /\ Functional \subseteq Run
  /\ FirstCommit \in Commit
  /\ NoPlan \notin Commit
  /\ "VALIDATION" \in StageType
  /\ "RUN_START" \notin StageType
  /\ "NONE" \notin StageType
  /\ AcceptanceStages \subseteq StageType
  /\ LeaseTtl \in Nat \ {0}
  /\ RepairLimit \in Nat
  /\ MaxStages \in Nat

VARIABLES status,      \* run.status
          stages,      \* the run's stage records, oldest first
          active,      \* run.activeStageId
          checkpoint,  \* run.resumeCheckpoint
          attempts,    \* run.repairAttempts
          limit,       \* run.repairAttemptLimit
          linked,      \* a remediation-run id is among run.evidenceIds
          revision,    \* run.currentCommit
          plan,        \* the commit of run.functionalAcceptancePlan
          evidence,    \* run.acceptanceEvidence
          previews,    \* run.previewArtifactIds is not empty
          lease,       \* the state of the run's last execution lease
          left         \* time left before that lease expires

lineageVars == <<linked, revision, plan, evidence, previews>>
repairVars  == <<attempts, limit>>
stageVars   == <<stages, active>>
leaseVars   == <<lease, left>>
vars == <<status, stageVars, checkpoint, repairVars, lineageVars, leaseVars>>

-----------------------------------------------------------------------------
(* Reading the state *)

Item == [commit : Commit, dimension : Dimension]

Stage == [type : StageType, status : { "RUNNING", "COMPLETED", "FAILED" }]

Begun(r) == status[r] # "NONE"

Leased(r)  == lease[r] = "ACTIVE"
Expired(r) == Leased(r) /\ left[r] = 0
Healthy(r) == Leased(r) /\ left[r] > 0

\* The runs that share r's repository, r included.
Peers(r) == { q \in Run : RepositoryOf[q] = RepositoryOf[r] }

\* activeRun(repository) is undefined.
NoActivePeer(r) == \A q \in Peers(r) : status[q] \notin ActiveStatus

\* Mutant: looks at the run's own lease only.
NoHealthyPeerOwnLeaseOnly(r) == ~Healthy(r)

\* The check of acquireLease.
NoHealthyPeer(r) == \A q \in Peers(r) : ~Healthy(q)

\* Mutant: a dimension nobody recorded evidence for is not missed.
CertificationEvidenceOfSomeKind(r) ==
  r \in Functional =>
    /\ \A item \in evidence[r] : item.commit = revision[r]
    /\ evidence[r] # {}
    /\ "PREVIEW" \in Dimension => previews[r]

\* assertCertificationEvidence, a no-op unless the mission is functional: every
\* item is bound to the current commit, every dimension is covered, and a policy
\* that asks for a preview has one.
CertificationEvidence(r) ==
  r \in Functional =>
    /\ \A item \in evidence[r] : item.commit = revision[r]
    /\ \A d \in Dimension : \E item \in evidence[r] : item.dimension = d
    /\ "PREVIEW" \in Dimension => previews[r]

\* Mutant: a stage that was opened counts as passed unless it failed.
CompletedTypesUnlessFailed(r) ==
  { stages[r][i].type : i \in { j \in DOMAIN stages[r] : stages[r][j].status # "FAILED" } }

CompletedTypes(r) ==
  { stages[r][i].type : i \in { j \in DOMAIN stages[r] : stages[r][j].status = "COMPLETED" } }

RepairsLeft(r) == limit[r] - attempts[r]

TypeOK ==
  /\ status     \in [Run -> Status \cup { "NONE" }]
  /\ stages     \in [Run -> Seq(Stage)]
  /\ active     \in [Run -> Nat]
  /\ checkpoint \in [Run -> StageType \cup { "RUN_START", "NONE" }]
  /\ attempts   \in [Run -> Nat]
  /\ limit      \in [Run -> Nat]
  /\ linked     \in [Run -> BOOLEAN]
  /\ revision   \in [Run -> Commit]
  /\ plan       \in [Run -> Commit \cup { NoPlan }]
  /\ evidence   \in [Run -> SUBSET Item]
  /\ previews   \in [Run -> BOOLEAN]
  /\ lease      \in [Run -> { "NONE", "ACTIVE", "RELEASED", "STALE" }]
  /\ left       \in [Run -> 0 .. LeaseTtl]

Init ==
  /\ status     = [r \in Run |-> "NONE"]
  /\ stages     = [r \in Run |-> << >>]
  /\ active     = [r \in Run |-> 0]
  /\ checkpoint = [r \in Run |-> "NONE"]
  /\ attempts   = [r \in Run |-> 0]
  /\ limit      = [r \in Run |-> RepairLimit]
  /\ linked     = [r \in Run |-> FALSE]
  /\ revision   = [r \in Run |-> FirstCommit]
  /\ plan       = [r \in Run |-> NoPlan]
  /\ evidence   = [r \in Run |-> {}]
  /\ previews   = [r \in Run |-> FALSE]
  /\ lease      = [r \in Run |-> "NONE"]
  /\ left       = [r \in Run |-> 0]

-----------------------------------------------------------------------------
(* Leases *)

Acquire(r) ==
  /\ NoHealthyPeer(r)
  /\ lease' = [lease EXCEPT ![r] = "ACTIVE"]
  /\ left'  = [left EXCEPT ![r] = LeaseTtl]

\* heartbeat renews whatever lease is still ACTIVE, an expired one included.
Renew(r) ==
  /\ left' = IF Leased(r) THEN [left EXCEPT ![r] = LeaseTtl] ELSE left
  /\ UNCHANGED lease

\* Mutants: a pause, an approval, keeps the lease.
ReleaseOnUnlessPaused(r, s) ==
  IF Leased(r) /\ s \in Terminal \cup { "AWAITING_APPROVAL" }
  THEN lease' = [lease EXCEPT ![r] = "RELEASED"] /\ left' = [left EXCEPT ![r] = 0]
  ELSE UNCHANGED leaseVars

ReleaseOnUnlessAwaitingApproval(r, s) ==
  IF Leased(r) /\ s \in Terminal \cup { "PAUSED" }
  THEN lease' = [lease EXCEPT ![r] = "RELEASED"] /\ left' = [left EXCEPT ![r] = 0]
  ELSE UNCHANGED leaseVars

\* commitTransition gives the lease up on a terminal status, PAUSED and
\* AWAITING_APPROVAL, and leaves it alone otherwise.
ReleaseOn(r, s) ==
  IF Leased(r) /\ s \in Terminal \cup { "PAUSED", "AWAITING_APPROVAL" }
  THEN lease' = [lease EXCEPT ![r] = "RELEASED"] /\ left' = [left EXCEPT ![r] = 0]
  ELSE UNCHANGED leaseVars

\* Wall-clock time: every ACTIVE lease gets closer to expiry.
Tick ==
  /\ \E r \in Run : Healthy(r)
  /\ left' = [r \in Run |-> IF Healthy(r) THEN left[r] - 1 ELSE left[r]]
  /\ UNCHANGED <<status, stageVars, checkpoint, repairVars, lineageVars, lease>>

-----------------------------------------------------------------------------
(* Run lifecycle *)

\* Mutant: the active run of the repository is not looked for.
BeginBesideActiveRun(r) ==
  /\ status[r] = "NONE"
  /\ status' = [status EXCEPT ![r] = "AUTHORIZED"]
  /\ Acquire(r)
  /\ UNCHANGED <<stageVars, checkpoint, repairVars, lineageVars>>

\* begin: a repository has one active run.
Begin(r) ==
  /\ status[r] = "NONE"
  /\ NoActivePeer(r)
  /\ status' = [status EXCEPT ![r] = "AUTHORIZED"]
  /\ Acquire(r)
  /\ UNCHANGED <<stageVars, checkpoint, repairVars, lineageVars>>

\* Mutant: the table of the status machine is not consulted.
CommitTransitionWithoutTable(r, s) ==
  /\ s \in Accepted => CertificationEvidence(r)
  /\ status' = [status EXCEPT ![r] = s]
  /\ ReleaseOn(r, s)

\* commitTransition, without the frame of the variables it never touches.
CommitTransition(r, s) ==
  /\ MayTransition(status[r], s)
  /\ s \in Accepted => CertificationEvidence(r)
  /\ status' = [status EXCEPT ![r] = s]
  /\ ReleaseOn(r, s)

\* transition, for the statuses its callers outside the service ask for.
CallerTargets == { "QUEUED", "STARTING", "RUNNING", "VALIDATING", "REPAIRING",
                   "AWAITING_APPROVAL", "BLOCKED", "FAILED", "COMPLETED", "CERTIFIED" }

Transition(r, s) ==
  /\ Begun(r)
  /\ s \in { "AWAITING_APPROVAL", "CERTIFIED" } => r \notin Functional
  /\ CommitTransition(r, s)
  /\ UNCHANGED <<stageVars, checkpoint, repairVars, lineageVars>>

\* acceptFunctionalApplication: the only way a functional run reaches approval.
AcceptFunctionalApplication(r) ==
  /\ Begun(r) /\ r \in Functional
  /\ CertificationEvidence(r)
  /\ AcceptanceStages \subseteq CompletedTypes(r)
  /\ CommitTransition(r, "AWAITING_APPROVAL")
  /\ UNCHANGED <<stageVars, checkpoint, repairVars, lineageVars>>

CertifyFunctionalApplication(r) ==
  /\ status[r] = "AWAITING_APPROVAL" /\ r \in Functional
  /\ CertificationEvidence(r)
  /\ CommitTransition(r, "CERTIFIED")
  /\ UNCHANGED <<stageVars, checkpoint, repairVars, lineageVars>>

Pause(r) ==
  /\ status[r] \in Pausable
  /\ CommitTransition(r, "PAUSED")
  /\ UNCHANGED <<stageVars, checkpoint, repairVars, lineageVars>>

Cancel(r) ==
  /\ Begun(r) /\ status[r] \notin Terminal
  /\ CommitTransition(r, "CANCELLED")
  /\ UNCHANGED <<stageVars, checkpoint, repairVars, lineageVars>>

Heartbeat(r) ==
  /\ Begun(r)
  /\ Renew(r)
  /\ UNCHANGED <<status, stageVars, checkpoint, repairVars, lineageVars>>

-----------------------------------------------------------------------------
(* Stages *)

\* startStage heartbeats first; a call refused because a stage is still open has
\* therefore renewed the lease, and is a Heartbeat.
StageOpen(r) == active[r] # 0 /\ stages[r][active[r]].status = "RUNNING"

Opened(r, type) == [stages EXCEPT ![r] = Append(@, [type |-> type, status |-> "RUNNING"])]

StartStage(r, type) ==
  /\ Begun(r)
  /\ ~StageOpen(r)
  /\ Len(stages[r]) < MaxStages
  /\ stages' = Opened(r, type)
  /\ active' = [active EXCEPT ![r] = Len(stages[r]) + 1]
  /\ Renew(r)
  /\ UNCHANGED <<status, checkpoint, repairVars, lineageVars>>

\* Mutant: activeStageId still names the stage that ended.
CompleteStageStaysActive(r, i) ==
  /\ i \in DOMAIN stages[r]
  /\ stages' = [stages EXCEPT ![r][i].status = "COMPLETED"]
  /\ UNCHANGED <<active, status, checkpoint, repairVars, lineageVars, leaseVars>>

\* completeStage takes any stage id its caller still holds, whatever the stage's
\* status, and clears activeStageId even when another stage is the active one.
CompleteStage(r, i) ==
  /\ i \in DOMAIN stages[r]
  /\ stages' = [stages EXCEPT ![r][i].status = "COMPLETED"]
  /\ active' = [active EXCEPT ![r] = 0]
  /\ UNCHANGED <<status, checkpoint, repairVars, lineageVars, leaseVars>>

\* failStage: every caller passes the run's activeStageId.
FailStage(r) ==
  /\ active[r] # 0
  /\ stages' = [stages EXCEPT ![r][active[r]].status = "FAILED"]
  /\ active' = [active EXCEPT ![r] = 0]
  /\ UNCHANGED <<status, checkpoint, repairVars, lineageVars, leaseVars>>

-----------------------------------------------------------------------------
(* Suspension and recovery *)

\* What resume resumes from: the open stage's type, else the durable checkpoint.
ResumePoint(r) == IF active[r] # 0 THEN stages[r][active[r]].type ELSE checkpoint[r]

ResumesEngineering(r) == ResumePoint(r) \notin ValidationStages \cup { "NONE" }

\* Mutant: a stopped run resumes without being recovered first.
ResumeStopped(r) ==
  /\ status[r] \in { "PAUSED", "RECOVERING", "FAILED" }
  /\ ResumesEngineering(r)
  /\ IF ~Leased(r) THEN Acquire(r) ELSE UNCHANGED leaseVars
  /\ status' = [status EXCEPT ![r] = "RUNNING"]
  /\ UNCHANGED <<stageVars, checkpoint, repairVars, lineageVars>>

\* The body of resume: it takes a lease unless the run still has one, then returns
\* the run to RUNNING or to VALIDATING; with no active stage the latter opens a
\* validation stage, whose heartbeat renews.
BackToWork(r) ==
  LET validates == ~ResumesEngineering(r)
      opens     == validates /\ active[r] = 0
  IN  /\ IF ~Leased(r) THEN Acquire(r) ELSE IF opens THEN Renew(r) ELSE UNCHANGED leaseVars
      /\ status' = [status EXCEPT ![r] = IF validates THEN "VALIDATING" ELSE "RUNNING"]
      /\ IF opens
         THEN /\ Len(stages[r]) < MaxStages
              /\ stages' = Opened(r, "VALIDATION")
              /\ active' = [active EXCEPT ![r] = Len(stages[r]) + 1]
         ELSE UNCHANGED stageVars

Resume(r) ==
  /\ status[r] \in { "PAUSED", "RECOVERING" }
  /\ BackToWork(r)
  /\ UNCHANGED <<checkpoint, repairVars, lineageVars>>

\* recoverStaleRuns classifies every expired lease, and sends its run to
\* RECOVERING without consulting the transition table.
Swept == { r \in Run : Expired(r) /\ status[r] \in ActiveStatus }

RecoverStaleRuns ==
  /\ \E r \in Run : Expired(r)
  /\ lease'  = [r \in Run |-> IF Expired(r) THEN "STALE" ELSE lease[r]]
  /\ status' = [r \in Run |-> IF r \in Swept THEN "RECOVERING" ELSE status[r]]
  /\ stages' = [r \in Run |-> IF r \in Swept /\ StageOpen(r)
                              THEN [stages[r] EXCEPT ![active[r]].status = "FAILED"]
                              ELSE stages[r]]
  /\ active' = [r \in Run |-> IF r \in Swept THEN 0 ELSE active[r]]
  /\ checkpoint' = [r \in Run |->
       IF r \notin Swept THEN checkpoint[r]
       ELSE IF active[r] # 0 THEN stages[r][active[r]].type ELSE "RUN_START"]
  /\ UNCHANGED <<repairVars, lineageVars, left>>

\* recoverFailedExecution: a FAILED run with a failed EXECUTION stage goes back
\* to that checkpoint.  No lease is taken here.
RecoverFailedExecution(r) ==
  /\ status[r] = "FAILED"
  /\ \E i \in DOMAIN stages[r] : stages[r][i] = [type |-> "EXECUTION", status |-> "FAILED"]
  /\ CommitTransition(r, "RECOVERING")
  /\ active' = [active EXCEPT ![r] = 0]
  /\ checkpoint' = [checkpoint EXCEPT ![r] = "EXECUTION"]
  /\ UNCHANGED <<stages, repairVars, lineageVars>>

\* A stopped run is committed to RECOVERING and resumed in one call; when a peer
\* has a healthy lease the resumption throws and the run stays RECOVERING.
RecoverAndResume(r) ==
  \/ BackToWork(r)
  \/ /\ ~Leased(r) /\ ~NoHealthyPeer(r)
     /\ status' = [status EXCEPT ![r] = "RECOVERING"]
     /\ UNCHANGED <<stageVars, leaseVars>>

\* recoverBlockedValidation, within the repair budget, on a linked remediation.
RecoverBlockedValidation(r) ==
  /\ status[r] = "BLOCKED" /\ RepairsLeft(r) >= 1 /\ linked[r]
  /\ RecoverAndResume(r)
  /\ UNCHANGED <<checkpoint, repairVars, lineageVars>>

\* recoverFailedFunctionalImplementationValidation: implementation evidence for the
\* current commit arrived after its stage had failed.  What it records renews no
\* lease, a failed run having none.
RecoverFailedImplementation(r, dimensions) ==
  /\ status[r] = "FAILED" /\ r \in Functional
  /\ \E i \in DOMAIN stages[r] : stages[r][i].status = "FAILED"
  /\ evidence' = [evidence EXCEPT ![r] = @ \cup [commit : { revision[r] }, dimension : dimensions]]
  /\ plan'     = [plan EXCEPT ![r] = revision[r]]
  /\ linked'   = [linked EXCEPT ![r] = TRUE]
  /\ RecoverAndResume(r)
  /\ UNCHANGED <<checkpoint, repairVars, revision, previews>>

-----------------------------------------------------------------------------
(* Repair budget *)

\* recordRepairAttempt(STARTED) against the run's own limit: no caller passes the
\* optional maximumAttempts.  The refusal past the limit is a Heartbeat.
RecordRepairAttempt(r) ==
  /\ Begun(r)
  /\ attempts[r] + 1 <= limit[r]
  /\ attempts' = [attempts EXCEPT ![r] = @ + 1]
  /\ Renew(r)
  /\ UNCHANGED <<status, stageVars, checkpoint, limit, lineageVars>>

-----------------------------------------------------------------------------
(* Repository lineage and acceptance evidence *)

UpdateRepositoryPosition(r, c) ==
  /\ Begun(r)
  /\ revision' = [revision EXCEPT ![r] = c]
  /\ Renew(r)
  /\ UNCHANGED <<status, stageVars, checkpoint, repairVars, linked, plan, evidence, previews>>

\* rebindRepositoryAfterRemediation, from a run whose remediation is linked:
\* position and plan advance together and the old evidence is dropped.
Rebind(r, c) ==
  /\ plan[r] # NoPlan
  /\ revision' = [revision EXCEPT ![r] = c]
  /\ plan'     = [plan EXCEPT ![r] = c]
  /\ evidence' = [evidence EXCEPT ![r] = {}]
  /\ previews' = [previews EXCEPT ![r] = FALSE]
  /\ Renew(r)

RebindRepositoryAfterRemediation(r, c) ==
  /\ Begun(r) /\ linked[r]
  /\ Rebind(r, c)
  /\ UNCHANGED <<status, stageVars, checkpoint, repairVars, linked>>

\* registerBoundedRemediation links a remediation and rebinds.  Without a plan
\* the link is already saved when the rebinding throws.
RegisterBoundedRemediation(r, c) ==
  /\ status[r] = "BLOCKED" /\ RepairsLeft(r) >= 1 /\ c # revision[r]
  /\ linked' = [linked EXCEPT ![r] = TRUE]
  /\ IF plan[r] = NoPlan
     THEN Renew(r) /\ UNCHANGED <<revision, plan, evidence, previews>>
     ELSE Rebind(r, c)
  /\ UNCHANGED <<status, stageVars, checkpoint, repairVars>>

\* normalizeFunctionalAcceptanceLineage: a plan for another commit is moved to
\* the current one, and the evidence recorded for it is dropped.
NormalizeFunctionalAcceptanceLineage(r) ==
  /\ Begun(r) /\ plan[r] \notin { NoPlan, revision[r] }
  /\ plan'     = [plan EXCEPT ![r] = revision[r]]
  /\ evidence' = [evidence EXCEPT ![r] = {}]
  /\ previews' = [previews EXCEPT ![r] = FALSE]
  /\ UNCHANGED <<status, stageVars, checkpoint, repairVars, linked, revision, leaseVars>>

\* recordValidation, of interest only when it links a remediation run.
RecordValidation(r) ==
  /\ Begun(r)
  /\ linked' = [linked EXCEPT ![r] = TRUE]
  /\ Renew(r)
  /\ UNCHANGED <<status, stageVars, checkpoint, repairVars, revision, plan, evidence, previews>>

RecordAcceptanceEvidence(r, c, dimensions) ==
  /\ Begun(r)
  /\ evidence' = [evidence EXCEPT ![r] = @ \cup [commit : { c }, dimension : dimensions]]
  /\ Renew(r)
  /\ UNCHANGED <<status, stageVars, checkpoint, repairVars, linked, revision, plan, previews>>

\* recordFunctionalAcceptancePlan takes a plan for the current commit only.
RecordFunctionalAcceptancePlan(r) ==
  /\ Begun(r)
  /\ plan' = [plan EXCEPT ![r] = revision[r]]
  /\ Renew(r)
  /\ UNCHANGED <<status, stageVars, checkpoint, repairVars, linked, revision, evidence, previews>>

RecordPreview(r) ==
  /\ Begun(r)
  /\ previews' = [previews EXCEPT ![r] = TRUE]
  /\ UNCHANGED <<status, stageVars, checkpoint, repairVars, linked, revision, plan, evidence,
                 leaseVars>>

-----------------------------------------------------------------------------
(* The service *)

\* The methods that move a run, its stages and its lease.
LifecycleNext ==
  \/ Tick
  \/ RecoverStaleRuns
  \/ \E r \in Run :
       \/ Begin(r)
       \/ \E s \in CallerTargets : Transition(r, s)
       \/ AcceptFunctionalApplication(r)
       \/ CertifyFunctionalApplication(r)
       \/ Pause(r)
       \/ Cancel(r)
       \/ Heartbeat(r)
       \/ \E type \in StageType : StartStage(r, type)
       \/ \E i \in DOMAIN stages[r] : CompleteStage(r, i)
       \/ FailStage(r)
       \/ Resume(r)
       \/ RecoverFailedExecution(r)
       \/ RecoverBlockedValidation(r)
       \/ \E D \in (SUBSET Dimension) \ { {} } : RecoverFailedImplementation(r, D)

\* The methods that move its repair budget, repository position and acceptance record.
LineageNext ==
  \E r \in Run :
    \/ \E c \in Commit : UpdateRepositoryPosition(r, c)
    \/ \E c \in Commit : RebindRepositoryAfterRemediation(r, c)
    \/ \E c \in Commit : RegisterBoundedRemediation(r, c)
    \/ NormalizeFunctionalAcceptanceLineage(r)
    \/ RecordValidation(r)
    \/ RecordRepairAttempt(r)
    \/ \E c \in Commit, D \in (SUBSET Dimension) \ { {} } : RecordAcceptanceEvidence(r, c, D)
    \/ RecordFunctionalAcceptancePlan(r)
    \/ RecordPreview(r)

Next == LifecycleNext \/ LineageNext

Spec == Init /\ [][Next]_vars

\* The lifecycle alone, with the registration that lets a blocked run be recovered:
\* enough where no run is functional, since only the acceptance check of a
\* functional run reads the rest of the lineage.
LifecycleSpec ==
  Init /\ [][LifecycleNext \/ \E r \in Run, c \in Commit : RegisterBoundedRemediation(r, c)]_vars

-----------------------------------------------------------------------------
(* What the service keeps true *)

\* The lease of a run is ACTIVE only while the run is executing: every way out of
\* the executing statuses (terminal transitions, pause, approval, the sweep of
\* expired leases) gives it up, and a run being recovered has none until resume.
\* With begin's check of activeRun this is why begin never saves a run and then
\* fails to lease it.
LeaseHolder ==
  \A r \in Run : Leased(r) => status[r] \in LeaseRequired \ { "RECOVERING" }

\* Between begin and the start of execution a run always holds its lease: only a
\* pause, an interruption or a terminal status takes it away.
LaunchHoldsLease ==
  \A r \in Run : status[r] \in { "AUTHORIZED", "QUEUED", "STARTING" } => Leased(r)

\* The active stage of a run is one of its stages, still running: no completion,
\* failure, sweep or recovery leaves activeStageId on a stage that has ended.
ActiveStageRuns ==
  \A r \in Run : active[r] # 0 => /\ active[r] \in DOMAIN stages[r]
                                  /\ stages[r][active[r]].status = "RUNNING"

\* A functional run in AWAITING_APPROVAL or CERTIFIED has completed every stage
\* the kernel demands, whatever was interrupted, failed or replayed before.
FunctionalStagesComplete ==
  \A r \in Functional : status[r] \in { "AWAITING_APPROVAL", "CERTIFIED" } =>
                          AcceptanceStages \subseteq CompletedTypes(r)

-----------------------------------------------------------------------------
(* What a step of the service may never do *)

\* Cancelled and certified runs never change status again, completed ones only by
\* certification, although recoverStaleRuns writes status without the table.
SettledStaysSettled ==
  [][\A r \in Run :
       /\ status[r] \in { "CERTIFIED", "CANCELLED" } => status'[r] = status[r]
       /\ status[r] = "COMPLETED" => status'[r] \in { "COMPLETED", "CERTIFIED" }]_vars

\* A status change outside the table of the status machine is the launch of a run,
\* the sweep of its expired lease, or a validation recovery, which passes through
\* RECOVERING and puts the run to work on a new lease, linked to a remediation and
\* within its repair budget unless it had failed.
TableOrRecovery(r) ==
  \/ Begun(r) /\ MayTransition(status[r], status'[r])
  \/ ~Begun(r) /\ status'[r] \in { "NONE", "AUTHORIZED" }
  \/ Expired(r) /\ lease'[r] = "STALE" /\ status'[r] = "RECOVERING"
  \/ /\ status[r] \in { "BLOCKED", "FAILED" } /\ status'[r] \in { "RUNNING", "VALIDATING" }
     /\ ~Leased(r) /\ Leased(r)'
     /\ linked'[r] /\ (status[r] = "BLOCKED" => RepairsLeft(r) >= 1)

OnlyRecoveryLeavesTheTable == [][\A r \in Run : TableOrRecovery(r)]_vars

\* However a functional run comes to wait for approval, to be completed or to be
\* certified, its evidence at that moment speaks for every dimension of the policy
\* and for the commit the run is at and no other, with a preview where the policy
\* asks for one; and it is certified out of AWAITING_APPROVAL only.  The methods
\* that move commit, plan and evidence run in any order before and in between.
CertifiedOnExactRevision ==
  [][\A r \in Functional :
       (status'[r] \in Accepted /\ status'[r] # status[r]) =>
         /\ evidence'[r] = [commit : { revision'[r] }, dimension : Dimension]
         /\ "PREVIEW" \in Dimension => previews'[r]
         /\ status'[r] = "CERTIFIED" => status[r] = "AWAITING_APPROVAL"]_vars

\* A completed stage stays completed: failStage and the sweep overwrite the status
\* of the stage they are given, but they are only given stages still running.
CompletedStagesStay ==
  [][\A r \in Run : \A i \in DOMAIN stages[r] :
       stages[r][i].status = "COMPLETED" =>
         i \in DOMAIN stages'[r] /\ stages'[r][i] = stages[r][i]]_vars

\* Two runs of one repository come to hold healthy leases together in one way
\* only: the lease of one of them had expired, nobody swept it, and a late
\* heartbeat renews it (or the other run takes its own) after that.
RivalOnlyByLateRenewal ==
  [][\A r \in Run : \A q \in Peers(r) \ { r } :
       (Healthy(r)' /\ Healthy(q)') =>
         (Healthy(r) /\ Healthy(q)) \/ Expired(r) \/ Expired(q)]_vars

\* begin: "Production execution already owned by run ...": a repository has one
\* active run.
OneActiveRun ==
  \A r \in Run : \A q \in Peers(r) \ { r } :
    ~(status[r] \in ActiveStatus /\ status[q] \in ActiveStatus)
=============================================================================

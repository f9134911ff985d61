---------------------- MODULE ProductionRuntimeProofs ----------------------
(***************************************************************************)
(* Proofs about the production runtime, for every set of runs, repositories*)
(* and commits, every lease time and every bound: the inductive invariant, *)
(* and what follows from it, the acceptance guarantee of functional runs,  *)
(* the action properties, and the refinement of RunLifecycle.              *)
(***************************************************************************)
EXTENDS ProductionRefinement, TLAPS

-----------------------------------------------------------------------------
(* The pure parts *)

\* The transitions a caller may ask for stay inside Status, and lead into the
\* launch statuses only from launch statuses.
LEMMA CallerTransition ==
  ASSUME NEW from \in Status, NEW to \in CallerTargets, MayTransition(from, to)
  PROVE  /\ to \in Status
         /\ to \in { "QUEUED", "STARTING" } => from \in { "AUTHORIZED", "QUEUED", "STARTING" }
  BY DEF CallerTargets, Status, MayTransition, Successors

\* Ending a stage keeps the history a sequence of stages of the same length and
\* touches no other stage.
LEMMA EndStage ==
  ASSUME NEW s \in Seq(Stage), NEW i \in DOMAIN s, NEW x \in { "COMPLETED", "FAILED" },
         NEW t, t = [s EXCEPT ![i].status = x]
  PROVE  /\ t \in Seq(Stage) /\ DOMAIN t = DOMAIN s
         /\ t[i].status = x /\ t[i].type = s[i].type
         /\ \A j \in DOMAIN s : j # i => t[j] = s[j]
<1> DEFINE e == [s[i] EXCEPT !.status = x]
<1>1. s[i] \in Stage  OBVIOUS
<1>2. e \in Stage /\ e.status = x /\ e.type = s[i].type  BY <1>1 DEF Stage
<1>3. t = [s EXCEPT ![i] = e]  OBVIOUS
<1> HIDE DEF e
<1>4. t \in Seq(Stage) /\ DOMAIN t = DOMAIN s  BY <1>2, <1>3
<1>5. t[i] = e /\ \A j \in DOMAIN s : j # i => t[j] = s[j]  BY <1>3
<1>6. QED  BY <1>2, <1>4, <1>5

\* Opening a stage adds one running stage at the end.
LEMMA StageOpening ==
  ASSUME NEW s \in Seq(Stage), NEW type \in StageType
  PROVE  LET t == Append(s, [type |-> type, status |-> "RUNNING"])
         IN  /\ t \in Seq(Stage) /\ Len(s) + 1 \in DOMAIN t
             /\ t[Len(s) + 1].status = "RUNNING"
             /\ \A j \in DOMAIN s : j \in DOMAIN t /\ t[j] = s[j]
<1> DEFINE e == [type |-> type, status |-> "RUNNING"]
<1>1. e \in Stage /\ e.status = "RUNNING"  BY DEF Stage
<1> HIDE DEF e
<1>2. QED  BY <1>1 DEF e

-----------------------------------------------------------------------------
(* The inductive invariant *)

IInv == TypeOK /\ LeaseHolder /\ LaunchHoldsLease /\ ActiveStageRuns

LEMMA InitIInv == Init => IInv
<1> SUFFICES ASSUME Init PROVE IInv  OBVIOUS
<1> USE ConstantAssumption DEF Init
<1>1. TypeOK  BY DEF TypeOK
<1>2. LeaseHolder /\ LaunchHoldsLease /\ ActiveStageRuns
  BY DEF LeaseHolder, LaunchHoldsLease, ActiveStageRuns, Leased
<1>3. QED  BY <1>1, <1>2 DEF IInv

\* A heartbeat renews a lease without changing who holds one.
LEMMA RenewFacts ==
  ASSUME TypeOK, NEW r \in Run, Renew(r)
  PROVE  left' \in [Run -> 0 .. LeaseTtl] /\ lease' = lease
  BY ConstantAssumption DEF TypeOK, Renew

LEMMA AcquireFacts ==
  ASSUME TypeOK, NEW r \in Run, Acquire(r)
  PROVE  /\ left' \in [Run -> 0 .. LeaseTtl]
         /\ lease' \in [Run -> { "NONE", "ACTIVE", "RELEASED", "STALE" }]
         /\ lease'[r] = "ACTIVE" /\ \A q \in Run \ { r } : lease'[q] = lease[q]
  BY ConstantAssumption DEF TypeOK, Acquire

\* A committed transition keeps the leases of the others, and its own unless the
\* new status gives it up.
LEMMA CommitFacts ==
  ASSUME TypeOK, NEW r \in Run, NEW s \in Status, CommitTransition(r, s)
  PROVE  /\ status' = [status EXCEPT ![r] = s]
         /\ left' \in [Run -> 0 .. LeaseTtl]
         /\ lease' \in [Run -> { "NONE", "ACTIVE", "RELEASED", "STALE" }]
         /\ \A q \in Run \ { r } : lease'[q] = lease[q]
         /\ lease'[r] = "ACTIVE" =>
              lease[r] = "ACTIVE" /\ s \notin Terminal \cup { "PAUSED", "AWAITING_APPROVAL" }
         /\ s \notin Terminal \cup { "PAUSED", "AWAITING_APPROVAL" } => lease'[r] = lease[r]
<1> DEFINE gives == Leased(r) /\ s \in Terminal \cup { "PAUSED", "AWAITING_APPROVAL" }
<1>1. 0 \in 0 .. LeaseTtl  BY ConstantAssumption
<1>2. CASE gives
  <2>1. /\ lease' = [lease EXCEPT ![r] = "RELEASED"]
        /\ left' = [left EXCEPT ![r] = 0]
        /\ status' = [status EXCEPT ![r] = s]
    BY <1>2 DEF CommitTransition, ReleaseOn
  <2>2. /\ left' \in [Run -> 0 .. LeaseTtl]
        /\ lease' \in [Run -> { "NONE", "ACTIVE", "RELEASED", "STALE" }]
        /\ lease'[r] = "RELEASED" /\ \A q \in Run \ { r } : lease'[q] = lease[q]
    BY <1>1, <2>1 DEF TypeOK
  <2>3. QED  BY <1>2, <2>1, <2>2
<1>3. CASE ~gives
  <2>1. lease' = lease /\ left' = left /\ status' = [status EXCEPT ![r] = s]
    BY <1>3 DEF CommitTransition, ReleaseOn, leaseVars
  <2>2. QED  BY <1>3, <2>1 DEF TypeOK, Leased
<1>4. QED  BY <1>2, <1>3

\* The actions that end in commitTransition and change no stage.
LEMMA CommitKeepsIInv ==
  ASSUME IInv, NEW r \in Run, NEW s \in Status, CommitTransition(r, s),
         UNCHANGED <<stageVars, checkpoint, repairVars, lineageVars>>,
         s \in CallerTargets \cup { "PAUSED", "CANCELLED" },
         s \in { "QUEUED", "STARTING" } => status[r] \in { "AUTHORIZED", "QUEUED", "STARTING" }
  PROVE  IInv'
<1> USE DEF IInv
<1>0. /\ status' = [status EXCEPT ![r] = s]
      /\ left' \in [Run -> 0 .. LeaseTtl]
      /\ lease' \in [Run -> { "NONE", "ACTIVE", "RELEASED", "STALE" }]
  BY CommitFacts
<1>1. TypeOK'  BY <1>0 DEF TypeOK, stageVars, repairVars, lineageVars
<1>s. DOMAIN status = Run  BY DEF TypeOK
<1>r. status'[r] = s /\ \A q \in Run \ { r } : status'[q] = status[q]  BY <1>0, <1>s
<1>l. \A q \in Run \ { r } : lease'[q] = lease[q]  BY CommitFacts
<1>2. LeaseHolder'
  <2>1. SUFFICES ASSUME NEW q \in Run, lease'[q] = "ACTIVE"
                 PROVE  status'[q] \in LeaseRequired \ { "RECOVERING" }
    BY DEF LeaseHolder, Leased
  <2>2. CASE q = r
    <3>1. lease[r] = "ACTIVE" /\ s \notin Terminal \cup { "PAUSED", "AWAITING_APPROVAL" }
      BY <2>1, <2>2, CommitFacts
    <3>2. QED  BY <2>2, <3>1, <1>r DEF LeaseRequired, CallerTargets, Terminal
  <2>3. CASE q # r
    BY <2>1, <2>3, <1>r, <1>l DEF LeaseHolder, Leased
  <2>4. QED  BY <2>2, <2>3
<1>3. LaunchHoldsLease'
  <2>1. SUFFICES ASSUME NEW q \in Run, status'[q] \in { "AUTHORIZED", "QUEUED", "STARTING" }
                 PROVE  lease'[q] = "ACTIVE"
    BY DEF LaunchHoldsLease, Leased
  <2>2. CASE q = r
    <3>1. s \in { "QUEUED", "STARTING" }
      BY <2>1, <2>2, <1>r DEF CallerTargets
    <3>2. lease[r] = "ACTIVE"  BY <3>1 DEF LaunchHoldsLease, Leased
    <3>3. QED  BY <2>2, <3>1, <3>2, CommitFacts DEF Terminal
  <2>3. CASE q # r
    BY <2>1, <2>3, <1>r, <1>l DEF LaunchHoldsLease, Leased
  <2>4. QED  BY <2>2, <2>3
<1>4. ActiveStageRuns'  BY DEF ActiveStageRuns, stageVars
<1>5. QED  BY <1>1, <1>2, <1>3, <1>4

\* Steps that touch neither status nor stages nor who holds a lease.
LEMMA QuietKeepsIInv ==
  ASSUME IInv, TypeOK', UNCHANGED <<status, stages, active, lease>>
  PROVE  IInv'
  BY DEF IInv, LeaseHolder, LaunchHoldsLease, ActiveStageRuns, Leased

\* Steps that touch stages but neither status nor leases.
LEMMA StageStepKeepsIInv ==
  ASSUME IInv, TypeOK', ActiveStageRuns', UNCHANGED <<status, lease>>
  PROVE  IInv'
  BY DEF IInv, LeaseHolder, LaunchHoldsLease, Leased

LEMMA TickKeepsIInv == ASSUME IInv, Tick PROVE IInv'
<1>1. left' \in [Run -> 0 .. LeaseTtl]
  BY ConstantAssumption DEF IInv, TypeOK, Tick, Healthy
<1>2. TypeOK'
  BY <1>1 DEF IInv, TypeOK, Tick, stageVars, repairVars, lineageVars
<1>3. QED  BY <1>2, QuietKeepsIInv DEF Tick, stageVars

LEMMA BeginKeepsIInv ==
  ASSUME IInv, NEW r \in Run, Begin(r) PROVE IInv'
<1>1. TypeOK  BY DEF IInv
<1>2. status' = [status EXCEPT ![r] = "AUTHORIZED"]  BY DEF Begin
<1>3. Acquire(r)  BY DEF Begin
<1>4. TypeOK'
  BY <1>1, <1>2, <1>3, AcquireFacts
  DEF TypeOK, Begin, Status, stageVars, repairVars, lineageVars
<1>5. LeaseHolder' /\ LaunchHoldsLease'
  <2>1. status'[r] = "AUTHORIZED" /\ \A q \in Run \ { r } : status'[q] = status[q]
    BY <1>1, <1>2 DEF TypeOK
  <2>2. lease'[r] = "ACTIVE" /\ \A q \in Run \ { r } : lease'[q] = lease[q]
    BY <1>1, <1>3, AcquireFacts
  <2>3. QED  BY <2>1, <2>2 DEF IInv, LeaseHolder, LaunchHoldsLease, Leased, LeaseRequired
<1>6. ActiveStageRuns'  BY DEF IInv, ActiveStageRuns, Begin, stageVars
<1>7. QED  BY <1>4, <1>5, <1>6 DEF IInv

\* What opening a stage in run r makes of the stage variables.
LEMMA OpenFacts ==
  ASSUME TypeOK, ActiveStageRuns, NEW r \in Run, NEW type \in StageType,
         stages' = Opened(r, type),
         active' = [active EXCEPT ![r] = Len(stages[r]) + 1]
  PROVE  /\ stages' \in [Run -> Seq(Stage)]
         /\ active' \in [Run -> Nat]
         /\ ActiveStageRuns'
<1> DEFINE t == Append(stages[r], [type |-> type, status |-> "RUNNING"])
<1>1. stages' = [stages EXCEPT ![r] = t]  BY DEF Opened
<1>2. stages[r] \in Seq(Stage)  BY DEF TypeOK
<1>3. /\ t \in Seq(Stage) /\ Len(stages[r]) + 1 \in DOMAIN t
      /\ t[Len(stages[r]) + 1].status = "RUNNING"
  BY <1>2, StageOpening
<1> HIDE DEF t
<1>4. stages' \in [Run -> Seq(Stage)]  BY <1>1, <1>3 DEF TypeOK
<1>5. active' \in [Run -> Nat]  BY <1>2 DEF TypeOK
<1>6. ActiveStageRuns'
  <2>1. SUFFICES ASSUME NEW q \in Run, active'[q] # 0
                 PROVE  active'[q] \in DOMAIN stages'[q]
                        /\ stages'[q][active'[q]].status = "RUNNING"
    BY DEF ActiveStageRuns
  <2>2. CASE q = r
    <3>1. stages'[q] = t /\ active'[q] = Len(stages[r]) + 1  BY <1>1, <2>2 DEF TypeOK
    <3>2. QED  BY <3>1, <1>3
  <2>3. CASE q # r
    <3>1. stages'[q] = stages[q] /\ active'[q] = active[q]  BY <1>1, <2>3 DEF TypeOK
    <3>2. QED  BY <3>1, <2>1 DEF ActiveStageRuns
  <2>4. QED  BY <2>2, <2>3
<1>7. QED  BY <1>4, <1>5, <1>6

LEMMA StartStageKeepsIInv ==
  ASSUME IInv, NEW r \in Run, NEW type \in StageType, StartStage(r, type) PROVE IInv'
<1>1. TypeOK /\ ActiveStageRuns  BY DEF IInv
<1>2. Renew(r)  BY DEF StartStage
<1>3. left' \in [Run -> 0 .. LeaseTtl] /\ lease' = lease  BY <1>1, <1>2, RenewFacts
<1>4. /\ stages' \in [Run -> Seq(Stage)]
      /\ active' \in [Run -> Nat]
      /\ ActiveStageRuns'
  BY <1>1, OpenFacts DEF StartStage
<1>5. TypeOK'
  BY <1>1, <1>3, <1>4 DEF TypeOK, StartStage, repairVars, lineageVars
<1>6. QED  BY <1>3, <1>4, <1>5, StageStepKeepsIInv DEF StartStage

\* What ending a stage of run r makes of the stage variables.
LEMMA EndFacts ==
  ASSUME TypeOK, ActiveStageRuns, NEW r \in Run, NEW i \in DOMAIN stages[r],
         NEW x \in { "COMPLETED", "FAILED" },
         stages' = [stages EXCEPT ![r][i].status = x],
         active' = [active EXCEPT ![r] = 0]
  PROVE  /\ stages' \in [Run -> Seq(Stage)]
         /\ active' \in [Run -> Nat]
         /\ ActiveStageRuns'
<1> DEFINE t == [stages[r] EXCEPT ![i].status = x]
<1>0. stages \in [Run -> Seq(Stage)] /\ active \in [Run -> Nat]  BY DEF TypeOK
<1>1. stages[r] \in Seq(Stage)  BY <1>0
<1>3. stages' = [stages EXCEPT ![r] = t] /\ t = [stages[r] EXCEPT ![i].status = x]
  OBVIOUS
<1> HIDE DEF t
<1>2. /\ t \in Seq(Stage) /\ DOMAIN t = DOMAIN stages[r]
      /\ t[i].status = x /\ t[i].type = stages[r][i].type
      /\ \A j \in DOMAIN stages[r] : j # i => t[j] = stages[r][j]
  BY <1>1, <1>3, EndStage
<1>4. stages' \in [Run -> Seq(Stage)]  BY <1>0, <1>2, <1>3
<1>5. active' \in [Run -> Nat]  BY <1>0
<1>6. ActiveStageRuns'
  BY <1>0, <1>3 DEF ActiveStageRuns
<1>7. QED  BY <1>4, <1>5, <1>6

LEMMA CompleteStageKeepsIInv ==
  ASSUME IInv, NEW r \in Run, NEW i \in DOMAIN stages[r], CompleteStage(r, i) PROVE IInv'
<1>1. TypeOK /\ ActiveStageRuns  BY DEF IInv
<1>2. /\ stages' \in [Run -> Seq(Stage)]
      /\ active' \in [Run -> Nat]
      /\ ActiveStageRuns'
  BY <1>1, EndFacts DEF CompleteStage
<1>3. TypeOK'
  BY <1>1, <1>2 DEF TypeOK, CompleteStage, repairVars, lineageVars, leaseVars
<1>4. QED  BY <1>2, <1>3, StageStepKeepsIInv DEF CompleteStage, leaseVars

LEMMA FailStageKeepsIInv ==
  ASSUME IInv, NEW r \in Run, FailStage(r) PROVE IInv'
<1>1. TypeOK /\ ActiveStageRuns  BY DEF IInv
<1>2. active[r] \in DOMAIN stages[r]  BY <1>1 DEF FailStage, ActiveStageRuns
<1>3. /\ stages' \in [Run -> Seq(Stage)]
      /\ active' \in [Run -> Nat]
      /\ ActiveStageRuns'
  BY <1>1, <1>2, EndFacts DEF FailStage
<1>4. TypeOK'
  BY <1>1, <1>3 DEF TypeOK, FailStage, repairVars, lineageVars, leaseVars
<1>5. QED  BY <1>3, <1>4, StageStepKeepsIInv DEF FailStage, leaseVars

\* Going back to work without a lease takes one, and keeps the stages in order.
LEMMA BackToWorkFacts ==
  ASSUME IInv, NEW r \in Run, BackToWork(r), ~Leased(r)
  PROVE  /\ Acquire(r)
         /\ left' \in [Run -> 0 .. LeaseTtl]
         /\ lease' \in [Run -> { "NONE", "ACTIVE", "RELEASED", "STALE" }]
         /\ lease'[r] = "ACTIVE" /\ \A q \in Run \ { r } : lease'[q] = lease[q]
         /\ \E s \in { "VALIDATING", "RUNNING" } : status' = [status EXCEPT ![r] = s]
         /\ stages' \in [Run -> Seq(Stage)] /\ active' \in [Run -> Nat] /\ ActiveStageRuns'
<1> DEFINE validates == ~ResumesEngineering(r)
           opens == validates /\ active[r] = 0
<1>1. TypeOK /\ ActiveStageRuns  BY DEF IInv
<1>2. Acquire(r)  BY DEF BackToWork
<1>3. /\ left' \in [Run -> 0 .. LeaseTtl]
      /\ lease' \in [Run -> { "NONE", "ACTIVE", "RELEASED", "STALE" }]
      /\ lease'[r] = "ACTIVE" /\ \A q \in Run \ { r } : lease'[q] = lease[q]
  BY <1>1, <1>2, AcquireFacts
<1>4. \E s \in { "VALIDATING", "RUNNING" } : status' = [status EXCEPT ![r] = s]
  BY DEF BackToWork
<1>5. stages' \in [Run -> Seq(Stage)] /\ active' \in [Run -> Nat] /\ ActiveStageRuns'
  <2>1. CASE opens
    <3>1. /\ stages' = Opened(r, "VALIDATION")
          /\ active' = [active EXCEPT ![r] = Len(stages[r]) + 1]
      BY <2>1 DEF BackToWork
    <3>2. "VALIDATION" \in StageType  BY ConstantAssumption
    <3>3. QED  BY <1>1, <3>1, <3>2, OpenFacts
  <2>2. CASE ~opens
    <3>1. stages' = stages /\ active' = active  BY <2>2 DEF BackToWork, stageVars
    <3>2. QED  BY <1>1, <3>1 DEF TypeOK, ActiveStageRuns
  <2>3. QED  BY <2>1, <2>2
<1>6. QED  BY <1>2, <1>3, <1>4, <1>5

\* A run that goes back to work on a new lease, whatever it records besides.
LEMMA BackToWorkKeepsIInv ==
  ASSUME IInv, NEW r \in Run, BackToWork(r), ~Leased(r),
         UNCHANGED <<checkpoint, attempts, limit, revision, previews>>,
         linked' \in [Run -> BOOLEAN],
         plan' \in [Run -> Commit \cup { NoPlan }],
         evidence' \in [Run -> SUBSET Item]
  PROVE  IInv'
<1>1. TypeOK  BY DEF IInv
<1>2. PICK s \in { "VALIDATING", "RUNNING" } : status' = [status EXCEPT ![r] = s]
  BY BackToWorkFacts
<1>3. TypeOK'  BY <1>1, <1>2, BackToWorkFacts DEF TypeOK, Status
<1>4. LeaseHolder' /\ LaunchHoldsLease'
  BY <1>1, <1>2, BackToWorkFacts
  DEF IInv, TypeOK, LeaseHolder, LaunchHoldsLease, Leased, LeaseRequired
<1>5. QED  BY <1>3, <1>4, BackToWorkFacts DEF IInv

LEMMA ResumeKeepsIInv ==
  ASSUME IInv, NEW r \in Run, Resume(r) PROVE IInv'
<1>1. ~Leased(r)  BY DEF IInv, LeaseHolder, Resume, LeaseRequired
<1>2. UNCHANGED <<checkpoint, attempts, limit, linked, revision, plan, evidence, previews>>
  BY DEF Resume, repairVars, lineageVars
<1>3. BackToWork(r)  BY DEF Resume
<1>4. QED  BY <1>1, <1>2, <1>3, BackToWorkKeepsIInv DEF IInv, TypeOK

\* A stopped run that is recovered works on a new lease, or waits for one.
LEMMA RecoverAndResumeKeepsIInv ==
  ASSUME IInv, NEW r \in Run, RecoverAndResume(r), status[r] \in { "BLOCKED", "FAILED" },
         UNCHANGED <<checkpoint, attempts, limit, revision, previews>>,
         linked' \in [Run -> BOOLEAN],
         plan' \in [Run -> Commit \cup { NoPlan }],
         evidence' \in [Run -> SUBSET Item]
  PROVE  IInv'
<1>1. ~Leased(r)  BY DEF IInv, LeaseHolder, LeaseRequired
<1>2. CASE BackToWork(r)  BY <1>1, <1>2, BackToWorkKeepsIInv
<1>3. CASE /\ status' = [status EXCEPT ![r] = "RECOVERING"]
           /\ UNCHANGED <<stageVars, leaseVars>>
  <2>1. UNCHANGED <<stages, active, lease, left>>  BY <1>3 DEF stageVars, leaseVars
  <2>2. TypeOK'  BY <1>3, <2>1 DEF IInv, TypeOK, Status
  <2>3. LeaseHolder' /\ LaunchHoldsLease'
    BY <1>1, <1>3, <2>1 DEF IInv, TypeOK, LeaseHolder, LaunchHoldsLease, Leased
  <2>4. ActiveStageRuns'  BY <2>1 DEF IInv, ActiveStageRuns
  <2>5. QED  BY <2>2, <2>3, <2>4 DEF IInv
<1>4. QED  BY <1>2, <1>3 DEF RecoverAndResume

LEMMA RecoverBlockedKeepsIInv ==
  ASSUME IInv, NEW r \in Run, RecoverBlockedValidation(r) PROVE IInv'
<1>1. UNCHANGED <<checkpoint, attempts, limit, linked, revision, plan, evidence, previews>>
  BY DEF RecoverBlockedValidation, repairVars, lineageVars
<1>2. RecoverAndResume(r) /\ status[r] = "BLOCKED"  BY DEF RecoverBlockedValidation
<1>3. QED  BY <1>1, <1>2, RecoverAndResumeKeepsIInv DEF IInv, TypeOK

LEMMA RecoverImplementationKeepsIInv ==
  ASSUME IInv, NEW r \in Run, NEW D \in SUBSET Dimension, RecoverFailedImplementation(r, D)
  PROVE  IInv'
<1>1. TypeOK  BY DEF IInv
<1>2. evidence[r] \cup [commit : { revision[r] }, dimension : D] \in SUBSET Item
  BY <1>1 DEF TypeOK, Item
<1>3. /\ linked' \in [Run -> BOOLEAN]
      /\ plan' \in [Run -> Commit \cup { NoPlan }]
      /\ evidence' \in [Run -> SUBSET Item]
  BY <1>1, <1>2 DEF TypeOK, RecoverFailedImplementation
<1>4. UNCHANGED <<checkpoint, attempts, limit, revision, previews>>
  BY DEF RecoverFailedImplementation, repairVars
<1>5. RecoverAndResume(r) /\ status[r] = "FAILED"  BY DEF RecoverFailedImplementation
<1>6. QED  BY <1>3, <1>4, <1>5, RecoverAndResumeKeepsIInv

LEMMA SweepKeepsIInv == ASSUME IInv, RecoverStaleRuns PROVE IInv'
<1>1. TypeOK /\ ActiveStageRuns /\ LeaseHolder /\ LaunchHoldsLease  BY DEF IInv
<1>2. \A r \in Run : Expired(r) => r \in Swept
  BY <1>1 DEF LeaseHolder, Expired, Swept, LeaseRequired, ActiveStatus
<1>3. stages' \in [Run -> Seq(Stage)]
  <2>1. SUFFICES ASSUME NEW r \in Run, r \in Swept, StageOpen(r)
                 PROVE  [stages[r] EXCEPT ![active[r]].status = "FAILED"] \in Seq(Stage)
    BY <1>1 DEF RecoverStaleRuns, TypeOK
  <2>2. active[r] \in DOMAIN stages[r]  BY <1>1, <2>1 DEF ActiveStageRuns, StageOpen
  <2>3. stages[r] \in Seq(Stage)  BY <1>1 DEF TypeOK
  <2>4. \A t : t = [stages[r] EXCEPT ![active[r]].status = "FAILED"] => t \in Seq(Stage)
    BY <2>2, <2>3, EndStage
  <2>5. QED  BY <2>4
<1>4. active' \in [Run -> Nat]  BY <1>1 DEF RecoverStaleRuns, TypeOK
<1>5. checkpoint' \in [Run -> StageType \cup { "RUN_START", "NONE" }]
  <2>1. \A r \in Run : active[r] # 0 => stages[r][active[r]].type \in StageType
    <3>1. SUFFICES ASSUME NEW r \in Run, active[r] # 0
                   PROVE  stages[r][active[r]].type \in StageType
      OBVIOUS
    <3>2. stages[r] \in Seq(Stage) /\ active[r] \in DOMAIN stages[r]
      BY <1>1, <3>1 DEF TypeOK, ActiveStageRuns
    <3>3. stages[r][active[r]] \in Stage  BY <3>2
    <3>4. QED  BY <3>3 DEF Stage
  <2>2. QED  BY <1>1, <2>1 DEF RecoverStaleRuns, TypeOK
<1>6. lease' \in [Run -> { "NONE", "ACTIVE", "RELEASED", "STALE" }]
  BY <1>1 DEF RecoverStaleRuns, TypeOK
<1>7. status' \in [Run -> Status \cup { "NONE" }]
  BY <1>1 DEF RecoverStaleRuns, TypeOK, Status
<1>8. TypeOK'
  BY <1>1, <1>3, <1>4, <1>5, <1>6, <1>7
  DEF TypeOK, RecoverStaleRuns, repairVars, lineageVars
<1>9. \A r \in Run : lease'[r] = (IF Expired(r) THEN "STALE" ELSE lease[r])
                     /\ status'[r] = (IF r \in Swept THEN "RECOVERING" ELSE status[r])
  BY DEF RecoverStaleRuns
<1>10. LeaseHolder' /\ LaunchHoldsLease'
  BY <1>1, <1>2, <1>9 DEF LeaseHolder, LaunchHoldsLease, Leased, Swept
<1>11. ActiveStageRuns'
  BY <1>1 DEF RecoverStaleRuns, ActiveStageRuns, StageOpen
<1>12. QED  BY <1>8, <1>10, <1>11 DEF IInv

LEMMA RecoverFailedKeepsIInv ==
  ASSUME IInv, NEW r \in Run, RecoverFailedExecution(r) PROVE IInv'
<1>1. TypeOK  BY DEF IInv
<1>2. CommitTransition(r, "RECOVERING") /\ status[r] = "FAILED"
  BY DEF RecoverFailedExecution
<1>3. /\ status' = [status EXCEPT ![r] = "RECOVERING"]
      /\ left' \in [Run -> 0 .. LeaseTtl]
      /\ lease' \in [Run -> { "NONE", "ACTIVE", "RELEASED", "STALE" }]
      /\ lease'[r] = lease[r] /\ \A q \in Run \ { r } : lease'[q] = lease[q]
  BY <1>1, <1>2, CommitFacts DEF Status, Terminal
<1>4. "EXECUTION" \in StageType
  <2>1. PICK i \in DOMAIN stages[r] :
          stages[r][i] = [type |-> "EXECUTION", status |-> "FAILED"]
    BY DEF RecoverFailedExecution
  <2>2. stages[r] \in Seq(Stage)  BY <1>1 DEF TypeOK
  <2>3. [type |-> "EXECUTION", status |-> "FAILED"] \in Stage  BY <2>1, <2>2
  <2>4. QED  BY <2>3 DEF Stage
<1>5. TypeOK'
  BY <1>1, <1>3, <1>4
  DEF TypeOK, RecoverFailedExecution, Status, repairVars, lineageVars
<1>6. LeaseHolder' /\ LaunchHoldsLease'
  BY <1>1, <1>2, <1>3
  DEF IInv, TypeOK, LeaseHolder, LaunchHoldsLease, Leased, LeaseRequired
<1>7. ActiveStageRuns'
  BY <1>1 DEF IInv, TypeOK, ActiveStageRuns, RecoverFailedExecution
<1>8. QED  BY <1>5, <1>6, <1>7 DEF IInv

LEMMA HeartbeatKeepsIInv ==
  ASSUME IInv, NEW r \in Run, Heartbeat(r) PROVE IInv'
<1>1. TypeOK  BY DEF IInv
<1>2. left' \in [Run -> 0 .. LeaseTtl] /\ lease' = lease
  BY <1>1, RenewFacts DEF Heartbeat
<1>3. TypeOK'
  BY <1>1, <1>2 DEF TypeOK, Heartbeat, stageVars, repairVars, lineageVars
<1>4. QED  BY <1>2, <1>3, QuietKeepsIInv DEF Heartbeat, stageVars

\* The methods of LineageNext leave the lifecycle alone.
LEMMA LineageFacts ==
  ASSUME TypeOK, LineageNext
  PROVE  /\ TypeOK'
         /\ UNCHANGED <<status, stages, active, lease>>
<1> USE DEF stageVars, repairVars, leaseVars
<1> SUFFICES ASSUME NEW r \in Run,
                    \/ \E c \in Commit : UpdateRepositoryPosition(r, c)
                    \/ \E c \in Commit : RebindRepositoryAfterRemediation(r, c)
                    \/ \E c \in Commit : RegisterBoundedRemediation(r, c)
                    \/ NormalizeFunctionalAcceptanceLineage(r)
                    \/ RecordValidation(r)
                    \/ RecordRepairAttempt(r)
                    \/ \E c \in Commit, D \in (SUBSET Dimension) \ { {} } :
                         RecordAcceptanceEvidence(r, c, D)
                    \/ RecordFunctionalAcceptancePlan(r)
                    \/ RecordPreview(r)
             PROVE  TypeOK' /\ UNCHANGED <<status, stages, active, lease>>
  BY DEF LineageNext
<1>1. ASSUME NEW c \in Commit, UpdateRepositoryPosition(r, c)
      PROVE  TypeOK' /\ UNCHANGED <<status, stages, active, lease>>
  <2>1. left' \in [Run -> 0 .. LeaseTtl] /\ lease' = lease
    BY <1>1, RenewFacts DEF UpdateRepositoryPosition
  <2>2. QED  BY <1>1, <2>1 DEF TypeOK, UpdateRepositoryPosition
<1>2. ASSUME NEW c \in Commit, Rebind(r, c)
      PROVE  /\ left' \in [Run -> 0 .. LeaseTtl] /\ lease' = lease
             /\ revision' \in [Run -> Commit] /\ plan' \in [Run -> Commit \cup { NoPlan }]
             /\ evidence' \in [Run -> SUBSET Item] /\ previews' \in [Run -> BOOLEAN]
  <2>1. left' \in [Run -> 0 .. LeaseTtl] /\ lease' = lease
    BY <1>2, RenewFacts DEF Rebind
  <2>2. QED  BY <1>2, <2>1 DEF TypeOK, Rebind
<1>3. ASSUME NEW c \in Commit, RebindRepositoryAfterRemediation(r, c)
      PROVE  TypeOK' /\ UNCHANGED <<status, stages, active, lease>>
  BY <1>2, <1>3 DEF TypeOK, RebindRepositoryAfterRemediation
<1>4. ASSUME NEW c \in Commit, RegisterBoundedRemediation(r, c)
      PROVE  TypeOK' /\ UNCHANGED <<status, stages, active, lease>>
  <2>1. linked' \in [Run -> BOOLEAN] /\ UNCHANGED <<status, stages, active, checkpoint, attempts, limit>>
    BY <1>4 DEF TypeOK, RegisterBoundedRemediation
  <2>2. CASE plan[r] = NoPlan
    <3>1. Renew(r) /\ UNCHANGED <<revision, plan, evidence, previews>>
      BY <1>4, <2>2 DEF RegisterBoundedRemediation
    <3>2. left' \in [Run -> 0 .. LeaseTtl] /\ lease' = lease
      BY <3>1, RenewFacts
    <3>3. QED  BY <2>1, <3>1, <3>2 DEF TypeOK
  <2>3. CASE plan[r] # NoPlan
    <3>1. Rebind(r, c)  BY <1>4, <2>3 DEF RegisterBoundedRemediation
    <3>2. QED  BY <1>2, <2>1, <3>1 DEF TypeOK
  <2>4. QED  BY <2>2, <2>3
<1>5. CASE NormalizeFunctionalAcceptanceLineage(r)
  BY <1>5 DEF TypeOK, NormalizeFunctionalAcceptanceLineage
<1>6. CASE RecordValidation(r)
  <2>1. left' \in [Run -> 0 .. LeaseTtl] /\ lease' = lease
    BY <1>6, RenewFacts DEF RecordValidation
  <2>2. QED  BY <1>6, <2>1 DEF TypeOK, RecordValidation
<1>7. ASSUME NEW c \in Commit, NEW D \in SUBSET Dimension, RecordAcceptanceEvidence(r, c, D)
      PROVE  TypeOK' /\ UNCHANGED <<status, stages, active, lease>>
  <2>1. left' \in [Run -> 0 .. LeaseTtl] /\ lease' = lease
    BY <1>7, RenewFacts DEF RecordAcceptanceEvidence
  <2>2. evidence[r] \cup [commit : { c }, dimension : D] \in SUBSET Item
    BY DEF TypeOK, Item
  <2>3. evidence' \in [Run -> SUBSET Item]
    BY <1>7, <2>2 DEF TypeOK, RecordAcceptanceEvidence
  <2>4. QED  BY <1>7, <2>1, <2>3 DEF TypeOK, RecordAcceptanceEvidence
<1>8. CASE RecordFunctionalAcceptancePlan(r)
  <2>1. left' \in [Run -> 0 .. LeaseTtl] /\ lease' = lease
    BY <1>8, RenewFacts DEF RecordFunctionalAcceptancePlan
  <2>2. QED  BY <1>8, <2>1 DEF TypeOK, RecordFunctionalAcceptancePlan
<1>9. CASE RecordPreview(r)
  BY <1>9 DEF TypeOK, RecordPreview
<1>10. CASE RecordRepairAttempt(r)
  <2>1. left' \in [Run -> 0 .. LeaseTtl] /\ lease' = lease
    BY <1>10, RenewFacts DEF RecordRepairAttempt
  <2>2. attempts' \in [Run -> Nat]  BY <1>10 DEF TypeOK, RecordRepairAttempt
  <2>3. UNCHANGED <<status, stages, active, checkpoint, limit, linked, revision, plan,
                    evidence, previews>>
    BY <1>10 DEF RecordRepairAttempt, lineageVars
  <2>4. QED  BY <2>1, <2>2, <2>3 DEF TypeOK
<1>11. QED  BY <1>1, <1>3, <1>4, <1>5, <1>6, <1>7, <1>8, <1>9, <1>10

\* The caller's transitions, and the methods that are one commitTransition.
LEMMA CommitMethodsKeepIInv ==
  ASSUME IInv, NEW r \in Run,
         \/ \E s \in CallerTargets : Transition(r, s)
         \/ AcceptFunctionalApplication(r)
         \/ CertifyFunctionalApplication(r)
         \/ Pause(r)
         \/ Cancel(r)
  PROVE  IInv'
<1>1. ASSUME NEW s \in CallerTargets, Transition(r, s) PROVE IInv'
  <2>1. CommitTransition(r, s) /\ status[r] \in Status
    BY <1>1 DEF Transition, Begun, IInv, TypeOK
  <2>2. /\ s \in Status
        /\ s \in { "QUEUED", "STARTING" } => status[r] \in { "AUTHORIZED", "QUEUED", "STARTING" }
    BY <2>1, CallerTransition DEF CommitTransition
  <2>3. QED  BY <1>1, <2>1, <2>2, CommitKeepsIInv DEF Transition
<1>2. CASE AcceptFunctionalApplication(r)
  BY <1>2, CommitKeepsIInv DEF AcceptFunctionalApplication, Status, CallerTargets
<1>3. CASE CertifyFunctionalApplication(r)
  BY <1>3, CommitKeepsIInv DEF CertifyFunctionalApplication, Status, CallerTargets
<1>4. CASE Pause(r)
  BY <1>4, CommitKeepsIInv DEF Pause, Status, CallerTargets
<1>5. CASE Cancel(r)
  BY <1>5, CommitKeepsIInv DEF Cancel, Status, CallerTargets
<1>6. QED  BY <1>1, <1>2, <1>3, <1>4, <1>5

THEOREM NextKeepsIInv == IInv /\ [Next]_vars => IInv'
<1> SUFFICES ASSUME IInv, [Next]_vars PROVE IInv'  OBVIOUS
<1>1. CASE Tick  BY <1>1, TickKeepsIInv
<1>2. CASE RecoverStaleRuns  BY <1>2, SweepKeepsIInv
<1>3. ASSUME NEW r \in Run,
             \/ Begin(r)
             \/ \E s \in CallerTargets : Transition(r, s)
             \/ AcceptFunctionalApplication(r)
             \/ CertifyFunctionalApplication(r)
             \/ Pause(r)
             \/ Cancel(r)
             \/ Heartbeat(r)
             \/ \E type \in StageType : StartStage(r, type)
             \/ \E i \in DOMAIN stages[r] : CompleteStage(r, i)
             \/ FailStage(r)
             \/ Resume(r)
             \/ RecoverFailedExecution(r)
             \/ RecoverBlockedValidation(r)
             \/ \E D \in (SUBSET Dimension) \ { {} } : RecoverFailedImplementation(r, D)
      PROVE  IInv'
  BY <1>3, BeginKeepsIInv, CommitMethodsKeepIInv, HeartbeatKeepsIInv, StartStageKeepsIInv,
     CompleteStageKeepsIInv, FailStageKeepsIInv, ResumeKeepsIInv, RecoverFailedKeepsIInv,
     RecoverBlockedKeepsIInv, RecoverImplementationKeepsIInv
<1>4. CASE LineageNext  BY <1>4, LineageFacts, QuietKeepsIInv DEF IInv
<1>5. CASE UNCHANGED vars
  BY <1>5 DEF IInv, TypeOK, LeaseHolder, LaunchHoldsLease, ActiveStageRuns, Leased, vars,
     stageVars, repairVars, lineageVars, leaseVars
<1>6. QED  BY <1>1, <1>2, <1>3, <1>4, <1>5 DEF Next, LifecycleNext

\* The inductive invariant holds in every state of every behaviour.
THEOREM IInvHolds == Spec => []IInv
  BY InitIInv, NextKeepsIInv, PTL DEF Spec

\* Every variable keeps its type, for every instance of the service.
THEOREM TypeCorrect == Spec => []TypeOK
<1>1. IInv => TypeOK  BY DEF IInv
<1>2. QED  BY <1>1, IInvHolds, PTL

\* A lease is ACTIVE only in the executing statuses, for every instance.
THEOREM LeasesFollowExecution == Spec => []LeaseHolder
<1>1. IInv => LeaseHolder  BY DEF IInv
<1>2. QED  BY <1>1, IInvHolds, PTL

\* A run that is being launched holds its lease.
THEOREM LaunchIsLeased == Spec => []LaunchHoldsLease
<1>1. IInv => LaunchHoldsLease  BY DEF IInv
<1>2. QED  BY <1>1, IInvHolds, PTL

\* activeStageId never points at a stage that has ended.
THEOREM ActiveStageIsRunning == Spec => []ActiveStageRuns
<1>1. IInv => ActiveStageRuns  BY DEF IInv
<1>2. QED  BY <1>1, IInvHolds, PTL

\* When begin finds no active run on the repository, acquireLease finds no healthy
\* lease there either: begin, which saves the run first, never fails halfway.
THEOREM BeginAlwaysLeases ==
  Spec => [](\A r \in Run : NoActivePeer(r) => NoHealthyPeer(r))
<1>1. IInv => \A r \in Run : NoActivePeer(r) => NoHealthyPeer(r)
  BY DEF IInv, LeaseHolder, NoActivePeer, NoHealthyPeer, Healthy, Peers,
     LeaseRequired, ActiveStatus
<1>2. QED  BY <1>1, IInvHolds, PTL

-----------------------------------------------------------------------------
(* Stage history *)

StageKept(r, i) == i \in DOMAIN stages'[r] /\ stages'[r][i] = stages[r][i]

\* Opening a stage keeps the earlier ones.
LEMMA OpenKeeps ==
  ASSUME TypeOK, NEW q \in Run, NEW type \in StageType, stages' = Opened(q, type),
         NEW r \in Run, NEW i \in DOMAIN stages[r]
  PROVE  StageKept(r, i)
<1> DEFINE t == Append(stages[q], [type |-> type, status |-> "RUNNING"])
<1>1. stages' = [stages EXCEPT ![q] = t]  BY DEF Opened
<1>2. stages[q] \in Seq(Stage)  BY DEF TypeOK
<1>3. \A j \in DOMAIN stages[q] : j \in DOMAIN t /\ t[j] = stages[q][j]
  BY <1>2, StageOpening
<1> HIDE DEF t
<1>4. stages'[r] = IF r = q THEN t ELSE stages[r]  BY <1>1 DEF TypeOK
<1>5. QED  BY <1>3, <1>4 DEF StageKept

\* Ending a stage keeps the others, and itself when it already had that status.
LEMMA EndKeeps ==
  ASSUME TypeOK, NEW q \in Run, NEW k \in DOMAIN stages[q], NEW x \in { "COMPLETED", "FAILED" },
         stages' = [stages EXCEPT ![q][k].status = x],
         NEW r \in Run, NEW i \in DOMAIN stages[r],
         (r = q /\ i = k) => stages[r][i].status = x
  PROVE  StageKept(r, i)
<1> DEFINE t == [stages[q] EXCEPT ![k].status = x]
<1>1. stages[q] \in Seq(Stage)  BY DEF TypeOK
<1>2. stages' = [stages EXCEPT ![q] = t] /\ t = [stages[q] EXCEPT ![k].status = x]
  OBVIOUS
<1> HIDE DEF t
<1>3. /\ t \in Seq(Stage) /\ DOMAIN t = DOMAIN stages[q]
      /\ t[k].status = x /\ t[k].type = stages[q][k].type
      /\ \A j \in DOMAIN stages[q] : j # k => t[j] = stages[q][j]
  BY <1>1, <1>2, EndStage
<1>4. stages'[r] = IF r = q THEN t ELSE stages[r]  BY <1>2 DEF TypeOK
<1>5. CASE r = q /\ i = k
  <2>1. t[k] \in Stage /\ stages[q][k] \in Stage  BY <1>1, <1>3
  <2>2. t[k] = stages[q][k]  BY <1>3, <1>5, <2>1 DEF Stage
  <2>3. QED  BY <1>3, <1>4, <1>5, <2>2 DEF StageKept
<1>6. CASE ~(r = q /\ i = k)  BY <1>3, <1>4, <1>6 DEF StageKept
<1>7. QED  BY <1>5, <1>6

\* No step of the service changes a completed stage.
LEMMA CompletedKept ==
  ASSUME IInv, [Next]_vars, NEW r \in Run, NEW i \in DOMAIN stages[r],
         stages[r][i].status = "COMPLETED"
  PROVE  StageKept(r, i)
<1>1. TypeOK /\ ActiveStageRuns  BY DEF IInv
<1>2. CASE stages' = stages  BY <1>2 DEF StageKept
<1>3. CASE RecoverStaleRuns
  <2>1. stages'[r] = IF r \in Swept /\ StageOpen(r)
                     THEN [stages[r] EXCEPT ![active[r]].status = "FAILED"] ELSE stages[r]
    BY <1>3 DEF RecoverStaleRuns
  <2>2. CASE r \in Swept /\ StageOpen(r)
    <3>1. active[r] \in DOMAIN stages[r] /\ active[r] # i
      BY <1>1, <2>2 DEF StageOpen, ActiveStageRuns
    <3>2. QED  BY <2>1, <2>2, <3>1 DEF StageKept
  <2>3. QED  BY <2>1, <2>2 DEF StageKept
<1>4. ASSUME NEW q \in Run, NEW type \in StageType, StartStage(q, type) PROVE StageKept(r, i)
  BY <1>1, <1>4, OpenKeeps DEF StartStage
<1>5. ASSUME NEW q \in Run, NEW k \in DOMAIN stages[q], CompleteStage(q, k)
      PROVE  StageKept(r, i)
  BY <1>1, <1>5, EndKeeps DEF CompleteStage
<1>6. ASSUME NEW q \in Run, FailStage(q) PROVE StageKept(r, i)
  <2>1. active[q] \in DOMAIN stages[q] /\ stages[q][active[q]].status = "RUNNING"
    BY <1>1, <1>6 DEF FailStage, ActiveStageRuns
  <2>2. stages' = [stages EXCEPT ![q][active[q]].status = "FAILED"]
    BY <1>6 DEF FailStage
  <2>3. (r = q /\ i = active[q]) => stages[r][i].status = "FAILED"
    BY <2>1
  <2>4. QED  BY <1>1, <2>1, <2>2, <2>3, EndKeeps
<1>7. ASSUME NEW q \in Run,
             \/ Resume(q) \/ RecoverBlockedValidation(q)
             \/ \E D \in (SUBSET Dimension) \ { {} } : RecoverFailedImplementation(q, D)
      PROVE  StageKept(r, i)
  <2>1. stages' = stages \/ stages' = Opened(q, "VALIDATION")
    BY <1>7 DEF Resume, RecoverBlockedValidation, RecoverFailedImplementation,
       RecoverAndResume, BackToWork, stageVars
  <2>2. "VALIDATION" \in StageType  BY ConstantAssumption
  <2>3. QED  BY <1>1, <1>2, <2>1, <2>2, OpenKeeps
<1>8. ASSUME NEW q \in Run,
             \/ Begin(q)
             \/ \E s \in CallerTargets : Transition(q, s)
             \/ AcceptFunctionalApplication(q)
             \/ CertifyFunctionalApplication(q)
             \/ Pause(q)
             \/ Cancel(q)
             \/ Heartbeat(q)
             \/ RecoverFailedExecution(q)
      PROVE  stages' = stages
  BY <1>8 DEF Begin, Transition, AcceptFunctionalApplication, CertifyFunctionalApplication,
     Pause, Cancel, Heartbeat, RecoverFailedExecution, stageVars
<1>9. CASE Tick  BY <1>2, <1>9 DEF Tick, stageVars
<1>10. CASE LineageNext  BY <1>1, <1>2, <1>10, LineageFacts
<1>11. CASE UNCHANGED vars  BY <1>2, <1>11 DEF vars, stageVars
<1>12. QED
  BY <1>2, <1>3, <1>4, <1>5, <1>6, <1>7, <1>8, <1>9, <1>10, <1>11 DEF Next, LifecycleNext

\* A completed stage stays completed, in every behaviour.
THEOREM CompletedStagesAreFinal == Spec => CompletedStagesStay
<1>1. IInv /\ [Next]_vars =>
        [\A r \in Run : \A i \in DOMAIN stages[r] :
           stages[r][i].status = "COMPLETED" =>
             i \in DOMAIN stages'[r] /\ stages'[r][i] = stages[r][i]]_vars
  BY CompletedKept DEF StageKept
<1>2. QED  BY <1>1, IInvHolds, PTL DEF Spec, CompletedStagesStay

-----------------------------------------------------------------------------
(* Functional runs *)

\* Only the functional methods bring a functional run into approval or
\* certification, and only a transition completes it.
LEMMA FunctionalEntry ==
  ASSUME IInv, [Next]_vars, NEW r \in Functional,
         status'[r] \in Accepted, status'[r] # status[r]
  PROVE  \/ AcceptFunctionalApplication(r) /\ status'[r] = "AWAITING_APPROVAL"
         \/ CertifyFunctionalApplication(r) /\ status'[r] = "CERTIFIED"
         \/ Transition(r, "COMPLETED") /\ status'[r] = "COMPLETED"
<1>1. r \in Run  BY ConstantAssumption
<1>2. status \in [Run -> Status \cup { "NONE" }]  BY DEF IInv, TypeOK
<1>3. ASSUME NEW q \in Run, NEW s,
             status' = [status EXCEPT ![q] = s],
             s \notin Accepted
      PROVE  FALSE
  BY <1>1, <1>2, <1>3
<1>4. ASSUME NEW q \in Run, NEW s \in CallerTargets, Transition(q, s)
      PROVE  Transition(r, "COMPLETED") /\ status'[r] = "COMPLETED"
  <2>1. status' = [status EXCEPT ![q] = s]  BY <1>4 DEF Transition, CommitTransition
  <2>2. q = r /\ s \in Accepted  BY <1>1, <1>2, <2>1
  <2>3. s = "COMPLETED"  BY <1>4, <2>2 DEF Transition, Accepted
  <2>4. QED  BY <1>1, <1>2, <1>4, <2>1, <2>2, <2>3
<1>5. ASSUME NEW q \in Run, AcceptFunctionalApplication(q)
      PROVE  q = r /\ status'[r] = "AWAITING_APPROVAL"
  BY <1>1, <1>2, <1>5 DEF AcceptFunctionalApplication, CommitTransition
<1>6. ASSUME NEW q \in Run, CertifyFunctionalApplication(q)
      PROVE  q = r /\ status'[r] = "CERTIFIED"
  BY <1>1, <1>2, <1>6 DEF CertifyFunctionalApplication, CommitTransition
<1>7. ASSUME NEW q \in Run,
             \/ Begin(q) \/ Pause(q) \/ Cancel(q) \/ Resume(q)
             \/ RecoverFailedExecution(q) \/ RecoverBlockedValidation(q)
             \/ \E D \in (SUBSET Dimension) \ { {} } : RecoverFailedImplementation(q, D)
      PROVE  FALSE
  <2>1. PICK s : /\ status' = [status EXCEPT ![q] = s]
                 /\ s \in { "AUTHORIZED", "PAUSED", "CANCELLED", "VALIDATING", "RUNNING",
                            "RECOVERING" }
    BY <1>7 DEF Begin, Pause, Cancel, Resume, RecoverFailedExecution, CommitTransition,
       RecoverBlockedValidation, RecoverFailedImplementation, RecoverAndResume, BackToWork
  <2>2. s \notin Accepted  BY <2>1 DEF Accepted
  <2>3. QED  BY <1>3, <2>1, <2>2
<1>8. CASE RecoverStaleRuns  BY <1>1, <1>8 DEF RecoverStaleRuns, Accepted
<1>9. CASE status' = status  BY <1>9
<1>10. ASSUME NEW q \in Run,
              \/ Heartbeat(q)
              \/ \E type \in StageType : StartStage(q, type)
              \/ \E i \in DOMAIN stages[q] : CompleteStage(q, i)
              \/ FailStage(q)
       PROVE  status' = status
  BY <1>10 DEF Heartbeat, StartStage, CompleteStage, FailStage
<1>11. CASE Tick  BY <1>9, <1>11 DEF Tick
<1>12. CASE LineageNext  BY <1>9, <1>12, LineageFacts DEF IInv
<1>13. CASE UNCHANGED vars  BY <1>9, <1>13 DEF vars
<1>14. QED
  BY <1>4, <1>5, <1>6, <1>7, <1>8, <1>9, <1>10, <1>11, <1>12, <1>13 DEF Next, LifecycleNext

\* Completed stage types never disappear.
LEMMA CompletedTypesGrow ==
  ASSUME IInv, [Next]_vars, NEW r \in Run
  PROVE  CompletedTypes(r) \subseteq CompletedTypes(r)'
<1>1. SUFFICES ASSUME NEW i \in DOMAIN stages[r], stages[r][i].status = "COMPLETED"
               PROVE  stages[r][i].type \in CompletedTypes(r)'
  BY DEF CompletedTypes
<1>2. StageKept(r, i)  BY <1>1, CompletedKept
<1>3. QED  BY <1>1, <1>2 DEF StageKept, CompletedTypes

\* A functional run in approval or certified has all the kernel's stages behind it.
THEOREM FunctionalRunsAreVerified == Spec => []FunctionalStagesComplete
<1>1. Init => FunctionalStagesComplete
  BY ConstantAssumption DEF Init, FunctionalStagesComplete
<1>2. IInv /\ FunctionalStagesComplete /\ [Next]_vars => FunctionalStagesComplete'
  <2>1. SUFFICES ASSUME IInv, FunctionalStagesComplete, [Next]_vars, NEW r \in Functional,
                        status'[r] \in { "AWAITING_APPROVAL", "CERTIFIED" }
                 PROVE  AcceptanceStages \subseteq CompletedTypes(r)'
    BY DEF FunctionalStagesComplete
  <2>2. CompletedTypes(r) \subseteq CompletedTypes(r)'
    BY <2>1, CompletedTypesGrow, ConstantAssumption
  <2>3. AcceptanceStages \subseteq CompletedTypes(r)
    <3>1. CASE status'[r] = status[r]  BY <2>1, <3>1 DEF FunctionalStagesComplete
    <3>2. CASE status'[r] # status[r]
      <4>1. status'[r] \in Accepted  BY <2>1 DEF Accepted
      <4>2. QED
        BY <2>1, <3>2, <4>1, FunctionalEntry
        DEF AcceptFunctionalApplication, CertifyFunctionalApplication, FunctionalStagesComplete
    <3>3. QED  BY <3>1, <3>2
  <2>4. QED  BY <2>2, <2>3
<1>3. QED  BY <1>1, <1>2, IInvHolds, PTL DEF Spec

\* Evidence that passes the check of a functional run is the whole policy at the
\* commit the run is at, and nothing else.
LEMMA CertificationEvidenceIsExact ==
  ASSUME TypeOK, NEW r \in Functional, CertificationEvidence(r)
  PROVE  /\ evidence[r] = [commit : { revision[r] }, dimension : Dimension]
         /\ "PREVIEW" \in Dimension => previews[r]
<1>1. r \in Run  BY ConstantAssumption
<1>2. evidence[r] \subseteq Item  BY <1>1 DEF TypeOK
<1>3. ASSUME NEW item \in evidence[r]
      PROVE  item \in [commit : { revision[r] }, dimension : Dimension]
  BY <1>2, <1>3 DEF CertificationEvidence, Item
<1>4. ASSUME NEW item \in [commit : { revision[r] }, dimension : Dimension]
      PROVE  item \in evidence[r]
  <2>1. PICK found \in evidence[r] : found.dimension = item.dimension
    BY <1>4 DEF CertificationEvidence
  <2>2. found.commit = item.commit  BY <1>4 DEF CertificationEvidence
  <2>3. found = item  BY <1>2, <1>4, <2>1, <2>2 DEF Item
  <2>4. QED  BY <2>1, <2>3
<1>5. QED  BY <1>3, <1>4 DEF CertificationEvidence

\* Whatever brings a functional run to approval, completion or certification, its
\* evidence is the whole policy at the commit it is at.
THEOREM CertificationIsExact == Spec => CertifiedOnExactRevision
<1>1. ASSUME IInv, [Next]_vars, NEW r \in Functional,
             status'[r] \in Accepted, status'[r] # status[r]
      PROVE  /\ evidence'[r] = [commit : { revision'[r] }, dimension : Dimension]
             /\ "PREVIEW" \in Dimension => previews'[r]
             /\ status'[r] = "CERTIFIED" => status[r] = "AWAITING_APPROVAL"
  <2>1. \/ AcceptFunctionalApplication(r) /\ status'[r] = "AWAITING_APPROVAL"
        \/ CertifyFunctionalApplication(r) /\ status'[r] = "CERTIFIED"
        \/ Transition(r, "COMPLETED") /\ status'[r] = "COMPLETED"
    BY <1>1, FunctionalEntry
  <2>2. CertificationEvidence(r)
    BY <2>1
    DEF AcceptFunctionalApplication, CertifyFunctionalApplication, Transition, CommitTransition, Accepted
  <2>3. evidence' = evidence /\ revision' = revision /\ previews' = previews
    BY <2>1
    DEF AcceptFunctionalApplication, CertifyFunctionalApplication, Transition, lineageVars
  <2>4. status'[r] = "CERTIFIED" => status[r] = "AWAITING_APPROVAL"
    BY <2>1 DEF CertifyFunctionalApplication
  <2>5. QED  BY <1>1, <2>2, <2>3, <2>4, CertificationEvidenceIsExact DEF IInv
<1>2. IInv /\ [Next]_vars =>
        [\A r \in Functional :
           (status'[r] \in Accepted /\ status'[r] # status[r]) =>
             /\ evidence'[r] = [commit : { revision'[r] }, dimension : Dimension]
             /\ "PREVIEW" \in Dimension => previews'[r]
             /\ status'[r] = "CERTIFIED" => status[r] = "AWAITING_APPROVAL"]_vars
  BY <1>1
<1>3. QED  BY <1>2, IInvHolds, PTL DEF Spec, CertifiedOnExactRevision

-----------------------------------------------------------------------------
(* Statuses and the transition table *)

LEMMA StatusStep ==
  ASSUME IInv, [Next]_vars, NEW r \in Run
  PROVE  \/ status'[r] = status[r]
         \/ status[r] = "NONE" /\ status'[r] = "AUTHORIZED"
         \/ status[r] \in Status /\ MayTransition(status[r], status'[r])
         \/ /\ status[r] \in ActiveStatus /\ status'[r] = "RECOVERING"
            /\ Expired(r) /\ lease'[r] = "STALE"
         \/ /\ status[r] \in { "BLOCKED", "FAILED" } /\ status'[r] \in { "RUNNING", "VALIDATING" }
            /\ ~Leased(r) /\ Leased(r)'
            /\ linked'[r] /\ (status[r] = "BLOCKED" => RepairsLeft(r) >= 1)
<1> DEFINE Goal == \/ status'[r] = status[r]
                   \/ status[r] = "NONE" /\ status'[r] = "AUTHORIZED"
                   \/ status[r] \in Status /\ MayTransition(status[r], status'[r])
                   \/ /\ status[r] \in ActiveStatus /\ status'[r] = "RECOVERING"
                      /\ Expired(r) /\ lease'[r] = "STALE"
                   \/ /\ status[r] \in { "BLOCKED", "FAILED" }
                      /\ status'[r] \in { "RUNNING", "VALIDATING" }
                      /\ ~Leased(r) /\ Leased(r)'
                      /\ linked'[r] /\ (status[r] = "BLOCKED" => RepairsLeft(r) >= 1)
<1>1. status \in [Run -> Status \cup { "NONE" }]  BY DEF IInv, TypeOK
<1>2. ASSUME NEW q \in Run, NEW s, CommitTransition(q, s), status[q] # "NONE" PROVE Goal
  BY <1>1, <1>2 DEF CommitTransition
<1>3. ASSUME NEW q \in Run, Begin(q) PROVE Goal
  BY <1>1, <1>3 DEF Begin
<1>4. ASSUME NEW q \in Run, Resume(q) PROVE Goal
  <2>1. PICK s \in { "VALIDATING", "RUNNING" } : status' = [status EXCEPT ![q] = s]
    BY <1>4 DEF Resume, BackToWork
  <2>2. status[q] \in { "PAUSED", "RECOVERING" }  BY <1>4 DEF Resume
  <2>3. MayTransition(status[q], s)  BY <2>1, <2>2 DEF MayTransition, Successors
  <2>4. CASE q = r  BY <1>1, <2>1, <2>2, <2>3, <2>4
  <2>5. CASE q # r  BY <1>1, <2>1, <2>5
  <2>6. QED  BY <2>4, <2>5
<1>5. CASE RecoverStaleRuns  BY <1>5 DEF RecoverStaleRuns, Swept
<1>6. ASSUME NEW q \in Run,
             \/ \E s \in CallerTargets : Transition(q, s)
             \/ AcceptFunctionalApplication(q)
             \/ CertifyFunctionalApplication(q)
             \/ Pause(q)
             \/ Cancel(q)
             \/ RecoverFailedExecution(q)
      PROVE  \E s : CommitTransition(q, s) /\ status[q] # "NONE"
  BY <1>6 DEF Transition, AcceptFunctionalApplication, CertifyFunctionalApplication, Pause,
     Cancel, RecoverFailedExecution, Begun, Pausable
<1>7. ASSUME NEW q \in Run,
             \/ Heartbeat(q)
             \/ \E type \in StageType : StartStage(q, type)
             \/ \E i \in DOMAIN stages[q] : CompleteStage(q, i)
             \/ FailStage(q)
      PROVE  status' = status
  BY <1>7 DEF Heartbeat, StartStage, CompleteStage, FailStage
<1>8. CASE Tick  BY <1>8 DEF Tick
<1>9. CASE LineageNext  BY <1>9, LineageFacts DEF IInv
<1>10. CASE UNCHANGED vars  BY <1>10 DEF vars
<1>11. ASSUME NEW q \in Run,
              \/ RecoverBlockedValidation(q)
              \/ \E D \in (SUBSET Dimension) \ { {} } : RecoverFailedImplementation(q, D)
       PROVE  Goal
  <2>1. /\ RecoverAndResume(q) /\ status[q] \in { "BLOCKED", "FAILED" } /\ linked'[q]
        /\ status[q] = "BLOCKED" => RepairsLeft(q) >= 1
    BY <1>11 DEF RecoverBlockedValidation, RecoverFailedImplementation, lineageVars, IInv, TypeOK
  <2>2. ~Leased(q)  BY <2>1 DEF IInv, LeaseHolder, LeaseRequired
  <2>3. CASE BackToWork(q)
    <3>1. PICK s \in { "VALIDATING", "RUNNING" } : status' = [status EXCEPT ![q] = s]
      BY <2>2, <2>3, BackToWorkFacts
    <3>2. Leased(q)'  BY <2>2, <2>3, BackToWorkFacts DEF Leased
    <3>3. CASE q = r  BY <1>1, <2>1, <2>2, <3>1, <3>2, <3>3
    <3>4. CASE q # r  BY <1>1, <3>1, <3>4
    <3>5. QED  BY <3>3, <3>4
  <2>4. CASE status' = [status EXCEPT ![q] = "RECOVERING"]
    <3>1. MayTransition(status[q], "RECOVERING")  BY <2>1 DEF MayTransition, Successors
    <3>2. status[q] \in Status  BY <2>1 DEF Status
    <3>3. CASE q = r  BY <1>1, <2>4, <3>1, <3>2, <3>3
    <3>4. CASE q # r  BY <1>1, <2>4, <3>4
    <3>5. QED  BY <3>3, <3>4
  <2>5. QED  BY <2>1, <2>3, <2>4 DEF RecoverAndResume
<1>12. QED
  BY <1>2, <1>3, <1>4, <1>5, <1>6, <1>7, <1>8, <1>9, <1>10, <1>11 DEF Next, LifecycleNext

\* Settled runs stay settled, in every behaviour.
THEOREM SettledRunsStaySettled == Spec => SettledStaysSettled
<1>1. ASSUME IInv, [Next]_vars, NEW r \in Run
      PROVE  /\ status[r] \in { "CERTIFIED", "CANCELLED" } => status'[r] = status[r]
             /\ status[r] = "COMPLETED" => status'[r] \in { "COMPLETED", "CERTIFIED" }
  BY <1>1, StatusStep DEF MayTransition, Successors, ActiveStatus
<1>2. IInv /\ [Next]_vars =>
        [\A r \in Run :
           /\ status[r] \in { "CERTIFIED", "CANCELLED" } => status'[r] = status[r]
           /\ status[r] = "COMPLETED" => status'[r] \in { "COMPLETED", "CERTIFIED" }]_vars
  BY <1>1
<1>3. QED  BY <1>2, IInvHolds, PTL DEF Spec, SettledStaysSettled

\* Only a launch, the sweep of an expired lease or a validation recovery leaves
\* the transition table.
THEOREM TableIsRespected == Spec => OnlyRecoveryLeavesTheTable
<1>1. ASSUME IInv, [Next]_vars, NEW r \in Run PROVE TableOrRecovery(r)
  <2>1. "NONE" \notin Status  BY DEF Status
  <2>2. QED  BY <1>1, <2>1, StatusStep DEF TableOrRecovery, MayTransition, Begun
<1>2. IInv /\ [Next]_vars => [\A r \in Run : TableOrRecovery(r)]_vars  BY <1>1
<1>3. QED  BY <1>2, IInvHolds, PTL DEF Spec, OnlyRecoveryLeavesTheTable

-----------------------------------------------------------------------------
(* Leases *)

\* What a step does to leases.
LEMMA LeaseStep ==
  ASSUME [Next]_vars
  PROVE  \/ Tick \/ RecoverStaleRuns \/ UNCHANGED leaseVars
         \/ \E r \in Run : Acquire(r) \/ Renew(r) \/ \E s : ReleaseOn(r, s)
<1>1. ASSUME NEW q \in Run,
             \/ Begin(q)
             \/ \E s \in CallerTargets : Transition(q, s)
             \/ AcceptFunctionalApplication(q)
             \/ CertifyFunctionalApplication(q)
             \/ Pause(q)
             \/ Cancel(q)
             \/ Heartbeat(q)
             \/ RecoverFailedExecution(q)
      PROVE  Acquire(q) \/ Renew(q) \/ \E s : ReleaseOn(q, s)
  BY <1>1 DEF Begin, Transition, AcceptFunctionalApplication, CertifyFunctionalApplication,
     Pause, Cancel, Heartbeat, RecoverFailedExecution, CommitTransition
<1>2. ASSUME NEW q \in Run,
             \/ Resume(q) \/ RecoverBlockedValidation(q)
             \/ \E D \in (SUBSET Dimension) \ { {} } : RecoverFailedImplementation(q, D)
      PROVE  Acquire(q) \/ Renew(q) \/ UNCHANGED leaseVars
  BY <1>2 DEF Resume, RecoverBlockedValidation, RecoverFailedImplementation,
     RecoverAndResume, BackToWork
<1>3. ASSUME NEW q \in Run,
             \/ \E type \in StageType : StartStage(q, type)
             \/ \E i \in DOMAIN stages[q] : CompleteStage(q, i)
             \/ FailStage(q)
      PROVE  Renew(q) \/ UNCHANGED leaseVars
  BY <1>3 DEF StartStage, CompleteStage, FailStage
<1>4. ASSUME NEW q \in Run,
             \/ \E c \in Commit : UpdateRepositoryPosition(q, c)
             \/ \E c \in Commit : RebindRepositoryAfterRemediation(q, c)
             \/ \E c \in Commit : RegisterBoundedRemediation(q, c)
             \/ NormalizeFunctionalAcceptanceLineage(q)
             \/ RecordValidation(q)
             \/ RecordRepairAttempt(q)
             \/ \E c \in Commit, D \in (SUBSET Dimension) \ { {} } :
                  RecordAcceptanceEvidence(q, c, D)
             \/ RecordFunctionalAcceptancePlan(q)
             \/ RecordPreview(q)
      PROVE  Renew(q) \/ UNCHANGED leaseVars
  BY <1>4 DEF UpdateRepositoryPosition, RebindRepositoryAfterRemediation, Rebind,
     RegisterBoundedRemediation, NormalizeFunctionalAcceptanceLineage, RecordValidation, RecordRepairAttempt,
     RecordAcceptanceEvidence, RecordFunctionalAcceptancePlan, RecordPreview
<1>5. CASE UNCHANGED vars  BY <1>5 DEF vars
<1>6. QED  BY <1>1, <1>2, <1>3, <1>4, <1>5 DEF Next, LifecycleNext, LineageNext

\* A run becomes healthy by taking a lease no peer's healthy lease stands against,
\* or by renewing its own.
LEMMA BecomingHealthy ==
  ASSUME IInv, [Next]_vars, NEW r \in Run, Healthy(r)'
  PROVE  Healthy(r) \/ Expired(r) \/ Acquire(r)
<1>1. TypeOK  BY DEF IInv
<1>2. lease'[r] = "ACTIVE" /\ left'[r] > 0  BY DEF Healthy, Leased
<1>3. left[r] \in 0 .. LeaseTtl /\ LeaseTtl \in Nat  BY <1>1, ConstantAssumption DEF TypeOK
<1>4. Leased(r) => Healthy(r) \/ Expired(r)  BY <1>3 DEF Healthy, Expired
<1>5. CASE Tick \/ RecoverStaleRuns \/ UNCHANGED leaseVars
  <2>1. Leased(r)  BY <1>2, <1>5 DEF Tick, RecoverStaleRuns, Leased, leaseVars
  <2>2. QED  BY <1>4, <2>1
<1>6. ASSUME NEW q \in Run, Acquire(q) PROVE Leased(r) \/ Acquire(r)
  BY <1>1, <1>2, <1>6, AcquireFacts DEF Leased
<1>7. ASSUME NEW q \in Run, Renew(q) PROVE Leased(r)
  BY <1>2, <1>7 DEF Renew, Leased
<1>8. ASSUME NEW q \in Run, NEW s, ReleaseOn(q, s) PROVE Leased(r)
  BY <1>1, <1>2, <1>8 DEF ReleaseOn, Leased, leaseVars, TypeOK
<1>9. QED  BY <1>4, <1>5, <1>6, <1>7, <1>8, LeaseStep

\* Two healthy leases on one repository arise only from an expired one.
THEOREM RivalsNeedALateRenewal == Spec => RivalOnlyByLateRenewal
<1>1. ASSUME IInv, [Next]_vars, NEW r \in Run, NEW q \in Peers(r) \ { r },
             Healthy(r)', Healthy(q)'
      PROVE  (Healthy(r) /\ Healthy(q)) \/ Expired(r) \/ Expired(q)
  <2>1. q \in Run /\ r \in Peers(q) /\ r # q  BY <1>1 DEF Peers
  <2>2. Healthy(r) \/ Expired(r) \/ Acquire(r)  BY <1>1, BecomingHealthy
  <2>3. Healthy(q) \/ Expired(q) \/ Acquire(q)  BY <1>1, <2>1, BecomingHealthy
  <2>4. Acquire(r) => ~Healthy(q)  BY <1>1 DEF Acquire, NoHealthyPeer
  <2>5. Acquire(q) => ~Healthy(r)  BY <2>1 DEF Acquire, NoHealthyPeer
  <2>6. ~(Acquire(r) /\ Acquire(q) /\ ~Leased(r) /\ ~Leased(q))
    <3>1. SUFFICES ASSUME Acquire(r), Acquire(q), ~Leased(r), ~Leased(q) PROVE FALSE
      OBVIOUS
    <3>2. lease'[q] = lease[q]  BY <1>1, <2>1, <3>1, AcquireFacts DEF IInv
    <3>3. QED  BY <1>1, <3>1, <3>2 DEF Healthy, Leased
  <2>7. \A p \in Run : Leased(p) => Healthy(p) \/ Expired(p)
    BY <1>1, ConstantAssumption DEF IInv, TypeOK, Healthy, Expired
  <2>8. QED  BY <1>1, <2>1, <2>2, <2>3, <2>4, <2>5, <2>6, <2>7
<1>2. IInv /\ [Next]_vars =>
        [\A r \in Run : \A q \in Peers(r) \ { r } :
           (Healthy(r)' /\ Healthy(q)') =>
             (Healthy(r) /\ Healthy(q)) \/ Expired(r) \/ Expired(q)]_vars
  BY <1>1
<1>3. QED  BY <1>2, IInvHolds, PTL DEF Spec, RivalOnlyByLateRenewal

-----------------------------------------------------------------------------
(* Refinement *)

barVars == <<phaseBar, holderBar>>

\* How a transition of the table looks in phases, and that it gives the lease up
\* when it must.
LEMMA PhaseOfTransition ==
  ASSUME NEW from \in Status, NEW s \in CallerTargets \cup { "PAUSED", "CANCELLED" },
         MayTransition(from, s), from # s,
         s = "PAUSED" => from \in Pausable,
         s = "CANCELLED" => from \notin Terminal
  PROVE  \/ /\ Phase(s) = Phase(from) /\ s \notin Terminal \cup { "PAUSED", "AWAITING_APPROVAL" }
         \/ /\ Phase(from) = "LAUNCHING" /\ Phase(s) = "WORKING"
            /\ s \notin Terminal \cup { "PAUSED", "AWAITING_APPROVAL" }
         \/ /\ Phase(from) = "SUSPENDED" /\ Phase(s) = "WORKING"
            /\ s \notin Terminal \cup { "PAUSED", "AWAITING_APPROVAL" }
         \/ /\ Phase(from) = "WORKING" /\ Phase(s) = "SUSPENDED"
            /\ s \in Terminal \cup { "PAUSED", "AWAITING_APPROVAL" }
         \/ /\ Phase(from) \in { "LAUNCHING", "WORKING", "SUSPENDED", "APPROVAL" }
            /\ Phase(s) = "STOPPED" /\ s \in Terminal
         \/ /\ Phase(from) = "WORKING" /\ Phase(s) \in { "APPROVAL", "COMPLETED" }
            /\ s \in Terminal \cup { "AWAITING_APPROVAL" }
         \/ /\ Phase(from) \in { "APPROVAL", "COMPLETED" } /\ Phase(s) = "CERTIFIED"
            /\ s \in Terminal
         \/ /\ Phase(from) \in { "LAUNCHING", "WORKING", "SUSPENDED", "APPROVAL" }
            /\ Phase(s) = "CANCELLED" /\ s \in Terminal
  BY DEF Status, CallerTargets, MayTransition, Successors, Terminal, Pausable, Phase

LEMMA PhaseBarIs ==
  ASSUME status \in [Run -> Status \cup { "NONE" }]
  PROVE  phaseBar = [r \in Run |-> Phase(status[r])]
  BY DEF phaseBar, PhaseOf

LEMMA NextPhaseBarIs ==
  ASSUME status' \in [Run -> Status \cup { "NONE" }]
  PROVE  phaseBar' = [r \in Run |-> Phase(status'[r])]
  BY DEF phaseBar, PhaseOf

LEMMA PhaseUpdate ==
  ASSUME NEW r \in Run, NEW s \in Status, status \in [Run -> Status \cup { "NONE" }],
         status' = [status EXCEPT ![r] = s]
  PROVE  /\ phaseBar' = [phaseBar EXCEPT ![r] = Phase(s)]
         /\ phaseBar[r] = Phase(status[r])
<1>1. status' \in [Run -> Status \cup { "NONE" }]  OBVIOUS
<1>2. QED  BY <1>1, PhaseBarIs, NextPhaseBarIs

\* A committed transition of a run is one step of the abstract lifecycle.
LEMMA CommitRefines ==
  ASSUME IInv, NEW r \in Run, NEW s \in CallerTargets \cup { "PAUSED", "CANCELLED" },
         status[r] \in Status, CommitTransition(r, s),
         s = "PAUSED" => status[r] \in Pausable,
         s = "CANCELLED" => status[r] \notin Terminal
  PROVE  Lifecycle!Next \/ UNCHANGED barVars
<1> DEFINE gives == s \in Terminal \cup { "PAUSED", "AWAITING_APPROVAL" }
<1>1. TypeOK /\ LeaseHolder  BY DEF IInv
<1>2. s \in Status  BY DEF CallerTargets, Status
<1>3. /\ status' = [status EXCEPT ![r] = s]
      /\ \A q \in Run \ { r } : lease'[q] = lease[q]
      /\ lease'[r] = "ACTIVE" => lease[r] = "ACTIVE" /\ ~gives
      /\ ~gives => lease'[r] = lease[r]
  BY <1>1, <1>2, CommitFacts
<1>4. phaseBar' = [phaseBar EXCEPT ![r] = Phase(s)]
  BY <1>1, <1>2, <1>3, PhaseUpdate DEF TypeOK
<1>5. phaseBar[r] = Phase(status[r])  BY <1>1, PhaseBarIs DEF TypeOK
<1>6. gives => holderBar' = holderBar \ { r }  BY <1>3 DEF holderBar, Leased
<1>7. ~gives => holderBar' = holderBar  BY <1>3 DEF holderBar, Leased
<1>8. CASE status[r] = s
  <2>1. phaseBar' = phaseBar  BY <1>4, <1>5, <1>8 DEF phaseBar
  <2>2. gives => r \notin holderBar
    BY <1>1, <1>8 DEF LeaseHolder, holderBar, LeaseRequired, Terminal
  <2>3. holderBar' = holderBar  BY <1>6, <1>7, <2>2 DEF holderBar
  <2>4. QED  BY <2>1, <2>3 DEF barVars
<1>9. CASE status[r] # s
  <2> DEFINE from == status[r]
  <2>1. MayTransition(from, s)  BY DEF CommitTransition
  <2>2. \/ /\ Phase(s) = Phase(from) /\ ~gives
        \/ /\ Phase(from) = "LAUNCHING" /\ Phase(s) = "WORKING" /\ ~gives
        \/ /\ Phase(from) = "SUSPENDED" /\ Phase(s) = "WORKING" /\ ~gives
        \/ /\ Phase(from) = "WORKING" /\ Phase(s) = "SUSPENDED" /\ gives
        \/ /\ Phase(from) \in { "LAUNCHING", "WORKING", "SUSPENDED", "APPROVAL" }
           /\ Phase(s) = "STOPPED" /\ gives
        \/ /\ Phase(from) = "WORKING" /\ Phase(s) \in { "APPROVAL", "COMPLETED" } /\ gives
        \/ /\ Phase(from) \in { "APPROVAL", "COMPLETED" } /\ Phase(s) = "CERTIFIED" /\ gives
        \/ /\ Phase(from) \in { "LAUNCHING", "WORKING", "SUSPENDED", "APPROVAL" }
           /\ Phase(s) = "CANCELLED" /\ gives
    BY <1>9, <2>1, PhaseOfTransition
  <2>3. CASE Phase(s) = Phase(from) /\ ~gives
    <3>1. phaseBar' = phaseBar  BY <1>4, <1>5, <2>3 DEF phaseBar
    <3>2. QED  BY <1>7, <2>3, <3>1 DEF barVars
  <2>4. CASE Phase(from) = "LAUNCHING" /\ Phase(s) = "WORKING" /\ ~gives
    <3>1. Lifecycle!Work(r)
      BY <1>4, <1>5, <1>7, <2>4 DEF Lifecycle!Work, Lifecycle!Enter
    <3>2. QED  BY <3>1 DEF Lifecycle!Next
  <2>5. CASE Phase(from) = "SUSPENDED" /\ Phase(s) = "WORKING" /\ ~gives
    <3>1. Lifecycle!Resume(r)
      BY <1>4, <1>5, <1>7, <2>5 DEF Lifecycle!Resume, Lifecycle!Enter
    <3>2. QED  BY <3>1 DEF Lifecycle!Next
  <2>6. CASE Phase(from) = "WORKING" /\ Phase(s) = "SUSPENDED" /\ gives
    <3>1. Lifecycle!Suspend(r)
      BY <1>4, <1>5, <1>6, <2>6 DEF Lifecycle!Suspend, Lifecycle!Enter
    <3>2. QED  BY <3>1 DEF Lifecycle!Next
  <2>7. CASE /\ Phase(from) \in { "LAUNCHING", "WORKING", "SUSPENDED", "APPROVAL" }
             /\ Phase(s) = "STOPPED" /\ gives
    <3>1. Lifecycle!Stop(r)
      BY <1>4, <1>5, <1>6, <2>7 DEF Lifecycle!Stop, Lifecycle!Enter
    <3>2. QED  BY <3>1 DEF Lifecycle!Next
  <2>8. CASE \/ /\ Phase(from) = "WORKING" /\ Phase(s) \in { "APPROVAL", "COMPLETED" } /\ gives
             \/ /\ Phase(from) \in { "APPROVAL", "COMPLETED" } /\ Phase(s) = "CERTIFIED" /\ gives
             \/ /\ Phase(from) \in { "LAUNCHING", "WORKING", "SUSPENDED", "APPROVAL" }
                /\ Phase(s) = "CANCELLED" /\ gives
    <3>1. Lifecycle!Settle(r)
      BY <1>4, <1>5, <1>6, <2>8 DEF Lifecycle!Settle, Lifecycle!Enter
    <3>2. QED  BY <3>1 DEF Lifecycle!Next
  <2>9. QED  BY <2>2, <2>3, <2>4, <2>5, <2>6, <2>7, <2>8
<1>10. QED  BY <1>8, <1>9

LEMMA BeginRefines ==
  ASSUME IInv, NEW r \in Run, Begin(r) PROVE Lifecycle!Next
<1>1. TypeOK  BY DEF IInv
<1>2. Acquire(r) /\ status[r] = "NONE" /\ status' = [status EXCEPT ![r] = "AUTHORIZED"]
  BY DEF Begin
<1>3. phaseBar' = [phaseBar EXCEPT ![r] = "LAUNCHING"]
  <2>1. phaseBar' = [phaseBar EXCEPT ![r] = Phase("AUTHORIZED")]
    BY <1>1, <1>2, PhaseUpdate DEF TypeOK, Status
  <2>2. QED  BY <2>1 DEF Phase, Pausable
<1>4. phaseBar[r] = "ABSENT"
  <2>1. phaseBar[r] = Phase("NONE")  BY <1>1, <1>2, PhaseBarIs DEF TypeOK
  <2>2. QED  BY <2>1 DEF Phase, Pausable
<1>5. holderBar' = holderBar \cup { r }
  BY <1>1, <1>2, AcquireFacts DEF holderBar, Leased
<1>6. Lifecycle!Launch(r)  BY <1>3, <1>4, <1>5 DEF Lifecycle!Launch, Lifecycle!Enter
<1>7. QED  BY <1>6 DEF Lifecycle!Next

\* A run without a lease that goes back to work is WORKING and holds one.
LEMMA BackToWorkBar ==
  ASSUME IInv, NEW r \in Run, BackToWork(r), ~Leased(r)
  PROVE  /\ phaseBar' = [phaseBar EXCEPT ![r] = "WORKING"]
         /\ holderBar' = holderBar \cup { r }
         /\ phaseBar[r] = Phase(status[r])
<1>1. TypeOK  BY DEF IInv
<1>2. PICK s \in { "VALIDATING", "RUNNING" } : status' = [status EXCEPT ![r] = s]
  BY BackToWorkFacts
<1>3. Phase(s) = "WORKING" /\ s \in Status  BY DEF Phase, Pausable, Status
<1>4. phaseBar' = [phaseBar EXCEPT ![r] = "WORKING"] /\ phaseBar[r] = Phase(status[r])
  BY <1>1, <1>2, <1>3, PhaseUpdate DEF TypeOK
<1>5. holderBar' = holderBar \cup { r }  BY <1>1, BackToWorkFacts DEF holderBar, Leased
<1>6. QED  BY <1>4, <1>5

LEMMA ResumeRefines ==
  ASSUME IInv, NEW r \in Run, Resume(r) PROVE Lifecycle!Next
<1>1. status[r] \in { "PAUSED", "RECOVERING" } /\ BackToWork(r)  BY DEF Resume
<1>2. ~Leased(r)  BY <1>1 DEF IInv, LeaseHolder, LeaseRequired
<1>3. Phase(status[r]) = "SUSPENDED"  BY <1>1 DEF Phase, Pausable
<1>4. Lifecycle!Resume(r)
  BY <1>1, <1>2, <1>3, BackToWorkBar DEF Lifecycle!Resume, Lifecycle!Enter
<1>5. QED  BY <1>4 DEF Lifecycle!Next

\* A stopped run that is recovered and resumed restarts, or is suspended when a
\* peer's lease stands in its way.
LEMMA RecoverAndResumeRefines ==
  ASSUME IInv, NEW r \in Run, RecoverAndResume(r), status[r] \in { "BLOCKED", "FAILED" }
  PROVE  Lifecycle!Next
<1>1. TypeOK  BY DEF IInv
<1>2. ~Leased(r)  BY DEF IInv, LeaseHolder, LeaseRequired
<1>3. Phase(status[r]) = "STOPPED"  BY DEF Phase, Pausable
<1>4. CASE BackToWork(r)
  <2>1. Lifecycle!Restart(r)
    BY <1>2, <1>3, <1>4, BackToWorkBar DEF Lifecycle!Restart, Lifecycle!Enter
  <2>2. QED  BY <2>1 DEF Lifecycle!Next
<1>5. CASE /\ status' = [status EXCEPT ![r] = "RECOVERING"]
           /\ UNCHANGED <<stageVars, leaseVars>>
  <2>1. phaseBar' = [phaseBar EXCEPT ![r] = Phase("RECOVERING")] /\ phaseBar[r] = "STOPPED"
    BY <1>1, <1>3, <1>5, PhaseUpdate DEF TypeOK, Status
  <2>2. Phase("RECOVERING") = "SUSPENDED"  BY DEF Phase, Pausable
  <2>3. holderBar' = holderBar  BY <1>5 DEF leaseVars, holderBar, Leased
  <2>4. Lifecycle!Recover(r)  BY <2>1, <2>2, <2>3 DEF Lifecycle!Recover, Lifecycle!Enter
  <2>5. QED  BY <2>4 DEF Lifecycle!Next
<1>6. QED  BY <1>4, <1>5 DEF RecoverAndResume

LEMMA SweepRefines ==
  ASSUME IInv, RecoverStaleRuns PROVE Lifecycle!Next
<1> DEFINE S == { r \in Run : Expired(r) }
<1>0. TypeOK  BY DEF IInv
<1>1. \A r \in Run : Leased(r) => status[r] \in LeaseRequired \ { "RECOVERING" }
  BY DEF IInv, LeaseHolder
<1>2. \A r \in Run : r \in S <=> r \in Swept
  BY <1>1 DEF Swept, Expired, LeaseRequired, ActiveStatus
<1>3. S # {} /\ S \subseteq holderBar  BY DEF RecoverStaleRuns, Expired, holderBar
<1>4. \A r \in S : phaseBar[r] \in { "LAUNCHING", "WORKING" }
  <2>1. \A r \in S : phaseBar[r] = Phase(status[r])  BY <1>0, PhaseBarIs DEF TypeOK
  <2>2. QED  BY <1>1, <1>3, <2>1 DEF holderBar, Phase, LeaseRequired, Pausable
<1>5. phaseBar' = [r \in Run |-> IF r \in S THEN "SUSPENDED" ELSE phaseBar[r]]
  <2>1. \A r \in Run : Phase(status'[r]) = IF r \in S THEN "SUSPENDED" ELSE Phase(status[r])
    BY <1>2 DEF RecoverStaleRuns, Phase, Pausable
  <2>2. status' \in [Run -> Status \cup { "NONE" }]
    BY <1>0 DEF RecoverStaleRuns, TypeOK, Status
  <2>3. QED  BY <1>0, <2>1, <2>2, PhaseBarIs, NextPhaseBarIs DEF TypeOK
<1>6. holderBar' = holderBar \ S
  BY DEF RecoverStaleRuns, holderBar, Leased, Expired
<1>7. Lifecycle!Interrupt(S)  BY <1>3, <1>4, <1>5, <1>6 DEF Lifecycle!Interrupt
<1>8. QED  BY <1>7 DEF Lifecycle!Next

\* Steps that change neither a status nor who holds a lease.
LEMMA QuietRefines ==
  ASSUME UNCHANGED <<status, lease>> PROVE UNCHANGED barVars
  BY DEF barVars, phaseBar, holderBar, Leased

\* The service implements the abstract run lifecycle, for every instance.
THEOREM ServiceImplementsLifecycle == Spec => ImplementsLifecycle
<1>1. Init => Lifecycle!Init
  <2>1. Phase("NONE") = "ABSENT"  BY DEF Phase, Pausable
  <2>2. Init => phaseBar = [r \in Run |-> Phase(status[r])]
    BY PhaseBarIs DEF Init
  <2>3. QED  BY <2>1, <2>2 DEF Init, Lifecycle!Init, holderBar, Leased
<1>2. IInv /\ [Next]_vars => [Lifecycle!Next]_<<phaseBar, holderBar>>
  <2> SUFFICES ASSUME IInv, [Next]_vars PROVE Lifecycle!Next \/ UNCHANGED barVars
    BY DEF barVars
  <2>1. TypeOK  BY DEF IInv
  <2>2. ASSUME NEW q \in Run, NEW s \in CallerTargets, Transition(q, s)
        PROVE  Lifecycle!Next \/ UNCHANGED barVars
    BY <2>1, <2>2, CommitRefines DEF Transition, Begun, TypeOK, CallerTargets
  <2>3. ASSUME NEW q \in Run,
               AcceptFunctionalApplication(q) \/ CertifyFunctionalApplication(q)
               \/ Pause(q) \/ Cancel(q)
        PROVE  Lifecycle!Next \/ UNCHANGED barVars
    <3>1. status[q] \in Status
      BY <2>1, <2>3 DEF AcceptFunctionalApplication, CertifyFunctionalApplication, Pause,
         Cancel, Begun, Pausable, TypeOK, Status
    <3>2. PICK s \in { "AWAITING_APPROVAL", "CERTIFIED", "PAUSED", "CANCELLED" } :
             /\ CommitTransition(q, s)
             /\ s = "PAUSED" => status[q] \in Pausable
             /\ s = "CANCELLED" => status[q] \notin Terminal
      BY <2>3 DEF AcceptFunctionalApplication, CertifyFunctionalApplication, Pause, Cancel
    <3>3. QED  BY <3>1, <3>2, CommitRefines DEF CallerTargets
  <2>4. ASSUME NEW q \in Run, RecoverFailedExecution(q)
        PROVE  Lifecycle!Next \/ UNCHANGED barVars
    <3>1. /\ status[q] = "FAILED" /\ CommitTransition(q, "RECOVERING")
          /\ status' = [status EXCEPT ![q] = "RECOVERING"]
      BY <2>4 DEF RecoverFailedExecution, CommitTransition
    <3>2. \A p \in Run : lease'[p] = lease[p]
      BY <2>1, <3>1, CommitFacts DEF Status, Terminal
    <3>3. phaseBar' = [phaseBar EXCEPT ![q] = "SUSPENDED"] /\ phaseBar[q] = "STOPPED"
      <4>1. /\ phaseBar' = [phaseBar EXCEPT ![q] = Phase("RECOVERING")]
            /\ phaseBar[q] = Phase(status[q])
        BY <2>1, <3>1, PhaseUpdate DEF TypeOK, Status
      <4>2. QED  BY <3>1, <4>1 DEF Phase, Pausable
    <3>4. holderBar' = holderBar  BY <3>2 DEF holderBar, Leased
    <3>5. Lifecycle!Recover(q)  BY <3>3, <3>4 DEF Lifecycle!Recover, Lifecycle!Enter
    <3>6. QED  BY <3>5 DEF Lifecycle!Next
  <2>5. ASSUME NEW q \in Run,
               \/ Heartbeat(q)
               \/ \E type \in StageType : StartStage(q, type)
               \/ \E i \in DOMAIN stages[q] : CompleteStage(q, i)
               \/ FailStage(q)
        PROVE  UNCHANGED barVars
    BY <2>5, QuietRefines
    DEF Heartbeat, StartStage, CompleteStage, FailStage, Renew, leaseVars
  <2>6. CASE Tick  BY <2>6, QuietRefines DEF Tick
  <2>7. CASE LineageNext  BY <2>1, <2>7, LineageFacts, QuietRefines
  <2>8. CASE UNCHANGED vars  BY <2>8, QuietRefines DEF vars, leaseVars
  <2>9. ASSUME NEW q \in Run,
               \/ RecoverBlockedValidation(q)
               \/ \E D \in (SUBSET Dimension) \ { {} } : RecoverFailedImplementation(q, D)
        PROVE  Lifecycle!Next
    BY <2>9, RecoverAndResumeRefines
    DEF RecoverBlockedValidation, RecoverFailedImplementation
  <2>10. QED
    BY <2>2, <2>3, <2>4, <2>5, <2>6, <2>7, <2>8, <2>9, BeginRefines, ResumeRefines, SweepRefines
    DEF Next, LifecycleNext
<1>3. QED  BY <1>1, <1>2, IInvHolds, PTL DEF Spec, ImplementsLifecycle, Lifecycle!Spec
=============================================================================

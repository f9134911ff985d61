# PBOS-CORE verification project

TLA+ models of the durable execution core of PBOS, of the validation, verification and delivery machinery around
it and of the application journeys it generates; the TLC configurations that check them on small
instances; and TLAPS proofs of the main safety properties for every instance. Paths are relative to the
repository; `PRS` stands for `src/pbos/production-runtime/production-runtime-service.ts`.

PBOS turns an approved plan into *missions*, runs each mission as a *production run* on a repository, waits
for independent validation of the resulting pull request, and certifies it on an operator's approval. Several
operating-system processes do this at the same time: `pbos` commands, a detached background monitor per pull
request, the read-only Mission Control server. They share no memory. All of them read and write one JSON file,
`genesis-state.json`, through `JsonStateStore`, which locks every single update; a service method is a
sequence of such updates, and a command is a sequence of service methods with awaits in between. Ownership of
a repository is a time-limited *lease*, swept when it expires. The difficulty of the system is there:
what the interleaving of these sequences, their crashes and the passing of time can do to runs, missions,
stages and evidence. The rest of the repository is, for the larger part, sequential builders of documents and
in-memory models.

## 1. Inventory

### 1.1 Components that keep execution state

**Production runs, stages and leases** (`PRS`, `status-machine.ts`, `contracts.ts`,
`functional-acceptance-verifier.ts`).
*State*: runs (17 statuses, active stage, resume checkpoint, repair attempts and limit, current commit,
acceptance plan and evidence, linked remediations), stages, execution leases, an append-only event list.
*Operations*: begin, transition, acceptFunctionalApplication, certifyFunctionalApplication, pause, resume,
cancel, heartbeat, startStage, completeStage, failStage, the sweep recoverStaleRuns, the recoveries of
stopped runs, repair accounting, repositioning and rebinding to a commit, recording of evidence.
*Hard*: leases expire while their holder works; a late heartbeat renews a lease that expired; the sweep writes
a status without the transition table; stage ids outlive their stage; evidence is bound to a commit that moves.
*Correct when*: leases follow execution, one run is active per repository, the active stage is really running,
statuses follow the table, settled runs stay settled, a functional application is approved only after its
stages and certified only on evidence for its exact commit.

**Mission queue and mission runner** (`mission-queue.ts`, `production-mission-runner.ts`,
`mission-adapter-registry.ts`, the `run`, authorization and retry commands of `genesis-console/pbos-cli.ts`).
*State*: per mission a status, an execution blocker and dependencies; per process its place in the call
sequence and what it read earlier. *Operations*: reconcile, next, updateMissionStatus, blockMissionForRun, and the
runner's sequence begin → QUEUED → STARTING → RUNNING → execute → VALIDATING → complete, with its catch block.
*Interacts* by calling the production runtime and awaiting an executor. *Hard*: every gap between two calls;
crash between completing the mission and completing the run; an executor slower than its lease; a mission status
read before a prompt and written after it. *Correct when*: one mission is in hand, it stays in hand while somebody
works on it, dependencies hold, a completed run has a complete mission, one executor works on a repository.

**JSON state store** (`genesis-state/json-state-store.ts`, `genesis-state-repository.ts`).
*State*: the JSON file, a lock file. *Operations*: read; update = exclusive open, read, change, write to a temporary
file and rename, unlink; stealing of lock files older than thirty seconds. *Hard*: the age check and the unlink are
two system calls; a process dies holding the lock; a holder outlives the window. *Correct when*: updates are
exclusive, none is lost, the file is an atomic register.

**Remediation recovery authority** (`recovery-authority.ts`, PRS 290-317 and 418-478).
*State*: recovery epochs AWAITING_AUTHORIZATION → AUTHORIZED → ACTIVE → EXHAUSTED or COMPLETED, the run's
active epoch and repair limit. *Operations*: request, authorize, completeActive, exhaust, each of them several
saves. *Hard*: a crash between the saves; two operators who authorize one epoch, one of whom restores the record it
had read. *Correct when*: an epoch grants one attempt, however often it is
interrupted; attempts are not stacked; an active epoch is the run's; a settled one stays settled.

**Validation automation** (`validation-automation/`): the resumable remediation engine against a pull request
whose head, checks and state belong to GitHub. *State*: the remediation run (attempt, head, state,
infrastructure retries, merged-validation request). *Hard*: everything read before `await collect / propose /
apply` is written after it; a command and the monitor resume the same record; a crash follows the push and precedes the
save. *Correct when*: attempts stay within the bound, readiness means a passing check on the recorded head, an
infrastructure failure costs no repair attempt.

**Operator continuity and background monitor** (`operator-continuity/`): a detached process polls
the engine (360 polls, ten seconds apart), maps what it sees to the production run and the batch record, and
stops on readiness or a block. *Hard*: two monitors on one run, observations applied out of order, the
polling limit, a batch run that never leaves REPAIRING when no pending check is observed.
*Correct when*: a run awaiting approval has passed on its commit, repair attempts count pushes, a blocked
or ready pull request leads the run out of VALIDATING.

**Reliable delivery** (`integration/reliability/`): deliveries with claim leases, bounded
retries, a circuit breaker, a bulkhead, dead letters and governed replay. *Hard*: a timed-out handler keeps running
beside its retry; a save that fails after the handler succeeded repeats the delivery; a claim that outlives
its lease; the breaker closes on first look after its window. *Correct when*: attempts are bounded, a
delivered record stays delivered, only an authorized replay leaves the dead letters, a queued record settles.

**Integration control plane and API** (`integration/` otherwise, `api/`, `connector-sdk/`): connected systems, their
domains and identities, revocations, idempotency keys and evidence events in one state file that the service's
requests and an operator's process share. *Hard*: a request reads, awaits and writes its copy back over
what another saved; the cached answer is looked up before the work and the key claimed after it; a crash leaves the
lock file behind; a restore brings back an older file. *Correct when*: one key has one answer, nothing is started for a
revoked system, an active system is certified, an answer has its evidence.

**Generated application journeys** (`application-readiness/playbook-*-journey-executor.ts`,
`playbook-scholar-slice-executor.ts`): the code the executors write into the application. Each request stages a row, publishes
an event to PBOS under an idempotency key and completes the row, in separate awaits without a transaction. *Hard*:
a request is cut off between two awaits and sent again, or overlaps with another for the same rows. *Correct when*: what
the application shows as done PBOS has accepted, what PBOS accepted is on record, nothing stays pending without cause.

**Autonomous build authority** (`autonomous-authority/`): grants with expiry, revocation, risk ceilings and
protected actions, and a ledger of decisions. Sequential. *Correct when*: no decision allows an action outside
the grant and every decision is recorded.

**Production kernel** (`kernel/`): functional verification of an application (prerequisite, launch, journeys,
acceptance, preview stages, heartbeat on an interval), the workflow state machine, permissions. *Hard*: every event of
the runtime ends one stage and begins another while a terminal pauses, cancels or sweeps the run; two catch blocks
clean up after a failure. *Correct when*: a stage is completed only if its work was done, and no failure leaves the run
where nobody looks again.

**Functional application runtime and previews** (`production-runtime/functional-application-runtime.ts`,
`preview-pipeline.ts`, the deployment gateways): child processes, probes and deployments; they report
stages and evidence to the production runtime. *Hard*: the application is a detached process group on a fixed port and
survives PBOS; the checkout is shared; children outlive their signals or keep their pipes open. *Correct when*: evidence
is about the commit it names, and a verification ends.

**Genesis console** (`genesis-console/`): command dispatch, prompts, promotion (merge, then certify) and the
reconciliations each command starts with.

**Operator identity and persistent authority** (`genesis-state/operator-identity.ts`,
`persistent-authority.ts`): signing keys and approvals, read by the console.

### 1.2 Engines with some state of their own

| Component | State and operations | Worth stating |
|---|---|---|
| compiler-pipeline, compiler-runtime, compiler | stage registry; initialize, begin, complete, fail; artifact publication; dispatch by registry | stages in dependency order, a failed stage stops the pipeline, no artifact of an unfinished stage |
| discover, discovery | sessions created, loaded, saved, archived; question selection over a dependency graph; certification | a question only after its prerequisites; progress until certified |
| planner, build-planning | missions and work packages from a blueprint; dependency resolution and prioritisation | topological order; nothing lost or duplicated |
| execution-engine, autonomy | mission and workflow records, role assignment, approval gate | no execution before approval; terminal states final |
| evolution-platform, evolution-engine | observation, proposal, decision, implementation, rollback | nothing implemented undecided; rollback restores |
| runtime-deployment | lifecycle of a runtime instance, recovery manager | legal lifecycle order; recovery ends running or failed |
| compiler-artifacts, distribution, archivist | in-memory registries, append-only records | immutability, unique ids |
| application-readiness (the rest) | git work and content of the executors, mission planner | the executors are seen by the runner as one call that answers or throws, the planner as the rebuild of the queue (`EnsureReadinessQueue`) |
| acquisition, acquisition-engine, evidence-engine | collectors run in sequence over a repository | deterministic collection |
| platform | git and GitHub processes behind gateways | external to the models; used by validation and promotion |

### 1.3 Stateless or presentational components

application-delivery, application-scaffold, boot, brand-system, certification, cli, coir, commands, constitution, consumer-portal, contracts, discovery-intelligence, ecosystem-certification, factory,
governance-engine, intelligence, knowledge-engine, launch-readiness, mission-control, organization,
organization-engine, os-engine, pir, platform-convergence, reference-systems, system-blueprint, tools, the workspace
packages and the command entry point. They build documents, score, validate one value at a time, present, or declare
types. Each is listed in `PROJECT.json` with its reason.

### 1.4 How the parts interact

    pbos run ──► MissionRunner ──calls──► ProductionRuntimeService ──saves──► GenesisStateRepository
       │             │ awaits executor            ▲   ▲                             │ one update each
       │             ▼                            │   │                             ▼
       │        git / generated code              │   └── recovery authority   JsonStateStore (lock file)
       ├─ spawns ─► background monitor ── polls ──┤
       │                 │ resumes remediation    │
       │                 ▼                        │
       │            GitHub (pull request, checks) │
       └─ pause, resume, cancel, sweep, promote, certify, reconcile ─┘

    background monitor ── checks passed ──► production kernel ──► functional application runtime
                                              │ stages, evidence      │ spawns, probes, stops
                                              ▼                       ▼
                                    ProductionRuntimeService     application on its port / preview

    generated application ── events, idempotency keys ──► integration API ──► integration state file
                                                              └── deliveries ──► reliable delivery engine

The hazards this produces are in `PROJECT.json` under `hazards`, each with its line and the properties that cover it,
or what is planned to.

## 2. The modules

| Module | Models | Extends / instantiates |
|---|---|---|
| `ProductionStatus` | status vocabulary, the transition table, the status lists | – |
| `ProductionRuntime` | `PRS`: runs, stages, leases, evidence, one action per method | `ProductionStatus` |
| `RunLifecycle` | abstract: phases of a run and the set of lease holders | – |
| `ProductionRefinement` | the mapping from runtime to lifecycle | `ProductionRuntime`, `RunLifecycle` |
| `MissionQueue` | queue operators: reconcile, next, update, block | – |
| `MissionRunner` | processes that run missions, operators, the sweep, crashes | `ProductionRuntime`, `MissionQueue` |
| `AtomicStore` | abstract: an atomic register of updates | – |
| `JsonStateStore` | the lock-file protocol, system call by system call | `AtomicStore` |
| `RecoveryAuthority` | recovery epochs of one run, save by save, with callers that crash | – |
| `Remediation` | one poll of the remediation engine against a moving pull request, await by await | – |
| `ValidationMonitor` | monitor, kernel result, batch record, and the commands that resume, merge and certify | `Remediation`, `ProductionStatus`, `RunLifecycle` |
| `FunctionalAcceptance` | the kernel's verification, the functional runtime and its processes, the host | `ProductionRuntime` |
| `Outbox` | abstract: what a delivery promises | – |
| `ReliableDelivery` | the delivery engine, breaker, bulkhead and delivery file | `Outbox` |
| `ControlPlane` | requests on the integration state file, operator, crash, backup, restore | – |
| `Journeys` | the generated journeys, request by request, await by await | – |
| `MCProductionRuntime`, `MCMissionRunner`, `MCJsonStateStore`, `MCRecoveryAuthority`, `MCValidationMonitor`, `MCFunctionalAcceptance`, `MCReliableDelivery`, `MCControlPlane`, `MCJourneys` | instances for TLC | |
| `ProductionRuntimeProofs`, `DurableStateProofs` (state store and recovery authority), `ValidationMonitorProofs`, `ReliableDeliveryProofs`, `FunctionalAcceptanceProofs`, `ControlPlaneProofs`, `MissionRunnerProofs`, `JourneysProofs` | theorems | `TLAPS`, the module of the component; the proofs of `FunctionalAcceptance` and `MissionRunner` also extend `ProductionRuntimeProofs` |

### ProductionRuntime

A run is an element of `Run`; `status[r] = "NONE"` until `Begin`. Its stages are a sequence of `[type, status]`
records; the index stands for the stage id, `active[r]` for `activeStageId` (0 when undefined), `checkpoint[r]` for
`resumeCheckpoint`. `lease[r]` is the state of the run's last lease and `left[r]` the time to its expiry: an
ACTIVE lease with `left[r] = 0` is expired but unswept, which is the state most of the trouble comes from. Only
evidence that passes and comes from an executable source is kept, as (commit, dimension) pairs.

One method is one action. The service is synchronous, so nothing of the same process runs inside a method; another
process can, between two of a method's saves, and that window is *not* in this module (hazard at PRS:41). Calls are
unconstrained: any method on any run in any order, with any argument its callers outside the service use, is a step.
A method that throws before its first save is no step. Where it saves something first, the
action keeps that part: `startStage` and `recordRepairAttempt` heartbeat before they refuse, so a refused call is a
`Heartbeat`; `RegisterBoundedRemediation` links the remediation before a missing plan makes it throw; the recoveries
of blocked and failed validations commit RECOVERING before `resume` finds a peer's healthy lease
(second disjunct of `RecoverAndResume`). `recoverFailedFunctionalImplementationValidation` and
`recoverBlockedValidation` with its two guarded entrances are one action each, since they call `resume` themselves.
`recordRepairAttempt` takes an optional limit for one call that nothing in `src` passes; the model has the run's own limit.

`Tick` is wall-clock time. Two next-state relations are used: `Next` has every action; `LifecycleSpec` leaves out
the methods that only touch lineage and evidence, for instances with two non-functional runs (where nothing else reads the lineage).

### MissionRunner

`pc[p]` is where process `p` is in `pbos run`; each location is one service or queue call, so other processes act
between any two of them. `held[p]` is the stage id the runner keeps across its await, `seen[p]` the mission status in the queue item
the prompt was handed, which it writes back when the operator has approved. There are two prompts: before the run, where the item is ELIGIBLE, and after
the runner has handed its mission back for approval (pbos-cli 1316-1334), where it still has the status of its selection. The operator may
answer after any other step, or never. A run taken up again is not asked for: its approval is durable already. `Moves` is a `transition` that either succeeds or throws to the handler in
force. `Operates` is everything others do: time, the sweep, pause, resume, cancel. `Crash` sends a process back
to idle at any step and forgets its local variables; durable state stays. Mission adapters and
`apply` are the choice in `Answer`: an error, an error after a heartbeat, or success with or without something recorded. `RunnerAssumption` says that
the queue is one system's and all its runs are of one repository.

The queue is not kept between commands: a `pbos run` that resumes no validation has the planner compile it again from the canon, in which
a mission is complete or not and nothing else. `EnsureReadinessQueue` is that step and `RebuildingSpec` the specification with it. It is kept apart because
the code does not carry the queue's guarantees over it: what the canon lists as open is queued again, whatever its runs say, and an execution blocker is
gone. `RunnerSpec`, its properties and its theorems are about what happens between two rebuilds; with them TLC refutes
`SelectionWaitsForRecovery`, which is what the service records when a run fails (PRS:582), and `OneActiveRun`, `DependenciesHold` and
`CompletedRunHasCompleteMission` are not claimed.

### JsonStateStore

Each process calls `update` repeatedly: exclusive open, on failure stat and possibly unlink (two steps), wait, try
again up to `MaxTries`; with the lock, read, write (an atomic rename), unlink. `file[p]` counts `p`'s updates contained in
the stored value, so an overwritten update shows as `file[p] < made[p]`. A process may die anywhere (`MaxCrashes`); `Stalls`
lets a living holder outlast the stale window, which the runs keep FALSE because what happens under the
lock is synchronous and short.

### RecoveryAuthority

One run, reduced to what its repair budget reaches: it recovers while it has budget, spends, is blocked or accepted. A
process is a caller, the command that requests and authorizes or the monitor that requests and completes. `pc[p]` is the
next save or service call of its `request`, `authorize` or `completeActive`; `at[p]` is the epoch it holds,
`number[p]` the number it read for the next one. `Create` saves the epoch, `Register` names it in the run;
`Authorize`, `Activate`, `Confirm` are the three saves of `authorize`; `Refuse` and `Restore` its catch block, which
writes back the record read at the start. `grants` is the list of RECOVERY_AUTHORITY_GRANTED events. Epoch creation stops
at `MaxEpochs`; the code has no such bound, the operator is the bound. `CompleteActive` follows only an acceptance, as in the monitor.

### Remediation and ValidationMonitor

`Remediation` is `ResumableRemediationEngine.resume` with the collector and the handler it calls. `at[p]` is where the call of
process `p` is, `copy[p]` the record it read and will save whole, `seen[p]` what it collected: the pull request in one step (`Collect`),
its check runs in the next (`CollectChecks`), with the head free to move between them. The provider is external: `head` and
`checks` move by themselves, `passed` remembers the commits that ever passed, `asked` the workflows that were requested and have not started, so
that a request (`RequestMerge`), the record of it (`RecordRequest`) and the pending checks it leads to are three steps.

`ValidationMonitor` puts the callers around it. `Monitors` is the loop of `background-monitor.ts`: resume, reconcile the production
run, update the batch, poll again; `Operates` is a terminal: reattach, resume a validation, the approval prompt, `MergePullRequest`,
`Certify`. The production run is the one of `ProductionRuntime`, reduced to what these callers read: the type of the open stage, the resume
checkpoint, whether the lease would be found expired. `BackToWork` is `resume`: a run swept before it had a stage, or in a repair, goes back to RUNNING, any other to
VALIDATING. Before a run is revived a gate may pause it (`Gate`), or the staging migration may fail and block its mission and then the run (`GateFails`). `kind` is what the run builds: an artifact, a functional application, a batch. One thing goes wrong per
behaviour, `mishap` says which; `faults` counts it. There is one monitor and one terminal, since the launcher sees to the first and
the second is enough to interleave with it; a monitor whose process died is launched again by an opened terminal. Left out: the
operator's extension of a spent repair budget (`RecoveryAuthority`), the recoveries of two known defects of earlier versions
(`falselyReady`, misclassified provider failures), messages and diagnoses. A transition and the completion of the stage it
closes are one step here; `FunctionalAcceptance` has them apart.

### FunctionalAcceptance

One functional run, verified for one pull request that remediation may supersede. The run, its stages and its lease are
`ProductionRuntime`'s own variables and actions, so each call of the kernel is the service's method with all it does. `at` and `phase` are
where the monitor process is, `job` what `execute` holds: the plan's commit, the revisions that answered, whether it has failed. A launch is a
*shell*, the child that was spawned, and a *server*, the process below it that holds the port and serves the revision that was
checked out when it began to listen. `Answers` is whoever listens, or the preview. A command is bounded (`TimeOut`) unless a
descendant keeps its pipes (`HoldPipes`). `Commands` is the terminal: pause, cancel, sweep, resume, certify. `done` and `calm` are history
variables: the stages whose work succeeded; that no crash, no lingering server and no checkout moved after the HEAD check occurred.
Left out: `normalizeFunctionalAcceptanceLineage` (rebinding moves plan and commit together, so it has nothing to do), a failing
state file under the heartbeat timer, blocking the mission (`MissionRunner` has it), and any expiry of a lease while the monitor is idle
unless a verification died, which bounds the sweeps.

The kernel's reporter ends the active stage at *every* event. `VISUAL_CANON_VERIFIED` comes first and ends PREREQUISITE
before a prerequisite has run (`ReportCanon`); the model has it so, and `CompletedMeansDone` excepts that stage under a canon.

### ReliableDelivery

`record` is the delivery file; `at[w]`, `item[w]`, `current[w]` a call of `deliver` and the copy it holds, which every save writes over
whatever the file then has. Circuits and bulkheads belong to a process. `Attempt` is one handler under both; a timeout is a
failure whose handler may have had its effect. `starts`, `lost`, `replays` are history. `Late` says whether a call may outlive its
claim's lease; the lease does not cover retry delays. `Outbox` is the abstract promise.

### ControlPlane

`file` is the state file of one tenant. A request arrives, is dispatched against the file as it reads it, and saves what it prepared
(`pending`) later: in between another request, or the operator's process, may have saved something else. `stuck` is the lock file of
a process that died holding it; every update may then time out, which is an error answer. Keys are claimed in `Answer`, after the work.
A runtime message reads the system's revocation (`Handle`), then the domain (`Grant`), then starts its handler (`StartHandler`), and the operator may
revoke between any two. So a request that had read the system before a revocation may start its handler after it; `late` collects the requests that *arrive* after the revocation
was saved, and those are what `NoWorkAfterRevocation` is about.
`Restore` happens in quiescence, which the runbook asks for. It takes back revocations made since the backup, as the code's does; the
documents promise a revocation over restarts, which is kept. Left out: credentials, signatures, rate limits, metrics, version
uniqueness, and the revocations of domains and identities, which nothing calls.

### Journeys

`Steps(op)` is the sequence of awaits of a request, `at[r]` how many it has begun, `note[r]` what it remembers. Each step is a statement on the
application's tables `db`, or `Publish`: PBOS accepts an event once per key and refuses another body under it. `Abandon` is a
request cut off after any await, whether the await took effect or not. A submission does not look whether its workspace is on
record: of an unknown one it counts no open task, updates no row, is published, and only `RecordTransition` refuses it; `AcceptedWasRecorded` therefore excepts submissions. A discovery sets
every match it found to delivered, one whose decision is still pending among them: `DeliveredWasAccepted` asks of a delivered match that its discovery or a decision about it was
accepted. The guide the executor writes (line 507 of it) promises more, that a decision PBOS has not accepted stays visibly pending. That is
`RejectionStaysVisible`, which TLC refutes with the one journey `OPPORTUNITY`. Left out: documents of an application, READ and
MUTE of messages, the text of everything. `Relate` (a supporter relationship ends or begins) is external.

## 3. What is checked

Passing runs; deadlock is not checked because a finite set of runs, updates, requests or missions may all be finished.

| Run | Instance | Shows |
|---|---|---|
| `SharedRepository` | two runs of one repository, two commits, lease of one tick, one repair, one stage each | leases follow execution, settled runs stay settled, only launch, sweep and recovery leave the table, two healthy leases need an unswept expiry, and the service implements `RunLifecycle` |
| `FunctionalRun` | one functional run, two commits, two stages, a policy asking for a route and a preview, every action of `Next` | approval only after the demanded stages, certification only from approval and on evidence of every dimension of the policy at the exact commit, completed stages are never overwritten |
| `MissionSequence` | one process that may crash, three missions (the first needs the operator's approval, another depends on it), two runs with three stages each, both prompts | between two rebuilds of the queue: one mission in hand, held while worked on, dependencies complete, a completed run has a complete mission, one active run |
| `StateStore` | two processes, two updates each, one crash | no lost update, refinement of `AtomicStore` |
| `RecoveryEpochs` | one caller that may crash at any step, one attempt, three epochs | an epoch grants once, grants are not stacked, an active epoch is the run's, outcomes stay |
| `Validation` | one monitor, one terminal, four commits, one attempt, one infrastructure retry, every kind of run, one mishap of nine kinds | what is approved has passed at its commit, what is certified is merged and its mission complete, pushes are counted, the run follows `RunLifecycle` |
| `ValidationProgress` | a functional run, three commits, mishaps NOTHING, ERROR, CRASH, LIMIT, OPERATOR | validation ends; undisturbed, a final result approves or blocks the run |
| `Acceptance` | one run taken up twice, one supersession, budget spent or not, application or preview, canon or not, one mishap | evidence is exact, completed stages were done, no failed verification leaves the run under way, a verification ends |
| `Delivery` | two calls in one process, two records, two attempts, one replay, one crash or failed save, one slot | attempts are bounded, the engine implements `Outbox`, a queued record settles |
| `ControlPlane` | two requests and the operator, four arrivals, one key that may come with two payloads, one crash, a backup and a restore, two first files | one answer per key and no work after it, no work for what arrives after a revocation, active systems are certified, an answer has its evidence |
| `Journeys` | each of the seven journeys, three requests of which two overlap, two keys, any of them cut off | shown as done implies accepted, accepted implies recorded (submissions excepted), nothing pending without a cut |

One more run shows the code against what the repository says of it; the quotation is in `PROJECT.json`, `findings`.

| Run | Violated | Scenario |
|---|---|---|
| `TwoRunners` | `OneExecutor` | the executor outlasts the lease, nobody heartbeats, the sweep and a second runner follow; two executors work at once |

Two statements of the repository are refuted by TLC without a run of their own. `SelectionWaitsForRecovery`, with the constants of `MissionSequence` under
`RebuildingSpec` (a mission fails, the next command rebuilds the queue, a second run is begun beside the failed one); and `RejectionStaysVisible`, with
those of `Journeys` and `Journey = { "OPPORTUNITY" }`. Both are quoted above at their modules.

Some assumptions of the passing runs are needed, and TLC refutes the property without them: `NoLostUpdate` with three processes of
which one dies holding the lock (two waiters judge it stale, the second unlinks the lock the first has just made);
`OneGrantPerEpoch` with two callers (the second saves AUTHORIZED over a granted epoch); `FixesAreCounted` when a command resumes
beside the monitor; `ClaimHolds` with `Late = TRUE`, and with two processes `ImplementsOutbox`
too: a call that outlives its claim saves its outcome over another's.

**Bounds.** Interference between runs is pairwise (a lease check, an active-run check), so two runs suffice for
it; they are interchangeable, hence the symmetry. `LeaseTtl = 1` gives the three states that are told
apart: absent, healthy, expired. Two commits tell exact from stale evidence. `MaxStages` 1, 2 or 3: the stage rules concern
one stage, or an old stage beside a new one, and a mission that is executed, swept and executed again opens three; `Acceptance` has room for all the stages of two verifications. `FunctionalRun` has two
dimensions, an ordinary one and PREVIEW, which has a guard of its own, so that evidence may cover the policy in part. Three missions are a dependency, which is the gated one, its
dependent and a bystander. Two processes and one crash give the store its takeover of a dead holder's lock. Three epochs are
one to be exhausted, its successor, and one after an abandoned authorization. Four commits are the first, a fix, a foreign push and
a merge commit. Two launches are a verification and its repetition beside what the first left behind; one mishap at a time keeps
the cause of a counterexample readable and two independent ones out. Two delivery calls are a holder and a contender; one slot makes
the bulkhead turn the second away. Four arrivals are two overlapping requests, a repetition and a revocation. Three journey requests
are two that overlap and the one before, or after, them.
The passing runs between them take every disjunct of their next-state relations; the proofs then remove the bounds.

**Symmetry and properties.** Symmetry is used only in runs whose temporal properties are of the form `[][A]_v` or the safety part of a
refinement, for which it is sound; the runs with liveness properties use none.

**Fairness.** The code schedules little by itself, and the liveness properties ask for no more than this.
`ValidationProgress` (`FairSpec`): a monitor or terminal process that lives takes its next step, and its finite waits end (the
delay before an infrastructure retry, the wait for CI of a merged revision, for which strong fairness is needed because polls interrupt
them); the provider starts the checks of an open pull request and checks end; time passes for a lease nobody renews; the operator opens
PBOS again while no monitor is alive, and opening sweeps. Without the last, a crashed monitor leaves the run VALIDATING for good.
`Delivery` (`FairSpec`): calls in progress go on, a handler answers or times out, the clock advances, and whoever queued a record calls
`deliver` again, which the engine never does by itself. `Acceptance` (`AcceptanceFairSpec`): the kernel's own steps go on and its timers
fire (`TimeOut`, `Kill`, `Unhealthy`); nothing is asked of the application, of the commands it runs, or of the operator, who may never
come back. The other runs claim no liveness.

**Mutants.** Every property of a passing run has a mutated definition in the modules (comments that begin "Mutant:"),
each a bug one could plausibly write, under which TLC finds that property violated.

## 4. What is proved

The proofs hold for every value of the constants allowed by `ConstantAssumption` (sets of
runs, repositories and commits of any size, any stage types, any lease time, repair limit and
stage bound), `StoreAssumption`, `RecoveryAssumption`, `MonitorAssumption`, `DeliveryAssumption`, `QueueAssumption`, `RunnerAssumption`, `AcceptanceAssumption` (the kernel's stages are among the stage types of
the runtime), `ControlPlaneAssumption` (the files the service may start from are `Consistent`, as every file it saves is shown to be)
and `JourneysAssumption` (the journeys are among the seven, the mark of an absent row is no value, and a journey has finitely many subjects and tasks).

**ProductionRuntimeProofs.** The inductive invariant is

    IInv == TypeOK /\ LeaseHolder /\ LaunchHoldsLease /\ ActiveStageRuns

and `NextKeepsIInv` shows each action preserves it, with one lemma per kind of action. The parts
need each other: that a run being launched is leased needs `LeaseHolder` to know which statuses lose a lease;
`resume` may skip taking a lease only because a RECOVERING or PAUSED run cannot have one; `failStage` and the sweep
touch a stage by `active[r]`, which must be an index of `stages[r]`. Consequences: `TypeCorrect`,
`LeasesFollowExecution`, `LaunchIsLeased`, `ActiveStageIsRunning`, and `BeginAlwaysLeases`: in every state that satisfies the
invariant, the check `begin` makes for an active run implies the check `acquireLease` makes for a healthy lease, so a run is
never saved and then refused its lease.

The step properties follow from `IInv` and lemmas that say once what a step can do to
a status (`StatusStep`), a lease (`LeaseStep`), completed stages (`CompletedKept`) and the entry of a functional run into
approval (`FunctionalEntry`): `CompletedStagesAreFinal`, `FunctionalRunsAreVerified` (an invariant, inductive once completed
stages are known to stay), `CertificationIsExact` (whatever the policy, and however evidence, plan and commit have moved), `SettledRunsStaySettled`, `TableIsRespected`, `RivalsNeedALateRenewal`.
`ServiceImplementsLifecycle` proves the refinement of `RunLifecycle`: each method is one abstract action or
a stutter; `CommitRefines` covers everything that goes through `commitTransition`.

**DurableStateProofs: the state store.** `StoreTypeCorrect` holds with crashes and stalls. `StoreIsExclusive`, `StoreLosesNothing` and
`StoreIsAtomic` assume `Sheltered`: no living holder keeps the lock beyond the 30 seconds (`Stalls = FALSE`), and either nobody
dies, for any number of processes, or there are at most two processes, any of which may die at any step. In the invariant `SInv` a lock file
is stale, or about to be removed, only if its holder is dead; `Stored` says which of a process's updates the file has, and leaves open whether that of a
process that died is among them. `LastOneSteals` is why two processes are safe: whoever is about to unlink a stale lock file is then the only one
alive, so nobody can have opened the lock between its look and its unlink. The hypothesis is needed in both halves: with one crash and *three* processes
TLC refutes `NoLostUpdate` (two of them see the dead holder's file, and the second removes the first one's), and with two processes and `Stalls` as well.

**DurableStateProofs: the recovery authority.** For any number of callers the invariant `TypedBudget` gives `TypeCorrect` and `GrantsAreNotStacked`:
activation checks the budget and raises the limit in one call of the service, so the budget is exact whatever callers do to the epochs.
The other properties need `Alone`, at most one process, which may crash and begin again. Then `AloneInv` says for
every program location what the caller has established (`Established`), that epochs are numbered in order and only the last
can be open (`Ordered`), and that an exhausted epoch still named by the run means a stopped run; this is what keeps
`completeActive` from overwriting an outcome. It gives `EpochsGrantOnce`, `WaitingRunsAreBlocked`, `ActiveEpochsAreCurrent`,
`OutcomesAreKept`. Without `Alone` TLC refutes the first of them.

**ValidationMonitorProofs.** For any number of monitors, terminals and commits, with crashes and every mishap. The invariant is

    IInv == EngineInv /\ RunTypeOK /\ Leased /\ Merged

`EngineInv` types the engine and says what the record each process holds is worth: one that says READY names a head that passed, one that says
PUSHED a revision that exists (`Sound`), and a process at a place holds the record that place needs, or the merge it relies on has happened (`Needs`). What has passed stays passed and what is merged stays merged, which is all that the steps of others
can do to it. `Leased` (only a run under work is leased) is what the lifecycle needs. `RunStep` then names the few things one step can do to a run's status and lease, and every
caller's step is shown to be one of them, so `ValidationFollowsLifecycle` holds without any assumption on who else is at work, and so does that a certified
run's change is merged (`Merged`). Three statements need one. `CertifiedRunsAreMerged`, which adds that the mission is complete, assumes one terminal:
a second one whose staging migration fails while the first certifies blocks the mission of the certified run (`CInv` says that no terminal is in a place from which it could).
`ApprovedRunsPassed` assumes `Unrivalled`: a run has one monitor, or one terminal from which monitors are launched. With one
monitor `AInv` says that a monitor about to approve is still at the commit whose checks it saw pass (`Warranted`); with more, `LInv` has to show
that the launcher starts no second monitor beside a live one, and it does so only from one terminal, since the look at the job file
and the start are apart. Batches approve without comparing commits and are excluded by the property itself.
`OneTerminalCountsFixes` assumes one terminal: `FInv` says that the monitor's loop and the operator's command are not both in the engine (`Apart`) and that
the attempts plus the pushes being recorded are the fixes. TLC shows that the assumption is needed: a second terminal that attaches between another's look
and its start resumes beside the new monitor, both save the run they read, and one attempt is lost.
Whether `ApprovedRevisionPassed` holds with two monitors *and* two terminals is open: no proof, and TLC finds no counterexample with one monitor and two terminals
but does not finish with two.

**ReliableDeliveryProofs.** For any number of records, calls and processes, and assuming `~Late` (no call outlives its claim):
`IInv == Typed /\ Claims /\ Unspent /\ Counted`. `Claims` says that the file holds exactly the copy of the one call that works on a record, which is
what makes every save of a copy harmless; `Unspent` that a call which is about to start a handler has attempts left;
`Counted` relates the handlers started to the attempts on record, those lost and those in progress. `ClaimsExclude`, `AttemptsAreBounded` and
`EngineImplementsOutbox` follow. The invariant is inductive only with all four parts: without `Claims` a stale copy brings attempts back.

**FunctionalAcceptanceProofs.** For any plan, commits, number of launches, limits and faults. `KInv` joins the runtime's `IInv`, the types of
the verification and the order of its steps (`Sequence`). Each step of the composition is one call of the runtime or leaves its
variables alone (`Calls`), so `IInv` carries over without being proved again: `AcceptanceKeepsRuntime` and
`AcceptanceRefinesRuntime`, by which every theorem about the runtime's steps holds of verified runs.
`RecordedEvidenceIsExact` rests on `ObservesPlan`: without a mishap only this turn's application is alive, whatever listens answers with the plan's
commit, HEAD is that commit from the comparison on, and something was seen once the probes have succeeded.
`CompletedStagesAreDone` rests on `OwnStage`: a kernel stage that is open is the one of the kernel's phase, because the terminal's
calls end stages and open none of the kernel's. `VerificationSettlesTheRun` follows the last step of a verification through acceptance and both
catch blocks, where the status table lets the run be blocked from every status under work.

**MissionRunnerProofs.** For any number of processes: `Typed`, and that each step calls at most one method of the service
(`StepTyped`), hence `RunnersUseTheService` (`RunnerSpec => Spec`): the theorems of the two modules above hold of the runs of missions.
The rest needs `Alone`, one runner at a time, beside any sweeps, pauses, resumes, cancellations and reconciliations; the run `TwoRunners`
is what happens without it. `RunnerAssumption` and `QueueAssumption` say that `EXECUTION` is a stage type, that all runs are of one repository and that missions are listed once and
depend on each other without cycles. The invariant `Safe` has three parts. `RunsSafe`: a mission has at most one run that opened an execution
stage and was not cancelled after it (`Spent`); the queue accounts for that mission (in hand or complete), unless nobody takes the run up again (`LetGo`: the second prompt may write an
old status back over its mission); and a run that has failed, is in execution or was swept
from it has its mission *in hand*; that is why nothing else can be begun beside a run that may be retried. `QueueSafe`: one mission in hand, its dependencies
complete, no complete mission with a blocker. `Place(p)`: what the process may rely on at each location. The steps others take
are all `Mild` (they only take work away from a run), so one lemma covers them; the acyclic dependencies are needed where a mission that was completed
is put back in hand (`Blame` after `Settle` was refused).

**ControlPlaneProofs.** For any number of systems, requests, keys and payloads.
`IInv == Typed /\ FilesConsistent /\ CopiesAgree /\ AnswersAreClaims /\ EventsPrecede`. `FilesConsistent` covers the records requests are *about to save*, which is
what makes stale writes over one another harmless for `ActiveSystemsAreCertified`; `AnswersAreClaims` (an answer is the claim in the file) gives `OneAnswerForAKey`
and `AnsweredKeysDoNoWork`; `EventsPrecede` (a runtime operation is done only with its event saved) gives `EvidenceIsSavedFirst`; `CopiesAgree` (the one copy knows
no claim the file does not have) carries both over a restore. `RevokedSystemsDoNoWork` has an
invariant of its own, `OnTheWay`: the operator only revokes, a request that was admitted found no record of its key and there is none yet, and a late one is
at no place on the way to a handler. It holds although records saved by other requests may overwrite the revoked one, because the registry reads
the list of revocations over them.

**JourneysProofs.** For any number of requests, keys, tasks and matches, each request stopping wherever it will. The invariant is

    JourneysInv == TypeOK /\ Known /\ AcademicInv /\ ApplicationInv /\ OpportunityInv /\ SupportInv
                   /\ MessagingInv /\ NotificationInv /\ OnboardingInv

`Known` says that every accepted event is one the journeys send. The seven parts have the same four conjuncts. `Facts`: what the steps a request has taken so far have left
in the tables, which has to survive the steps of every other request; it does because rows are staged before they are published and
never taken back (`Grows`). `Recorded`: an event that is accepted has its record, since `Publish` comes after the step that stages it; a submission alone stages nothing that must exist.
`Accepted`: what is delivered has its event, since the finishing step comes after `Publish`. `Pending`: unless a request was lost, what is
pending is in the hands of a request that is still to finish it (`Going`, `Dealing`, `Welcoming`); overlapping requests for one record may both finish it, and the later one that stages it again is
then the one that will. `Touches` says that a step writes the rows of its own journey only, so each part is shown for its journey's steps and framed over the others.
`DeliveredIsAccepted`, `AcceptedIsRecorded` and `AnsweredLeavesNothingPending` are read off the invariant. None is inductive alone: a
finishing step is safe only because of the request's own `Facts`, and these only because no other request takes a row back.

**Proved and no longer checked by a run of their own** (the invariants `TypeOK`, `LaunchHoldsLease`, `ActiveStageRuns`, `Exclusive`, `ClaimHolds`,
`WaitingRunStaysBlocked`): TLC agreed with each before it was proved.

**Only model-checked**: the liveness properties `ValidationEnds`, `ResultsAreHonoured`, `Settles` and `VerificationEnds`.
**Out of the prover's reach**: liveness under fairness, ENABLED, and induction over data (what a recursive
definition computes for all inputs); these stay with TLC.

## 5. What is not modelled, and why

- The windows between the saves of one service method. A method is one step in `ProductionRuntime`; two processes can
  nevertheless both pass `begin`'s check. The atomicity of one save is what `JsonStateStore` is about.
- In `ProductionRuntime`, any increase of the repair limit: `RecoveryAuthority` has it, over a reduced run; the two are not
  composed yet. `registerRecoveryRemediation`, and the snapshot of the run an epoch carries.
- Ids, timestamps, summaries, events, file records, metrics and health: written and never read by a guard.
- Evidence that fails its shape check or comes from a source that is not executable.
- What an executor does in the repository: the git work and the content it generates. The checkout that executors, kernel and
  monitor share appears only as `head` in `FunctionalAcceptance`, where any command may move it.
- Two terminals beside one monitor, and two monitors of one run (the launcher starts a second only if the first is dead).
- The text of prompts, commands, reports, diagnoses, journeys and documents, and the checks of their shape.
- Key files, credentials, signatures, rate limits and metrics: values compared once, at one place.
- The components of 1.2 that `PROJECT.json` lists as not modelled: their state lives in one process and is touched by one
  caller in sequence, or they are pure functions; they are next in the plan.
- The components of 1.3, which keep no state.

## 6. Plan

1. Proofs: `ApprovedRevisionPassed` with two monitors and two terminals, the one case in which a safety invariant of a run is neither proved nor refuted.
2. The executors' git work on the shared checkout (branch, commit, push, pull request) as step sequences, composed with `MissionRunner`: two
   executors, a crash between commit and push, a run taken up again under the same branch.
3. The windows between the saves of one service method, by composing `ProductionRuntime` with `AtomicStore`.
4. Pure algorithms against reference definitions on bounded inputs: planner order and prioritisation, discovery's question
   selection, pipeline stage order; then lifecycle models of the pipeline runtime, runtime deployment and evolution.
5. `BuildAuthority`: no decision outside its grant; revocation is final.

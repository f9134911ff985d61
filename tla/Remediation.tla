------------------------------ MODULE Remediation ------------------------------
(***************************************************************************)
(* ResumableRemediationEngine.resume, GitHubCheckCollector and              *)
(* UniversalRemediationHandler (validation-automation/): one remediation    *)
(* run against one pull request.  The monitor of the run and the commands   *)
(* of an operator both call resume, each in a process of its own; a call    *)
(* reads the run, awaits the provider, and saves the whole record it read   *)
(* with its changes, so what another process saved meanwhile is gone.       *)
(*                                                                          *)
(* at[p] is where process p is in its call, copy[p] the record it holds,    *)
(* seen[p] what it collected.  The provider is external: head is the commit *)
(* its checks are about (the branch's, then the merge commit), checks sums  *)
(* up the check runs of each commit, asked the workflows PBOS asked for and *)
(* the provider has yet to start.  Messages, logs and evidence are left     *)
(* out; a blocker is kept only where the next resume looks at it.           *)
(***************************************************************************)
EXTENDS Naturals, FiniteSets

CONSTANTS Process,
          MaxCommit,        \* bound on the commits of the pull request
          MaximumAttempts,  \* run.maximumAttempts
          MaximumRetries,   \* run.maximumInfrastructureRetries
          Mishaps,          \* what may go wrong, in one behaviour one of them
          MaxFaults         \* bound on how often it does

\* Commits are numbered in the order the provider sees them.
Commit   == 1 .. MaxCommit
NoCommit == 0

ASSUME RemediationAssumption ==
  /\ MaxCommit \in Nat \ { 0 }
  /\ MaximumAttempts \in Nat
  /\ MaximumRetries \in Nat
  /\ MaxFaults \in Nat
  /\ Mishaps # {}
  /\ Mishaps \subseteq { "NOTHING", "ERROR", "SKIP", "FOREIGN", "CRASH", "LIMIT", "EXPIRY",
                         "OPERATOR", "COMMAND" }

VARIABLES pr,      \* the pull request: OPEN, MERGED or CLOSED
          head,
          latest,  \* the last commit the provider has seen
          checks,
          asked,   \* the commits whose workflow is to start once more
          passed,  \* the commits whose checks have passed
          fixes,   \* how many commits the engine has pushed
          rem,     \* the durable remediation run
          at, copy, seen,
          mishap,  \* what goes wrong in this behaviour
          faults   \* ... and how often it did

provider  == <<pr, head, latest, checks, asked, passed, fixes>>
callVars  == <<at, copy, seen>>
remediationVars == <<provider, rem, callVars, mishap, faults>>

Verdict == { "NONE", "PENDING", "PASSED", "FAILED", "SKIPPED", "INFRASTRUCTURE_WAIT" }

RemediationState == { "WAITING_FOR_CHECKS", "WAITING_FOR_INFRASTRUCTURE", "REMEDIATION_REQUIRED",
                      "REMEDIATION_PUSHED", "READY_FOR_CERTIFICATION", "BLOCKED" }

RemediationRun ==
  [ state      : RemediationState,
    headSha    : Commit \cup { NoCommit },
    attempt    : Nat,
    revision   : Commit \cup { NoCommit },   \* remediationRevision
    retries    : 0 .. MaximumRetries,        \* infrastructureRetries
    dispatched : Commit \cup { NoCommit },   \* mergedValidationRevision
    lifecycle  : { "UNKNOWN", "OPEN", "MERGED", "CLOSED" },
    apply      : BOOLEAN ]                   \* blocked by a failed application

Observation == [pr : { "OPEN", "MERGED", "CLOSED" }, head : Commit, verdict : Verdict]

Engine == { "read", "view", "decide", "asked", "propose", "push", "answered", "failed" }

RemediationTypeOK ==
  /\ pr     \in { "OPEN", "MERGED", "CLOSED" }
  /\ head   \in Commit
  /\ checks \in [Commit -> Verdict]
  /\ latest \in Commit
  /\ asked  \subseteq Commit
  /\ passed \subseteq Commit
  /\ fixes  \in 0 .. MaxCommit
  /\ rem    \in RemediationRun
  /\ copy   \in [Process -> RemediationRun]
  /\ seen   \in [Process -> Observation]
  /\ mishap \in Mishaps
  /\ faults \in 0 .. MaxFaults

\* start
Started ==
  [ state |-> "WAITING_FOR_CHECKS", headSha |-> NoCommit, attempt |-> 0, revision |-> NoCommit,
    retries |-> 0, dispatched |-> NoCommit, lifecycle |-> "UNKNOWN", apply |-> FALSE ]

Unseen == [pr |-> "OPEN", head |-> 1, verdict |-> "NONE"]

RemediationInit ==
  /\ pr = "OPEN" /\ head = 1 /\ latest = 1 /\ asked = {} /\ passed = {} /\ fixes = 0
  /\ checks = [c \in Commit |-> "NONE"]
  /\ rem    = Started
  /\ copy   = [p \in Process |-> Started]
  /\ seen   = [p \in Process |-> Unseen]
  /\ mishap \in Mishaps /\ faults = 0

Goto(p, there) == at' = [at EXCEPT ![p] = there]

Mishap(m) == mishap = m /\ faults < MaxFaults /\ faults' = faults + 1

-----------------------------------------------------------------------------
(* The provider *)

Checked(c, v) == checks' = [checks EXCEPT ![c] = v]

\* The workflow of the head starts, by itself on a new commit or because PBOS asked; on a
\* merge commit it does or not.
ChecksStart ==
  /\ checks[head] = "NONE" \/ (checks[head] # "PENDING" /\ head \in asked)
  /\ asked' = asked \ { head }
  /\ Checked(head, "PENDING")
  /\ UNCHANGED <<pr, head, latest, passed, fixes, rem, callVars, mishap, faults>>

\* A workflow goes on when its commit is the head no more.
ChecksPass ==
  \E c \in Commit :
    /\ checks[c] = "PENDING" /\ Checked(c, "PASSED")
    /\ passed' = passed \cup { c }
    /\ UNCHANGED <<pr, head, latest, asked, fixes, rem, callVars, mishap, faults>>

\* They fail, end before any step ran, or are all skipped.
ChecksEnd ==
  \E c \in Commit :
    /\ checks[c] = "PENDING"
    /\ \/ \E v \in { "FAILED", "INFRASTRUCTURE_WAIT" } : Checked(c, v) /\ UNCHANGED faults
       \/ Mishap("SKIP") /\ Checked(c, "SKIPPED")
    /\ UNCHANGED <<pr, head, latest, asked, passed, fixes, rem, callVars, mishap>>

\* Somebody reruns them.
ChecksRerun ==
  /\ checks[head] \in { "PASSED", "FAILED", "SKIPPED" }
  /\ Mishap("FOREIGN") /\ Checked(head, "PENDING")
  /\ UNCHANGED <<pr, head, latest, asked, passed, fixes, rem, callVars, mishap>>

\* A commit arrives on the pull request's branch, by the engine (n = 1) or not (0).
Arrives(n) ==
  /\ latest < MaxCommit
  /\ latest' = latest + 1
  /\ head'   = IF pr = "OPEN" THEN latest' ELSE head
  /\ fixes'  = fixes + n
  /\ UNCHANGED <<pr, checks, asked, passed>>

ForeignPush ==
  /\ pr = "OPEN" /\ Mishap("FOREIGN")
  /\ Arrives(0)
  /\ UNCHANGED <<rem, callVars, mishap>>

\* The branch is squashed into a commit of the base branch.
Squash ==
  /\ pr = "OPEN" /\ latest < MaxCommit
  /\ pr' = "MERGED"
  /\ latest' = latest + 1 /\ head' = latest'
  /\ UNCHANGED <<checks, asked, passed, fixes>>

\* Somebody merges or closes the pull request outside PBOS.
ForeignDecision ==
  /\ pr = "OPEN" /\ Mishap("FOREIGN")
  /\ Squash \/ (pr' = "CLOSED" /\ UNCHANGED <<head, latest, checks, asked, passed, fixes>>)
  /\ UNCHANGED <<rem, callVars, mishap>>

Provider ==
  ChecksStart \/ ChecksPass \/ ChecksEnd \/ ChecksRerun \/ ForeignPush \/ ForeignDecision

-----------------------------------------------------------------------------
(* resume *)

Save(p, r) == rem' = r /\ copy' = [copy EXCEPT ![p] = r]

\* isRetryableRemediationApplicationFailure
Retryable(r) ==
  /\ r.state = "BLOCKED" /\ r.apply
  /\ r.lifecycle = "OPEN" /\ r.attempt < MaximumAttempts

\* A blocked run is final while its pull request is not merged, unless a fix
\* could not be applied.
Final(r) == r.state = "BLOCKED" /\ r.lifecycle \in { "OPEN", "CLOSED" } /\ ~Retryable(r)

Forget(p) == seen' = [seen EXCEPT ![p] = Unseen]

\* The record, and the pull request with its head ...
Collect(p) ==
  /\ at[p] = "read"
  /\ copy' = [copy EXCEPT ![p] = rem]
  /\ IF Final(rem) THEN Goto(p, "answered") /\ UNCHANGED <<seen, faults>>
     ELSE \/ /\ seen' = [seen EXCEPT ![p] = [pr |-> pr, head |-> head, verdict |-> "NONE"]]
             /\ Goto(p, "view")
             /\ UNCHANGED faults
          \/ Mishap("ERROR") /\ Goto(p, "failed") /\ UNCHANGED seen
  /\ UNCHANGED <<provider, rem, mishap>>

\* ... then the check runs of that commit, the head by now or not.
CollectChecks(p) ==
  /\ at[p] = "view"
  /\ \/ /\ seen' = [seen EXCEPT ![p].verdict = checks[seen[p].head]]
        /\ Goto(p, "decide")
        /\ UNCHANGED faults
     \/ Mishap("ERROR") /\ Goto(p, "failed") /\ Forget(p)
  /\ UNCHANGED <<provider, rem, copy, mishap>>

Observed(p) == [copy[p] EXCEPT !.lifecycle = seen[p].pr, !.headSha = seen[p].head]

Saved(p, state) == [Observed(p) EXCEPT !.state = state, !.apply = FALSE]

\* A save that ends the call.
Settles(p, r) ==
  /\ Save(p, r) /\ Forget(p)
  /\ Goto(p, "answered")
  /\ UNCHANGED <<mishap, faults>>

Open(p)      == seen[p].pr = "OPEN"
Merge(p)     == seen[p].pr = "MERGED"
Uncovered(p) == Merge(p) /\ seen[p].verdict \in { "NONE", "SKIPPED" }
Running(p)   == seen[p].verdict = "PENDING" \/ (Open(p) /\ seen[p].verdict = "NONE")

Closed(p) ==
  /\ seen[p].pr = "CLOSED"
  /\ Settles(p, Saved(p, "BLOCKED"))
  /\ UNCHANGED provider

\* CI of the merged revision is asked for; the base branch may have advanced.
RequestMergedValidation(p) ==
  /\ Uncovered(p) /\ copy[p].dispatched # seen[p].head
  /\ \/ /\ asked' = asked \cup { seen[p].head } /\ Goto(p, "asked")
        /\ UNCHANGED <<rem, copy, seen, faults>>
     \/ /\ UNCHANGED asked
        /\ Save(p, Saved(p, "BLOCKED")) /\ Goto(p, "answered")
        /\ Mishap("ERROR") /\ Forget(p)
  /\ UNCHANGED <<pr, head, latest, checks, passed, fixes, mishap>>

\* The request is on record once the provider has taken it.
RecordRequest(p) ==
  /\ at[p] = "asked"
  /\ Settles(p, [Saved(p, "WAITING_FOR_CHECKS") EXCEPT !.dispatched = seen[p].head])
  /\ UNCHANGED provider

\* ... and waited for, not forever.
AwaitMergedValidation(p) ==
  /\ Uncovered(p) /\ copy[p].dispatched = seen[p].head
  /\ \E state \in { "WAITING_FOR_CHECKS", "BLOCKED" } : Settles(p, Saved(p, state))
  /\ UNCHANGED provider

AwaitChecks(p) ==
  /\ Running(p) \/ (Open(p) /\ seen[p].verdict = "SKIPPED")
  /\ seen[p].pr # "CLOSED"
  /\ Settles(p, Saved(p, "WAITING_FOR_CHECKS"))
  /\ UNCHANGED provider

Interrupted(p) == seen[p].verdict = "INFRASTRUCTURE_WAIT" /\ seen[p].pr # "CLOSED"

\* waitForInfrastructure: the delay since the last retry is not over, the retries
\* are spent, or the workflow is to be run again, so it is still interrupted and the
\* request not refused.
AwaitInfrastructure(p) ==
  /\ Interrupted(p) /\ copy[p].retries > 0
  /\ Settles(p, Saved(p, "WAITING_FOR_INFRASTRUCTURE"))
  /\ UNCHANGED provider

\* Mutant: the retries are never spent.
NeverExhaust(p) == FALSE

ExhaustInfrastructure(p) ==
  /\ Interrupted(p) /\ copy[p].retries >= MaximumRetries
  /\ Settles(p, Saved(p, "BLOCKED"))
  /\ UNCHANGED provider

RetryInfrastructure(p) ==
  /\ Interrupted(p) /\ copy[p].retries < MaximumRetries
  /\ \/ UNCHANGED asked
     \/ checks[seen[p].head] = "INFRASTRUCTURE_WAIT" /\ asked' = asked \cup { seen[p].head }
  /\ Settles(p, [Saved(p, "WAITING_FOR_INFRASTRUCTURE") EXCEPT !.retries = @ + 1])
  /\ UNCHANGED <<pr, head, latest, checks, passed, fixes>>

Ready(p) ==
  /\ seen[p].verdict = "PASSED" /\ seen[p].pr # "CLOSED"
  /\ Settles(p, Saved(p, "READY_FOR_CERTIFICATION"))
  /\ UNCHANGED provider

Failing(p)   == seen[p].verdict = "FAILED" /\ seen[p].pr # "CLOSED"
Exhausted(p) == copy[p].attempt >= MaximumAttempts

\* The same failure on the same revision; a log that differs makes it another one.
Repeated(p) ==
  /\ copy[p].attempt > 0 /\ copy[p].headSha = seen[p].head
  /\ ~Retryable(copy[p])

GiveUp(p) ==
  /\ Failing(p)
  /\ Exhausted(p) \/ Repeated(p) \/ Merge(p)
  /\ Settles(p, Saved(p, "BLOCKED"))
  /\ UNCHANGED provider

Require(p) ==
  /\ Failing(p) /\ Open(p) /\ ~Exhausted(p)
  /\ Save(p, [Observed(p) EXCEPT !.state = "REMEDIATION_REQUIRED"])
  /\ Goto(p, "propose") /\ Forget(p)
  /\ UNCHANGED <<provider, mishap, faults>>

Decide(p) ==
  /\ at[p] = "decide"
  /\ \/ Closed(p) \/ RequestMergedValidation(p) \/ AwaitMergedValidation(p) \/ AwaitChecks(p)
     \/ AwaitInfrastructure(p) \/ ExhaustInfrastructure(p) \/ RetryInfrastructure(p)
     \/ Ready(p) \/ GiveUp(p) \/ Require(p)

\* propose finds no pack for the failure, or apply checks the branch out, commits a
\* fix and pushes it, or fails; an error of the provider ends the call.
Apply(p) ==
  /\ at[p] = "propose"
  /\ \/ /\ Settles(p, [copy[p] EXCEPT !.state = "BLOCKED", !.apply = FALSE])
        /\ UNCHANGED provider
     \/ /\ Arrives(1) /\ copy' = [copy EXCEPT ![p].revision = latest']
        /\ Goto(p, "push")
        /\ UNCHANGED <<rem, seen, mishap, faults>>
     \/ /\ Save(p, [copy[p] EXCEPT !.state = "BLOCKED", !.apply = TRUE])
        /\ Goto(p, "answered") /\ Mishap("ERROR")
        /\ UNCHANGED <<provider, seen, mishap>>
     \/ Mishap("ERROR") /\ Goto(p, "failed") /\ UNCHANGED <<provider, rem, copy, seen, mishap>>

\* Mutant: the attempt is not counted.
RecordPushUncounted(p) ==
  /\ at[p] = "push"
  /\ Settles(p, [copy[p] EXCEPT !.state = "REMEDIATION_PUSHED", !.apply = FALSE])
  /\ UNCHANGED provider

RecordPush(p) ==
  /\ at[p] = "push"
  /\ Settles(p, [copy[p] EXCEPT !.state = "REMEDIATION_PUSHED", !.attempt = @ + 1, !.apply = FALSE])
  /\ UNCHANGED provider

Resume(p) ==
  Collect(p) \/ CollectChecks(p) \/ Decide(p) \/ RecordRequest(p) \/ Apply(p) \/ RecordPush(p)
=============================================================================

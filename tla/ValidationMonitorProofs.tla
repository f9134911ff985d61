------------------------ MODULE ValidationMonitorProofs ------------------------
(***************************************************************************)
(* Validation for any number of monitors, terminals, commits, attempts,     *)
(* retries and mishaps: the types of the state, that what is certified is   *)
(* merged, that the run follows RunLifecycle; and, where one terminal or one *)
(* monitor is at work, that what is approved has passed and that fixes are  *)
(* counted.                                                                 *)
(***************************************************************************)
EXTENDS ValidationMonitor, FiniteSetTheorems, TLAPS

-----------------------------------------------------------------------------
(* The inductive invariant *)

IsReady(r)  == r.state = "READY_FOR_CERTIFICATION"
IsPushed(r) == r.state = "REMEDIATION_PUSHED"

\* A record that is ready names a commit that has passed, and one that was pushed names
\* the commit it was pushed as.
Sound(r) ==
  /\ IsReady(r)  => r.headSha \in passed
  /\ IsPushed(r) => r.revision \in Commit

\* What a process at a location relies on, of the record it holds and of the pull request.
Needs(there, r) ==
  /\ there = "push"                              => r.revision \in Commit
  /\ there \in { "recover", "restart" }          => IsReady(r) \/ IsPushed(r)
  /\ there = "rebind"                            => IsPushed(r)
  /\ there \in { "approve", "verify", "revive" } => IsReady(r)
  /\ there = "certify"                           => pr = "MERGED"

EngineInv ==
  /\ RemediationTypeOK
  /\ at \in [Process -> Location]
  /\ fixes < latest
  /\ \A c \in Commit : checks[c] = "PASSED" => c \in passed
  /\ \A p \in Process : seen[p].verdict = "PASSED" => seen[p].head \in passed
  /\ Sound(rem)
  /\ \A p \in Process : Sound(copy[p]) /\ Needs(at[p], copy[p])

RunTypeOK ==
  /\ kind     \in Kinds
  /\ status   \in Status
  /\ lease    \in { "NONE", "HEALTHY", "EXPIRED" }
  /\ attempts \in 0 .. RepairLimit
  /\ stage    \in { "NONE" } \cup Stages
  /\ checkpoint \in { "NONE", "RUN_START" } \cup Stages
  /\ commit   \in Commit
  /\ linked   \in BOOLEAN
  /\ mission  \in { "ACTIVE", "BLOCKED", "COMPLETE" }
  /\ job      \in { "NONE", "RUNNING", "COMPLETED", "BLOCKED" }
  /\ monitor  \in Monitor \cup { NoMonitor }
  /\ batch    \in BatchState
  /\ aim      \in [Command -> { "RESUME", "APPROVE" }]
  /\ released \in Commit \cup { NoCommit }

\* Only a run under work is leased.
Leased == lease # "NONE" => status \in Pausable

\* Only what is merged is certified.
Merged == status = "CERTIFIED" => pr = "MERGED"

IInv == EngineInv /\ RunTypeOK /\ Leased /\ Merged

-----------------------------------------------------------------------------
(* The engine *)

LEMMA SoundWhilePassedGrows ==
  ASSUME NEW r, Sound(r), passed \subseteq passed' PROVE Sound(r)'
  BY DEF Sound, IsReady, IsPushed

LEMMA NeedsWhileMerged ==
  ASSUME NEW r, NEW there, Needs(there, r), pr = "MERGED" => pr' = "MERGED"
  PROVE  Needs(there, r)'
  BY DEF Needs, IsReady, IsPushed

\* The provider moves; nobody else does.
LEMMA ProviderKeeps ==
  ASSUME EngineInv, UNCHANGED <<rem, callVars, mishap>>,
         pr' \in { "OPEN", "MERGED", "CLOSED" }, pr = "MERGED" => pr' = "MERGED",
         head' \in Commit, latest' \in Commit, fixes' \in 0 .. MaxCommit, fixes' < latest',
         checks' \in [Commit -> Verdict], asked' \subseteq Commit,
         passed' \subseteq Commit, passed \subseteq passed',
         \A c \in Commit : checks'[c] = "PASSED" => c \in passed',
         faults' \in 0 .. MaxFaults
  PROVE  EngineInv'
<1>1. RemediationTypeOK'
  BY DEF EngineInv, RemediationTypeOK, callVars
<1>2. Sound(rem)' /\ \A p \in Process : Sound(copy[p])'
  BY DEF EngineInv, callVars, Sound, IsReady, IsPushed
<1>3. \A p \in Process : Needs(at[p], copy[p])'
  BY DEF EngineInv, callVars, Needs, IsReady, IsPushed
<1>4. \A p \in Process : seen'[p].verdict = "PASSED" => seen'[p].head \in passed'
  BY DEF EngineInv, callVars
<1> QED
  BY <1>1, <1>2, <1>3, <1>4 DEF EngineInv, callVars

LEMMA MishapBound ==
  ASSUME NEW m, RemediationTypeOK, Mishap(m) PROVE faults' \in 0 .. MaxFaults
  BY RemediationAssumption DEF RemediationTypeOK, Mishap

\* A commit arrives.
LEMMA ArrivalFacts ==
  ASSUME EngineInv, NEW n \in { 0, 1 }, Arrives(n)
  PROVE  /\ latest' \in Commit /\ head' \in Commit
         /\ fixes' \in 0 .. MaxCommit /\ fixes' < latest'
         /\ UNCHANGED <<pr, checks, asked, passed>>
  BY RemediationAssumption DEF EngineInv, RemediationTypeOK, Arrives, Commit

LEMMA SquashFacts ==
  ASSUME EngineInv, Squash
  PROVE  /\ pr' = "MERGED" /\ latest' \in Commit /\ head' \in Commit
         /\ fixes' \in 0 .. MaxCommit /\ fixes' < latest'
         /\ UNCHANGED <<checks, asked, passed>>
  BY RemediationAssumption DEF EngineInv, RemediationTypeOK, Squash, Commit

LEMMA ProviderKeepsEngine ==
  ASSUME EngineInv, Provider PROVE EngineInv'
<1>0. /\ head \in Commit /\ latest \in Commit /\ fixes \in 0 .. MaxCommit /\ fixes < latest
      /\ passed \subseteq Commit /\ asked \subseteq Commit /\ checks \in [Commit -> Verdict]
      /\ \A c \in Commit : checks[c] = "PASSED" => c \in passed
      /\ pr \in { "OPEN", "MERGED", "CLOSED" } /\ faults \in 0 .. MaxFaults
  BY DEF EngineInv, RemediationTypeOK
<1>1. CASE ChecksStart
  BY <1>0, <1>1, ProviderKeeps DEF ChecksStart, Checked, Verdict
<1>2. CASE ChecksPass
  BY <1>0, <1>2, ProviderKeeps DEF ChecksPass, Checked, Verdict
<1>3. CASE ChecksEnd
  <2>1. faults' \in 0 .. MaxFaults
    BY <1>0, <1>3, MishapBound DEF ChecksEnd, EngineInv
  <2>2. /\ checks' \in [Commit -> Verdict] /\ \A c \in Commit : checks'[c] = "PASSED" => c \in passed
        /\ UNCHANGED <<pr, head, latest, asked, passed, fixes, rem, callVars, mishap>>
    BY <1>0, <1>3 DEF ChecksEnd, Checked, Verdict
  <2> QED
    BY <1>0, <2>1, <2>2, ProviderKeeps
<1>4. CASE ChecksRerun
  <2>1. faults' \in 0 .. MaxFaults
    BY <1>4, MishapBound DEF ChecksRerun, EngineInv
  <2> QED
    BY <1>0, <1>4, <2>1, ProviderKeeps DEF ChecksRerun, Checked, Verdict
<1>5. CASE ForeignPush
  <2>1. faults' \in 0 .. MaxFaults
    BY <1>5, MishapBound DEF ForeignPush, EngineInv
  <2> QED
    BY <1>0, <1>5, <2>1, ProviderKeeps, ArrivalFacts DEF ForeignPush
<1>6. CASE ForeignDecision
  <2>1. faults' \in 0 .. MaxFaults
    BY <1>6, MishapBound DEF ForeignDecision, EngineInv
  <2>2. CASE Squash
    BY <1>0, <1>6, <2>1, <2>2, ProviderKeeps, SquashFacts DEF ForeignDecision
  <2>3. CASE pr' = "CLOSED" /\ UNCHANGED <<head, latest, checks, asked, passed, fixes>>
    BY <1>0, <1>6, <2>1, <2>3, ProviderKeeps DEF ForeignDecision
  <2> QED
    BY <1>6, <2>2, <2>3 DEF ForeignDecision
<1> QED
  BY <1>1, <1>2, <1>3, <1>4, <1>5, <1>6 DEF Provider

\* A save of a sound record that ends a call, and leaves the provider alone but for the
\* workflows it is asked to start.
LEMMA SaveKeeps ==
  ASSUME EngineInv, NEW p \in Process, NEW r \in RemediationRun, Sound(r),
         Save(p, r), NEW l \in { "answered", "propose" }, Goto(p, l), Forget(p) \/ UNCHANGED seen,
         UNCHANGED <<pr, head, latest, checks, passed, fixes, mishap>>, asked' \subseteq Commit,
         faults' \in 0 .. MaxFaults
  PROVE  EngineInv'
<1>1. RemediationTypeOK'
  <2>1. seen' \in [Process -> Observation]
    <3>1. Unseen \in Observation
      BY RemediationAssumption DEF Unseen, Observation, Commit, Verdict
    <3> QED
      BY <3>1 DEF EngineInv, RemediationTypeOK, Forget
  <2> QED
    BY <2>1 DEF EngineInv, RemediationTypeOK, Save
<1>2. at' \in [Process -> Location] /\ \A q \in Process : at'[q] = IF q = p THEN l ELSE at[q]
  BY DEF EngineInv, Goto, Location, Engine
<1>3. \A q \in Process : copy'[q] = IF q = p THEN r ELSE copy[q]
  BY DEF EngineInv, RemediationTypeOK, Save
<1>4. Sound(rem)' /\ \A q \in Process : Sound(copy[q])'
  BY <1>3 DEF EngineInv, Save, Sound, IsReady, IsPushed
<1>5. \A q \in Process : Needs(at[q], copy[q])'
  BY <1>2, <1>3 DEF EngineInv, Needs, IsReady, IsPushed
<1>6. \A q \in Process : seen'[q].verdict = "PASSED" => seen'[q].head \in passed'
  BY DEF EngineInv, RemediationTypeOK, Forget, Unseen
<1>7. fixes' < latest' /\ \A c \in Commit : checks'[c] = "PASSED" => c \in passed'
  BY DEF EngineInv
<1> QED
  BY <1>1, <1>2, <1>4, <1>5, <1>6, <1>7 DEF EngineInv

\* What a process saves is a record, whatever state it gives it.
LEMMA SavedIsRecord ==
  ASSUME EngineInv, NEW p \in Process, NEW state \in RemediationState
  PROVE  /\ Saved(p, state) \in RemediationRun
         /\ Saved(p, state).state = state
         /\ Saved(p, state).headSha = seen[p].head
         /\ Saved(p, state).retries = copy[p].retries
         /\ Saved(p, state).attempt = copy[p].attempt
         /\ Observed(p) \in RemediationRun
         /\ Observed(p).attempt = copy[p].attempt
  BY DEF EngineInv, RemediationTypeOK, RemediationRun, Observation, Saved, Observed

Waits == { "WAITING_FOR_CHECKS", "WAITING_FOR_INFRASTRUCTURE", "BLOCKED" }

\* A call that ends with nothing pushed and nothing ready.
LEMMA WaitKeeps ==
  ASSUME EngineInv, NEW p \in Process, NEW state \in Waits, Settles(p, Saved(p, state)),
         UNCHANGED provider
  PROVE  EngineInv'
<1>1. state \in RemediationState
  BY DEF Waits, RemediationState
<1>2. Sound(Saved(p, state))
  BY <1>1, SavedIsRecord DEF Sound, IsReady, IsPushed, Waits
<1>3. asked \subseteq Commit /\ faults \in 0 .. MaxFaults
  BY DEF EngineInv, RemediationTypeOK
<1> QED
  BY <1>1, <1>2, <1>3, SavedIsRecord, SaveKeeps DEF Settles, provider

\* A process changes its place, what it saw and its copy, but of what is shared
\* only the workflows the provider is asked to start.
LEMMA MoveKeeps ==
  ASSUME EngineInv, NEW p \in Process, NEW l \in Location, Goto(p, l),
         UNCHANGED <<pr, head, latest, checks, passed, fixes, rem, mishap>>,
         asked' \subseteq Commit, faults' \in 0 .. MaxFaults,
         NEW r \in RemediationRun, Sound(r), Needs(l, r), copy' = [copy EXCEPT ![p] = r],
         NEW o \in Observation, o.verdict = "PASSED" => o.head \in passed, seen' = [seen EXCEPT ![p] = o]
  PROVE  EngineInv'
<1>1. RemediationTypeOK'
  BY DEF EngineInv, RemediationTypeOK
<1>2. at' \in [Process -> Location] /\ \A q \in Process : at'[q] = IF q = p THEN l ELSE at[q]
  BY DEF EngineInv, Goto
<1>3. \A q \in Process : copy'[q] = IF q = p THEN r ELSE copy[q]
  BY DEF EngineInv, RemediationTypeOK
<1>4. Sound(rem)' /\ \A q \in Process : Sound(copy[q])'
  BY <1>3 DEF EngineInv, Sound, IsReady, IsPushed
<1>5. \A q \in Process : Needs(at[q], copy[q])'
  BY <1>2, <1>3 DEF EngineInv, Needs, IsReady, IsPushed
<1>6. \A q \in Process : seen'[q].verdict = "PASSED" => seen'[q].head \in passed'
  BY DEF EngineInv, RemediationTypeOK
<1>7. fixes' < latest' /\ \A c \in Commit : checks'[c] = "PASSED" => c \in passed'
  BY DEF EngineInv
<1> QED
  BY <1>1, <1>2, <1>4, <1>5, <1>6, <1>7 DEF EngineInv

LEMMA DecideKeeps ==
  ASSUME EngineInv, NEW p \in Process, Decide(p) PROVE EngineInv'
<1>0. /\ asked \subseteq Commit /\ faults \in 0 .. MaxFaults /\ seen[p].head \in Commit
      /\ copy[p] \in RemediationRun /\ Sound(copy[p]) /\ seen[p] \in Observation
      /\ copy = [copy EXCEPT ![p] = copy[p]] /\ seen = [seen EXCEPT ![p] = seen[p]]
      /\ (seen[p].verdict = "PASSED" => seen[p].head \in passed)
  BY DEF EngineInv, RemediationTypeOK, Observation
<1>1. CASE Closed(p)
  BY <1>1, WaitKeeps DEF Closed, Waits
<1>2. CASE RequestMergedValidation(p)
  <2>1. CASE /\ asked' = asked \cup { seen[p].head } /\ Goto(p, "asked")
             /\ UNCHANGED <<rem, copy, seen, faults>>
    <3>1. "asked" \in Location /\ Needs("asked", copy[p])
      BY DEF Location, Engine, Needs
    <3> QED
      BY <1>0, <1>2, <2>1, <3>1, MoveKeeps DEF RequestMergedValidation
  <2>2. CASE /\ UNCHANGED asked
             /\ Save(p, Saved(p, "BLOCKED")) /\ Goto(p, "answered")
             /\ Mishap("ERROR") /\ Forget(p) /\ UNCHANGED mishap
    <3>1. Saved(p, "BLOCKED") \in RemediationRun /\ Sound(Saved(p, "BLOCKED"))
      BY SavedIsRecord DEF RemediationState, Sound, IsReady, IsPushed
    <3>2. faults' \in 0 .. MaxFaults
      BY <2>2, MishapBound DEF EngineInv
    <3> QED
      BY <1>0, <1>2, <2>2, <3>1, <3>2, SaveKeeps DEF RequestMergedValidation
  <2> QED
    BY <1>2, <2>1, <2>2 DEF RequestMergedValidation
<1>3. CASE AwaitMergedValidation(p)
  <2>1. PICK state \in { "WAITING_FOR_CHECKS", "BLOCKED" } : Settles(p, Saved(p, state))
    BY <1>3 DEF AwaitMergedValidation
  <2> QED
    BY <1>3, <2>1, WaitKeeps DEF AwaitMergedValidation, Waits
<1>4. CASE AwaitChecks(p)
  BY <1>4, WaitKeeps DEF AwaitChecks, Waits
<1>5. CASE AwaitInfrastructure(p)
  BY <1>5, WaitKeeps DEF AwaitInfrastructure, Waits
<1>6. CASE ExhaustInfrastructure(p)
  BY <1>6, WaitKeeps DEF ExhaustInfrastructure, Waits
<1>7. CASE RetryInfrastructure(p)
  <2> DEFINE r == [Saved(p, "WAITING_FOR_INFRASTRUCTURE") EXCEPT !.retries = @ + 1]
  <2>1. /\ Saved(p, "WAITING_FOR_INFRASTRUCTURE") \in RemediationRun
        /\ Saved(p, "WAITING_FOR_INFRASTRUCTURE").state = "WAITING_FOR_INFRASTRUCTURE"
        /\ Saved(p, "WAITING_FOR_INFRASTRUCTURE").retries = copy[p].retries
    BY SavedIsRecord DEF RemediationState
  <2>2. copy[p].retries \in 0 .. MaximumRetries /\ copy[p].retries < MaximumRetries
    BY <1>7 DEF EngineInv, RemediationTypeOK, RemediationRun, RetryInfrastructure
  <2>3. r \in RemediationRun /\ Sound(r)
    <3>1. copy[p].retries + 1 \in 0 .. MaximumRetries
      BY <2>2, RemediationAssumption
    <3> QED
      BY <2>1, <3>1 DEF RemediationRun, Sound, IsReady, IsPushed
  <2>4. asked' \subseteq Commit
    BY <1>0, <1>7 DEF RetryInfrastructure
  <2> QED
    BY <1>0, <1>7, <2>3, <2>4, SaveKeeps DEF RetryInfrastructure, Settles
<1>8. CASE Ready(p)
  <2>1. Saved(p, "READY_FOR_CERTIFICATION") \in RemediationRun /\ Sound(Saved(p, "READY_FOR_CERTIFICATION"))
    <3>1. seen[p].head \in passed
      BY <1>8 DEF Ready, EngineInv
    <3> QED
      BY <3>1, SavedIsRecord DEF RemediationState, Sound, IsReady, IsPushed
  <2> QED
    BY <1>0, <1>8, <2>1, SaveKeeps DEF Ready, Settles, provider
<1>9. CASE GiveUp(p)
  BY <1>9, WaitKeeps DEF GiveUp, Waits
<1>10. CASE Require(p)
  <2> DEFINE r == [Observed(p) EXCEPT !.state = "REMEDIATION_REQUIRED"]
  <2>1. Observed(p) \in RemediationRun
    BY SavedIsRecord DEF RemediationState
  <2>2. r \in RemediationRun /\ Sound(r)
    BY <2>1 DEF RemediationRun, RemediationState, Sound, IsReady, IsPushed
  <2> QED
    BY <1>0, <1>10, <2>2, SaveKeeps DEF Require, provider
<1> QED
  BY <1>1, <1>2, <1>3, <1>4, <1>5, <1>6, <1>7, <1>8, <1>9, <1>10 DEF Decide

LEMMA CollectKeeps ==
  ASSUME EngineInv, NEW p \in Process, Collect(p) PROVE EngineInv'
<1>0. /\ rem \in RemediationRun /\ Sound(rem) /\ faults \in 0 .. MaxFaults /\ asked \subseteq Commit
      /\ seen[p] \in Observation /\ (seen[p].verdict = "PASSED" => seen[p].head \in passed)
      /\ seen = [seen EXCEPT ![p] = seen[p]]
  BY DEF EngineInv, RemediationTypeOK
<1>1. /\ "answered" \in Location /\ Needs("answered", rem)
      /\ "view" \in Location /\ Needs("view", rem)
      /\ "failed" \in Location /\ Needs("failed", rem)
  BY DEF Location, Engine, Needs
<1>2. /\ copy' = [copy EXCEPT ![p] = rem] /\ asked' \subseteq Commit
      /\ UNCHANGED <<pr, head, latest, checks, passed, fixes, rem, mishap>>
  BY <1>0 DEF Collect, provider
<1>3. CASE Goto(p, "answered") /\ UNCHANGED <<seen, faults>>
  <2>1. seen' = [seen EXCEPT ![p] = seen[p]] /\ faults' \in 0 .. MaxFaults
    BY <1>0, <1>3
  <2> QED
    BY <1>0, <1>1, <1>2, <1>3, <2>1, MoveKeeps
<1>4. CASE /\ seen' = [seen EXCEPT ![p] = [pr |-> pr, head |-> head, verdict |-> "NONE"]]
           /\ Goto(p, "view") /\ UNCHANGED faults
  <2> DEFINE o == [pr |-> pr, head |-> head, verdict |-> "NONE"]
  <2>1. o \in Observation /\ o.verdict # "PASSED"
    BY DEF EngineInv, RemediationTypeOK, Observation, Verdict
  <2> QED
    BY <1>0, <1>1, <1>2, <1>4, <2>1, MoveKeeps
<1>5. CASE Mishap("ERROR") /\ Goto(p, "failed") /\ UNCHANGED seen
  <2>1. faults' \in 0 .. MaxFaults
    BY <1>5, MishapBound DEF EngineInv
  <2>2. seen' = [seen EXCEPT ![p] = seen[p]]
    BY <1>0, <1>5
  <2> QED
    BY <1>0, <1>1, <1>2, <1>5, <2>1, <2>2, MoveKeeps
<1> QED
  BY <1>3, <1>4, <1>5 DEF Collect

LEMMA CollectChecksKeeps ==
  ASSUME EngineInv, NEW p \in Process, CollectChecks(p) PROVE EngineInv'
<1>0. /\ copy[p] \in RemediationRun /\ Sound(copy[p]) /\ faults \in 0 .. MaxFaults
      /\ asked \subseteq Commit /\ seen[p] \in Observation
      /\ copy = [copy EXCEPT ![p] = copy[p]] /\ seen \in [Process -> Observation]
  BY DEF EngineInv, RemediationTypeOK
<1>1. /\ "decide" \in Location /\ Needs("decide", copy[p])
      /\ "failed" \in Location /\ Needs("failed", copy[p])
      /\ Unseen \in Observation /\ Unseen.verdict # "PASSED"
  BY RemediationAssumption DEF Location, Engine, Needs, Unseen, Observation, Verdict, Commit
<1>2. /\ copy' = [copy EXCEPT ![p] = copy[p]] /\ asked' \subseteq Commit
      /\ UNCHANGED <<pr, head, latest, checks, passed, fixes, rem, mishap>>
  BY <1>0 DEF CollectChecks, provider
<1>3. CASE /\ seen' = [seen EXCEPT ![p].verdict = checks[seen[p].head]]
           /\ Goto(p, "decide") /\ UNCHANGED faults
  <2> DEFINE o == [seen[p] EXCEPT !.verdict = checks[seen[p].head]]
  <2>1. seen[p].head \in Commit /\ checks[seen[p].head] \in Verdict
    BY <1>0 DEF EngineInv, RemediationTypeOK, Observation
  <2>2. /\ o \in Observation /\ o.verdict = checks[seen[p].head] /\ o.head = seen[p].head
    BY <1>0, <2>1 DEF Observation
  <2>3. o.verdict = "PASSED" => o.head \in passed
    BY <2>1, <2>2 DEF EngineInv
  <2>4. seen' = [seen EXCEPT ![p] = o]
    BY <1>0, <1>3
  <2> HIDE DEF o
  <2> QED
    BY <1>0, <1>1, <1>2, <1>3, <2>2, <2>3, <2>4, MoveKeeps
<1>4. CASE Mishap("ERROR") /\ Goto(p, "failed") /\ Forget(p)
  <2>1. faults' \in 0 .. MaxFaults
    BY <1>4, MishapBound DEF EngineInv
  <2> QED
    BY <1>0, <1>1, <1>2, <1>4, <2>1, MoveKeeps DEF Forget
<1> QED
  BY <1>3, <1>4 DEF CollectChecks

LEMMA RecordRequestKeeps ==
  ASSUME EngineInv, NEW p \in Process, RecordRequest(p) PROVE EngineInv'
<1> DEFINE r == [Saved(p, "WAITING_FOR_CHECKS") EXCEPT !.dispatched = seen[p].head]
<1>1. asked \subseteq Commit /\ faults \in 0 .. MaxFaults /\ seen[p].head \in Commit
  BY DEF EngineInv, RemediationTypeOK, Observation
<1>2. Saved(p, "WAITING_FOR_CHECKS") \in RemediationRun /\ Saved(p, "WAITING_FOR_CHECKS").state = "WAITING_FOR_CHECKS"
  BY SavedIsRecord DEF RemediationState
<1>3. r \in RemediationRun /\ Sound(r)
  BY <1>1, <1>2 DEF RemediationRun, Sound, IsReady, IsPushed
<1> QED
  BY <1>1, <1>3, SaveKeeps DEF RecordRequest, Settles, provider

LEMMA ApplyKeeps ==
  ASSUME EngineInv, NEW p \in Process, Apply(p) PROVE EngineInv'
<1>0. /\ copy[p] \in RemediationRun /\ asked \subseteq Commit /\ faults \in 0 .. MaxFaults
  BY DEF EngineInv, RemediationTypeOK
<1>1. CASE /\ Settles(p, [copy[p] EXCEPT !.state = "BLOCKED", !.apply = FALSE])
           /\ UNCHANGED provider
  <2> DEFINE r == [copy[p] EXCEPT !.state = "BLOCKED", !.apply = FALSE]
  <2>1. r \in RemediationRun /\ Sound(r)
    BY <1>0 DEF RemediationRun, RemediationState, Sound, IsReady, IsPushed
  <2> QED
    BY <1>0, <1>1, <2>1, SaveKeeps DEF Settles, provider
<1>2. CASE /\ Arrives(1) /\ copy' = [copy EXCEPT ![p].revision = latest']
           /\ Goto(p, "push") /\ UNCHANGED <<rem, seen, mishap, faults>>
  <2>1. /\ latest' \in Commit /\ head' \in Commit /\ fixes' \in 0 .. MaxCommit /\ fixes' < latest'
        /\ UNCHANGED <<pr, checks, asked, passed>>
    BY <1>2, ArrivalFacts
  <2>2. /\ copy' \in [Process -> RemediationRun]
        /\ \A q \in Process : copy'[q] = IF q = p THEN [copy[p] EXCEPT !.revision = latest'] ELSE copy[q]
    BY <1>2, <2>1 DEF EngineInv, RemediationTypeOK, RemediationRun
  <2>3. at' \in [Process -> Location] /\ \A q \in Process : at'[q] = IF q = p THEN "push" ELSE at[q]
    BY <1>2 DEF EngineInv, Goto, Location, Engine
  <2>4. RemediationTypeOK'
    BY <1>2, <2>1, <2>2 DEF EngineInv, RemediationTypeOK
  <2>5. \A q \in Process : Sound(copy[q])'
    <3>1. copy'[p].state = copy[p].state /\ copy'[p].headSha = copy[p].headSha /\ copy'[p].revision \in Commit
      BY <2>1, <2>2, <1>0 DEF RemediationRun
    <3> QED
      BY <2>1, <2>2, <3>1 DEF EngineInv, Sound, IsReady, IsPushed
  <2>6. \A q \in Process : Needs(at[q], copy[q])'
    <3>1. copy'[p].revision \in Commit
      BY <2>1, <2>2, <1>0 DEF RemediationRun
    <3> QED
      BY <2>1, <2>2, <2>3, <3>1 DEF EngineInv, Needs, IsReady, IsPushed
  <2>7. Sound(rem)'
    BY <1>2, <2>1 DEF EngineInv, Sound, IsReady, IsPushed
  <2> QED
    BY <1>2, <2>1, <2>3, <2>4, <2>5, <2>6, <2>7 DEF EngineInv
<1>3. CASE /\ Save(p, [copy[p] EXCEPT !.state = "BLOCKED", !.apply = TRUE])
           /\ Goto(p, "answered") /\ Mishap("ERROR")
           /\ UNCHANGED <<provider, seen, mishap>>
  <2> DEFINE r == [copy[p] EXCEPT !.state = "BLOCKED", !.apply = TRUE]
  <2>1. r \in RemediationRun /\ Sound(r)
    BY <1>0 DEF RemediationRun, RemediationState, Sound, IsReady, IsPushed
  <2>2. faults' \in 0 .. MaxFaults
    BY <1>3, MishapBound DEF EngineInv
  <2> QED
    BY <1>0, <1>3, <2>1, <2>2, SaveKeeps DEF provider
<1>4. CASE Mishap("ERROR") /\ Goto(p, "failed") /\ UNCHANGED <<provider, rem, copy, seen, mishap>>
  <2>1. faults' \in 0 .. MaxFaults
    BY <1>4, MishapBound DEF EngineInv
  <2>2. /\ seen[p] \in Observation /\ (seen[p].verdict = "PASSED" => seen[p].head \in passed)
        /\ seen' = [seen EXCEPT ![p] = seen[p]] /\ copy' = [copy EXCEPT ![p] = copy[p]]
        /\ Sound(copy[p]) /\ Needs("failed", copy[p]) /\ "failed" \in Location
    BY <1>4 DEF EngineInv, RemediationTypeOK, Needs, Location, Engine
  <2> QED
    BY <1>0, <1>4, <2>1, <2>2, MoveKeeps DEF provider
<1> QED
  BY <1>1, <1>2, <1>3, <1>4 DEF Apply

LEMMA RecordPushKeeps ==
  ASSUME EngineInv, NEW p \in Process, RecordPush(p) PROVE EngineInv'
<1> DEFINE r == [copy[p] EXCEPT !.state = "REMEDIATION_PUSHED", !.attempt = @ + 1, !.apply = FALSE]
<1>1. copy[p] \in RemediationRun /\ asked \subseteq Commit /\ faults \in 0 .. MaxFaults
  BY DEF EngineInv, RemediationTypeOK
<1>2. copy[p].revision \in Commit
  BY DEF RecordPush, EngineInv, Needs
<1>3. r \in RemediationRun /\ Sound(r)
  <2>1. copy[p].attempt + 1 \in Nat
    BY <1>1 DEF RemediationRun
  <2> QED
    BY <1>1, <1>2, <2>1 DEF RemediationRun, RemediationState, Sound, IsReady, IsPushed
<1> QED
  BY <1>1, <1>3, SaveKeeps DEF RecordPush, Settles, provider

LEMMA ResumeKeepsEngine ==
  ASSUME EngineInv, NEW p \in Process, Resume(p) PROVE EngineInv'
  BY CollectKeeps, CollectChecksKeeps, DecideKeeps, RecordRequestKeeps, ApplyKeeps, RecordPushKeeps DEF Resume

-----------------------------------------------------------------------------
(* The callers of the engine *)

LEMMA StartedIsRecord == Started \in RemediationRun /\ Sound(Started)
  BY RemediationAssumption
  DEF Started, RemediationRun, RemediationState, Sound, IsReady, IsPushed

LEMMA UnseenIsObservation == Unseen \in Observation /\ Unseen.verdict # "PASSED"
  BY RemediationAssumption DEF Unseen, Observation, Verdict, Commit

\* A step of a caller that keeps its record.
LEMMA QuietKeeps ==
  ASSUME EngineInv, NEW p \in Process, NEW l \in Location, Goto(p, l), Needs(l, copy[p]),
         UNCHANGED <<provider, rem, copy, seen, mishap>>, faults' \in 0 .. MaxFaults
  PROVE  EngineInv'
<1>1. /\ copy[p] \in RemediationRun /\ Sound(copy[p]) /\ seen[p] \in Observation
      /\ copy' = [copy EXCEPT ![p] = copy[p]] /\ seen' = [seen EXCEPT ![p] = seen[p]]
      /\ (seen[p].verdict = "PASSED" => seen[p].head \in passed) /\ asked' \subseteq Commit
  BY DEF EngineInv, RemediationTypeOK, provider
<1> QED
  BY <1>1, MoveKeeps DEF provider

\* A step of a caller that forgets its record.
LEMMA DropKeeps ==
  ASSUME EngineInv, NEW p \in Process, NEW l \in Location, Goto(p, l), Needs(l, Started), Drop(p),
         UNCHANGED <<provider, rem, mishap>>, faults' \in 0 .. MaxFaults,
         Forget(p) \/ UNCHANGED seen
  PROVE  EngineInv'
<1>0. asked' \subseteq Commit
  BY DEF EngineInv, RemediationTypeOK, provider
<1>1. CASE Forget(p)
  BY <1>0, <1>1, MoveKeeps, StartedIsRecord, UnseenIsObservation DEF Drop, Forget, provider
<1>2. CASE UNCHANGED seen
  <2>1. /\ seen[p] \in Observation /\ seen' = [seen EXCEPT ![p] = seen[p]]
        /\ (seen[p].verdict = "PASSED" => seen[p].head \in passed)
    BY <1>2 DEF EngineInv, RemediationTypeOK
  <2> QED
    BY <1>0, <2>1, MoveKeeps, StartedIsRecord DEF Drop, provider
<1> QED
  BY <1>1, <1>2

\* The locations at which a process relies on nothing.
Free == Location \ { "push", "recover", "restart", "rebind", "approve", "verify", "revive", "certify" }

LEMMA FreeNeedsNothing == ASSUME NEW l \in Free, NEW r PROVE Needs(l, r)
  BY DEF Free, Needs

LEMMA FreeLocations ==
  /\ Free \subseteq Location
  /\ { "idle", "read", "view", "decide", "asked", "propose", "answered", "failed", "repair", "count", "revalidate",
       "reject", "spend", "refuse", "halt", "batch", "poll", "launch", "spawn", "watch", "prompt",
       "merge" } \subseteq Free
  BY DEF Free, Location, Engine

\* The record a process acts on names a commit.
LEMMA ResultNamesCommit ==
  ASSUME EngineInv, NEW p \in Process
  PROVE  /\ IsReady(copy[p]) => copy[p].headSha \in Commit /\ copy[p].headSha \in passed
         /\ IsPushed(copy[p]) => copy[p].revision \in Commit
         /\ IsReady(copy[p]) \/ IsPushed(copy[p]) => Replacement(p) \in Commit
         /\ Result(p) = copy[p].state
  BY DEF EngineInv, RemediationTypeOK, Sound, IsReady, IsPushed, Replacement, Result

LEMMA BranchFacts ==
  ASSUME EngineInv, NEW p \in Process
  PROVE  /\ Branch(p) \in Location /\ Needs(Branch(p), copy[p])
         /\ Onward \in Free
         /\ Branch(p) = "approve" => IsReady(copy[p]) /\ copy[p].headSha = commit
         /\ Branch(p) # "recover"
         /\ Branch(p) = "batch" => kind = "BATCH"
  BY DEF Branch, Result, Onward, Free, Location, Engine, Needs, IsReady, IsPushed

-----------------------------------------------------------------------------
(* The run *)

LeaseState == { "NONE", "HEALTHY", "EXPIRED" }

\* transition, as far as the table and the lease go.
Shifts(s) ==
  /\ MayTransition(status, s)
  /\ status' = s
  /\ lease' = "NONE" <=> (lease = "NONE" \/ s \in Terminal \cup { "AWAITING_APPROVAL", "PAUSED" })

\* What the steps of all processes may do to the status and the lease of the run.
RunStep ==
  /\ lease' \in LeaseState
  /\ \/ status' = status /\ (lease' = "NONE" <=> lease = "NONE")
     \/ \E s \in { "VALIDATING", "REPAIRING", "AWAITING_APPROVAL", "BLOCKED" } : Shifts(s)
     \/ Shifts("PAUSED") /\ status \in Pausable
     \/ Shifts("CANCELLED") /\ status \notin Terminal
     \/ Shifts("CERTIFIED") /\ status = "AWAITING_APPROVAL" /\ mission' = "COMPLETE" /\ pr = "MERGED"
     \/ /\ status \in { "PAUSED", "RECOVERING", "BLOCKED" }
        /\ status' \in { "VALIDATING", "RUNNING" } /\ lease' # "NONE"
     \/ lease = "EXPIRED" /\ lease' = "NONE" /\ status \in Pausable /\ status' = "RECOVERING"
  /\ status = "CERTIFIED" => mission' = mission \/ \E p \in Command : GateFails(p)

LEMMA MovesShifts == ASSUME NEW s, Moves(s), lease \in LeaseState PROVE Shifts(s) /\ lease' \in LeaseState
  BY DEF Moves, Shifts, LeaseState

LEMMA HeartbeatStays ==
  ASSUME Heartbeat, lease \in LeaseState
  PROVE  status' = status /\ (lease' = "NONE" <=> lease = "NONE") /\ lease' \in LeaseState
  BY DEF Heartbeat, Renewed, LeaseState

\* A step of the run keeps what is known of its status and lease.
LEMMA RunStepKeeps ==
  ASSUME IInv, RunStep, pr = "MERGED" => pr' = "MERGED"
  PROVE  /\ status' \in Status /\ lease' \in LeaseState
         /\ Leased' /\ Merged'
<1> USE DEF IInv, RunTypeOK, RunStep, Leased, Merged, Pausable, LeaseState
<1>1. CASE status' = status /\ (lease' = "NONE" <=> lease = "NONE")
  BY <1>1
<1>2. ASSUME NEW s \in { "VALIDATING", "REPAIRING", "AWAITING_APPROVAL", "BLOCKED", "PAUSED", "CANCELLED" }, Shifts(s)
      PROVE  /\ status' \in Status /\ Leased' /\ Merged'
  BY <1>2 DEF Shifts, Status, Terminal
<1>3. CASE Shifts("CERTIFIED") /\ status = "AWAITING_APPROVAL" /\ mission' = "COMPLETE" /\ pr = "MERGED"
  BY <1>3 DEF Shifts, Status, Terminal
<1> QED
  BY <1>1, <1>2, <1>3 DEF Status

StageTyped ==
  /\ stage      \in { "NONE" } \cup Stages
  /\ checkpoint \in { "NONE", "RUN_START" } \cup Stages

\* The types of what the steps write beside the status and the lease.
RestTypeOK ==
  /\ kind     \in Kinds
  /\ attempts \in 0 .. RepairLimit
  /\ StageTyped
  /\ commit   \in Commit
  /\ linked   \in BOOLEAN
  /\ mission  \in { "ACTIVE", "BLOCKED", "COMPLETE" }
  /\ job      \in { "NONE", "RUNNING", "COMPLETED", "BLOCKED" }
  /\ monitor  \in Monitor \cup { NoMonitor }
  /\ batch    \in BatchState
  /\ aim      \in [Command -> { "RESUME", "APPROVE" }]
  /\ released \in Commit \cup { NoCommit }

\* What is shown of each step.
StepOK == EngineInv' /\ RunStep /\ RestTypeOK'

LEMMA StepOKKeeps ==
  ASSUME IInv, StepOK, pr = "MERGED" => pr' = "MERGED" PROVE IInv'
  BY RunStepKeeps DEF StepOK, IInv, RunTypeOK, RestTypeOK, StageTyped, stageOfRun, LeaseState

\* What the invariant says of the run, and of the sets its parts are drawn from.
LEMMA RunFacts ==
  ASSUME IInv
  PROVE  /\ EngineInv /\ RestTypeOK /\ lease \in LeaseState /\ status \in Status
         /\ faults \in 0 .. MaxFaults
         /\ (status = "CERTIFIED" => pr = "MERGED")
         /\ (lease # "NONE" => status \in Pausable)
  BY DEF IInv, RunTypeOK, RestTypeOK, StageTyped, stageOfRun, LeaseState, Leased, Merged, EngineInv, RemediationTypeOK

\* Reconciliation and the end of a poll leave no mark on a certified run.
LEMMA ReconcileKeeps ==
  ASSUME IInv, NEW p \in Process, Reconcile(p) PROVE StepOK
<1>0. EngineInv /\ RestTypeOK /\ lease \in LeaseState /\ faults \in 0 .. MaxFaults
  BY RunFacts
<1>1. PICK l \in Location : Goto(p, l) /\ Needs(l, copy[p])
  <2>1. "recover" \in Location /\ (Result(p) \in { "READY_FOR_CERTIFICATION", "REMEDIATION_PUSHED" } => Needs("recover", copy[p]))
    BY DEF Location, Needs, Result, IsReady, IsPushed
  <2>2. Onward \in Location /\ Needs(Onward, copy[p])
    BY <1>0, BranchFacts, FreeNeedsNothing, FreeLocations
  <2> QED
    BY <1>0, <2>1, <2>2, BranchFacts DEF Reconcile
<1>2. EngineInv'
  BY <1>0, <1>1, QuietKeeps DEF Reconcile, Quiet
<1>3. RunStep
  BY <1>0, HeartbeatStays DEF Reconcile, RunStep, leaseOfRun
<1> QED
  BY <1>0, <1>2, <1>3 DEF Reconcile, Quiet, StepOK, RestTypeOK, StageTyped, stageOfRun, monitorVars

LEMMA RebindsFacts ==
  ASSUME IInv, NEW c \in Commit, Rebinds(c)
  PROVE  /\ commit' \in Commit /\ status' = status
         /\ (lease' = "NONE" <=> lease = "NONE") /\ lease' \in LeaseState
  BY RunFacts, HeartbeatStays DEF Rebinds, leaseOfRun

LEMMA RecoverKeeps ==
  ASSUME IInv, NEW p \in Process, Recover(p) PROVE StepOK
<1>0. EngineInv /\ RestTypeOK /\ lease \in LeaseState /\ faults \in 0 .. MaxFaults
  BY RunFacts
<1>1. Needs("restart", copy[p]) /\ "restart" \in Location /\ Replacement(p) \in Commit
  BY <1>0, ResultNamesCommit DEF EngineInv, Recover, Needs, Location
<1>2. EngineInv'
  BY <1>0, <1>1, QuietKeeps DEF Recover, Quiet
<1>3. RunStep /\ commit' \in Commit
  BY <1>1, RebindsFacts DEF Recover, RunStep
<1> QED
  BY <1>0, <1>2, <1>3 DEF Recover, Quiet, StepOK, RestTypeOK, StageTyped, stageOfRun, monitorVars

LEMMA BackToWorkFacts ==
  ASSUME IInv, BackToWork
  PROVE  /\ status' \in { "VALIDATING", "RUNNING" } /\ lease' # "NONE" /\ lease' \in LeaseState
         /\ stage' \in { "NONE" } \cup Stages /\ UNCHANGED checkpoint
  BY RunFacts DEF BackToWork, LeaseState, RestTypeOK, StageTyped, Stages

LEMMA RestartKeeps ==
  ASSUME IInv, NEW p \in Process, Restart(p) PROVE StepOK
<1>0. EngineInv /\ RestTypeOK /\ lease \in LeaseState /\ faults \in 0 .. MaxFaults
  BY RunFacts
<1>1. PICK l \in Location : Goto(p, l) /\ Needs(l, copy[p])
  <2>1. /\ Onward \in Location /\ Needs(Onward, copy[p])
        /\ "failed" \in Location /\ Needs("failed", copy[p])
    BY <1>0, BranchFacts, FreeNeedsNothing, FreeLocations
  <2> QED
    BY <1>0, <2>1, BranchFacts DEF Restart
<1>2. EngineInv'
  BY <1>0, <1>1, QuietKeeps DEF Restart, Quiet
<1>3. RunStep /\ StageTyped' /\ mission' \in { "ACTIVE", "BLOCKED", "COMPLETE" }
  <2>1. CASE Recovers(Replacement(p))
    BY <1>0, <2>1, BackToWorkFacts DEF Recovers, RunStep, RestTypeOK, StageTyped
  <2>2. CASE UNCHANGED <<leaseOfRun, stageOfRun, mission>>
    BY <1>0, <2>2 DEF RunStep, leaseOfRun, RestTypeOK, StageTyped, stageOfRun
  <2> QED
    BY <2>1, <2>2 DEF Restart
<1> QED
  BY <1>0, <1>2, <1>3 DEF Restart, Quiet, StepOK, RestTypeOK, StageTyped, stageOfRun, monitorVars

LEMMA RebindKeeps ==
  ASSUME IInv, NEW p \in Process, Rebind(p) PROVE StepOK
<1>0. EngineInv /\ RestTypeOK /\ lease \in LeaseState /\ faults \in 0 .. MaxFaults
  BY RunFacts
<1>1. copy[p].revision \in Commit
  BY <1>0, ResultNamesCommit DEF EngineInv, Rebind, Needs
<1>2. EngineInv'
  BY <1>0, QuietKeeps, FreeLocations, FreeNeedsNothing DEF Rebind, Quiet
<1>3. RunStep /\ commit' \in Commit
  BY <1>1, RebindsFacts DEF Rebind, RunStep
<1> QED
  BY <1>0, <1>2, <1>3 DEF Rebind, Quiet, StepOK, RestTypeOK, StageTyped, stageOfRun, monitorVars

\* A call that may be refused, to one of the statuses a process may ask for.
LEMMA CallsFacts ==
  ASSUME IInv, NEW p \in Process, NEW s \in { "VALIDATING", "REPAIRING", "AWAITING_APPROVAL", "BLOCKED" },
         NEW there \in Free, NEW handler \in Free, Calls(p, s, there, handler)
  PROVE  /\ \E l \in Free : Goto(p, l)
         /\ lease' \in LeaseState
         /\ (status' = status /\ (lease' = "NONE" <=> lease = "NONE")) \/ Shifts(s)
         /\ status = "CERTIFIED" => status' = status
<1>1. lease \in LeaseState
  BY RunFacts
<1> QED
  BY <1>1, MovesShifts DEF Calls, leaseOfRun, Moves, MayTransition, Successors

LEMMA RepairKeeps ==
  ASSUME IInv, NEW p \in Process, Repair(p) PROVE StepOK
<1>0. EngineInv /\ RestTypeOK /\ lease \in LeaseState /\ faults \in 0 .. MaxFaults
  BY RunFacts
<1>1. /\ \E l \in Free : Goto(p, l)
      /\ lease' \in LeaseState
      /\ (status' = status /\ (lease' = "NONE" <=> lease = "NONE")) \/ Shifts("REPAIRING")
  BY FreeLocations, CallsFacts DEF Repair
<1>2. EngineInv'
  BY <1>0, <1>1, QuietKeeps, FreeLocations, FreeNeedsNothing DEF Repair, Quiet
<1>3. RunStep
  BY <1>1 DEF Repair, RunStep
<1> QED
  BY <1>0, <1>2, <1>3 DEF Repair, Quiet, StepOK, RestTypeOK, StageTyped, stageOfRun, monitorVars

LEMMA CountKeeps ==
  ASSUME IInv, NEW p \in Process, Count(p) PROVE StepOK
<1>0. EngineInv /\ RestTypeOK /\ lease \in LeaseState /\ faults \in 0 .. MaxFaults
  BY RunFacts
<1>1. EngineInv'
  BY <1>0, QuietKeeps, FreeLocations, FreeNeedsNothing DEF Count, Quiet
<1>2. RunStep
  BY <1>0, HeartbeatStays DEF Count, RunStep
<1>3. attempts' \in 0 .. RepairLimit
  BY <1>0, MonitorAssumption DEF Count, Spent, RestTypeOK, StageTyped, stageOfRun
<1> QED
  BY <1>0, <1>1, <1>2, <1>3 DEF Count, Quiet, StepOK, RestTypeOK, StageTyped, stageOfRun, monitorVars

LEMMA RevalidateKeeps ==
  ASSUME IInv, NEW p \in Process, Revalidate(p) PROVE StepOK
<1>0. EngineInv /\ RestTypeOK /\ lease \in LeaseState /\ faults \in 0 .. MaxFaults
  BY RunFacts
<1>1. PICK l \in Free : Goto(p, l)
  BY <1>0, BranchFacts, FreeLocations DEF Revalidate
<1>2. EngineInv'
  BY <1>0, <1>1, QuietKeeps, FreeLocations, FreeNeedsNothing DEF Revalidate, Quiet
<1>3. RunStep
  BY <1>0 DEF Revalidate, RunStep, Shifts, Renewed, LeaseState, leaseOfRun, Terminal
<1> QED
  BY <1>0, <1>2, <1>3 DEF Revalidate, Quiet, StepOK, RestTypeOK, StageTyped, Stages, stageOfRun, monitorVars

LEMMA ApproveKeeps ==
  ASSUME IInv, NEW p \in Process, Approve(p) PROVE StepOK
<1>0. EngineInv /\ RestTypeOK /\ lease \in LeaseState /\ faults \in 0 .. MaxFaults
  BY RunFacts
<1>1. /\ \E l \in Free : Goto(p, l)
      /\ lease' \in LeaseState
      /\ (status' = status /\ (lease' = "NONE" <=> lease = "NONE")) \/ Shifts("AWAITING_APPROVAL")
  BY <1>0, BranchFacts, FreeLocations, CallsFacts DEF Approve
<1>2. EngineInv'
  BY <1>0, <1>1, QuietKeeps, FreeLocations, FreeNeedsNothing DEF Approve, Quiet
<1>3. RunStep
  BY <1>1 DEF Approve, RunStep
<1> QED
  BY <1>0, <1>2, <1>3 DEF Approve, Quiet, StepOK, RestTypeOK, StageTyped, stageOfRun, monitorVars

LEMMA VerifyKeeps ==
  ASSUME IInv, NEW p \in Process, Verify(p) PROVE StepOK
<1>0. EngineInv /\ RestTypeOK /\ lease \in LeaseState /\ faults \in 0 .. MaxFaults
  BY RunFacts
<1>1. PICK l \in Free : Goto(p, l)
  BY <1>0, BranchFacts, FreeLocations DEF Verify
<1>2. EngineInv'
  BY <1>0, <1>1, QuietKeeps, FreeLocations, FreeNeedsNothing DEF Verify, Quiet
<1>3. RunStep /\ StageTyped'
  BY <1>0, MovesShifts, HeartbeatStays DEF Verify, RunStep, RestTypeOK, StageTyped, stageOfRun
<1> QED
  BY <1>0, <1>2, <1>3 DEF Verify, Quiet, StepOK, RestTypeOK, StageTyped, stageOfRun, monitorVars

LEMMA RejectKeeps ==
  ASSUME IInv, NEW p \in Process, Reject(p) PROVE StepOK
<1>0. EngineInv /\ RestTypeOK /\ lease \in LeaseState /\ faults \in 0 .. MaxFaults
  BY RunFacts
<1>1. PICK l \in Free : Goto(p, l)
  BY FreeLocations DEF Reject
<1>2. EngineInv'
  BY <1>0, <1>1, QuietKeeps, FreeLocations, FreeNeedsNothing DEF Reject, Quiet
<1>3. RunStep
  BY <1>0, MovesShifts DEF Reject, RunStep, leaseOfRun
<1> QED
  BY <1>0, <1>2, <1>3 DEF Reject, Quiet, StepOK, RestTypeOK, StageTyped, stageOfRun, monitorVars

LEMMA SpendKeeps ==
  ASSUME IInv, NEW p \in Process, Spend(p) PROVE StepOK
<1>0. EngineInv /\ RestTypeOK /\ lease \in LeaseState /\ faults \in 0 .. MaxFaults
  BY RunFacts
<1>1. EngineInv'
  BY <1>0, QuietKeeps, FreeLocations, FreeNeedsNothing DEF Spend, Quiet
<1>2. RunStep
  BY <1>0, HeartbeatStays DEF Spend, RunStep
<1>3. attempts' \in 0 .. RepairLimit
  BY <1>0, MonitorAssumption DEF Spend, Spent, RestTypeOK, StageTyped, stageOfRun
<1> QED
  BY <1>0, <1>1, <1>2, <1>3 DEF Spend, Quiet, StepOK, RestTypeOK, StageTyped, stageOfRun, monitorVars

LEMMA RefuseKeeps ==
  ASSUME IInv, NEW p \in Process, Refuse(p) PROVE StepOK
<1>0. EngineInv /\ RestTypeOK /\ lease \in LeaseState /\ faults \in 0 .. MaxFaults
  BY RunFacts
<1>1. EngineInv'
  BY <1>0, QuietKeeps, FreeLocations, FreeNeedsNothing DEF Refuse, Quiet
<1>2. RunStep /\ mission' \in { "ACTIVE", "BLOCKED", "COMPLETE" }
  <2>1. status = "CERTIFIED" => ~MayTransition(status, "BLOCKED")
    BY DEF MayTransition, Successors
  <2> QED
    BY <1>0, <2>1, MovesShifts DEF Refuse, RunStep, leaseOfRun, RestTypeOK, StageTyped, stageOfRun
<1> QED
  BY <1>0, <1>1, <1>2 DEF Refuse, Quiet, StepOK, RestTypeOK, StageTyped, stageOfRun, monitorVars

LEMMA HaltKeeps ==
  ASSUME IInv, NEW p \in Process, Halt(p) PROVE StepOK
<1>0. EngineInv /\ RestTypeOK /\ lease \in LeaseState /\ faults \in 0 .. MaxFaults
  BY RunFacts
<1>1. /\ \E l \in Free : Goto(p, l)
      /\ lease' \in LeaseState
      /\ (status' = status /\ (lease' = "NONE" <=> lease = "NONE")) \/ Shifts("BLOCKED")
  BY <1>0, BranchFacts, FreeLocations, CallsFacts DEF Halt
<1>2. EngineInv'
  BY <1>0, <1>1, QuietKeeps, FreeLocations, FreeNeedsNothing DEF Halt, Quiet
<1>3. RunStep /\ mission' \in { "ACTIVE", "BLOCKED", "COMPLETE" }
  <2>1. status = "CERTIFIED" => ~MayTransition(status, "BLOCKED")
    BY DEF MayTransition, Successors
  <2> QED
    BY <1>0, <1>1, <2>1 DEF Halt, RunStep, RestTypeOK, StageTyped, stageOfRun
<1> QED
  BY <1>0, <1>2, <1>3 DEF Halt, Quiet, StepOK, RestTypeOK, StageTyped, stageOfRun, monitorVars

LEMMA UpdateForValidationKeeps ==
  ASSUME IInv, NEW p \in Process, UpdateForValidation(p) PROVE StepOK
<1>0. EngineInv /\ RestTypeOK /\ lease \in LeaseState /\ faults \in 0 .. MaxFaults
  BY RunFacts
<1>1. batch' \in BatchState
  <2>1. copy[p].state \in RemediationState
    BY <1>0 DEF EngineInv, RemediationTypeOK, RemediationRun
  <2> QED
    BY <2>1 DEF UpdateForValidation, BatchOf, BatchState, RemediationState, Result
<1>2. /\ RunStep /\ \E l \in Free : Goto(p, l)
      /\ attempts' \in 0 .. RepairLimit /\ StageTyped' /\ linked' \in BOOLEAN
  <2>0. UNCHANGED <<checkpoint, mission>>
    BY DEF UpdateForValidation
  <2>1. CASE FollowRemediation(p)
    <3>1. Shifts("REPAIRING") /\ lease' \in LeaseState
      BY <1>0, <2>1 DEF FollowRemediation, Shifts, MayTransition, Successors, Terminal, Renewed, LeaseState
    <3>2. RunStep
      BY <2>0, <3>1 DEF RunStep
    <3>3. attempts' \in 0 .. RepairLimit
      BY <1>0, <2>1, MonitorAssumption DEF FollowRemediation, Spent, RestTypeOK, StageTyped, stageOfRun
    <3> QED
      BY <1>0, <2>1, <3>2, <3>3, FreeLocations, <2>0 DEF FollowRemediation, RestTypeOK, StageTyped, Stages
  <2>2. CASE FollowValidation(p)
    BY <1>0, <2>0, <2>2, FreeLocations
    DEF FollowValidation, RunStep, Shifts, MayTransition, Successors, Terminal, Renewed, LeaseState, RestTypeOK,
        StageTyped, Stages
  <2>3. CASE FollowReady(p)
    BY <1>0, <2>0, <2>3, FreeLocations, MovesShifts DEF FollowReady, RunStep, RestTypeOK, StageTyped, stageOfRun
  <2>4. CASE FollowBlocked(p)
    BY <1>0, <2>0, <2>4, FreeLocations, CallsFacts DEF FollowBlocked, RunStep, RestTypeOK, StageTyped, stageOfRun
  <2>5. CASE FollowNothing(p)
    BY <1>0, <2>0, <2>5, FreeLocations, HeartbeatStays DEF FollowNothing, RunStep, RestTypeOK, StageTyped, stageOfRun
  <2> QED
    BY <2>1, <2>2, <2>3, <2>4, <2>5 DEF UpdateForValidation
<1>3. EngineInv'
  BY <1>0, <1>2, QuietKeeps, FreeLocations, FreeNeedsNothing DEF UpdateForValidation
<1> QED
  BY <1>0, <1>1, <1>2, <1>3 DEF UpdateForValidation, StepOK, RestTypeOK, StageTyped, stageOfRun

LEMMA PollKeeps ==
  ASSUME IInv, NEW p \in Process, Poll(p) PROVE StepOK
<1>0. EngineInv /\ RestTypeOK /\ lease \in LeaseState /\ faults \in 0 .. MaxFaults
  BY RunFacts
<1>1. PICK l \in Free : Goto(p, l)
  BY FreeLocations DEF Poll
<1>2. EngineInv'
  BY <1>0, <1>1, DropKeeps, FreeLocations, FreeNeedsNothing DEF Poll
<1>3. RunStep
  BY <1>0 DEF Poll, RunStep, runVars
<1> QED
  BY <1>0, <1>2, <1>3 DEF Poll, StepOK, RestTypeOK, StageTyped, stageOfRun, runVars

LEMMA PollLimitKeeps ==
  ASSUME IInv, NEW p \in Process, PollLimit(p) PROVE StepOK
<1>0. EngineInv /\ RestTypeOK /\ lease \in LeaseState /\ faults' \in 0 .. MaxFaults
  BY RunFacts, MishapBound DEF PollLimit, EngineInv
<1>1. EngineInv'
  BY <1>0, DropKeeps, FreeLocations, FreeNeedsNothing DEF PollLimit
<1>2. RunStep
  BY <1>0 DEF PollLimit, RunStep, runVars
<1> QED
  BY <1>0, <1>1, <1>2 DEF PollLimit, StepOK, RestTypeOK, StageTyped, stageOfRun, runVars, monitorVars

LEMMA FailedKeeps ==
  ASSUME IInv, NEW p \in Process, Failed(p) PROVE StepOK
<1>0. EngineInv /\ RestTypeOK /\ lease \in LeaseState /\ faults \in 0 .. MaxFaults
  BY RunFacts
<1>1. EngineInv'
  BY <1>0, DropKeeps, FreeLocations, FreeNeedsNothing DEF Failed
<1>2. RunStep /\ StageTyped'
  BY <1>0, MovesShifts DEF Failed, RunStep, leaseOfRun, RestTypeOK, StageTyped, stageOfRun
<1>3. batch' \in BatchState
  BY <1>0 DEF Failed, RestTypeOK, StageTyped, stageOfRun, BatchState
<1> QED
  BY <1>0, <1>1, <1>2, <1>3 DEF Failed, StepOK, RestTypeOK, StageTyped, stageOfRun

-----------------------------------------------------------------------------
(* The commands *)

LEMMA AimTyped ==
  ASSUME RestTypeOK, NEW p, NEW a \in { "RESUME", "APPROVE" }, aim' = [aim EXCEPT ![p] = a]
  PROVE  aim' \in [Command -> { "RESUME", "APPROVE" }]
  BY DEF RestTypeOK, StageTyped, stageOfRun

LEMMA AttachKeeps ==
  ASSUME IInv, NEW p \in Process, Attach(p) PROVE StepOK
<1>0. EngineInv /\ RestTypeOK /\ lease \in LeaseState /\ faults' \in 0 .. MaxFaults
  BY RunFacts, MishapBound DEF Attach, Given, EngineInv
<1>1. EngineInv'
  BY <1>0, QuietKeeps, FreeLocations, FreeNeedsNothing DEF Attach
<1>2. RunStep
  BY <1>0 DEF Attach, RunStep, runVars
<1>3. aim' \in [Command -> { "RESUME", "APPROVE" }]
  BY <1>0, AimTyped DEF Attach
<1> QED
  BY <1>0, <1>1, <1>2, <1>3 DEF Attach, StepOK, RestTypeOK, StageTyped, stageOfRun, runVars

LEMMA OfferApprovalKeeps ==
  ASSUME IInv, NEW p \in Process, OfferApproval(p) PROVE StepOK
<1>0. EngineInv /\ RestTypeOK /\ lease \in LeaseState /\ faults \in 0 .. MaxFaults
  BY RunFacts
<1>1. EngineInv'
  BY <1>0, DropKeeps, FreeLocations, FreeNeedsNothing DEF OfferApproval
<1>2. RunStep
  BY <1>0 DEF OfferApproval, RunStep, runVars
<1>3. aim' \in [Command -> { "RESUME", "APPROVE" }]
  BY <1>0, AimTyped DEF OfferApproval, Resuming
<1> QED
  BY <1>0, <1>1, <1>2, <1>3 DEF OfferApproval, StepOK, RestTypeOK, StageTyped, stageOfRun, runVars

LEMMA RefuseApprovalKeeps ==
  ASSUME IInv, NEW p \in Process, RefuseApproval(p) PROVE StepOK
<1>0. EngineInv /\ RestTypeOK /\ lease \in LeaseState /\ faults \in 0 .. MaxFaults
  BY RunFacts
<1>1. /\ \E l \in Free : Goto(p, l)
      /\ lease' \in LeaseState
      /\ (status' = status /\ (lease' = "NONE" <=> lease = "NONE")) \/ Shifts("BLOCKED")
  BY FreeLocations, CallsFacts DEF RefuseApproval
<1>2. EngineInv'
  BY <1>0, <1>1, DropKeeps, FreeLocations, FreeNeedsNothing DEF RefuseApproval
<1>3. RunStep
  BY <1>1 DEF RefuseApproval, RunStep
<1>4. aim' \in [Command -> { "RESUME", "APPROVE" }]
  BY <1>0, AimTyped DEF RefuseApproval, Resuming
<1> QED
  BY <1>0, <1>2, <1>3, <1>4 DEF RefuseApproval, StepOK, RestTypeOK, StageTyped, stageOfRun

LEMMA ResumedKeeps ==
  ASSUME IInv, NEW p \in Process, Resumed(p) PROVE StepOK
<1>0. EngineInv /\ RestTypeOK /\ lease \in LeaseState /\ faults \in 0 .. MaxFaults
  BY RunFacts
<1>1. CASE Result(p) = "READY_FOR_CERTIFICATION"
  <2>1. IsReady(copy[p]) /\ copy[p].headSha \in Commit
    BY <1>0, <1>1, ResultNamesCommit DEF IsReady, Result
  <2>2. "revive" \in Location /\ Needs("revive", copy[p])
    BY <2>1 DEF Location, Needs
  <2>3. EngineInv'
    BY <1>0, <1>1, <2>2, QuietKeeps DEF Resumed
  <2>4. RunStep /\ commit' \in Commit
    BY <1>1, <2>1, RebindsFacts DEF Resumed, RunStep
  <2> QED
    BY <1>0, <2>3, <2>4 DEF Resumed, StepOK, RestTypeOK, StageTyped, stageOfRun, monitorVars
<1>2. CASE Result(p) # "READY_FOR_CERTIFICATION"
  <2>1. PICK l \in Free : Goto(p, l)
    BY <1>2, FreeLocations DEF Resumed
  <2>2. EngineInv'
    BY <1>0, <1>2, <2>1, DropKeeps, FreeLocations, FreeNeedsNothing DEF Resumed
  <2>3. RunStep /\ commit' \in Commit
    BY <1>0, <1>2 DEF Resumed, RunStep, leaseOfRun, RestTypeOK, StageTyped, stageOfRun
  <2> QED
    BY <1>0, <2>2, <2>3 DEF Resumed, StepOK, RestTypeOK, StageTyped, stageOfRun, monitorVars
<1> QED
  BY <1>1, <1>2

LEMMA GateKeeps ==
  ASSUME IInv, NEW p \in Process, Gate(p) PROVE StepOK
<1>0. EngineInv /\ RestTypeOK /\ lease \in LeaseState /\ faults' \in 0 .. MaxFaults
  BY RunFacts, MishapBound DEF Gate, EngineInv
<1>1. EngineInv'
  BY <1>0, DropKeeps, FreeLocations, FreeNeedsNothing DEF Gate
<1>2. RunStep
  BY <1>0, MovesShifts DEF Gate, RunStep, leaseOfRun, Pausable
<1> QED
  BY <1>0, <1>1, <1>2 DEF Gate, StepOK, RestTypeOK, StageTyped, stageOfRun, monitorVars

LEMMA GateFailsKeeps ==
  ASSUME IInv, NEW p \in Command, GateFails(p) PROVE StepOK
<1>0. /\ EngineInv /\ RestTypeOK /\ lease \in LeaseState /\ faults' \in 0 .. MaxFaults
      /\ p \in Process
  BY RunFacts, MishapBound, MonitorAssumption DEF GateFails, EngineInv
<1>1. EngineInv'
  BY <1>0, DropKeeps, FreeLocations, FreeNeedsNothing DEF GateFails
<1>2. mission' \in { "ACTIVE", "BLOCKED", "COMPLETE" }
  BY <1>0 DEF GateFails, RestTypeOK
<1>3. RunStep
  BY <1>0, MovesShifts DEF GateFails, RunStep, leaseOfRun
<1> QED
  BY <1>0, <1>1, <1>2, <1>3 DEF GateFails, StepOK, RestTypeOK, StageTyped, stageOfRun, monitorVars

LEMMA ReviveKeeps ==
  ASSUME IInv, NEW p \in Process, Revive(p) PROVE StepOK
<1>0. EngineInv /\ RestTypeOK /\ lease \in LeaseState /\ faults \in 0 .. MaxFaults
  BY RunFacts
<1>1. PICK l \in Free : Goto(p, l)
  BY FreeLocations DEF Revive
<1>2. EngineInv'
  BY <1>0, <1>1, DropKeeps, FreeLocations, FreeNeedsNothing DEF Revive, QuietDrop
<1>3. RunStep /\ StageTyped' /\ mission' \in { "ACTIVE", "BLOCKED", "COMPLETE" }
  <2>1. CASE status \in { "PAUSED", "RECOVERING" } /\ BackToWork /\ UNCHANGED mission
    BY <1>0, <2>1, BackToWorkFacts DEF RunStep, RestTypeOK, StageTyped, stageOfRun
  <2>2. CASE Recovers(copy[p].headSha)
    BY <1>0, <2>2, BackToWorkFacts DEF Recovers, RunStep, RestTypeOK, StageTyped
  <2>3. CASE UNCHANGED <<leaseOfRun, stageOfRun, mission>>
    BY <1>0, <2>3 DEF RunStep, leaseOfRun, RestTypeOK, StageTyped, stageOfRun
  <2> QED
    BY <2>1, <2>2, <2>3 DEF Revive
<1> QED
  BY <1>0, <1>2, <1>3 DEF Revive, QuietDrop, StepOK, RestTypeOK, StageTyped, stageOfRun, monitorVars

LEMMA RelaunchKeeps ==
  ASSUME IInv, NEW p \in Process, Relaunch(p) \/ Launch(p) \/ Watch(p) PROVE StepOK
<1>0. EngineInv /\ RestTypeOK /\ lease \in LeaseState /\ faults \in 0 .. MaxFaults
  BY RunFacts
<1>1. UNCHANGED runVars /\ Quiet /\ \E l \in Free : Goto(p, l)
  BY FreeLocations DEF Relaunch, Launch, Watch
<1>2. EngineInv'
  BY <1>0, <1>1, QuietKeeps, FreeLocations, FreeNeedsNothing DEF Quiet
<1>3. RunStep
  BY <1>0, <1>1 DEF RunStep, runVars
<1> QED
  BY <1>0, <1>1, <1>2, <1>3 DEF Quiet, StepOK, RestTypeOK, StageTyped, stageOfRun, runVars, monitorVars

\* Two processes move: the monitor begins, the command watches it.
LEMMA SpawnKeeps ==
  ASSUME IInv, NEW p \in Process, Spawn(p) PROVE StepOK
<1>0. EngineInv /\ RestTypeOK /\ lease \in LeaseState
  BY RunFacts
<1>1. PICK m \in Monitor :
        /\ at[m] = "idle" /\ at' = [at EXCEPT ![m] = "read", ![p] = "watch"]
        /\ job' = "RUNNING" /\ monitor' = m
  BY DEF Spawn
<1>2. /\ at' \in [Process -> Location]
      /\ \A q \in Process : at'[q] \in { at[q], "read", "watch" }
  BY <1>0, <1>1, MonitorAssumption DEF EngineInv, Location, Engine
<1>3. \A q \in Process : Needs(at[q], copy[q])'
  BY <1>0, <1>2 DEF EngineInv, Needs, IsReady, IsPushed, Spawn, provider
<1>4. EngineInv'
  BY <1>0, <1>2, <1>3 DEF Spawn, EngineInv, RemediationTypeOK, provider, Sound, IsReady, IsPushed
<1>5. RunStep
  BY <1>0 DEF Spawn, RunStep, runVars
<1> QED
  BY <1>0, <1>1, <1>4, <1>5 DEF Spawn, StepOK, RestTypeOK, StageTyped, stageOfRun, runVars

LEMMA AnswerKeeps ==
  ASSUME IInv, NEW p \in Process, Answer(p) PROVE StepOK
<1>0. EngineInv /\ RestTypeOK /\ lease \in LeaseState /\ faults \in 0 .. MaxFaults
  BY RunFacts
<1>1. UNCHANGED runVars /\ Quiet /\ \E l \in Free : Goto(p, l)
  BY FreeLocations DEF Answer
<1>2. EngineInv'
  BY <1>0, <1>1, QuietKeeps, FreeLocations, FreeNeedsNothing DEF Quiet
<1>3. RunStep
  BY <1>0, <1>1 DEF RunStep, runVars
<1> QED
  BY <1>0, <1>1, <1>2, <1>3 DEF Quiet, StepOK, RestTypeOK, StageTyped, stageOfRun, runVars, monitorVars

\* A pull request that is merged stays merged, and only then is there anything to certify.
LEMMA MergeKeeps ==
  ASSUME IInv, NEW p \in Process, MergePullRequest(p)
  PROVE  StepOK /\ (pr = "MERGED" => pr' = "MERGED")
<1>0. EngineInv /\ RestTypeOK /\ lease \in LeaseState /\ faults \in 0 .. MaxFaults
  BY RunFacts
<1>1. /\ "certify" \in Location /\ "idle" \in Location
      /\ \A r : Needs("idle", r) /\ (pr = "MERGED" => Needs("certify", r))
  BY DEF Location, Needs
<1>2. RunStep
  BY <1>0 DEF MergePullRequest, RunStep, runVars
<1>3. CASE pr # "OPEN" /\ UNCHANGED <<provider, released>>
  <2>1. PICK l \in Location : Goto(p, l) /\ Needs(l, copy[p])
    BY <1>1, <1>3 DEF MergePullRequest, Squash
  <2>2. EngineInv'
    BY <1>0, <1>3, <2>1, QuietKeeps DEF MergePullRequest
  <2> QED
    BY <1>0, <1>2, <1>3, <2>2 DEF MergePullRequest, StepOK, RestTypeOK, StageTyped, stageOfRun, provider, runVars
<1>4. CASE Squash /\ released' = head /\ Goto(p, "certify")
  <2>1. /\ pr' = "MERGED" /\ latest' \in Commit /\ head' \in Commit
        /\ fixes' \in 0 .. MaxCommit /\ fixes' < latest' /\ UNCHANGED <<checks, asked, passed>>
    BY <1>0, <1>4, SquashFacts
  <2>2. at' \in [Process -> Location] /\ \A q \in Process : at'[q] = IF q = p THEN "certify" ELSE at[q]
    BY <1>0, <1>1, <1>4 DEF EngineInv, Goto
  <2>3. RemediationTypeOK'
    BY <1>0, <2>1 DEF MergePullRequest, EngineInv, RemediationTypeOK
  <2>4. \A q \in Process : Needs(at[q], copy[q])'
    BY <1>0, <2>1, <2>2 DEF MergePullRequest, EngineInv, Needs, IsReady, IsPushed
  <2>5. Sound(rem)' /\ \A q \in Process : Sound(copy[q])'
    BY <1>0, <2>1 DEF MergePullRequest, EngineInv, Sound, IsReady, IsPushed
  <2>6. EngineInv'
    BY <1>0, <2>1, <2>2, <2>3, <2>4, <2>5 DEF MergePullRequest, EngineInv
  <2>7. released' \in Commit \cup { NoCommit }
    BY <1>0, <1>4 DEF EngineInv, RemediationTypeOK
  <2> QED
    BY <1>0, <1>2, <2>1, <2>6, <2>7 DEF MergePullRequest, StepOK, RestTypeOK, StageTyped, stageOfRun, runVars
<1> QED
  BY <1>3, <1>4 DEF MergePullRequest

LEMMA CertifyKeeps ==
  ASSUME IInv, NEW p \in Process, Certify(p) PROVE StepOK
<1>0. EngineInv /\ RestTypeOK /\ lease \in LeaseState /\ faults \in 0 .. MaxFaults
  BY RunFacts
<1>1. EngineInv'
  BY <1>0, QuietKeeps, FreeLocations, FreeNeedsNothing DEF Certify, Quiet
<1>2. pr = "MERGED"
  BY <1>0 DEF Certify, EngineInv, Needs
<1>3. RunStep
  BY <1>0, <1>2, MovesShifts DEF Certify, RunStep, leaseOfRun
<1> QED
  BY <1>0, <1>1, <1>3 DEF Certify, Quiet, StepOK, RestTypeOK, StageTyped, stageOfRun, monitorVars

LEMMA FailsKeeps ==
  ASSUME IInv, NEW p \in Process, Fails(p) PROVE StepOK
<1>0. EngineInv /\ RestTypeOK /\ lease \in LeaseState /\ faults \in 0 .. MaxFaults
  BY RunFacts
<1>1. EngineInv'
  BY <1>0, DropKeeps, FreeLocations, FreeNeedsNothing DEF Fails
<1>2. RunStep
  BY <1>0 DEF Fails, RunStep, runVars
<1>3. aim' \in [Command -> { "RESUME", "APPROVE" }]
  BY <1>0, AimTyped DEF Fails, Resuming
<1> QED
  BY <1>0, <1>1, <1>2, <1>3 DEF Fails, StepOK, RestTypeOK, StageTyped, stageOfRun, runVars

LEMMA CrashKeeps ==
  ASSUME IInv, NEW p \in Process, Crash(p) PROVE StepOK
<1>0. EngineInv /\ RestTypeOK /\ lease \in LeaseState /\ faults' \in 0 .. MaxFaults
  BY RunFacts, MishapBound DEF Crash, EngineInv
<1>1. EngineInv'
  BY <1>0, DropKeeps, FreeLocations, FreeNeedsNothing DEF Crash
<1>2. RunStep
  BY <1>0 DEF Crash, RunStep, runVars
<1>3. aim' \in [Command -> { "RESUME", "APPROVE" }]
  BY <1>0 DEF Crash, RestTypeOK, StageTyped, stageOfRun
<1> QED
  BY <1>0, <1>1, <1>2, <1>3 DEF Crash, StepOK, RestTypeOK, StageTyped, stageOfRun, runVars

LEMMA ResumesRemediationKeeps ==
  ASSUME IInv, NEW p \in Process, ResumesRemediation(p) PROVE StepOK
<1>0. EngineInv /\ RestTypeOK /\ lease \in LeaseState
  BY RunFacts
<1>1. EngineInv'
  BY <1>0, ResumeKeepsEngine DEF ResumesRemediation
<1> QED
  BY <1>0, <1>1 DEF ResumesRemediation, StepOK, RunStep, RestTypeOK, StageTyped, stageOfRun, runVars, monitorVars

-----------------------------------------------------------------------------
(* The environment *)

\* Steps that leave the remediation run, its pull request and all processes where they are.
LEMMA StillKeeps ==
  ASSUME EngineInv, UNCHANGED <<provider, rem, callVars, mishap>>, faults' \in 0 .. MaxFaults
  PROVE  EngineInv'
<1>1. /\ head \in Commit /\ latest \in Commit /\ fixes \in 0 .. MaxCommit /\ fixes < latest
      /\ passed \subseteq Commit /\ asked \subseteq Commit /\ checks \in [Commit -> Verdict]
      /\ \A c \in Commit : checks[c] = "PASSED" => c \in passed
      /\ pr \in { "OPEN", "MERGED", "CLOSED" }
  BY DEF EngineInv, RemediationTypeOK
<1> QED
  BY <1>1, ProviderKeeps DEF provider

LEMMA EnvironmentKeeps ==
  ASSUME IInv, Expire \/ RecoverStaleRuns \/ OperatorStops \/ OperatorResumes
  PROVE  StepOK
<1>0. EngineInv /\ RestTypeOK /\ lease \in LeaseState /\ faults \in 0 .. MaxFaults /\ status \in Status
  BY RunFacts
<1>1. faults' \in 0 .. MaxFaults
  BY <1>0, MishapBound
  DEF EngineInv, Expire, RecoverStaleRuns, OperatorStops, OperatorResumes, remediationVars
<1>2. EngineInv'
  BY <1>0, <1>1, StillKeeps
  DEF Expire, RecoverStaleRuns, OperatorStops, OperatorResumes, remediationVars
<1>3. RunStep /\ StageTyped'
  <2>1. CASE Expire
    BY <1>0, <2>1 DEF Expire, RunStep, LeaseState, RestTypeOK, StageTyped, stageOfRun
  <2>2. CASE RecoverStaleRuns
    <3>1. status \in Pausable
      BY <2>2 DEF RecoverStaleRuns, IInv, Leased
    <3> QED
      BY <1>0, <2>2, <3>1 DEF RecoverStaleRuns, RunStep, LeaseState, RestTypeOK, StageTyped, stageOfRun, Pausable, ActiveStatus
  <2>3. CASE OperatorStops
    BY <1>0, <2>3, MovesShifts DEF OperatorStops, RunStep, RestTypeOK, StageTyped, stageOfRun
  <2>4. CASE OperatorResumes
    BY <1>0, <2>4, BackToWorkFacts DEF OperatorResumes, RunStep, RestTypeOK, StageTyped, stageOfRun
  <2> QED
    BY <2>1, <2>2, <2>3, <2>4
<1> QED
  BY <1>0, <1>2, <1>3
  DEF Expire, RecoverStaleRuns, OperatorStops, OperatorResumes, StepOK, RestTypeOK, StageTyped, stageOfRun, monitorVars

LEMMA ProviderStepKeeps ==
  ASSUME IInv, Provider, UNCHANGED <<runVars, monitorVars>>
  PROVE  StepOK /\ (pr = "MERGED" => pr' = "MERGED")
<1>0. EngineInv /\ RestTypeOK /\ lease \in LeaseState
  BY RunFacts
<1>1. EngineInv'
  BY <1>0, ProviderKeepsEngine
<1>2. pr = "MERGED" => pr' = "MERGED"
  BY DEF Provider, ChecksStart, ChecksPass, ChecksEnd, ChecksRerun, ForeignPush, ForeignDecision, Arrives
<1> QED
  BY <1>0, <1>1, <1>2 DEF StepOK, RunStep, RestTypeOK, StageTyped, stageOfRun, runVars, monitorVars

-----------------------------------------------------------------------------
(* Type correctness and what is certified *)

LEMMA InitIInv == Init => IInv
<1> SUFFICES ASSUME Init PROVE IInv
  OBVIOUS
<1>0. Monitor \subseteq Process /\ Command \subseteq Process /\ 1 \in Commit
  BY MonitorAssumption, RemediationAssumption DEF Commit
<1>1. RemediationTypeOK
  BY <1>0, StartedIsRecord, UnseenIsObservation, RemediationAssumption
  DEF Init, RemediationInit, RemediationTypeOK, Verdict
<1>2. /\ at \in [Process -> Location]
      /\ \A p \in Process : at[p] \in { "launch", "idle" }
  BY <1>0 DEF Init, Location
<1>3. \A p \in Process : Sound(copy[p]) /\ Needs(at[p], copy[p])
  BY <1>2, StartedIsRecord DEF Init, RemediationInit, Needs
<1>4. \A p \in Process : seen[p].verdict # "PASSED"
  BY UnseenIsObservation DEF Init, RemediationInit
<1>5. fixes < latest /\ Sound(rem) /\ \A c \in Commit : checks[c] # "PASSED"
  BY StartedIsRecord DEF Init, RemediationInit
<1>6. EngineInv
  BY <1>1, <1>2, <1>3, <1>4, <1>5 DEF EngineInv
<1>7. RunTypeOK /\ Leased /\ Merged
  BY <1>0, MonitorAssumption DEF Init, RunTypeOK, Status, Stages, BatchState, Leased, Pausable, Merged
<1> QED
  BY <1>6, <1>7 DEF IInv

\* Every step of a behaviour is one that was looked at.
LEMMA NextStepOK ==
  ASSUME IInv, Next PROVE StepOK /\ (pr = "MERGED" => pr' = "MERGED")
<1> USE MonitorAssumption
<1>1. CASE Provider /\ UNCHANGED <<runVars, monitorVars>>
  BY <1>1, ProviderStepKeeps
<1>2. CASE Expire \/ RecoverStaleRuns \/ OperatorStops \/ OperatorResumes
  BY <1>2, EnvironmentKeeps
  DEF Expire, RecoverStaleRuns, OperatorStops, OperatorResumes, remediationVars, provider
<1>3. ASSUME NEW p \in Process, ResumesRemediation(p)
      PROVE  StepOK /\ (pr = "MERGED" => pr' = "MERGED")
  BY <1>3, ResumesRemediationKeeps
  DEF ResumesRemediation, Resume, Collect, CollectChecks, Decide, RecordRequest, Apply, RecordPush,
      Arrives, Settles, provider,
      Closed, RequestMergedValidation, AwaitMergedValidation, AwaitChecks, AwaitInfrastructure,
      ExhaustInfrastructure, RetryInfrastructure, Ready, GiveUp, Require
<1>4. ASSUME NEW p \in Process,
             \/ Reconcile(p) \/ Recover(p) \/ Restart(p) \/ Rebind(p) \/ Repair(p) \/ Count(p)
             \/ Revalidate(p) \/ Approve(p) \/ Verify(p) \/ Reject(p) \/ Spend(p) \/ Refuse(p)
             \/ Halt(p) \/ UpdateForValidation(p) \/ Poll(p) \/ Failed(p) \/ PollLimit(p)
      PROVE  StepOK /\ UNCHANGED pr
  <2>1. StepOK
    BY <1>4, ReconcileKeeps, RecoverKeeps, RestartKeeps, RebindKeeps, RepairKeeps, CountKeeps,
       RevalidateKeeps, ApproveKeeps, VerifyKeeps, RejectKeeps, SpendKeeps, RefuseKeeps, HaltKeeps,
       UpdateForValidationKeeps, PollKeeps, FailedKeeps, PollLimitKeeps
  <2>2. UNCHANGED pr
    BY <1>4
    DEF Reconcile, Recover, Restart, Rebind, Repair, Count, Revalidate, Approve, Verify, Reject, Spend,
        Refuse, Halt, UpdateForValidation, Poll, Failed, PollLimit, Quiet, provider
  <2> QED
    BY <2>1, <2>2
<1>5. ASSUME NEW p \in Process,
             \/ Attach(p) \/ OfferApproval(p) \/ RefuseApproval(p) \/ Resumed(p) \/ Gate(p) \/ Revive(p)
             \/ GateFails(p) /\ p \in Command
             \/ Relaunch(p) \/ Launch(p) \/ Watch(p) \/ Spawn(p) \/ Answer(p) \/ Certify(p) \/ Fails(p)
             \/ Crash(p)
      PROVE  StepOK /\ UNCHANGED pr
  <2>1. StepOK
    BY <1>5, AttachKeeps, OfferApprovalKeeps, RefuseApprovalKeeps, ResumedKeeps, GateKeeps, GateFailsKeeps, ReviveKeeps,
       RelaunchKeeps, SpawnKeeps, AnswerKeeps, CertifyKeeps, FailsKeeps, CrashKeeps
  <2>2. UNCHANGED pr
    BY <1>5
    DEF Attach, OfferApproval, RefuseApproval, Resumed, Gate, GateFails, Revive, Relaunch, Launch, Watch, Spawn,
        Answer, Certify, Fails, Crash, Quiet, QuietDrop, provider
  <2> QED
    BY <2>1, <2>2
<1>6. ASSUME NEW p \in Process, MergePullRequest(p)
      PROVE  StepOK /\ (pr = "MERGED" => pr' = "MERGED")
  BY <1>6, MergeKeeps
<1> QED
  BY <1>1, <1>2, <1>3, <1>4, <1>5, <1>6 DEF Next, Monitors, Operates

LEMMA StutterIInv == ASSUME IInv, UNCHANGED vars PROVE IInv'
<1>1. EngineInv'
  BY StillKeeps, RunFacts DEF vars, remediationVars
<1> QED
  BY <1>1 DEF IInv, RunTypeOK, Leased, Merged, vars, runVars, monitorVars, remediationVars, provider

LEMMA NextIInv == IInv /\ [Next]_vars => IInv'
  BY NextStepOK, StepOKKeeps, StutterIInv

\* The invariant of validation: what every process holds and relies on is sound, the run is
\* leased only under work, and what is certified is merged.
THEOREM ValidationInvariant == Spec => []IInv
  BY InitIInv, NextIInv, PTL DEF Spec

\* The state of a run under validation, of its remediation run and of every process has its
\* type, for any number of monitors and terminals.
THEOREM ValidationTypeCorrect == Spec => []TypeOK
<1>1. IInv => TypeOK
  BY DEF IInv, EngineInv, RunTypeOK, TypeOK
<1> QED
  BY <1>1, ValidationInvariant, PTL

-----------------------------------------------------------------------------
(* The run follows the lifecycle of production runs *)

\* The statuses a run has once it is under validation.
Reached == { "VALIDATING", "REPAIRING", "RUNNING", "AWAITING_APPROVAL", "BLOCKED", "PAUSED", "RECOVERING",
             "CERTIFIED", "CANCELLED" }

LEMMA ReachedKeeps == ASSUME status \in Reached, RunStep PROVE status' \in Reached
  BY DEF RunStep, Shifts, Reached

LEMMA PhasesReached ==
  ASSUME status \in Reached
  PROVE  /\ PhaseOfRun = "WORKING"   <=> status \in { "VALIDATING", "REPAIRING", "RUNNING" }
         /\ PhaseOfRun = "SUSPENDED" <=> status \in { "PAUSED", "RECOVERING" }
         /\ PhaseOfRun = "STOPPED"   <=> status = "BLOCKED"
         /\ PhaseOfRun = "APPROVAL"  <=> status = "AWAITING_APPROVAL"
         /\ PhaseOfRun = "CERTIFIED" <=> status = "CERTIFIED"
         /\ PhaseOfRun = "CANCELLED" <=> status = "CANCELLED"
  BY DEF Reached, PhaseOfRun, Pausable

\* How the state functions the abstract specification sees change with the run.
LEMMA BarFacts ==
  /\ "run" \in theRun /\ phaseBar["run"] = PhaseOfRun
  /\ phaseBar' = [phaseBar EXCEPT !["run"] = PhaseOfRun']
  /\ PhaseOfRun' = PhaseOfRun => phaseBar' = phaseBar
  /\ (lease' = "NONE" <=> lease = "NONE") => holderBar' = holderBar
  /\ lease' = "NONE" => holderBar' = holderBar \ { "run" }
  /\ lease' # "NONE" => holderBar' = holderBar \cup { "run" }
  /\ "run" \in holderBar <=> lease # "NONE"
  BY DEF theRun, phaseBar, holderBar

LEMMA StepFollows ==
  ASSUME IInv, status \in Reached, RunStep
  PROVE  [Lifecycle!Next]_<<phaseBar, holderBar>>
<1>0. status' \in Reached /\ (lease # "NONE" => status \in Pausable)
  BY ReachedKeeps, RunFacts
<1>1. /\ PhaseOfRun = "WORKING"   <=> status \in { "VALIDATING", "REPAIRING", "RUNNING" }
      /\ PhaseOfRun = "SUSPENDED" <=> status \in { "PAUSED", "RECOVERING" }
      /\ PhaseOfRun = "STOPPED"   <=> status = "BLOCKED"
      /\ PhaseOfRun = "APPROVAL"  <=> status = "AWAITING_APPROVAL"
  BY PhasesReached
<1>2. /\ PhaseOfRun' = "WORKING"   <=> status' \in { "VALIDATING", "REPAIRING", "RUNNING" }
      /\ PhaseOfRun' = "SUSPENDED" <=> status' \in { "PAUSED", "RECOVERING" }
      /\ PhaseOfRun' = "STOPPED"   <=> status' = "BLOCKED"
      /\ PhaseOfRun' = "APPROVAL"  <=> status' = "AWAITING_APPROVAL"
      /\ PhaseOfRun' = "CERTIFIED" <=> status' = "CERTIFIED"
      /\ PhaseOfRun' = "CANCELLED" <=> status' = "CANCELLED"
  BY <1>0 DEF Reached, PhaseOfRun, Pausable
<1>3. status' = status => PhaseOfRun' = PhaseOfRun
  BY DEF PhaseOfRun
<1>4. CASE status' = status /\ (lease' = "NONE" <=> lease = "NONE")
  BY <1>3, <1>4, BarFacts
<1>5. CASE Shifts("VALIDATING") \/ Shifts("REPAIRING")
  <2>1. CASE PhaseOfRun = "WORKING"
    <3>1. PhaseOfRun' = PhaseOfRun /\ (lease' = "NONE" <=> lease = "NONE")
      BY <1>2, <1>5, <2>1 DEF Shifts, Terminal
    <3> QED
      BY <3>1, BarFacts
  <2>2. CASE PhaseOfRun # "WORKING"
    <3>1. PhaseOfRun = "SUSPENDED" /\ PhaseOfRun' = "WORKING" /\ (lease' = "NONE" <=> lease = "NONE")
      BY <1>0, <1>1, <1>2, <1>5, <2>2 DEF Shifts, Terminal, MayTransition, Successors, Reached
    <3>2. Lifecycle!Resume("run")
      BY <3>1, BarFacts DEF Lifecycle!Resume, Lifecycle!Enter
    <3> QED
      BY <3>2, BarFacts DEF Lifecycle!Next
  <2> QED
    BY <2>1, <2>2
<1>6. CASE Shifts("AWAITING_APPROVAL")
  <2>1. CASE status = "AWAITING_APPROVAL"
    BY <1>0, <1>3, <1>6, <2>1, BarFacts DEF Shifts, Pausable
  <2>2. CASE status # "AWAITING_APPROVAL"
    <3>1. PhaseOfRun = "WORKING" /\ PhaseOfRun' = "APPROVAL" /\ lease' = "NONE"
      BY <1>0, <1>1, <1>2, <1>6, <2>2 DEF Shifts, MayTransition, Successors, Reached
    <3>2. Lifecycle!Settle("run")
      BY <3>1, BarFacts DEF Lifecycle!Settle, Lifecycle!Enter
    <3> QED
      BY <3>2, BarFacts DEF Lifecycle!Next
  <2> QED
    BY <2>1, <2>2
<1>7. CASE Shifts("BLOCKED")
  <2>1. CASE status = "BLOCKED"
    BY <1>0, <1>3, <1>7, <2>1, BarFacts DEF Shifts, Pausable, Terminal
  <2>2. CASE status # "BLOCKED"
    <3>1. /\ PhaseOfRun \in { "WORKING", "SUSPENDED", "APPROVAL" }
          /\ PhaseOfRun' = "STOPPED" /\ lease' = "NONE"
      BY <1>0, <1>1, <1>2, <1>7, <2>2 DEF Shifts, MayTransition, Successors, Reached, Terminal
    <3>2. Lifecycle!Stop("run")
      BY <3>1, BarFacts DEF Lifecycle!Stop, Lifecycle!Enter
    <3> QED
      BY <3>2, BarFacts DEF Lifecycle!Next
  <2> QED
    BY <2>1, <2>2
<1>8. CASE Shifts("PAUSED") /\ status \in Pausable
  <2>1. PhaseOfRun = "WORKING" /\ PhaseOfRun' = "SUSPENDED" /\ lease' = "NONE"
    BY <1>0, <1>1, <1>2, <1>8 DEF Shifts, Reached, Pausable
  <2>2. Lifecycle!Suspend("run")
    BY <2>1, BarFacts DEF Lifecycle!Suspend, Lifecycle!Enter
  <2> QED
    BY <2>2, BarFacts DEF Lifecycle!Next
<1>9. CASE Shifts("CANCELLED") /\ status \notin Terminal
  <2>1. /\ PhaseOfRun \in { "WORKING", "SUSPENDED", "APPROVAL" }
        /\ PhaseOfRun' = "CANCELLED" /\ lease' = "NONE"
    BY <1>0, <1>1, <1>2, <1>9 DEF Shifts, Reached, Terminal
  <2>2. Lifecycle!Settle("run")
    BY <2>1, BarFacts DEF Lifecycle!Settle, Lifecycle!Enter
  <2> QED
    BY <2>2, BarFacts DEF Lifecycle!Next
<1>10. CASE Shifts("CERTIFIED") /\ status = "AWAITING_APPROVAL"
  <2>1. PhaseOfRun = "APPROVAL" /\ PhaseOfRun' = "CERTIFIED" /\ lease' = "NONE"
    BY <1>0, <1>1, <1>2, <1>10 DEF Shifts, Terminal
  <2>2. Lifecycle!Settle("run")
    BY <2>1, BarFacts DEF Lifecycle!Settle, Lifecycle!Enter
  <2> QED
    BY <2>2, BarFacts DEF Lifecycle!Next
<1>11. CASE /\ status \in { "PAUSED", "RECOVERING", "BLOCKED" }
            /\ status' \in { "VALIDATING", "RUNNING" } /\ lease' # "NONE"
  <2>1. PhaseOfRun \in { "SUSPENDED", "STOPPED" } /\ PhaseOfRun' = "WORKING"
    BY <1>1, <1>2, <1>11
  <2>2. Lifecycle!Resume("run") \/ Lifecycle!Restart("run")
    BY <1>11, <2>1, BarFacts DEF Lifecycle!Resume, Lifecycle!Restart, Lifecycle!Enter
  <2> QED
    BY <2>2, BarFacts DEF Lifecycle!Next
<1>12. CASE lease = "EXPIRED" /\ lease' = "NONE" /\ status \in Pausable /\ status' = "RECOVERING"
  <2>1. PhaseOfRun = "WORKING" /\ PhaseOfRun' = "SUSPENDED"
    BY <1>0, <1>1, <1>2, <1>12 DEF Reached, Pausable
  <2>2. Lifecycle!Suspend("run")
    BY <1>12, <2>1, BarFacts DEF Lifecycle!Suspend, Lifecycle!Enter
  <2> QED
    BY <2>2, BarFacts DEF Lifecycle!Next
<1> QED
  BY <1>4, <1>5, <1>6, <1>7, <1>8, <1>9, <1>10, <1>11, <1>12 DEF RunStep

\* The monitors, the commands, the operator and the sweep of expired leases, however many
\* and in whatever order, take the run through the phases RunLifecycle allows, and its
\* lease with it.
THEOREM ValidationFollowsLifecycle == Spec => FollowsLifecycle
<1> DEFINE Inv == IInv /\ status \in Reached
<1>1. Init => Inv
  BY InitIInv DEF Init, Reached
<1>2. Inv /\ [Next]_vars => Inv'
  <2>1. status \in Reached /\ UNCHANGED vars => status' \in Reached
    BY DEF vars, runVars
  <2> QED
    BY <2>1, NextIInv, NextStepOK, ReachedKeeps DEF StepOK
<1>3. Inv /\ [Next]_vars => [Lifecycle!Next]_<<phaseBar, holderBar>>
  <2>1. UNCHANGED vars => UNCHANGED <<phaseBar, holderBar>>
    BY DEF vars, runVars, phaseBar, holderBar, PhaseOfRun
  <2> QED
    BY <2>1, NextStepOK, StepFollows DEF StepOK
<1> QED
  BY <1>1, <1>2, <1>3, PTL DEF Spec, FollowsLifecycle

-----------------------------------------------------------------------------
(* One monitor at work *)

OneTerminal == \A p, q \in Command : p = q

\* A run has one monitor, or one terminal from which monitors are launched.
Unrivalled == OneTerminal \/ \A m, n \in Monitor : m = n

Single == \A m, n \in Monitor : at[m] # "idle" /\ at[n] # "idle" => m = n

\* The job names the monitor at work, and nobody is about to spawn another.
LInv ==
  \A m \in Monitor :
    at[m] # "idle" => job = "RUNNING" /\ monitor = m /\ \A o \in Command : at[o] # "spawn"

\* Only p moves.
Alone(p) == \A q \in Process : q # p => at'[q] = at[q]

LEMMA GotoFacts ==
  ASSUME EngineInv, NEW p \in Process, NEW l, Goto(p, l) PROVE Alone(p) /\ at'[p] = l
  BY DEF EngineInv, Goto, Alone

\* A call of resume moves its process alone, from one place of the engine to another.
LEMMA ResumeMoves ==
  ASSUME EngineInv, NEW p \in Process, Resume(p)
  PROVE  /\ at[p] \in Engine \ { "answered", "failed" } /\ Alone(p) /\ at'[p] \in Engine \ { "read" }
         /\ pr = "MERGED" => pr' = "MERGED"
<1>1. CASE Collect(p) \/ CollectChecks(p) \/ RecordRequest(p)
  BY <1>1, GotoFacts DEF Collect, CollectChecks, RecordRequest, Settles, provider, Engine
<1>2. CASE Decide(p)
  <2>1. at[p] = "decide"
    BY <1>2 DEF Decide
  <2>2. (Goto(p, "answered") \/ Goto(p, "asked") \/ Goto(p, "propose")) /\ UNCHANGED pr
    BY <1>2
    DEF Decide, Closed, RequestMergedValidation, AwaitMergedValidation, AwaitChecks, AwaitInfrastructure,
        ExhaustInfrastructure, RetryInfrastructure, Ready, GiveUp, Require, Settles, provider
  <2> QED
    BY <2>1, <2>2, GotoFacts DEF Engine
<1>3. CASE Apply(p) \/ RecordPush(p)
  <2>1. at[p] \in { "propose", "push" }
    BY <1>3 DEF Apply, RecordPush
  <2>2. \/ Goto(p, "answered") \/ Goto(p, "push") \/ Goto(p, "failed")
    BY <1>3 DEF Apply, RecordPush, Settles
  <2>3. UNCHANGED pr
    BY <1>3 DEF Apply, RecordPush, Arrives, provider
  <2> QED
    BY <2>1, <2>2, <2>3, GotoFacts DEF Engine
<1> QED
  BY <1>1, <1>2, <1>3 DEF Resume

\* A monitor moves alone, and changes the job only when it ends.
LEMMA MonitorMoves ==
  ASSUME EngineInv, NEW p \in Monitor, Monitors(p) \/ PollLimit(p) \/ Crash(p)
  PROVE  /\ at[p] # "idle" /\ Alone(p)
         /\ UNCHANGED <<kind, monitor>>
         /\ UNCHANGED job \/ at'[p] = "idle"
<1>0. p \in Process
  BY MonitorAssumption
<1>1. CASE ResumesRemediation(p)
  BY <1>0, <1>1, ResumeMoves DEF ResumesRemediation, monitorVars, Engine
<1>2. CASE Reconcile(p) \/ Recover(p) \/ Restart(p) \/ Rebind(p) \/ Count(p) \/ Revalidate(p)
  BY <1>0, <1>2, GotoFacts
  DEF Reconcile, Recover, Restart, Rebind, Count, Revalidate, Quiet, monitorVars
<1>3. CASE Repair(p) \/ Approve(p) \/ Verify(p) \/ Reject(p) \/ Spend(p) \/ Refuse(p) \/ Halt(p)
  BY <1>0, <1>3, GotoFacts
  DEF Repair, Approve, Verify, Reject, Spend, Refuse, Halt, Calls, Quiet, monitorVars
<1>4. CASE UpdateForValidation(p)
  BY <1>0, <1>4, GotoFacts
  DEF UpdateForValidation, FollowRemediation, FollowValidation, FollowReady, FollowBlocked,
      FollowNothing, Calls
<1>5. CASE Poll(p) \/ Failed(p) \/ PollLimit(p) \/ Crash(p)
  BY <1>0, <1>5, GotoFacts DEF Poll, Failed, PollLimit, Crash, monitorVars
<1> QED
  BY <1>1, <1>2, <1>3, <1>4, <1>5 DEF Monitors

\* A command moves alone but when it spawns a monitor, and then the job is a new one's.
LEMMA CommandMoves ==
  ASSUME EngineInv, NEW p \in Command, Attach(p) \/ Relaunch(p) \/ Operates(p) \/ Crash(p)
  PROVE  UNCHANGED kind /\
         ( \/ Spawn(p)
           \/ /\ Alone(p) /\ UNCHANGED <<job, monitor>>
              /\ at'[p] = "spawn" => ~(job = "RUNNING" /\ at[monitor] # "idle") )
<1>0. p \in Process
  BY MonitorAssumption
<1>1. CASE ResumesRemediation(p)
  BY <1>0, <1>1, ResumeMoves DEF ResumesRemediation, monitorVars, Engine
<1>2. CASE Attach(p) \/ Relaunch(p) \/ OfferApproval(p) \/ RefuseApproval(p) \/ Resumed(p)
           \/ Gate(p) \/ GateFails(p) \/ Revive(p)
  BY <1>0, <1>2, GotoFacts
  DEF Attach, Relaunch, OfferApproval, RefuseApproval, Resumed, Gate, GateFails, Revive, Calls, Quiet, QuietDrop,
      monitorVars
<1>3. CASE Launch(p) \/ Watch(p) \/ Answer(p) \/ MergePullRequest(p) \/ Certify(p) \/ Fails(p) \/ Crash(p)
  BY <1>0, <1>3, GotoFacts
  DEF Launch, Watch, Answer, MergePullRequest, Certify, Fails, Crash, Quiet, monitorVars
<1>4. CASE Spawn(p)
  BY <1>4 DEF Spawn
<1> QED
  BY <1>1, <1>2, <1>3, <1>4 DEF Operates

\* The provider and the environment move no process, and push no fix.
LEMMA NobodyMoves ==
  ASSUME EngineInv,
         \/ Provider /\ UNCHANGED <<runVars, monitorVars>>
         \/ Expire \/ RecoverStaleRuns \/ OperatorStops \/ OperatorResumes
         \/ UNCHANGED vars
  PROVE  UNCHANGED <<callVars, rem, monitorVars, commit, fixes, mishap>> /\ passed \subseteq passed'
<1>1. CASE Provider /\ UNCHANGED <<runVars, monitorVars>>
  <2>1. UNCHANGED <<callVars, rem, mishap>> /\ passed \subseteq passed'
    BY <1>1 DEF Provider, ChecksStart, ChecksPass, ChecksEnd, ChecksRerun, ForeignPush, ForeignDecision,
                Arrives, Squash
  <2>2. UNCHANGED fixes
    <3>1. fixes + 0 = fixes
      BY RemediationAssumption DEF EngineInv, RemediationTypeOK
    <3> QED
      BY <1>1, <3>1 DEF Provider, ChecksStart, ChecksPass, ChecksEnd, ChecksRerun, ForeignPush,
                        ForeignDecision, Arrives, Squash
  <2> QED
    BY <1>1, <2>1, <2>2 DEF runVars
<1>2. CASE UNCHANGED vars
  BY <1>2 DEF vars, remediationVars, provider, runVars
<1>3. CASE Expire \/ RecoverStaleRuns \/ OperatorStops \/ OperatorResumes
  BY <1>3 DEF Expire, RecoverStaleRuns, OperatorStops, OperatorResumes, remediationVars, provider
<1> QED
  BY <1>1, <1>2, <1>3

\* With one terminal there is one monitor at work at a time.
LEMMA LInvKeeps ==
  ASSUME OneTerminal, EngineInv, LInv, [Next]_vars PROVE LInv'
<1>0. Monitor \cup Command = Process
  BY MonitorAssumption
<1>1. CASE \/ Provider /\ UNCHANGED <<runVars, monitorVars>>
           \/ Expire \/ RecoverStaleRuns \/ OperatorStops \/ OperatorResumes
           \/ UNCHANGED vars
  BY <1>1, NobodyMoves DEF LInv, callVars, monitorVars
<1>2. ASSUME NEW p \in Monitor, Monitors(p) \/ PollLimit(p) \/ Crash(p) PROVE LInv'
  <2>1. /\ at[p] # "idle" /\ Alone(p) /\ UNCHANGED monitor
        /\ UNCHANGED job \/ at'[p] = "idle"
    BY <1>2, MonitorMoves
  <2>2. /\ job = "RUNNING" /\ monitor = p
        /\ \A m \in Monitor : m # p => at[m] = "idle"
        /\ \A o \in Command : at[o] # "spawn"
    BY <2>1 DEF LInv
  <2>3. /\ \A m \in Monitor : m # p => at'[m] = "idle"
        /\ \A o \in Command : at'[o] # "spawn"
    BY <1>0, <2>1, <2>2, MonitorAssumption DEF Alone
  <2> QED
    BY <2>1, <2>2, <2>3 DEF LInv
<1>3. ASSUME NEW p \in Command, Attach(p) \/ Relaunch(p) \/ Operates(p) \/ Crash(p) PROVE LInv'
  <2>1. CASE Spawn(p)
    <3>1. PICK m \in Monitor :
            /\ at[m] = "idle" /\ at' = [at EXCEPT ![m] = "read", ![p] = "watch"]
            /\ job' = "RUNNING" /\ monitor' = m
      BY <2>1 DEF Spawn
    <3>2. \A n \in Monitor : at[n] = "idle"
      BY <2>1 DEF LInv, Spawn
    <3>3. /\ \A n \in Monitor : n # m => at'[n] = "idle"
          /\ \A o \in Command : at'[o] # "spawn"
      BY <1>0, <3>1, <3>2, MonitorAssumption DEF OneTerminal, EngineInv
    <3> QED
      BY <3>1, <3>3 DEF LInv
  <2>2. CASE /\ Alone(p) /\ UNCHANGED <<job, monitor>>
             /\ at'[p] = "spawn" => ~(job = "RUNNING" /\ at[monitor] # "idle")
    BY <1>0, <2>2, MonitorAssumption DEF LInv, Alone
  <2> QED
    BY <1>3, <2>1, <2>2, CommandMoves
<1> QED
  BY <1>1, <1>2, <1>3 DEF Next

\* Where a run has one monitor or one terminal, one monitor at most is at work.
LEMMA OneMonitor ==
  ASSUME Unrivalled PROVE Spec => []Single
<1>1. CASE OneTerminal
  <2> DEFINE Inv == IInv /\ LInv
  <2>1. Init => Inv
    BY InitIInv, MonitorAssumption DEF Init, LInv
  <2>2. Inv /\ [Next]_vars => Inv'
    BY <1>1, NextIInv, LInvKeeps DEF IInv
  <2>3. Inv => Single
    BY DEF LInv, Single
  <2> QED
    BY <2>1, <2>2, <2>3, PTL DEF Spec
<1>2. CASE \A m, n \in Monitor : m = n
  <2>1. Single
    BY <1>2 DEF Single
  <2> QED
    BY <2>1, PTL
<1> QED
  BY <1>1, <1>2 DEF Unrivalled
-----------------------------------------------------------------------------
(* What is certified is merged *)

\* Beside one that certified the run no command resumes it.
CInv ==
  status = "CERTIFIED" =>
    mission = "COMPLETE" /\ \A o \in Command : at[o] \notin Engine \cup { "revive" }

\* Only certify certifies.
LEMMA OnlyCertify ==
  ASSUME EngineInv, [Next]_vars, status # "CERTIFIED", status' = "CERTIFIED"
  PROVE  \E p \in Command : Certify(p)
<1>1. ASSUME NEW p, Monitors(p) \/ PollLimit(p) \/ Crash(p) PROVE FALSE
  BY <1>1
  DEF Monitors, ResumesRemediation, Reconcile, Recover, Restart, Recovers, Rebind, Rebinds, Repair, Count,
      Revalidate, Approve, Verify, Reject, Spend, Refuse, Halt, UpdateForValidation, FollowRemediation,
      FollowValidation, FollowReady, FollowBlocked, FollowNothing, Poll, Failed, PollLimit, Crash,
      Calls, Moves, Heartbeat, BackToWork, leaseOfRun, runVars
<1>2. ASSUME NEW p \in Command, Attach(p) \/ Relaunch(p) \/ Operates(p) \/ Crash(p) PROVE Certify(p)
  BY <1>2
  DEF Operates, ResumesRemediation, Attach, Relaunch, OfferApproval, RefuseApproval, Resumed, Rebinds,
      Gate, GateFails, Revive, Recovers, Launch, Spawn, Watch, Answer, MergePullRequest, Fails, Crash,
      Calls, Moves, Heartbeat, BackToWork, leaseOfRun, runVars
<1>3. ~UNCHANGED vars /\ ~(Provider /\ UNCHANGED <<runVars, monitorVars>>)
  BY DEF vars, runVars
<1>4. ~(Expire \/ RecoverStaleRuns \/ OperatorStops \/ OperatorResumes)
  BY DEF Expire, RecoverStaleRuns, OperatorStops, OperatorResumes, BackToWork, Moves
<1> QED
  BY <1>1, <1>2, <1>3, <1>4 DEF Next

LEMMA CInvKeeps ==
  ASSUME OneTerminal, IInv, CInv, [Next]_vars PROVE CInv'
<1> DEFINE Away == \A o \in Command : at[o] \notin Engine \cup { "revive" }
<1>0. EngineInv /\ Monitor \cup Command = Process /\ Monitor \cap Command = {}
  BY MonitorAssumption DEF IInv
<1>1. CASE status = "CERTIFIED"
  <2>0. mission = "COMPLETE" /\ Away
    BY <1>1 DEF CInv
  <2>1. mission' = mission
    <3>1. \A p \in Command : ~GateFails(p)
      BY <2>0 DEF GateFails
    <3> QED
      BY <1>1, <3>1, NextStepOK DEF StepOK, RunStep, vars, runVars
  <2>2. Away'
    <3>1. CASE \/ Provider /\ UNCHANGED <<runVars, monitorVars>>
               \/ Expire \/ RecoverStaleRuns \/ OperatorStops \/ OperatorResumes
               \/ UNCHANGED vars
      BY <1>0, <2>0, <3>1, NobodyMoves DEF callVars
    <3>2. ASSUME NEW p \in Monitor, Monitors(p) \/ PollLimit(p) \/ Crash(p) PROVE Away'
      BY <1>0, <2>0, <3>2, MonitorMoves DEF Alone
    <3>3. ASSUME NEW p \in Command, Attach(p) \/ Relaunch(p) \/ Operates(p) \/ Crash(p) PROVE Away'
      <4>1. \A l : Goto(p, l) => at'[p] = l
        BY <1>0, GotoFacts
      <4>2. at'[p] \notin Engine \cup { "revive" }
        <5>1. ~ResumesRemediation(p) /\ ~Attach(p)
          BY <1>0, <1>1, <2>0, ResumeMoves DEF ResumesRemediation, Attach, Resumable
        <5>2. ~(OfferApproval(p) \/ RefuseApproval(p) \/ Resumed(p) \/ Gate(p) \/ GateFails(p) \/ Revive(p)
                \/ Fails(p))
          BY <2>0 DEF OfferApproval, RefuseApproval, Resumed, Gate, GateFails, Revive, Fails, Engine
        <5>3. CASE Spawn(p)
          BY <1>0, <5>3 DEF Spawn, EngineInv, Engine
        <5>4. CASE \/ Relaunch(p) \/ Launch(p) \/ Watch(p) \/ Answer(p) \/ MergePullRequest(p)
                   \/ Certify(p) \/ Crash(p)
          BY <4>1, <5>4 DEF Relaunch, Launch, Watch, Answer, MergePullRequest, Certify, Crash, Engine
        <5> QED
          BY <3>3, <5>1, <5>2, <5>3, <5>4 DEF Operates
      <4> QED
        BY <4>2 DEF OneTerminal
    <3> QED
      BY <3>1, <3>2, <3>3 DEF Next
  <2> QED
    BY <2>0, <2>1, <2>2 DEF CInv
<1>2. CASE status # "CERTIFIED" /\ status' = "CERTIFIED"
  <2>1. PICK p \in Command : Certify(p)
    BY <1>0, <1>2, OnlyCertify
  <2>2. mission' = "COMPLETE"
    BY <1>2, <2>1 DEF Certify, leaseOfRun
  <2>3. at'[p] = "idle"
    BY <1>0, <2>1, GotoFacts DEF Certify
  <2> QED
    BY <2>2, <2>3 DEF CInv, OneTerminal, Engine
<1> QED
  BY <1>1, <1>2 DEF CInv

\* Whatever the monitors, the operator, the sweep and the provider do, a certified run's pull
\* request is merged; and with one terminal its mission is complete
\* (promptForValidatedMissionPromotion, certify).  A second terminal whose staging migration
\* fails while the first one certifies blocks the mission all the same.
THEOREM CertifiedRunsAreMerged ==
  ASSUME OneTerminal PROVE Spec => []CertifiedIsMerged
<1> DEFINE Inv == IInv /\ CInv
<1>1. Init => Inv
  BY InitIInv DEF Init, CInv
<1>2. Inv /\ [Next]_vars => Inv'
  BY NextIInv, CInvKeeps
<1>3. Inv => CertifiedIsMerged
  BY DEF IInv, Merged, CInv, CertifiedIsMerged
<1> QED
  BY <1>1, <1>2, <1>3, PTL DEF Spec

-----------------------------------------------------------------------------
(* What is approved has passed *)

Waiting == { "AWAITING_APPROVAL", "CERTIFIED" }

\* What a monitor at a location relies on, of the run of a mission that is no batch.
Warranted(there) ==
  /\ there # "batch"
  /\ there \in { "recover", "rebind" } => status \notin Waiting
  /\ there = "approve" => commit \in passed

AInv ==
  kind # "BATCH" => /\ \A m \in Monitor : Warranted(at[m])
                    /\ status \in Waiting => commit \in passed

\* The engine touches no run.
LEMMA ResumePasses ==
  ASSUME NEW p, Resume(p) PROVE UNCHANGED passed
  BY DEF Resume, Collect, CollectChecks, Decide, RecordRequest, Apply, RecordPush, Arrives, Settles, provider, Closed,
         RequestMergedValidation, AwaitMergedValidation, AwaitChecks, AwaitInfrastructure,
         ExhaustInfrastructure, RetryInfrastructure, Ready, GiveUp, Require

\* A step that is nobody's, or a command's, brings a run to approval only at a commit
\* that passed.
LEMMA OthersKeepAInv ==
  ASSUME AInv, UNCHANGED kind, passed \subseteq passed',
         commit' = commit \/ commit' \in passed', status' \in Waiting => status \in Waiting,
         \A m \in Monitor : at'[m] \in { at[m], "read" }
  PROVE  AInv'
  BY DEF AInv, Warranted

\* A monitor's step, where no other monitor is at work.
LEMMA OwnStepKeepsAInv ==
  ASSUME EngineInv, Single, NEW m \in Monitor, at[m] # "idle", Alone(m), UNCHANGED kind,
         kind # "BATCH" => Warranted(at[m])' /\ (status' \in Waiting => commit' \in passed')
  PROVE  AInv'
<1>1. ASSUME NEW n \in Monitor, n # m PROVE at'[n] = "idle"
  BY <1>1, MonitorAssumption DEF Single, Alone
<1> QED
  BY <1>1 DEF AInv, Warranted

LEMMA MonitorKeepsAInv ==
  ASSUME IInv, AInv, Single, NEW p \in Monitor, Monitors(p) \/ PollLimit(p) \/ Crash(p)
  PROVE  AInv'
<1> DEFINE Own == Warranted(at[p])' /\ (status' \in Waiting => commit' \in passed')
<1>0. /\ p \in Process /\ EngineInv /\ at[p] # "idle" /\ Alone(p) /\ UNCHANGED kind
  BY MonitorMoves, MonitorAssumption DEF IInv
<1> SUFFICES ASSUME kind # "BATCH" PROVE Own
  BY <1>0, OwnStepKeepsAInv
<1>1. /\ Warranted(at[p]) /\ (status \in Waiting => commit \in passed)
      /\ Onward = "poll" /\ Branch(p) \in Location
      /\ (Branch(p) = "approve" => commit \in passed)
      /\ Branch(p) \notin { "recover", "batch" }
      /\ IsReady(copy[p]) => copy[p].headSha \in passed
  BY <1>0, BranchFacts, ResultNamesCommit DEF AInv, Onward
<1>2. \A l : Goto(p, l) => at'[p] = l
  BY <1>0, GotoFacts
<1>3. CASE ResumesRemediation(p)
  <2>1. at'[p] \in Engine /\ UNCHANGED passed
    BY <1>0, <1>3, ResumeMoves, ResumePasses DEF ResumesRemediation
  <2> QED
    BY <1>1, <1>3, <2>1 DEF ResumesRemediation, runVars, Warranted, Engine
<1>4. CASE Reconcile(p)
  <2>1. UNCHANGED <<status, commit, passed>>
    BY <1>4 DEF Reconcile, Heartbeat, leaseOfRun, Quiet, provider
  <2>2. \/ status = "VALIDATING" /\ at'[p] = Branch(p)
        \/ status = "BLOCKED" /\ at'[p] = "recover"
        \/ at'[p] = "poll"
    BY <1>1, <1>2, <1>4 DEF Reconcile
  <2> QED
    BY <1>1, <2>1, <2>2 DEF Warranted, Waiting
<1>5. CASE Recover(p)
  <2>1. at'[p] = "restart" /\ status' = status /\ status \notin Waiting
    BY <1>1, <1>2, <1>5 DEF Recover, Rebinds, Heartbeat, leaseOfRun, Warranted
  <2> QED
    BY <2>1 DEF Warranted
<1>6. CASE Restart(p)
  <2>1. UNCHANGED <<commit, passed>>
    BY <1>6 DEF Restart, Quiet, provider
  <2>2. \/ status' = "VALIDATING" /\ at'[p] = Branch(p)
        \/ status' \in { status, "RUNNING" } /\ at'[p] \in { "failed", "poll" }
    BY <1>1, <1>2, <1>6 DEF Restart, Recovers, BackToWork, leaseOfRun
  <2> QED
    BY <1>1, <2>1, <2>2 DEF Warranted, Waiting
<1>7. CASE Rebind(p)
  <2>1. at'[p] = "repair" /\ status' = status /\ status \notin Waiting
    BY <1>1, <1>2, <1>7 DEF Rebind, Rebinds, Heartbeat, leaseOfRun, Warranted
  <2> QED
    BY <2>1 DEF Warranted
<1>8. CASE Repair(p) \/ Count(p) \/ Revalidate(p)
  <2>1. UNCHANGED <<commit, passed>>
    BY <1>8 DEF Repair, Count, Revalidate, Quiet, provider
  <2>2. at'[p] \in { "count", "failed", "revalidate", "poll" }
    BY <1>1, <1>2, <1>8 DEF Repair, Count, Revalidate, Calls
  <2>3. status' \in { status, "REPAIRING", "VALIDATING" }
    BY <1>8 DEF Repair, Count, Revalidate, Calls, Moves, Heartbeat, leaseOfRun
  <2> QED
    BY <1>1, <2>1, <2>2, <2>3 DEF Warranted, Waiting
<1>9. CASE Approve(p)
  <2>1. UNCHANGED <<commit, passed>> /\ commit \in passed
    BY <1>1, <1>9 DEF Approve, Quiet, provider, Warranted
  <2>2. at'[p] \in { "poll", "refuse" }
    BY <1>1, <1>2, <1>9 DEF Approve, Calls
  <2> QED
    BY <2>1, <2>2 DEF Warranted
<1>10. CASE Verify(p)
  <2>1. UNCHANGED <<commit, passed>> /\ IsReady(copy[p])
    BY <1>0, <1>10 DEF Verify, Quiet, provider, EngineInv, Needs
  <2>2. /\ at'[p] \in { "poll", "reject" }
        /\ commit = copy[p].headSha \/ status' = status
    BY <1>1, <1>2, <1>10 DEF Verify, Heartbeat
  <2> QED
    BY <1>1, <2>1, <2>2 DEF Warranted
<1>11. CASE Reject(p) \/ Spend(p) \/ Refuse(p) \/ Halt(p)
  <2>1. UNCHANGED <<commit, passed>>
    BY <1>11 DEF Reject, Spend, Refuse, Halt, Quiet, provider
  <2>2. at'[p] \in { "spend", "refuse", "failed", "poll" }
    BY <1>1, <1>2, <1>11 DEF Reject, Spend, Refuse, Halt, Calls
  <2>3. status' \in { status, "REPAIRING", "BLOCKED" }
    BY <1>11 DEF Reject, Spend, Refuse, Halt, Calls, Moves, Heartbeat, leaseOfRun
  <2> QED
    BY <1>1, <2>1, <2>2, <2>3 DEF Warranted, Waiting
<1>12. CASE UpdateForValidation(p)
  BY <1>1, <1>12 DEF UpdateForValidation, Warranted
<1>13. CASE Poll(p) \/ Failed(p) \/ PollLimit(p) \/ Crash(p)
  <2>1. UNCHANGED <<commit, passed>>
    BY <1>13 DEF Poll, Failed, PollLimit, Crash, provider, runVars
  <2>2. at'[p] \in { "idle", "read", "failed" }
    BY <1>2, <1>13 DEF Poll, Failed, PollLimit, Crash
  <2>3. status' \in { status, "BLOCKED" }
    BY <1>13 DEF Poll, Failed, PollLimit, Crash, Moves, leaseOfRun, runVars
  <2> QED
    BY <1>1, <2>1, <2>2, <2>3 DEF Warranted, Waiting
<1> QED
  BY <1>3, <1>4, <1>5, <1>6, <1>7, <1>8, <1>9, <1>10, <1>11, <1>12, <1>13 DEF Monitors

\* A command moves a run to a commit only when its checks have passed.
LEMMA CommandKeepsAInv ==
  ASSUME IInv, AInv, NEW p \in Command, Attach(p) \/ Relaunch(p) \/ Operates(p) \/ Crash(p)
  PROVE  AInv'
<1>0. p \in Process /\ p \notin Monitor /\ EngineInv /\ Monitor \subseteq Process
  BY MonitorAssumption DEF IInv
<1>1. UNCHANGED kind /\ \A m \in Monitor : at'[m] \in { at[m], "read" }
  <2>1. CASE Spawn(p)
    BY <1>0, <2>1 DEF Spawn, EngineInv
  <2>2. CASE UNCHANGED kind /\ Alone(p)
    BY <1>0, <2>2 DEF Alone
  <2> QED
    BY <1>0, <2>1, <2>2, CommandMoves
<1>2. passed \subseteq passed'
  <2>1. CASE ResumesRemediation(p)
    BY <2>1, ResumePasses DEF ResumesRemediation
  <2>2. CASE \/ Attach(p) \/ Relaunch(p) \/ OfferApproval(p) \/ RefuseApproval(p) \/ Resumed(p)
             \/ Gate(p) \/ GateFails(p) \/ Revive(p) \/ Launch(p) \/ Spawn(p) \/ Watch(p)
             \/ Answer(p) \/ MergePullRequest(p) \/ Certify(p) \/ Fails(p) \/ Crash(p)
    BY <2>2
    DEF Attach, Relaunch, OfferApproval, RefuseApproval, Resumed, Gate, GateFails, Revive, Launch, Spawn, Watch,
        Answer, MergePullRequest, Squash, Certify, Fails, Crash, Quiet, QuietDrop, provider
  <2> QED
    BY <2>1, <2>2 DEF Operates
<1>3. /\ commit' = commit \/ commit' \in passed'
      /\ status' \in Waiting => status \in Waiting
  <2>1. CASE Resumed(p)
    <3>1. Result(p) = "READY_FOR_CERTIFICATION" => copy[p].headSha \in passed
      BY <1>0, ResultNamesCommit DEF IsReady
    <3> QED
      BY <1>2, <2>1, <3>1 DEF Resumed, Rebinds, Heartbeat, leaseOfRun
  <2>2. CASE \/ RefuseApproval(p) \/ Gate(p) \/ GateFails(p) \/ Revive(p) \/ Certify(p)
    BY <2>2
    DEF RefuseApproval, Gate, GateFails, Revive, Certify, Calls, Moves, Recovers, BackToWork, leaseOfRun, Waiting
  <2>3. CASE \/ ResumesRemediation(p) \/ Attach(p) \/ Relaunch(p) \/ OfferApproval(p) \/ Launch(p)
             \/ Spawn(p) \/ Watch(p) \/ Answer(p) \/ MergePullRequest(p) \/ Fails(p) \/ Crash(p)
    BY <2>3
    DEF ResumesRemediation, Attach, Relaunch, OfferApproval, Launch, Spawn, Watch, Answer,
        MergePullRequest, Fails, Crash, runVars
  <2> QED
    BY <2>1, <2>2, <2>3 DEF Operates
<1> QED
  BY <1>1, <1>2, <1>3, OthersKeepAInv

LEMMA AInvKeeps ==
  ASSUME IInv, AInv, Single, [Next]_vars PROVE AInv'
<1>1. CASE \/ Provider /\ UNCHANGED <<runVars, monitorVars>>
           \/ Expire \/ RecoverStaleRuns \/ OperatorStops \/ OperatorResumes
           \/ UNCHANGED vars
  <2>1. UNCHANGED <<at, kind, commit>> /\ passed \subseteq passed'
    BY <1>1, NobodyMoves DEF IInv, callVars, monitorVars
  <2>2. status' \in Waiting => status \in Waiting
    BY <1>1
    DEF runVars, vars, Expire, RecoverStaleRuns, OperatorStops, OperatorResumes, BackToWork, Moves, Waiting
  <2> QED
    BY <2>1, <2>2, OthersKeepAInv
<1> QED
  BY <1>1, MonitorKeepsAInv, CommandKeepsAInv DEF Next

\* Where a run has one monitor, or one terminal to launch monitors from, a run that waits
\* for approval or is certified is at a commit whose checks have passed, whatever is pushed,
\* rerun, merged, rebound or interrupted meanwhile (reconcileProductionMission,
\* resumeExistingProductionValidation).  A batch is approved without a comparison.
THEOREM ApprovedRunsPassed ==
  ASSUME Unrivalled PROVE Spec => []ApprovedRevisionPassed
<1>1. Init => AInv
  BY MonitorAssumption DEF Init, AInv, Waiting, Warranted
<1>2. AInv => ApprovedRevisionPassed
  BY DEF AInv, ApprovedRevisionPassed, Waiting
<1> QED
  BY <1>1, <1>2, AInvKeeps, ValidationInvariant, OneMonitor, PTL DEF Spec

-----------------------------------------------------------------------------
(* Fixes are counted *)

\* The places at which a call of resume holds the record it read.
Held == { "view", "decide", "asked", "propose", "push" }

\* A fix that is pushed and not yet recorded.
Owed == IF \E p \in Process : at[p] = "push" THEN 1 ELSE 0

\* No command resumes the remediation run while a monitor is at work.
Apart ==
  \A m \in Monitor, o \in Command : at[m] # "idle" => at[o] \notin Engine \cup { "revive" }

Counted ==
  /\ \A p \in Process : at[p] \in Held => copy[p].attempt = rem.attempt
  /\ fixes = rem.attempt + Owed

FInv == mishap \notin { "CRASH", "COMMAND" } => Apart /\ Counted

\* So one process at most is in the engine.
LEMMA OneInEngine ==
  ASSUME OneTerminal, LInv, Apart, NEW p \in Process, NEW q \in Process,
         at[p] \in Engine, at[q] \in Engine
  PROVE  p = q
  BY MonitorAssumption DEF OneTerminal, LInv, Apart, Engine

LEMMA OwedIsPushing ==
  ASSUME OneTerminal, LInv, Apart PROVE Cardinality({ p \in Process : at[p] = "push" }) = Owed
<1> DEFINE Pushing == { p \in Process : at[p] = "push" }
<1>1. CASE \A p \in Process : at[p] # "push"
  <2>1. Pushing = {}
    BY <1>1
  <2> QED
    BY <1>1, <2>1, FS_EmptySet DEF Owed
<1>2. CASE \E p \in Process : at[p] = "push"
  <2>1. PICK p \in Process : at[p] = "push"
    BY <1>2
  <2>2. Pushing = { p }
    BY <2>1, OneInEngine DEF Engine
  <2> QED
    BY <1>2, <2>2, FS_Singleton DEF Owed
<1> QED
  BY <1>1, <1>2

\* A step of p outside the engine.
Outside(p) ==
  /\ at[p] \notin Held /\ at'[p] \notin Held /\ Alone(p)
  /\ \A q \in Process : q # p => copy'[q] = copy[q]
  /\ UNCHANGED <<rem, fixes>>

LEMMA OutsideKeepsCounted ==
  ASSUME Counted, NEW p \in Process, Outside(p) PROVE Counted'
  BY DEF Counted, Outside, Alone, Held, Owed

\* A call of resume counts what it pushes.
LEMMA ResumeKeepsCounted ==
  ASSUME OneTerminal, EngineInv, LInv, Apart, Counted, NEW p \in Process, Resume(p)
  PROVE  Counted'
<1>0. /\ at[p] \in Engine /\ Alone(p) /\ rem.attempt \in Nat /\ fixes \in Nat
      /\ copy \in [Process -> RemediationRun]
  BY ResumeMoves, RemediationAssumption DEF EngineInv, RemediationTypeOK, RemediationRun
<1>1. \A q \in Process : q # p => at[q] \notin Engine /\ at'[q] \notin Engine
  BY <1>0, OneInEngine DEF Alone
<1>2. \A l : Goto(p, l) => at'[p] = l
  BY GotoFacts
<1>3. /\ Owed  = IF at[p]  = "push" THEN 1 ELSE 0
      /\ Owed' = IF at'[p] = "push" THEN 1 ELSE 0
  BY <1>1 DEF Owed, Engine
<1>4. Counted' <=> /\ at'[p] \in Held => copy'[p].attempt = rem'.attempt
                   /\ fixes' = rem'.attempt + Owed'
  BY <1>1 DEF Counted, Held, Engine
<1>5. \A r : copy' = [copy EXCEPT ![p] = r] => copy'[p] = r
  BY <1>0
<1>6. at[p] \in Held => copy[p].attempt = rem.attempt
  BY DEF Counted
<1>7. CASE Collect(p) \/ CollectChecks(p)
  <2>1. CASE Collect(p)
    <3>1. at[p] = "read" /\ at'[p] # "push" /\ copy'[p] = rem /\ UNCHANGED <<rem, fixes>>
      BY <1>2, <1>5, <2>1 DEF Collect, provider
    <3> QED
      BY <1>3, <1>4, <3>1 DEF Counted
  <2>2. CASE CollectChecks(p)
    <3>1. at[p] = "view" /\ at'[p] # "push" /\ UNCHANGED <<rem, copy, fixes>>
      BY <1>2, <2>2 DEF CollectChecks, provider
    <3> QED
      BY <1>3, <1>4, <1>6, <3>1 DEF Counted, Held
  <2> QED
    BY <1>7, <2>1, <2>2
<1>8. CASE Decide(p) \/ RecordRequest(p)
  <2>1. at[p] \in { "decide", "asked" } /\ at'[p] \in { "answered", "asked", "propose" } /\ UNCHANGED fixes
    BY <1>2, <1>8
    DEF RecordRequest, Decide, Closed, RequestMergedValidation, AwaitMergedValidation, AwaitChecks, AwaitInfrastructure,
        ExhaustInfrastructure, RetryInfrastructure, Ready, GiveUp, Require, Settles, provider
  <2>2. \/ UNCHANGED <<rem, copy>>
        \/ \E r \in RemediationRun : Save(p, r) /\ r.attempt = copy[p].attempt
    <3>1. /\ Saved(p, "BLOCKED") \in RemediationRun /\ Saved(p, "BLOCKED").attempt = copy[p].attempt
          /\ Saved(p, "WAITING_FOR_CHECKS") \in RemediationRun
          /\ Saved(p, "WAITING_FOR_CHECKS").attempt = copy[p].attempt
          /\ Saved(p, "WAITING_FOR_INFRASTRUCTURE") \in RemediationRun
          /\ Saved(p, "WAITING_FOR_INFRASTRUCTURE").attempt = copy[p].attempt
          /\ Saved(p, "WAITING_FOR_INFRASTRUCTURE").retries = copy[p].retries
          /\ Saved(p, "READY_FOR_CERTIFICATION") \in RemediationRun
          /\ Saved(p, "READY_FOR_CERTIFICATION").attempt = copy[p].attempt
          /\ Observed(p) \in RemediationRun /\ Observed(p).attempt = copy[p].attempt
      BY SavedIsRecord DEF RemediationState
    <3>2. CASE RequestMergedValidation(p)
      BY <3>1, <3>2 DEF RequestMergedValidation
    <3>6. CASE RecordRequest(p)
      <4> DEFINE r == [Saved(p, "WAITING_FOR_CHECKS") EXCEPT !.dispatched = seen[p].head]
      <4>1. r \in RemediationRun /\ r.attempt = copy[p].attempt
        BY <3>1 DEF RemediationRun, EngineInv, RemediationTypeOK, Observation
      <4> QED
        BY <3>6, <4>1 DEF RecordRequest, Settles
    <3>3. CASE RetryInfrastructure(p)
      <4> DEFINE r == [Saved(p, "WAITING_FOR_INFRASTRUCTURE") EXCEPT !.retries = @ + 1]
      <4>1. copy[p].retries \in 0 .. MaximumRetries /\ copy[p].retries + 1 \in 0 .. MaximumRetries
        BY <1>0, <3>3, RemediationAssumption DEF RemediationRun, RetryInfrastructure
      <4>2. r \in RemediationRun /\ r.attempt = copy[p].attempt
        BY <3>1, <4>1 DEF RemediationRun
      <4> QED
        BY <3>3, <4>2 DEF RetryInfrastructure, Settles
    <3>4. CASE Require(p)
      <4> DEFINE r == [Observed(p) EXCEPT !.state = "REMEDIATION_REQUIRED"]
      <4>1. r \in RemediationRun /\ r.attempt = copy[p].attempt
        BY <3>1 DEF RemediationRun, RemediationState
      <4> QED
        BY <3>4, <4>1 DEF Require
    <3>5. CASE \/ Closed(p) \/ AwaitMergedValidation(p) \/ AwaitChecks(p) \/ AwaitInfrastructure(p)
               \/ ExhaustInfrastructure(p) \/ Ready(p) \/ GiveUp(p)
      BY <3>1, <3>5
      DEF Closed, AwaitMergedValidation, AwaitChecks, AwaitInfrastructure, ExhaustInfrastructure, Ready,
          GiveUp, Settles
    <3> QED
      BY <1>8, <3>2, <3>3, <3>4, <3>5, <3>6 DEF Decide
  <2>3. rem'.attempt = rem.attempt /\ copy'[p].attempt = rem.attempt
    BY <1>5, <1>6, <2>1, <2>2 DEF Save, Held
  <2> QED
    BY <1>3, <1>4, <2>1, <2>3 DEF Counted
<1>9. CASE Apply(p)
  <2>0. at[p] = "propose" /\ copy[p].attempt = rem.attempt /\ fixes = rem.attempt
    BY <1>0, <1>3, <1>6, <1>9 DEF Apply, Counted, Held
  <2>1. CASE /\ Arrives(1) /\ copy' = [copy EXCEPT ![p].revision = latest']
             /\ Goto(p, "push") /\ UNCHANGED rem
    <3>1. at'[p] = "push" /\ fixes' = fixes + 1 /\ copy'[p].attempt = copy[p].attempt
      BY <1>0, <1>2, <2>1 DEF Arrives, RemediationRun
    <3> QED
      BY <1>0, <1>3, <1>4, <2>0, <2>1, <3>1
  <2>2. CASE /\ Goto(p, "failed") /\ UNCHANGED <<provider, rem, copy>>
    BY <1>0, <1>2, <1>3, <1>4, <2>0, <2>2 DEF provider, Held
  <2>3. ASSUME NEW a \in BOOLEAN,
               Save(p, [copy[p] EXCEPT !.state = "BLOCKED", !.apply = a]), Goto(p, "answered"),
               UNCHANGED provider
        PROVE  Counted'
    <3>1. rem'.attempt = rem.attempt
      BY <1>0, <2>0, <2>3 DEF Save, RemediationRun
    <3> QED
      BY <1>0, <1>2, <1>3, <1>4, <2>0, <2>3, <3>1 DEF provider, Held
  <2> QED
    BY <1>9, <2>1, <2>2, <2>3 DEF Apply, Settles
<1>10. CASE RecordPush(p)
  <2>0. at[p] = "push" /\ copy[p].attempt = rem.attempt /\ fixes = rem.attempt + 1
    BY <1>0, <1>3, <1>6, <1>10 DEF RecordPush, Counted, Held
  <2>1. at'[p] = "answered" /\ rem'.attempt = copy[p].attempt + 1 /\ UNCHANGED fixes
    BY <1>0, <1>2, <1>10 DEF RecordPush, Settles, Save, provider, RemediationRun
  <2> QED
    BY <1>0, <1>3, <1>4, <2>0, <2>1 DEF Held
<1> QED
  BY <1>7, <1>8, <1>9, <1>10 DEF Resume

\* A monitor outside the engine.
LEMMA MonitorKeepsCounted ==
  ASSUME OneTerminal, EngineInv, LInv, Apart, Counted, mishap # "CRASH",
         NEW p \in Monitor, Monitors(p) \/ PollLimit(p) \/ Crash(p)
  PROVE  Apart' /\ Counted'
<1>0. p \in Process /\ at[p] # "idle" /\ Alone(p) /\ copy \in [Process -> RemediationRun]
  BY MonitorMoves, MonitorAssumption DEF EngineInv, RemediationTypeOK
<1>1. Apart'
  BY <1>0, MonitorAssumption DEF Apart, Alone
<1>2. \A l : Goto(p, l) => at'[p] = l
  BY <1>0, GotoFacts
<1>3. CASE ResumesRemediation(p)
  BY <1>0, <1>1, <1>3, ResumeKeepsCounted DEF ResumesRemediation
<1>4. CASE Reconcile(p) \/ Recover(p) \/ Restart(p) \/ Rebind(p) \/ Repair(p) \/ Count(p) \/ Revalidate(p)
  <2>1. Branch(p) \notin Held /\ Onward \notin Held
    BY DEF Branch, Onward, Held
  <2>2. at[p] \notin Held /\ at'[p] \notin Held
    BY <1>2, <1>4, <2>1
    DEF Reconcile, Recover, Restart, Rebind, Repair, Count, Revalidate, Calls, Held
  <2>3. UNCHANGED <<copy, rem, fixes>>
    BY <1>4 DEF Reconcile, Recover, Restart, Rebind, Repair, Count, Revalidate, Quiet, provider
  <2> QED
    BY <1>0, <1>1, <2>2, <2>3, OutsideKeepsCounted DEF Outside
<1>5. CASE Approve(p) \/ Verify(p) \/ Reject(p) \/ Spend(p) \/ Refuse(p) \/ Halt(p)
  <2>1. Onward \notin Held
    BY DEF Onward, Held
  <2>2. at[p] \notin Held /\ at'[p] \notin Held
    BY <1>2, <1>5, <2>1 DEF Approve, Verify, Reject, Spend, Refuse, Halt, Calls, Held
  <2>3. UNCHANGED <<copy, rem, fixes>>
    BY <1>5 DEF Approve, Verify, Reject, Spend, Refuse, Halt, Quiet, provider
  <2> QED
    BY <1>0, <1>1, <2>2, <2>3, OutsideKeepsCounted DEF Outside
<1>6. CASE UpdateForValidation(p)
  <2>1. at[p] = "batch" /\ at'[p] \in { "poll", "failed" }
    BY <1>2, <1>6
    DEF UpdateForValidation, FollowRemediation, FollowValidation, FollowReady, FollowBlocked,
        FollowNothing, Calls
  <2>2. UNCHANGED <<copy, rem, fixes>>
    BY <1>6 DEF UpdateForValidation, provider
  <2> QED
    BY <1>0, <1>1, <2>1, <2>2, OutsideKeepsCounted DEF Outside, Held
<1>7. CASE Poll(p) \/ Failed(p) \/ PollLimit(p)
  <2>1. at[p] \in { "poll", "failed" } /\ at'[p] \in { "idle", "read", "failed" }
    BY <1>2, <1>7 DEF Poll, Failed, PollLimit
  <2>2. Drop(p) /\ UNCHANGED <<rem, fixes>>
    BY <1>7 DEF Poll, Failed, PollLimit, provider
  <2> QED
    BY <1>0, <1>1, <2>1, <2>2, OutsideKeepsCounted DEF Outside, Held, Drop
<1>8. ~Crash(p)
  BY DEF Crash, Mishap
<1> QED
  BY <1>3, <1>4, <1>5, <1>6, <1>7, <1>8 DEF Monitors

\* A command begins to resume only where no monitor is at work.
LEMMA CommandKeepsCounted ==
  ASSUME OneTerminal, EngineInv, LInv, Apart, Counted, mishap \notin { "CRASH", "COMMAND" },
         NEW p \in Command, Attach(p) \/ Relaunch(p) \/ Operates(p) \/ Crash(p)
  PROVE  Apart' /\ Counted'
<1>0. /\ p \in Process /\ p \notin Monitor /\ Monitor \cup Command = Process
      /\ copy \in [Process -> RemediationRun] /\ at \in [Process -> Location]
  BY MonitorAssumption DEF EngineInv, RemediationTypeOK
<1>1. \A l : Goto(p, l) => Alone(p) /\ at'[p] = l
  BY <1>0, GotoFacts
<1>2. ASSUME Alone(p), at'[p] \in Engine \cup { "revive" } => at[p] \in Engine \/ ~MonitorAlive
      PROVE  Apart'
  BY <1>0, <1>2 DEF Apart, Alone, MonitorAlive, OneTerminal
<1>3. CASE ResumesRemediation(p)
  <2>1. at[p] \in Engine /\ Alone(p)
    BY <1>0, <1>3, ResumeMoves DEF ResumesRemediation
  <2> QED
    BY <1>0, <1>2, <1>3, <2>1, ResumeKeepsCounted DEF ResumesRemediation
<1>4. CASE Attach(p)
  <2>1. at[p] = "idle" /\ at'[p] = "read" /\ Alone(p) /\ ~MonitorAlive
    BY <1>1, <1>4 DEF Attach, Given, Mishap
  <2> QED
    BY <1>2, <1>4, <2>1, <1>0, OutsideKeepsCounted DEF Attach, Outside, Held, provider
<1>5. CASE OfferApproval(p) \/ RefuseApproval(p) \/ Resumed(p) \/ Gate(p) \/ GateFails(p) \/ Revive(p) \/ Fails(p)
  <2>1. /\ Alone(p) /\ at[p] \in { "answered", "revive", "failed" }
        /\ at'[p] \in { "prompt", "read", "idle", "revive", "launch" }
    BY <1>1, <1>5 DEF OfferApproval, RefuseApproval, Resumed, Gate, GateFails, Revive, Fails, Calls
  <2>2. Drop(p) \/ UNCHANGED copy
    BY <1>5 DEF OfferApproval, RefuseApproval, Resumed, Gate, GateFails, Revive, Fails, QuietDrop
  <2>3. UNCHANGED <<rem, fixes>>
    BY <1>5 DEF OfferApproval, RefuseApproval, Resumed, Gate, GateFails, Revive, Fails, QuietDrop, provider
  <2>4. ~MonitorAlive
    BY <2>1 DEF Apart, MonitorAlive, Engine
  <2> QED
    BY <1>0, <1>2, <2>1, <2>2, <2>3, <2>4, OutsideKeepsCounted DEF Outside, Held, Drop
<1>6. CASE Relaunch(p) \/ Launch(p) \/ Watch(p) \/ Answer(p) \/ MergePullRequest(p) \/ Certify(p)
  <2>1. /\ Alone(p) /\ at[p] \in { "idle", "launch", "watch", "prompt", "merge", "certify" }
        /\ at'[p] \in { "launch", "spawn", "watch", "prompt", "idle", "merge", "certify" }
    BY <1>1, <1>6 DEF Relaunch, Launch, Watch, Answer, MergePullRequest, Certify
  <2>2. UNCHANGED <<copy, rem, fixes>>
    BY <1>6
    DEF Relaunch, Launch, Watch, Answer, MergePullRequest, Certify, Squash, Quiet, provider
  <2> QED
    BY <1>0, <1>2, <2>1, <2>2, OutsideKeepsCounted DEF Outside, Held, Engine
<1>7. CASE Spawn(p)
  <2>1. PICK m \in Monitor : at[m] = "idle" /\ at' = [at EXCEPT ![m] = "read", ![p] = "watch"]
    BY <1>7 DEF Spawn
  <2>2. /\ at'[p] = "watch" /\ at'[m] = "read" /\ at[p] = "spawn" /\ at[m] = "idle"
        /\ \A q \in Process : q # p /\ q # m => at'[q] = at[q]
    BY <1>0, <1>7, <2>1 DEF Spawn
  <2>3. Apart'
    BY <1>0, <2>2 DEF Apart, OneTerminal, Engine
  <2>4. Counted'
    BY <1>0, <1>7, <2>2 DEF Spawn, Counted, Held, Owed, provider
  <2> QED
    BY <2>3, <2>4
<1>8. ~Crash(p)
  BY DEF Crash, Mishap
<1> QED
  BY <1>3, <1>4, <1>5, <1>6, <1>7, <1>8 DEF Operates

\* No step changes what may go wrong in a behaviour.
LEMMA MishapStays ==
  ASSUME EngineInv, [Next]_vars PROVE UNCHANGED mishap
<1>1. ASSUME NEW p, Resume(p) PROVE UNCHANGED mishap
  BY <1>1
  DEF Resume, Collect, CollectChecks, Decide, RecordRequest, Apply, RecordPush, Settles, Closed, RequestMergedValidation,
      AwaitMergedValidation, AwaitChecks, AwaitInfrastructure, ExhaustInfrastructure,
      RetryInfrastructure, Ready, GiveUp, Require
<1>2. ASSUME NEW p, Monitors(p) \/ PollLimit(p) \/ Crash(p) PROVE UNCHANGED mishap
  BY <1>1, <1>2
  DEF Monitors, ResumesRemediation, Reconcile, Recover, Restart, Rebind, Repair, Count, Revalidate,
      Approve, Verify, Reject, Spend, Refuse, Halt, UpdateForValidation, Poll, Failed, PollLimit, Crash, Quiet
<1>3. ASSUME NEW p, Attach(p) \/ Relaunch(p) \/ Operates(p) \/ Crash(p) PROVE UNCHANGED mishap
  BY <1>1, <1>3
  DEF Operates, ResumesRemediation, Attach, Relaunch, OfferApproval, RefuseApproval, Resumed, Gate, GateFails, Revive,
      Launch, Spawn, Watch, Answer, MergePullRequest, Certify, Fails, Crash, Quiet, QuietDrop
<1> QED
  BY <1>2, <1>3, NobodyMoves DEF Next

LEMMA FInvKeeps ==
  ASSUME OneTerminal, EngineInv, LInv, FInv, [Next]_vars PROVE FInv'
<1> SUFFICES ASSUME mishap \notin { "CRASH", "COMMAND" } PROVE Apart' /\ Counted'
  BY MishapStays DEF FInv
<1>0. Apart /\ Counted
  BY DEF FInv
<1>1. CASE \/ Provider /\ UNCHANGED <<runVars, monitorVars>>
           \/ Expire \/ RecoverStaleRuns \/ OperatorStops \/ OperatorResumes
           \/ UNCHANGED vars
  BY <1>0, <1>1, NobodyMoves DEF Apart, Counted, Owed, callVars
<1> QED
  BY <1>0, <1>1, MonitorKeepsCounted, CommandKeepsCounted DEF Next

\* Where one terminal is at work on a run, every fix the engine pushed is counted as an
\* attempt of the remediation run but for the one being recorded, so long as no process
\* dies between the push and the save and no command resumes while a monitor does (resume).
THEOREM OneTerminalCountsFixes ==
  ASSUME OneTerminal PROVE Spec => []FixesAreCounted
<1> DEFINE Inv == IInv /\ LInv /\ FInv
<1>1. Init => Inv
  <2> SUFFICES ASSUME Init PROVE LInv /\ FInv
    BY InitIInv
  <2>1. \A p \in Process : at[p] \in { "launch", "idle" }
    BY DEF Init
  <2>2. \A m \in Monitor : at[m] = "idle"
    BY MonitorAssumption DEF Init
  <2>3. rem.attempt = 0 /\ fixes = 0 /\ Owed = 0
    BY <2>1 DEF Init, RemediationInit, Started, Owed
  <2> QED
    BY <2>1, <2>2, <2>3 DEF LInv, FInv, Apart, Counted, Held
<1>2. Inv /\ [Next]_vars => Inv'
  BY NextIInv, LInvKeeps, FInvKeeps DEF IInv
<1>3. Inv => FixesAreCounted
  BY OwedIsPushing DEF FInv, Counted, FixesAreCounted
<1> QED
  BY <1>1, <1>2, <1>3, PTL DEF Spec

=============================================================================

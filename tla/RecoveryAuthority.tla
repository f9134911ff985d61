--------------------------- MODULE RecoveryAuthority ---------------------------
(***************************************************************************)
(* ProductionRecoveryAuthority (production-runtime/recovery-authority.ts):  *)
(* when a blocked run has spent its repair budget, a recovery epoch asks    *)
(* the operator for one more attempt.  A process is a caller: the pbos      *)
(* command that asks and authorizes, or the monitor that asks after a       *)
(* failure and completes the epoch after an acceptance.  Every save of an   *)
(* epoch and every call of the production runtime is a step of its own,     *)
(* and a process may die between any two.                                   *)
(*                                                                          *)
(* One run is modelled, VALIDATING standing for every status in which it is *)
(* worked on.  An epoch's id is its index in epochs; number is its          *)
(* epochNumber, which two epochs may share.  active is the run's            *)
(* activeRecoveryEpochId, 0 when undefined.  An approval is named by the    *)
(* process it was signed for: a process has one at a time.                  *)
(***************************************************************************)
EXTENDS Integers, Sequences

CONSTANTS Process,
          RepairLimit,   \* DEFAULT_PRODUCTION_REPAIR_LIMIT
          MaxEpochs      \* bound on the epochs of the run

NoApproval == "NO_APPROVAL"

ASSUME RecoveryAssumption ==
  /\ NoApproval \notin Process
  /\ RepairLimit \in Nat
  /\ MaxEpochs \in Nat

VARIABLES status,    \* run.status
          attempts,  \* run.repairAttempts
          limit,     \* run.repairAttemptLimit
          active,
          epochs,    \* the durable epochs, in order of creation
          grants,    \* the RECOVERY_AUTHORITY_GRANTED events: the epoch of each
          pc, at, number

runVars   == <<status, attempts, limit, active>>
localVars == <<at, number>>
vars == <<runVars, epochs, grants, pc, localVars>>

EpochStatus == { "AWAITING_AUTHORIZATION", "AUTHORIZED", "ACTIVE", "EXHAUSTED", "COMPLETED" }

Epoch == [number : Nat, status : EpochStatus, approval : Process \cup { NoApproval }]

TypeOK ==
  /\ status   \in { "VALIDATING", "BLOCKED", "AWAITING_APPROVAL", "CERTIFIED", "CANCELLED" }
  /\ attempts \in Nat
  /\ limit    \in Nat
  /\ epochs   \in Seq(Epoch)
  /\ active   \in 0 .. Len(epochs)
  /\ grants   \in Seq(DOMAIN epochs)
  /\ pc       \in [Process -> { "idle", "exhaust", "close", "create", "register", "prompt",
                                "authorize", "activate", "confirm", "restore",
                                "accepted", "complete", "closeCompleted" }]
  /\ at       \in [Process -> 0 .. Len(epochs)]
  /\ number   \in [Process -> Nat]

Init ==
  /\ status   = "VALIDATING"
  /\ attempts = 0
  /\ limit    = RepairLimit
  /\ active   = 0
  /\ epochs   = << >>
  /\ grants   = << >>
  /\ pc       = [p \in Process |-> "idle"]
  /\ at       = [p \in Process |-> 0]
  /\ number   = [p \in Process |-> 0]

Goto(p, there) == pc' = [pc EXCEPT ![p] = there]

SaveEpoch(e, s, approval) ==
  epochs' = [epochs EXCEPT ![e] = [@ EXCEPT !.status = s, !.approval = approval]]

\* Mutant: an authorization that was interrupted is taken up again.
AwaitingOrAuthorized ==
  { e \in DOMAIN epochs : epochs[e].status \in { "AWAITING_AUTHORIZATION", "AUTHORIZED" } }

Awaiting == { e \in DOMAIN epochs : epochs[e].status = "AWAITING_AUTHORIZATION" }

\* The epochs with the highest number; the code takes the one saved last.
Latest == { e \in DOMAIN epochs : \A f \in DOMAIN epochs : epochs[f].number <= epochs[e].number }

\* Mutant: one attempt past the limit.
SpentPastLimit == attempts > limit

Spent == attempts >= limit

-----------------------------------------------------------------------------
(* The run, as far as the repair budget reaches *)

\* recoverBlockedValidation
Recover ==
  /\ status = "BLOCKED" /\ ~Spent
  /\ status' = "VALIDATING"
  /\ UNCHANGED <<attempts, limit, active, epochs, grants, pc, localVars>>

\* recordRepairAttempt(STARTED) consults the budget and no status.
Spend ==
  /\ ~Spent
  /\ attempts' = attempts + 1
  /\ UNCHANGED <<status, limit, active, epochs, grants, pc, localVars>>

\* Validation fails, or the accepted pull request has advanced; the run is settled.
Leave ==
  /\ \/ status \in { "VALIDATING", "AWAITING_APPROVAL" } /\ status' \in { "BLOCKED", "CANCELLED" }
     \/ status = "AWAITING_APPROVAL" /\ status' = "CERTIFIED"
  /\ UNCHANGED <<attempts, limit, active, epochs, grants, pc, localVars>>

-----------------------------------------------------------------------------
(* request *)

\* Mutant: an active epoch is left as it is.
RequestBesideActive(p) ==
  /\ pc[p] = "idle"
  /\ status = "BLOCKED" /\ Spent
  /\ \/ \E e \in Awaiting :
          at' = [at EXCEPT ![p] = e] /\ Goto(p, "prompt") /\ UNCHANGED number
     \/ /\ Awaiting = {}
        /\ number' = [number EXCEPT ![p] = Len(epochs) + 1]
        /\ Goto(p, "create")
        /\ UNCHANGED at
  /\ UNCHANGED <<runVars, epochs, grants>>

\* An epoch that waits is returned; else a new one is made, after the latest is
\* exhausted if it is still active.
Request(p) ==
  /\ pc[p] = "idle"
  /\ status = "BLOCKED" /\ Spent
  /\ \/ \E e \in Awaiting :
          at' = [at EXCEPT ![p] = e] /\ Goto(p, "prompt") /\ UNCHANGED number
     \/ /\ Latest = {}
        /\ number' = [number EXCEPT ![p] = 1]
        /\ Goto(p, "create")
        /\ UNCHANGED at
     \/ /\ Awaiting = {}
        /\ \E e \in Latest :
             /\ at'     = [at EXCEPT ![p] = e]
             /\ number' = [number EXCEPT ![p] = epochs[e].number + 1]
             /\ Goto(p, IF epochs[e].status = "ACTIVE" THEN "exhaust" ELSE "create")
  /\ UNCHANGED <<runVars, epochs, grants>>

Exhaust(p) ==
  /\ pc[p] = "exhaust"
  /\ SaveEpoch(at[p], "EXHAUSTED", epochs[at[p]].approval)
  /\ Goto(p, "close")
  /\ UNCHANGED <<runVars, grants, localVars>>

\* closeRecoveryEpoch throws when the epoch is not the run's active one.
Close(p, here, there) ==
  /\ pc[p] = here
  /\ IF active = at[p] THEN active' = 0 /\ Goto(p, there)
                       ELSE UNCHANGED active /\ Goto(p, "idle")
  /\ UNCHANGED <<status, attempts, limit, epochs, grants, localVars>>

CloseExhausted(p) == Close(p, "close", "create")

Create(p) ==
  /\ pc[p] = "create" /\ Len(epochs) < MaxEpochs
  /\ epochs' = Append(epochs, [number   |-> number[p],
                               status   |-> "AWAITING_AUTHORIZATION",
                               approval |-> NoApproval])
  /\ at' = [at EXCEPT ![p] = Len(epochs) + 1]
  /\ Goto(p, "register")
  /\ UNCHANGED <<runVars, grants, number>>

\* registerRecoveryEpoch names the epoch in the run and its events.
Register(p) ==
  /\ pc[p] = "register"
  /\ Goto(p, IF at[p] \in Awaiting THEN "prompt" ELSE "idle")
  /\ UNCHANGED <<runVars, epochs, grants, localVars>>

-----------------------------------------------------------------------------
(* authorize *)

\* The operator declines, or the monitor only asked.
Decline(p) ==
  /\ pc[p] = "prompt"
  /\ Goto(p, "idle")
  /\ UNCHANGED <<runVars, epochs, grants, localVars>>

\* The operator signs; authorize reads the epoch anew and wants it waiting.
Sign(p) ==
  /\ pc[p] = "prompt"
  /\ Goto(p, IF at[p] \in Awaiting THEN "authorize" ELSE "idle")
  /\ UNCHANGED <<runVars, epochs, grants, localVars>>

Authorize(p) ==
  /\ pc[p] = "authorize"
  /\ SaveEpoch(at[p], "AUTHORIZED", p)
  /\ Goto(p, "activate")
  /\ UNCHANGED <<runVars, grants, localVars>>

\* activateRecoveryEpoch: one more attempt for the blocked run that spent its own.
Eligible(p) ==
  /\ epochs[at[p]].status = "AUTHORIZED" /\ epochs[at[p]].approval = p
  /\ status = "BLOCKED" /\ Spent

\* Mutant: an active epoch keeps its place in the run.
ActivateSecondary(p) ==
  /\ pc[p] = "activate" /\ Eligible(p)
  /\ limit'  = limit + 1
  /\ active' = IF active = 0 THEN at[p] ELSE active
  /\ grants' = Append(grants, at[p])
  /\ Goto(p, "confirm")
  /\ UNCHANGED <<status, attempts, epochs, localVars>>

Activate(p) ==
  /\ pc[p] = "activate" /\ Eligible(p)
  /\ limit'  = limit + 1
  /\ active' = at[p]
  /\ grants' = Append(grants, at[p])
  /\ Goto(p, "confirm")
  /\ UNCHANGED <<status, attempts, epochs, localVars>>

\* It throws for an epoch or a run that changed meanwhile, and always for an
\* operator who is not the run's actor.
Refuse(p) ==
  /\ pc[p] = "activate"
  /\ Goto(p, "restore")
  /\ UNCHANGED <<runVars, epochs, grants, localVars>>

Confirm(p) ==
  /\ pc[p] = "confirm"
  /\ SaveEpoch(at[p], "ACTIVE", p)
  /\ Goto(p, "idle")
  /\ UNCHANGED <<runVars, grants, localVars>>

\* The record authorize had read is saved back.
Restore(p) ==
  /\ pc[p] = "restore"
  /\ SaveEpoch(at[p], "AWAITING_AUTHORIZATION", NoApproval)
  /\ Goto(p, "idle")
  /\ UNCHANGED <<runVars, grants, localVars>>

-----------------------------------------------------------------------------
(* completeActive, after the functional acceptance *)

Accept(p) ==
  /\ pc[p] = "idle" /\ status = "VALIDATING"
  /\ status' = "AWAITING_APPROVAL"
  /\ Goto(p, "accepted")
  /\ UNCHANGED <<attempts, limit, active, epochs, grants, localVars>>

CompleteActive(p) ==
  /\ pc[p] = "accepted"
  /\ IF active = 0 THEN UNCHANGED at /\ Goto(p, "idle")
                   ELSE at' = [at EXCEPT ![p] = active] /\ Goto(p, "complete")
  /\ UNCHANGED <<runVars, epochs, grants, number>>

Complete(p) ==
  /\ pc[p] = "complete"
  /\ SaveEpoch(at[p], "COMPLETED", epochs[at[p]].approval)
  /\ Goto(p, "closeCompleted")
  /\ UNCHANGED <<runVars, grants, localVars>>

CloseCompleted(p) == Close(p, "closeCompleted", "idle")

Crash(p) ==
  /\ pc[p] # "idle"
  /\ Goto(p, "idle")
  /\ UNCHANGED <<runVars, epochs, grants, localVars>>

-----------------------------------------------------------------------------

Next ==
  \/ Recover \/ Spend \/ Leave
  \/ \E p \in Process :
       \/ Request(p) \/ Exhaust(p) \/ CloseExhausted(p) \/ Create(p) \/ Register(p)
       \/ Decline(p) \/ Sign(p) \/ Authorize(p) \/ Activate(p) \/ Refuse(p)
       \/ Confirm(p) \/ Restore(p)
       \/ Accept(p) \/ CompleteActive(p) \/ Complete(p) \/ CloseCompleted(p)
       \/ Crash(p)

Spec == Init /\ [][Next]_vars

-----------------------------------------------------------------------------
(* What the authority keeps true *)

\* "Each recovery epoch authorizes exactly one bounded repair attempt", however
\* often its authorization is interrupted and repeated.
OneGrantPerEpoch ==
  \A i, j \in DOMAIN grants : grants[i] = grants[j] => i = j

\* Approvals are not stacked: an attempt is granted only when all are used, one
\* for each grant on record.
BudgetIsExact ==
  /\ attempts <= limit
  /\ limit = RepairLimit + Len(grants)
  /\ grants # << >> => limit <= attempts + 1

\* As long as an epoch waits for the operator the run stays blocked with its
\* budget spent: nothing works on it behind the operator's back.
WaitingRunStaysBlocked == Awaiting # {} => status = "BLOCKED" /\ Spent

\* An active epoch is the one the run names, and no other waits beside it.
ActiveEpochIsCurrent ==
  \A e \in DOMAIN epochs : epochs[e].status = "ACTIVE" => active = e /\ Awaiting = {}

\* An exhausted or completed epoch keeps that outcome.
OutcomesStay ==
  [][\A e \in DOMAIN epochs :
       epochs[e].status \in { "EXHAUSTED", "COMPLETED" } =>
         epochs'[e].status = epochs[e].status]_vars
=============================================================================

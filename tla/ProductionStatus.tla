-------------------------- MODULE ProductionStatus --------------------------
(***************************************************************************)
(* The status vocabulary of a production run and the table of transitions  *)
(* the runtime accepts (production-runtime/contracts.ts, status-machine.ts *)
(* and the two status lists at the head of production-runtime-service.ts). *)
(* A module of constants: no variables, no behaviour.                      *)
(***************************************************************************)

Status == { "IDLE", "PLANNING", "AUTHORIZED", "QUEUED", "STARTING", "RUNNING",
            "VALIDATING", "REPAIRING", "GENERATING_PREVIEW", "AWAITING_APPROVAL",
            "PAUSED", "BLOCKED", "FAILED", "COMPLETED", "CERTIFIED", "CANCELLED",
            "RECOVERING" }

\* TERMINAL_PRODUCTION_STATUSES: entering one of them releases the lease.
Terminal == { "BLOCKED", "FAILED", "COMPLETED", "CERTIFIED", "CANCELLED" }

\* ACTIVE: a run in one of these owns its repository for begin.
ActiveStatus == { "PLANNING", "AUTHORIZED", "QUEUED", "STARTING", "RUNNING",
                  "VALIDATING", "REPAIRING", "GENERATING_PREVIEW",
                  "AWAITING_APPROVAL", "PAUSED", "RECOVERING" }

\* LEASE_REQUIRED: verifyIntegrity reports a run in one of these without a lease.
LeaseRequired == { "AUTHORIZED", "QUEUED", "STARTING", "RUNNING", "VALIDATING",
                   "REPAIRING", "GENERATING_PREVIEW", "RECOVERING" }

\* The statuses whose entry demands the mission's acceptance evidence.
Accepted == { "AWAITING_APPROVAL", "COMPLETED", "CERTIFIED" }

Pausable == { "RUNNING", "VALIDATING", "REPAIRING", "GENERATING_PREVIEW" }

\* The transitions table of the status machine.
Successors ==
  [ IDLE               |-> { "PLANNING", "AUTHORIZED", "RECOVERING" },
    PLANNING           |-> { "AUTHORIZED", "BLOCKED", "FAILED", "CANCELLED" },
    AUTHORIZED         |-> { "QUEUED", "BLOCKED", "CANCELLED" },
    QUEUED             |-> { "STARTING", "PAUSED", "CANCELLED" },
    STARTING           |-> { "RUNNING", "BLOCKED", "FAILED", "CANCELLED" },
    RUNNING            |-> { "VALIDATING", "GENERATING_PREVIEW", "PAUSED", "BLOCKED",
                             "FAILED", "CANCELLED" },
    VALIDATING         |-> { "REPAIRING", "GENERATING_PREVIEW", "AWAITING_APPROVAL",
                             "PAUSED", "COMPLETED", "BLOCKED", "FAILED", "CANCELLED" },
    REPAIRING          |-> { "RUNNING", "VALIDATING", "PAUSED", "BLOCKED", "FAILED",
                             "CANCELLED" },
    GENERATING_PREVIEW |-> { "VALIDATING", "AWAITING_APPROVAL", "PAUSED", "COMPLETED",
                             "BLOCKED", "FAILED", "CANCELLED" },
    AWAITING_APPROVAL  |-> { "CERTIFIED", "PAUSED", "BLOCKED", "CANCELLED" },
    PAUSED             |-> { "RUNNING", "VALIDATING", "RECOVERING", "CANCELLED" },
    BLOCKED            |-> { "RECOVERING", "CANCELLED" },
    FAILED             |-> { "RECOVERING", "CANCELLED" },
    COMPLETED          |-> { "CERTIFIED" },
    CERTIFIED          |-> {},
    CANCELLED          |-> {},
    RECOVERING         |-> { "RUNNING", "VALIDATING", "BLOCKED", "FAILED", "CANCELLED" } ]

\* assertProductionTransition: staying put is always allowed.
MayTransition(from, to) == from = to \/ to \in Successors[from]

\* The stage types resume takes for validation work.
ValidationStages == { "VALIDATION", "PREREQUISITE", "APPLICATION_LAUNCH",
                      "RUNTIME_VERIFICATION", "BROWSER_JOURNEY", "NATIVE_JOURNEY",
                      "ACCEPTANCE", "PREVIEW" }
=============================================================================

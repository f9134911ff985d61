----------------------------- MODULE ControlPlane -----------------------------
(* The PBOS v1 integration service: requests of connected systems interleave *)
(* in one process at the awaits of the handler, an operator works on the     *)
(* same state file from another process, and every save is one locked update *)
(* of the file that no expected revision guards.                             *)
EXTENDS Naturals, FiniteSets

CONSTANTS
  Connector,   \* connected systems, each with one domain and one identity
  Request,     \* requests that may be in progress at a time
  Operator,    \* the one among them that stands for the operator's process
  Key, NoKey,  \* idempotency keys; a request may carry none
  Body,        \* payloads of runtime operations
  Message,     \* what connected systems may send
  FirstFile,   \* state files the service may start from
  MaxWork,     \* bound: handlers started for a key
  MaxRequests, \* bound: requests that arrive
  MaxFaults    \* bound: crashes

Status == {"NONE", "REGISTERED", "ACTIVE", "SUSPENDED", "DISCONNECTED", "FAILED"}
Certification == {"NONE", "PENDING", "CERTIFIED", "REVOKED"}
DomainStatus == {"NONE", "REGISTERED", "ACTIVE", "SUSPENDED", "REVOKED"}
System == [status : Status, certification : Certification]
NoSystem == [status |-> "NONE", certification |-> "NONE"]

Runtime == {"PUBLISH_LIFECYCLE_EVENT", "REQUEST_INTELLIGENCE", "EXCHANGE_APPROVED_DATA"}
Reads == {"HEALTH_CHECK", "GET_CONNECTOR_STATUS", "NEGOTIATE_VERSION", "GET_DOMAIN_STATUS",
          "DISCOVER_CAPABILITIES", "QUERY_AUDIT"}
Mutations == {"REGISTER_SYSTEM", "CERTIFY_SYSTEM", "REGISTER_DOMAIN", "ACTIVATE_DOMAIN",
  "REGISTER_IDENTITY", "SUSPEND_SYSTEM", "RESUME_SYSTEM", "REVOKE_SYSTEM", "DEACTIVATE_DOMAIN"} \union Runtime
Operation == Mutations \union Reads
AnyMessage == [op : Operation, connector : Connector, key : Key \union {NoKey}, body : Body]

NoClaim == [op |-> "NONE", body |-> CHOOSE b \in Body : TRUE]
Claim == {NoClaim} \union [op : Mutations, body : Body]
File == [system : [Connector -> System], domain : [Connector -> DomainStatus],
         identities : SUBSET Connector, revocations : SUBSET Connector,
         keys : [Key -> Claim], events : SUBSET Key]
EmptyFile == [system |-> [c \in Connector |-> NoSystem], domain |-> [c \in Connector |-> "NONE"],
              identities |-> {}, revocations |-> {}, keys |-> [k \in Key |-> NoClaim], events |-> {}]

\* What every state file the service has saved satisfies.
Consistent(f) ==
  /\ \A c \in Connector : f.system[c].status = "ACTIVE" => f.system[c].certification = "CERTIFIED"
  /\ \A k \in Key : f.keys[k].op \in Runtime => k \in f.events

ASSUME ControlPlaneAssumption ==
  /\ Operator \in Request /\ NoKey \notin Key /\ Body # {} /\ Message # {}
  /\ \A f \in FirstFile : Consistent(f)
  /\ Message \subseteq AnyMessage /\ FirstFile \subseteq File
  /\ MaxWork \in Nat /\ MaxRequests \in Nat /\ MaxFaults \in Nat

VARIABLES
  file,     \* the integration state file
  backup,   \* the operator's copies of it
  stuck,    \* a process died holding the lock file
  at,       \* where a request is, one of Place
  message,  \* the message a request carries
  pending,  \* what a request is about to save
  work,     \* history: handlers started for a key
  answers,  \* history: successful answers to mutations with a key
  late,     \* history: requests that arrived after their system's revocation was saved
  arrived,  \* requests so far
  faults    \* crashes so far

vars == <<file, backup, stuck, at, message, pending, work, answers, late, arrived, faults>>
history == <<work, answers, arrived, faults>>

\* Between the read of the system and the handler a request is "admitted", then "granted".
Place == {"idle", "arrived", "revoking", "writing", "admitted", "granted", "handling", "done"}
\* The places in which the service waits for nothing before it goes on with the same request.
Busy == {"revoking", "writing", "admitted", "granted"}

Nothing == [kind |-> "none", value |-> "NONE"]
Pending == [kind : {"none"}, value : {"NONE"}] \union [kind : {"system"}, value : System]
           \union [kind : {"domain"}, value : DomainStatus]
AnyOf == CHOOSE m \in Message : TRUE

Init ==
  /\ file \in FirstFile
  /\ backup = {} /\ stuck = FALSE
  /\ at = [r \in Request |-> "idle"]
  /\ message = [r \in Request |-> AnyOf]
  /\ pending = [r \in Request |-> Nothing]
  /\ work = [k \in Key |-> 0] /\ answers = [k \in Key |-> {}]
  /\ late = {} /\ arrived = 0 /\ faults = 0

(* ------------------------------ registries ------------------------------- *)
SystemMoves == [REGISTERED |-> {"ACTIVE", "SUSPENDED", "DISCONNECTED", "FAILED"},
  ACTIVE |-> {"SUSPENDED", "DISCONNECTED", "FAILED"}, SUSPENDED |-> {"ACTIVE", "DISCONNECTED", "FAILED"},
  DISCONNECTED |-> {"ACTIVE"}, FAILED |-> {"SUSPENDED", "DISCONNECTED"}]
DomainMoves == [REGISTERED |-> {"ACTIVE", "SUSPENDED", "REVOKED"}, ACTIVE |-> {"SUSPENDED", "REVOKED"},
  SUSPENDED |-> {"ACTIVE", "REVOKED"}, REVOKED |-> {}]

Revoked == [status |-> "SUSPENDED", certification |-> "REVOKED"]
\* Mutant: the registry trusts the saved record.
SystemAsSaved(c) == file.system[c]
SystemOf(c) == IF c \in file.revocations /\ file.system[c] # NoSystem THEN Revoked ELSE file.system[c]
Usable(c) == SystemOf(c) = [status |-> "ACTIVE", certification |-> "CERTIFIED"]

\* One locked update of the file; a lock nobody holds any more is never taken over.
Unavailable == stuck
Update(f) == ~Unavailable /\ file' = f

\* What a request will save, once its checks have passed.
Turn(r, place) == at' = [at EXCEPT ![r] = place]
Decide(r, kind, value) ==
  /\ Turn(r, "writing")
  /\ pending' = [pending EXCEPT ![r] = [kind |-> kind, value |-> value]]
  /\ UNCHANGED file

UpdateSystem(r, c, updated) ==
  /\ SystemOf(c) # NoSystem
  /\ updated.status = SystemOf(c).status \/ updated.status \in SystemMoves[SystemOf(c).status]
  /\ Decide(r, "system", updated)
UpdateDomain(r, c, updated) ==
  /\ file.domain[c] # "NONE"
  /\ updated = file.domain[c] \/ updated \in DomainMoves[file.domain[c]]
  /\ Decide(r, "domain", updated)

EnrolSystem(r, c, new) == SystemOf(c) = NoSystem /\ Decide(r, "system", new)
EnrolDomain(r, c) == file.domain[c] = "NONE" /\ SystemOf(c) # NoSystem /\ Decide(r, "domain", "REGISTERED")
MapIdentity(r, c) ==
  /\ \/ c \in file.identities /\ UNCHANGED file
     \/ c \notin file.identities /\ Update([file EXCEPT !.identities = @ \union {c}])
  /\ Turn(r, "done") /\ UNCHANGED pending

(* ------------------------------ operations ------------------------------- *)
RegisterSystem(r, c) == EnrolSystem(r, c, [status |-> "REGISTERED", certification |-> "PENDING"])
CertifySystem(r, c) == UpdateSystem(r, c, [status |-> "ACTIVE", certification |-> "CERTIFIED"])
RegisterDomain(r, c) == EnrolDomain(r, c)
ActivateDomain(r, c) == Usable(c) /\ UpdateDomain(r, c, "ACTIVE")
DeactivateDomain(r, c) == UpdateDomain(r, c, "SUSPENDED")
RegisterIdentity(r, c) == Usable(c) /\ MapIdentity(r, c)
SuspendSystem(r, c) == UpdateSystem(r, c, [SystemOf(c) EXCEPT !.status = "SUSPENDED"])
\* Mutant: any system may resume.
ResumeAny(r, c) == UpdateSystem(r, c, [SystemOf(c) EXCEPT !.status = "ACTIVE"])
ResumeSystem(r, c) ==
  /\ SystemOf(c).certification = "CERTIFIED"
  /\ UpdateSystem(r, c, [SystemOf(c) EXCEPT !.status = "ACTIVE"])
RevokeSystem(r, c) ==
  /\ SystemOf(c) # NoSystem
  /\ Turn(r, "revoking") /\ pending' = [pending EXCEPT ![r] = [kind |-> "system", value |-> Revoked]]
  /\ UNCHANGED file
Reply(r) == Turn(r, "done") /\ UNCHANGED <<file, pending>>
ConnectorStatus(r, c) == SystemOf(c) # NoSystem /\ Reply(r)
NegotiateVersion(r, c) == ConnectorStatus(r, c)
DomainStatusOf(r, c) == file.domain[c] # "NONE" /\ Reply(r)
DiscoverCapabilities(r, c) == ConnectorStatus(r, c)
QueryAudit(r, c) == ConnectorStatus(r, c)

\* The boundary reads the system, then the domain, then starts the handler: the operator's
\* process may save a revocation between any two of these.
Communicate(r, c) ==
  /\ Usable(c)
  /\ Turn(r, "admitted") /\ UNCHANGED <<file, pending>>
RuntimeOperation(r, c) == c \in file.identities /\ Communicate(r, c)
HealthCheck(r, c) == c \in file.identities /\ Communicate(r, c)

Dispatch(r, m) ==
  LET c == m.connector IN
  \/ m.op = "REGISTER_SYSTEM" /\ RegisterSystem(r, c)
  \/ m.op = "CERTIFY_SYSTEM" /\ CertifySystem(r, c)
  \/ m.op = "REGISTER_DOMAIN" /\ RegisterDomain(r, c)
  \/ m.op = "ACTIVATE_DOMAIN" /\ ActivateDomain(r, c)
  \/ m.op = "REGISTER_IDENTITY" /\ RegisterIdentity(r, c)
  \/ m.op = "SUSPEND_SYSTEM" /\ SuspendSystem(r, c)
  \/ m.op = "RESUME_SYSTEM" /\ ResumeSystem(r, c)
  \/ m.op = "REVOKE_SYSTEM" /\ RevokeSystem(r, c)
  \/ m.op = "DEACTIVATE_DOMAIN" /\ DeactivateDomain(r, c)
  \/ m.op = "GET_CONNECTOR_STATUS" /\ ConnectorStatus(r, c)
  \/ m.op = "NEGOTIATE_VERSION" /\ NegotiateVersion(r, c)
  \/ m.op = "GET_DOMAIN_STATUS" /\ DomainStatusOf(r, c)
  \/ m.op = "DISCOVER_CAPABILITIES" /\ DiscoverCapabilities(r, c)
  \/ m.op = "QUERY_AUDIT" /\ QueryAudit(r, c)
  \/ m.op = "HEALTH_CHECK" /\ HealthCheck(r, c)
  \/ m.op \in Runtime /\ RuntimeOperation(r, c)

(* ------------------------------- requests -------------------------------- *)
Service == Request \ {Operator}
\* JavaScript runs one request at a time between two awaits; the operator is
\* another process.
Quiet(r) == r = Operator \/ \A q \in Service \ {r} : at[q] \notin Busy

Finish(r) ==
  /\ Turn(r, "idle") /\ late' = late \ {r}
  /\ message' = [message EXCEPT ![r] = AnyOf] /\ pending' = [pending EXCEPT ![r] = Nothing]

Arrive(r, m) ==
  /\ at[r] = "idle" /\ Quiet(r) /\ arrived < MaxRequests
  /\ r = Operator => m.op = "REVOKE_SYSTEM" /\ m.key = NoKey
  /\ Turn(r, "arrived") /\ message' = [message EXCEPT ![r] = m] /\ arrived' = arrived + 1
  /\ late' = late \union {q \in {r} : m.connector \in file.revocations}
  /\ UNCHANGED <<file, backup, stuck, pending, work, answers, faults>>

\* Refused by the adapter, the schema, an authority, a guard or the handler.
Refuse(r) ==
  /\ at[r] \in {"arrived", "admitted", "granted", "handling"} /\ Quiet(r)
  /\ Finish(r) /\ UNCHANGED <<file, backup, stuck, history>>

ClaimOf(m) == [op |-> m.op, body |-> m.body]
Answered(m) == IF m.key # NoKey /\ m.op \in Mutations
               THEN answers' = [answers EXCEPT ![m.key] = @ \union {ClaimOf(m)}] ELSE UNCHANGED answers

\* A recorded answer is returned to the same request, with no check of authority.
Cached(r) ==
  LET m == message[r] IN
  /\ at[r] = "arrived" /\ Quiet(r)
  /\ m.key # NoKey /\ file.keys[m.key] = ClaimOf(m)
  /\ Answered(m) /\ Finish(r)
  /\ UNCHANGED <<file, backup, stuck, work, arrived, faults>>

\* Mutant: the record of the key is not looked up.
FreshAlways(m) == TRUE
Fresh(m) == m.key # NoKey => file.keys[m.key] = NoClaim

Handle(r) ==
  LET m == message[r] IN
  /\ at[r] = "arrived" /\ Quiet(r) /\ Fresh(m)
  /\ Dispatch(r, m)
  /\ UNCHANGED <<backup, stuck, message, late, history>>

\* The domain must be active for the connector.
Grant(r) ==
  /\ at[r] = "admitted" /\ file.domain[message[r].connector] = "ACTIVE"
  /\ Turn(r, "granted")
  /\ UNCHANGED <<file, backup, stuck, message, pending, late, history>>

\* The handler is called, and awaited.
StartHandler(r) ==
  LET k == message[r].key IN
  /\ at[r] = "granted" /\ Turn(r, "handling")
  /\ IF k = NoKey THEN UNCHANGED work
     ELSE work[k] < MaxWork /\ work' = [work EXCEPT ![k] = @ + 1]
  /\ UNCHANGED <<file, backup, stuck, message, pending, answers, late, arrived, faults>>

\* The revocation is a save of its own, before that of the connector.
SaveRevocation(r) ==
  LET c == message[r].connector IN
  /\ at[r] = "revoking" /\ UNCHANGED <<backup, stuck, history>>
  /\ \/ /\ Unavailable \/ c \in file.revocations
        /\ Finish(r) /\ UNCHANGED file
     \/ /\ c \notin file.revocations
        /\ Update([file EXCEPT !.revocations = @ \union {c}])
        /\ Turn(r, "writing") /\ UNCHANGED <<message, pending, late>>

Save(r) ==
  LET c == message[r].connector IN
  /\ at[r] = "writing" /\ UNCHANGED <<backup, stuck, history>>
  /\ \/ Unavailable /\ Finish(r) /\ UNCHANGED file
     \/ /\ Update(IF pending[r].kind = "system" THEN [file EXCEPT !.system[c] = pending[r].value]
                  ELSE [file EXCEPT !.domain[c] = pending[r].value])
        /\ Turn(r, "done") /\ pending' = [pending EXCEPT ![r] = Nothing] /\ UNCHANGED <<message, late>>

\* Mutant: the handler's event is not saved before the answer.
EventLost(k) == file
EventOf(k) == [file EXCEPT !.events = @ \union ({k} \ {NoKey})]

HandlerReturns(r) ==
  /\ at[r] = "handling" /\ Quiet(r)
  /\ UNCHANGED <<backup, stuck, history>>
  /\ \/ Unavailable /\ Finish(r) /\ UNCHANGED file
     \/ Update(EventOf(message[r].key)) /\ Turn(r, "done") /\ UNCHANGED <<message, pending, late>>

\* Mutant: the last request with a key owns it.
ClaimableAlways(m) == TRUE
Claimable(m) == file.keys[m.key] \in {NoClaim, ClaimOf(m)}

\* The answer; a mutation that carries a key is recorded first.
Answer(r) ==
  LET m == message[r] IN
  /\ at[r] = "done" /\ Quiet(r) /\ Finish(r)
  /\ UNCHANGED <<backup, stuck, work, arrived, faults>>
  /\ IF m.key # NoKey /\ m.op \in Mutations
     THEN \/ (Unavailable \/ ~Claimable(m)) /\ UNCHANGED <<file, answers>>
          \/ Claimable(m) /\ Answered(m) /\ Update([file EXCEPT !.keys[m.key] = ClaimOf(m)])
     ELSE UNCHANGED <<file, answers>>

(* ----------------------- crashes, backup and restore --------------------- *)
Crash ==
  /\ faults < MaxFaults /\ faults' = faults + 1
  /\ \E r \in Service : at[r] # "idle"
  /\ at' = [r \in Request |-> IF r \in Service THEN "idle" ELSE at[r]]
  /\ message' = [r \in Request |-> IF r \in Service THEN AnyOf ELSE message[r]]
  /\ pending' = [r \in Request |-> IF r \in Service THEN Nothing ELSE pending[r]]
  /\ late' = late \ Service
  /\ stuck' \in {stuck, stuck \/ \E r \in Service : at[r] \notin {"idle", "arrived"}}
  /\ UNCHANGED <<file, backup, work, answers, arrived>>

Backup ==
  /\ backup = {} /\ backup' = {file}
  /\ UNCHANGED <<file, stuck, at, message, pending, late, history>>

\* The runbook stops mutations first; answers the backup does not know are void.
Restore ==
  /\ \A r \in Request : at[r] = "idle"
  /\ \E copy \in backup :
       /\ Update(copy)
       /\ answers' = [k \in Key |-> IF copy.keys[k] = NoClaim THEN {} ELSE answers[k]]
  /\ UNCHANGED <<backup, stuck, at, message, pending, work, late, arrived, faults>>

Next ==
  \/ \E r \in Request : \/ \E m \in Message : Arrive(r, m)
                        \/ Refuse(r) \/ Cached(r) \/ Handle(r) \/ Grant(r) \/ StartHandler(r)
                        \/ SaveRevocation(r) \/ Save(r) \/ HandlerReturns(r) \/ Answer(r)
  \/ Crash \/ Backup \/ Restore

Spec == Init /\ [][Next]_vars

(* ------------------------------ properties ------------------------------- *)
TypeOK ==
  /\ file \in File /\ backup \subseteq File /\ stuck \in BOOLEAN
  /\ at \in [Request -> Place] /\ late \subseteq Request
  /\ message \in [Request -> Message] /\ pending \in [Request -> Pending]
  /\ work \in [Key -> 0..MaxWork] /\ answers \in [Key -> SUBSET [op : Mutations, body : Body]]
  /\ arrived \in 0..MaxRequests /\ faults \in 0..MaxFaults

\* A request that arrives after a revocation was saved is never handed to a handler, although
\* the saves of requests that read the system before it may put stale copies over the revoked
\* record (ConnectedSystemRegistry.values).  One that had read the system before may still start.
NoWorkAfterRevocation == \A r \in late : at[r] # "handling"

\* An active system is a certified one, whatever copies were written over one
\* another (changeConnectorStatus, certifySystem, revoke).
ActiveIsCertified ==
  \A c \in Connector : file.system[c].status = "ACTIVE" => file.system[c].certification = "CERTIFIED"

\* All the successes answered for a key are for one operation and one payload,
\* although two requests with the key may have run their handlers together.
AnswersAgree == \A k \in Key : Cardinality(answers[k]) <= 1

\* Once a key has a successful answer no handler starts for it again: a client
\* may repeat a request whose answer it did not see.
AnsweredOnce ==
  [][\A k \in Key : answers[k] # {} => work'[k] = work[k]]_vars

\* A runtime operation is answered with success only after its event is in the
\* audit history, and a restore that keeps the answer keeps the event.
EvidenceBeforeAnswer ==
  \A k \in Key : (\E a \in answers[k] : a.op \in Runtime) => k \in file.events
=============================================================================

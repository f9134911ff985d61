------------------------- MODULE ControlPlaneProofs -------------------------
(***************************************************************************)
(* Proofs about the control plane, for any number of connected systems,    *)
(* requests, keys, payloads, crashes and copies.                           *)
(***************************************************************************)
EXTENDS ControlPlane, FiniteSetTheorems, TLAPS

-----------------------------------------------------------------------------
(* The inductive invariant *)

Typed ==
  /\ file \in File /\ backup \subseteq File
  /\ at \in [Request -> Place]
  /\ message \in [Request -> AnyMessage] /\ pending \in [Request -> Pending]
  /\ work \in [Key -> Nat] /\ answers \in [Key -> SUBSET Claim]

\* The file and its copies are consistent, and nobody is about to save a system that is
\* active without a certificate.
FilesConsistent ==
  /\ Consistent(file) /\ \A b \in backup : Consistent(b)
  /\ \A r \in Request : pending[r].kind = "system" /\ pending[r].value.status = "ACTIVE"
       => pending[r].value.certification = "CERTIFIED"

\* There is one copy, and the claims it knows are those of the file.
CopiesAgree ==
  /\ \A a, b \in backup : a = b
  /\ \A b \in backup, k \in Key : b.keys[k] # NoClaim => file.keys[k] = b.keys[k]

\* An answer is the claim on its key.
AnswersAreClaims ==
  \A k \in Key : \A a \in answers[k] : a = file.keys[k] /\ a # NoClaim

\* A runtime operation does not write, and when it is done its event is saved.
EventsPrecede ==
  \A r \in Request : message[r].op \in Runtime =>
    /\ at[r] \notin {"revoking", "writing"}
    /\ at[r] = "done" /\ message[r].key # NoKey => message[r].key \in file.events

IInv == Typed /\ FilesConsistent /\ CopiesAgree /\ AnswersAreClaims /\ EventsPrecede

-----------------------------------------------------------------------------
(* The state file *)

LEMMA FileUpdates ==
  ASSUME NEW f \in File, NEW c \in Connector, NEW k \in Key
  PROVE  /\ \A v \in System : LET g == [f EXCEPT !.system[c] = v] IN
              /\ g \in File /\ g.keys = f.keys /\ g.events = f.events
              /\ g.system = [f.system EXCEPT ![c] = v]
         /\ \A v \in DomainStatus : LET g == [f EXCEPT !.domain[c] = v] IN
              g \in File /\ g.keys = f.keys /\ g.events = f.events /\ g.system = f.system
         /\ LET g == [f EXCEPT !.identities = @ \union {c}] IN
              g \in File /\ g.keys = f.keys /\ g.events = f.events /\ g.system = f.system
         /\ LET g == [f EXCEPT !.revocations = @ \union {c}] IN
              g \in File /\ g.keys = f.keys /\ g.events = f.events /\ g.system = f.system
         /\ \A v \in Claim : LET g == [f EXCEPT !.keys[k] = v] IN
              /\ g \in File /\ g.keys = [f.keys EXCEPT ![k] = v] /\ g.events = f.events
              /\ g.system = f.system
  BY DEF File

LEMMA EventUpdate ==
  ASSUME NEW f \in File, NEW k \in Key \union {NoKey}
  PROVE  LET g == [f EXCEPT !.events = @ \union ({k} \ {NoKey})] IN
           /\ g \in File /\ g.keys = f.keys /\ g.system = f.system
           /\ f.events \subseteq g.events /\ (k # NoKey => k \in g.events)
  BY ControlPlaneAssumption DEF File

\* A claim is never the absence of one.
LEMMA ClaimFacts ==
  ASSUME NEW m \in AnyMessage, m.op \in Mutations
  PROVE  ClaimOf(m) \in Claim /\ ClaimOf(m) # NoClaim /\ ClaimOf(m).op = m.op
<1>1. m.body \in Body /\ "NONE" \notin Mutations  BY DEF AnyMessage, Mutations, Runtime
<1>2. ClaimOf(m) \in [op : Mutations, body : Body] /\ ClaimOf(m).op = m.op
  BY <1>1 DEF ClaimOf
<1>3. NoClaim.op = "NONE"  BY DEF NoClaim
<1>4. QED  BY <1>1, <1>2, <1>3 DEF Claim

LEMMA AnyOfIsMessage == AnyOf \in AnyMessage
  BY ControlPlaneAssumption DEF AnyOf

LEMMA InitIInv == Init => IInv
<1> SUFFICES ASSUME Init PROVE IInv  OBVIOUS
<1> USE ControlPlaneAssumption DEF Init
<1>1. Nothing \in Pending /\ Nothing.kind = "none"  BY DEF Nothing, Pending
<1>2. Typed  BY <1>1, AnyOfIsMessage DEF Typed, Place
<1>3. FilesConsistent  BY <1>1 DEF FilesConsistent
<1>4. CopiesAgree /\ AnswersAreClaims /\ EventsPrecede
  BY DEF CopiesAgree, AnswersAreClaims, EventsPrecede
<1>5. QED  BY <1>2, <1>3, <1>4 DEF IInv

-----------------------------------------------------------------------------
(* What a request prepares *)

Certified(v) == v.kind = "system" /\ v.value.status = "ACTIVE" => v.value.certification = "CERTIFIED"

\* The records an operation on a system may save.
LEMMA SystemRecords ==
  ASSUME Typed, NEW c \in Connector
  PROVE  /\ SystemOf(c) \in System
         /\ [SystemOf(c) EXCEPT !.status = "SUSPENDED"] \in System
         /\ [SystemOf(c) EXCEPT !.status = "SUSPENDED"].status = "SUSPENDED"
         /\ [SystemOf(c) EXCEPT !.status = "ACTIVE"] \in System
         /\ [SystemOf(c) EXCEPT !.status = "ACTIVE"].certification = SystemOf(c).certification
         /\ Revoked \in System /\ Revoked.status = "SUSPENDED"
<1>1. file.system[c] \in System  BY DEF Typed, File
<1>2. Revoked \in System /\ Revoked.status = "SUSPENDED"
  BY DEF Revoked, System, Status, Certification
<1>3. SystemOf(c) \in System  BY <1>1, <1>2 DEF SystemOf
<1>4. "SUSPENDED" \in Status /\ "ACTIVE" \in Status  BY DEF Status
<1>5. \A s \in System, x \in Status :
        /\ [s EXCEPT !.status = x] \in System
        /\ [s EXCEPT !.status = x].status = x
        /\ [s EXCEPT !.status = x].certification = s.certification
  BY DEF System
<1>6. QED  BY <1>2, <1>3, <1>4, <1>5

\* Dispatch decides on one record, saves an identity, admits to a handler, or replies.
LEMMA DispatchFacts ==
  ASSUME Typed, NEW r \in Request, NEW m \in AnyMessage, Dispatch(r, m)
  PROVE  /\ file' \in { file, [file EXCEPT !.identities = @ \union {m.connector}] }
         /\ \E place \in {"writing", "done", "revoking", "admitted"} :
              /\ at' = [at EXCEPT ![r] = place]
              /\ m.op \in Runtime => place = "admitted"
         /\ \/ pending' = pending
            \/ \E v \in Pending : pending' = [pending EXCEPT ![r] = v] /\ Certified(v)
<1> DEFINE c == m.connector
           Goal == /\ file' \in { file, [file EXCEPT !.identities = @ \union {c}] }
                   /\ \E place \in {"writing", "done", "revoking", "admitted"} :
                        /\ at' = [at EXCEPT ![r] = place]
                        /\ m.op \in Runtime => place = "admitted"
                   /\ \/ pending' = pending
                      \/ \E v \in Pending : pending' = [pending EXCEPT ![r] = v] /\ Certified(v)
<1>1. c \in Connector  BY DEF AnyMessage
<1>2. ASSUME NEW x \in System, Decide(r, "system", x), m.op \notin Runtime,
             x.status = "ACTIVE" => x.certification = "CERTIFIED"
      PROVE  Goal
  <2>1. [kind |-> "system", value |-> x] \in Pending  BY DEF Pending
  <2>2. Certified([kind |-> "system", value |-> x])  BY <1>2 DEF Certified
  <2>3. pending' = [pending EXCEPT ![r] = [kind |-> "system", value |-> x]]  BY <1>2 DEF Decide
  <2>4. file' = file /\ at' = [at EXCEPT ![r] = "writing"]  BY <1>2 DEF Decide, Turn
  <2>5. QED  BY <1>2, <2>1, <2>2, <2>3, <2>4
<1>3. ASSUME NEW x \in DomainStatus, Decide(r, "domain", x), m.op \notin Runtime PROVE Goal
  <2>1. [kind |-> "domain", value |-> x] \in Pending  BY DEF Pending
  <2>2. Certified([kind |-> "domain", value |-> x])  BY DEF Certified
  <2>3. pending' = [pending EXCEPT ![r] = [kind |-> "domain", value |-> x]]  BY <1>3 DEF Decide
  <2>4. file' = file /\ at' = [at EXCEPT ![r] = "writing"]  BY <1>3 DEF Decide, Turn
  <2>5. QED  BY <1>3, <2>1, <2>2, <2>3, <2>4
<1>4. ASSUME Reply(r), m.op \notin Runtime PROVE Goal
  BY <1>4 DEF Reply, Turn
<1>5. CASE m.op = "REGISTER_SYSTEM" /\ RegisterSystem(r, c)
  <2>1. [status |-> "REGISTERED", certification |-> "PENDING"] \in System
    BY DEF System, Status, Certification
  <2>2. QED  BY <1>2, <1>5, <2>1 DEF RegisterSystem, EnrolSystem, Runtime
<1>6. CASE m.op = "CERTIFY_SYSTEM" /\ CertifySystem(r, c)
  <2>1. [status |-> "ACTIVE", certification |-> "CERTIFIED"] \in System
    BY DEF System, Status, Certification
  <2>2. QED  BY <1>2, <1>6, <2>1 DEF CertifySystem, UpdateSystem, Runtime
<1>7. CASE m.op = "SUSPEND_SYSTEM" /\ SuspendSystem(r, c)
  BY <1>1, <1>2, <1>7, SystemRecords DEF SuspendSystem, UpdateSystem, Runtime
<1>8. CASE m.op = "RESUME_SYSTEM" /\ ResumeSystem(r, c)
  BY <1>1, <1>2, <1>8, SystemRecords DEF ResumeSystem, UpdateSystem, Runtime
<1>9. CASE m.op = "REVOKE_SYSTEM" /\ RevokeSystem(r, c)
  <2>1. [kind |-> "system", value |-> Revoked] \in Pending
    BY <1>1, SystemRecords DEF Pending
  <2>2. Certified([kind |-> "system", value |-> Revoked])  BY <1>1, SystemRecords DEF Certified
  <2>3. QED  BY <1>9, <2>1, <2>2 DEF RevokeSystem, Turn, Runtime
<1>10. CASE \/ m.op = "REGISTER_DOMAIN" /\ RegisterDomain(r, c)
            \/ m.op = "ACTIVATE_DOMAIN" /\ ActivateDomain(r, c)
            \/ m.op = "DEACTIVATE_DOMAIN" /\ DeactivateDomain(r, c)
  <2>1. "REGISTERED" \in DomainStatus /\ "ACTIVE" \in DomainStatus /\ "SUSPENDED" \in DomainStatus
    BY DEF DomainStatus
  <2>2. QED
    BY <1>3, <1>10, <2>1 DEF RegisterDomain, EnrolDomain, ActivateDomain, DeactivateDomain,
       UpdateDomain, Runtime
<1>11. CASE m.op = "REGISTER_IDENTITY" /\ RegisterIdentity(r, c)
  BY <1>11 DEF RegisterIdentity, MapIdentity, Update, Turn, Runtime
<1>12. CASE \/ m.op = "GET_CONNECTOR_STATUS" /\ ConnectorStatus(r, c)
            \/ m.op = "NEGOTIATE_VERSION" /\ NegotiateVersion(r, c)
            \/ m.op = "GET_DOMAIN_STATUS" /\ DomainStatusOf(r, c)
            \/ m.op = "DISCOVER_CAPABILITIES" /\ DiscoverCapabilities(r, c)
            \/ m.op = "QUERY_AUDIT" /\ QueryAudit(r, c)
  BY <1>4, <1>12 DEF ConnectorStatus, NegotiateVersion, DomainStatusOf, DiscoverCapabilities,
     QueryAudit, Runtime
<1>13. CASE \/ m.op = "HEALTH_CHECK" /\ HealthCheck(r, c)
            \/ m.op \in Runtime /\ RuntimeOperation(r, c)
  BY <1>13 DEF HealthCheck, RuntimeOperation, Communicate, Turn
<1>14. QED
  BY <1>5, <1>6, <1>7, <1>8, <1>9, <1>10, <1>11, <1>12, <1>13 DEF Dispatch

-----------------------------------------------------------------------------
(* The steps *)

\* What is left when a request ends.
LEMMA FinishFacts ==
  ASSUME Typed, NEW r \in Request, Finish(r)
  PROVE  /\ at' \in [Request -> Place]
         /\ message' \in [Request -> AnyMessage] /\ pending' \in [Request -> Pending]
         /\ at'[r] = "idle" /\ pending'[r].kind = "none"
         /\ \A q \in Request \ {r} :
              at'[q] = at[q] /\ message'[q] = message[q] /\ pending'[q] = pending[q]
<1>1. Nothing \in Pending /\ Nothing.kind = "none"  BY DEF Nothing, Pending
<1>2. QED  BY <1>1, AnyOfIsMessage DEF Typed, Finish, Turn, Place

\* A request that ends without a trace in the file.
LEMMA EndingKeepsIInv ==
  ASSUME IInv, NEW r \in Request, Finish(r), UNCHANGED <<file, backup, answers>>,
         work' \in [Key -> Nat]
  PROVE  IInv'
<1>1. Typed  BY DEF IInv
<1>2. Typed'  BY <1>1, FinishFacts DEF Typed
<1>3. FilesConsistent'
  BY <1>1, FinishFacts DEF IInv, FilesConsistent, Consistent
<1>4. CopiesAgree' /\ AnswersAreClaims'  BY DEF IInv, CopiesAgree, AnswersAreClaims
<1>5. EventsPrecede'
  BY <1>1, FinishFacts DEF IInv, EventsPrecede
<1>6. QED  BY <1>2, <1>3, <1>4, <1>5 DEF IInv

LEMMA ArriveKeepsIInv ==
  ASSUME IInv, NEW r \in Request, NEW m \in Message, Arrive(r, m) PROVE IInv'
<1>1. m \in AnyMessage  BY ControlPlaneAssumption
<1>2. Typed'  BY <1>1 DEF IInv, Typed, Arrive, Turn, Place
<1>3. FilesConsistent'  BY DEF IInv, FilesConsistent, Consistent, Arrive
<1>4. CopiesAgree' /\ AnswersAreClaims'  BY DEF IInv, CopiesAgree, AnswersAreClaims, Arrive
<1>5. EventsPrecede'  BY DEF IInv, Typed, EventsPrecede, Arrive, Turn
<1>6. QED  BY <1>2, <1>3, <1>4, <1>5 DEF IInv

\* The recorded answer is the claim.
LEMMA CachedKeepsIInv == ASSUME IInv, NEW r \in Request, Cached(r) PROVE IInv'
<1> DEFINE m == message[r]
<1>1. Typed /\ m \in AnyMessage  BY DEF IInv, Typed
<1>2. CASE m.op \in Mutations
  <2>1. m.key \in Key  BY <1>1 DEF Cached, AnyMessage
  <2>2. ClaimOf(m) \in Claim /\ ClaimOf(m) # NoClaim  BY <1>1, <1>2, ClaimFacts
  <2>3. answers' = [answers EXCEPT ![m.key] = @ \union {ClaimOf(m)}] /\ file.keys[m.key] = ClaimOf(m)
    BY <1>2 DEF Cached, Answered
  <2>4. UNCHANGED <<file, backup, work>> /\ Finish(r)  BY DEF Cached
  <2>5. Typed'  BY <1>1, <2>1, <2>2, <2>3, <2>4, FinishFacts DEF Typed
  <2>6. AnswersAreClaims'
    BY <1>1, <2>1, <2>2, <2>3, <2>4 DEF IInv, Typed, AnswersAreClaims
  <2>7. FilesConsistent' /\ CopiesAgree' /\ EventsPrecede'
    BY <1>1, <2>4, FinishFacts DEF IInv, FilesConsistent, Consistent, CopiesAgree, EventsPrecede
  <2>8. QED  BY <2>5, <2>6, <2>7 DEF IInv
<1>3. CASE m.op \notin Mutations
  BY <1>1, <1>3, EndingKeepsIInv DEF Cached, Answered, Typed
<1>4. QED  BY <1>2, <1>3

LEMMA HandleKeepsIInv == ASSUME IInv, NEW r \in Request, Handle(r) PROVE IInv'
<1> DEFINE m == message[r]
<1>1. Typed /\ m \in AnyMessage /\ m.connector \in Connector
  BY DEF IInv, Typed, AnyMessage
<1>2. Dispatch(r, m) /\ UNCHANGED <<backup, message, answers>>  BY DEF Handle, history
<1>3. PICK place \in {"writing", "done", "revoking", "admitted"} :
        at' = [at EXCEPT ![r] = place] /\ (m.op \in Runtime => place = "admitted")
  BY <1>1, <1>2, DispatchFacts
<1>4. /\ pending' \in [Request -> Pending]
      /\ \A q \in Request : pending'[q] = pending[q] \/ Certified(pending'[q])
  <2>1. CASE pending' = pending  BY <1>1, <2>1 DEF Typed
  <2>2. CASE \E v \in Pending : pending' = [pending EXCEPT ![r] = v] /\ Certified(v)
    BY <1>1, <2>2 DEF Typed
  <2>3. QED  BY <1>1, <1>2, <2>1, <2>2, DispatchFacts
<1>5. /\ file' \in File /\ file'.keys = file.keys /\ file'.events = file.events
      /\ file'.system = file.system
  <2>1. file' \in { file, [file EXCEPT !.identities = @ \union {m.connector}] }
    BY <1>1, <1>2, DispatchFacts
  <2>2. file \in File  BY <1>1 DEF Typed
  <2>3. LET g == [file EXCEPT !.identities = @ \union {m.connector}] IN
          g \in File /\ g.keys = file.keys /\ g.events = file.events /\ g.system = file.system
    BY <1>1, <2>2 DEF File
  <2>4. QED  BY <2>1, <2>2, <2>3
<1>6. work' \in [Key -> Nat]  BY <1>1 DEF Handle, history, Typed
<1>7. Typed'  BY <1>1, <1>2, <1>3, <1>4, <1>5, <1>6 DEF Typed, Place
<1>8. FilesConsistent'
  BY <1>2, <1>4, <1>5 DEF IInv, FilesConsistent, Consistent, Certified
<1>9. CopiesAgree' /\ AnswersAreClaims'
  BY <1>2, <1>5 DEF IInv, CopiesAgree, AnswersAreClaims
<1>10. EventsPrecede'
  BY <1>1, <1>2, <1>3, <1>5 DEF IInv, Typed, EventsPrecede
<1>11. QED  BY <1>7, <1>8, <1>9, <1>10 DEF IInv

\* A request moves on towards its handler, and nothing else changes but the count of its key.
LEMMA StartKeepsIInv == ASSUME IInv, NEW r \in Request, Grant(r) \/ StartHandler(r) PROVE IInv'
<1>1. Typed /\ message[r].key \in Key \union {NoKey}  BY DEF IInv, Typed, AnyMessage
<1>2. PICK place \in {"granted", "handling"} : at' = [at EXCEPT ![r] = place]
  BY DEF Grant, StartHandler, Turn
<1>3. UNCHANGED <<file, backup, message, pending, answers>>
  BY DEF Grant, StartHandler, history
<1>4. work' \in [Key -> Nat]  BY <1>1 DEF Grant, StartHandler, history, Typed
<1>5. Typed'  BY <1>1, <1>2, <1>3, <1>4 DEF Typed, Place
<1>6. FilesConsistent' /\ CopiesAgree' /\ AnswersAreClaims'
  BY <1>3 DEF IInv, FilesConsistent, Consistent, CopiesAgree, AnswersAreClaims
<1>7. EventsPrecede'  BY <1>1, <1>2, <1>3 DEF IInv, Typed, EventsPrecede
<1>8. QED  BY <1>5, <1>6, <1>7 DEF IInv

\* Saving a revocation, a connector or a domain: the keys and the events stay.
LEMMA WriteKeepsIInv ==
  ASSUME IInv, NEW r \in Request, SaveRevocation(r) \/ Save(r) PROVE IInv'
<1> DEFINE c == message[r].connector
<1>1. Typed /\ c \in Connector /\ file \in File /\ pending[r] \in Pending
  BY DEF IInv, Typed, AnyMessage
<1>2. CASE Finish(r) /\ file' = file
  <2>1. UNCHANGED <<backup, answers, work>>  BY DEF SaveRevocation, Save, history
  <2>2. QED  BY <1>1, <1>2, <2>1, EndingKeepsIInv DEF Typed
<1>3. CASE ~(Finish(r) /\ file' = file)
  <2>1. /\ at[r] \in {"revoking", "writing"} /\ UNCHANGED <<backup, answers, work, message>>
        /\ \E place \in {"writing", "done"} : at' = [at EXCEPT ![r] = place]
    BY <1>3 DEF SaveRevocation, Save, history, Turn
  <2>2. /\ pending' \in [Request -> Pending]
        /\ \A q \in Request : pending'[q] = pending[q] \/ pending'[q].kind = "none"
    <3>1. pending' = pending \/ pending' = [pending EXCEPT ![r] = Nothing]
      BY <1>3 DEF SaveRevocation, Save
    <3>2. Nothing \in Pending /\ Nothing.kind = "none"  BY DEF Nothing, Pending
    <3>3. QED  BY <1>1, <3>1, <3>2 DEF Typed
  <2>3. /\ file' \in File /\ file'.keys = file.keys /\ file'.events = file.events
        /\ \A d \in Connector :
             \/ file'.system[d] = file.system[d]
             \/ pending[r].kind = "system" /\ file'.system[d] = pending[r].value
    <3>1. CASE file' = [file EXCEPT !.revocations = @ \union {c}]
      BY <1>1, <3>1 DEF File
    <3>2. CASE pending[r].kind = "system" /\ file' = [file EXCEPT !.system[c] = pending[r].value]
      <4>1. pending[r].value \in System  BY <1>1, <3>2 DEF Pending
      <4>2. /\ file' \in File /\ file'.keys = file.keys /\ file'.events = file.events
            /\ file'.system = [file.system EXCEPT ![c] = pending[r].value]
        BY <1>1, <3>2, <4>1 DEF File
      <4>3. file.system \in [Connector -> System]  BY <1>1 DEF File
      <4>4. QED  BY <3>2, <4>2, <4>3
    <3>3. CASE pending[r].kind # "system" /\ file' = [file EXCEPT !.domain[c] = pending[r].value]
      <4>1. CASE pending[r].value \in DomainStatus
        BY <1>1, <3>3, <4>1 DEF File
      <4>2. CASE pending[r].kind = "none"
        <5>1. pending[r].value = "NONE"  BY <1>1, <4>2 DEF Pending
        <5>2. QED  BY <4>1, <5>1 DEF DomainStatus
      <4>3. QED  BY <1>1, <3>3, <4>1, <4>2 DEF Pending
    <3>4. QED  BY <1>3, <3>1, <3>2, <3>3 DEF SaveRevocation, Save, Update
  <2>4. Typed'  BY <1>1, <2>1, <2>2, <2>3 DEF Typed, Place
  <2>5. FilesConsistent'
    BY <2>1, <2>2, <2>3 DEF IInv, FilesConsistent, Consistent
  <2>6. CopiesAgree' /\ AnswersAreClaims'
    BY <2>1, <2>3 DEF IInv, CopiesAgree, AnswersAreClaims
  <2>7. EventsPrecede'
    BY <1>1, <2>1, <2>3 DEF IInv, Typed, EventsPrecede
  <2>8. QED  BY <2>4, <2>5, <2>6, <2>7 DEF IInv
<1>4. QED  BY <1>2, <1>3

LEMMA HandlerKeepsIInv == ASSUME IInv, NEW r \in Request, HandlerReturns(r) PROVE IInv'
<1> DEFINE k == message[r].key
<1>1. Typed /\ k \in Key \union {NoKey} /\ file \in File
  BY DEF IInv, Typed, AnyMessage
<1>2. CASE Finish(r) /\ file' = file
  <2>1. UNCHANGED <<backup, answers, work>>  BY DEF HandlerReturns, history
  <2>2. QED  BY <1>1, <1>2, <2>1, EndingKeepsIInv DEF Typed
<1>3. CASE ~(Finish(r) /\ file' = file)
  <2>1. /\ UNCHANGED <<backup, answers, work, message, pending>>
        /\ at' = [at EXCEPT ![r] = "done"] /\ file' = EventOf(k)
    BY <1>3 DEF HandlerReturns, history, Turn, Update
  <2>2. /\ file' \in File /\ file'.keys = file.keys /\ file'.system = file.system
        /\ file.events \subseteq file'.events /\ (k # NoKey => k \in file'.events)
    BY <1>1, <2>1, EventUpdate DEF EventOf
  <2>3. Typed'  BY <1>1, <2>1, <2>2 DEF Typed, Place
  <2>4. FilesConsistent'  BY <2>1, <2>2 DEF IInv, FilesConsistent, Consistent
  <2>5. CopiesAgree' /\ AnswersAreClaims'
    BY <2>1, <2>2 DEF IInv, CopiesAgree, AnswersAreClaims
  <2>6. EventsPrecede'  BY <1>1, <2>1, <2>2 DEF IInv, Typed, EventsPrecede
  <2>7. QED  BY <2>3, <2>4, <2>5, <2>6 DEF IInv
<1>4. QED  BY <1>2, <1>3

\* The first answer claims its key, after the event of a runtime operation was saved.
LEMMA AnswerKeepsIInv == ASSUME IInv, NEW r \in Request, Answer(r) PROVE IInv'
<1> DEFINE m == message[r]
<1>1. Typed /\ m \in AnyMessage /\ file \in File /\ at[r] = "done" /\ Finish(r)
  BY DEF IInv, Typed, Answer
<1>2. UNCHANGED <<backup, work>>  BY DEF Answer
<1>3. CASE UNCHANGED <<file, answers>>  BY <1>1, <1>2, <1>3, EndingKeepsIInv DEF Typed
<1>4. CASE ~UNCHANGED <<file, answers>>
  <2>1. /\ m.op \in Mutations /\ m.key \in Key /\ file.keys[m.key] \in {NoClaim, ClaimOf(m)}
        /\ answers' = [answers EXCEPT ![m.key] = @ \union {ClaimOf(m)}]
        /\ file' = [file EXCEPT !.keys[m.key] = ClaimOf(m)]
    BY <1>1, <1>4 DEF Answer, Answered, Update, Claimable, AnyMessage
  <2>2. ClaimOf(m) \in Claim /\ ClaimOf(m) # NoClaim /\ ClaimOf(m).op = m.op
    BY <1>1, <2>1, ClaimFacts
  <2>3. /\ file' \in File /\ file'.keys = [file.keys EXCEPT ![m.key] = ClaimOf(m)]
        /\ file'.events = file.events /\ file'.system = file.system
    BY <1>1, <2>1, <2>2 DEF File
  <2>4. file.keys \in [Key -> Claim]  BY <1>1 DEF File
  <2>5. Typed'  BY <1>1, <1>2, <2>1, <2>2, <2>3, FinishFacts DEF Typed
  <2>6. m.op \in Runtime => m.key \in file.events
    BY <1>1, <2>1, ControlPlaneAssumption DEF IInv, EventsPrecede
  <2>7. FilesConsistent'
    <3>1. Consistent(file)'
      BY <2>2, <2>3, <2>4, <2>6 DEF IInv, FilesConsistent, Consistent
    <3>2. QED  BY <1>1, <1>2, <3>1, FinishFacts DEF IInv, FilesConsistent, Consistent
  <2>8. CopiesAgree'
    BY <1>2, <2>1, <2>2, <2>3, <2>4 DEF IInv, CopiesAgree
  <2>9. AnswersAreClaims'
    BY <1>1, <2>1, <2>2, <2>3, <2>4 DEF IInv, Typed, AnswersAreClaims
  <2>10. EventsPrecede'
    BY <1>1, <2>3, FinishFacts DEF IInv, EventsPrecede
  <2>11. QED  BY <2>5, <2>7, <2>8, <2>9, <2>10 DEF IInv
<1>5. QED  BY <1>3, <1>4

LEMMA CrashKeepsIInv == ASSUME IInv, Crash PROVE IInv'
<1>1. Nothing \in Pending /\ Nothing.kind = "none"  BY DEF Nothing, Pending
<1>2. Typed'  BY <1>1, AnyOfIsMessage DEF IInv, Typed, Crash, Place
<1>3. FilesConsistent'
  BY <1>1 DEF IInv, FilesConsistent, Consistent, Crash
<1>4. CopiesAgree' /\ AnswersAreClaims'  BY DEF IInv, CopiesAgree, AnswersAreClaims, Crash
<1>5. EventsPrecede'  BY DEF IInv, EventsPrecede, Crash
<1>6. QED  BY <1>2, <1>3, <1>4, <1>5 DEF IInv

\* The copy restored is the only one, and voids the answers it does not know.
LEMMA CopyKeepsIInv == ASSUME IInv, Backup \/ Restore PROVE IInv'
<1>1. CASE Backup
  <2>1. backup' = {file} /\ UNCHANGED <<file, at, message, pending, work, answers>>
    BY <1>1 DEF Backup, history
  <2>2. QED
    BY <2>1 DEF IInv, Typed, FilesConsistent, Consistent, CopiesAgree, AnswersAreClaims, EventsPrecede
<1>2. CASE Restore
  <2>1. PICK copy \in backup :
          /\ file' = copy
          /\ answers' = [k \in Key |-> IF copy.keys[k] = NoClaim THEN {} ELSE answers[k]]
    BY <1>2 DEF Restore, Update
  <2>2. (\A r \in Request : at[r] = "idle") /\ UNCHANGED <<backup, at, message, pending, work>>
    BY <1>2 DEF Restore
  <2>3. Typed'  BY <2>1, <2>2 DEF IInv, Typed
  <2>4. FilesConsistent'  BY <2>1, <2>2 DEF IInv, FilesConsistent, Consistent
  <2>5. CopiesAgree'  BY <2>1, <2>2 DEF IInv, CopiesAgree
  <2>6. AnswersAreClaims'  BY <2>1 DEF IInv, CopiesAgree, AnswersAreClaims
  <2>7. EventsPrecede'  BY <2>2 DEF IInv, EventsPrecede
  <2>8. QED  BY <2>3, <2>4, <2>5, <2>6, <2>7 DEF IInv
<1>3. QED  BY <1>1, <1>2

LEMMA StepKeepsIInv == IInv /\ [Next]_vars => IInv'
<1> SUFFICES ASSUME IInv, [Next]_vars PROVE IInv'  OBVIOUS
<1>1. CASE UNCHANGED vars
  BY <1>1 DEF vars, IInv, Typed, FilesConsistent, Consistent, CopiesAgree, AnswersAreClaims,
     EventsPrecede
<1>2. ASSUME NEW r \in Request, Refuse(r) PROVE IInv'
  BY <1>2, EndingKeepsIInv DEF Refuse, history, IInv, Typed
<1>3. ASSUME NEW r \in Request,
             \/ \E m \in Message : Arrive(r, m)
             \/ Cached(r) \/ Handle(r) \/ Grant(r) \/ StartHandler(r) \/ SaveRevocation(r)
             \/ Save(r) \/ HandlerReturns(r) \/ Answer(r)
      PROVE  IInv'
  BY <1>3, ArriveKeepsIInv, CachedKeepsIInv, HandleKeepsIInv, StartKeepsIInv, WriteKeepsIInv,
     HandlerKeepsIInv, AnswerKeepsIInv
<1>4. QED  BY <1>1, <1>2, <1>3, CrashKeepsIInv, CopyKeepsIInv DEF Next

LEMMA IInvAlways == Spec => []IInv
<1>1. QED  BY InitIInv, StepKeepsIInv, PTL DEF Spec

-----------------------------------------------------------------------------
(* The properties *)

\* Every state is typed, and the bounds of an instance are kept. The part of TypeOK that
\* Typed leaves out holds by itself.
Bounds ==
  /\ stuck \in BOOLEAN /\ late \subseteq Request /\ message \in [Request -> Message]
  /\ work \in [Key -> 0..MaxWork] /\ arrived \in 0..MaxRequests /\ faults \in 0..MaxFaults

LEMMA StepKeepsBounds == Bounds /\ [Next]_vars => Bounds'
<1> SUFFICES ASSUME Bounds, [Next]_vars PROVE Bounds'  OBVIOUS
<1> USE ControlPlaneAssumption
<1>1. AnyOf \in Message  BY DEF AnyOf
<1>2. CASE UNCHANGED vars  BY <1>2 DEF vars, Bounds
<1>3. ASSUME NEW r \in Request, Finish(r), UNCHANGED <<stuck, work, arrived, faults>> PROVE Bounds'
  BY <1>1, <1>3 DEF Bounds, Finish
<1>4. ASSUME NEW r \in Request, UNCHANGED <<stuck, message, work, late, arrived, faults>> PROVE Bounds'
  BY <1>4 DEF Bounds
<1>5. ASSUME NEW r \in Request, NEW m \in Message, Arrive(r, m) PROVE Bounds'
  BY <1>5 DEF Arrive, Bounds
<1>6. ASSUME NEW r \in Request, StartHandler(r) PROVE Bounds'
  <2>1. UNCHANGED <<stuck, message, late, arrived, faults>>  BY <1>6 DEF StartHandler
  <2>2. \/ work' = work
        \/ /\ message[r].key # NoKey /\ work[message[r].key] < MaxWork
           /\ work' = [work EXCEPT ![message[r].key] = @ + 1]
    BY <1>6 DEF StartHandler
  <2>3. message[r].key \in Key \union {NoKey}  BY DEF Bounds, AnyMessage
  <2>4. work' \in [Key -> 0..MaxWork]  BY <2>2, <2>3 DEF Bounds
  <2>5. QED  BY <2>1, <2>4 DEF Bounds
<1>7. ASSUME NEW r \in Request,
             \/ Refuse(r) \/ Cached(r) \/ Handle(r) \/ Grant(r) \/ SaveRevocation(r)
             \/ Save(r) \/ HandlerReturns(r) \/ Answer(r)
      PROVE  Bounds'
  BY <1>3, <1>4, <1>7 DEF Refuse, Cached, Handle, Grant, SaveRevocation, Save, HandlerReturns, Answer, history
<1>8. CASE Crash
  <2>1. stuck' \in BOOLEAN /\ UNCHANGED <<work, arrived>>  BY <1>8 DEF Crash, Bounds
  <2>2. message' \in [Request -> Message] /\ faults' \in 0..MaxFaults /\ late' \subseteq Request
    BY <1>1, <1>8 DEF Crash, Bounds
  <2>3. QED  BY <2>1, <2>2 DEF Bounds
<1>9. CASE Backup \/ Restore  BY <1>9 DEF Backup, Restore, history, Bounds
<1>10. QED  BY <1>2, <1>5, <1>6, <1>7, <1>8, <1>9 DEF Next

\* Every reachable state is typed: what is saved, prepared and answered keeps its shape
\* through interleaved requests, crashes and a restore.
THEOREM ControlPlaneIsTyped == Spec => []TypeOK
<1>1. Init => Bounds
  <2>1. AnyOf \in Message  BY ControlPlaneAssumption DEF AnyOf
  <2>2. 0 \in 0..MaxWork /\ 0 \in 0..MaxRequests /\ 0 \in 0..MaxFaults
    BY ControlPlaneAssumption
  <2> SUFFICES ASSUME Init PROVE Bounds  OBVIOUS
  <2>3. message \in [Request -> Message]  BY <2>1 DEF Init
  <2>4. work \in [Key -> 0..MaxWork]  BY <2>2 DEF Init
  <2>5. QED  BY <2>2, <2>3, <2>4 DEF Init, Bounds
<1>2. IInv /\ Bounds => TypeOK
  <2> SUFFICES ASSUME IInv, Bounds PROVE TypeOK  OBVIOUS
  <2>1. \A k \in Key : answers[k] \subseteq [op : Mutations, body : Body]
    BY DEF IInv, Typed, AnswersAreClaims, Claim
  <2>2. answers \in [Key -> SUBSET [op : Mutations, body : Body]]
    BY <2>1 DEF IInv, Typed
  <2>3. QED  BY <2>2 DEF IInv, Typed, Bounds, TypeOK
<1>3. QED  BY <1>1, <1>2, IInvAlways, StepKeepsBounds, PTL DEF Spec

\* An active system is a certified one in every file ever saved or restored, whatever stale
\* records requests and the operator write over one another (ConnectedSystemRegistry).
THEOREM ActiveSystemsAreCertified == Spec => []ActiveIsCertified
<1>1. IInv => ActiveIsCertified
  BY DEF IInv, FilesConsistent, Consistent, ActiveIsCertified
<1>2. QED  BY <1>1, IInvAlways, PTL

\* All the successes answered for a key are one answer, because each was claimed in the
\* file before it was given (IdempotencyStore.record).
THEOREM OneAnswerForAKey == Spec => []AnswersAgree
<1>1. ASSUME IInv, NEW k \in Key PROVE Cardinality(answers[k]) <= 1
  <2>1. \A a \in answers[k] : a = file.keys[k]  BY <1>1 DEF IInv, AnswersAreClaims
  <2>2. answers[k] \subseteq {file.keys[k]}  BY <2>1
  <2>3. IsFiniteSet({file.keys[k]}) /\ Cardinality({file.keys[k]}) = 1  BY FS_Singleton
  <2>4. QED  BY <2>2, <2>3, FS_Subset, FS_CardinalityType
<1>2. IInv => AnswersAgree  BY <1>1 DEF AnswersAgree
<1>3. QED  BY <1>2, IInvAlways, PTL

\* The event of a runtime operation is in the audit history of every file that knows its
\* answer, a restored one included.
THEOREM EvidenceIsSavedFirst == Spec => []EvidenceBeforeAnswer
<1>1. IInv => EvidenceBeforeAnswer
  BY DEF IInv, FilesConsistent, Consistent, AnswersAreClaims, EvidenceBeforeAnswer
<1>2. QED  BY <1>1, IInvAlways, PTL

-----------------------------------------------------------------------------
(* Requests on their way to a handler *)

\* The operator only revokes, and carries no key.
OperatorRevokes ==
  at[Operator] # "idle" => message[Operator].op = "REVOKE_SYSTEM" /\ message[Operator].key = NoKey

\* A request that was admitted had found no record of its key, and there is none yet: the
\* process that would save one is busy with this request.
AdmittedAreFresh ==
  \A r \in Request : at[r] \in {"admitted", "granted"} =>
    r # Operator /\ (message[r].key # NoKey => file.keys[message[r].key] = NoClaim)

\* A late request's system is revoked as long as the request lasts, so it is never admitted.
LateAreBarred ==
  \A r \in late :
    /\ r \in Request /\ message[r].connector \in file.revocations
    /\ at[r] \notin {"idle", "admitted", "granted", "handling"}

OnTheWay == OperatorRevokes /\ AdmittedAreFresh /\ LateAreBarred

Step(r) ==
  \/ \E m \in Message : Arrive(r, m)
  \/ Refuse(r) \/ Cached(r) \/ Handle(r) \/ Grant(r) \/ StartHandler(r)
  \/ SaveRevocation(r) \/ Save(r) \/ HandlerReturns(r) \/ Answer(r)

\* An admitted request came through the boundary's first read.
LEMMA OnlyUsableIsAdmitted ==
  ASSUME Typed, NEW r \in Request, NEW m \in AnyMessage, Dispatch(r, m), at'[r] = "admitted"
  PROVE  /\ SystemOf(m.connector).status = "ACTIVE"
         /\ m.op # "REVOKE_SYSTEM"
<1> DEFINE c == m.connector
<1>1. CASE Communicate(r, c) /\ (m.op = "HEALTH_CHECK" \/ m.op \in Runtime)
  BY <1>1 DEF Communicate, Usable, Runtime
<1>2. CASE ~(Communicate(r, c) /\ (m.op = "HEALTH_CHECK" \/ m.op \in Runtime))
  <2>1. at'[r] # "admitted"
    BY <1>2 DEF Dispatch, RegisterSystem, CertifySystem, RegisterDomain, ActivateDomain,
       DeactivateDomain, RegisterIdentity, SuspendSystem, ResumeSystem, RevokeSystem,
       EnrolSystem, EnrolDomain, MapIdentity, UpdateSystem, UpdateDomain, Decide, Turn,
       Reply, ConnectorStatus, NegotiateVersion, DomainStatusOf, DiscoverCapabilities,
       QueryAudit, HealthCheck, RuntimeOperation, Typed
  <2>2. QED  BY <2>1
<1>3. QED  BY <1>1, <1>2

\* A step of one request: it ends, arrives, or goes on; the others stay where they are.
LEMMA StepFrame ==
  ASSUME IInv, NEW q \in Request, Step(q)
  PROVE  /\ \A r \in Request \ {q} : at'[r] = at[r] /\ message'[r] = message[r]
         /\ \A r \in late' : r = q \/ r \in late
         /\ file.revocations \subseteq file'.revocations
         /\ file'.keys = file.keys \/ (Answer(q) /\ Quiet(q))
         /\ \/ at'[q] = "idle" /\ q \notin late'
            \/ \E m \in Message : Arrive(q, m)
            \/ /\ at[q] # "idle" /\ UNCHANGED <<message, late>>
               /\ \/ at'[q] \in {"writing", "done", "revoking"}
                  \/ at'[q] = "admitted" /\ Handle(q)
                  \/ at'[q] = "granted" /\ Grant(q)
                  \/ at'[q] = "handling" /\ StartHandler(q)
<1>1. Typed /\ message[q] \in AnyMessage /\ file \in File
  BY DEF IInv, Typed
<1>2. CASE \E m \in Message : Arrive(q, m)
  BY <1>1, <1>2 DEF Arrive, Turn, Typed
<1>3. CASE Handle(q)
  <2>1. Dispatch(q, message[q]) /\ UNCHANGED <<message, late>> /\ at[q] = "arrived"
    BY <1>3 DEF Handle
  <2>2. /\ file' \in { file, [file EXCEPT !.identities = @ \union {message[q].connector}] }
        /\ \E place \in {"writing", "done", "revoking", "admitted"} : at' = [at EXCEPT ![q] = place]
    BY <1>1, <2>1, DispatchFacts
  <2>3. file'.keys = file.keys /\ file'.revocations = file.revocations
    BY <1>1, <2>2 DEF File
  <2>4. QED  BY <1>1, <1>3, <2>1, <2>2, <2>3 DEF Typed
<1>4. CASE Grant(q) \/ StartHandler(q)
  BY <1>1, <1>4 DEF Grant, StartHandler, Turn, Typed
<1>5. CASE /\ Refuse(q) \/ Cached(q) \/ SaveRevocation(q) \/ Save(q) \/ HandlerReturns(q) \/ Answer(q)
           /\ Finish(q)
  <2>1. at'[q] = "idle" /\ late' = late \ {q}  BY <1>1, <1>5 DEF Finish, Turn, Typed
  <2>2. file'.keys = file.keys \/ (Answer(q) /\ Quiet(q))
    <3>1. CASE Answer(q)  BY <3>1 DEF Answer
    <3>2. CASE ~Answer(q)
      <4>1. CASE file' = file  BY <4>1
      <4>2. CASE SaveRevocation(q) /\ file' = [file EXCEPT !.revocations = @ \union {message[q].connector}]
        BY <1>1, <4>2 DEF File
      <4>3. QED
        BY <1>1, <1>5, <2>1, <3>2, <4>1, <4>2
        DEF Refuse, Cached, SaveRevocation, Save, HandlerReturns, Update, Turn, Typed
    <3>3. QED  BY <3>1, <3>2
  <2>3. file.revocations \subseteq file'.revocations
    <3>1. CASE file' = file  BY <3>1
    <3>2. CASE file' = [file EXCEPT !.keys[message[q].key] = ClaimOf(message[q])]
      BY <1>1, <3>2 DEF File
    <3>3. QED
      BY <1>1, <1>5, <2>1, <3>1, <3>2
      DEF Refuse, Cached, SaveRevocation, Save, HandlerReturns, Answer, Update, Turn, Typed
  <2>4. QED  BY <1>1, <1>5, <2>1, <2>2, <2>3, FinishFacts
<1>6. CASE (SaveRevocation(q) \/ Save(q) \/ HandlerReturns(q)) /\ ~Finish(q)
  <2>1. /\ \E place \in {"writing", "done"} : at' = [at EXCEPT ![q] = place]
        /\ at[q] # "idle" /\ UNCHANGED <<message, late>>
    BY <1>6 DEF SaveRevocation, Save, HandlerReturns, Turn
  <2>2. file'.keys = file.keys /\ file.revocations \subseteq file'.revocations
    BY <1>1, <1>6 DEF SaveRevocation, Save, HandlerReturns, Update, EventOf, File
  <2>3. QED  BY <1>1, <2>1, <2>2 DEF Typed
<1>7. Refuse(q) \/ Cached(q) \/ Answer(q) => Finish(q)  BY DEF Refuse, Cached, Answer
<1>8. QED  BY <1>2, <1>3, <1>4, <1>5, <1>6, <1>7 DEF Step

LEMMA StepKeepsOnTheWay ==
  ASSUME IInv, OnTheWay, NEW q \in Request, Step(q) PROVE OnTheWay'
<1> USE ControlPlaneAssumption
<1>1. Typed /\ message[q] \in AnyMessage  BY DEF IInv, Typed
<1>2. OperatorRevokes'
  <2>1. CASE q # Operator  BY <2>1, StepFrame DEF OnTheWay, OperatorRevokes
  <2>2. CASE q = Operator
    <3>1. ASSUME NEW m \in Message, Arrive(q, m) PROVE OperatorRevokes'
      BY <1>1, <2>2, <3>1 DEF Arrive, Typed, OperatorRevokes
    <3>2. QED  BY <2>2, <3>1, StepFrame DEF OnTheWay, OperatorRevokes
  <2>3. QED  BY <2>1, <2>2
<1>3. AdmittedAreFresh'
  <2> SUFFICES ASSUME NEW r \in Request, at'[r] \in {"admitted", "granted"}
               PROVE  /\ r # Operator
                      /\ message'[r].key # NoKey => file'.keys[message'[r].key] = NoClaim
    BY DEF AdmittedAreFresh
  <2>1. CASE r # q
    <3>1. at[r] \in {"admitted", "granted"} /\ message'[r] = message[r]  BY <2>1, StepFrame
    <3>2. r # Operator /\ (message[r].key # NoKey => file.keys[message[r].key] = NoClaim)
      BY <3>1 DEF OnTheWay, AdmittedAreFresh
    <3>3. CASE file'.keys = file.keys  BY <3>1, <3>2, <3>3
    <3>4. CASE Answer(q) /\ Quiet(q)
      <4>1. q = Operator  BY <2>1, <3>1, <3>2, <3>4 DEF Quiet, Service, Busy
      <4>2. message[q].key = NoKey
        BY <3>4, <4>1 DEF OnTheWay, OperatorRevokes, Answer
      <4>3. file' = file  BY <3>4, <4>2 DEF Answer
      <4>4. QED  BY <3>1, <3>2, <4>3
    <3>5. QED  BY <3>3, <3>4, StepFrame
  <2>2. CASE r = q
    <3>1. CASE at'[q] = "admitted" /\ Handle(q)
      <4>1. Dispatch(q, message[q]) /\ message' = message /\ at[q] = "arrived" /\ Fresh(message[q])
        BY <3>1 DEF Handle
      <4>2. q # Operator
        BY <1>1, <3>1, <4>1, OnlyUsableIsAdmitted DEF OnTheWay, OperatorRevokes
      <4>3. file'.keys = file.keys  BY <3>1, StepFrame, <4>1 DEF Answer
      <4>4. QED  BY <2>2, <4>1, <4>2, <4>3 DEF Fresh
    <3>2. CASE at'[q] = "granted" /\ Grant(q)
      BY <2>2, <3>2 DEF Grant, OnTheWay, AdmittedAreFresh
    <3>3. ASSUME NEW m \in Message, Arrive(q, m) PROVE FALSE
      BY <1>1, <2>2, <3>3 DEF Arrive, Turn, Typed
    <3>4. QED  BY <2>2, <3>1, <3>2, <3>3, StepFrame
  <2>3. QED  BY <2>1, <2>2
<1>4. LateAreBarred'
  <2> SUFFICES ASSUME NEW r \in late'
               PROVE  /\ r \in Request /\ message'[r].connector \in file'.revocations
                      /\ at'[r] \notin {"idle", "admitted", "granted", "handling"}
    BY DEF LateAreBarred
  <2>1. CASE r # q
    <3>1. r \in late  BY <2>1, StepFrame
    <3>2. QED  BY <2>1, <3>1, StepFrame DEF OnTheWay, LateAreBarred
  <2>2. CASE r = q
    <3>1. ASSUME NEW m \in Message, Arrive(q, m) PROVE m.connector \in file.revocations
      BY <2>2, <3>1 DEF Arrive, OnTheWay, LateAreBarred
    <3>2. CASE \E m \in Message : Arrive(q, m)
      BY <1>1, <2>2, <3>1, <3>2, StepFrame DEF Arrive, Turn, Typed
    <3>3. CASE ~\E m \in Message : Arrive(q, m)
      <4>1. at[q] # "idle" /\ UNCHANGED <<message, late>>  BY <2>2, <3>3, StepFrame
      <4>2. /\ message[q].connector \in file.revocations
            /\ at[q] \notin {"idle", "admitted", "granted", "handling"}
        BY <2>2, <4>1 DEF OnTheWay, LateAreBarred
      <4>3. ~Grant(q) /\ ~StartHandler(q)  BY <4>2 DEF Grant, StartHandler
      <4>4. ~(at'[q] = "admitted" /\ Handle(q))
        <5>1. SystemOf(message[q].connector).status # "ACTIVE"
          BY <4>2 DEF SystemOf, NoSystem, Revoked
        <5>2. QED  BY <1>1, <5>1, OnlyUsableIsAdmitted DEF Handle
      <4>5. QED  BY <2>2, <3>3, <4>1, <4>2, <4>3, <4>4, StepFrame
    <3>4. QED  BY <3>2, <3>3
  <2>3. QED  BY <2>1, <2>2
<1>5. QED  BY <1>2, <1>3, <1>4 DEF OnTheWay

LEMMA NextKeepsOnTheWay == IInv /\ OnTheWay /\ [Next]_vars => OnTheWay'
<1> SUFFICES ASSUME IInv, OnTheWay, [Next]_vars PROVE OnTheWay'  OBVIOUS
<1> USE DEF OnTheWay, OperatorRevokes, AdmittedAreFresh, LateAreBarred
<1>1. CASE UNCHANGED vars  BY <1>1 DEF vars
<1>2. ASSUME NEW r \in Request, Step(r) PROVE OnTheWay'  BY <1>2, StepKeepsOnTheWay
<1>3. CASE Crash
  BY <1>3, ControlPlaneAssumption DEF Crash, Service, IInv, Typed
<1>4. CASE Backup  BY <1>4 DEF Backup, history
<1>5. CASE Restore  BY <1>5, ControlPlaneAssumption DEF Restore
<1>6. QED  BY <1>1, <1>2, <1>3, <1>4, <1>5 DEF Next, Step

LEMMA OnTheWayAlways == Spec => [](IInv /\ OnTheWay)
<1>1. Init => OnTheWay
  BY ControlPlaneAssumption DEF Init, OnTheWay, OperatorRevokes, AdmittedAreFresh, LateAreBarred
<1>2. QED  BY <1>1, IInvAlways, NextKeepsOnTheWay, PTL DEF Spec

\* No handler starts for a key that has been answered: the answer is in the file, so the
\* repeat is served from it or refused, and no answer is saved while a request is between
\* the look-up and the start of its handler (handleIntegrationRequest).
THEOREM AnsweredKeysDoNoWork == Spec => AnsweredOnce
<1>1. ASSUME IInv, OnTheWay, [Next]_vars, NEW k \in Key, answers[k] # {} PROVE work'[k] = work[k]
  <2>1. file.keys[k] # NoClaim  BY <1>1 DEF IInv, AnswersAreClaims
  <2>2. ASSUME NEW r \in Request, StartHandler(r) PROVE work'[k] = work[k]
    <3>1. CASE UNCHANGED work  BY <3>1
    <3>2. CASE work' = [work EXCEPT ![message[r].key] = @ + 1] /\ message[r].key # NoKey
      <4>1. message[r].key # k
        BY <1>1, <2>1, <2>2, <3>2 DEF StartHandler, OnTheWay, AdmittedAreFresh
      <4>2. QED  BY <1>1, <3>2, <4>1 DEF IInv, Typed
    <3>3. QED  BY <2>2, <3>1, <3>2 DEF StartHandler
  <2>3. CASE UNCHANGED work  BY <2>3
  <2>4. work' = work \/ \E r \in Request : StartHandler(r)
    BY <1>1 DEF Next, vars, history, Arrive, Refuse, Cached, Handle, Grant, SaveRevocation, Save,
       HandlerReturns, Answer, Crash, Backup, Restore
  <2>5. QED  BY <2>2, <2>3, <2>4
<1>2. IInv /\ OnTheWay /\ [Next]_vars => [\A k \in Key : answers[k] # {} => work'[k] = work[k]]_vars
  BY <1>1
<1>3. QED  BY <1>2, OnTheWayAlways, PTL DEF Spec, AnsweredOnce

\* A request that arrives after a revocation was saved reaches no handler, whatever stale
\* copies earlier requests write over the revoked record, and although the operator's process
\* saves between any two reads of the boundary (RuntimeCommunicationBoundary.communicate).
THEOREM RevokedSystemsDoNoWork == Spec => []NoWorkAfterRevocation
<1>1. OnTheWay => NoWorkAfterRevocation  BY DEF OnTheWay, LateAreBarred, NoWorkAfterRevocation
<1>2. QED  BY <1>1, OnTheWayAlways, PTL
=============================================================================

--------------------------- MODULE ReliableDelivery ---------------------------
(* The durable outbox of the integration layer: workers of several processes *)
(* call deliver on records of one delivery file.  A call claims its record   *)
(* for a lease, runs the handler under a circuit breaker and a bulkhead, and *)
(* saves the outcome of every attempt over whatever the file then holds.     *)
(* Time is counted in ticks; the lease does not pay for the retry delays.    *)
EXTENDS Naturals, FiniteSets

CONSTANTS
  Delivery,     \* the records of the outbox
  Worker,       \* calls of deliver that may be in progress at a time
  Engine,       \* the processes, each with its circuit and its bulkhead
  EngineOf,     \* the process a call runs in
  MaxAttempts,  \* maximumAttempts of the policy
  LeaseTime,    \* length of a claim
  Threshold,    \* failures that open a circuit
  Cooldown,     \* time an open circuit refuses work
  Slots,        \* concurrent calls a bulkhead admits
  MaxReplays,   \* bound: replays of a record
  MaxFaults,    \* bound: crashes and failed saves
  Late          \* may a call outlive its lease?

ASSUME DeliveryAssumption ==
  /\ Delivery # {} /\ IsFiniteSet(Worker) /\ EngineOf \in [Worker -> Engine]
  /\ MaxAttempts \in Nat \ {0} /\ LeaseTime \in Nat \ {0}
  /\ Threshold \in Nat \ {0} /\ Cooldown \in Nat /\ Slots \in Nat \ {0}
  /\ MaxReplays \in Nat /\ MaxFaults \in Nat /\ Late \in BOOLEAN

VARIABLES
  record,   \* the delivery file
  at,       \* where a call is: idle, read, claimed, handling, answered
  item,     \* the record a call works on
  current,  \* the copy of the record a call holds
  circuit,  \* of each process
  busy,     \* calls the bulkhead of each process has admitted
  starts,   \* history: handlers started
  lost,     \* history: attempts whose outcome was not saved
  replays,  \* history: replays granted
  faults    \* crashes and failed saves so far

file == <<record, replays>>
calls == <<at, item, current, busy>>
history == <<starts, lost>>
vars == <<record, at, item, current, circuit, busy, starts, lost, replays, faults>>

Open == {"PENDING", "PROCESSING"}
Settled == {"DELIVERED", "DEAD_LETTER"}
DeliveryRecord == [state : {"NEW"} \union Open \union Settled, attempts : 0..MaxAttempts, lease : 0..LeaseTime]
NewRecord == [state |-> "NEW", attempts |-> 0, lease |-> 0]
Unset == CHOOSE d \in Delivery : TRUE
Closed == [failures |-> 0, open |-> FALSE, left |-> 0]

Init ==
  /\ record = [d \in Delivery |-> NewRecord]
  /\ at = [w \in Worker |-> "idle"]
  /\ item = [w \in Worker |-> Unset]
  /\ current = [w \in Worker |-> NewRecord]
  /\ circuit = [e \in Engine |-> Closed]
  /\ busy = [e \in Engine |-> 0]
  /\ starts = [d \in Delivery |-> 0]
  /\ lost = [d \in Delivery |-> 0]
  /\ replays = [d \in Delivery |-> 0]
  /\ faults = 0

(* ------------------------- circuit and bulkhead -------------------------- *)
Succeeding(c) == Closed
Failing(c) ==
  LET n == IF c.failures < Threshold THEN c.failures + 1 ELSE Threshold
  IN IF n = Threshold THEN [failures |-> n, open |-> TRUE, left |-> Cooldown]
     ELSE [c EXCEPT !.failures = n]
Refuses(c) == c.open /\ c.left > 0
Probed(c) == IF c.open /\ c.left = 0 THEN Closed ELSE c

Admit(e) == busy' = [busy EXCEPT ![e] = @ + 1]
Return(w) ==
  /\ at' = [at EXCEPT ![w] = "idle"]
  /\ item' = [item EXCEPT ![w] = Unset]
  /\ current' = [current EXCEPT ![w] = NewRecord]
Leave(w) == Return(w) /\ busy' = [busy EXCEPT ![EngineOf[w]] = @ - 1]

(* -------------------------------- deliver -------------------------------- *)
Enqueue(d) ==
  /\ record[d].state = "NEW"
  /\ record' = [record EXCEPT ![d].state = "PENDING"]
  /\ UNCHANGED <<at, item, current, circuit, busy, starts, lost, replays, faults>>

\* deliver reads the record first: a settled one is answered, or refused, at once.
Get(w, d) ==
  /\ at[w] = "idle" /\ record[d].state \in Open
  /\ at' = [at EXCEPT ![w] = "read"]
  /\ item' = [item EXCEPT ![w] = d]
  /\ UNCHANGED <<record, current, circuit, busy, starts, lost, replays, faults>>

\* Mutant: only pending records are taken.
ClaimablePending(r) == r.state = "PENDING"

Claimable(r) == r.state = "PENDING" \/ (r.state = "PROCESSING" /\ r.lease = 0)

\* claim is one update of the file; the bulkhead is asked only afterwards, and
\* a call it turns away leaves the record claimed.
Claim(w) ==
  LET d == item[w]
      claimed == [record[d] EXCEPT !.state = "PROCESSING", !.lease = LeaseTime] IN
  /\ at[w] = "read"
  /\ UNCHANGED <<circuit, starts, lost, replays, faults>>
  /\ \/ ~Claimable(record[d]) /\ Return(w) /\ UNCHANGED <<record, busy>>
     \/ /\ Claimable(record[d])
        /\ record' = [record EXCEPT ![d] = claimed]
        /\ \/ busy[EngineOf[w]] >= Slots /\ Return(w) /\ UNCHANGED busy
           \/ /\ busy[EngineOf[w]] < Slots
              /\ at' = [at EXCEPT ![w] = "claimed"]
              /\ current' = [current EXCEPT ![w] = claimed]
              /\ Admit(EngineOf[w]) /\ UNCHANGED item

\* The head of the retry loop: an open circuit ends the call, lease and all.
Attempt(w) ==
  LET e == EngineOf[w] IN
  /\ at[w] = "claimed"
  /\ circuit' = [circuit EXCEPT ![e] = Probed(@)]
  /\ UNCHANGED <<record, lost, replays, faults>>
  /\ \/ /\ Refuses(circuit[e]) /\ Leave(w) /\ UNCHANGED starts
     \/ /\ ~Refuses(circuit[e])
        /\ at' = [at EXCEPT ![w] = "handling"]
        /\ starts' = [starts EXCEPT ![item[w]] = @ + 1]
        /\ UNCHANGED <<item, current, busy>>

HandlerSucceeds(w) ==
  /\ at[w] = "handling"
  /\ at' = [at EXCEPT ![w] = "answered"]
  /\ UNCHANGED <<record, item, current, circuit, busy, starts, lost, replays, faults>>

SaveDelivered(w) ==
  /\ at[w] = "answered"
  /\ record' = [record EXCEPT ![item[w]] =
                 [state |-> "DELIVERED", attempts |-> current[w].attempts + 1, lease |-> 0]]
  /\ circuit' = [circuit EXCEPT ![EngineOf[w]] = Succeeding(@)]
  /\ Leave(w)
  /\ UNCHANGED <<starts, lost, replays, faults>>

\* Mutant: one attempt too many.
ExhaustedLate(n) == n > MaxAttempts
Exhausted(n) == n >= MaxAttempts

\* The catch block of an attempt: its outcome is saved over what the file holds.
SaveFailure(w, terminal) ==
  LET n == current[w].attempts + 1
      failed == [state |-> IF terminal THEN "DEAD_LETTER" ELSE "PROCESSING", attempts |-> n,
                 lease |-> IF terminal THEN 0 ELSE current[w].lease] IN
  /\ Exhausted(n) => terminal
  /\ record' = [record EXCEPT ![item[w]] = failed]
  /\ \/ terminal /\ Leave(w)
     \/ /\ ~terminal
        /\ at' = [at EXCEPT ![w] = "claimed"]
        /\ current' = [current EXCEPT ![w] = failed]
        /\ UNCHANGED <<item, busy>>

\* The handler rejected, or its time ran out (it may have done its work).
HandlerFails(w) ==
  /\ at[w] = "handling"
  /\ circuit' = [circuit EXCEPT ![EngineOf[w]] = Failing(@)]
  /\ \E terminal \in BOOLEAN : SaveFailure(w, terminal)
  /\ UNCHANGED <<starts, lost, replays, faults>>

\* The save of a success throws inside the try block: it counts as a failure.
DeliveredUnsaved(w) ==
  /\ at[w] = "answered" /\ faults < MaxFaults
  /\ faults' = faults + 1
  /\ circuit' = [circuit EXCEPT ![EngineOf[w]] = Failing(Succeeding(@))]
  /\ \E terminal \in BOOLEAN : SaveFailure(w, terminal)
  /\ UNCHANGED <<starts, lost, replays>>

\* The save of a failure throws: the call ends, the record stays claimed.
FailureUnsaved(w) ==
  /\ at[w] = "handling" /\ faults < MaxFaults
  /\ faults' = faults + 1
  /\ circuit' = [circuit EXCEPT ![EngineOf[w]] = Failing(@)]
  /\ lost' = [lost EXCEPT ![item[w]] = @ + 1]
  /\ Leave(w)
  /\ UNCHANGED <<record, starts, replays>>

(* ------------------------- replay, crashes and time ---------------------- *)
\* Mutant: whatever is settled may be replayed.
ReplayableSettled(d) == record[d].state \in Settled
Replayable(d) == record[d].state = "DEAD_LETTER"

\* replay reads and saves without an await; the operator is one process.
Replay(d) ==
  /\ Replayable(d) /\ replays[d] < MaxReplays
  /\ record' = [record EXCEPT ![d] = [@ EXCEPT !.state = "PENDING", !.attempts = 0]]
  /\ replays' = [replays EXCEPT ![d] = @ + 1]
  /\ UNCHANGED <<at, item, current, circuit, busy, starts, lost, faults>>

Health(e) ==
  /\ circuit[e].open /\ circuit[e].left = 0
  /\ circuit' = [circuit EXCEPT ![e] = Probed(@)]
  /\ UNCHANGED <<file, calls, history, faults>>

Working(w) == at[w] \in {"claimed", "handling", "answered"}
Started(w) == at[w] \in {"handling", "answered"}

Crash(e) ==
  LET cut == {w \in Worker : EngineOf[w] = e} IN
  /\ faults < MaxFaults /\ \E w \in cut : at[w] # "idle"
  /\ faults' = faults + 1
  /\ at' = [w \in Worker |-> IF w \in cut THEN "idle" ELSE at[w]]
  /\ item' = [w \in Worker |-> IF w \in cut THEN Unset ELSE item[w]]
  /\ current' = [w \in Worker |-> IF w \in cut THEN NewRecord ELSE current[w]]
  /\ circuit' = [circuit EXCEPT ![e] = Closed]
  /\ busy' = [busy EXCEPT ![e] = 0]
  /\ lost' = [d \in Delivery |-> lost[d] + Cardinality({w \in cut : Started(w) /\ item[w] = d})]
  /\ UNCHANGED <<record, starts, replays>>

Less(n) == IF n > 0 THEN n - 1 ELSE 0

Tick ==
  /\ ~Late => \A w \in Worker : Working(w) => current[w].lease > 1
  /\ \/ \E d \in Delivery : record[d].lease > 0
     \/ \E e \in Engine : circuit[e].left > 0
  /\ record' = [d \in Delivery |-> [record[d] EXCEPT !.lease = Less(@)]]
  /\ current' = [w \in Worker |-> [current[w] EXCEPT !.lease = Less(@)]]
  /\ circuit' = [e \in Engine |-> [circuit[e] EXCEPT !.left = Less(@)]]
  /\ UNCHANGED <<at, item, busy, history, replays, faults>>

Step(w) ==
  \/ Claim(w) \/ Attempt(w) \/ HandlerSucceeds(w) \/ SaveDelivered(w) \/ HandlerFails(w)
  \/ DeliveredUnsaved(w) \/ FailureUnsaved(w)

Next ==
  \/ \E d \in Delivery : Enqueue(d) \/ Replay(d)
  \/ \E w \in Worker, d \in Delivery : Get(w, d)
  \/ \E w \in Worker : Step(w)
  \/ \E e \in Engine : Health(e) \/ Crash(e)
  \/ Tick

Spec == Init /\ [][Next]_vars

(* ------------------------------ properties ------------------------------- *)
TypeOK ==
  /\ record \in [Delivery -> DeliveryRecord] /\ current \in [Worker -> DeliveryRecord]
  /\ at \in [Worker -> {"idle", "read", "claimed", "handling", "answered"}]
  /\ item \in [Worker -> Delivery]
  /\ circuit \in [Engine -> [failures : 0..Threshold, open : BOOLEAN, left : 0..Cooldown]]
  /\ busy \in [Engine -> 0..Slots]
  /\ starts \in [Delivery -> Nat] /\ lost \in [Delivery -> Nat]
  /\ replays \in [Delivery -> 0..MaxReplays] /\ faults \in 0..MaxFaults

\* While no call outlives its lease, no two calls work on one record, and the
\* file holds exactly what the call working on it remembers, across crashes,
\* failed saves, full bulkheads and open circuits (deliver, claim).
ClaimHolds ==
  \A w \in Worker : Working(w) =>
    /\ record[item[w]] = current[w]
    /\ \A v \in Worker \ {w} : Working(v) => item[v] # item[w]

\* A record's handler is started at most maximumAttempts times for every grant,
\* the enqueueing and each replay, but for attempts whose outcome a crash or a
\* failed save kept out of the file (deliver's loop, replay's reset).
AttemptsBounded ==
  \A d \in Delivery : starts[d] <= MaxAttempts * (replays[d] + 1) + lost[d]

Box(state) == IF state \in Open THEN "QUEUED" ELSE state
Promise == INSTANCE Outbox WITH box <- [d \in Delivery |-> Box(record[d].state)]

\* The engine, its file and its crashes implement the outbox's promise: what is
\* delivered or dead stays so, and only a replay brings a dead letter back.
ImplementsOutbox == Promise!Spec

(* A process runs; a handler answers or times out; the clock advances; and    *)
(* whoever queued a record keeps calling deliver on it, which the engine      *)
(* itself never does.                                                         *)
FairSpec ==
  /\ Spec /\ WF_vars(Tick)
  /\ \A w \in Worker : WF_vars(Claim(w) \/ Attempt(w) \/ HandlerFails(w) \/ SaveDelivered(w))
  /\ \A d \in Delivery : SF_vars(\E w \in Worker : Get(w, d))

\* A queued record is settled in the end although workers die with its claim,
\* saves fail, the bulkhead turns calls away and the circuit opens.
Settles == \A d \in Delivery : record[d].state \in Open ~> record[d].state \in Settled
=============================================================================

----------------------- MODULE ReliableDeliveryProofs -----------------------
(* While no call outlives its lease: the claims of the delivery file exclude *)
(* one another, attempts are bounded, and the engine implements the outbox.  *)
EXTENDS ReliableDelivery, FiniteSetTheorems, TLAPS

\* A working call holds a live claim on a record with attempts left.
Held(w) ==
  /\ record[item[w]] = current[w]
  /\ current[w].state = "PROCESSING"
  /\ current[w].lease > 0
  /\ \A v \in Worker \ {w} : Working(v) => item[v] # item[w]

Claims == \A w \in Worker : Working(w) => Held(w)

\* A record that may be claimed has an attempt left.
Unspent == \A d \in Delivery : record[d].state \notin Settled => record[d].attempts + 1 <= MaxAttempts

\* What is known of the variables the claims depend on.
Typed ==
  /\ record \in [Delivery -> DeliveryRecord]
  /\ current \in [Worker -> DeliveryRecord]
  /\ at \in [Worker -> {"idle", "read", "claimed", "handling", "answered"}]
  /\ item \in [Worker -> Delivery]
  /\ starts \in [Delivery -> Nat]
  /\ lost \in [Delivery -> Nat]
  /\ replays \in [Delivery -> Nat]

\* Attempts started and not yet counted in the file.
Pending(d) == IF \E w \in Worker : Started(w) /\ item[w] = d THEN 1 ELSE 0

Counted ==
  \A d \in Delivery :
    starts[d] <= MaxAttempts * replays[d] + record[d].attempts + lost[d] + Pending(d)

\* The inductive invariant.
IInv == Typed /\ Claims /\ Unspent /\ Counted

Quiet == record' = record /\ at' = at /\ item' = item /\ current' = current

LEMMA UnsetIsDelivery == Unset \in Delivery
BY DeliveryAssumption DEF Unset

LEMMA NewRecordType == NewRecord \in DeliveryRecord
BY DeliveryAssumption DEF NewRecord, DeliveryRecord

\* The three ways a record is rewritten field by field.
LEMMA Rewritten ==
  ASSUME NEW r \in DeliveryRecord
  PROVE  /\ [r EXCEPT !.state = "PROCESSING", !.lease = LeaseTime] \in DeliveryRecord
         /\ [r EXCEPT !.state = "PENDING", !.attempts = 0] \in DeliveryRecord
         /\ [r EXCEPT !.lease = Less(@)] \in DeliveryRecord
<1> DEFINE States == {"NEW", "PENDING", "PROCESSING", "DELIVERED", "DEAD_LETTER"}
<1>1. DeliveryRecord = [state : States, attempts : 0..MaxAttempts, lease : 0..LeaseTime]
  BY Zenon DEF DeliveryRecord, Open, Settled
<1>2. 0 \in 0..MaxAttempts /\ LeaseTime \in 0..LeaseTime /\ \A n \in 0..LeaseTime : Less(n) \in 0..LeaseTime
  BY DeliveryAssumption DEF Less
<1>3. r.lease \in 0..LeaseTime
  BY <1>1
<1>4. Less(r.lease) \in 0..LeaseTime
  BY <1>2, <1>3
<1> HIDE DEF States
<1>5. "PROCESSING" \in States /\ "PENDING" \in States
  BY DEF States
<1>6. [r EXCEPT !.state = "PROCESSING", !.lease = LeaseTime] \in DeliveryRecord
  BY <1>1, <1>2, <1>5
<1>7. [r EXCEPT !.state = "PENDING", !.attempts = 0] \in DeliveryRecord
  BY <1>1, <1>2, <1>5
<1>8. [r EXCEPT !.lease = Less(@)] \in DeliveryRecord
  BY <1>1, <1>4
<1> QED BY <1>6, <1>7, <1>8

\* What a worker's return does to the calls.
LEMMA ReturnTyped ==
  ASSUME Typed, NEW w \in Worker, Return(w)
  PROVE  /\ at' \in [Worker -> {"idle", "read", "claimed", "handling", "answered"}]
         /\ item' \in [Worker -> Delivery]
         /\ current' \in [Worker -> DeliveryRecord]
BY UnsetIsDelivery, NewRecordType DEF Return, Typed

LEMMA CutCount ==
  ASSUME Typed, NEW e \in Engine, NEW d \in Delivery
  PROVE  LET S == {w \in {v \in Worker : EngineOf[v] = e} : Started(w) /\ item[w] = d}
         IN Cardinality(S) \in Nat /\ (S # {} => Cardinality(S) >= 1)
<1> DEFINE S == {w \in {v \in Worker : EngineOf[v] = e} : Started(w) /\ item[w] = d}
<1>1. IsFiniteSet(S)
  BY FS_Subset, DeliveryAssumption
<1>2. Cardinality(S) \in Nat
  BY <1>1, FS_CardinalityType
<1>3. S # {} => Cardinality(S) # 0
  BY <1>1, FS_EmptySet
<1> QED BY <1>2, <1>3

LEMMA WorkingAttempts ==
  ASSUME Typed, Claims, Unspent, NEW w \in Worker, Working(w)
  PROVE  /\ current[w].attempts \in 0..MaxAttempts /\ current[w].attempts + 1 \in 0..MaxAttempts
         /\ current[w].lease \in 0..LeaseTime /\ 0 \in 0..LeaseTime
<1>1. current[w] \in DeliveryRecord /\ current[w].state \notin Settled
  BY DEF Typed, Claims, Held, Settled
<1>2. current[w].attempts + 1 <= MaxAttempts
  BY <1>1 DEF Typed, Claims, Held, Unspent
<1> QED BY <1>1, <1>2, DeliveryAssumption DEF DeliveryRecord

LEMMA TypedStep ==
  ASSUME Typed, Claims, Unspent, [Next]_vars
  PROVE  Typed'
<1> USE DEF Typed
<1>1. CASE UNCHANGED vars
  BY <1>1 DEF vars
<1>2. ASSUME NEW d \in Delivery, Enqueue(d) PROVE Typed'
  BY <1>2 DEF Enqueue, DeliveryRecord, Open, Settled
<1>3. ASSUME NEW d \in Delivery, Replay(d) PROVE Typed'
  <2>1. [record[d] EXCEPT !.state = "PENDING", !.attempts = 0] \in DeliveryRecord
    BY Rewritten
  <2>2. UNCHANGED <<at, item, current, starts, lost>> /\ replays' = [replays EXCEPT ![d] = @ + 1]
        /\ record' = [record EXCEPT ![d] = [record[d] EXCEPT !.state = "PENDING", !.attempts = 0]]
    BY <1>3 DEF Replay
  <2> QED BY <2>1, <2>2
<1>4. ASSUME NEW w \in Worker, NEW d \in Delivery, Get(w, d) PROVE Typed'
  BY <1>4 DEF Get
<1>5. ASSUME NEW w \in Worker, Claim(w) PROVE Typed'
  <2> DEFINE claimed == [record[item[w]] EXCEPT !.state = "PROCESSING", !.lease = LeaseTime]
  <2>1. claimed \in DeliveryRecord
    BY Rewritten
  <2>2. UNCHANGED <<starts, lost, replays>> /\ (record' = record \/ record' = [record EXCEPT ![item[w]] = claimed])
    BY <1>5 DEF Claim
  <2>3. Return(w) \/ (item' = item /\ at' = [at EXCEPT ![w] = "claimed"] /\ current' = [current EXCEPT ![w] = claimed])
    BY <1>5 DEF Claim
  <2>4. CASE Return(w)
    BY <2>1, <2>2, <2>4, ReturnTyped
  <2>5. CASE item' = item /\ at' = [at EXCEPT ![w] = "claimed"] /\ current' = [current EXCEPT ![w] = claimed]
    BY <2>1, <2>2, <2>5
  <2> QED BY <2>3, <2>4, <2>5
<1>6. ASSUME NEW w \in Worker, Attempt(w) PROVE Typed'
  <2>1. CASE Leave(w) /\ UNCHANGED starts
    BY <1>6, <2>1, ReturnTyped DEF Attempt, Leave
  <2>2. CASE ~(Leave(w) /\ UNCHANGED starts)
    BY <1>6, <2>2 DEF Attempt
  <2> QED BY <2>1, <2>2
<1>7. ASSUME NEW w \in Worker, HandlerSucceeds(w) PROVE Typed'
  BY <1>7 DEF HandlerSucceeds
<1>8. ASSUME NEW w \in Worker, SaveDelivered(w) PROVE Typed'
  <2>1. [state |-> "DELIVERED", attempts |-> current[w].attempts + 1, lease |-> 0] \in DeliveryRecord
    BY <1>8, WorkingAttempts DEF DeliveryRecord, Open, Settled, SaveDelivered, Working
  <2> QED BY <1>8, <2>1, ReturnTyped DEF SaveDelivered, Leave
<1>9. ASSUME NEW w \in Worker, NEW t \in BOOLEAN, SaveFailure(w, t), Working(w),
             UNCHANGED <<starts, replays>>, lost' \in [Delivery -> Nat]
      PROVE  Typed'
  <2> DEFINE failed == [state |-> IF t THEN "DEAD_LETTER" ELSE "PROCESSING", attempts |-> current[w].attempts + 1,
                        lease |-> IF t THEN 0 ELSE current[w].lease]
  <2>1. failed \in DeliveryRecord
    BY <1>9, WorkingAttempts DEF DeliveryRecord, Open, Settled
  <2>2. record' = [record EXCEPT ![item[w]] = failed]
    BY <1>9 DEF SaveFailure
  <2>3. CASE Leave(w)
    BY <1>9, <2>1, <2>2, <2>3, ReturnTyped DEF Leave
  <2>4. CASE at' = [at EXCEPT ![w] = "claimed"] /\ current' = [current EXCEPT ![w] = failed] /\ item' = item
    BY <1>9, <2>1, <2>2, <2>4
  <2> QED BY <1>9, <2>3, <2>4 DEF SaveFailure
<1>10. ASSUME NEW w \in Worker, HandlerFails(w) PROVE Typed'
  BY <1>9, <1>10 DEF HandlerFails, Working
<1>11. ASSUME NEW w \in Worker, DeliveredUnsaved(w) PROVE Typed'
  BY <1>9, <1>11 DEF DeliveredUnsaved, Working
<1>12. ASSUME NEW w \in Worker, FailureUnsaved(w) PROVE Typed'
  BY <1>12, ReturnTyped DEF FailureUnsaved, Leave
<1>13. ASSUME NEW e \in Engine, Health(e) PROVE Typed'
  BY <1>13 DEF Health, file, calls, history
<1>14. ASSUME NEW e \in Engine, Crash(e) PROVE Typed'
  BY <1>14, CutCount, UnsetIsDelivery, NewRecordType DEF Crash
<1>15. ASSUME Tick PROVE Typed'
  <2>1. \A r \in DeliveryRecord : [r EXCEPT !.lease = Less(@)] \in DeliveryRecord
    BY Rewritten
  <2> QED BY <1>15, <2>1 DEF Tick, history
<1> QED
  BY <1>1, <1>2, <1>3, <1>4, <1>5, <1>6, <1>7, <1>8, <1>10, <1>11, <1>12, <1>13, <1>14, <1>15, Zenon DEF Next, Step

\* A worker's step leaves every other call, and its record, alone.
LEMMA OthersKept ==
  ASSUME Typed, Claims, NEW w \in Worker, NEW r,
         \A v \in Worker \ {w} : Working(v) => item[v] # item[w],
         record' = [record EXCEPT ![item[w]] = r] \/ record' = record,
         \A v \in Worker \ {w} : at'[v] = at[v] /\ item'[v] = item[v] /\ current'[v] = current[v],
         Working(w)' => item'[w] = item[w] /\ record'[item[w]] = current'[w]
                        /\ current'[w].state = "PROCESSING" /\ current'[w].lease > 0
  PROVE  Claims'
<1> SUFFICES ASSUME NEW u \in Worker, Working(u)' PROVE Held(u)'
  BY DEF Claims
<1>1. CASE u = w
  BY <1>1 DEF Held, Working, Typed
<1>2. CASE u # w
  <2>1. Working(u) /\ Held(u) /\ item[u] # item[w]
    BY <1>2 DEF Claims, Working
  <2>2. record'[item'[u]] = current'[u] /\ current'[u].state = "PROCESSING" /\ current'[u].lease > 0
    BY <1>2, <2>1 DEF Held, Typed
  <2>3. ASSUME NEW v \in Worker \ {u}, Working(v)' PROVE item'[v] # item'[u]
    BY <1>2, <2>1, <2>3 DEF Held, Working
  <2> QED BY <2>2, <2>3 DEF Held
<1> QED BY <1>1, <1>2

LEMMA ClaimsStep ==
  ASSUME Typed, Claims, Unspent, ~Late, [Next]_vars
  PROVE  Claims'
<1>a. ASSUME NEW w \in Worker, Working(w)
      PROVE  /\ \A v \in Worker \ {w} : Working(v) => item[v] # item[w]
             /\ record[item[w]].state = "PROCESSING" /\ record[item[w]].lease > 0
  BY <1>a DEF Claims, Held
<1>1. CASE UNCHANGED vars
  BY <1>1 DEF vars, Claims, Held, Working
<1>2. ASSUME NEW d \in Delivery, Enqueue(d) PROVE Claims'
  <2>1. \A w \in Worker : Working(w) => item[w] # d
    BY <1>a, <1>2 DEF Enqueue
  <2> QED BY <1>2, <2>1 DEF Enqueue, Claims, Held, Working, Typed
<1>3. ASSUME NEW d \in Delivery, Replay(d) PROVE Claims'
  <2>1. \A w \in Worker : Working(w) => item[w] # d
    BY <1>a, <1>3 DEF Replay, Replayable
  <2> QED BY <1>3, <2>1 DEF Replay, Claims, Held, Working, Typed
<1>4. ASSUME NEW w \in Worker, NEW d \in Delivery, Get(w, d) PROVE Claims'
  BY <1>4 DEF Get, Claims, Held, Working, Typed
<1>5. ASSUME NEW w \in Worker, Claim(w) PROVE Claims'
  <2> DEFINE claimed == [record[item[w]] EXCEPT !.state = "PROCESSING", !.lease = LeaseTime]
  <2>1. CASE ~Claimable(record[item[w]])
    <3>1. Return(w) /\ record' = record
      BY <1>5, <2>1 DEF Claim
    <3> QED BY <3>1 DEF Return, Claims, Held, Working, Typed
  <2>2. CASE Claimable(record[item[w]])
    <3>1. \A v \in Worker \ {w} : Working(v) => item[v] # item[w]
      BY <1>a, <2>2 DEF Claimable
    <3>2. record' = [record EXCEPT ![item[w]] = claimed] /\ ~Working(w)
      BY <1>5, <2>2 DEF Claim, Working
    <3>3. CASE Return(w)
      BY <3>1, <3>2, <3>3, OthersKept DEF Return, Working, Typed
    <3>4. CASE at' = [at EXCEPT ![w] = "claimed"] /\ current' = [current EXCEPT ![w] = claimed] /\ item' = item
      <4>1. claimed.state = "PROCESSING" /\ claimed.lease > 0
        BY DeliveryAssumption DEF Typed, DeliveryRecord
      <4> QED BY <3>1, <3>2, <3>4, <4>1, OthersKept DEF Typed
    <3> QED BY <1>5, <2>2, <3>3, <3>4 DEF Claim
  <2> QED BY <2>1, <2>2
<1>6. ASSUME NEW w \in Worker, Attempt(w) PROVE Claims'
  <2>1. CASE Leave(w)
    BY <1>6, <2>1 DEF Attempt, Leave, Return, Claims, Held, Working, Typed
  <2>2. CASE ~Leave(w)
    BY <1>6, <2>2 DEF Attempt, Claims, Held, Working, Typed
  <2> QED BY <2>1, <2>2
<1>7. ASSUME NEW w \in Worker, HandlerSucceeds(w) PROVE Claims'
  BY <1>7 DEF HandlerSucceeds, Claims, Held, Working, Typed
<1>8. ASSUME NEW w \in Worker, SaveDelivered(w) PROVE Claims'
  <2>1. Working(w)
    BY <1>8 DEF SaveDelivered, Working
  <2> QED BY <1>8, <1>a, <2>1, OthersKept DEF SaveDelivered, Leave, Return, Working, Typed
<1>9. ASSUME NEW w \in Worker, NEW t \in BOOLEAN, SaveFailure(w, t), Working(w)
      PROVE  Claims'
  <2> DEFINE failed == [state |-> IF t THEN "DEAD_LETTER" ELSE "PROCESSING", attempts |-> current[w].attempts + 1,
                        lease |-> IF t THEN 0 ELSE current[w].lease]
  <2>1. record' = [record EXCEPT ![item[w]] = failed]
    BY <1>9 DEF SaveFailure
  <2>2. CASE t
    <3>1. Leave(w)
      BY <1>9, <2>2 DEF SaveFailure
    <3> QED BY <1>9, <1>a, <2>1, <3>1, OthersKept DEF Leave, Return, Working, Typed
  <2>3. CASE ~t
    <3>1. at' = [at EXCEPT ![w] = "claimed"] /\ current' = [current EXCEPT ![w] = failed] /\ item' = item
      BY <1>9, <2>3 DEF SaveFailure
    <3>2. failed.state = "PROCESSING" /\ failed.lease > 0
      BY <1>9, <2>3 DEF Claims, Held
    <3> QED BY <1>9, <1>a, <2>1, <3>1, <3>2, OthersKept DEF Typed
  <2> QED BY <2>2, <2>3
<1>10. ASSUME NEW w \in Worker, HandlerFails(w) PROVE Claims'
  BY <1>9, <1>10 DEF HandlerFails, Working
<1>11. ASSUME NEW w \in Worker, DeliveredUnsaved(w) PROVE Claims'
  BY <1>9, <1>11 DEF DeliveredUnsaved, Working
<1>12. ASSUME NEW w \in Worker, FailureUnsaved(w) PROVE Claims'
  BY <1>12 DEF FailureUnsaved, Leave, Return, Claims, Held, Working, Typed
<1>13. ASSUME NEW e \in Engine, Health(e) PROVE Claims'
  BY <1>13 DEF Health, file, calls, Claims, Held, Working
<1>14. ASSUME NEW e \in Engine, Crash(e) PROVE Claims'
  <2>1. \A w \in Worker : Working(w)' => Working(w) /\ item'[w] = item[w] /\ current'[w] = current[w]
    BY <1>14 DEF Crash, Working, Typed
  <2> QED BY <1>14, <2>1 DEF Crash, Claims, Held
<1>15. ASSUME Tick PROVE Claims'
  <2>1. \A w \in Worker : Working(w) => current[w].lease > 1
    BY <1>15 DEF Tick
  <2>2. \A w \in Worker : Working(w)' <=> Working(w)
    BY <1>15 DEF Tick, Working
  <2>3. ASSUME NEW w \in Worker, Working(w)
        PROVE  current'[w].state = "PROCESSING" /\ current'[w].lease > 0 /\ record'[item[w]] = current'[w]
    <3>1. current[w] \in DeliveryRecord /\ record[item[w]] = current[w] /\ current[w].state = "PROCESSING"
      BY <2>3 DEF Claims, Held, Typed
    <3>2. current'[w] = [current[w] EXCEPT !.lease = Less(@)] /\ record'[item[w]] = [current[w] EXCEPT !.lease = Less(@)]
      BY <1>15, <3>1 DEF Tick, Typed
    <3>3. Less(current[w].lease) > 0
      BY <2>1, <2>3, <3>1 DEF Less, DeliveryRecord
    <3> QED BY <3>1, <3>2, <3>3 DEF DeliveryRecord
  <2>4. item' = item
    BY <1>15 DEF Tick
  <2> QED BY <2>2, <2>3, <2>4 DEF Claims, Held
<1> QED
  BY <1>1, <1>2, <1>3, <1>4, <1>5, <1>6, <1>7, <1>8, <1>10, <1>11, <1>12, <1>13, <1>14, <1>15, Zenon DEF Next, Step

LEMMA UnspentStep ==
  ASSUME Typed, Claims, Unspent, [Next]_vars
  PROVE  Unspent'
<1> USE DEF Unspent, Settled
<1>r. \A r \in DeliveryRecord : r.attempts \in Nat /\ 0 + 1 <= MaxAttempts
  BY DeliveryAssumption DEF DeliveryRecord
<1>1. CASE record' = record
  BY <1>1
<1>2. ASSUME NEW d \in Delivery, Enqueue(d) PROVE Unspent'
  BY <1>2 DEF Enqueue, Typed
<1>3. ASSUME NEW d \in Delivery, Replay(d) PROVE Unspent'
  BY <1>3, <1>r DEF Replay, Typed, DeliveryRecord
<1>4. ASSUME NEW w \in Worker, Claim(w), record' # record PROVE Unspent'
  <2> DEFINE claimed == [record[item[w]] EXCEPT !.state = "PROCESSING", !.lease = LeaseTime]
  <2>1. record' = [record EXCEPT ![item[w]] = claimed] /\ record[item[w]].state \notin Settled
    BY <1>4 DEF Claim, Claimable
  <2>2. claimed.attempts = record[item[w]].attempts
    BY DEF Typed, DeliveryRecord
  <2> HIDE DEF claimed
  <2>3. item[w] \in Delivery /\ claimed.attempts + 1 <= MaxAttempts
    BY <2>1, <2>2 DEF Typed
  <2> QED BY <2>1, <2>3 DEF Typed
<1>5. ASSUME NEW w \in Worker, SaveDelivered(w) PROVE Unspent'
  BY <1>5 DEF SaveDelivered, Typed
<1>6. ASSUME NEW w \in Worker, NEW t \in BOOLEAN, SaveFailure(w, t), Working(w) PROVE Unspent'
  <2>1. current[w].attempts + 1 \in 0..MaxAttempts
    BY <1>6, WorkingAttempts
  <2>2. ~t => current[w].attempts + 1 + 1 <= MaxAttempts
    BY <1>6, <2>1, DeliveryAssumption DEF SaveFailure, Exhausted
  <2> DEFINE failed == [state |-> IF t THEN "DEAD_LETTER" ELSE "PROCESSING", attempts |-> current[w].attempts + 1,
                        lease |-> IF t THEN 0 ELSE current[w].lease]
  <2>3. record' = [record EXCEPT ![item[w]] = failed]
    BY <1>6 DEF SaveFailure
  <2>4. failed.state \notin Settled => failed.attempts + 1 <= MaxAttempts
    BY <2>2
  <2> HIDE DEF failed
  <2> QED BY <2>3, <2>4 DEF Typed
<1>7. ASSUME NEW w \in Worker, HandlerFails(w) PROVE Unspent'
  BY <1>6, <1>7 DEF HandlerFails, Working
<1>8. ASSUME NEW w \in Worker, DeliveredUnsaved(w) PROVE Unspent'
  BY <1>6, <1>8 DEF DeliveredUnsaved, Working
<1>9. ASSUME Tick PROVE Unspent'
  <2>1. ASSUME NEW d \in Delivery
        PROVE  record'[d].state = record[d].state /\ record'[d].attempts = record[d].attempts
    <3>1. record[d] \in DeliveryRecord /\ record'[d] = [record[d] EXCEPT !.lease = Less(@)]
      BY <1>9 DEF Tick, Typed
    <3> QED BY <3>1 DEF DeliveryRecord
  <2> QED BY <2>1
<1>10. ASSUME NEW w \in Worker, NEW d \in Delivery, Get(w, d) PROVE record' = record
  BY <1>10 DEF Get
<1>11. ASSUME NEW w \in Worker, Attempt(w) \/ HandlerSucceeds(w) \/ FailureUnsaved(w) PROVE record' = record
  BY <1>11 DEF Attempt, HandlerSucceeds, FailureUnsaved
<1>12. ASSUME NEW e \in Engine, Health(e) \/ Crash(e) PROVE record' = record
  BY <1>12 DEF Health, Crash, file
<1>13. CASE UNCHANGED vars
  BY <1>13, <1>1 DEF vars
<1>14. ASSUME NEW w \in Worker, Step(w) PROVE Unspent'
  BY <1>1, <1>4, <1>5, <1>7, <1>8, <1>11, <1>14, Zenon DEF Step
<1> QED
  BY <1>1, <1>2, <1>3, <1>9, <1>10, <1>12, <1>13, <1>14, Zenon DEF Next

\* Pending(d) after a step, from what the step does to the calls.
LEMMA PendingKept ==
  ASSUME Typed, NEW d \in Delivery, NEW w \in Worker,
         \A v \in Worker \ {w} : at'[v] = at[v] /\ item'[v] = item[v],
         Started(w) /\ item[w] = d <=> (Started(w) /\ item[w] = d)'
  PROVE  Pending(d)' = Pending(d)
<1>1. \A v \in Worker : (Started(v) /\ item[v] = d) <=> (Started(v) /\ item[v] = d)'
  BY DEF Started
<1> QED BY <1>1 DEF Pending

LEMMA PendingType == \A d \in Delivery : Pending(d) \in {0, 1}
BY DEF Pending

LEMMA CountedStep ==
  ASSUME Typed, Typed', Claims, Unspent, Counted, [Next]_vars
  PROVE  Counted'
<1>p. \A d \in Delivery : Pending(d) \in {0, 1} /\ Pending(d)' \in {0, 1}
  BY DEF Pending
<1>n. \A d \in Delivery : /\ starts[d] \in Nat /\ lost[d] \in Nat /\ replays[d] \in Nat
                          /\ record[d].attempts \in 0..MaxAttempts /\ MaxAttempts \in Nat
                          /\ MaxAttempts * replays[d] \in Nat
                          /\ MaxAttempts * (replays[d] + 1) = MaxAttempts * replays[d] + MaxAttempts
  BY DeliveryAssumption DEF Typed, DeliveryRecord
<1>s. ASSUME NEW w \in Worker, Started(w)
      PROVE  Pending(item[w]) = 1 /\ Working(w)
  BY <1>s DEF Pending, Started, Working
<1>o. ASSUME NEW w \in Worker, Started(w), at'[w] \notin {"handling", "answered"},
             \A v \in Worker \ {w} : at'[v] = at[v] /\ item'[v] = item[v],
             NEW d \in Delivery, d = item[w]
      PROVE  Pending(d)' = 0
  <2>1. \A v \in Worker \ {w} : Started(v) => item[v] # d
    BY <1>o, <1>s DEF Claims, Held, Started, Working
  <2>2. ASSUME NEW v \in Worker PROVE ~(Started(v) /\ item[v] = d)'
    <3>1. CASE v = w
      BY <1>o, <3>1 DEF Started
    <3>2. CASE v # w
      BY <1>o, <2>1, <3>2 DEF Started
    <3> QED BY <3>1, <3>2
  <2> QED BY <2>2 DEF Pending
<1>1. CASE UNCHANGED vars
  BY <1>1 DEF vars, Counted, Pending, Started
<1>2. ASSUME NEW d \in Delivery, Enqueue(d) PROVE Counted'
  BY <1>2 DEF Enqueue, Counted, Pending, Started, Typed
<1>3. ASSUME NEW d \in Delivery, Replay(d) PROVE Counted'
  <2>1. Pending(d) = 0
    BY <1>3 DEF Replay, Replayable, Pending, Started, Working, Claims, Held
  <2>2. \A c \in Delivery : Pending(c)' = Pending(c)
    BY <1>3 DEF Replay, Pending, Started
  <2>3. starts[d] <= MaxAttempts * (replays[d] + 1) + 0 + lost[d] + 0
    BY <1>n, <2>1 DEF Counted
  <2>4. record'[d].attempts = 0 /\ replays'[d] = replays[d] + 1 /\ starts' = starts /\ lost' = lost
    BY <1>3 DEF Replay, Typed, DeliveryRecord
  <2>5. \A c \in Delivery \ {d} : record'[c] = record[c] /\ replays'[c] = replays[c]
    BY <1>3 DEF Replay, Typed
  <2> QED BY <1>n, <2>1, <2>2, <2>3, <2>4, <2>5 DEF Counted
<1>4. ASSUME NEW w \in Worker, NEW d \in Delivery, Get(w, d) PROVE Counted'
  <2>1. \A c \in Delivery : Pending(c)' = Pending(c)
    BY <1>4, PendingKept DEF Get, Started, Typed
  <2> QED BY <1>4, <2>1 DEF Get, Counted
<1>5. ASSUME NEW w \in Worker, Claim(w) PROVE Counted'
  <2>1. \A c \in Delivery : Pending(c)' = Pending(c)
    BY <1>5, PendingKept DEF Claim, Return, Started, Typed
  <2>2. \A c \in Delivery : record'[c].attempts = record[c].attempts
    <3> DEFINE claimed == [record[item[w]] EXCEPT !.state = "PROCESSING", !.lease = LeaseTime]
    <3>1. claimed.attempts = record[item[w]].attempts
      BY DEF Typed, DeliveryRecord
    <3>2. record' = record \/ record' = [record EXCEPT ![item[w]] = claimed]
      BY <1>5 DEF Claim
    <3> HIDE DEF claimed
    <3> QED BY <3>1, <3>2 DEF Typed
  <2> QED BY <1>5, <2>1, <2>2 DEF Claim, Counted
<1>6. ASSUME NEW w \in Worker, Attempt(w) PROVE Counted'
  <2>0. ~Started(w) /\ Working(w) /\ record' = record /\ lost' = lost /\ replays' = replays
    BY <1>6 DEF Attempt, Started, Working
  <2>1. CASE Leave(w) /\ UNCHANGED starts
    <3>1. \A c \in Delivery : Pending(c)' = Pending(c)
      BY <2>0, <2>1, PendingKept DEF Leave, Return, Started, Typed
    <3> QED BY <2>0, <2>1, <3>1 DEF Counted
  <2>2. CASE at' = [at EXCEPT ![w] = "handling"] /\ starts' = [starts EXCEPT ![item[w]] = @ + 1] /\ item' = item
    <3>1. Pending(item[w]) = 0
      BY <2>0 DEF Pending, Claims, Held, Started, Working
    <3>2. Pending(item[w])' = 1
      BY <2>2 DEF Pending, Started, Typed
    <3>3. \A c \in Delivery \ {item[w]} : Pending(c)' = Pending(c)
      BY <2>0, <2>2, PendingKept DEF Typed
    <3> QED BY <1>n, <2>0, <2>2, <3>1, <3>2, <3>3 DEF Counted, Typed
  <2> QED BY <1>6, <2>1, <2>2 DEF Attempt
<1>7. ASSUME NEW w \in Worker, HandlerSucceeds(w) PROVE Counted'
  <2>1. \A c \in Delivery : Pending(c)' = Pending(c)
    BY <1>7, PendingKept DEF HandlerSucceeds, Started, Typed
  <2> QED BY <1>7, <2>1 DEF HandlerSucceeds, Counted
<1>8. ASSUME NEW w \in Worker, Started(w), at'[w] \notin {"handling", "answered"},
             \A v \in Worker \ {w} : at'[v] = at[v] /\ item'[v] = item[v],
             NEW r \in DeliveryRecord, record' = [record EXCEPT ![item[w]] = r],
             r.attempts = record[item[w]].attempts + 1,
             starts' = starts, lost' = lost, replays' = replays
      PROVE  Counted'
  <2>0. PICK d \in Delivery : d = item[w]
    BY DEF Typed
  <2>1. Pending(d) = 1 /\ Pending(d)' = 0
    BY <1>8, <1>s, <1>o, <2>0
  <2>2. \A c \in Delivery \ {d} : Pending(c)' = Pending(c)
    <3> TAKE c \in Delivery \ {d}
    <3>1. Started(w) /\ item[w] = c <=> (Started(w) /\ item[w] = c)'
      BY <1>8, <2>0 DEF Started
    <3> QED BY <1>8, <3>1, PendingKept
  <2>3. record'[d] = r /\ \A c \in Delivery \ {d} : record'[c] = record[c]
    BY <1>8, <2>0 DEF Typed
  <2>4. (starts[d] <= MaxAttempts * replays[d] + record[d].attempts + lost[d] + Pending(d))'
    BY <1>n, <1>8, <2>0, <2>1, <2>3 DEF Counted
  <2> QED BY <1>8, <2>2, <2>3, <2>4 DEF Counted
<1>9. ASSUME NEW w \in Worker, Started(w) PROVE current[w].attempts = record[item[w]].attempts
  BY <1>9, <1>s DEF Claims, Held
<1>10. ASSUME NEW w \in Worker, SaveDelivered(w) PROVE Counted'
  <2>1. Started(w) /\ Working(w)
    BY <1>10 DEF SaveDelivered, Started, Working
  <2>2. [state |-> "DELIVERED", attempts |-> current[w].attempts + 1, lease |-> 0] \in DeliveryRecord
    BY <2>1, WorkingAttempts DEF DeliveryRecord, Open, Settled
  <2> QED BY <1>8, <1>9, <1>10, <2>1, <2>2 DEF SaveDelivered, Leave, Return, Typed
<1>11. ASSUME NEW w \in Worker, NEW t \in BOOLEAN, SaveFailure(w, t), Started(w),
              UNCHANGED <<starts, lost, replays>>
       PROVE  Counted'
  <2> DEFINE failed == [state |-> IF t THEN "DEAD_LETTER" ELSE "PROCESSING", attempts |-> current[w].attempts + 1,
                        lease |-> IF t THEN 0 ELSE current[w].lease]
  <2>1. record' = [record EXCEPT ![item[w]] = failed]
    BY <1>11 DEF SaveFailure
  <2>2. failed \in DeliveryRecord
    BY <1>11, <1>s, WorkingAttempts DEF DeliveryRecord, Open, Settled
  <2>3. at'[w] \notin {"handling", "answered"} /\ \A v \in Worker \ {w} : at'[v] = at[v] /\ item'[v] = item[v]
    BY <1>11 DEF SaveFailure, Leave, Return, Typed
  <2> HIDE DEF failed
  <2>4. failed.attempts = record[item[w]].attempts + 1
    BY <1>9, <1>11 DEF failed
  <2> QED BY <1>8, <1>11, <2>1, <2>2, <2>3, <2>4
<1>12. ASSUME NEW w \in Worker, HandlerFails(w) PROVE Counted'
  BY <1>11, <1>12 DEF HandlerFails, Started
<1>13. ASSUME NEW w \in Worker, DeliveredUnsaved(w) PROVE Counted'
  BY <1>11, <1>13 DEF DeliveredUnsaved, Started
<1>14. ASSUME NEW w \in Worker, FailureUnsaved(w) PROVE Counted'
  <2>1. Started(w) /\ Leave(w) /\ lost' = [lost EXCEPT ![item[w]] = @ + 1] /\ UNCHANGED <<record, starts, replays>>
    BY <1>14 DEF FailureUnsaved, Started
  <2>0. PICK d \in Delivery : d = item[w]
    BY DEF Typed
  <2>2. Pending(d) = 1 /\ Pending(d)' = 0
    BY <2>0, <2>1, <1>s, <1>o DEF Leave, Return, Typed
  <2>3. \A c \in Delivery \ {d} : Pending(c)' = Pending(c)
    <3> TAKE c \in Delivery \ {d}
    <3>1. Started(w) /\ item[w] = c <=> (Started(w) /\ item[w] = c)'
      BY <2>0, <2>1 DEF Started, Leave, Return, Typed
    <3> QED BY <2>1, <3>1, PendingKept DEF Leave, Return, Typed
  <2>4. lost'[d] = lost[d] + 1 /\ \A c \in Delivery \ {d} : lost'[c] = lost[c]
    BY <2>0, <2>1 DEF Typed
  <2>5. (starts[d] <= MaxAttempts * replays[d] + record[d].attempts + lost[d] + Pending(d))'
    BY <1>n, <2>1, <2>2, <2>4 DEF Counted
  <2> QED BY <2>1, <2>3, <2>4, <2>5 DEF Counted
<1>15. ASSUME NEW e \in Engine, Health(e) PROVE Counted'
  BY <1>15 DEF Health, file, calls, history, Counted, Pending, Started
<1>16. ASSUME NEW e \in Engine, Crash(e) PROVE Counted'
  <2> SUFFICES ASSUME NEW d \in Delivery
      PROVE (starts[d] <= MaxAttempts * replays[d] + record[d].attempts + lost[d] + Pending(d))'
    BY DEF Counted
  <2> DEFINE S == {w \in {v \in Worker : EngineOf[v] = e} : Started(w) /\ item[w] = d}
  <2>1. lost'[d] = lost[d] + Cardinality(S) /\ UNCHANGED <<record, starts, replays>>
    BY <1>16 DEF Crash
  <2>2. Cardinality(S) \in Nat /\ (S # {} => Cardinality(S) >= 1)
    BY CutCount
  <2>3. S = {} => Pending(d)' = Pending(d)
    <3> SUFFICES ASSUME S = {} PROVE Pending(d)' = Pending(d)
      OBVIOUS
    <3>1. \A v \in Worker : (Started(v) /\ item[v] = d) <=> (Started(v) /\ item[v] = d)'
      BY <1>16 DEF Crash, Started, Typed
    <3> QED BY <3>1 DEF Pending
  <2> HIDE DEF S
  <2> QED BY <1>n, <1>p, <2>1, <2>2, <2>3 DEF Counted
<1>17. ASSUME Tick PROVE Counted'
  <2>1. \A d \in Delivery : record'[d].attempts = record[d].attempts
    BY <1>17 DEF Tick, Typed, DeliveryRecord
  <2>2. \A d \in Delivery : Pending(d)' = Pending(d)
    BY <1>17 DEF Tick, Pending, Started
  <2> QED BY <1>17, <2>1, <2>2 DEF Tick, history, Counted
<1> QED
  BY <1>1, <1>2, <1>3, <1>4, <1>5, <1>6, <1>7, <1>10, <1>12, <1>13, <1>14, <1>15, <1>16, <1>17, Zenon DEF Next, Step

LEMMA InitInv == Init => IInv
<1> SUFFICES ASSUME Init PROVE IInv
  OBVIOUS
<1>1. NewRecord \in DeliveryRecord /\ NewRecord.attempts = 0 /\ NewRecord.attempts + 1 <= MaxAttempts
  BY NewRecordType, DeliveryAssumption DEF NewRecord
<1>2. Typed
  BY <1>1, UnsetIsDelivery DEF Init, Typed
<1>3. Claims
  BY DEF Init, Claims, Working
<1>4. Unspent
  BY <1>1 DEF Init, Unspent
<1>5. \A d \in Delivery : Pending(d) = 0
  BY DEF Init, Pending, Started
<1>6. Counted
  BY <1>1, <1>5, DeliveryAssumption DEF Init, Counted
<1> QED BY <1>2, <1>3, <1>4, <1>6 DEF IInv

LEMMA StepInv == ~Late /\ IInv /\ [Next]_vars => IInv'
BY TypedStep, ClaimsStep, UnspentStep, CountedStep DEF IInv

LEMMA InvariantHolds == ASSUME ~Late PROVE Spec => []IInv
<1>1. IInv /\ [Next]_vars => IInv'
  BY StepInv
<1> QED BY <1>1, InitInv, PTL DEF Spec

\* While no call outlives its lease (deliver, claim): two calls never work on
\* one record, and the file holds what the call working on it remembers.
THEOREM ClaimsExclude == ASSUME ~Late PROVE Spec => []ClaimHolds
<1>1. IInv => ClaimHolds
  BY DEF IInv, Claims, Held, ClaimHolds
<1> QED BY <1>1, InvariantHolds, PTL

\* While no call outlives its lease, a record's handler is started at most
\* maximumAttempts times for each grant, but for attempts whose outcome was lost.
THEOREM AttemptsAreBounded == ASSUME ~Late PROVE Spec => []AttemptsBounded
<1>1. ASSUME IInv, NEW d \in Delivery
      PROVE  starts[d] <= MaxAttempts * (replays[d] + 1) + lost[d]
  <2>1. record[d] \in DeliveryRecord /\ replays[d] \in Nat /\ lost[d] \in Nat /\ starts[d] \in Nat
    BY <1>1 DEF IInv, Typed
  <2>2. record[d].attempts \in 0..MaxAttempts /\ MaxAttempts \in Nat
    BY <2>1, DeliveryAssumption DEF DeliveryRecord
  <2>3. record[d].attempts + Pending(d) <= MaxAttempts
    <3>1. CASE Pending(d) = 0
      BY <2>2, <3>1
    <3>2. CASE \E w \in Worker : Started(w) /\ item[w] = d
      <4>1. PICK w \in Worker : Started(w) /\ item[w] = d
        BY <3>2
      <4>2. Working(w) /\ current[w].attempts = record[d].attempts
        BY <1>1, <4>1 DEF IInv, Claims, Held, Started, Working
      <4>3. record[d].attempts + 1 <= MaxAttempts
        BY <1>1, <4>2, <2>2, WorkingAttempts DEF IInv
      <4>4. Pending(d) = 1
        BY <3>2 DEF Pending
      <4> QED BY <2>2, <4>3, <4>4
    <3> QED BY <3>1, <3>2 DEF Pending
  <2>4. starts[d] <= MaxAttempts * replays[d] + record[d].attempts + lost[d] + Pending(d)
    BY <1>1 DEF IInv, Counted
  <2>5. Pending(d) \in Nat
    BY PendingType
  <2>6. MaxAttempts * replays[d] \in Nat /\ MaxAttempts * (replays[d] + 1) = MaxAttempts * replays[d] + MaxAttempts
    BY <2>1, <2>2
  <2> QED BY <2>1, <2>2, <2>3, <2>4, <2>5, <2>6
<1>2. IInv => AttemptsBounded
  BY <1>1 DEF AttemptsBounded
<1> QED BY <1>2, InvariantHolds, PTL

(* ------------------------------ refinement ------------------------------- *)
box == [d \in Delivery |-> Box(record[d].state)]

\* A step that rewrites one record moves its box, or leaves it.
LEMMA BoxOfOne ==
  ASSUME Typed, NEW d \in Delivery, NEW r, record' = [record EXCEPT ![d] = r]
  PROVE  box' = [box EXCEPT ![d] = Box(r.state)] /\ box[d] = Box(record[d].state)
BY DEF Typed, box, Box

LEMMA BoxKept ==
  ASSUME Typed, \A d \in Delivery : Box(record'[d].state) = Box(record[d].state)
  PROVE  box' = box
BY DEF box, Box

LEMMA RefinesInit == Init => Promise!Init
BY DEF Init, Promise!Init, NewRecord, Box, Open

LEMMA RefinesStep ==
  ASSUME Typed, Claims, [Next]_vars
  PROVE  [Promise!Next]_box
<1> SUFFICES ASSUME box' # box PROVE Promise!Next
  OBVIOUS
<1>k. record' # record
  BY DEF box
<1>m. ASSUME NEW d \in Delivery, NEW from, NEW to,
             box[d] = from, box' = [box EXCEPT ![d] = to],
             <<from, to>> \in {<<"NEW", "QUEUED">>, <<"QUEUED", "DELIVERED">>,
                                <<"QUEUED", "DEAD_LETTER">>, <<"DEAD_LETTER", "QUEUED">>}
      PROVE  Promise!Next
  BY <1>m DEF Promise!Next, Promise!Enqueue, Promise!Deliver, Promise!PutAside, Promise!Replay, Promise!Moves, box
<1>w. ASSUME NEW w \in Worker, Working(w)
      PROVE  item[w] \in Delivery /\ Box(record[item[w]].state) = "QUEUED"
  BY <1>w DEF Typed, Claims, Held, Box, Open
<1>1. ASSUME NEW d \in Delivery, Enqueue(d) PROVE Promise!Next
  <2>1. record' = [record EXCEPT ![d] = [record[d] EXCEPT !.state = "PENDING"]] /\ record[d].state = "NEW"
    BY <1>1 DEF Enqueue, Typed
  <2>2. [record[d] EXCEPT !.state = "PENDING"].state = "PENDING"
    BY DEF Typed, DeliveryRecord
  <2>3. box' = [box EXCEPT ![d] = "QUEUED"] /\ box[d] = "NEW"
    BY <2>1, <2>2, BoxOfOne DEF Box, Open
  <2> QED BY <1>m, <2>3
<1>2. ASSUME NEW d \in Delivery, Replay(d) PROVE Promise!Next
  <2>1. record' = [record EXCEPT ![d] = [record[d] EXCEPT !.state = "PENDING", !.attempts = 0]]
        /\ record[d].state = "DEAD_LETTER"
    BY <1>2 DEF Replay, Replayable, Typed
  <2>2. [record[d] EXCEPT !.state = "PENDING", !.attempts = 0].state = "PENDING"
    BY DEF Typed, DeliveryRecord
  <2>3. box' = [box EXCEPT ![d] = "QUEUED"] /\ box[d] = "DEAD_LETTER"
    BY <2>1, <2>2, BoxOfOne DEF Box, Open
  <2> QED BY <1>m, <2>3
<1>3. ASSUME NEW w \in Worker, Claim(w) PROVE Promise!Next
  <2> DEFINE claimed == [record[item[w]] EXCEPT !.state = "PROCESSING", !.lease = LeaseTime]
  <2>1. record' = [record EXCEPT ![item[w]] = claimed] /\ record[item[w]].state \in Open
    BY <1>3, <1>k DEF Claim, Claimable, Open
  <2>2. item[w] \in Delivery /\ claimed.state = "PROCESSING"
    BY DEF Typed, DeliveryRecord
  <2> HIDE DEF claimed
  <2>3. box' = [box EXCEPT ![item[w]] = "QUEUED"] /\ box[item[w]] = "QUEUED"
    BY <2>1, <2>2, BoxOfOne DEF Box, Open
  <2>4. box' = box
    BY <2>2, <2>3 DEF box
  <2> QED BY <2>4
<1>4. ASSUME NEW w \in Worker, SaveDelivered(w) PROVE Promise!Next
  <2> DEFINE r == [state |-> "DELIVERED", attempts |-> current[w].attempts + 1, lease |-> 0]
  <2>1. Working(w) /\ record' = [record EXCEPT ![item[w]] = r]
    BY <1>4 DEF SaveDelivered, Working
  <2>2. Box(r.state) = "DELIVERED"
    BY DEF Box, Open
  <2> HIDE DEF r
  <2>3. item[w] \in Delivery /\ Box(record[item[w]].state) = "QUEUED"
    BY <1>w, <2>1
  <2>4. box[item[w]] = "QUEUED" /\ box' = [box EXCEPT ![item[w]] = Box(r.state)]
    BY <2>1, <2>3, BoxOfOne, Zenon
  <2> QED BY <1>m, <2>2, <2>3, <2>4
<1>5. ASSUME NEW w \in Worker, NEW t \in BOOLEAN, SaveFailure(w, t), Working(w) PROVE Promise!Next
  <2> DEFINE r == [state |-> IF t THEN "DEAD_LETTER" ELSE "PROCESSING", attempts |-> current[w].attempts + 1,
                   lease |-> IF t THEN 0 ELSE current[w].lease]
  <2>1. record' = [record EXCEPT ![item[w]] = r]
    BY <1>5 DEF SaveFailure
  <2>2. Box(r.state) = IF t THEN "DEAD_LETTER" ELSE "QUEUED"
    BY <1>5 DEF Box, Open
  <2> HIDE DEF r
  <2>3. item[w] \in Delivery /\ Box(record[item[w]].state) = "QUEUED"
    BY <1>5, <1>w
  <2>4. box[item[w]] = "QUEUED" /\ box' = [box EXCEPT ![item[w]] = Box(r.state)]
    BY <2>1, <2>3, BoxOfOne, Zenon
  <2>5. CASE t
    BY <1>m, <2>2, <2>3, <2>4, <2>5
  <2>6. CASE ~t
    BY <2>2, <2>3, <2>4, <2>6 DEF box
  <2> QED BY <1>5, <2>5, <2>6
<1>6. ASSUME NEW w \in Worker, HandlerFails(w) \/ DeliveredUnsaved(w) PROVE Promise!Next
  BY <1>5, <1>6 DEF HandlerFails, DeliveredUnsaved, Working
<1>7. ASSUME Tick PROVE Promise!Next
  <2>1. \A d \in Delivery : record'[d].state = record[d].state
    BY <1>7 DEF Tick, Typed, DeliveryRecord
  <2> QED BY <2>1, BoxKept
<1>8. ASSUME NEW w \in Worker, NEW d \in Delivery, Get(w, d) PROVE record' = record
  BY <1>8 DEF Get
<1>9. ASSUME NEW w \in Worker, Attempt(w) \/ HandlerSucceeds(w) \/ FailureUnsaved(w) PROVE record' = record
  BY <1>9 DEF Attempt, HandlerSucceeds, FailureUnsaved
<1>10. ASSUME NEW e \in Engine, Health(e) \/ Crash(e) PROVE record' = record
  BY <1>10 DEF Health, Crash, file
<1>11. CASE UNCHANGED vars
  BY <1>11, <1>k DEF vars
<1>12. ASSUME NEW w \in Worker, Step(w) PROVE Promise!Next
  BY <1>k, <1>3, <1>4, <1>6, <1>9, <1>12, Zenon DEF Step
<1> QED
  BY <1>k, <1>1, <1>2, <1>7, <1>8, <1>10, <1>11, <1>12, Zenon DEF Next

\* While no call outlives its lease, the engine implements the outbox: what it
\* delivered stays delivered, and only a replay brings a dead letter back.
THEOREM EngineImplementsOutbox == ASSUME ~Late PROVE Spec => ImplementsOutbox
<1>1. IInv /\ [Next]_vars => [Promise!Next]_box
  BY RefinesStep DEF IInv
<1> QED BY <1>1, RefinesInit, InvariantHolds, PTL DEF Spec, ImplementsOutbox, Promise!Spec, box
=============================================================================

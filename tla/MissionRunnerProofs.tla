-------------------------- MODULE MissionRunnerProofs --------------------------
(***************************************************************************)
(* The mission runner.  For any number of processes its steps are methods  *)
(* of the production runtime, so that what is proved of the service holds   *)
(* of the missions it executes.  For one process at a time, and any runs,   *)
(* missions, dependencies and approvals of a system: one mission is in      *)
(* hand, it is held and its dependencies are complete while it is worked    *)
(* on, a completed run has a complete mission, and a repository one active  *)
(* run.                                                                     *)
(***************************************************************************)
EXTENDS MissionRunner, ProductionRuntimeProofs, WellFoundedInduction

-----------------------------------------------------------------------------
(* The queue *)

Queue == [Mission -> MissionItem]

\* A complete mission carries no execution blocker.
Tidy(q) == InHand(q) \cap Completed(q) = {}

LEMMA ItemIs ==
  ASSUME NEW item \in MissionItem
  PROVE  item.status \in MissionStatus /\ item.blocker \in BOOLEAN
  BY DEF MissionItem

\* Reconciling derives eligibility anew: who is in hand and who is complete stays.
LEMMA ReconcileFacts ==
  ASSUME NEW q \in Queue
  PROVE  /\ Reconcile(q) \in Queue
         /\ InHand(Reconcile(q)) = InHand(q)
         /\ Completed(Reconcile(q)) = Completed(q)
<1> DEFINE d == Reconcile(q)
<1>1. \A m \in Mission :
        /\ d[m] \in MissionItem
        /\ d[m].blocker = q[m].blocker
        /\ q[m].status \in { "COMPLETE", "ACTIVE" } => d[m].status = q[m].status
        /\ q[m].status \notin { "COMPLETE", "ACTIVE" } => d[m].status \in { "ELIGIBLE", "BLOCKED" }
  <2>1. SUFFICES ASSUME NEW m \in Mission
                 PROVE  /\ d[m] \in MissionItem
                        /\ d[m].blocker = q[m].blocker
                        /\ q[m].status \in { "COMPLETE", "ACTIVE" } => d[m].status = q[m].status
                        /\ q[m].status \notin { "COMPLETE", "ACTIVE" } =>
                             d[m].status \in { "ELIGIBLE", "BLOCKED" }
    OBVIOUS
  <2>2. q[m] \in MissionItem  BY DEF Queue
  <2>3. CASE q[m].status \in { "COMPLETE", "ACTIVE" }
    BY <2>2, <2>3 DEF Reconcile
  <2>4. CASE q[m].status \notin { "COMPLETE", "ACTIVE" }
    <3>1. d[m] = [q[m] EXCEPT !.status = Derived(q, m)]  BY <2>4 DEF Reconcile
    <3>2. Derived(q, m) \in { "ELIGIBLE", "BLOCKED" }  BY DEF Derived
    <3>3. QED  BY <2>2, <2>4, <3>1, <3>2 DEF MissionItem, MissionStatus
  <2>5. QED  BY <2>3, <2>4
<1>2. d \in Queue
  <2>1. d = [m \in Mission |-> d[m]]  BY DEF Reconcile
  <2>2. QED  BY <1>1, <2>1 DEF Queue
<1> HIDE DEF d
<1>3. InHand(d) = InHand(q) /\ Completed(d) = Completed(q)
  BY <1>1 DEF InHand, Completed
<1>4. QED  BY <1>2, <1>3 DEF d

\* The item of a mission in hand.
Holding(item) == item.status = "ACTIVE" \/ item.blocker = TRUE

\* Giving a mission an item and reconciling.
LEMMA GivenFacts ==
  ASSUME NEW q \in Queue, NEW m \in Mission, NEW item \in MissionItem
  PROVE  LET t == Reconcile([q EXCEPT ![m] = item]) IN
         /\ t \in Queue
         /\ Holding(item) => InHand(t) = InHand(q) \cup { m }
         /\ ~Holding(item) => InHand(t) = InHand(q) \ { m }
         /\ item.status = "COMPLETE" => Completed(t) = Completed(q) \cup { m }
         /\ item.status # "COMPLETE" => Completed(t) = Completed(q) \ { m }
<1> DEFINE given == [q EXCEPT ![m] = item]
<1>1. given \in Queue /\ given[m] = item /\ \A n \in Mission \ { m } : given[n] = q[n]
  BY DEF Queue
<1> HIDE DEF given
<1>2. /\ Holding(item) => InHand(given) = InHand(q) \cup { m }
      /\ ~Holding(item) => InHand(given) = InHand(q) \ { m }
      /\ item.status = "COMPLETE" => Completed(given) = Completed(q) \cup { m }
      /\ item.status # "COMPLETE" => Completed(given) = Completed(q) \ { m }
  BY <1>1, ItemIs DEF InHand, Completed, Holding
<1>3. QED  BY <1>1, <1>2, ReconcileFacts DEF given

LEMMA UpdatedActive ==
  ASSUME NEW q \in Queue, NEW m \in Mission
  PROVE  /\ Updated(q, m, "ACTIVE") \in Queue
         /\ InHand(Updated(q, m, "ACTIVE")) = InHand(q) \cup { m }
         /\ Completed(Updated(q, m, "ACTIVE")) = Completed(q) \ { m }
<1> DEFINE item == [status |-> "ACTIVE", blocker |-> FALSE]
<1>1. Updated(q, m, "ACTIVE") = Reconcile([q EXCEPT ![m] = item])
  BY DEF Updated, Queue
<1>2. item \in MissionItem /\ item.status = "ACTIVE" /\ Holding(item)
  BY DEF MissionItem, MissionStatus, Holding
<1> HIDE DEF item
<1>3. QED  BY <1>1, <1>2, GivenFacts

LEMMA UpdatedComplete ==
  ASSUME NEW q \in Queue, NEW m \in Mission
  PROVE  /\ Updated(q, m, "COMPLETE") \in Queue
         /\ InHand(Updated(q, m, "COMPLETE")) = InHand(q) \ { m }
         /\ Completed(Updated(q, m, "COMPLETE")) = Completed(q) \cup { m }
<1> DEFINE item == [status |-> "COMPLETE", blocker |-> FALSE]
<1>1. Updated(q, m, "COMPLETE") = Reconcile([q EXCEPT ![m] = item])
  BY DEF Updated, Queue
<1>2. item \in MissionItem /\ item.status = "COMPLETE" /\ ~Holding(item)
  BY DEF MissionItem, MissionStatus, Holding
<1> HIDE DEF item
<1>3. QED  BY <1>1, <1>2, GivenFacts

LEMMA BlockedFacts ==
  ASSUME NEW q \in Queue, NEW m \in Mission
  PROVE  /\ Blocked(q, m) \in Queue
         /\ InHand(Blocked(q, m)) = InHand(q) \cup { m }
         /\ Completed(Blocked(q, m)) = Completed(q) \ { m }
<1> DEFINE item == [status |-> "BLOCKED", blocker |-> TRUE]
<1>1. Blocked(q, m) = Reconcile([q EXCEPT ![m] = item])  BY DEF Blocked
<1>2. item \in MissionItem /\ item.status = "BLOCKED" /\ Holding(item)
  BY DEF MissionItem, MissionStatus, Holding
<1> HIDE DEF item
<1>3. Blocked(q, m) \in Queue  BY <1>1, <1>2, GivenFacts
<1>4. InHand(Blocked(q, m)) = InHand(q) \cup { m }  BY <1>1, <1>2, GivenFacts
<1>5. Completed(Blocked(q, m)) = Completed(q) \ { m }  BY <1>1, <1>2, GivenFacts
<1>6. QED  BY <1>3, <1>4, <1>5

\* The status an authorization writes back is one it read before the prompt: the
\* mission may come into hand or leave it, no other does.
LEMMA UpdatedSeen ==
  ASSUME NEW q \in Queue, NEW m \in Mission, NEW s \in MissionStatus
  PROVE  /\ Updated(q, m, s) \in Queue
         /\ InHand(Updated(q, m, s)) \subseteq InHand(q) \cup { m }
         /\ s = "COMPLETE" => /\ m \notin InHand(Updated(q, m, s))
                             /\ Completed(Updated(q, m, s)) = Completed(q) \cup { m }
         /\ s # "COMPLETE" => Completed(Updated(q, m, s)) = Completed(q) \ { m }
<1> DEFINE item == [status |-> s, blocker |-> q[m].blocker /\ s \notin { "ACTIVE", "COMPLETE" }]
           t == Updated(q, m, s)
<1>1. t = Reconcile([q EXCEPT ![m] = item])  BY DEF Updated, Queue
<1>2. q[m].blocker \in BOOLEAN  BY ItemIs DEF Queue
<1>3. item \in MissionItem  BY <1>2 DEF MissionItem
<1>4. item.status = s  OBVIOUS
<1>5. s = "COMPLETE" => ~Holding(item)  BY DEF Holding
<1> HIDE DEF item, t
<1>6. t \in Queue  BY <1>1, <1>3, GivenFacts
<1>7. InHand(t) \subseteq InHand(q) \cup { m }
  <2>1. InHand(t) = InHand(q) \cup { m } \/ InHand(t) = InHand(q) \ { m }
    BY <1>1, <1>3, GivenFacts
  <2>2. QED  BY <2>1
<1>8. s = "COMPLETE" => m \notin InHand(t)
  <2>1. s = "COMPLETE" => InHand(t) = InHand(q) \ { m }  BY <1>1, <1>3, <1>5, GivenFacts
  <2>2. QED  BY <2>1
<1>9. /\ s = "COMPLETE" => Completed(t) = Completed(q) \cup { m }
      /\ s # "COMPLETE" => Completed(t) = Completed(q) \ { m }
  BY <1>1, <1>3, <1>4, GivenFacts
<1>10. QED  BY <1>6, <1>7, <1>8, <1>9 DEF t

\* A mission outside the queue changes nothing.
LEMMA UpdatedTyped ==
  ASSUME NEW q \in Queue, NEW m,
         NEW s \in MissionStatus
  PROVE  Updated(q, m, s) \in Queue /\ Blocked(q, m) \in Queue
<1>1. CASE m \in Mission
  BY <1>1, UpdatedSeen, BlockedFacts
<1>2. CASE m \notin Mission
  <2>1. \A item : [q EXCEPT ![m] = item] = q  BY <1>2 DEF Queue
  <2>2. Updated(q, m, s) = Reconcile(q) /\ Blocked(q, m) = Reconcile(q)
    BY <2>1 DEF Updated, Blocked
  <2>3. QED  BY <2>2, ReconcileFacts
<1>3. QED  BY <1>1, <1>2

\* A set of positions has a first one.
LEMMA LeastNatural ==
  ASSUME NEW S, S \subseteq Nat, S # {}
  PROVE  \E i \in S : \A j \in S : i <= j
<1>1. PICK i \in S : \A j \in S : <<j, i>> \notin OpToRel(<, Nat)
  BY NatLessThanWellFounded, WFMin
<1>2. \A x, y \in Nat : <<x, y>> \in OpToRel(<, Nat) <=> x < y  BY DEF OpToRel
<1>3. \A j \in S : ~(j < i)  BY <1>1, <1>2
<1>4. QED  BY <1>3

\* What the next mission is: eligible, with nothing in hand.
LEMMA NextMissionFacts ==
  ASSUME NEW q \in Queue, NextMission(q) # NoMission
  PROVE  /\ NextMission(q) \in Mission \ Completed(q)
         /\ InHand(q) = {}
         /\ Requires[NextMission(q)] \subseteq Completed(q)
<1> DEFINE eligible == { i \in DOMAIN Order : Reconcile(q)[Order[i]].status = "ELIGIBLE" }
           first == CHOOSE i \in eligible : \A j \in eligible : i <= j
<1>1. InHand(q) = {} /\ eligible # {} /\ NextMission(q) = Order[first]
  BY DEF NextMission
<1>2. first \in eligible
  <2>1. eligible \subseteq Nat  BY QueueAssumption
  <2>2. \E i \in eligible : \A j \in eligible : i <= j  BY <1>1, <2>1, LeastNatural
  <2>3. QED  BY <2>2
<1> HIDE DEF first
<1>3. PICK m \in Mission : m = Order[first] /\ Reconcile(q)[m].status = "ELIGIBLE"
  BY <1>2 DEF Mission
<1>4. q[m] \in MissionItem  BY DEF Queue
<1>5. q[m].status \notin { "COMPLETE", "ACTIVE" }  BY <1>3 DEF Reconcile
<1>6. Derived(q, m) = "ELIGIBLE"  BY <1>3, <1>4, <1>5 DEF Reconcile, MissionItem, MissionStatus
<1>7. QED  BY <1>1, <1>3, <1>5, <1>6 DEF Derived, Completed

-----------------------------------------------------------------------------
(* Any number of processes: types, and every step is a method of the service *)

Early   == { "queue", "start", "go", "activate" }
Late    == { "settle", "stop", "catch", "blame", "fail" }
Engaged == Early \cup Working \cup Late

LocalsTyped ==
  /\ pc     \in [Process -> Location]
  /\ mine   \in [Process -> Run \cup { NoRun }]
  /\ held   \in [Process -> 0 .. MaxStages]
  /\ target \in [Process -> Mission \cup { NoMission }]
  /\ seen   \in [Process -> MissionStatus \cup { "NONE" }]
  /\ \A p \in Process : pc[p] \in Engaged => mine[p] \in Run
  /\ \A p \in Process : pc[p] \in Engaged \cup { "prompt" } => seen[p] # "NONE"
  /\ \A p \in Process : pc[p] \in { "approval", "prompt" } => target[p] \in ApprovalRequired

DurableTyped ==
  /\ queue     \in Queue
  /\ missionOf \in [Run -> Mission \cup { NoMission }]
  /\ approved  \subseteq ApprovalRequired

Typed == IInv /\ LocalsTyped /\ DurableTyped

LEMMA InitTyped == RunnerInit => Typed
<1> SUFFICES ASSUME RunnerInit PROVE Typed  OBVIOUS
<1>1. IInv  BY InitIInv DEF RunnerInit
<1>2. LocalsTyped
  BY ConstantAssumption DEF RunnerInit, LocalsTyped, Location, Engaged, Early, Late, Working
<1>3. [m \in Mission |-> [status |-> "BLOCKED", blocker |-> FALSE]] \in Queue
  BY DEF Queue, MissionItem, MissionStatus
<1>4. DurableTyped
  BY <1>3, ReconcileFacts DEF RunnerInit, DurableTyped
<1>5. QED  BY <1>1, <1>2, <1>4 DEF Typed

\* Where a process may go with the run and the mission it has.
Reaches(p, there) ==
  /\ there \in Location
  /\ there \in Engaged => pc[p] \in Engaged
  /\ there = "approval" => target[p] \in ApprovalRequired
  /\ there = "prompt" => pc[p] = "approval"

\* A process moves on without taking a run, a mission or a stage.
LEMMA GotoKeepsLocals ==
  ASSUME LocalsTyped, NEW p \in Process, NEW there, Reaches(p, there), Goto(p, there)
  PROVE  LocalsTyped'
<1>1. CASE there # "idle"
  <2>1. pc' = [pc EXCEPT ![p] = there] /\ UNCHANGED <<mine, held, target, seen>>
    BY <1>1 DEF Goto, localVars
  <2>2. "approval" \in Engaged  BY DEF Engaged, Working
  <2>3. QED  BY <2>1, <2>2 DEF LocalsTyped, Reaches
<1>2. CASE there = "idle"
  <2>1. /\ pc' = [pc EXCEPT ![p] = "idle"]
        /\ mine' = [mine EXCEPT ![p] = NoRun]
        /\ held' = [held EXCEPT ![p] = 0]
        /\ target' = [target EXCEPT ![p] = NoMission]
        /\ seen' = [seen EXCEPT ![p] = "NONE"]
    BY <1>2 DEF Goto
  <2>2. "idle" \notin Engaged /\ 0 \in 0 .. MaxStages /\ "idle" \in Location
    BY ConstantAssumption DEF Engaged, Early, Late, Working, Location
  <2>3. QED  BY <2>1, <2>2, <1>2 DEF LocalsTyped
<1>3. QED  BY <1>1, <1>2

\* A process moves on with a run and a mission.
LEMMA TakingKeepsLocals ==
  ASSUME LocalsTyped, NEW p \in Process, NEW there \in Location \ { "prompt", "approval" },
         NEW r \in Run, NEW m \in Mission, NEW s \in MissionStatus,
         pc'     = [pc EXCEPT ![p] = there],
         mine'   = [mine EXCEPT ![p] = r],
         target' = [target EXCEPT ![p] = m],
         seen'   = [seen EXCEPT ![p] = s],
         UNCHANGED held
  PROVE  LocalsTyped'
<1>1. s # "NONE"  BY DEF MissionStatus
<1>2. QED  BY <1>1 DEF LocalsTyped

\* The calls of the service a process makes.
LEMMA MovesFacts ==
  ASSUME NEW p \in Process, NEW s, NEW there, NEW handler, Moves(p, s, there, handler)
  PROVE  /\ UNCHANGED <<queue, missionOf, approved>>
         /\ \/ Transition(mine[p], s) /\ MayTransition(status[mine[p]], s) /\ Goto(p, there)
            \/ UNCHANGED vars /\ Goto(p, handler)
  BY DEF Moves

LEMMA MovesTyped ==
  ASSUME Typed, NEW p \in Process, NEW s \in CallerTargets,
         NEW there, NEW handler, Reaches(p, there), Reaches(p, handler),
         pc[p] \in Engaged, Moves(p, s, there, handler)
  PROVE  [Next]_vars /\ LocalsTyped' /\ DurableTyped'
<1>1. LocalsTyped /\ mine[p] \in Run  BY DEF Typed, LocalsTyped
<1>2. LocalsTyped'  BY <1>1, MovesFacts, GotoKeepsLocals
<1>3. [Next]_vars  BY <1>1, MovesFacts DEF Next, LifecycleNext
<1>4. DurableTyped'  BY MovesFacts DEF Typed, DurableTyped
<1>5. QED  BY <1>2, <1>3, <1>4

LEMMA OpensTyped ==
  ASSUME Typed, NEW p \in Process, NEW type \in StageType,
         NEW there \in Engaged \ { "approval" }, NEW handler, Reaches(p, handler),
         pc[p] \in Engaged, Opens(p, type, there, handler)
  PROVE  [Next]_vars /\ LocalsTyped' /\ DurableTyped'
<1>1. LocalsTyped /\ mine[p] \in Run /\ stages[mine[p]] \in Seq(Stage)
  BY DEF Typed, LocalsTyped, IInv, TypeOK
<1>2. DurableTyped'  BY DEF Opens, Typed, DurableTyped
<1>3. CASE StageOpen(mine[p])
  <2>1. Heartbeat(mine[p]) /\ Goto(p, handler)  BY <1>3 DEF Opens
  <2>2. [Next]_vars  BY <1>1, <2>1 DEF Next, LifecycleNext
  <2>3. LocalsTyped'  BY <1>1, <2>1, GotoKeepsLocals
  <2>4. QED  BY <1>2, <2>2, <2>3
<1>4. CASE ~StageOpen(mine[p])
  <2>1. /\ StartStage(mine[p], type)
        /\ pc' = [pc EXCEPT ![p] = there]
        /\ held' = [held EXCEPT ![p] = Len(stages[mine[p]]) + 1]
        /\ UNCHANGED <<mine, target, seen>>
    BY <1>4 DEF Opens
  <2>2. [Next]_vars  BY <1>1, <2>1 DEF Next, LifecycleNext
  <2>3. Len(stages[mine[p]]) + 1 \in 0 .. MaxStages
    BY <1>1, <2>1, ConstantAssumption DEF StartStage
  <2>4. there \in Location /\ there # "prompt"
    BY DEF Engaged, Early, Late, Working, Location
  <2>5. LocalsTyped'  BY <1>1, <2>1, <2>3, <2>4 DEF LocalsTyped
  <2>6. QED  BY <1>2, <2>2, <2>5
<1>5. QED  BY <1>3, <1>4

\* A step that changes the queue and moves its process on.
LEMMA UpdatesTyped ==
  ASSUME Typed, NEW p \in Process, NEW q \in Queue, NEW there, Reaches(p, there),
         Updates(q), Goto(p, there)
  PROVE  [Next]_vars /\ LocalsTyped' /\ DurableTyped'
<1>1. LocalsTyped'  BY GotoKeepsLocals DEF Typed
<1>2. QED  BY <1>1 DEF Updates, Typed, DurableTyped

\* A step that calls the service once and moves its process on.
LEMMA CallTyped ==
  ASSUME Typed, NEW p \in Process, NEW there, Reaches(p, there), Goto(p, there), [Next]_vars,
         UNCHANGED <<queue, missionOf, approved>>
  PROVE  [Next]_vars /\ LocalsTyped' /\ DurableTyped'
<1>1. LocalsTyped'  BY GotoKeepsLocals DEF Typed
<1>2. QED  BY <1>1 DEF Typed, DurableTyped

\* The queue is typed, and so is what any update makes of it.
LEMMA QueueUpdates ==
  ASSUME Typed
  PROVE  /\ queue \in Queue
         /\ \A m : \A s \in { "ACTIVE", "COMPLETE" } : Updated(queue, m, s) \in Queue
         /\ \A m : Blocked(queue, m) \in Queue
<1>1. queue \in Queue  BY DEF Typed, DurableTyped
<1>2. "ACTIVE" \in MissionStatus /\ "COMPLETE" \in MissionStatus  BY DEF MissionStatus
<1>3. QED  BY <1>1, <1>2, UpdatedTyped

\* Authorization and selection.
LEMMA SelectionTyped ==
  ASSUME Typed, NEW p \in Process,
         \/ \E r \in Run : PickUp(p, r) \/ Launch(p, r) \/ Certify(p, r) \/ Retry(p, r)
         \/ Prompt(p) \/ Approve(p) \/ Decline(p)
  PROVE  [Next]_vars /\ LocalsTyped' /\ DurableTyped'
<1> USE DEF Location, Engaged, Early, Late, Working, Reaches
<1>0. /\ LocalsTyped /\ queue \in Queue /\ TypeOK /\ approved \subseteq ApprovalRequired
      /\ missionOf \in [Run -> Mission \cup { NoMission }]
  BY DEF Typed, IInv, DurableTyped
<1>1. ASSUME NEW r \in Run, PickUp(p, r) PROVE [Next]_vars /\ LocalsTyped' /\ DurableTyped'
  <2>1. [Next]_vars  BY <1>1 DEF PickUp, Next, LifecycleNext
  <2>2. PICK there \in { "activate", "idle" } :
          Selects(p, missionOf[r], queue[missionOf[r]].status, r, there)
    BY <1>1 DEF PickUp
  <2>3. /\ pc'     = [pc EXCEPT ![p] = there]
        /\ mine'   = [mine EXCEPT ![p] = r]
        /\ target' = [target EXCEPT ![p] = missionOf[r]]
        /\ seen'   = [seen EXCEPT ![p] = queue[missionOf[r]].status]
        /\ UNCHANGED <<queue, approved, held>>
    BY <2>2 DEF Selects
  <2>4. missionOf[r] \in Mission /\ queue[missionOf[r]].status \in MissionStatus
    BY <1>0, <1>1, ItemIs DEF PickUp, Queue
  <2>5. LocalsTyped'  BY <1>0, <2>3, <2>4, TakingKeepsLocals
  <2>6. DurableTyped'  BY <1>0, <1>1, <2>3 DEF PickUp, DurableTyped
  <2>7. QED  BY <2>1, <2>5, <2>6
<1>2. ASSUME NEW r \in Run, Launch(p, r) PROVE [Next]_vars /\ LocalsTyped' /\ DurableTyped'
  <2>1. [Next]_vars  BY <1>2 DEF Launch, Next, LifecycleNext
  <2>2. /\ NextMission(queue) \in Mission
        /\ missionOf' = [missionOf EXCEPT ![r] = NextMission(queue)]
        /\ Selects(p, NextMission(queue), "ELIGIBLE", r, "queue")
    BY <1>0, <1>2, NextMissionFacts DEF Launch
  <2>3. /\ pc'     = [pc EXCEPT ![p] = "queue"]
        /\ mine'   = [mine EXCEPT ![p] = r]
        /\ target' = [target EXCEPT ![p] = NextMission(queue)]
        /\ seen'   = [seen EXCEPT ![p] = "ELIGIBLE"]
        /\ UNCHANGED <<queue, approved, held>>
    BY <2>2 DEF Selects
  <2>4. "ELIGIBLE" \in MissionStatus  BY DEF MissionStatus
  <2>5. LocalsTyped'  BY <1>0, <2>2, <2>3, <2>4, TakingKeepsLocals
  <2>6. DurableTyped'  BY <1>0, <2>2, <2>3 DEF DurableTyped
  <2>7. QED  BY <2>1, <2>5, <2>6
<1>3. ASSUME NEW r \in Run, Certify(p, r) \/ Retry(p, r)
      PROVE  [Next]_vars /\ LocalsTyped' /\ DurableTyped'
  <2>1. [Next]_vars  BY <1>3 DEF Certify, Retry, Next, LifecycleNext, CallerTargets
  <2>2. PICK there \in { "certified", "reactivate" } :
          /\ pc' = [pc EXCEPT ![p] = there]
          /\ target' = [target EXCEPT ![p] = missionOf[r]]
          /\ UNCHANGED <<queue, missionOf, approved, mine, held, seen>>
    BY <1>3 DEF Certify, Retry
  <2>3. LocalsTyped'  BY <1>0, <2>2 DEF LocalsTyped
  <2>4. DurableTyped'  BY <1>0, <2>2 DEF DurableTyped
  <2>5. QED  BY <2>1, <2>3, <2>4
<1>4. CASE Prompt(p)
  <2>1. /\ pc'     = [pc EXCEPT ![p] = "prompt"]
        /\ target' = [target EXCEPT ![p] = NextMission(queue)]
        /\ seen'   = [seen EXCEPT ![p] = "ELIGIBLE"]
        /\ UNCHANGED <<vars, queue, missionOf, approved, mine, held>>
        /\ NextMission(queue) \in ApprovalRequired
    BY <1>4 DEF Prompt
  <2>2. NextMission(queue) \in Mission
    BY <2>1, RunnerAssumption
  <2>3. "ELIGIBLE" \in MissionStatus  BY DEF MissionStatus
  <2>4. LocalsTyped'  BY <1>0, <2>1, <2>2, <2>3 DEF LocalsTyped
  <2>5. DurableTyped'  BY <1>0, <2>1 DEF DurableTyped
  <2>6. QED  BY <2>1, <2>4, <2>5
<1>5. CASE Approve(p)
  <2>1. /\ pc[p] = "prompt"
        /\ queue' \in { Updated(queue, target[p], seen[p]), queue }
        /\ approved' = approved \cup { target[p] }
        /\ Goto(p, "select") /\ UNCHANGED <<vars, missionOf>>
    BY <1>5 DEF Approve, At
  <2>2. seen[p] \in MissionStatus  BY <1>0, <2>1 DEF LocalsTyped
  <2>3. queue' \in Queue  BY <1>0, <2>1, <2>2, UpdatedTyped
  <2>4. LocalsTyped'  BY <1>0, <2>1, GotoKeepsLocals
  <2>5. target[p] \in ApprovalRequired  BY <1>0, <2>1 DEF LocalsTyped
  <2>6. QED  BY <1>0, <2>1, <2>3, <2>4, <2>5 DEF DurableTyped
<1>6. CASE Decline(p)
  <2>1. Goto(p, "idle") /\ UNCHANGED <<vars, queue, missionOf, approved>>  BY <1>6 DEF Decline
  <2>2. QED  BY <2>1, CallTyped
<1>7. QED  BY <1>1, <1>2, <1>3, <1>4, <1>5, <1>6

\* From the launch of the run to the end of its execution.
LEMMA ExecutionTyped ==
  ASSUME Typed, NEW p \in Process,
         \/ Enqueue(p) \/ Start(p) \/ Go(p) \/ Activate(p) \/ Open(p) \/ Answer(p)
         \/ Complete(p) \/ Validate(p) \/ Check(p) \/ Record(p) \/ Judge(p) \/ Approval(p)
  PROVE  [Next]_vars /\ LocalsTyped' /\ DurableTyped'
<1> USE DEF Location, Engaged, Early, Late, Working, At, Reaches
<1>0. /\ pc[p] \in Engaged => mine[p] \in Run
      /\ \A s \in { "QUEUED", "STARTING", "RUNNING", "VALIDATING", "AWAITING_APPROVAL" } :
           s \in CallerTargets
  BY DEF Typed, LocalsTyped, CallerTargets
<1>1. CASE Enqueue(p)  BY <1>0, <1>1, MovesTyped DEF Enqueue
<1>2. CASE Start(p)  BY <1>0, <1>2, MovesTyped DEF Start
<1>3. CASE Go(p)  BY <1>0, <1>3, MovesTyped DEF Go
<1>4. CASE Activate(p)
  <2>1. Updates(Updated(queue, target[p], "ACTIVE")) /\ Goto(p, "open") /\ pc[p] \in Engaged
    BY <1>4 DEF Activate
  <2>2. Updated(queue, target[p], "ACTIVE") \in Queue  BY QueueUpdates
  <2>3. QED  BY <2>1, <2>2, UpdatesTyped
<1>5. CASE Open(p)  BY <1>5, OpensTyped, RunnerAssumption DEF Open
<1>6. CASE Check(p)  BY <1>6, OpensTyped, ConstantAssumption DEF Check
<1>7. CASE Validate(p)  BY <1>0, <1>7, MovesTyped DEF Validate
<1>8. CASE Approval(p)  BY <1>0, <1>8, MovesTyped DEF Approval
<1>9. CASE Answer(p)
  <2>1. PICK there \in { "catch", "complete" } :
          /\ Goto(p, there) /\ pc[p] \in Engaged
          /\ UNCHANGED vars \/ Heartbeat(mine[p])
          /\ UNCHANGED <<queue, missionOf, approved>>
    BY <1>9 DEF Answer
  <2>2. [Next]_vars  BY <1>0, <2>1 DEF Next, LifecycleNext
  <2>3. QED  BY <2>1, <2>2, CallTyped
<1>10. CASE Record(p)
  <2>1. PICK there \in { "judge", "idle" } :
          /\ Goto(p, there) /\ pc[p] \in Engaged
          /\ Heartbeat(mine[p]) \/ RecordValidation(mine[p])
          /\ UNCHANGED <<queue, missionOf, approved>>
    BY <1>10 DEF Record
  <2>2. [Next]_vars  BY <1>0, <2>1 DEF Next, LifecycleNext, LineageNext
  <2>3. QED  BY <2>1, <2>2, CallTyped
<1>11. CASE Complete(p) \/ Judge(p)
  <2>1. PICK there \in { "validate", "block", "approval", "finish" } :
          /\ Goto(p, there) /\ pc[p] \in Engaged
          /\ there = "approval" => target[p] \in ApprovalRequired
          /\ CompleteStage(mine[p], held[p])
          /\ UNCHANGED <<queue, missionOf, approved>>
    BY <1>11 DEF Complete, Judge
  <2>2. held[p] \in DOMAIN stages[mine[p]]  BY <2>1 DEF CompleteStage
  <2>3. [Next]_vars  BY <1>0, <2>1, <2>2 DEF Next, LifecycleNext
  <2>4. QED  BY <2>1, <2>3, CallTyped
<1>12. QED  BY <1>1, <1>2, <1>3, <1>4, <1>5, <1>6, <1>7, <1>8, <1>9, <1>10, <1>11

\* From the verdict to the end of the call, and the repairs of the queue.
LEMMA ClosingTyped ==
  ASSUME Typed, NEW p \in Process,
         \/ Finish(p) \/ Settle(p) \/ Block(p) \/ Stop(p) \/ Catch(p) \/ Blame(p) \/ Fail(p)
         \/ Certified(p) \/ Reactivate(p) \/ Crash(p)
  PROVE  [Next]_vars /\ LocalsTyped' /\ DurableTyped'
<1> USE DEF Location, Engaged, Early, Late, Working, At, Reaches
<1>0. /\ pc[p] \in Engaged => mine[p] \in Run
      /\ \A s \in { "COMPLETED", "BLOCKED", "FAILED" } : s \in CallerTargets
  BY DEF Typed, LocalsTyped, CallerTargets
<1>1. CASE Finish(p) \/ Certified(p)
  <2>1. PICK there \in { "settle", "catch", "idle" } :
          /\ Goto(p, there) /\ (there # "idle" => pc[p] \in Engaged)
          /\ \/ Updates(Updated(queue, target[p], "COMPLETE"))
             \/ UNCHANGED <<vars, queue, missionOf, approved>>
    BY <1>1 DEF Finish, Certified
  <2>2. Updated(queue, target[p], "COMPLETE") \in Queue  BY QueueUpdates
  <2>3. CASE Updates(Updated(queue, target[p], "COMPLETE"))
    BY <2>1, <2>2, <2>3, UpdatesTyped
  <2>4. CASE UNCHANGED <<vars, queue, missionOf, approved>>
    <3>1. [Next]_vars  BY <2>4
    <3>2. QED  BY <2>1, <2>4, <3>1, CallTyped
  <2>5. QED  BY <2>1, <2>3, <2>4
<1>2. CASE Settle(p)  BY <1>0, <1>2, MovesTyped DEF Settle
<1>3. CASE Stop(p)  BY <1>0, <1>3, MovesTyped DEF Stop
<1>4. CASE Fail(p)  BY <1>0, <1>4, MovesTyped DEF Fail
<1>5. CASE Block(p) \/ Blame(p)
  <2>1. PICK there \in { "stop", "fail" } :
          /\ Updates(Blocked(queue, missionOf[mine[p]])) /\ Goto(p, there) /\ pc[p] \in Engaged
    BY <1>5 DEF Block, Blame
  <2>2. Blocked(queue, missionOf[mine[p]]) \in Queue  BY QueueUpdates
  <2>3. QED  BY <2>1, <2>2, UpdatesTyped
<1>6. CASE Catch(p)
  <2>1. PICK there \in { "idle", "blame" } :
          /\ Goto(p, there) /\ pc[p] \in Engaged
          /\ UNCHANGED vars \/ FailStage(mine[p])
          /\ UNCHANGED <<queue, missionOf, approved>>
    BY <1>6 DEF Catch
  <2>2. [Next]_vars  BY <1>0, <2>1 DEF Next, LifecycleNext
  <2>3. QED  BY <2>1, <2>2, CallTyped
<1>7. CASE Reactivate(p)
  <2>1. Updates(Updated(queue, target[p], "ACTIVE")) /\ Goto(p, "idle")
    BY <1>7 DEF Reactivate
  <2>2. Updated(queue, target[p], "ACTIVE") \in Queue  BY QueueUpdates
  <2>3. QED  BY <2>1, <2>2, UpdatesTyped
<1>8. CASE Crash(p)
  <2>1. Goto(p, "idle") /\ [Next]_vars /\ UNCHANGED <<queue, missionOf, approved>>
    BY <1>8 DEF Crash
  <2>2. QED  BY <2>1, CallTyped
<1>9. QED  BY <1>1, <1>2, <1>3, <1>4, <1>5, <1>6, <1>7, <1>8

\* A reconciliation moves missions in hand between ACTIVE and blocked, and no other.
LEMMA ReconciledFacts ==
  ASSUME NEW q \in Queue, NEW s, NEW m \in Mission
  PROVE  /\ Reconciled(q, m, s) \in MissionItem
         /\ m \notin InHand(q) => Reconciled(q, m, s) = q[m]
         /\ Tidy(q) /\ m \in InHand(q) =>
              /\ Holding(Reconciled(q, m, s))
              /\ Reconciled(q, m, s).status # "COMPLETE"
<1>1. q[m] \in MissionItem  BY DEF Queue
<1>2. Reconciled(q, m, s) \in { q[m], [status |-> "BLOCKED", blocker |-> TRUE],
                                [status |-> "ACTIVE", blocker |-> FALSE] }
  BY DEF Reconciled, Executing
<1>3. m \notin InHand(q) => Reconciled(q, m, s) = q[m]
  BY DEF Reconciled
<1>4. \A item \in { [status |-> "BLOCKED", blocker |-> TRUE],
                    [status |-> "ACTIVE", blocker |-> FALSE] } :
        item \in MissionItem /\ Holding(item) /\ item.status # "COMPLETE"
  <2>1. ASSUME NEW item, item = [status |-> "BLOCKED", blocker |-> TRUE]
        PROVE  item \in MissionItem /\ Holding(item) /\ item.status # "COMPLETE"
    BY <2>1 DEF MissionItem, MissionStatus, Holding
  <2>2. ASSUME NEW item, item = [status |-> "ACTIVE", blocker |-> FALSE]
        PROVE  item \in MissionItem /\ Holding(item) /\ item.status # "COMPLETE"
    BY <2>2 DEF MissionItem, MissionStatus, Holding
  <2>3. QED  BY <2>1, <2>2
<1>5. Tidy(q) /\ m \in InHand(q) => Holding(q[m]) /\ q[m].status # "COMPLETE"
  BY <1>1, ItemIs DEF Tidy, InHand, Completed, Holding
<1>6. QED  BY <1>1, <1>2, <1>3, <1>4, <1>5

LEMMA ReconciliationFacts ==
  ASSUME Typed, ReconcileMissionExecutionState
  PROVE  /\ queue' \in Queue
         /\ Tidy(queue) => InHand(queue') = InHand(queue) /\ Completed(queue') = Completed(queue)
<1> DEFINE s(found, m) == IF found[m] = NoRun THEN "NONE" ELSE status[found[m]]
           t(found) == [m \in Mission |-> Reconciled(queue, m, s(found, m))]
<1>1. PICK found : queue' = Reconcile(t(found))  BY DEF ReconcileMissionExecutionState
<1>2. queue \in Queue  BY DEF Typed, DurableTyped
<1> DEFINE g == t(found)
<1>3. \A m \in Mission :
        /\ g[m] \in MissionItem
        /\ m \notin InHand(queue) => g[m] = queue[m]
        /\ Tidy(queue) /\ m \in InHand(queue) => Holding(g[m]) /\ g[m].status # "COMPLETE"
  <2>1. \A m \in Mission : g[m] = Reconciled(queue, m, s(found, m))  OBVIOUS
  <2> HIDE DEF g, s
  <2>2. QED  BY <1>2, <2>1, ReconciledFacts
<1>4. g \in Queue
  <2>1. g = [m \in Mission |-> g[m]]  OBVIOUS
  <2> HIDE DEF g
  <2>2. QED  BY <1>3, <2>1 DEF Queue
<1> HIDE DEF g, t, s
<1>5. queue' = Reconcile(g)  BY <1>1 DEF g
<1>6. /\ queue' \in Queue
      /\ InHand(queue') = InHand(g) /\ Completed(queue') = Completed(g)
  BY <1>4, <1>5, ReconcileFacts
<1>7. ASSUME Tidy(queue) PROVE InHand(g) = InHand(queue) /\ Completed(g) = Completed(queue)
  <2>1. \A m \in Mission : m \in InHand(g) <=> m \in InHand(queue)
    <3>1. \A m \in Mission : m \in InHand(g) <=> Holding(g[m])
      BY <1>3, ItemIs DEF InHand, Holding
    <3>2. \A m \in Mission : m \in InHand(queue) <=> Holding(queue[m])
      BY <1>2, ItemIs DEF InHand, Holding, Queue
    <3>3. QED  BY <1>3, <1>7, <3>1, <3>2
  <2>2. \A m \in Mission : m \in Completed(g) <=> m \in Completed(queue)
    <3>1. \A m \in Mission : m \in InHand(queue) => m \notin Completed(queue)
      BY <1>7 DEF Tidy
    <3>2. QED  BY <1>3, <1>7, <3>1 DEF Completed
  <2>3. \A x : /\ x \in InHand(g) \/ x \in InHand(queue) => x \in Mission
               /\ x \in Completed(g) \/ x \in Completed(queue) => x \in Mission
    BY DEF InHand, Completed
  <2>4. QED  BY <2>1, <2>2, <2>3
<1>8. QED  BY <1>6, <1>7

\* Every step of the runner, of any number of them, calls at most one method of the
\* production runtime.
LEMMA StepTyped ==
  ASSUME Typed, [RunnerNext]_allVars
  PROVE  [Next]_vars /\ LocalsTyped' /\ DurableTyped'
<1>1. CASE Operates
  <2>1. [Next]_vars  BY <1>1 DEF Operates, Next, LifecycleNext
  <2>2. UNCHANGED <<queue, missionOf, approved, pc, mine, held, target, seen>>
    BY <1>1 DEF Operates, runnerVars, localVars
  <2>3. QED  BY <2>1, <2>2 DEF Typed, LocalsTyped, DurableTyped
<1>2. CASE ReconcileMissionExecutionState
  <2>1. UNCHANGED <<vars, missionOf, approved, pc, mine, held, target, seen>>
    BY <1>2 DEF ReconcileMissionExecutionState, localVars
  <2>2. queue' \in Queue  BY <1>2, ReconciliationFacts
  <2>3. QED  BY <2>1, <2>2 DEF Typed, LocalsTyped, DurableTyped
<1>3. ASSUME NEW p \in Process, Runs(p)
      PROVE  [Next]_vars /\ LocalsTyped' /\ DurableTyped'
  BY <1>3, SelectionTyped, ExecutionTyped, ClosingTyped DEF Runs
<1>4. CASE UNCHANGED allVars
  BY <1>4 DEF allVars, runnerVars, localVars, Typed, LocalsTyped, DurableTyped
<1>5. QED  BY <1>1, <1>2, <1>3, <1>4 DEF RunnerNext

LEMMA NextKeepsTyped == Typed /\ [RunnerNext]_allVars => Typed'
  BY StepTyped, NextKeepsIInv DEF Typed

LEMMA TypedHolds == RunnerSpec => []Typed
  BY InitTyped, NextKeepsTyped, PTL DEF RunnerSpec

\* Running missions, by any number of processes that crash anywhere, is a behaviour
\* of the production runtime: no process opens, ends or moves anything the service
\* does not let it, and every theorem about the service holds of its runs.
THEOREM RunnersUseTheService == RunnerSpec => Spec
<1>1. RunnerInit => Init  BY DEF RunnerInit
<1>2. Typed /\ [RunnerNext]_allVars => [Next]_vars  BY StepTyped
<1>3. QED  BY <1>1, <1>2, TypedHolds, PTL DEF RunnerSpec, Spec

\* Every variable of the runner and its queue keeps its type.
THEOREM RunnerIsTyped == RunnerSpec => []RunnerTypeOK
<1>1. Typed => RunnerTypeOK
  BY DEF Typed, IInv, LocalsTyped, DurableTyped, RunnerTypeOK, Queue
<1>2. QED  BY <1>1, TypedHolds, PTL

-----------------------------------------------------------------------------
(* One process at a time: the invariant *)

\* One runner, beside any number of sweeps, pauses, resumes, cancellations and
\* reconciliations: two of them may take the same mission.
Alone == \A p, q \in Process : p = q

\* Runs that opened an execution stage, that are in it, and that were swept from it.
Executed    == { r \in Run : \E i \in DOMAIN stages[r] : stages[r][i].type = "EXECUTION" }
InExecution == { r \in Run : active[r] # 0 /\ stages[r][active[r]].type = "EXECUTION" }
Recoverable == { r \in Run : status[r] = "RECOVERING" /\ checkpoint[r] = "EXECUTION" }

\* Runs that executed and were cancelled since: nothing is done with them any more.
Spent == { r \in Executed \ InExecution : status[r] = "CANCELLED" }

\* Runs nobody takes up again, though one may still own its repository: the mission
\* of such a run may leave the hand, as it does when the authorization asked for after
\* its validation writes an old status back.
LetGo ==
  { r \in Executed \ (InExecution \cup Recoverable) :
      status[r] \in ActiveStatus \cup { "CANCELLED" } }

\* Runs that own their repository, or can be retried into owning it.
Live == { r \in Run : status[r] \in ActiveStatus \cup { "FAILED" } }

Hand == InHand(queue)
Done == Completed(queue)

QueueSafe ==
  /\ Hand \cap Done = {}
  /\ \A m, n \in Hand : m = n
  /\ \A m \in Hand : Requires[m] \subseteq Done

\* A mission has one run that executed it and is not spent, and the queue accounts for
\* that mission unless its run was let go.
RunsSafe ==
  /\ \A r \in Run : status[r] = "NONE" => r \notin Executed
  /\ \A r \in Run : status[r] # "NONE" => missionOf[r] \in Mission
  /\ \A r \in Executed \ LetGo : missionOf[r] \in Hand \cup Done
  /\ \A r, q \in Executed \ Spent : missionOf[r] = missionOf[q] => r = q
  /\ \A r \in Run : r \in Recoverable \cup InExecution \/ status[r] = "FAILED" =>
                      r \in Executed /\ missionOf[r] \in Hand
  /\ \A r \in Run : status[r] \in { "AWAITING_APPROVAL", "CERTIFIED" } =>
                      r \in Executed \ InExecution
  /\ \A r \in Run : status[r] = "COMPLETED" => r \in Executed /\ missionOf[r] \in Done
  /\ \A r, q \in Live : q \in Peers(r) => q = r

\* What a process engaged with a run may rely on, whatever others do to that run.
Engagement(p) ==
  /\ mine[p] \in Run
  /\ status[mine[p]] \in (ActiveStatus \ { "AWAITING_APPROVAL" }) \cup { "CANCELLED" }
  /\ target[p] = missionOf[mine[p]] /\ target[p] \in Mission
  /\ Hand \subseteq { target[p] } /\ Requires[target[p]] \subseteq Done
  /\ \A q \in Executed \ Spent : missionOf[q] = target[p] => q = mine[p]

\* ... and where it is.
Place(p) ==
  /\ pc[p] \in Engaged => Engagement(p)
  /\ pc[p] \in Early => target[p] \notin Done
  /\ pc[p] \in Working => target[p] \in Hand
  /\ pc[p] \in (Working \ { "open" }) \cup Late => mine[p] \in Executed
  /\ pc[p] \in { "validate", "check", "record", "judge", "approval", "finish" } =>
       mine[p] \notin InExecution
  /\ pc[p] \in { "check", "record", "judge", "approval", "finish" } =>
       mine[p] \notin Recoverable
  /\ pc[p] = "settle" => target[p] \in Done
  /\ pc[p] \in { "stop", "fail" } => target[p] \in Hand
  /\ pc[p] = "prompt" =>
       /\ Hand \subseteq { target[p] } /\ target[p] \in Mission \ Done
       /\ Requires[target[p]] \subseteq Done
       /\ \A q \in Executed \ LetGo : missionOf[q] # target[p]
  /\ pc[p] = "reactivate" => target[p] \in Hand
  /\ pc[p] = "certified" => \E r \in Run : status[r] = "CERTIFIED" /\ missionOf[r] = target[p]

Safe == QueueSafe /\ RunsSafe /\ \A p \in Process : Place(p)

-----------------------------------------------------------------------------
(* What the calls of the service do to those sets of runs *)

\* Steps that only take work away from a run, or its status along with it.
Mild ==
  /\ Executed' = Executed
  /\ InExecution' \subseteq InExecution
  /\ Recoverable' \subseteq Recoverable \cup InExecution
  /\ \A r \in Run : \/ status'[r] = status[r]
                    \/ /\ status[r] \in ActiveStatus
                       /\ status'[r] \in (ActiveStatus \ { "AWAITING_APPROVAL" }) \cup { "CANCELLED" }

LEMMA StillIsMild ==
  ASSUME UNCHANGED <<status, stages, active, checkpoint>>
  PROVE  Mild
  BY DEF Mild, Executed, InExecution, Recoverable

LEMMA HeartbeatIsMild ==
  ASSUME NEW r \in Run, Heartbeat(r)
  PROVE  Mild
  BY StillIsMild DEF Heartbeat, stageVars

LEMMA RecordValidationIsMild ==
  ASSUME NEW r \in Run, RecordValidation(r)
  PROVE  Mild
  BY StillIsMild DEF RecordValidation, stageVars

LEMMA TransitionFacts ==
  ASSUME Typed, NEW r \in Run, NEW s \in CallerTargets, Transition(r, s)
  PROVE  /\ status'[r] = s /\ \A q \in Run \ { r } : status'[q] = status[q]
         /\ Executed' = Executed /\ InExecution' = InExecution
         /\ Recoverable' = Recoverable \ { r }
<1>1. status' = [status EXCEPT ![r] = s] /\ UNCHANGED <<stages, active, checkpoint>>
  BY DEF Transition, CommitTransition, stageVars
<1>2. status \in [Run -> Status \cup { "NONE" }]  BY DEF Typed, IInv, TypeOK
<1>3. status'[r] = s /\ \A q \in Run \ { r } : status'[q] = status[q]  BY <1>1, <1>2
<1>4. Executed' = Executed /\ InExecution' = InExecution
  BY <1>1 DEF Executed, InExecution
<1>5. Recoverable' = Recoverable \ { r }
  BY <1>1, <1>3 DEF Recoverable, CallerTargets
<1>6. QED  BY <1>3, <1>4, <1>5

\* A new stage of run r.
LEMMA OpeningFacts ==
  ASSUME Typed, NEW r \in Run, NEW type \in StageType,
         stages' = Opened(r, type), active' = [active EXCEPT ![r] = Len(stages[r]) + 1]
  PROVE  /\ \A q \in Run \ { r } : stages'[q] = stages[q] /\ active'[q] = active[q]
         /\ r \in InExecution' <=> type = "EXECUTION"
         /\ r \in Executed' <=> r \in Executed \/ type = "EXECUTION"
<1> DEFINE e == [type |-> type, status |-> "RUNNING"]
           t == Append(stages[r], e)
<1>1. stages \in [Run -> Seq(Stage)] /\ active \in [Run -> Nat]  BY DEF Typed, IInv, TypeOK
<1>2. stages' = [stages EXCEPT ![r] = t]  BY DEF Opened
<1>3. e \in Stage /\ e.type = type  BY DEF Stage
<1> HIDE DEF e
<1>4. /\ DOMAIN t = 1 .. Len(stages[r]) + 1 /\ t[Len(stages[r]) + 1] = e
      /\ \A i \in DOMAIN stages[r] : i \in DOMAIN t /\ t[i] = stages[r][i]
      /\ \A i \in DOMAIN t : i = Len(stages[r]) + 1 \/ i \in DOMAIN stages[r]
      /\ Len(stages[r]) \in Nat
  BY <1>1, <1>3
<1> HIDE DEF t
<1>5. stages'[r] = t /\ active'[r] = Len(stages[r]) + 1  BY <1>1, <1>2
<1>6. \A q \in Run \ { r } : stages'[q] = stages[q] /\ active'[q] = active[q]
  BY <1>1, <1>2
<1>7. r \in InExecution' <=> type = "EXECUTION"
  BY <1>3, <1>4, <1>5 DEF InExecution
<1>8. r \in Executed' <=> r \in Executed \/ type = "EXECUTION"
  <2>1. r \in Executed' <=> \E i \in DOMAIN t : t[i].type = "EXECUTION"
    BY <1>5 DEF Executed
  <2>2. (\E i \in DOMAIN t : t[i].type = "EXECUTION") <=>
          type = "EXECUTION" \/ \E i \in DOMAIN stages[r] : stages[r][i].type = "EXECUTION"
    BY <1>3, <1>4
  <2>3. QED  BY <2>1, <2>2 DEF Executed
<1>9. QED  BY <1>6, <1>7, <1>8

\* Sets of runs that differ in run r only.
LEMMA OthersKeepTheirStages ==
  ASSUME NEW r \in Run, \A q \in Run \ { r } : stages'[q] = stages[q] /\ active'[q] = active[q]
  PROVE  \A q \in Run \ { r } : /\ q \in Executed' <=> q \in Executed
                                /\ q \in InExecution' <=> q \in InExecution
  BY DEF Executed, InExecution

LEMMA StartStageFacts ==
  ASSUME Typed, NEW r \in Run, NEW type \in StageType, StartStage(r, type)
  PROVE  /\ status' = status /\ Recoverable' = Recoverable
         /\ type = "EXECUTION" => /\ Executed' = Executed \cup { r }
                                  /\ InExecution' = InExecution \cup { r }
         /\ type # "EXECUTION" => Mild /\ r \notin InExecution'
<1>1. /\ status' = status /\ checkpoint' = checkpoint
      /\ stages' = Opened(r, type) /\ active' = [active EXCEPT ![r] = Len(stages[r]) + 1]
  BY DEF StartStage
<1>2. Recoverable' = Recoverable  BY <1>1 DEF Recoverable
<1>3. /\ \A q \in Run \ { r } : stages'[q] = stages[q] /\ active'[q] = active[q]
      /\ r \in InExecution' <=> type = "EXECUTION"
      /\ r \in Executed' <=> r \in Executed \/ type = "EXECUTION"
  BY <1>1, OpeningFacts
<1>4. \A q \in Run \ { r } : /\ q \in Executed' <=> q \in Executed
                             /\ q \in InExecution' <=> q \in InExecution
  BY <1>3, OthersKeepTheirStages
<1>5. Executed \subseteq Run /\ Executed' \subseteq Run /\ InExecution \subseteq Run /\ InExecution' \subseteq Run
  BY DEF Executed, InExecution
<1>6. CASE type = "EXECUTION"
  BY <1>1, <1>2, <1>3, <1>4, <1>5, <1>6
<1>7. CASE type # "EXECUTION"
  <2>1. Executed' = Executed /\ InExecution' \subseteq InExecution
    BY <1>3, <1>4, <1>5, <1>7
  <2>2. QED  BY <1>1, <1>2, <1>3, <1>7, <2>1 DEF Mild
<1>8. QED  BY <1>6, <1>7

\* Ending a stage of run r, whichever one, leaves it in no stage.
LEMMA EndingFacts ==
  ASSUME Typed, NEW r \in Run, NEW i \in DOMAIN stages[r], NEW x \in { "COMPLETED", "FAILED" },
         stages' = [stages EXCEPT ![r][i].status = x], active' = [active EXCEPT ![r] = 0]
  PROVE  /\ Executed' = Executed
         /\ InExecution' = InExecution \ { r }
<1> DEFINE t == [stages[r] EXCEPT ![i].status = x]
<1>1. stages \in [Run -> Seq(Stage)] /\ active \in [Run -> Nat]  BY DEF Typed, IInv, TypeOK
<1>2. stages' = [stages EXCEPT ![r] = t]  OBVIOUS
<1>3. /\ DOMAIN t = DOMAIN stages[r]
      /\ \A j \in DOMAIN stages[r] : t[j].type = stages[r][j].type
  <2>1. stages[r] \in Seq(Stage)  BY <1>1
  <2>2. QED  BY <2>1, EndStage
<1> HIDE DEF t
<1>4. stages'[r] = t /\ active'[r] = 0
      /\ \A q \in Run \ { r } : stages'[q] = stages[q] /\ active'[q] = active[q]
  BY <1>1, <1>2
<1>5. \A q \in Run \ { r } : /\ q \in Executed' <=> q \in Executed
                             /\ q \in InExecution' <=> q \in InExecution
  BY <1>4, OthersKeepTheirStages
<1>6. r \in Executed' <=> r \in Executed  BY <1>3, <1>4 DEF Executed
<1>7. r \notin InExecution'  BY <1>4 DEF InExecution
<1>8. Executed \subseteq Run /\ Executed' \subseteq Run /\ InExecution \subseteq Run /\ InExecution' \subseteq Run
  BY DEF Executed, InExecution
<1>9. QED  BY <1>5, <1>6, <1>7, <1>8

LEMMA CompleteStageFacts ==
  ASSUME Typed, NEW r \in Run, NEW i, CompleteStage(r, i)
  PROVE  Mild /\ r \notin InExecution'
<1>1. i \in DOMAIN stages[r]  BY DEF CompleteStage
<1>2. Executed' = Executed /\ InExecution' = InExecution \ { r }
  BY <1>1, EndingFacts DEF CompleteStage
<1>3. UNCHANGED <<status, checkpoint>>  BY DEF CompleteStage
<1>4. QED  BY <1>2, <1>3 DEF Mild, Recoverable

LEMMA FailStageFacts ==
  ASSUME Typed, NEW r \in Run, FailStage(r)
  PROVE  Mild
<1>1. active[r] \in DOMAIN stages[r]  BY DEF FailStage, Typed, IInv, ActiveStageRuns
<1>2. Executed' = Executed /\ InExecution' = InExecution \ { r }
  BY <1>1, EndingFacts DEF FailStage
<1>3. UNCHANGED <<status, checkpoint>>  BY DEF FailStage
<1>4. QED  BY <1>2, <1>3 DEF Mild, Recoverable

LEMMA ResumeFacts ==
  ASSUME Typed, NEW r \in Run, Resume(r)
  PROVE  Mild /\ status'[r] \in { "RUNNING", "VALIDATING" }
<1>0. status \in [Run -> Status \cup { "NONE" }] /\ active \in [Run -> Nat]
  BY DEF Typed, IInv, TypeOK
<1>1. PICK s \in { "RUNNING", "VALIDATING" } : status' = [status EXCEPT ![r] = s]
  BY DEF Resume, BackToWork
<1>2. /\ status'[r] = s /\ \A q \in Run \ { r } : status'[q] = status[q]
      /\ status[r] \in { "PAUSED", "RECOVERING" } /\ checkpoint' = checkpoint
  BY <1>0, <1>1 DEF Resume
<1>3. Recoverable' \subseteq Recoverable  BY <1>2 DEF Recoverable
<1>4. \A q \in Run : \/ status'[q] = status[q]
                     \/ /\ status[q] \in ActiveStatus
                        /\ status'[q] \in ActiveStatus \ { "AWAITING_APPROVAL" }
  BY <1>2 DEF ActiveStatus
<1>5. Executed' = Executed /\ InExecution' \subseteq InExecution
  <2>1. CASE UNCHANGED <<stages, active>>  BY <2>1 DEF Executed, InExecution
  <2>2. CASE /\ stages' = Opened(r, "VALIDATION")
             /\ active' = [active EXCEPT ![r] = Len(stages[r]) + 1]
    <3>1. /\ \A q \in Run \ { r } : stages'[q] = stages[q] /\ active'[q] = active[q]
          /\ r \notin InExecution' /\ (r \in Executed' <=> r \in Executed)
      BY <2>2, OpeningFacts, ConstantAssumption
    <3>2. \A q \in Run \ { r } : /\ q \in Executed' <=> q \in Executed
                                 /\ q \in InExecution' <=> q \in InExecution
      BY <3>1, OthersKeepTheirStages
    <3>3. Executed \subseteq Run /\ Executed' \subseteq Run /\ InExecution' \subseteq Run
      BY DEF Executed, InExecution
    <3>4. QED  BY <3>1, <3>2, <3>3
  <2>3. QED  BY <2>1, <2>2 DEF Resume, BackToWork, stageVars
<1>6. QED  BY <1>2, <1>3, <1>4, <1>5 DEF Mild

LEMMA PauseAndCancelAreMild ==
  ASSUME Typed, NEW r \in Run, Pause(r) \/ Cancel(r)
  PROVE  Mild
<1>0. status \in [Run -> Status \cup { "NONE" }]  BY DEF Typed, IInv, TypeOK
<1>1. PICK s \in { "PAUSED", "CANCELLED" } :
        /\ status' = [status EXCEPT ![r] = s] /\ UNCHANGED <<stages, active, checkpoint>>
        /\ MayTransition(status[r], s)
        /\ status[r] \in Status \ Terminal
  BY <1>0 DEF Pause, Cancel, CommitTransition, stageVars, Begun, Pausable, Status, Terminal
<1>2. status'[r] = s /\ \A q \in Run \ { r } : status'[q] = status[q]  BY <1>0, <1>1
<1>3. status[r] \in ActiveStatus
  BY <1>1 DEF MayTransition, Successors, Status, Terminal, ActiveStatus
<1>4. s \in (ActiveStatus \ { "AWAITING_APPROVAL" }) \cup { "CANCELLED" }  BY DEF ActiveStatus
<1>5. Recoverable' \subseteq Recoverable  BY <1>1, <1>2 DEF Recoverable
<1>6. Executed' = Executed /\ InExecution' = InExecution  BY <1>1 DEF Executed, InExecution
<1>7. QED  BY <1>2, <1>3, <1>4, <1>5, <1>6 DEF Mild

\* The sweep takes a run out of its execution stage and leaves that as its checkpoint.
LEMMA SweepIsMild ==
  ASSUME Typed, RecoverStaleRuns
  PROVE  Mild
<1>0. /\ stages \in [Run -> Seq(Stage)] /\ ActiveStageRuns
      /\ \A r \in Run : checkpoint[r] \in StageType \cup { "RUN_START", "NONE" }
  BY DEF Typed, IInv, TypeOK
<1>1. ASSUME NEW r \in Run
      PROVE  /\ status'[r] = IF r \in Swept THEN "RECOVERING" ELSE status[r]
             /\ active'[r] = IF r \in Swept THEN 0 ELSE active[r]
             /\ checkpoint'[r] = IF r \notin Swept THEN checkpoint[r]
                                 ELSE IF active[r] # 0 THEN stages[r][active[r]].type
                                 ELSE "RUN_START"
             /\ stages'[r] = IF r \in Swept /\ StageOpen(r)
                             THEN [stages[r] EXCEPT ![active[r]].status = "FAILED"]
                             ELSE stages[r]
  BY DEF RecoverStaleRuns
<1>2. ASSUME NEW r \in Run
      PROVE  /\ DOMAIN stages'[r] = DOMAIN stages[r]
             /\ \A i \in DOMAIN stages[r] : stages'[r][i].type = stages[r][i].type
  <2>1. CASE r \in Swept /\ StageOpen(r)
    <3>1. active[r] \in DOMAIN stages[r] /\ stages[r] \in Seq(Stage)
      BY <1>0, <2>1 DEF StageOpen, ActiveStageRuns
    <3>2. stages'[r] = [stages[r] EXCEPT ![active[r]].status = "FAILED"]  BY <1>1, <2>1
    <3>3. QED  BY <3>1, <3>2, EndStage
  <2>2. CASE ~(r \in Swept /\ StageOpen(r))  BY <1>1, <2>2
  <2>3. QED  BY <2>1, <2>2
<1>3. Executed' = Executed  BY <1>2 DEF Executed
<1>4. ASSUME NEW r \in InExecution' PROVE r \in InExecution
  <2>1. r \in Run /\ active'[r] # 0 /\ stages'[r][active'[r]].type = "EXECUTION"
    BY <1>4 DEF InExecution
  <2>2. active'[r] = active[r] /\ active[r] # 0  BY <1>1, <2>1
  <2>3. active[r] \in DOMAIN stages[r]  BY <1>0, <2>1, <2>2 DEF ActiveStageRuns
  <2>4. stages[r][active[r]].type = "EXECUTION"  BY <1>2, <2>1, <2>2, <2>3
  <2>5. QED  BY <2>1, <2>2, <2>4 DEF InExecution
<1>5. ASSUME NEW r \in Recoverable' PROVE r \in Recoverable \cup InExecution
  <2>1. r \in Run /\ status'[r] = "RECOVERING" /\ checkpoint'[r] = "EXECUTION"
    BY <1>5 DEF Recoverable
  <2>2. CASE r \in Swept
    <3>1. active[r] # 0 /\ stages[r][active[r]].type = "EXECUTION"  BY <1>1, <2>1, <2>2
    <3>2. QED  BY <2>1, <3>1 DEF InExecution
  <2>3. CASE r \notin Swept
    BY <1>1, <2>1, <2>3 DEF Recoverable
  <2>4. QED  BY <2>2, <2>3
<1>6. \A r \in Run : \/ status'[r] = status[r]
                     \/ /\ status[r] \in ActiveStatus
                        /\ status'[r] \in ActiveStatus \ { "AWAITING_APPROVAL" }
  BY <1>1 DEF Swept, ActiveStatus
<1>7. QED  BY <1>3, <1>4, <1>5, <1>6 DEF Mild

LEMMA OperatesIsMild ==
  ASSUME Typed, Operates
  PROVE  Mild /\ UNCHANGED <<queue, missionOf, pc, mine, target, seen>>
<1>1. Tick => Mild  BY StillIsMild DEF Tick, stageVars
<1>2. Mild  BY <1>1, SweepIsMild, ResumeFacts, PauseAndCancelAreMild DEF Operates
<1>3. QED  BY <1>2 DEF Operates, runnerVars, localVars

LEMMA BeginFacts ==
  ASSUME Typed, NEW r \in Run, Begin(r)
  PROVE  /\ status[r] = "NONE" /\ status'[r] = "AUTHORIZED"
         /\ \A q \in Run \ { r } : status'[q] = status[q]
         /\ \A q \in Peers(r) : status[q] \notin ActiveStatus
         /\ Executed' = Executed /\ InExecution' = InExecution
         /\ Recoverable' = Recoverable
<1>1. status \in [Run -> Status \cup { "NONE" }]  BY DEF Typed, IInv, TypeOK
<1>2. /\ status[r] = "NONE" /\ status' = [status EXCEPT ![r] = "AUTHORIZED"]
      /\ UNCHANGED <<stages, active, checkpoint>> /\ NoActivePeer(r)
  BY DEF Begin, stageVars
<1>3. status'[r] = "AUTHORIZED" /\ \A q \in Run \ { r } : status'[q] = status[q]
  BY <1>1, <1>2
<1>4. Executed' = Executed /\ InExecution' = InExecution  BY <1>2 DEF Executed, InExecution
<1>5. Recoverable' = Recoverable  BY <1>2, <1>3 DEF Recoverable
<1>6. QED  BY <1>2, <1>3, <1>4, <1>5 DEF NoActivePeer

LEMMA RetryFacts ==
  ASSUME Typed, NEW r \in Run, RecoverFailedExecution(r)
  PROVE  /\ status[r] = "FAILED" /\ status'[r] = "RECOVERING"
         /\ \A q \in Run \ { r } : status'[q] = status[q]
         /\ Executed' = Executed /\ InExecution' \subseteq InExecution
         /\ Recoverable' \subseteq Recoverable \cup { r }
<1>1. /\ status \in [Run -> Status \cup { "NONE" }] /\ active \in [Run -> Nat]
      /\ checkpoint \in [Run -> StageType \cup { "RUN_START", "NONE" }]
  BY DEF Typed, IInv, TypeOK
<1>2. /\ status[r] = "FAILED" /\ status' = [status EXCEPT ![r] = "RECOVERING"]
      /\ active' = [active EXCEPT ![r] = 0] /\ stages' = stages
      /\ checkpoint' = [checkpoint EXCEPT ![r] = "EXECUTION"]
  BY DEF RecoverFailedExecution, CommitTransition
<1>3. /\ status'[r] = "RECOVERING" /\ \A q \in Run \ { r } : status'[q] = status[q]
      /\ active'[r] = 0 /\ \A q \in Run \ { r } : active'[q] = active[q]
      /\ \A q \in Run \ { r } : checkpoint'[q] = checkpoint[q]
  BY <1>1, <1>2
<1>4. Executed' = Executed  BY <1>2 DEF Executed
<1>5. InExecution' \subseteq InExecution  BY <1>2, <1>3 DEF InExecution
<1>6. Recoverable' \subseteq Recoverable \cup { r }  BY <1>3 DEF Recoverable
<1>7. QED  BY <1>2, <1>3, <1>4, <1>5, <1>6

-----------------------------------------------------------------------------
(* One process at a time: the steps *)

LEMMA QueueSafeIsTidy == QueueSafe => Tidy(queue)
  BY DEF QueueSafe, Tidy, Hand, Done

\* A process that moves on, and what it keeps.
LEMMA GotoFacts ==
  ASSUME Typed, NEW p \in Process, NEW there \in Location, Goto(p, there)
  PROVE  /\ pc'[p] = there
         /\ there # "idle" => mine'[p] = mine[p] /\ target'[p] = target[p]
  BY DEF Typed, LocalsTyped, Goto, localVars

LEMMA StatusIs ==
  ASSUME Typed
  PROVE  /\ \A r \in Run : status[r] \in Status \cup { "NONE" }
         /\ Executed \subseteq Run /\ InExecution \subseteq Run /\ Recoverable \subseteq Run
         /\ Spent \subseteq LetGo /\ LetGo \subseteq Executed
         /\ Live \subseteq Run /\ Hand \subseteq Mission /\ Done \subseteq Mission
<1>1. Spent \subseteq LetGo /\ LetGo \subseteq Executed  BY DEF Spent, LetGo, Recoverable
<1>2. QED
  BY <1>1
  DEF Typed, IInv, TypeOK, Executed, InExecution, Recoverable, Live, Hand, Done, InHand, Completed

\* A run once spent stays so, and one that was let go is not taken up again.
LEMMA MildKeepsSpent ==
  ASSUME Mild PROVE Spent \subseteq Spent' /\ LetGo \subseteq LetGo'
<1>1. \A r \in Run : status[r] = "CANCELLED" => status'[r] = "CANCELLED"
  BY DEF Mild, ActiveStatus
<1>2. Executed \subseteq Run  BY DEF Executed
<1>3. QED  BY <1>1, <1>2 DEF Mild, Spent, LetGo

\* The mild steps keep the account of the runs.
LEMMA MildKeepsRuns ==
  ASSUME Typed, QueueSafe, RunsSafe, Mild, Hand' = Hand, Done' = Done, UNCHANGED missionOf
  PROVE  QueueSafe' /\ RunsSafe'
<1>1. QueueSafe'  BY DEF QueueSafe
<1>2. Live' \subseteq Live  BY DEF Live, Mild
<1>3. \A r, q \in Live' : q \in Peers(r) => q = r  BY <1>2 DEF RunsSafe
<1>4. \A r \in Run : /\ status'[r] = "NONE" <=> status[r] = "NONE"
                     /\ status'[r] \in { "FAILED", "AWAITING_APPROVAL", "CERTIFIED", "COMPLETED" } =>
                          status[r] = status'[r]
  BY DEF Mild, ActiveStatus
<1>5. RunsSafe'  BY <1>3, <1>4, MildKeepsSpent DEF RunsSafe, Mild, Peers
<1>6. QED  BY <1>1, <1>5

\* ... and whatever process looks on, its place.
LEMMA MildKeepsPlace ==
  ASSUME Typed, NEW p \in Process, Place(p), Mild, Hand' = Hand, Done' = Done,
         UNCHANGED <<missionOf, pc, mine, target, seen>>
  PROVE  Place(p)'
<1>1. Engagement(p) => Engagement(p)'
  BY MildKeepsSpent DEF Engagement, Mild, ActiveStatus
<1>2. \A r \in Run : status[r] = "CERTIFIED" => status'[r] = "CERTIFIED"
  BY DEF Mild, ActiveStatus
<1>3. QED  BY <1>1, <1>2, MildKeepsSpent DEF Place, Mild, Engaged, Working

\* A process that is not engaged and waits for nothing has nothing to keep.
LEMMA IdlePlace ==
  ASSUME NEW p \in Process, pc'[p] \in { "idle", "select" }
  PROVE  Place(p)'
  BY DEF Place, Engaged, Early, Late, Working

\* The queue before and after a mission is given its place in it.
LEMMA HandFacts ==
  ASSUME Typed, NEW m \in Mission
  PROVE  /\ queue' = Updated(queue, m, "ACTIVE") => Hand' = Hand \cup { m } /\ Done' = Done \ { m }
         /\ queue' = Updated(queue, m, "COMPLETE") => Hand' = Hand \ { m } /\ Done' = Done \cup { m }
         /\ queue' = Blocked(queue, m) => Hand' = Hand \cup { m } /\ Done' = Done \ { m }
         /\ queue' = queue => Hand' = Hand /\ Done' = Done
<1>1. queue \in Queue  BY DEF Typed, DurableTyped
<1>2. QED  BY <1>1, UpdatedActive, UpdatedComplete, BlockedFacts DEF Hand, Done

LEMMA QueueSame ==
  ASSUME queue' = queue
  PROVE  Hand' = Hand /\ Done' = Done
  BY DEF Hand, Done

\* An engaged process whose call was mild is as engaged as before.
LEMMA EngagementAfterCall ==
  ASSUME Typed, NEW p \in Process, Place(p), pc[p] \in Engaged, Mild,
         UNCHANGED <<queue, missionOf>>, NEW there \in Engaged, Goto(p, there)
  PROVE  /\ Engagement(p) /\ Engagement(p)'
         /\ pc'[p] = there /\ mine'[p] = mine[p] /\ target'[p] = target[p]
         /\ Hand' = Hand /\ Done' = Done
<1>1. there \in Location /\ there # "idle"
  BY DEF Engaged, Early, Late, Working, Location
<1>2. pc'[p] = there /\ mine'[p] = mine[p] /\ target'[p] = target[p]  BY <1>1, GotoFacts
<1>3. Hand' = Hand /\ Done' = Done  BY QueueSame
<1>4. Engagement(p)  BY DEF Place
<1>5. Engagement(p)'
  BY <1>2, <1>3, <1>4, MildKeepsSpent DEF Engagement, Mild, ActiveStatus
<1>6. QED  BY <1>2, <1>3, <1>4, <1>5

\* The calls of an engaged process that change no status.
LEMMA CallsKeepPlace ==
  ASSUME Typed, RunsSafe, NEW p \in Process, Place(p),
         Answer(p) \/ Complete(p) \/ Check(p) \/ Record(p) \/ Judge(p) \/ Catch(p)
  PROVE  Mild /\ UNCHANGED <<queue, missionOf>> /\ Place(p)'
<1> DEFINE Step(there) == /\ Goto(p, there) /\ Mild /\ UNCHANGED <<queue, missionOf>>
<1>0. pc[p] \in Engaged => mine[p] \in Run  BY DEF Typed, LocalsTyped
<1>1. CASE Answer(p)
  <2>1. pc[p] = "await"  BY <1>1 DEF Answer, At
  <2>2. pc[p] \in Engaged /\ mine[p] \in Run
    BY <1>0, <2>1 DEF Engaged, Working
  <2>3. UNCHANGED vars => Mild  BY StillIsMild DEF vars, stageVars
  <2>4. PICK there \in { "catch", "complete" } : Step(there)
    BY <1>1, <2>2, <2>3, HeartbeatIsMild DEF Answer
  <2>5. there \in Engaged  BY DEF Engaged, Working, Late
  <2>6. Place(p)'
    BY <2>1, <2>2, <2>4, <2>5, EngagementAfterCall DEF Place, Engaged, Early, Late, Working, Mild
  <2>7. QED  BY <2>4, <2>6
<1>2. CASE Complete(p)
  <2>1. pc[p] = "complete" /\ CompleteStage(mine[p], held[p])  BY <1>2 DEF Complete, At
  <2>2. pc[p] \in Engaged /\ mine[p] \in Run /\ "validate" \in Engaged
    BY <1>0, <2>1 DEF Engaged, Working
  <2>3. Mild /\ mine[p] \notin InExecution'  BY <2>1, <2>2, CompleteStageFacts
  <2>4. Step("validate")  BY <1>2, <2>3 DEF Complete
  <2>5. Place(p)'
    BY <2>1, <2>2, <2>3, <2>4, EngagementAfterCall DEF Place, Engaged, Early, Late, Working, Mild
  <2>6. QED  BY <2>4, <2>5
<1>3. CASE Judge(p)
  <2>1. pc[p] = "judge" /\ CompleteStage(mine[p], held[p])  BY <1>3 DEF Judge, At
  <2>2. pc[p] \in Engaged /\ mine[p] \in Run
    BY <1>0, <2>1 DEF Engaged, Working
  <2>3. Mild /\ mine[p] \notin InExecution'  BY <2>1, <2>2, CompleteStageFacts
  <2>4. PICK there \in { "block", "approval", "finish" } : Step(there)
    BY <1>3, <2>3 DEF Judge
  <2>5. there \in Engaged  BY DEF Engaged, Working
  <2>6. Place(p)'
    BY <2>1, <2>2, <2>3, <2>4, <2>5, EngagementAfterCall
    DEF Place, Engaged, Early, Late, Working, Mild
  <2>7. QED  BY <2>4, <2>6
<1>4. CASE Check(p)
  <2>1. pc[p] = "check" /\ Opens(p, "VALIDATION", "record", "catch")  BY <1>4 DEF Check, At
  <2>2. pc[p] \in Engaged /\ mine[p] \in Run
    BY <1>0, <2>1 DEF Engaged, Working
  <2>3. CASE StageOpen(mine[p])
    <3>1. Step("catch")  BY <2>1, <2>2, <2>3, HeartbeatIsMild DEF Opens
    <3>2. "catch" \in Engaged  BY DEF Engaged, Late
    <3>3. Place(p)'
      BY <2>1, <2>2, <3>1, <3>2, EngagementAfterCall
      DEF Place, Engaged, Early, Late, Working, Mild
    <3>4. QED  BY <3>1, <3>3
  <2>4. CASE ~StageOpen(mine[p])
    <3>1. /\ StartStage(mine[p], "VALIDATION") /\ pc' = [pc EXCEPT ![p] = "record"]
          /\ UNCHANGED <<mine, target, seen, queue, missionOf>>
      BY <2>1, <2>4 DEF Opens
    <3>2. Mild /\ mine[p] \notin InExecution'
      BY <2>2, <3>1, StartStageFacts, ConstantAssumption
    <3>3. pc'[p] = "record" /\ Hand' = Hand /\ Done' = Done
      BY <3>1, QueueSame DEF Typed, LocalsTyped
    <3>4. Engagement(p)'
      BY <2>2, <3>1, <3>2, <3>3, MildKeepsSpent DEF Place, Engagement, Mild, ActiveStatus
    <3>5. Place(p)'
      BY <2>1, <2>2, <3>1, <3>2, <3>3, <3>4 DEF Place, Engaged, Early, Late, Working, Mild
    <3>6. QED  BY <3>1, <3>2, <3>5
  <2>5. QED  BY <2>3, <2>4
<1>5. CASE Record(p)
  <2>1. pc[p] = "record"  BY <1>5 DEF Record, At
  <2>2. pc[p] \in Engaged /\ mine[p] \in Run
    BY <1>0, <2>1 DEF Engaged, Working
  <2>3. PICK there \in { "judge", "idle" } : Step(there)
    BY <1>5, <2>2, HeartbeatIsMild, RecordValidationIsMild DEF Record
  <2>4. Place(p)'
    <3>1. CASE there = "idle"
      BY <2>3, <3>1, GotoFacts, IdlePlace DEF Location
    <3>2. CASE there = "judge"
      <4>1. "judge" \in Engaged  BY DEF Engaged, Working
      <4>2. QED
        BY <2>1, <2>2, <2>3, <3>2, <4>1, EngagementAfterCall
        DEF Place, Engaged, Early, Late, Working, Mild
    <3>3. QED  BY <3>1, <3>2
  <2>5. QED  BY <2>3, <2>4
<1>6. CASE Catch(p)
  <2>1. pc[p] = "catch"  BY <1>6 DEF Catch, At
  <2>2. pc[p] \in Engaged /\ mine[p] \in Run
    BY <1>0, <2>1 DEF Engaged, Late
  <2>3. UNCHANGED vars => Mild  BY StillIsMild DEF vars, stageVars
  <2>4. PICK there \in { "idle", "blame" } : Step(there)
    BY <1>6, <2>2, <2>3, FailStageFacts DEF Catch
  <2>5. Place(p)'
    <3>1. CASE there = "idle"
      BY <2>4, <3>1, GotoFacts, IdlePlace DEF Location
    <3>2. CASE there = "blame"
      <4>1. "blame" \in Engaged  BY DEF Engaged, Late
      <4>2. QED
        BY <2>1, <2>2, <2>4, <3>2, <4>1, EngagementAfterCall
        DEF Place, Engaged, Early, Late, Working, Mild
    <3>3. QED  BY <3>1, <3>2
  <2>6. QED  BY <2>4, <2>5
<1>7. QED  BY <1>1, <1>2, <1>3, <1>4, <1>5, <1>6

\* A transition spends no run, and brings none back.
LEMMA TransitionKeepsSpent ==
  ASSUME NEW r \in Run, NEW s \in CallerTargets, status[r] \in ActiveStatus, status'[r] = s,
         \A q \in Run \ { r } : status'[q] = status[q],
         Executed' = Executed, InExecution' = InExecution
  PROVE  Spent' = Spent
<1>1. status[r] # "CANCELLED" /\ s # "CANCELLED"  BY DEF ActiveStatus, CallerTargets
<1>2. Executed \subseteq Run  BY DEF Executed
<1>3. QED  BY <1>1, <1>2 DEF Spent

\* A transition the runner asks for keeps the account of the runs.
LEMMA TransitionKeepsRuns ==
  ASSUME Typed, QueueSafe, RunsSafe, NEW r \in Run, NEW s \in CallerTargets, Transition(r, s),
         status[r] \in ActiveStatus, UNCHANGED <<queue, missionOf>>,
         s \in { "AWAITING_APPROVAL", "CERTIFIED" } => r \in Executed \ InExecution,
         s = "COMPLETED" => r \in Executed /\ missionOf[r] \in Done,
         s = "FAILED" => r \in Executed /\ missionOf[r] \in Hand,
         s \in Terminal => missionOf[r] \in Hand \cup Done
  PROVE  QueueSafe' /\ RunsSafe'
<1>1. /\ status'[r] = s /\ \A q \in Run \ { r } : status'[q] = status[q]
      /\ Executed' = Executed /\ InExecution' = InExecution
      /\ Recoverable' = Recoverable \ { r }
  BY TransitionFacts
<1>2. Hand' = Hand /\ Done' = Done  BY QueueSame
<1>3. QueueSafe'  BY <1>2 DEF QueueSafe
<1>4. status[r] # "NONE" /\ s # "NONE"  BY DEF ActiveStatus, CallerTargets
<1>5. Live' \subseteq Live
  BY <1>1 DEF Live
<1>6. \A q, t \in Live' : t \in Peers(q) => t = q  BY <1>5 DEF RunsSafe, Peers
<1>7. Spent' = Spent  BY <1>1, TransitionKeepsSpent
<1>8. \A q \in Executed \ LetGo' : missionOf[q] \in Hand \cup Done
  <2>1. \A q \in LetGo \ { r } : q \in LetGo'  BY <1>1 DEF LetGo, Executed
  <2>2. CASE s \in Terminal  BY <2>1, <2>2 DEF RunsSafe
  <2>3. CASE s \notin Terminal
    <3>1. s \in ActiveStatus  BY <2>3 DEF CallerTargets, Terminal, ActiveStatus
    <3>2. r \in LetGo => r \in LetGo'  BY <1>1, <3>1 DEF LetGo
    <3>3. QED  BY <2>1, <3>2 DEF RunsSafe
  <2>4. QED  BY <2>2, <2>3
<1>9. RunsSafe'
  BY <1>1, <1>2, <1>4, <1>6, <1>7, <1>8 DEF RunsSafe, Peers
<1>10. QED  BY <1>3, <1>9

\* The run of an engaged process is active when the table accepts a transition.
LEMMA EngagedRunIsActive ==
  ASSUME NEW p \in Process, Engagement(p), NEW s, s # "CANCELLED", MayTransition(status[mine[p]], s)
  PROVE  status[mine[p]] \in ActiveStatus
  BY DEF Engagement, MayTransition, Successors

\* The handler's way out, when the table refuses.
LEMMA RefusalKeepsPlace ==
  ASSUME Typed, NEW p \in Process, Place(p), pc[p] \in Engaged, UNCHANGED vars,
         UNCHANGED <<queue, missionOf>>, NEW handler \in { "idle", "catch" }, Goto(p, handler),
         handler = "catch" => mine[p] \in Executed
  PROVE  Mild /\ Place(p)'
<1>1. Mild  BY StillIsMild DEF vars, stageVars
<1>2. CASE handler = "idle"  BY <1>1, <1>2, GotoFacts, IdlePlace DEF Location
<1>3. CASE handler = "catch"
  <2>1. "catch" \in Engaged  BY DEF Engaged, Late
  <2>2. /\ Engagement(p)' /\ pc'[p] = "catch" /\ mine'[p] = mine[p]
    BY <1>1, <1>3, <2>1, EngagementAfterCall
  <2>3. Place(p)'
    BY <1>1, <1>3, <2>2 DEF Place, Engaged, Early, Late, Working, Mild
  <2>4. QED  BY <1>1, <2>3
<1>4. QED  BY <1>2, <1>3

\* The call of transition by an engaged process.
LEMMA MovesSafe ==
  ASSUME Typed, QueueSafe, RunsSafe, NEW p \in Process, Place(p), pc[p] \in Engaged,
         NEW s \in CallerTargets, NEW there \in Location, NEW handler \in { "idle", "catch" },
         Moves(p, s, there, handler),
         handler = "catch" => mine[p] \in Executed,
         s \in { "AWAITING_APPROVAL", "CERTIFIED" } => mine[p] \in Executed \ InExecution,
         s = "COMPLETED" => mine[p] \in Executed /\ missionOf[mine[p]] \in Done,
         s = "FAILED" => mine[p] \in Executed /\ missionOf[mine[p]] \in Hand,
         s \in Terminal => missionOf[mine[p]] \in Hand \cup Done
  PROVE  /\ QueueSafe' /\ RunsSafe'
         /\ \/ Place(p)'
            \/ /\ Engagement(p) /\ pc'[p] = there /\ status'[mine[p]] = s
               /\ there # "idle" => mine'[p] = mine[p] /\ target'[p] = target[p]
               /\ Executed' = Executed /\ InExecution' = InExecution
               /\ Recoverable' = Recoverable \ { mine[p] } /\ Spent' = Spent
               /\ Hand' = Hand /\ Done' = Done /\ UNCHANGED missionOf
<1>0. Engagement(p) /\ mine[p] \in Run  BY DEF Place, Engagement
<1>1. UNCHANGED <<queue, missionOf>>  BY MovesFacts
<1>2. Hand' = Hand /\ Done' = Done  BY <1>1, QueueSame
<1>3. CASE UNCHANGED vars /\ Goto(p, handler)
  <2>1. Mild /\ Place(p)'  BY <1>1, <1>3, RefusalKeepsPlace
  <2>2. QueueSafe' /\ RunsSafe'  BY <1>1, <1>2, <2>1, MildKeepsRuns
  <2>3. QED  BY <2>1, <2>2
<1>4. CASE Transition(mine[p], s) /\ MayTransition(status[mine[p]], s) /\ Goto(p, there)
  <2>1. s # "CANCELLED"  BY DEF CallerTargets
  <2>2. status[mine[p]] \in ActiveStatus  BY <1>0, <1>4, <2>1, EngagedRunIsActive
  <2>3. QueueSafe' /\ RunsSafe'  BY <1>0, <1>1, <1>4, <2>2, TransitionKeepsRuns
  <2>4. /\ status'[mine[p]] = s
        /\ Executed' = Executed /\ InExecution' = InExecution
        /\ Recoverable' = Recoverable \ { mine[p] } /\ Spent' = Spent
    BY <1>0, <1>4, <2>2, TransitionFacts, TransitionKeepsSpent
  <2>5. /\ pc'[p] = there
        /\ there # "idle" => mine'[p] = mine[p] /\ target'[p] = target[p]
    BY <1>4, GotoFacts
  <2>6. QED  BY <1>0, <1>1, <1>2, <2>3, <2>4, <2>5
<1>5. QED  BY <1>3, <1>4, MovesFacts

LEMMA TransitionsSafe ==
  ASSUME Typed, QueueSafe, RunsSafe, NEW p \in Process, Place(p),
         \/ Enqueue(p) \/ Start(p) \/ Go(p) \/ Validate(p) \/ Approval(p)
         \/ Settle(p) \/ Stop(p) \/ Fail(p)
  PROVE  QueueSafe' /\ RunsSafe' /\ Place(p)'
<1> USE DEF At
<1>0. /\ "QUEUED" \in CallerTargets /\ "STARTING" \in CallerTargets /\ "RUNNING" \in CallerTargets
      /\ "VALIDATING" \in CallerTargets /\ "AWAITING_APPROVAL" \in CallerTargets
      /\ "COMPLETED" \in CallerTargets /\ "BLOCKED" \in CallerTargets /\ "FAILED" \in CallerTargets
  BY DEF CallerTargets
<1>1. /\ \A here \in { "start", "go", "activate", "check", "idle", "prompt" } : here \in Location
      /\ \A s \in { "QUEUED", "STARTING", "RUNNING", "VALIDATING", "AWAITING_APPROVAL" } :
           s \notin Terminal
  BY DEF Location, Terminal
<1>2. ASSUME NEW s \in { "QUEUED", "STARTING", "RUNNING" }, NEW there \in { "start", "go", "activate" },
             Moves(p, s, there, "idle"), pc[p] \in { "queue", "start", "go" }
      PROVE  QueueSafe' /\ RunsSafe' /\ Place(p)'
  <2>1. pc[p] \in Engaged  BY <1>2 DEF Engaged, Early
  <2>2. /\ QueueSafe' /\ RunsSafe'
        /\ \/ Place(p)'
           \/ /\ Engagement(p) /\ pc'[p] = there /\ status'[mine[p]] = s
              /\ mine'[p] = mine[p] /\ target'[p] = target[p]
              /\ Executed' = Executed /\ Spent' = Spent
              /\ Hand' = Hand /\ Done' = Done /\ UNCHANGED missionOf
    BY <1>0, <1>1, <1>2, <2>1, MovesSafe
  <2>3. ASSUME Engagement(p), pc'[p] = there, status'[mine[p]] = s,
               mine'[p] = mine[p], target'[p] = target[p],
               Executed' = Executed, Spent' = Spent,
               Hand' = Hand, Done' = Done, UNCHANGED missionOf
        PROVE  Place(p)'
    <3>1. Engagement(p)'  BY <2>3 DEF Engagement, ActiveStatus
    <3>2. QED  BY <1>2, <2>3, <3>1 DEF Place, Engaged, Early, Late, Working
  <2>4. QED  BY <2>2, <2>3
<1>3. CASE Enqueue(p)  BY <1>2, <1>3 DEF Enqueue
<1>4. CASE Start(p)  BY <1>2, <1>4 DEF Start
<1>5. CASE Go(p)  BY <1>2, <1>5 DEF Go
<1>6. CASE Validate(p)
  <2>1. pc[p] = "validate" /\ Moves(p, "VALIDATING", "check", "catch")  BY <1>6 DEF Validate
  <2>2. /\ pc[p] \in Engaged /\ mine[p] \in Executed
        /\ mine[p] \notin InExecution /\ target[p] \in Hand
    BY <2>1 DEF Place, Engaged, Working
  <2>3. /\ QueueSafe' /\ RunsSafe'
        /\ \/ Place(p)'
           \/ /\ Engagement(p) /\ pc'[p] = "check" /\ status'[mine[p]] = "VALIDATING"
              /\ mine'[p] = mine[p] /\ target'[p] = target[p]
              /\ Executed' = Executed /\ InExecution' = InExecution
              /\ Recoverable' = Recoverable \ { mine[p] } /\ Spent' = Spent
              /\ Hand' = Hand /\ Done' = Done /\ UNCHANGED missionOf
    BY <1>0, <1>1, <2>1, <2>2, MovesSafe
  <2>4. ASSUME Engagement(p), pc'[p] = "check", status'[mine[p]] = "VALIDATING",
               mine'[p] = mine[p], target'[p] = target[p],
               Executed' = Executed, InExecution' = InExecution,
               Recoverable' = Recoverable \ { mine[p] }, Spent' = Spent,
               Hand' = Hand, Done' = Done, UNCHANGED missionOf
        PROVE  Place(p)'
    <3>1. Engagement(p)'  BY <2>4 DEF Engagement, ActiveStatus
    <3>2. QED  BY <2>2, <2>4, <3>1 DEF Place, Engaged, Early, Late, Working
  <2>5. QED  BY <2>3, <2>4
<1>7. ASSUME NEW s \in { "AWAITING_APPROVAL", "COMPLETED", "BLOCKED", "FAILED" },
             NEW handler \in { "idle", "catch" }, Moves(p, s, "idle", handler),
             pc[p] \in Engaged, mine[p] \in Executed,
             s = "AWAITING_APPROVAL" => mine[p] \notin InExecution,
             s = "COMPLETED" => missionOf[mine[p]] \in Done,
             s = "FAILED" => missionOf[mine[p]] \in Hand,
             s = "BLOCKED" => missionOf[mine[p]] \in Hand
      PROVE  QueueSafe' /\ RunsSafe' /\ Place(p)'
  <2>1. QueueSafe' /\ RunsSafe' /\ (Place(p)' \/ pc'[p] = "idle")
    BY <1>0, <1>1, <1>7, MovesSafe
  <2>2. QED  BY <2>1, IdlePlace
<1>8. pc[p] \in Engaged => target[p] = missionOf[mine[p]]  BY DEF Place, Engagement
<1>9. CASE Approval(p)
  <2>1. PICK there \in { "idle", "prompt" } : Moves(p, "AWAITING_APPROVAL", there, "catch")
    BY <1>9 DEF Approval
  <2>2. /\ pc[p] \in Engaged /\ mine[p] \in Executed
        /\ mine[p] \notin InExecution /\ target[p] \in Hand
    BY <1>9 DEF Approval, Place, Engaged, Working
  <2>3. CASE there = "idle"  BY <1>7, <2>1, <2>2, <2>3
  <2>4. CASE there = "prompt"
    <3>1. /\ QueueSafe' /\ RunsSafe'
          /\ \/ Place(p)'
             \/ /\ Engagement(p) /\ pc'[p] = "prompt" /\ status'[mine[p]] = "AWAITING_APPROVAL"
                /\ target'[p] = target[p]
                /\ Executed' = Executed /\ InExecution' = InExecution
                /\ Recoverable' = Recoverable \ { mine[p] } /\ Spent' = Spent
                /\ Hand' = Hand /\ Done' = Done /\ UNCHANGED missionOf
      BY <1>0, <1>1, <2>1, <2>2, <2>4, MovesSafe
    <3>2. ASSUME Engagement(p), pc'[p] = "prompt", status'[mine[p]] = "AWAITING_APPROVAL",
                 target'[p] = target[p], Executed' = Executed, InExecution' = InExecution,
                 Recoverable' = Recoverable \ { mine[p] }, Spent' = Spent,
                 Hand' = Hand, Done' = Done, UNCHANGED missionOf
          PROVE  Place(p)'
      <4>1. mine[p] \in LetGo'  BY <2>2, <3>2 DEF LetGo, ActiveStatus
      <4>2. Spent' \subseteq LetGo'  BY DEF Spent, LetGo, Recoverable
      <4>3. \A q \in Executed' \ LetGo' : missionOf'[q] # target[p]
        BY <3>2, <4>1, <4>2 DEF Engagement
      <4>4. target[p] \notin Done  BY <2>2 DEF QueueSafe
      <4>5. QED
        BY <3>2, <4>3, <4>4 DEF Engagement, Place, Engaged, Early, Late, Working
    <3>3. QED  BY <3>1, <3>2
  <2>5. QED  BY <2>3, <2>4
<1>10. CASE Settle(p)
  BY <1>7, <1>8, <1>10 DEF Settle, Place, Engaged, Late
<1>11. CASE Stop(p)
  BY <1>7, <1>8, <1>11 DEF Stop, Place, Engaged, Late
<1>12. CASE Fail(p)
  BY <1>7, <1>8, <1>12 DEF Fail, Place, Engaged, Late
<1>13. QED  BY <1>3, <1>4, <1>5, <1>6, <1>9, <1>10, <1>11, <1>12

\* Nothing depends on itself.
LEMMA NotItsOwnDependency ==
  ASSUME NEW m \in Mission PROVE m \notin Requires[m] /\ Requires[m] \subseteq Mission
<1>1. { m } \in SUBSET Mission /\ { m } # {}  OBVIOUS
<1>2. \E n \in { m } : Requires[n] \cap { m } = {}  BY <1>1, QueueAssumption
<1>3. QED  BY <1>2, QueueAssumption

\* The runtime stands still while the queue changes.
LEMMA UpdatesFacts ==
  ASSUME NEW q, Updates(q)
  PROVE  /\ queue' = q /\ Executed' = Executed /\ InExecution' = InExecution
         /\ Recoverable' = Recoverable /\ Live' = Live
         /\ Spent' = Spent /\ LetGo' = LetGo
         /\ UNCHANGED <<status, missionOf>>
  BY DEF Updates, vars, stageVars, Executed, InExecution, Recoverable, Live, Spent, LetGo

\* A mission is put in hand: nothing else is, and no completed run is its own.
LEMMA TakingKeepsRuns ==
  ASSUME Typed, QueueSafe, RunsSafe, NEW m \in Mission, Hand \subseteq { m },
         Requires[m] \subseteq Done,
         m \in Done => \A r \in Executed : missionOf[r] = m => status[r] # "COMPLETED",
         NEW q, Updates(q), q = Updated(queue, m, "ACTIVE") \/ q = Blocked(queue, m)
  PROVE  /\ QueueSafe' /\ RunsSafe'
         /\ Hand' = { m } /\ Done' = Done \ { m } /\ Requires[m] \subseteq Done'
<1>1. Hand' = Hand \cup { m } /\ Done' = Done \ { m }  BY UpdatesFacts, HandFacts
<1>2. Hand' = { m }  BY <1>1
<1>3. Requires[m] \subseteq Done'  BY <1>1, NotItsOwnDependency
<1>4. QueueSafe'  BY <1>1, <1>2, <1>3 DEF QueueSafe
<1>5. \A r \in Run : status[r] = "COMPLETED" => missionOf[r] # m
  BY DEF RunsSafe, QueueSafe
<1>6. \A r, t \in Live' : t \in Peers(r) => t = r  BY UpdatesFacts DEF RunsSafe
<1>7. RunsSafe'
  BY <1>1, <1>2, <1>5, <1>6, UpdatesFacts DEF RunsSafe
<1>8. QED  BY <1>1, <1>2, <1>3, <1>4, <1>7

\* A mission completes: it was all there was in hand, and its run has left execution.
LEMMA CompletingKeepsRuns ==
  ASSUME Typed, QueueSafe, RunsSafe, NEW r \in Executed, missionOf[r] \in Mission,
         r \notin InExecution \cup Recoverable, status[r] # "FAILED",
         \A q \in Executed \ Spent : missionOf[q] = missionOf[r] => q = r,
         Requires[missionOf[r]] \subseteq Done,
         Updates(Updated(queue, missionOf[r], "COMPLETE"))
  PROVE  /\ QueueSafe' /\ RunsSafe'
         /\ Hand' = Hand \ { missionOf[r] } /\ Done' = Done \cup { missionOf[r] }
<1> DEFINE m == missionOf[r]
<1>1. Hand' = Hand \ { m } /\ Done' = Done \cup { m }  BY UpdatesFacts, HandFacts
<1>2. QueueSafe'  BY <1>1 DEF QueueSafe
<1>3. \A q, t \in Live' : t \in Peers(q) => t = q  BY UpdatesFacts DEF RunsSafe
<1>4. \A q \in Executed : q # r /\ missionOf[q] = m =>
                             q \notin InExecution \cup Recoverable /\ status[q] # "FAILED"
  BY DEF Spent, Recoverable
<1>5. RunsSafe'
  BY <1>1, <1>3, <1>4, UpdatesFacts DEF RunsSafe
<1>6. QED  BY <1>1, <1>2, <1>5

\* The engaged process that changes the queue.
LEMMA QueueStepsSafe ==
  ASSUME Typed, QueueSafe, RunsSafe, NEW p \in Process, Place(p),
         Activate(p) \/ Finish(p) \/ Block(p) \/ Blame(p)
  PROVE  QueueSafe' /\ RunsSafe' /\ Place(p)'
<1> USE DEF At
<1>0. /\ pc[p] \in Engaged => Engagement(p)
      /\ \A here \in { "open", "settle", "catch", "stop", "fail" } : here \in Location
  BY DEF Place, Location
<1>1. CASE Activate(p)
  <2>1. /\ pc[p] = "activate" /\ Goto(p, "open")
        /\ Updates(Updated(queue, target[p], "ACTIVE"))
    BY <1>1 DEF Activate
  <2>2. Engagement(p) /\ target[p] \notin Done
    BY <2>1, <1>0 DEF Place, Engaged, Early
  <2>3. /\ QueueSafe' /\ RunsSafe'
        /\ Hand' = { target[p] } /\ Done' = Done \ { target[p] }
        /\ Requires[target[p]] \subseteq Done'
    BY <2>1, <2>2, TakingKeepsRuns DEF Engagement
  <2>4. pc'[p] = "open" /\ mine'[p] = mine[p] /\ target'[p] = target[p]
    BY <1>0, <2>1, GotoFacts
  <2>5. Executed' = Executed /\ Spent' = Spent /\ UNCHANGED <<status, missionOf>>
    BY <2>1, UpdatesFacts
  <2>6. Engagement(p)'  BY <2>2, <2>3, <2>4, <2>5 DEF Engagement
  <2>7. Place(p)'
    BY <2>2, <2>3, <2>4, <2>5, <2>6 DEF Place, Engaged, Early, Late, Working
  <2>8. QED  BY <2>3, <2>7
<1>2. CASE Finish(p)
  <2>1. pc[p] = "finish"  BY <1>2 DEF Finish
  <2>2. /\ Engagement(p) /\ target[p] \in Hand /\ mine[p] \in Executed
        /\ mine[p] \notin InExecution /\ mine[p] \notin Recoverable
        /\ pc[p] \in Engaged
    BY <2>1, <1>0 DEF Place, Engaged, Working
  <2>3. CASE MayUpdate(queue, target[p], "COMPLETE")
    <3>1. Updates(Updated(queue, target[p], "COMPLETE")) /\ Goto(p, "settle")
      BY <1>2, <2>3 DEF Finish
    <3>2. /\ target[p] = missionOf[mine[p]] /\ missionOf[mine[p]] \in Mission
          /\ status[mine[p]] # "FAILED" /\ Requires[missionOf[mine[p]]] \subseteq Done
      BY <2>2 DEF Engagement, ActiveStatus
    <3>3. /\ QueueSafe' /\ RunsSafe'
          /\ Hand' = Hand \ { target[p] } /\ Done' = Done \cup { target[p] }
      BY <2>2, <3>1, <3>2, CompletingKeepsRuns DEF Engagement
    <3>4. pc'[p] = "settle" /\ mine'[p] = mine[p] /\ target'[p] = target[p]
      BY <1>0, <3>1, GotoFacts
    <3>5. Executed' = Executed /\ Spent' = Spent /\ UNCHANGED <<status, missionOf>>
      BY <3>1, UpdatesFacts
    <3>6. Engagement(p)'  BY <2>2, <3>3, <3>4, <3>5 DEF Engagement
    <3>7. Place(p)'
      BY <2>2, <3>3, <3>4, <3>5, <3>6 DEF Place, Engaged, Early, Late, Working
    <3>8. QED  BY <3>3, <3>7
  <2>4. CASE ~MayUpdate(queue, target[p], "COMPLETE")
    <3>1. UNCHANGED <<vars, queue, missionOf>> /\ Goto(p, "catch")
      BY <1>2, <2>4 DEF Finish
    <3>2. Mild /\ Place(p)'  BY <2>2, <3>1, RefusalKeepsPlace
    <3>3. QED  BY <3>1, <3>2, QueueSame, MildKeepsRuns
  <2>5. QED  BY <2>3, <2>4
<1>3. ASSUME NEW there \in { "stop", "fail" }, Goto(p, there), pc[p] \in { "block", "blame" },
             Updates(Blocked(queue, missionOf[mine[p]]))
      PROVE  QueueSafe' /\ RunsSafe' /\ Place(p)'
  <2>1. Engagement(p) /\ mine[p] \in Executed
    BY <1>0, <1>3 DEF Place, Engaged, Working, Late
  <2>2. /\ target[p] = missionOf[mine[p]]
        /\ \A q \in Executed : missionOf[q] = target[p] => status[q] # "COMPLETED"
    BY <2>1 DEF Engagement, ActiveStatus, Spent
  <2>3. /\ QueueSafe' /\ RunsSafe'
        /\ Hand' = { target[p] } /\ Done' = Done \ { target[p] }
        /\ Requires[target[p]] \subseteq Done'
    BY <1>3, <2>1, <2>2, TakingKeepsRuns DEF Engagement
  <2>4. pc'[p] = there /\ mine'[p] = mine[p] /\ target'[p] = target[p]
    BY <1>0, <1>3, GotoFacts
  <2>5. Executed' = Executed /\ Spent' = Spent /\ UNCHANGED <<status, missionOf>>
    BY <1>3, UpdatesFacts
  <2>6. Engagement(p)'  BY <2>1, <2>3, <2>4, <2>5 DEF Engagement
  <2>7. Place(p)'
    BY <2>1, <2>3, <2>4, <2>5, <2>6 DEF Place, Engaged, Early, Late, Working
  <2>8. QED  BY <2>3, <2>7
<1>4. CASE Block(p)  BY <1>3, <1>4 DEF Block
<1>5. CASE Blame(p)  BY <1>3, <1>5 DEF Blame
<1>6. QED  BY <1>1, <1>2, <1>4, <1>5

\* The execution stage opens on the run: no other of its mission is still of use.
LEMMA OpenSafe ==
  ASSUME Typed, QueueSafe, RunsSafe, NEW p \in Process, Place(p), Open(p)
  PROVE  QueueSafe' /\ RunsSafe' /\ Place(p)'
<1> DEFINE r == mine[p]
<1>0. pc[p] = "open" /\ Opens(p, "EXECUTION", "await", "idle")  BY DEF Open, At
<1>1. /\ Engagement(p) /\ r \in Run /\ target[p] \in Hand
      /\ \A q \in Executed \ Spent : missionOf[q] = target[p] => q = r
  BY <1>0 DEF Place, Engaged, Working, Engagement
<1>2. UNCHANGED <<queue, missionOf>>  BY <1>0 DEF Opens
<1>3. Hand' = Hand /\ Done' = Done  BY <1>2, QueueSame
<1>4. CASE StageOpen(r)
  <2>1. Heartbeat(r) /\ Goto(p, "idle")  BY <1>0, <1>4 DEF Opens
  <2>2. Mild  BY <1>1, <2>1, HeartbeatIsMild
  <2>3. Place(p)'  BY <2>1, GotoFacts, IdlePlace DEF Location
  <2>4. QED  BY <1>2, <1>3, <2>2, <2>3, MildKeepsRuns
<1>5. CASE ~StageOpen(r)
  <2>1. /\ StartStage(r, "EXECUTION") /\ pc' = [pc EXCEPT ![p] = "await"]
        /\ UNCHANGED <<mine, target>>
    BY <1>0, <1>5 DEF Opens
  <2>2. /\ status' = status /\ Recoverable' = Recoverable
        /\ Executed' = Executed \cup { r } /\ InExecution' = InExecution \cup { r }
    BY <1>1, <2>1, StartStageFacts, RunnerAssumption
  <2>3. QueueSafe'  BY <1>3 DEF QueueSafe
  <2>4. /\ missionOf[r] = target[p]
        /\ status[r] \notin { "NONE", "AWAITING_APPROVAL", "CERTIFIED", "COMPLETED" }
    BY <1>1 DEF Engagement, ActiveStatus
  <2>5. Live' = Live  BY <2>2 DEF Live
  <2>6. \A q, t \in Live' : t \in Peers(q) => t = q  BY <2>5 DEF RunsSafe
  <2>7. \A q \in Executed' : q # r => /\ q \in Executed
                                      /\ q \in Spent => q \in Spent'
                                      /\ q \in LetGo => q \in LetGo'
    BY <2>2 DEF Spent, LetGo
  <2>8. \A q \in Executed' \ Spent' : missionOf[q] = target[p] => q = r
    BY <1>1, <2>7
  <2>9. \A q, t \in Executed' \ Spent' : missionOf[q] = missionOf[t] => q = t
    BY <1>1, <2>4, <2>7, <2>8 DEF RunsSafe
  <2>10. \A q \in Executed' \ LetGo' : missionOf[q] \in Hand \cup Done
    BY <1>1, <2>4, <2>7 DEF RunsSafe
  <2>11. RunsSafe'
    BY <1>1, <1>2, <1>3, <2>2, <2>4, <2>6, <2>9, <2>10 DEF RunsSafe
  <2>12. pc'[p] = "await"  BY <2>1 DEF Typed, LocalsTyped
  <2>13. Engagement(p)'  BY <1>1, <1>2, <1>3, <2>1, <2>2, <2>8 DEF Engagement
  <2>14. Place(p)'
    BY <1>1, <1>3, <2>1, <2>2, <2>12, <2>13 DEF Place, Engaged, Early, Late, Working
  <2>15. QED  BY <2>3, <2>11, <2>14
<1>6. QED  BY <1>4, <1>5

\* Authorization writes the status it read back: the mission comes into hand or leaves
\* it, and no run that executed it is still of use.
LEMMA AuthorizationSafe ==
  ASSUME Typed, QueueSafe, RunsSafe, NEW p \in Process, Place(p),
         Prompt(p) \/ Approve(p) \/ Decline(p) \/ Crash(p)
  PROVE  QueueSafe' /\ RunsSafe' /\ Place(p)'
<1>0. queue \in Queue  BY DEF Typed, DurableTyped
<1>1. CASE Prompt(p)
  <2>1. /\ pc'     = [pc EXCEPT ![p] = "prompt"]
        /\ target' = [target EXCEPT ![p] = NextMission(queue)]
        /\ UNCHANGED <<vars, queue, missionOf>>
        /\ NextMission(queue) \in ApprovalRequired
    BY <1>1 DEF Prompt
  <2>2. NextMission(queue) # NoMission  BY <2>1, RunnerAssumption, QueueAssumption
  <2>3. /\ NextMission(queue) \in Mission \ Done /\ Hand = {}
        /\ Requires[NextMission(queue)] \subseteq Done
    BY <1>0, <2>2, NextMissionFacts DEF Hand, Done
  <2>4. pc'[p] = "prompt" /\ target'[p] = NextMission(queue)
    BY <2>1 DEF Typed, LocalsTyped
  <2>5. Mild /\ Hand' = Hand /\ Done' = Done
    BY <2>1, StillIsMild, QueueSame DEF vars, stageVars
  <2>6. \A q \in Executed \ LetGo : missionOf[q] # NextMission(queue)
    BY <2>3 DEF RunsSafe
  <2>7. \A q \in Executed' \ LetGo' : missionOf'[q] # target'[p]
    BY <2>1, <2>4, <2>5, <2>6, MildKeepsSpent DEF Mild
  <2>8. Place(p)'
    BY <2>3, <2>4, <2>5, <2>7 DEF Place, Engaged, Early, Late, Working
  <2>9. QED  BY <2>1, <2>5, <2>8, MildKeepsRuns
<1>2. CASE Approve(p)
  <2>1. /\ pc[p] = "prompt" /\ Goto(p, "select") /\ UNCHANGED <<vars, missionOf>>
        /\ \/ queue' = queue
           \/ /\ queue' = Updated(queue, target[p], seen[p])
              /\ MayUpdate(queue, target[p], seen[p])
    BY <1>2 DEF Approve, At
  <2>2. /\ Hand \subseteq { target[p] } /\ target[p] \in Mission \ Done
        /\ Requires[target[p]] \subseteq Done
        /\ \A q \in Executed \ LetGo : missionOf[q] # target[p]
    BY <2>1 DEF Place
  <2>3. Place(p)'  BY <2>1, GotoFacts, IdlePlace DEF Location
  <2>4. CASE queue' = queue
    <3>1. Mild /\ Hand' = Hand /\ Done' = Done
      BY <2>1, <2>4, StillIsMild, QueueSame DEF vars, stageVars
    <3>2. QED  BY <2>1, <2>3, <3>1, MildKeepsRuns
  <2>5. CASE queue' = Updated(queue, target[p], seen[p])
    <3>1. seen[p] \in MissionStatus  BY <2>1 DEF Typed, LocalsTyped
    <3>2. /\ Hand' \subseteq { target[p] } /\ Done \subseteq Done'
          /\ Hand' \cap Done' = {}
      <4>1. Hand' \subseteq Hand \cup { target[p] }  BY <1>0, <2>2, <2>5, <3>1, UpdatedSeen DEF Hand
      <4>2. CASE seen[p] = "COMPLETE"
        <5>1. target[p] \notin Hand' /\ Done' = Done \cup { target[p] }
          BY <1>0, <2>2, <2>5, <3>1, <4>2, UpdatedSeen DEF Hand, Done
        <5>2. QED  BY <2>2, <4>1, <5>1
      <4>3. CASE seen[p] # "COMPLETE"
        <5>1. Done' = Done \ { target[p] }
          BY <1>0, <2>2, <2>5, <3>1, <4>3, UpdatedSeen DEF Done
        <5>2. QED  BY <2>2, <4>1, <5>1
      <4>4. QED  BY <4>2, <4>3
    <3>3. QueueSafe'  BY <2>2, <3>2 DEF QueueSafe
    <3>4. /\ Executed' = Executed /\ InExecution' = InExecution
          /\ Recoverable' = Recoverable /\ Live' = Live
          /\ Spent' = Spent /\ LetGo' = LetGo /\ UNCHANGED <<status, missionOf>>
      BY <2>1 DEF vars, stageVars, Executed, InExecution, Recoverable, Live, Spent, LetGo
    <3>5. \A r \in Run : r \notin Recoverable \cup InExecution /\ status[r] # "FAILED"
      <4>1. SUFFICES ASSUME NEW r \in Run, r \in Recoverable \cup InExecution \/ status[r] = "FAILED"
                     PROVE FALSE
        OBVIOUS
      <4>2. r \in Executed /\ missionOf[r] = target[p]  BY <2>2, <4>1 DEF RunsSafe
      <4>3. r \notin LetGo  BY <4>1 DEF LetGo, ActiveStatus
      <4>4. QED  BY <2>2, <4>2, <4>3
    <3>6. \A r \in Executed \ LetGo : missionOf[r] \in Done  BY <2>2 DEF RunsSafe
    <3>7. \A q, t \in Live' : t \in Peers(q) => t = q  BY <3>4 DEF RunsSafe
    <3>8. RunsSafe'
      BY <3>2, <3>4, <3>5, <3>6, <3>7 DEF RunsSafe
    <3>9. QED  BY <2>3, <3>3, <3>8
  <2>6. QED  BY <2>1, <2>4, <2>5
<1>3. CASE Decline(p) \/ Crash(p)
  <2>1. Goto(p, "idle") /\ UNCHANGED <<vars, queue, missionOf>>  BY <1>3 DEF Decline, Crash
  <2>2. Mild /\ Hand' = Hand /\ Done' = Done
    BY <2>1, StillIsMild, QueueSame DEF vars, stageVars
  <2>3. Place(p)'  BY <2>1, GotoFacts, IdlePlace DEF Location
  <2>4. QED  BY <2>1, <2>2, <2>3, MildKeepsRuns
<1>4. QED  BY <1>1, <1>2, <1>3

\* A run swept from its execution stage is picked up with the mission it holds.
LEMMA PickUpSafe ==
  ASSUME Typed, QueueSafe, RunsSafe, NEW p \in Process, NEW r \in Run, PickUp(p, r)
  PROVE  QueueSafe' /\ RunsSafe' /\ Place(p)'
<1>1. r \in Recoverable /\ Resume(r) /\ UNCHANGED missionOf
  BY DEF PickUp, Recoverable
<1>2. Mild /\ status'[r] \in { "RUNNING", "VALIDATING" }  BY <1>1, ResumeFacts
<1>3. PICK there \in { "activate", "idle" } :
        Selects(p, missionOf[r], queue[missionOf[r]].status, r, there)
  BY DEF PickUp
<1>4. /\ pc'     = [pc EXCEPT ![p] = there]
      /\ mine'   = [mine EXCEPT ![p] = r]
      /\ target' = [target EXCEPT ![p] = missionOf[r]]
      /\ UNCHANGED queue
  BY <1>3 DEF Selects
<1>5. Hand' = Hand /\ Done' = Done  BY <1>4, QueueSame
<1>6. QueueSafe' /\ RunsSafe'  BY <1>1, <1>2, <1>5, MildKeepsRuns
<1>7. pc'[p] = there /\ mine'[p] = r /\ target'[p] = missionOf[r]
  BY <1>4 DEF Typed, LocalsTyped
<1>8. /\ r \in Executed /\ missionOf[r] \in Hand
      /\ Requires[missionOf[r]] \subseteq Done /\ Hand \subseteq { missionOf[r] }
      /\ missionOf[r] \notin Done
  BY <1>1 DEF RunsSafe, QueueSafe
<1>9. missionOf[r] \in Mission  BY <1>8, StatusIs
<1>10. \A q \in Executed \ Spent : missionOf[q] = missionOf[r] => q = r
  <2>1. r \notin Spent  BY <1>1 DEF Spent, Recoverable
  <2>2. QED  BY <1>8, <2>1 DEF RunsSafe
<1>11. Executed' = Executed /\ Spent \subseteq Spent'  BY <1>2, MildKeepsSpent DEF Mild
<1>12. Engagement(p)'
  BY <1>1, <1>2, <1>5, <1>7, <1>8, <1>9, <1>10, <1>11 DEF Engagement, ActiveStatus
<1>13. Place(p)'
  BY <1>1, <1>5, <1>7, <1>8, <1>12 DEF Place, Engaged, Early, Late, Working
<1>14. QED  BY <1>6, <1>13

\* A run begins on a mission every run that executed it is spent.
LEMMA LaunchSafe ==
  ASSUME Typed, QueueSafe, RunsSafe, NEW p \in Process, NEW r \in Run, Launch(p, r)
  PROVE  QueueSafe' /\ RunsSafe' /\ Place(p)'
<1> DEFINE m == NextMission(queue)
<1>1. /\ m # NoMission /\ Begin(r) /\ missionOf' = [missionOf EXCEPT ![r] = m]
      /\ Selects(p, m, "ELIGIBLE", r, "queue")
  BY DEF Launch
<1>2. m \in Mission \ Done /\ Hand = {} /\ Requires[m] \subseteq Done
  BY <1>1, NextMissionFacts DEF Typed, DurableTyped, Hand, Done
<1> HIDE DEF m
<1>3. /\ pc'     = [pc EXCEPT ![p] = "queue"]
      /\ mine'   = [mine EXCEPT ![p] = r]
      /\ target' = [target EXCEPT ![p] = m]
      /\ UNCHANGED queue
  BY <1>1 DEF Selects
<1>4. Hand' = Hand /\ Done' = Done  BY <1>3, QueueSame
<1>5. pc'[p] = "queue" /\ mine'[p] = r /\ target'[p] = m
  BY <1>3 DEF Typed, LocalsTyped
<1>6. missionOf'[r] = m /\ \A q \in Run \ { r } : missionOf'[q] = missionOf[q]
  BY <1>1 DEF Typed, DurableTyped
<1>7. /\ status[r] = "NONE" /\ status'[r] = "AUTHORIZED"
      /\ \A q \in Run \ { r } : status'[q] = status[q]
      /\ \A q \in Peers(r) : status[q] \notin ActiveStatus
      /\ Executed' = Executed /\ InExecution' = InExecution
      /\ Recoverable' = Recoverable
  BY <1>1, BeginFacts
<1>8. r \notin Executed /\ r \notin InExecution /\ r \notin Recoverable
  BY <1>7 DEF RunsSafe
<1>9. \A q \in Executed : q \in Run /\ q # r /\ missionOf'[q] = missionOf[q]
  BY <1>6, <1>8, StatusIs
<1>10. Spent' = Spent /\ LetGo' = LetGo  BY <1>7, <1>9 DEF Spent, LetGo
<1>11. \A q \in Executed \ Spent : missionOf[q] # m
  <2>1. SUFFICES ASSUME NEW q \in Executed, missionOf[q] = m PROVE q \in Spent
    OBVIOUS
  <2>2. q \in LetGo  BY <1>2, <2>1 DEF RunsSafe
  <2>3. q \in Peers(r)  BY <1>9, <2>1, RunnerAssumption DEF Peers
  <2>4. status[q] = "CANCELLED" /\ q \notin InExecution  BY <1>7, <2>2, <2>3 DEF LetGo
  <2>5. QED  BY <2>1, <2>4 DEF Spent
<1>12. QueueSafe'  BY <1>4 DEF QueueSafe
<1>13. \A q \in Run : status[q] # "FAILED"  BY <1>2 DEF RunsSafe
<1>14. \A q, t \in Live' : t \in Peers(q) => t = q
  <2>1. SUFFICES ASSUME NEW q \in Live', NEW t \in Live', t \in Peers(q) PROVE t = q
    OBVIOUS
  <2>2. q \in Run /\ t \in Run /\ RepositoryOf[q] = RepositoryOf[t]  BY <2>1 DEF Live, Peers
  <2>3. ASSUME NEW u \in { q, t }, u # r PROVE u \in Live /\ status[u] \in ActiveStatus
    <3>1. u \in Run /\ status'[u] \in ActiveStatus \cup { "FAILED" }  BY <2>1, <2>2 DEF Live
    <3>2. status[u] \in ActiveStatus  BY <1>7, <1>13, <2>3, <3>1
    <3>3. QED  BY <3>1, <3>2 DEF Live
  <2>4. \A u \in { q, t } : u # r => u \notin Peers(r)  BY <1>7, <2>3
  <2>5. CASE q = r  BY <2>2, <2>4, <2>5 DEF Peers
  <2>6. CASE t = r  BY <2>2, <2>4, <2>6 DEF Peers
  <2>7. CASE q # r /\ t # r  BY <2>1, <2>3, <2>7 DEF RunsSafe
  <2>8. QED  BY <2>5, <2>6, <2>7
<1>15. RunsSafe'
  BY <1>2, <1>4, <1>6, <1>7, <1>8, <1>9, <1>14, <1>10 DEF RunsSafe
<1>16. Engagement(p)'
  BY <1>2, <1>4, <1>5, <1>6, <1>7, <1>9, <1>10, <1>11 DEF Engagement, ActiveStatus
<1>17. Place(p)'
  BY <1>2, <1>4, <1>5, <1>16 DEF Place, Engaged, Early, Late, Working
<1>18. QED  BY <1>12, <1>15, <1>17

\* Certification and its completion of the mission.
LEMMA CertifySafe ==
  ASSUME Typed, QueueSafe, RunsSafe, NEW p \in Process, NEW r \in Run, Certify(p, r)
  PROVE  QueueSafe' /\ RunsSafe' /\ Place(p)'
<1>1. /\ status[r] = "AWAITING_APPROVAL" /\ Transition(r, "CERTIFIED")
      /\ pc' = [pc EXCEPT ![p] = "certified"]
      /\ target' = [target EXCEPT ![p] = missionOf[r]]
      /\ UNCHANGED <<queue, missionOf>>
      /\ queue[missionOf[r]].status = "ACTIVE"
  BY DEF Certify
<1>2. "CERTIFIED" \in CallerTargets /\ status[r] \in ActiveStatus
  BY <1>1 DEF CallerTargets, ActiveStatus
<1>3. r \in Executed \ InExecution /\ missionOf[r] \in Hand
  BY <1>1 DEF RunsSafe, Hand, InHand
<1>4. QueueSafe' /\ RunsSafe'  BY <1>1, <1>2, <1>3, TransitionKeepsRuns
<1>5. status'[r] = "CERTIFIED"  BY <1>1, <1>2, TransitionFacts
<1>6. pc'[p] = "certified" /\ target'[p] = missionOf[r]  BY <1>1 DEF Typed, LocalsTyped
<1>7. Place(p)'
  BY <1>1, <1>5, <1>6 DEF Place, Engaged, Early, Late, Working
<1>8. QED  BY <1>4, <1>7

LEMMA CertifiedSafe ==
  ASSUME Typed, QueueSafe, RunsSafe, NEW p \in Process, Place(p), Certified(p)
  PROVE  QueueSafe' /\ RunsSafe' /\ Place(p)'
<1>1. PICK r \in Run : status[r] = "CERTIFIED" /\ missionOf[r] = target[p]
  BY DEF Certified, At, Place
<1>2. /\ r \in Executed /\ r \notin InExecution \cup Recoverable /\ missionOf[r] \in Mission
      /\ status[r] # "FAILED"
  BY <1>1 DEF RunsSafe, Recoverable
<1>3. \A q \in Executed \ Spent : missionOf[q] = missionOf[r] => q = r
  BY <1>1, <1>2 DEF RunsSafe, Spent
<1>4. Goto(p, "idle")  BY DEF Certified
<1>5. Place(p)'  BY <1>4, GotoFacts, IdlePlace DEF Location
<1>6. CASE MayUpdate(queue, target[p], "COMPLETE")
  <2>1. Updates(Updated(queue, missionOf[r], "COMPLETE"))  BY <1>1, <1>6 DEF Certified
  <2>2. Requires[missionOf[r]] \subseteq Done  BY <1>1, <1>6 DEF MayUpdate, Done
  <2>3. QueueSafe' /\ RunsSafe'  BY <1>2, <1>3, <2>1, <2>2, CompletingKeepsRuns
  <2>4. QED  BY <1>5, <2>3
<1>7. CASE ~MayUpdate(queue, target[p], "COMPLETE")
  <2>1. UNCHANGED <<vars, queue, missionOf>>  BY <1>7 DEF Certified
  <2>2. Mild /\ Hand' = Hand /\ Done' = Done
    BY <2>1, StillIsMild, QueueSame DEF vars, stageVars
  <2>3. QED  BY <1>5, <2>1, <2>2, MildKeepsRuns
<1>8. QED  BY <1>6, <1>7

\* A failed run goes back to its checkpoint, and its mission, still in hand, is
\* reactivated.
LEMMA RetrySafe ==
  ASSUME Typed, QueueSafe, RunsSafe, NEW p \in Process, NEW r \in Run, Retry(p, r)
  PROVE  QueueSafe' /\ RunsSafe' /\ Place(p)'
<1>1. /\ RecoverFailedExecution(r)
      /\ pc' = [pc EXCEPT ![p] = "reactivate"]
      /\ target' = [target EXCEPT ![p] = missionOf[r]]
      /\ UNCHANGED <<queue, missionOf>>
  BY DEF Retry
<1>2. /\ status[r] = "FAILED" /\ status'[r] = "RECOVERING"
      /\ \A q \in Run \ { r } : status'[q] = status[q]
      /\ Executed' = Executed /\ InExecution' \subseteq InExecution
      /\ Recoverable' \subseteq Recoverable \cup { r }
  BY <1>1, RetryFacts
<1>3. r \in Executed /\ missionOf[r] \in Hand  BY <1>2 DEF RunsSafe
<1>4. Hand' = Hand /\ Done' = Done  BY <1>1, QueueSame
<1>5. QueueSafe'  BY <1>4 DEF QueueSafe
<1>6. Live' \subseteq Live  BY <1>2 DEF Live
<1>7. \A q, t \in Live' : t \in Peers(q) => t = q  BY <1>6 DEF RunsSafe, Peers
<1>8. \A q \in Executed : /\ q \in Spent => q \in Spent'
                          /\ q \in LetGo => q \in LetGo' \/ q = r
  <2>1. r \notin Spent  BY <1>2 DEF Spent
  <2>2. Executed \subseteq Run  BY DEF Executed
  <2>3. QED  BY <1>2, <2>1, <2>2 DEF Spent, LetGo
<1>9. RunsSafe'
  <2>1. /\ \A q \in Run : status'[q] = "NONE" => q \notin Executed'
        /\ \A q \in Run : status'[q] # "NONE" => missionOf'[q] \in Mission
    BY <1>1, <1>2, <1>3 DEF RunsSafe
  <2>2. \A q \in Executed' \ LetGo' : missionOf'[q] \in Hand' \cup Done'
    BY <1>1, <1>2, <1>3, <1>4, <1>8 DEF RunsSafe
  <2>3. \A q, t \in Executed' \ Spent' : missionOf'[q] = missionOf'[t] => q = t
    BY <1>1, <1>2, <1>8 DEF RunsSafe
  <2>4. \A q \in Run : q \in Recoverable' \cup InExecution' \/ status'[q] = "FAILED" =>
                         q \in Executed' /\ missionOf'[q] \in Hand'
    BY <1>1, <1>2, <1>3, <1>4 DEF RunsSafe
  <2>5. /\ \A q \in Run : status'[q] \in { "AWAITING_APPROVAL", "CERTIFIED" } =>
                            q \in Executed' \ InExecution'
        /\ \A q \in Run : status'[q] = "COMPLETED" =>
                            q \in Executed' /\ missionOf'[q] \in Done'
    BY <1>1, <1>2, <1>4 DEF RunsSafe
  <2>6. QED  BY <1>7, <2>1, <2>2, <2>3, <2>4, <2>5 DEF RunsSafe
<1>10. pc'[p] = "reactivate" /\ target'[p] = missionOf[r]  BY <1>1 DEF Typed, LocalsTyped
<1>11. Place(p)'
  BY <1>3, <1>4, <1>10 DEF Place, Engaged, Early, Late, Working
<1>12. QED  BY <1>5, <1>9, <1>11

LEMMA ReactivateSafe ==
  ASSUME Typed, QueueSafe, RunsSafe, NEW p \in Process, Place(p), Reactivate(p)
  PROVE  QueueSafe' /\ RunsSafe' /\ Place(p)'
<1>1. /\ pc[p] = "reactivate" /\ Goto(p, "idle")
      /\ Updates(Updated(queue, target[p], "ACTIVE"))
  BY DEF Reactivate, At
<1>2. target[p] \in Hand  BY <1>1 DEF Place
<1>3. /\ target[p] \in Mission /\ Hand \subseteq { target[p] }
      /\ Requires[target[p]] \subseteq Done /\ target[p] \notin Done
  BY <1>2, StatusIs DEF QueueSafe
<1>4. QueueSafe' /\ RunsSafe'  BY <1>1, <1>3, TakingKeepsRuns
<1>5. Place(p)'  BY <1>1, GotoFacts, IdlePlace DEF Location
<1>6. QED  BY <1>4, <1>5

-----------------------------------------------------------------------------
(* One process at a time: the theorems *)

LEMMA InitSafe == RunnerInit => Safe
<1> SUFFICES ASSUME RunnerInit PROVE Safe  OBVIOUS
<1>0. /\ \A r \in Run : status[r] = "NONE" /\ active[r] = 0 /\ stages[r] = << >>
      /\ \A p \in Process : pc[p] = "idle"
  BY DEF RunnerInit, Init
<1>1. PICK fresh \in Queue : /\ queue = Reconcile(fresh)
                            /\ \A m \in Mission : fresh[m] = [status |-> "BLOCKED", blocker |-> FALSE]
  <2>1. [m \in Mission |-> [status |-> "BLOCKED", blocker |-> FALSE]] \in Queue
    BY DEF Queue, MissionItem, MissionStatus
  <2>2. QED  BY <2>1 DEF RunnerInit
<1>2. Hand = {} /\ Done = {}
  <2>1. InHand(fresh) = {} /\ Completed(fresh) = {}  BY <1>1 DEF InHand, Completed
  <2>2. QED  BY <1>1, <2>1, ReconcileFacts DEF Hand, Done
<1>3. QueueSafe  BY <1>2 DEF QueueSafe
<1>4. Executed = {} /\ InExecution = {} /\ Recoverable = {} /\ Live = {} /\ Spent = {}
  BY <1>0 DEF Executed, InExecution, Recoverable, Live, Spent, ActiveStatus
<1>5. RunsSafe  BY <1>0, <1>4 DEF RunsSafe
<1>6. \A p \in Process : Place(p)  BY <1>0 DEF Place, Engaged, Early, Late, Working
<1>7. QED  BY <1>3, <1>5, <1>6 DEF Safe

LEMMA ProcessStepSafe ==
  ASSUME Typed, QueueSafe, RunsSafe, NEW p \in Process, Place(p), Runs(p)
  PROVE  QueueSafe' /\ RunsSafe' /\ Place(p)'
<1>1. CASE \E r \in Run : PickUp(p, r) \/ Launch(p, r) \/ Certify(p, r) \/ Retry(p, r)
  BY <1>1, PickUpSafe, LaunchSafe, CertifySafe, RetrySafe
<1>2. CASE Prompt(p) \/ Approve(p) \/ Decline(p) \/ Crash(p)  BY <1>2, AuthorizationSafe
<1>3. CASE \/ Enqueue(p) \/ Start(p) \/ Go(p) \/ Validate(p) \/ Approval(p)
           \/ Settle(p) \/ Stop(p) \/ Fail(p)
  BY <1>3, TransitionsSafe
<1>4. CASE Answer(p) \/ Complete(p) \/ Check(p) \/ Record(p) \/ Judge(p) \/ Catch(p)
  BY <1>4, CallsKeepPlace, QueueSame, MildKeepsRuns
<1>5. CASE Activate(p) \/ Finish(p) \/ Block(p) \/ Blame(p)  BY <1>5, QueueStepsSafe
<1>6. CASE Open(p)  BY <1>6, OpenSafe
<1>7. CASE Certified(p)  BY <1>7, CertifiedSafe
<1>8. CASE Reactivate(p)  BY <1>8, ReactivateSafe
<1>9. QED  BY <1>1, <1>2, <1>3, <1>4, <1>5, <1>6, <1>7, <1>8 DEF Runs

LEMMA NextKeepsSafe ==
  ASSUME Alone, Typed, Safe, [RunnerNext]_allVars
  PROVE  Safe'
<1>0. QueueSafe /\ RunsSafe /\ \A p \in Process : Place(p)  BY DEF Safe
<1>1. CASE /\ Mild /\ Hand' = Hand /\ Done' = Done
           /\ UNCHANGED <<missionOf, pc, mine, target, seen>>
  BY <1>0, <1>1, MildKeepsRuns, MildKeepsPlace DEF Safe
<1>2. CASE Operates  BY <1>1, <1>2, OperatesIsMild, QueueSame
<1>3. CASE ReconcileMissionExecutionState
  <2>1. UNCHANGED <<vars, missionOf, pc, mine, target, seen>>
    BY <1>3 DEF ReconcileMissionExecutionState, localVars
  <2>2. Mild  BY <2>1, StillIsMild DEF vars, stageVars
  <2>3. Hand' = Hand /\ Done' = Done
    BY <1>0, <1>3, QueueSafeIsTidy, ReconciliationFacts DEF Hand, Done
  <2>4. QED  BY <1>1, <2>1, <2>2, <2>3
<1>4. ASSUME NEW p \in Process, Runs(p) PROVE Safe'
  <2>1. QueueSafe' /\ RunsSafe' /\ Place(p)'  BY <1>0, <1>4, ProcessStepSafe
  <2>2. \A q \in Process : q = p  BY DEF Alone
  <2>3. \A q \in Process : Place(q)'  BY <2>1, <2>2
  <2>4. QED  BY <2>1, <2>3 DEF Safe
<1>5. CASE UNCHANGED allVars
  <2>1. UNCHANGED <<vars, queue, missionOf, pc, mine, target, seen>>
    BY <1>5 DEF allVars, runnerVars, localVars
  <2>2. Mild  BY <2>1, StillIsMild DEF vars, stageVars
  <2>3. QED  BY <1>1, <2>1, <2>2, QueueSame
<1>6. QED  BY <1>2, <1>3, <1>4, <1>5 DEF RunnerNext

THEOREM SafeHolds == ASSUME Alone PROVE RunnerSpec => []Safe
<1>1. Typed /\ Safe /\ [RunnerNext]_allVars => Safe'  BY NextKeepsSafe
<1>2. QED  BY <1>1, InitSafe, TypedHolds, PTL DEF RunnerSpec

\* One mission is active or waits behind a blocker, through every failure, retry,
\* crash and reconciliation.
THEOREM OneMissionIsInHand == ASSUME Alone PROVE RunnerSpec => []OneMissionInHand
<1>1. Safe => OneMissionInHand  BY DEF Safe, QueueSafe, OneMissionInHand, Hand
<1>2. QED  BY <1>1, SafeHolds, PTL

\* The mission a process works on stays in hand, whatever happens to its run.
THEOREM WorkedMissionIsHeld == ASSUME Alone PROVE RunnerSpec => []MissionHeld
<1>1. Safe => MissionHeld  BY DEF Safe, Place, MissionHeld, Hand
<1>2. QED  BY <1>1, SafeHolds, PTL

\* ... and every mission it depends on is complete.
THEOREM WorkedMissionIsReady == ASSUME Alone PROVE RunnerSpec => []DependenciesHold
<1>1. Safe => DependenciesHold  BY DEF Safe, Place, Engagement, Engaged, DependenciesHold, Done
<1>2. QED  BY <1>1, SafeHolds, PTL

\* A completed run never leaves its mission to be executed again.
THEOREM CompletedRunsSettleTheirMissions ==
  ASSUME Alone PROVE RunnerSpec => []CompletedRunHasCompleteMission
<1>1. Safe => CompletedRunHasCompleteMission
  BY DEF Safe, RunsSafe, CompletedRunHasCompleteMission, Done
<1>2. QED  BY <1>1, SafeHolds, PTL

\* A repository has one active run, retries of failed runs included: recoverFailedExecution
\* looks for no active run, but the mission of a failed run is in hand, so that no
\* other could be begun meanwhile.
THEOREM RepositoriesHaveOneActiveRun == ASSUME Alone PROVE RunnerSpec => []OneActiveRun
<1>1. Safe => OneActiveRun
  BY DEF Safe, RunsSafe, Live, OneActiveRun, Peers
<1>2. QED  BY <1>1, SafeHolds, PTL
=============================================================================

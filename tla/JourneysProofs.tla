---------------------------- MODULE JourneysProofs ----------------------------
(* What the runs check of Journeys on a few requests and keys holds for any.  *)
(* The argument is the same for each of the seven journeys, and is made for   *)
(* one at a time, because no journey writes another's rows (XTouches):        *)
(*   XFacts      what the steps a request has taken so far have left behind,  *)
(*   XRecorded   an event that is accepted has its record,                    *)
(*   XAccepted   what is delivered has its event,                             *)
(*   XPending    unless a request was lost, what is pending is in the hands   *)
(*               of a request that is still to finish it.                     *)
(* XInv is their conjunction.  XFrame carries it over the steps of others,    *)
(* XStep, XPublish and XBegin over the journey's own, and XNext over Next.    *)
(* Rows are staged before they are published and never taken back (XGrows),   *)
(* so two requests for one record do not undo what the other relies on.       *)
EXTENDS Journeys, FiniteSetTheorems, TLAPS

-----------------------------------------------------------------------------
(* Types *)

Ops == { "UPLOAD", "CREATE", "COMPLETE", "REOPEN", "SUBMIT", "DISCOVER", "DECIDE", "ASK", "SEND",
         "BLOCK", "UNBLOCK", "REPORT", "NOTIFY", "RETRY", "PREFER", "READ", "ONBOARD" }

Modes == { "immediate", "daily_digest", "muted" }
Statuses == { NoRow, "building", "ready", "submitted" } \cup Modes

\* What a client asks is complete.
Asked(c) ==
  /\ c.op \in Ops
  /\ c.op \in Ops \ { "DISCOVER", "BLOCK", "UNBLOCK", "PREFER", "ONBOARD" } => c.key \in Key
  /\ c.op \in { "UPLOAD", "ASK", "ONBOARD" } => c.value \in Value
  /\ c.op \in { "COMPLETE", "REOPEN", "SUBMIT" } => c.workspace \in Key
  /\ c.op \in { "COMPLETE", "REOPEN" } => c.item \in Item
  /\ c.op = "DISCOVER" => c.matches \subseteq Match
  /\ c.op = "DECIDE" => c.match \in Match /\ c.decision \in { "SAVED", "DISMISSED" }
  /\ c.op = "PREFER" => c.mode \in Modes

Mark == Delivery \cup { NoRow }
TaskMark == { NoRow, "TODO", "COMPLETE" }
MatchRow ==
  [ status : { NoRow, "RECOMMENDED", "SAVED", "DISMISSED" }, pending : { NoRow, "SAVED", "DISMISSED" },
    delivery : Mark ]
OutboxRow == [ state : { NoRow, "PENDING", "FAILED" } \cup Settled, attempts : Nat ]
Inbox == { NoRow, "UNREAD", "READ" }

Database ==
  [ progress : [Item -> Value \cup { NoRow }],
    evidence : [Key -> Mark],
    workspace : [Key -> Statuses],
    delivery : [Key -> Mark],
    tasks : [Key -> [Item -> TaskMark]],
    events : SUBSET Key,
    match : [Match -> MatchRow],
    support : [Key -> Mark],
    related : BOOLEAN,
    conversation : BOOLEAN,
    participant : { NoRow, "MEMBER", "BLOCKED" },
    message : [Key -> Mark],
    reported : SUBSET Key,
    outbox : [Key -> OutboxRow],
    notification : [Key -> Inbox],
    mode : Modes,
    profile : { NoRow, "GOALS_CAPTURED", "DASHBOARD_READY" },
    goal : Value \cup { NoRow },
    milestone : BOOLEAN,
    dashboard : BOOLEAN ]

\* What a request remembers.
Notes == [ seen : SUBSET Item, status : Statuses, count : Nat ]

\* A request in progress is at one of its steps.
Located(r) == at[r] # 0 => Asked(call[r]) /\ at[r] \in 1 .. Len(Steps(Op(r)))

TypeOK ==
  /\ journey \in Journeys
  /\ db \in Database
  /\ DOMAIN call = Request /\ call = [r \in Request |-> call[r]]
  /\ at \in [Request -> Nat]
  /\ note \in [Request -> Notes]
  /\ abandoned \in BOOLEAN
  /\ \A r \in Request : Located(r)

-----------------------------------------------------------------------------
(* The steps of a request *)

LEMMA StepLists ==
  /\ Steps("UPLOAD") = <<"progress", "evidence", "publish", "finish">>
  /\ Steps("CREATE") = <<"workspace", "tasks", "publish", "finish">>
  /\ Steps("COMPLETE") = <<"task", "count", "status", "publish", "finish">>
  /\ Steps("REOPEN") = <<"task", "count", "status", "publish", "finish">>
  /\ Steps("SUBMIT") = <<"count", "status", "publish", "finish">>
  /\ Steps("DISCOVER") = <<"matches", "publish", "finish">>
  /\ Steps("DECIDE") = <<"stage", "publish", "finish">>
  /\ Steps("ASK") = <<"relationship", "request", "publish", "finish">>
  /\ Steps("SEND") =
       <<"relationship", "conversation", "open", "join", "blocked", "message", "publish", "finish">>
  /\ Steps("BLOCK") = <<"member", "act">>
  /\ Steps("UNBLOCK") = <<"member", "act">>
  /\ Steps("REPORT") = <<"member", "act">>
  /\ Steps("NOTIFY") =
       <<"outbox", "insert", "deliver", "publish", "notification", "finish", "reply">>
  /\ Steps("RETRY") = <<"failed", "deliver", "publish", "notification", "finish">>
  /\ Steps("PREFER") = <<"set">>
  /\ Steps("READ") = <<"set">>
  /\ Steps("ONBOARD") =
       <<"profile", "goal", "milestone", "publish", "project", "dashboard", "finish">>
  BY DEF Steps, SendSteps

LEMMA Lengths ==
  /\ \A op \in { "UPLOAD", "CREATE", "SUBMIT", "ASK" } : Len(Steps(op)) = 4
  /\ \A op \in { "COMPLETE", "REOPEN", "RETRY" } : Len(Steps(op)) = 5
  /\ \A op \in { "DISCOVER", "DECIDE" } : Len(Steps(op)) = 3
  /\ \A op \in { "BLOCK", "UNBLOCK", "REPORT" } : Len(Steps(op)) = 2
  /\ \A op \in { "PREFER", "READ" } : Len(Steps(op)) = 1
  /\ \A op \in { "NOTIFY", "ONBOARD" } : Len(Steps(op)) = 7
  /\ Len(Steps("SEND")) = 8
  BY StepLists

\* The name of a step tells the request and how far it is.
LEMMA Names ==
  ASSUME NEW r \in Request, Located(r)
  PROVE  /\ On(r, "progress") => Op(r) = "UPLOAD" /\ at[r] = 1
         /\ On(r, "evidence") => Op(r) = "UPLOAD" /\ at[r] = 2
         /\ On(r, "publish") => \/ Op(r) \in { "DISCOVER", "DECIDE" } /\ at[r] = 2
                                \/ Op(r) \in { "UPLOAD", "CREATE", "SUBMIT", "ASK", "RETRY" } /\ at[r] = 3
                                \/ Op(r) \in { "COMPLETE", "REOPEN", "NOTIFY", "ONBOARD" } /\ at[r] = 4
                                \/ Op(r) = "SEND" /\ at[r] = 7
         /\ On(r, "finish") => \/ Op(r) \in { "DISCOVER", "DECIDE" } /\ at[r] = 3
                               \/ Op(r) \in { "UPLOAD", "CREATE", "SUBMIT", "ASK" } /\ at[r] = 4
                               \/ Op(r) \in { "COMPLETE", "REOPEN", "RETRY" } /\ at[r] = 5
                               \/ Op(r) = "NOTIFY" /\ at[r] = 6
                               \/ Op(r) = "ONBOARD" /\ at[r] = 7
                               \/ Op(r) = "SEND" /\ at[r] = 8
         /\ On(r, "workspace") => Op(r) = "CREATE" /\ at[r] = 1
         /\ On(r, "tasks") => Op(r) = "CREATE" /\ at[r] = 2
         /\ On(r, "task") => Op(r) \in { "COMPLETE", "REOPEN" } /\ at[r] = 1
         /\ On(r, "count") => \/ Op(r) = "SUBMIT" /\ at[r] = 1
                              \/ Op(r) \in { "COMPLETE", "REOPEN" } /\ at[r] = 2
         /\ On(r, "status") => \/ Op(r) = "SUBMIT" /\ at[r] = 2
                               \/ Op(r) \in { "COMPLETE", "REOPEN" } /\ at[r] = 3
         /\ On(r, "matches") => Op(r) = "DISCOVER" /\ at[r] = 1
         /\ On(r, "stage") => Op(r) = "DECIDE" /\ at[r] = 1
         /\ On(r, "relationship") => Op(r) \in { "ASK", "SEND" } /\ at[r] = 1
         /\ On(r, "request") => Op(r) = "ASK" /\ at[r] = 2
         /\ On(r, "conversation") => Op(r) = "SEND" /\ at[r] = 2
         /\ On(r, "open") => Op(r) = "SEND" /\ at[r] = 3
         /\ On(r, "join") => Op(r) = "SEND" /\ at[r] = 4
         /\ On(r, "blocked") => Op(r) = "SEND" /\ at[r] = 5
         /\ On(r, "message") => Op(r) = "SEND" /\ at[r] = 6
         /\ On(r, "member") => Op(r) \in { "BLOCK", "UNBLOCK", "REPORT" } /\ at[r] = 1
         /\ On(r, "act") => Op(r) \in { "BLOCK", "UNBLOCK", "REPORT" } /\ at[r] = 2
         /\ On(r, "outbox") => Op(r) = "NOTIFY" /\ at[r] = 1
         /\ On(r, "insert") => Op(r) = "NOTIFY" /\ at[r] = 2
         /\ On(r, "deliver") => \/ Op(r) = "RETRY" /\ at[r] = 2
                                \/ Op(r) = "NOTIFY" /\ at[r] = 3
         /\ On(r, "notification") => \/ Op(r) = "RETRY" /\ at[r] = 4
                                     \/ Op(r) = "NOTIFY" /\ at[r] = 5
         /\ On(r, "reply") => Op(r) = "NOTIFY" /\ at[r] = 7
         /\ On(r, "failed") => Op(r) = "RETRY" /\ at[r] = 1
         /\ On(r, "set") => Op(r) \in { "PREFER", "READ" } /\ at[r] = 1
         /\ On(r, "profile") => Op(r) = "ONBOARD" /\ at[r] = 1
         /\ On(r, "goal") => Op(r) = "ONBOARD" /\ at[r] = 2
         /\ On(r, "milestone") => Op(r) = "ONBOARD" /\ at[r] = 3
         /\ On(r, "project") => Op(r) = "ONBOARD" /\ at[r] = 5
         /\ On(r, "dashboard") => Op(r) = "ONBOARD" /\ at[r] = 6
<1>0. CASE at[r] = 0
  BY <1>0 DEF On
<1>1. CASE at[r] # 0 /\ Op(r) = "UPLOAD"
  <2>1. Steps(Op(r)) = <<"progress", "evidence", "publish", "finish">>
    BY <1>1, StepLists
  <2>2. at[r] \in 1 .. 4
    BY <1>1, <2>1 DEF Located
  <2> QED
    BY <1>1, <2>1, <2>2 DEF On, Op
<1>2. CASE at[r] # 0 /\ Op(r) = "CREATE"
  <2>1. Steps(Op(r)) = <<"workspace", "tasks", "publish", "finish">>
    BY <1>2, StepLists
  <2>2. at[r] \in 1 .. 4
    BY <1>2, <2>1 DEF Located
  <2> QED
    BY <1>2, <2>1, <2>2 DEF On, Op
<1>3. CASE at[r] # 0 /\ Op(r) = "COMPLETE"
  <2>1. Steps(Op(r)) = <<"task", "count", "status", "publish", "finish">>
    BY <1>3, StepLists
  <2>2. at[r] \in 1 .. 5
    BY <1>3, <2>1 DEF Located
  <2> QED
    BY <1>3, <2>1, <2>2 DEF On, Op
<1>4. CASE at[r] # 0 /\ Op(r) = "REOPEN"
  <2>1. Steps(Op(r)) = <<"task", "count", "status", "publish", "finish">>
    BY <1>4, StepLists
  <2>2. at[r] \in 1 .. 5
    BY <1>4, <2>1 DEF Located
  <2> QED
    BY <1>4, <2>1, <2>2 DEF On, Op
<1>5. CASE at[r] # 0 /\ Op(r) = "SUBMIT"
  <2>1. Steps(Op(r)) = <<"count", "status", "publish", "finish">>
    BY <1>5, StepLists
  <2>2. at[r] \in 1 .. 4
    BY <1>5, <2>1 DEF Located
  <2> QED
    BY <1>5, <2>1, <2>2 DEF On, Op
<1>6. CASE at[r] # 0 /\ Op(r) = "DISCOVER"
  <2>1. Steps(Op(r)) = <<"matches", "publish", "finish">>
    BY <1>6, StepLists
  <2>2. at[r] \in 1 .. 3
    BY <1>6, <2>1 DEF Located
  <2> QED
    BY <1>6, <2>1, <2>2 DEF On, Op
<1>7. CASE at[r] # 0 /\ Op(r) = "DECIDE"
  <2>1. Steps(Op(r)) = <<"stage", "publish", "finish">>
    BY <1>7, StepLists
  <2>2. at[r] \in 1 .. 3
    BY <1>7, <2>1 DEF Located
  <2> QED
    BY <1>7, <2>1, <2>2 DEF On, Op
<1>8. CASE at[r] # 0 /\ Op(r) = "ASK"
  <2>1. Steps(Op(r)) = <<"relationship", "request", "publish", "finish">>
    BY <1>8, StepLists
  <2>2. at[r] \in 1 .. 4
    BY <1>8, <2>1 DEF Located
  <2> QED
    BY <1>8, <2>1, <2>2 DEF On, Op
<1>9. CASE at[r] # 0 /\ Op(r) = "SEND"
  <2>1. Steps(Op(r)) =
          <<"relationship", "conversation", "open", "join", "blocked", "message", "publish", "finish">>
    BY <1>9, StepLists
  <2>2. at[r] \in 1 .. 8
    BY <1>9, <2>1 DEF Located
  <2> QED
    BY <1>9, <2>1, <2>2 DEF On, Op
<1>10. CASE at[r] # 0 /\ Op(r) = "BLOCK"
  <2>1. Steps(Op(r)) = <<"member", "act">>
    BY <1>10, StepLists
  <2>2. at[r] \in 1 .. 2
    BY <1>10, <2>1 DEF Located
  <2> QED
    BY <1>10, <2>1, <2>2 DEF On, Op
<1>11. CASE at[r] # 0 /\ Op(r) = "UNBLOCK"
  <2>1. Steps(Op(r)) = <<"member", "act">>
    BY <1>11, StepLists
  <2>2. at[r] \in 1 .. 2
    BY <1>11, <2>1 DEF Located
  <2> QED
    BY <1>11, <2>1, <2>2 DEF On, Op
<1>12. CASE at[r] # 0 /\ Op(r) = "REPORT"
  <2>1. Steps(Op(r)) = <<"member", "act">>
    BY <1>12, StepLists
  <2>2. at[r] \in 1 .. 2
    BY <1>12, <2>1 DEF Located
  <2> QED
    BY <1>12, <2>1, <2>2 DEF On, Op
<1>13. CASE at[r] # 0 /\ Op(r) = "NOTIFY"
  <2>1. Steps(Op(r)) = <<"outbox", "insert", "deliver", "publish", "notification", "finish", "reply">>
    BY <1>13, StepLists
  <2>2. at[r] \in 1 .. 7
    BY <1>13, <2>1 DEF Located
  <2> QED
    BY <1>13, <2>1, <2>2 DEF On, Op
<1>14. CASE at[r] # 0 /\ Op(r) = "RETRY"
  <2>1. Steps(Op(r)) = <<"failed", "deliver", "publish", "notification", "finish">>
    BY <1>14, StepLists
  <2>2. at[r] \in 1 .. 5
    BY <1>14, <2>1 DEF Located
  <2> QED
    BY <1>14, <2>1, <2>2 DEF On, Op
<1>15. CASE at[r] # 0 /\ Op(r) = "PREFER"
  <2>1. Steps(Op(r)) = <<"set">>
    BY <1>15, StepLists
  <2>2. at[r] \in 1 .. 1
    BY <1>15, <2>1 DEF Located
  <2> QED
    BY <1>15, <2>1, <2>2 DEF On, Op
<1>16. CASE at[r] # 0 /\ Op(r) = "READ"
  <2>1. Steps(Op(r)) = <<"set">>
    BY <1>16, StepLists
  <2>2. at[r] \in 1 .. 1
    BY <1>16, <2>1 DEF Located
  <2> QED
    BY <1>16, <2>1, <2>2 DEF On, Op
<1>17. CASE at[r] # 0 /\ Op(r) = "ONBOARD"
  <2>1. Steps(Op(r)) = <<"profile", "goal", "milestone", "publish", "project", "dashboard", "finish">>
    BY <1>17, StepLists
  <2>2. at[r] \in 1 .. 7
    BY <1>17, <2>1 DEF Located
  <2> QED
    BY <1>17, <2>1, <2>2 DEF On, Op
<1> QED
  BY <1>0, <1>1, <1>2, <1>3, <1>4, <1>5, <1>6, <1>7, <1>8, <1>9, <1>10, <1>11, <1>12, <1>13, <1>14,
     <1>15, <1>16, <1>17
  DEF Located, Asked, Ops, Op

-----------------------------------------------------------------------------
(* One request moves *)

\* A step of r moves r to a step it has, or ends it, and leaves the other requests alone.
Moves(r) ==
  /\ at[r] # 0
  /\ at' \in [Request -> Nat]
  /\ at'[r] # 0 => at'[r] \in 1 .. Len(Steps(Op(r)))
  /\ \A q \in Request : q # r => at'[q] = at[q] /\ note'[q] = note[q]
  /\ UNCHANGED <<journey, call>>

\* The step after the one r is at, 0 after the last.
Onward(r) == IF at[r] = Len(Steps(Op(r))) THEN 0 ELSE at[r] + 1

LEMMA Onwards ==
  ASSUME NEW r \in Request
  PROVE  /\ Op(r) \in { "UPLOAD", "CREATE", "SUBMIT", "ASK" } =>
              Onward(r) = IF at[r] = 4 THEN 0 ELSE at[r] + 1
         /\ Op(r) \in { "COMPLETE", "REOPEN", "RETRY" } =>
              Onward(r) = IF at[r] = 5 THEN 0 ELSE at[r] + 1
         /\ Op(r) \in { "DISCOVER", "DECIDE" } =>
              Onward(r) = IF at[r] = 3 THEN 0 ELSE at[r] + 1
         /\ Op(r) \in { "NOTIFY", "ONBOARD" } =>
              Onward(r) = IF at[r] = 7 THEN 0 ELSE at[r] + 1
         /\ Op(r) = "SEND" => Onward(r) = IF at[r] = 8 THEN 0 ELSE at[r] + 1
  BY Lengths DEF Onward

LEMMA AdvanceMoves ==
  ASSUME TypeOK, NEW r \in Request, at[r] # 0, Advance(r)
  PROVE  /\ at' \in [Request -> Nat]
         /\ at'[r] = Onward(r)
         /\ at'[r] # 0 => at'[r] \in 1 .. Len(Steps(Op(r)))
         /\ \A q \in Request : q # r => at'[q] = at[q]
<1>1. at[r] \in 1 .. Len(Steps(Op(r))) /\ Len(Steps(Op(r))) \in Nat
  BY StepLists, Lengths DEF TypeOK, Located, Asked, Ops, Op
<1> QED
  BY <1>1 DEF TypeOK, Advance, Onward

LEMMA SkipMoves ==
  ASSUME TypeOK, NEW r \in Request, SkipOne(r)
  PROVE  /\ at' \in [Request -> Nat] /\ at'[r] = at[r] + 2
         /\ \A q \in Request : q # r => at'[q] = at[q]
  BY DEF TypeOK, SkipOne

LEMMA StopMoves ==
  ASSUME TypeOK, NEW r \in Request, Stop(r)
  PROVE  /\ at' \in [Request -> Nat] /\ at'[r] = 0
         /\ \A q \in Request : q # r => at'[q] = at[q]
  BY DEF TypeOK, Stop

LEMMA RememberMoves ==
  ASSUME TypeOK, NEW r \in Request, NEW n \in Notes, Remember(r, n)
  PROVE  /\ note' \in [Request -> Notes] /\ note'[r] = n
         /\ \A q \in Request : q # r => note'[q] = note[q]
  BY DEF TypeOK, Remember

\* A step that writes the database.
LEMMA WriteMoves ==
  ASSUME TypeOK, NEW r \in Request, NEW s, NEW new, Write(r, s, new)
  PROVE  /\ Moves(r)
         /\ at'[r] = Onward(r)
         /\ UNCHANGED <<accepted, note, abandoned, begun>>
         /\ On(r, s) /\ db' = new
  BY AdvanceMoves DEF Write, On, Same, Moves

\* A step that reads it.
LEMMA ReadMoves ==
  ASSUME TypeOK, NEW r \in Request, NEW s, NEW ok, NEW n \in Notes, Read(r, s, ok, n)
  PROVE  /\ Moves(r)
         /\ at'[r] = Onward(r)
         /\ UNCHANGED <<accepted, db, abandoned, begun>>
         /\ note' \in [Request -> Notes] /\ note'[r] = n
         /\ On(r, s) /\ ok
<1>1. at[r] # 0 /\ Advance(r) /\ Remember(r, n) /\ Same /\ UNCHANGED <<db, accepted>> /\ On(r, s) /\ ok
  BY DEF Read, On
<1> QED
  BY <1>1, AdvanceMoves, RememberMoves DEF Same, Moves

\* What is left to show of a step for its types.
LEMMA MovesTyped ==
  ASSUME TypeOK, NEW r \in Request, Moves(r), db' \in Database, note' \in [Request -> Notes],
         abandoned' \in BOOLEAN
  PROVE  TypeOK'
<1>1. \A q \in Request : Located(q)'
  <2> SUFFICES ASSUME NEW q \in Request PROVE Located(q)'
    OBVIOUS
  <2>1. CASE q = r
    BY <2>1 DEF TypeOK, Moves, Located, Op
  <2>2. CASE q # r
    BY <2>2 DEF TypeOK, Moves, Located, Op
  <2> QED
    BY <2>1, <2>2
<1> QED
  BY <1>1 DEF TypeOK, Moves

-----------------------------------------------------------------------------
(* What each journey's steps touch *)

AcademicRows == <<db.progress, db.evidence>>
ApplicationRows == <<db.workspace, db.delivery, db.tasks, db.events>>
MessagingRows == <<db.conversation, db.message>>
NotificationRows == <<db.outbox, db.notification>>
OnboardingRows == <<db.profile, db.goal, db.milestone, db.dashboard>>

\* A step of r, one of the requests ops, that writes no other journey's rows.
Step(r, ops) ==
  /\ Moves(r) /\ Op(r) \in ops
  /\ db' \in Database /\ note' \in [Request -> Notes] /\ abandoned' \in { abandoned, TRUE }
  /\ UNCHANGED accepted

LEMMA AcademicTouches ==
  ASSUME TypeOK, NEW r \in Request, Academic(r)
  PROVE  /\ Step(r, { "UPLOAD" })
         /\ UNCHANGED <<ApplicationRows, db.match, db.support, MessagingRows, NotificationRows,
                        OnboardingRows>>
<1> USE DEF Step, ApplicationRows, MessagingRows, NotificationRows, OnboardingRows
<1>0. /\ Located(r) /\ note[r] \in Notes /\ note \in [Request -> Notes] /\ abandoned \in BOOLEAN
      /\ db \in Database
  BY DEF TypeOK
<1>1. CASE WriteProgress(r)
  <2>1. PICK i \in Item : db' = [db EXCEPT !.progress[i] = call[r].value]
                          /\ Remember(r, [note[r] EXCEPT !.seen = @ \union {i}])
                          /\ IF note[r].seen \union {i} = Item THEN Advance(r) ELSE UNCHANGED at
    BY <1>1 DEF WriteProgress
  <2>2. On(r, "progress") /\ Same /\ UNCHANGED accepted
    BY <1>1 DEF WriteProgress
  <2>3. Op(r) = "UPLOAD" /\ call[r].value \in Value /\ at[r] # 0
    BY <2>2, <1>0, Names DEF Located, Asked, Ops, On, Op
  <2>4. [note[r] EXCEPT !.seen = @ \union {i}] \in Notes
    BY <1>0 DEF Notes
  <2>5. Moves(r) /\ note' \in [Request -> Notes]
    BY <2>1, <2>2, <2>3, <2>4, AdvanceMoves, RememberMoves DEF Moves, Same, TypeOK, Located
  <2>6. db' \in Database
    BY <2>1, <2>3, <1>0 DEF Database
  <2>7. UNCHANGED <<ApplicationRows, db.match, db.support, MessagingRows, NotificationRows,
                    OnboardingRows>>
    BY <2>1, <1>0 DEF Database
  <2> QED
    BY <2>2, <2>3, <2>5, <2>6, <2>7, <1>0 DEF Same
<1>2. CASE SaveEvidence(r)
  <2>1. Op(r) = "UPLOAD" /\ call[r].key \in Key
    BY <1>2, <1>0, Names DEF SaveEvidence, Write, Located, Asked, Ops, On, Op
  <2>2. db' = [db EXCEPT !.evidence[call[r].key] = IF @ = NoRow THEN "PENDING" ELSE @]
    BY <1>2 DEF SaveEvidence, Write
  <2>3. db' \in Database
    BY <2>1, <2>2, <1>0 DEF Database, Mark, Delivery
  <2>4. Moves(r) /\ UNCHANGED <<accepted, note, abandoned>>
    BY <1>2, WriteMoves DEF SaveEvidence
  <2>9. UNCHANGED <<ApplicationRows, db.match, db.support, MessagingRows, NotificationRows,
                  OnboardingRows>>
    BY <2>2, <1>0 DEF Database
  <2> QED
    BY <2>1, <2>3, <2>4, <2>9, <1>0
<1>3. CASE CompleteEvidence(r)
  <2>1. Op(r) = "UPLOAD" /\ call[r].key \in Key
    BY <1>3, <1>0 DEF CompleteEvidence, Write, Located, Asked, Ops, On, Op
  <2>2. db' = [db EXCEPT !.evidence[call[r].key] = "DELIVERED"]
    BY <1>3 DEF CompleteEvidence, Write
  <2>3. db' \in Database
    BY <2>1, <2>2, <1>0 DEF Database, Mark, Delivery
  <2>4. Moves(r) /\ UNCHANGED <<accepted, note, abandoned>>
    BY <1>3, WriteMoves DEF CompleteEvidence
  <2>9. UNCHANGED <<ApplicationRows, db.match, db.support, MessagingRows, NotificationRows,
                  OnboardingRows>>
    BY <2>2, <1>0 DEF Database
  <2> QED
    BY <2>1, <2>3, <2>4, <2>9, <1>0
<1> QED
  BY <1>1, <1>2, <1>3 DEF Academic

LEMMA ApplicationTouches ==
  ASSUME TypeOK, NEW r \in Request, Application(r)
  PROVE  /\ Step(r, { "CREATE", "COMPLETE", "REOPEN", "SUBMIT" })
         /\ UNCHANGED <<AcademicRows, db.match, db.support, MessagingRows, NotificationRows,
                        OnboardingRows>>
<1> USE DEF Step, AcademicRows, MessagingRows, NotificationRows, OnboardingRows
<1>0. /\ Located(r) /\ note[r] \in Notes /\ note \in [Request -> Notes] /\ abandoned \in BOOLEAN
      /\ db \in Database
  BY DEF TypeOK
<1>1. CASE CreatePending(r)
  <2>1. Op(r) = "CREATE" /\ call[r].key \in Key
    BY <1>1, <1>0, Names DEF CreatePending, Write, Located, Asked, Ops, On, Op
  <2>2. db' = [db EXCEPT !.workspace[call[r].key] = "building", !.delivery[call[r].key] = "PENDING"]
    BY <1>1 DEF CreatePending, Write
  <2>3. db' \in Database
    BY <2>1, <2>2, <1>0 DEF Database, Mark, Delivery, Statuses
  <2>4. Moves(r) /\ UNCHANGED <<accepted, note, abandoned>>
    BY <1>1, WriteMoves DEF CreatePending
  <2>9. UNCHANGED <<AcademicRows, db.match, db.support, MessagingRows, NotificationRows,
                  OnboardingRows>>
    BY <2>2, <1>0 DEF Database
  <2> QED
    BY <2>1, <2>3, <2>4, <2>9, <1>0
<1>2. CASE SaveTasks(r)
  <2>1. Op(r) = "CREATE" /\ call[r].key \in Key
    BY <1>2, <1>0, Names DEF SaveTasks, Write, Located, Asked, Ops, On, Op
  <2>2. db' = [db EXCEPT !.tasks[call[r].key] = [i \in Item |-> "TODO"]]
    BY <1>2 DEF SaveTasks, Write
  <2>3. db' \in Database
    BY <2>1, <2>2, <1>0 DEF Database, TaskMark
  <2>4. Moves(r) /\ UNCHANGED <<accepted, note, abandoned>>
    BY <1>2, WriteMoves DEF SaveTasks
  <2>9. UNCHANGED <<AcademicRows, db.match, db.support, MessagingRows, NotificationRows,
                  OnboardingRows>>
    BY <2>2, <1>0 DEF Database
  <2> QED
    BY <2>1, <2>3, <2>4, <2>9, <1>0
<1>3. CASE Activate(r)
  <2>1. Op(r) = "CREATE" /\ call[r].key \in Key
    BY <1>3, <1>0 DEF Activate, Write, Located, Asked, Ops, On, Op
  <2>2. db' = [db EXCEPT !.delivery[call[r].key] = "DELIVERED"]
    BY <1>3 DEF Activate, Write
  <2>3. db' \in Database
    BY <2>1, <2>2, <1>0 DEF Database, Mark, Delivery
  <2>4. Moves(r) /\ UNCHANGED <<accepted, note, abandoned>>
    BY <1>3, WriteMoves DEF Activate
  <2>9. UNCHANGED <<AcademicRows, db.match, db.support, MessagingRows, NotificationRows,
                  OnboardingRows>>
    BY <2>2, <1>0 DEF Database
  <2> QED
    BY <2>1, <2>3, <2>4, <2>9, <1>0
<1>4. CASE UpdateTask(r)
  <2>1. Op(r) \in { "COMPLETE", "REOPEN" } /\ call[r].workspace \in Key /\ call[r].item \in Item
    BY <1>4, <1>0, Names DEF UpdateTask, Write, Located, Asked, Ops, On, Op
  <2>2. db' = [db EXCEPT !.tasks[call[r].workspace][call[r].item] =
                      IF Op(r) = "COMPLETE" THEN "COMPLETE" ELSE "TODO"]
    BY <1>4 DEF UpdateTask, Write
  <2>3. db' \in Database
    BY <2>1, <2>2, <1>0 DEF Database, TaskMark
  <2>4. Moves(r) /\ UNCHANGED <<accepted, note, abandoned>>
    BY <1>4, WriteMoves DEF UpdateTask
  <2>9. UNCHANGED <<AcademicRows, db.match, db.support, MessagingRows, NotificationRows,
                  OnboardingRows>>
    BY <2>2, <1>0 DEF Database
  <2> QED
    BY <2>1, <2>3, <2>4, <2>9, <1>0
<1>5. CASE Count(r)
  <2>1. Op(r) \in { "COMPLETE", "REOPEN", "SUBMIT" }
    BY <1>5, <1>0, Names DEF Count, Read, Located, Asked, Ops, On, Op
  <2> DEFINE complete == Tasks(r, "COMPLETE")
             left == Tasks(r, "TODO")
             status == IF Op(r) = "SUBMIT" THEN "submitted"
                       ELSE IF left = {} /\ complete # {} THEN "ready" ELSE "building"
             n == [note[r] EXCEPT !.count = Cardinality(complete), !.status = status]
  <2>2. Read(r, "count", Op(r) = "SUBMIT" => left = {}, n)
    BY <1>5 DEF Count
  <2>3. Cardinality(complete) \in Nat
    BY JourneysAssumption, FS_Subset, FS_CardinalityType DEF Tasks
  <2>4. n \in Notes
    BY <2>3, <1>0 DEF Notes, Statuses
  <2> HIDE DEF n
  <2> QED
    BY <2>1, <2>2, <2>4, <1>0, ReadMoves
<1>6. CASE SetStatus(r)
  <2>1. Op(r) \in { "COMPLETE", "REOPEN", "SUBMIT" } /\ call[r].workspace \in Key
    BY <1>6, <1>0, Names DEF SetStatus, Write, Located, Asked, Ops, On, Op
  <2>2. db' = [db EXCEPT !.workspace[call[r].workspace] = IF @ = NoRow THEN @ ELSE note[r].status]
    BY <1>6 DEF SetStatus, Write
  <2>3. db' \in Database
    BY <2>1, <2>2, <1>0 DEF Database, Notes
  <2>4. Moves(r) /\ UNCHANGED <<accepted, note, abandoned>>
    BY <1>6, WriteMoves DEF SetStatus
  <2>9. UNCHANGED <<AcademicRows, db.match, db.support, MessagingRows, NotificationRows,
                  OnboardingRows>>
    BY <2>2, <1>0 DEF Database
  <2> QED
    BY <2>1, <2>3, <2>4, <2>9, <1>0
<1>7. CASE RecordTransition(r)
  <2>1. Op(r) \in { "COMPLETE", "REOPEN", "SUBMIT" } /\ call[r].key \in Key
    BY <1>7, <1>0 DEF RecordTransition, Write, Located, Asked, Ops, On, Op
  <2>2. db' = [db EXCEPT !.events = @ \union {call[r].key}]
    BY <1>7 DEF RecordTransition, Write
  <2>3. db' \in Database
    BY <2>1, <2>2, <1>0 DEF Database
  <2>4. Moves(r) /\ UNCHANGED <<accepted, note, abandoned>>
    BY <1>7, WriteMoves DEF RecordTransition
  <2>9. UNCHANGED <<AcademicRows, db.match, db.support, MessagingRows, NotificationRows,
                  OnboardingRows>>
    BY <2>2, <1>0 DEF Database
  <2> QED
    BY <2>1, <2>3, <2>4, <2>9, <1>0
<1> QED
  BY <1>1, <1>2, <1>3, <1>4, <1>5, <1>6, <1>7 DEF Application

LEMMA OpportunityTouches ==
  ASSUME TypeOK, NEW r \in Request, Opportunity(r)
  PROVE  /\ Step(r, { "DISCOVER", "DECIDE" })
         /\ UNCHANGED <<AcademicRows, ApplicationRows, db.support, MessagingRows, NotificationRows,
                        OnboardingRows>>
<1> USE DEF Step, AcademicRows, ApplicationRows, MessagingRows, NotificationRows, OnboardingRows
<1>0. /\ Located(r) /\ note[r] \in Notes /\ note \in [Request -> Notes] /\ abandoned \in BOOLEAN
      /\ db \in Database
  BY DEF TypeOK
<1>1. CASE PersistMatches(r)
  <2> DEFINE found == [m \in Match |-> IF m \in call[r].matches THEN Found(db.match[m]) ELSE db.match[m]]
  <2>1. Op(r) = "DISCOVER"
    BY <1>1, <1>0, Names DEF PersistMatches, Write, Located, Asked, Ops, On, Op
  <2>2. db' = [db EXCEPT !.match = found]
    BY <1>1 DEF PersistMatches, Write
  <2>3. db.match \in [Match -> MatchRow]
    BY <1>0 DEF Database
  <2>4. found \in [Match -> MatchRow]
    BY <2>1, <2>3, <1>0 DEF MatchRow, Mark, Delivery, Found
  <2> HIDE DEF found
  <2>5. db' \in Database
    BY <2>1, <2>2, <2>3, <2>4, <1>0 DEF Database
  <2>6. Moves(r) /\ UNCHANGED <<accepted, note, abandoned>>
    BY <1>1, WriteMoves DEF PersistMatches
  <2>9. UNCHANGED <<AcademicRows, ApplicationRows, db.support, MessagingRows, NotificationRows,
                  OnboardingRows>>
    BY <2>2, <1>0 DEF Database
  <2> QED
    BY <2>1, <2>5, <2>6, <2>9, <1>0
<1>2. CASE CompleteMatchDelivery(r)
  <2> DEFINE found == [m \in Match |->
               IF m \in call[r].matches THEN [db.match[m] EXCEPT !.delivery = "DELIVERED"] ELSE db.match[m]]
  <2>1. Op(r) = "DISCOVER"
    BY <1>2, <1>0 DEF CompleteMatchDelivery, Write, Located, Asked, Ops, On, Op
  <2>2. db' = [db EXCEPT !.match = found]
    BY <1>2 DEF CompleteMatchDelivery, Write
  <2>3. db.match \in [Match -> MatchRow]
    BY <1>0 DEF Database
  <2>4. found \in [Match -> MatchRow]
    BY <2>1, <2>3, <1>0 DEF MatchRow, Mark, Delivery, Found
  <2> HIDE DEF found
  <2>5. db' \in Database
    BY <2>1, <2>2, <2>3, <2>4, <1>0 DEF Database
  <2>6. Moves(r) /\ UNCHANGED <<accepted, note, abandoned>>
    BY <1>2, WriteMoves DEF CompleteMatchDelivery
  <2>9. UNCHANGED <<AcademicRows, ApplicationRows, db.support, MessagingRows, NotificationRows,
                  OnboardingRows>>
    BY <2>2, <1>0 DEF Database
  <2> QED
    BY <2>1, <2>5, <2>6, <2>9, <1>0
<1>3. CASE StageDecision(r)
  <2>1. Op(r) = "DECIDE" /\ call[r].match \in Match /\ call[r].decision \in { "SAVED", "DISMISSED" }
    BY <1>3, <1>0, Names DEF StageDecision, Write, Located, Asked, Ops, On, Op
  <2>2. db' = [db EXCEPT !.match[call[r].match].pending = call[r].decision,
                       !.match[call[r].match].delivery = "PENDING"]
    BY <1>3 DEF StageDecision, Write
  <2>3. db.match \in [Match -> MatchRow]
    BY <1>0 DEF Database
  <2> DEFINE m == call[r].match
             marked == [db EXCEPT !.match[m].pending = call[r].decision]
  <2>4. marked \in Database
    <3>1. [db.match[m] EXCEPT !.pending = call[r].decision] \in MatchRow
      BY <2>1, <2>3 DEF MatchRow
    <3> QED
      BY <3>1, <2>1, <2>3, <1>0 DEF Database
  <2>7. db' = [marked EXCEPT !.match[m].delivery = "PENDING"]
    BY <2>2
  <2> HIDE DEF marked
  <2>5. db' \in Database
    <3>1. marked.match \in [Match -> MatchRow]
      BY <2>4 DEF Database
    <3>2. [marked.match[m] EXCEPT !.delivery = "PENDING"] \in MatchRow
      BY <3>1, <2>1 DEF MatchRow, Mark, Delivery
    <3> QED
      BY <3>1, <3>2, <2>1, <2>4, <2>7 DEF Database
  <2>6. Moves(r) /\ UNCHANGED <<accepted, note, abandoned>>
    BY <1>3, WriteMoves DEF StageDecision
  <2>9. UNCHANGED <<AcademicRows, ApplicationRows, db.support, MessagingRows, NotificationRows,
                  OnboardingRows>>
    BY <2>2, <1>0 DEF Database
  <2> QED
    BY <2>1, <2>5, <2>6, <2>9, <1>0
<1>4. CASE CompleteDecision(r)
  <2>1. Op(r) = "DECIDE" /\ call[r].match \in Match /\ call[r].decision \in { "SAVED", "DISMISSED" }
    BY <1>4, <1>0 DEF CompleteDecision, Write, Located, Asked, Ops, On, Op
  <2>2. db' = [db EXCEPT !.match[call[r].match] =
                 [status |-> call[r].decision, pending |-> NoRow, delivery |-> "DELIVERED"]]
    BY <1>4 DEF CompleteDecision, Write
  <2>3. db.match \in [Match -> MatchRow]
    BY <1>0 DEF Database
  <2>4. [status |-> call[r].decision, pending |-> NoRow, delivery |-> "DELIVERED"] \in MatchRow
    BY <2>1, <2>3, <1>0 DEF MatchRow, Mark, Delivery, Found
  <2>5. db' \in Database
    BY <2>1, <2>2, <2>3, <2>4, <1>0 DEF Database
  <2>6. Moves(r) /\ UNCHANGED <<accepted, note, abandoned>>
    BY <1>4, WriteMoves DEF CompleteDecision
  <2>9. UNCHANGED <<AcademicRows, ApplicationRows, db.support, MessagingRows, NotificationRows,
                  OnboardingRows>>
    BY <2>2, <1>0 DEF Database
  <2> QED
    BY <2>1, <2>5, <2>6, <2>9, <1>0
<1> QED
  BY <1>1, <1>2, <1>3, <1>4 DEF Opportunity

LEMMA SupportTouches ==
  ASSUME TypeOK, NEW r \in Request, Support(r)
  PROVE  /\ Step(r, { "ASK", "SEND" })
         /\ UNCHANGED <<AcademicRows, ApplicationRows, db.match, MessagingRows, NotificationRows,
                        OnboardingRows>>
<1> USE DEF Step, AcademicRows, ApplicationRows, MessagingRows, NotificationRows, OnboardingRows
<1>0. /\ Located(r) /\ note[r] \in Notes /\ note \in [Request -> Notes] /\ abandoned \in BOOLEAN
      /\ db \in Database
  BY DEF TypeOK
<1>1. CASE CheckRelationship(r)
  <2>1. Op(r) \in { "ASK", "SEND" }
    BY <1>1, <1>0, Names DEF CheckRelationship, Read, Located, Asked, Ops, On, Op
  <2>2. note[r] \in Notes
    BY <1>0 DEF Notes
  <2> QED
    BY <2>1, <2>2, <1>1, <1>0, ReadMoves DEF CheckRelationship
<1>2. CASE CreateRequest(r)
  <2>1. Op(r) = "ASK" /\ call[r].key \in Key
    BY <1>2, <1>0, Names DEF CreateRequest, Write, Located, Asked, Ops, On, Op
  <2>2. db' = [db EXCEPT !.support[call[r].key] = "PENDING"]
    BY <1>2 DEF CreateRequest, Write
  <2>3. db' \in Database
    BY <2>1, <2>2, <1>0 DEF Database, Mark, Delivery
  <2>4. Moves(r) /\ UNCHANGED <<accepted, note, abandoned>>
    BY <1>2, WriteMoves DEF CreateRequest
  <2>9. UNCHANGED <<AcademicRows, ApplicationRows, db.match, MessagingRows, NotificationRows,
                  OnboardingRows>>
    BY <2>2, <1>0 DEF Database
  <2> QED
    BY <2>1, <2>3, <2>4, <2>9, <1>0
<1>3. CASE MarkDelivered(r)
  <2>1. Op(r) = "ASK" /\ call[r].key \in Key
    BY <1>3, <1>0 DEF MarkDelivered, Write, Located, Asked, Ops, On, Op
  <2>2. db' = [db EXCEPT !.support[call[r].key] = "DELIVERED"]
    BY <1>3 DEF MarkDelivered, Write
  <2>3. db' \in Database
    BY <2>1, <2>2, <1>0 DEF Database, Mark, Delivery
  <2>4. Moves(r) /\ UNCHANGED <<accepted, note, abandoned>>
    BY <1>3, WriteMoves DEF MarkDelivered
  <2>9. UNCHANGED <<AcademicRows, ApplicationRows, db.match, MessagingRows, NotificationRows,
                  OnboardingRows>>
    BY <2>2, <1>0 DEF Database
  <2> QED
    BY <2>1, <2>3, <2>4, <2>9, <1>0
<1> QED
  BY <1>1, <1>2, <1>3 DEF Support

LEMMA MessagingTouches ==
  ASSUME TypeOK, NEW r \in Request, Messaging(r)
  PROVE  /\ Step(r, { "SEND", "BLOCK", "UNBLOCK", "REPORT" })
         /\ UNCHANGED <<AcademicRows, ApplicationRows, db.match, db.support, NotificationRows,
                        OnboardingRows>>
<1> USE DEF Step, AcademicRows, ApplicationRows, NotificationRows, OnboardingRows
<1>0. /\ Located(r) /\ note[r] \in Notes /\ note \in [Request -> Notes] /\ abandoned \in BOOLEAN
      /\ db \in Database
  BY DEF TypeOK
<1>1. CASE FindConversation(r)
  <2>1. Op(r) = "SEND" /\ at[r] = 2 /\ at \in [Request -> Nat]
    BY <1>1, <1>0, Names DEF FindConversation, TypeOK
  <2>2. Len(Steps(Op(r))) = 8
    BY <2>1, Lengths
  <2>3. CASE db.conversation
    <3>1. SkipOne(r)
      BY <2>3, <1>1 DEF FindConversation
    <3>2. at' \in [Request -> Nat] /\ at'[r] = 4 /\ \A q \in Request : q # r => at'[q] = at[q]
      BY <3>1, <2>1, SkipMoves
    <3>3. at[r] # 0 /\ 4 \in 1 .. 8
      BY <2>1
    <3>4. Moves(r)
      BY <2>2, <3>2, <3>3, <1>1 DEF FindConversation, Moves, Same
    <3> QED
      BY <2>1, <3>4, <1>1, <1>0 DEF FindConversation, Same
  <2>4. CASE ~db.conversation
    BY <2>1, <2>2, <2>4, <1>1, <1>0, AdvanceMoves DEF FindConversation, Moves, Same
  <2> QED
    BY <2>3, <2>4
<1>2. CASE InsertConversation(r)
  <2>1. Op(r) = "SEND"
    BY <1>2, <1>0, Names DEF InsertConversation, Write, Located, Asked, Ops, On, Op
  <2>2. db' = [db EXCEPT !.conversation = TRUE]
    BY <1>2 DEF InsertConversation, Write
  <2>3. db' \in Database
    BY <2>1, <2>2, <1>0 DEF Database
  <2>4. Moves(r) /\ UNCHANGED <<accepted, note, abandoned>>
    BY <1>2, WriteMoves DEF InsertConversation
  <2>9. UNCHANGED <<AcademicRows, ApplicationRows, db.match, db.support, NotificationRows,
                  OnboardingRows>>
    BY <2>2, <1>0 DEF Database
  <2> QED
    BY <2>1, <2>3, <2>4, <2>9, <1>0
<1>3. CASE Join(r)
  <2>1. Op(r) = "SEND"
    BY <1>3, <1>0, Names DEF Join, Write, Located, Asked, Ops, On, Op
  <2>2. db' = [db EXCEPT !.participant = IF @ = NoRow THEN "MEMBER" ELSE @]
    BY <1>3 DEF Join, Write
  <2>3. db' \in Database
    BY <2>1, <2>2, <1>0 DEF Database
  <2>4. Moves(r) /\ UNCHANGED <<accepted, note, abandoned>>
    BY <1>3, WriteMoves DEF Join
  <2>9. UNCHANGED <<AcademicRows, ApplicationRows, db.match, db.support, NotificationRows,
                  OnboardingRows>>
    BY <2>2, <1>0 DEF Database
  <2> QED
    BY <2>1, <2>3, <2>4, <2>9, <1>0
<1>4. CASE CheckBlocked(r)
  <2>1. Op(r) = "SEND" /\ at[r] # 0
    BY <1>4, <1>0, Names DEF CheckBlocked, On
  <2> QED
    BY <2>1, <1>4, <1>0, AdvanceMoves, StopMoves DEF CheckBlocked, Moves, Same, Database
<1>5. CASE StageMessage(r)
  <2>1. Op(r) = "SEND" /\ call[r].key \in Key
    BY <1>5, <1>0, Names DEF StageMessage, Write, Located, Asked, Ops, On, Op
  <2>2. db' = [db EXCEPT !.message[call[r].key] = IF @ = NoRow THEN "PENDING" ELSE @]
    BY <1>5 DEF StageMessage, Write
  <2>3. db' \in Database
    BY <2>1, <2>2, <1>0 DEF Database, Mark, Delivery
  <2>4. Moves(r) /\ UNCHANGED <<accepted, note, abandoned>>
    BY <1>5, WriteMoves DEF StageMessage
  <2>9. UNCHANGED <<AcademicRows, ApplicationRows, db.match, db.support, NotificationRows,
                  OnboardingRows>>
    BY <2>2, <1>0 DEF Database
  <2> QED
    BY <2>1, <2>3, <2>4, <2>9, <1>0
<1>6. CASE FinishMessage(r)
  <2>1. Op(r) = "SEND" /\ call[r].key \in Key
    BY <1>6, <1>0 DEF FinishMessage, Write, Located, Asked, Ops, On, Op
  <2>2. db' = [db EXCEPT !.message[call[r].key] = "DELIVERED"]
    BY <1>6 DEF FinishMessage, Write
  <2>3. db' \in Database
    BY <2>1, <2>2, <1>0 DEF Database, Mark, Delivery
  <2>4. Moves(r) /\ UNCHANGED <<accepted, note, abandoned>>
    BY <1>6, WriteMoves DEF FinishMessage
  <2>9. UNCHANGED <<AcademicRows, ApplicationRows, db.match, db.support, NotificationRows,
                  OnboardingRows>>
    BY <2>2, <1>0 DEF Database
  <2> QED
    BY <2>1, <2>3, <2>4, <2>9, <1>0
<1>7. CASE CheckMember(r)
  <2>1. Op(r) \in { "BLOCK", "UNBLOCK", "REPORT" }
    BY <1>7, <1>0, Names DEF CheckMember, Read, Located, Asked, Ops, On, Op
  <2>2. note[r] \in Notes
    BY <1>0 DEF Notes
  <2> QED
    BY <2>1, <2>2, <1>7, <1>0, ReadMoves DEF CheckMember
<1>8. CASE Act(r)
  <2>1. Op(r) \in { "BLOCK", "UNBLOCK", "REPORT" } /\ (Op(r) = "REPORT" => call[r].key \in Key)
    BY <1>8, <1>0, Names DEF Act, Write, Located, Asked, Ops, On, Op
  <2>2. PICK new : Write(r, "act", new) /\ db' = new
    BY <1>8 DEF Act, Write
  <2>3. \/ db' = db
        \/ db' = [db EXCEPT !.participant = "BLOCKED"]
        \/ db' = [db EXCEPT !.participant = "MEMBER"]
        \/ Op(r) = "REPORT" /\ db' = [db EXCEPT !.reported = @ \union {call[r].key}]
    BY <2>1, <1>8 DEF Act, Write
  <2>4. db' \in Database
    <3>1. CASE db' = [db EXCEPT !.participant = "BLOCKED"]
      BY <3>1, <1>0 DEF Database
    <3>2. CASE db' = [db EXCEPT !.participant = "MEMBER"]
      BY <3>2, <1>0 DEF Database
    <3>3. CASE Op(r) = "REPORT" /\ db' = [db EXCEPT !.reported = @ \union {call[r].key}]
      BY <2>1, <3>3, <1>0 DEF Database
    <3> QED
      BY <2>3, <3>1, <3>2, <3>3, <1>0
  <2>5. Moves(r) /\ UNCHANGED <<accepted, note, abandoned>>
    BY <2>2, WriteMoves
  <2> QED
    BY <2>1, <2>3, <2>4, <2>5, <1>0 DEF Database
<1> QED
  BY <1>1, <1>2, <1>3, <1>4, <1>5, <1>6, <1>7, <1>8 DEF Messaging

LEMMA OnboardingTouches ==
  ASSUME TypeOK, NEW r \in Request, Onboarding(r)
  PROVE  /\ Step(r, { "ONBOARD" })
         /\ UNCHANGED <<AcademicRows, ApplicationRows, db.match, db.support, MessagingRows,
                        NotificationRows>>
<1> USE DEF Step, AcademicRows, ApplicationRows, MessagingRows, NotificationRows
<1>0. /\ Located(r) /\ note[r] \in Notes /\ note \in [Request -> Notes] /\ abandoned \in BOOLEAN
      /\ db \in Database
  BY DEF TypeOK
<1>1. CASE SaveProfile(r)
  <2>1. Op(r) = "ONBOARD"
    BY <1>1, <1>0, Names DEF SaveProfile, Write, Located, Asked, Ops, On, Op
  <2>2. db' = [db EXCEPT !.profile = "GOALS_CAPTURED"]
    BY <1>1 DEF SaveProfile, Write
  <2>3. db' \in Database
    BY <2>1, <2>2, <1>0 DEF Database
  <2>4. Moves(r) /\ UNCHANGED <<accepted, note, abandoned>>
    BY <1>1, WriteMoves DEF SaveProfile
  <2>9. UNCHANGED <<AcademicRows, ApplicationRows, db.match, db.support, MessagingRows,
                  NotificationRows>>
    BY <2>2, <1>0 DEF Database
  <2> QED
    BY <2>1, <2>3, <2>4, <2>9, <1>0
<1>2. CASE SaveGoal(r)
  <2>1. Op(r) = "ONBOARD" /\ call[r].value \in Value
    BY <1>2, <1>0, Names DEF SaveGoal, Write, Located, Asked, Ops, On, Op
  <2>2. db' = [db EXCEPT !.goal = call[r].value]
    BY <1>2 DEF SaveGoal, Write
  <2>3. db' \in Database
    BY <2>1, <2>2, <1>0 DEF Database
  <2>4. Moves(r) /\ UNCHANGED <<accepted, note, abandoned>>
    BY <1>2, WriteMoves DEF SaveGoal
  <2>9. UNCHANGED <<AcademicRows, ApplicationRows, db.match, db.support, MessagingRows,
                  NotificationRows>>
    BY <2>2, <1>0 DEF Database
  <2> QED
    BY <2>1, <2>3, <2>4, <2>9, <1>0
<1>3. CASE SaveMilestone(r)
  <2>1. Op(r) = "ONBOARD"
    BY <1>3, <1>0, Names DEF SaveMilestone, Write, Located, Asked, Ops, On, Op
  <2>2. db' = [db EXCEPT !.milestone = TRUE]
    BY <1>3 DEF SaveMilestone, Write
  <2>3. db' \in Database
    BY <2>1, <2>2, <1>0 DEF Database
  <2>4. Moves(r) /\ UNCHANGED <<accepted, note, abandoned>>
    BY <1>3, WriteMoves DEF SaveMilestone
  <2>9. UNCHANGED <<AcademicRows, ApplicationRows, db.match, db.support, MessagingRows,
                  NotificationRows>>
    BY <2>2, <1>0 DEF Database
  <2> QED
    BY <2>1, <2>3, <2>4, <2>9, <1>0
<1>4. CASE SaveDashboard(r)
  <2>1. Op(r) = "ONBOARD"
    BY <1>4, <1>0, Names DEF SaveDashboard, Write, Located, Asked, Ops, On, Op
  <2>2. db' = [db EXCEPT !.dashboard = TRUE]
    BY <1>4 DEF SaveDashboard, Write
  <2>3. db' \in Database
    BY <2>1, <2>2, <1>0 DEF Database
  <2>4. Moves(r) /\ UNCHANGED <<accepted, note, abandoned>>
    BY <1>4, WriteMoves DEF SaveDashboard
  <2>9. UNCHANGED <<AcademicRows, ApplicationRows, db.match, db.support, MessagingRows,
                  NotificationRows>>
    BY <2>2, <1>0 DEF Database
  <2> QED
    BY <2>1, <2>3, <2>4, <2>9, <1>0
<1>5. CASE DashboardReady(r)
  <2>1. Op(r) = "ONBOARD"
    BY <1>5, <1>0 DEF DashboardReady, Write, Located, Asked, Ops, On, Op
  <2>2. db' = [db EXCEPT !.profile = "DASHBOARD_READY"]
    BY <1>5 DEF DashboardReady, Write
  <2>3. db' \in Database
    BY <2>1, <2>2, <1>0 DEF Database
  <2>4. Moves(r) /\ UNCHANGED <<accepted, note, abandoned>>
    BY <1>5, WriteMoves DEF DashboardReady
  <2>9. UNCHANGED <<AcademicRows, ApplicationRows, db.match, db.support, MessagingRows,
                  NotificationRows>>
    BY <2>2, <1>0 DEF Database
  <2> QED
    BY <2>1, <2>3, <2>4, <2>9, <1>0
<1> QED
  BY <1>1, <1>2, <1>3, <1>4, <1>5 DEF Onboarding

LEMMA NotificationTouches ==
  ASSUME TypeOK, NEW r \in Request, Notification(r)
  PROVE  /\ Step(r, { "NOTIFY", "RETRY", "PREFER", "READ" })
         /\ UNCHANGED <<AcademicRows, ApplicationRows, db.match, db.support, MessagingRows,
                        OnboardingRows>>
<1> USE DEF Step, AcademicRows, ApplicationRows, MessagingRows, OnboardingRows
<1>0. /\ Located(r) /\ note[r] \in Notes /\ note \in [Request -> Notes] /\ abandoned \in BOOLEAN
      /\ db \in Database
  BY DEF TypeOK
<1>1. CASE FindOutbox(r)
  <2>1. Op(r) = "NOTIFY" /\ at[r] = 1 /\ at \in [Request -> Nat] /\ call[r].key \in Key
    BY <1>1, <1>0, Names DEF FindOutbox, TypeOK, Located, Asked, Ops, On, Op
  <2>2. Len(Steps(Op(r))) = 7
    BY <2>1, Lengths
  <2>3. db.outbox[call[r].key].attempts \in Nat
    BY <2>1, <1>0 DEF Database, OutboxRow
  <2>4. /\ [note[r] EXCEPT !.count = db.outbox[call[r].key].attempts] \in Notes
        /\ Remember(r, [note[r] EXCEPT !.count = db.outbox[call[r].key].attempts])
    BY <2>3, <1>1, <1>0 DEF FindOutbox, Notes
  <2>5. Stop(r) \/ Advance(r) \/ SkipOne(r)
    BY <1>1 DEF FindOutbox
  <2>6. /\ at' \in [Request -> Nat] /\ (at'[r] # 0 => at'[r] \in 1 .. Len(Steps(Op(r))))
        /\ \A q \in Request : q # r => at'[q] = at[q]
    <3>1. CASE SkipOne(r)
      <4>1. at' \in [Request -> Nat] /\ at'[r] = 3 /\ \A q \in Request : q # r => at'[q] = at[q]
        BY <3>1, <2>1, SkipMoves
      <4> QED
        BY <4>1, <2>2
    <3> QED
      BY <3>1, <2>1, <2>5, StopMoves, AdvanceMoves
  <2>7. Same /\ UNCHANGED <<db, accepted>>
    BY <1>1 DEF FindOutbox
  <2> QED
    BY <2>1, <2>4, <2>6, <2>7, <1>0, RememberMoves DEF Moves, Same, Database
<1>2. CASE InsertOutbox(r)
  <2>1. Op(r) = "NOTIFY" /\ call[r].key \in Key
    BY <1>2, <1>0, Names DEF InsertOutbox, Write, Located, Asked, Ops, On, Op
  <2>2. db' = [db EXCEPT !.outbox[call[r].key].state = "PENDING"]
    BY <1>2 DEF InsertOutbox, Write
  <2>3. db.outbox \in [Key -> OutboxRow]
    BY <1>0 DEF Database
  <2>4. [db.outbox[call[r].key] EXCEPT !.state = "PENDING"] \in OutboxRow
    BY <2>1, <2>3, <1>0 DEF OutboxRow
  <2>5. db' \in Database
    BY <2>1, <2>2, <2>3, <2>4, <1>0 DEF Database
  <2>6. Moves(r) /\ UNCHANGED <<accepted, note, abandoned>>
    BY <1>2, WriteMoves DEF InsertOutbox
  <2>9. UNCHANGED <<AcademicRows, ApplicationRows, db.match, db.support, MessagingRows, OnboardingRows>>
    BY <2>2, <1>0 DEF Database
  <2> QED
    BY <2>1, <2>5, <2>6, <2>9, <1>0
<1>3. CASE FindFailed(r)
  <2>1. Op(r) = "RETRY" /\ at[r] = 1 /\ call[r].key \in Key
    BY <1>3, <1>0, Names DEF FindFailed, TypeOK, Located, Asked, Ops, On, Op
  <2>2. db.outbox[call[r].key].attempts \in Nat
    BY <2>1, <1>0 DEF Database, OutboxRow
  <2>3. /\ [note[r] EXCEPT !.count = db.outbox[call[r].key].attempts] \in Notes
        /\ Remember(r, [note[r] EXCEPT !.count = db.outbox[call[r].key].attempts])
    BY <2>2, <1>3, <1>0 DEF FindFailed, Notes
  <2>4. (Stop(r) \/ Advance(r)) /\ Same /\ UNCHANGED <<db, accepted>>
    BY <1>3 DEF FindFailed
  <2>5. /\ at' \in [Request -> Nat] /\ (at'[r] # 0 => at'[r] \in 1 .. Len(Steps(Op(r))))
        /\ \A q \in Request : q # r => at'[q] = at[q]
    BY <2>1, <2>4, StopMoves, AdvanceMoves
  <2> QED
    BY <2>1, <2>3, <2>4, <2>5, <1>0, RememberMoves DEF Moves, Same, Database
<1>4. CASE ReadPreference(r)
  <2>1. Op(r) \in { "NOTIFY", "RETRY" }
    BY <1>4, <1>0, Names DEF ReadPreference, Read, Located, Asked, Ops, On, Op
  <2>2. [note[r] EXCEPT !.status = db.mode] \in Notes
    BY <1>0 DEF Notes, Statuses, Database
  <2> QED
    BY <2>1, <2>2, <1>4, <1>0, ReadMoves DEF ReadPreference
<1>5. CASE KeepUnsent(r)
  <2>1. Op(r) \in { "NOTIFY", "RETRY" } /\ call[r].key \in Key /\ at[r] # 0
    BY <1>5, <1>0, Names DEF KeepUnsent, Sends, Located, Asked, Ops, On, Op
  <2>2. db' = [db EXCEPT !.outbox[call[r].key].state =
                 IF note[r].status = "muted" THEN "SUPPRESSED" ELSE "DIGEST_QUEUED"]
    BY <1>5 DEF KeepUnsent
  <2> DEFINE state == IF note[r].status = "muted" THEN "SUPPRESSED" ELSE "DIGEST_QUEUED"
  <2>a. db.outbox \in [Key -> OutboxRow]
    BY <1>0 DEF Database
  <2>b. [db.outbox[call[r].key] EXCEPT !.state = state] \in OutboxRow
    BY <2>1, <2>a DEF OutboxRow, Settled
  <2>3. db' \in Database
    BY <2>1, <2>2, <2>a, <2>b, <1>0 DEF Database
  <2>4. Moves(r) /\ UNCHANGED <<accepted, note, abandoned>>
    BY <2>1, <1>5, StopMoves DEF KeepUnsent, Moves, Same
  <2>9. UNCHANGED <<AcademicRows, ApplicationRows, db.match, db.support, MessagingRows, OnboardingRows>>
    BY <2>2, <1>0 DEF Database
  <2> QED
    BY <2>1, <2>3, <2>4, <2>9, <1>0
<1>6. CASE SaveNotification(r)
  <2>1. Op(r) \in { "NOTIFY", "RETRY" } /\ call[r].key \in Key
    BY <1>6, <1>0, Names DEF SaveNotification, Write, Located, Asked, Ops, On, Op
  <2>2. db' = [db EXCEPT !.notification[call[r].key] = "UNREAD"]
    BY <1>6 DEF SaveNotification, Write
  <2>3. db' \in Database
    BY <2>1, <2>2, <1>0 DEF Database, Inbox
  <2>4. Moves(r) /\ UNCHANGED <<accepted, note, abandoned>>
    BY <1>6, WriteMoves DEF SaveNotification
  <2>9. UNCHANGED <<AcademicRows, ApplicationRows, db.match, db.support, MessagingRows, OnboardingRows>>
    BY <2>2, <1>0 DEF Database
  <2> QED
    BY <2>1, <2>3, <2>4, <2>9, <1>0
<1>7. CASE CompleteOutbox(r)
  <2>1. Op(r) \in { "NOTIFY", "RETRY" } /\ call[r].key \in Key
    BY <1>7, <1>0 DEF CompleteOutbox, Write, Located, Asked, Ops, On, Op
  <2>2. db' = [db EXCEPT !.outbox[call[r].key] = [state |-> "DELIVERED", attempts |-> note[r].count + 1]]
    BY <1>7 DEF CompleteOutbox, Write
  <2>3. db.outbox \in [Key -> OutboxRow]
    BY <1>0 DEF Database
  <2>4. [state |-> "DELIVERED", attempts |-> note[r].count + 1] \in OutboxRow
    BY <2>1, <2>3, <1>0 DEF OutboxRow, Settled, Notes
  <2>5. db' \in Database
    BY <2>1, <2>2, <2>3, <2>4, <1>0 DEF Database
  <2>6. Moves(r) /\ UNCHANGED <<accepted, note, abandoned>>
    BY <1>7, WriteMoves DEF CompleteOutbox
  <2>9. UNCHANGED <<AcademicRows, ApplicationRows, db.match, db.support, MessagingRows, OnboardingRows>>
    BY <2>2, <1>0 DEF Database
  <2> QED
    BY <2>1, <2>5, <2>6, <2>9, <1>0
<1>8. CASE Reply(r)
  <2>1. Op(r) = "NOTIFY"
    BY <1>8, <1>0, Names DEF Reply, Read, Located, Asked, Ops, On, Op
  <2>2. note[r] \in Notes
    BY <1>0 DEF Notes
  <2> QED
    BY <2>1, <2>2, <1>8, <1>0, ReadMoves DEF Reply
<1>9. CASE RecordFailure(r)
  <2>1. Op(r) = "NOTIFY" /\ at[r] # 0 /\ call[r].key \in Key
    BY <1>9, <1>0 DEF RecordFailure, Located, Asked, Ops, Op
  <2>2. db' = [db EXCEPT !.outbox[call[r].key] = [state |-> "FAILED", attempts |-> note[r].count + 1]]
    BY <1>9 DEF RecordFailure
  <2>a. [state |-> "FAILED", attempts |-> note[r].count + 1] \in OutboxRow
    BY <1>0 DEF OutboxRow, Notes
  <2>3. db' \in Database
    BY <2>1, <2>2, <2>a, <1>0 DEF Database
  <2>4. Moves(r) /\ UNCHANGED <<accepted, note>> /\ abandoned' = TRUE
    BY <2>1, <1>9, StopMoves DEF RecordFailure, Moves
  <2>9. UNCHANGED <<AcademicRows, ApplicationRows, db.match, db.support, MessagingRows, OnboardingRows>>
    BY <2>2, <1>0 DEF Database
  <2> QED
    BY <2>1, <2>3, <2>4, <2>9, <1>0
<1>10. CASE SetPreference(r)
  <2>1. /\ Op(r) \in { "PREFER", "READ" }
        /\ Op(r) = "PREFER" => call[r].mode \in Modes
        /\ Op(r) = "READ" => call[r].key \in Key
    BY <1>10, <1>0, Names DEF SetPreference, Write, Located, Asked, Ops, On, Op
  <2>2. \/ Op(r) = "PREFER" /\ db' = [db EXCEPT !.mode = call[r].mode]
        \/ db' = db
        \/ Op(r) = "READ" /\ db' = [db EXCEPT !.notification[call[r].key] = "READ"]
    BY <2>1, <1>10 DEF SetPreference, Write
  <2>3. db' \in Database
    <3>1. CASE Op(r) = "PREFER" /\ db' = [db EXCEPT !.mode = call[r].mode]
      BY <2>1, <3>1, <1>0 DEF Database
    <3>2. CASE Op(r) = "READ" /\ db' = [db EXCEPT !.notification[call[r].key] = "READ"]
      BY <2>1, <3>2, <1>0 DEF Database, Inbox
    <3> QED
      BY <2>2, <3>1, <3>2, <1>0
  <2>4. Moves(r) /\ UNCHANGED <<accepted, note, abandoned>>
    BY <1>10, WriteMoves DEF SetPreference
  <2>9. UNCHANGED <<AcademicRows, ApplicationRows, db.match, db.support, MessagingRows, OnboardingRows>>
    BY <2>2, <1>0 DEF Database
  <2> QED
    BY <2>1, <2>3, <2>4, <2>9, <1>0
<1> QED
  BY <1>1, <1>2, <1>3, <1>4, <1>5, <1>6, <1>7, <1>8, <1>9, <1>10 DEF Notification

-----------------------------------------------------------------------------
(* The other steps *)

LEMMA Begun ==
  ASSUME TypeOK, NEW r \in Request, Begin(r)
  PROVE  /\ TypeOK'
         /\ at[r] = 0 /\ at'[r] = 1 /\ note'[r] = NoNote
         /\ \A q \in Request : q # r => at'[q] = at[q] /\ call'[q] = call[q] /\ note'[q] = note[q]
         /\ UNCHANGED <<db, accepted, abandoned>>
<1>1. PICK c \in Calls(journey) : call' = [call EXCEPT ![r] = c]
  BY DEF Begin
<1>2. Asked(c)
  <2>1. c \in UNION { Calls(j) : j \in Journeys } /\ journey \in Journeys
    BY <1>1 DEF TypeOK
  <2>2. CASE journey = "ACADEMIC"
    BY <2>2, <1>1 DEF Calls, Asked, Ops
  <2>3. CASE journey = "APPLICATION"
    BY <2>3, <1>1 DEF Calls, Asked, Ops
  <2>4. CASE journey = "OPPORTUNITY"
    BY <2>4, <1>1 DEF Calls, Asked, Ops
  <2>5. CASE journey = "SUPPORT"
    BY <2>5, <1>1 DEF Calls, Asked, Ops
  <2>6. CASE journey = "MESSAGING"
    BY <2>6, <1>1 DEF Calls, Asked, Ops
  <2>7. CASE journey = "NOTIFICATION"
    BY <2>7, <1>1 DEF Calls, Asked, Ops, Modes
  <2>8. CASE journey = "ONBOARDING"
    BY <2>8, <1>1 DEF Calls, Asked, Ops
  <2> QED
    BY <2>1, <2>2, <2>3, <2>4, <2>5, <2>6, <2>7, <2>8 DEF Journeys
<1>3. 1 \in 1 .. Len(Steps(c.op))
  <2> DEFINE n == Len(Steps(c.op))
  <2>1. n \in { 1, 2, 3, 4, 5, 7, 8 }
    BY <1>2, Lengths DEF Asked, Ops
  <2> SUFFICES 1 \in 1 .. n
    OBVIOUS
  <2> HIDE DEF n
  <2> QED
    BY <2>1
<1>4. /\ at' = [at EXCEPT ![r] = 1] /\ note' = [note EXCEPT ![r] = NoNote] /\ at[r] = 0
      /\ UNCHANGED <<journey, db, accepted, abandoned>>
  BY DEF Begin, Remember
<1>5. NoNote \in Notes
  BY DEF NoNote, Notes, Statuses
<1>6. /\ at \in [Request -> Nat] /\ note \in [Request -> Notes]
      /\ DOMAIN call = Request /\ call = [q \in Request |-> call[q]]
  BY DEF TypeOK
<1>7. /\ at' \in [Request -> Nat] /\ note' \in [Request -> Notes] /\ at'[r] = 1 /\ note'[r] = NoNote
      /\ \A q \in Request : q # r => at'[q] = at[q] /\ note'[q] = note[q]
  BY <1>4, <1>5, <1>6
<1>8. /\ DOMAIN call' = Request /\ call' = [q \in Request |-> call'[q]] /\ call'[r] = c
      /\ \A q \in Request : q # r => call'[q] = call[q]
  BY <1>1, <1>6
<1>9. \A q \in Request : Located(q)'
  BY <1>2, <1>3, <1>7, <1>8 DEF TypeOK, Located, Op
<1> QED
  BY <1>1, <1>4, <1>7, <1>8, <1>9 DEF TypeOK

LEMMA Abandoned ==
  ASSUME TypeOK, NEW r \in Request, Abandon(r)
  PROVE  /\ TypeOK'
         /\ at'[r] = 0 /\ \A q \in Request : q # r => at'[q] = at[q]
         /\ abandoned' = TRUE
         /\ UNCHANGED <<db, accepted, call, note>>
<1>1. at' \in [Request -> Nat] /\ at'[r] = 0 /\ \A q \in Request : q # r => at'[q] = at[q]
  BY StopMoves DEF Abandon
<1> QED
  BY <1>1 DEF Abandon, TypeOK, Located, Op

\* The event a request is about to publish.
Due(r) == Event(call[r], note[r], Steps(Op(r))[at[r]])

LEMMA Published ==
  ASSUME TypeOK, NEW r \in Request, Publish(r)
  PROVE  /\ TypeOK' /\ Moves(r)
         /\ at'[r] = Onward(r)
         /\ On(r, "publish") \/ On(r, "project")
         /\ Sends(r)
         /\ accepted' = accepted \cup { Due(r) }
         /\ accepted \subseteq accepted' /\ Asked(call[r])
         /\ UNCHANGED <<db, note, call, abandoned>>
<1>1. /\ at[r] # 0 /\ Advance(r) /\ Sends(r) /\ Same /\ UNCHANGED <<db, note>>
      /\ accepted' = accepted \cup { Due(r) }
      /\ Steps(Op(r))[at[r]] \in { "publish", "project" }
  BY DEF Publish, Due
<1>2. /\ Moves(r) /\ at'[r] = Onward(r)
  BY <1>1, AdvanceMoves DEF Moves, Same
<1>3. TypeOK'
  BY <1>1, <1>2, MovesTyped DEF TypeOK, Same
<1> QED
  BY <1>1, <1>2, <1>3 DEF On, Op, Same, TypeOK, Located

LEMMA Related ==
  ASSUME TypeOK, Relate
  PROVE  /\ TypeOK'
         /\ UNCHANGED <<accepted, call, at, note, abandoned>>
         /\ UNCHANGED <<AcademicRows, ApplicationRows, db.match, db.support, MessagingRows,
                        NotificationRows, OnboardingRows>>
<1>1. db \in Database /\ db' = [db EXCEPT !.related = ~@]
  BY DEF Relate, TypeOK
<1>2. db' \in Database
  BY <1>1 DEF Database
<1>3. UNCHANGED <<AcademicRows, ApplicationRows, db.match, db.support, MessagingRows,
                  NotificationRows, OnboardingRows>>
  BY <1>1 DEF Database, AcademicRows, ApplicationRows, MessagingRows, NotificationRows, OnboardingRows
<1> QED
  BY <1>2, <1>3 DEF Relate, TypeOK, Located, Op

LEMMA InitTyped == Init => TypeOK
<1> SUFFICES ASSUME Init PROVE TypeOK
  OBVIOUS
<1>1. db \in Database
  BY DEF Init, EmptyDb, Database, Mark, TaskMark, MatchRow, OutboxRow, Inbox, Statuses, Modes
<1> QED
  BY <1>1, JourneysAssumption DEF Init, TypeOK, Located, NoNote, Notes, Statuses

LEMMA NextTyped == TypeOK /\ [Next]_vars => TypeOK'
<1> SUFFICES ASSUME TypeOK, [Next]_vars PROVE TypeOK'
  OBVIOUS
<1>1. ASSUME NEW r \in Request, NEW ops, Step(r, ops) PROVE TypeOK'
  BY <1>1, MovesTyped DEF Step, TypeOK
<1>2. ASSUME NEW r \in Request,
             \/ Academic(r) \/ Application(r) \/ Opportunity(r) \/ Support(r) \/ Messaging(r)
             \/ Notification(r) \/ Onboarding(r)
      PROVE  TypeOK'
  BY <1>1, <1>2, AcademicTouches, ApplicationTouches, OpportunityTouches, SupportTouches,
     MessagingTouches, NotificationTouches, OnboardingTouches
<1>3. CASE UNCHANGED vars
  BY <1>3 DEF vars, TypeOK, Located, Op
<1> QED
  BY <1>2, <1>3, Begun, Abandoned, Published, Related DEF Next

-----------------------------------------------------------------------------
(* Steps that are no concern of a journey *)

\* No request of ops moves, but for one that ends without its answer, and no event with one
\* of the tags is accepted.
Elsewhere(ops, tags) ==
  /\ \A q \in Request :
       at'[q] # 0 /\ call'[q].op \in ops => at'[q] = at[q] /\ call'[q] = call[q] /\ note'[q] = note[q]
  /\ \A q \in Request :
       ~abandoned' /\ at[q] # 0 /\ call[q].op \in ops => at'[q] = at[q] /\ call'[q] = call[q]
  /\ abandoned => abandoned'
  /\ accepted \subseteq accepted'
  /\ \A a \in accepted' : a \in accepted \/ a.body[1] \notin tags

LEMMA StepElsewhere ==
  ASSUME TypeOK, NEW r \in Request, NEW mine, Step(r, mine), NEW ops, NEW tags, Op(r) \notin ops
  PROVE  Elsewhere(ops, tags)
<1>1. /\ \A q \in Request : q # r => at'[q] = at[q] /\ note'[q] = note[q]
      /\ call' = call /\ accepted' = accepted /\ abandoned' \in { abandoned, TRUE }
      /\ call[r].op \notin ops
  BY DEF Step, Moves, Op
<1>2. abandoned => abandoned'
  BY <1>1
<1>3. \A q \in Request :
        call[q].op \in ops => at'[q] = at[q] /\ call'[q] = call[q] /\ note'[q] = note[q]
  BY <1>1
<1>4. \A q \in Request :
        call'[q].op \in ops => at'[q] = at[q] /\ call'[q] = call[q] /\ note'[q] = note[q]
  BY <1>1, <1>3
<1> QED
  BY <1>1, <1>2, <1>3, <1>4 DEF Elsewhere

LEMMA AbandonElsewhere ==
  ASSUME TypeOK, NEW r \in Request, Abandon(r), NEW ops, NEW tags PROVE Elsewhere(ops, tags)
  BY Abandoned DEF Elsewhere

LEMMA BeginElsewhere ==
  ASSUME TypeOK, NEW r \in Request, Begin(r), NEW ops, NEW tags, call'[r].op \notin ops
  PROVE  Elsewhere(ops, tags)
  BY Begun DEF Elsewhere

LEMMA PublishElsewhere ==
  ASSUME TypeOK, NEW r \in Request, Publish(r), NEW ops, NEW tags, Op(r) \notin ops,
         Due(r).body[1] \notin tags
  PROVE  Elsewhere(ops, tags)
  BY Published DEF Elsewhere, Moves, Op

LEMMA StillElsewhere ==
  ASSUME TypeOK, UNCHANGED <<accepted, call, at, note, abandoned>>, NEW ops, NEW tags
  PROVE  Elsewhere(ops, tags)
  BY DEF Elsewhere

\* The events, by the request that publishes them.
LEMMA Events ==
  ASSUME NEW r \in Request
  PROVE  /\ Op(r) = "UPLOAD" =>
              Due(r) = [key |-> <<"READINESS", call[r].key, call[r].value>>,
                        body |-> <<"READINESS", call[r].key, call[r].value>>]
         /\ Op(r) = "CREATE" =>
              Due(r) = [key |-> <<"APPLICATION", call[r].key>>, body |-> <<"CREATED", call[r].key>>]
         /\ Op(r) \in { "COMPLETE", "REOPEN", "SUBMIT" } =>
              Due(r) = [key |-> <<"APPLICATION", call[r].key>>,
                        body |-> <<"PROGRESS", call[r].workspace, Op(r), note[r].count, note[r].status>>]
         /\ Op(r) = "DISCOVER" =>
              Due(r) = [key |-> <<"MATCHES", call[r].matches>>, body |-> <<"MATCHES", call[r].matches>>]
         /\ Op(r) = "DECIDE" =>
              Due(r) = [key |-> <<"DECISION", call[r].key>>,
                        body |-> <<"DECISION", call[r].match, call[r].decision>>]
         /\ Op(r) = "ASK" =>
              Due(r) = [key |-> <<"SUPPORT", call[r].key>>,
                        body |-> <<"SUPPORT", call[r].key, call[r].value>>]
         /\ Op(r) = "SEND" =>
              Due(r) = [key |-> <<"MESSAGE", call[r].key>>, body |-> <<"MESSAGE", call[r].key>>]
         /\ Op(r) \in { "NOTIFY", "RETRY" } =>
              Due(r) = [key |-> <<"NOTIFICATION", call[r].key>>, body |-> <<"NOTIFICATION", call[r].key>>]
         /\ Op(r) = "ONBOARD" =>
              Due(r) = [key |-> <<Steps(Op(r))[at[r]]>>, body |-> <<Steps(Op(r))[at[r]]>>]
  BY DEF Due, Event, Op

-----------------------------------------------------------------------------
(* What stays *)

USE DEF NoRow

\* A request op for the key k is between its steps n and m.
Going(op, n, m, k) == \E q \in Request : at[q] \in n .. m /\ Op(q) = op /\ call[q].key = k

LEMMA GoingStays ==
  ASSUME TypeOK, NEW r \in Request, Moves(r), NEW op, NEW n \in Nat, NEW m \in Nat, NEW k,
         Going(op, n, m, k),
         Op(r) = op /\ call[r].key = k /\ at[r] \in n .. m => at'[r] \in n .. m
  PROVE  Going(op, n, m, k)'
<1>1. PICK q \in Request : at[q] \in n .. m /\ Op(q) = op /\ call[q].key = k
  BY DEF Going
<1>2. at'[q] \in n .. m
  BY <1>1 DEF Moves
<1> QED
  BY <1>1, <1>2 DEF Going, Moves, Op

LEMMA GoingNow ==
  ASSUME NEW r \in Request, Moves(r), NEW op, NEW n \in Nat, NEW m \in Nat, NEW k,
         Op(r) = op, call[r].key = k, at'[r] \in n .. m
  PROVE  Going(op, n, m, k)'
  BY DEF Going, Moves, Op

LEMMA GoingElsewhere ==
  ASSUME NEW op, NEW n \in Nat \ { 0 }, NEW m \in Nat, NEW k, Going(op, n, m, k), ~abandoned',
         NEW ops, NEW tags, op \in ops, Elsewhere(ops, tags)
  PROVE  Going(op, n, m, k)'
<1>1. PICK q \in Request : at[q] \in n .. m /\ Op(q) = op /\ call[q].key = k
  BY DEF Going
<1>2. at[q] # 0
  BY <1>1
<1>3. at'[q] = at[q] /\ call'[q] = call[q]
  BY <1>1, <1>2 DEF Elsewhere, Op
<1> QED
  BY <1>1, <1>3 DEF Going, Op

LEMMA AcceptedStays ==
  ASSUME accepted \subseteq accepted', NEW key, Accepted(key) PROVE Accepted(key)'
  BY DEF Accepted

LEMMA GoingBegun ==
  ASSUME TypeOK, NEW s \in Request, Begin(s), NEW op, NEW n \in Nat \ { 0 }, NEW m \in Nat, NEW k,
         Going(op, n, m, k)
  PROVE  Going(op, n, m, k)'
<1>1. PICK q \in Request : at[q] \in n .. m /\ Op(q) = op /\ call[q].key = k
  BY DEF Going
<1>2. q # s
  BY <1>1, Begun
<1>3. at'[q] = at[q] /\ call'[q] = call[q]
  BY <1>2, Begun
<1> QED
  BY <1>1, <1>3 DEF Going, Op

\* The kind of event a request publishes.
Tags == { "READINESS", "CREATED", "PROGRESS", "MATCHES", "DECISION", "SUPPORT", "MESSAGE", "NOTIFICATION",
          "publish", "project" }

DueTag(r) == Due(r).body[1]

LEMMA Tagged ==
  ASSUME TypeOK, NEW r \in Request, Publish(r)
  PROVE  \/ Op(r) = "UPLOAD" /\ at[r] = 3 /\ DueTag(r) = "READINESS"
         \/ Op(r) = "CREATE" /\ at[r] = 3 /\ DueTag(r) = "CREATED"
         \/ Op(r) \in { "COMPLETE", "REOPEN" } /\ at[r] = 4 /\ DueTag(r) = "PROGRESS"
         \/ Op(r) = "SUBMIT" /\ at[r] = 3 /\ DueTag(r) = "PROGRESS"
         \/ Op(r) = "DISCOVER" /\ at[r] = 2 /\ DueTag(r) = "MATCHES"
         \/ Op(r) = "DECIDE" /\ at[r] = 2 /\ DueTag(r) = "DECISION"
         \/ Op(r) = "ASK" /\ at[r] = 3 /\ DueTag(r) = "SUPPORT"
         \/ Op(r) = "SEND" /\ at[r] = 7 /\ DueTag(r) = "MESSAGE"
         \/ Op(r) = "NOTIFY" /\ at[r] = 4 /\ DueTag(r) = "NOTIFICATION"
         \/ Op(r) = "RETRY" /\ at[r] = 3 /\ DueTag(r) = "NOTIFICATION"
         \/ Op(r) = "ONBOARD" /\ at[r] = 4 /\ DueTag(r) = "publish" /\ On(r, "publish")
         \/ Op(r) = "ONBOARD" /\ at[r] = 5 /\ DueTag(r) = "project" /\ On(r, "project")
<1>1. Located(r) /\ (On(r, "publish") \/ On(r, "project"))
  BY Published DEF TypeOK
<1>2. CASE On(r, "publish")
  <2>1. \/ Op(r) \in { "DISCOVER", "DECIDE" } /\ at[r] = 2
        \/ Op(r) \in { "UPLOAD", "CREATE", "SUBMIT", "ASK", "RETRY" } /\ at[r] = 3
        \/ Op(r) \in { "COMPLETE", "REOPEN", "NOTIFY", "ONBOARD" } /\ at[r] = 4
        \/ Op(r) = "SEND" /\ at[r] = 7
    BY <1>1, <1>2, Names
  <2>2. /\ Op(r) = "UPLOAD" => DueTag(r) = "READINESS"
        /\ Op(r) = "CREATE" => DueTag(r) = "CREATED"
        /\ Op(r) \in { "COMPLETE", "REOPEN", "SUBMIT" } => DueTag(r) = "PROGRESS"
        /\ Op(r) = "DISCOVER" => DueTag(r) = "MATCHES"
        /\ Op(r) = "DECIDE" => DueTag(r) = "DECISION"
        /\ Op(r) = "ASK" => DueTag(r) = "SUPPORT"
        /\ Op(r) = "SEND" => DueTag(r) = "MESSAGE"
        /\ Op(r) \in { "NOTIFY", "RETRY" } => DueTag(r) = "NOTIFICATION"
    BY Events DEF DueTag
  <2>3. Op(r) = "ONBOARD" => DueTag(r) = "publish"
    BY <1>2, Events DEF On, Op, DueTag
  <2> QED
    BY <1>2, <2>1, <2>2, <2>3
<1>3. CASE On(r, "project")
  <2>1. Op(r) = "ONBOARD" /\ at[r] = 5
    BY <1>1, <1>3, Names
  <2>2. DueTag(r) = "project"
    BY <1>3, <2>1, Events DEF On, Op, DueTag
  <2> QED
    BY <1>3, <2>1, <2>2
<1> QED
  BY <1>1, <1>2, <1>3

-----------------------------------------------------------------------------
(* Transcript to academic readiness *)

\* An upload has written the scores it has seen, then all, then its evidence.
AcademicFacts(r) ==
  at[r] # 0 /\ Op(r) = "UPLOAD" =>
    /\ \A i \in note[r].seen : db.progress[i] # NoRow
    /\ at[r] >= 2 => \A i \in Item : db.progress[i] # NoRow
    /\ at[r] >= 3 => db.evidence[call[r].key] # NoRow
    /\ at[r] >= 4 => Accepted(<<"READINESS", call[r].key, call[r].value>>)

AcademicRecorded ==
  \A a \in accepted : a.body[1] = "READINESS" =>
    /\ a.key[2] \in Key /\ db.evidence[a.key[2]] # NoRow
    /\ \A i \in Item : db.progress[i] # NoRow

AcademicAccepted ==
  \A k \in Key : db.evidence[k] = "DELIVERED" => \E v \in Value : Accepted(<<"READINESS", k, v>>)

AcademicPending ==
  ~abandoned => \A k \in Key : db.evidence[k] = "PENDING" =>
    Going("UPLOAD", 3, 4, k)

AcademicInv ==
  /\ \A r \in Request : AcademicFacts(r)
  /\ AcademicRecorded /\ AcademicAccepted /\ AcademicPending

LEMMA AcademicFrame ==
  ASSUME TypeOK, AcademicInv, Elsewhere({ "UPLOAD" }, { "READINESS" }), UNCHANGED AcademicRows
  PROVE  AcademicInv'
<1>1. ASSUME NEW q \in Request PROVE AcademicFacts(q)'
  BY AcceptedStays DEF AcademicInv, AcademicFacts, Elsewhere, AcademicRows, Op
<1>2. AcademicRecorded'
  BY DEF AcademicInv, AcademicRecorded, Elsewhere, AcademicRows
<1>3. AcademicAccepted'
  BY AcceptedStays DEF AcademicInv, AcademicAccepted, Elsewhere, AcademicRows
<1>4. AcademicPending'
  <2> SUFFICES ASSUME ~abandoned', NEW k \in Key, db'.evidence[k] = "PENDING"
               PROVE  Going("UPLOAD", 3, 4, k)'
    BY DEF AcademicPending
  <2>1. Going("UPLOAD", 3, 4, k)
    BY DEF AcademicInv, AcademicPending, Elsewhere, AcademicRows
  <2> QED
    BY <2>1, GoingElsewhere
<1> QED
  BY <1>1, <1>2, <1>3, <1>4 DEF AcademicInv

\* The progress and the evidence on record are not taken back.
AcademicGrows ==
  /\ \A i \in Item : db.progress[i] # NoRow => db'.progress[i] # NoRow
  /\ \A k \in Key : db.evidence[k] # NoRow => db'.evidence[k] # NoRow

LEMMA AcademicGrown ==
  ASSUME TypeOK, AcademicInv, AcademicGrows, NEW r \in Request, Moves(r), accepted \subseteq accepted'
  PROVE  /\ \A q \in Request : q # r => AcademicFacts(q)'
         /\ \A a \in accepted : a.body[1] = "READINESS" =>
              /\ a.key[2] \in Key /\ db'.evidence[a.key[2]] # NoRow
              /\ \A i \in Item : db'.progress[i] # NoRow
<1>1. ASSUME NEW q \in Request, q # r PROVE AcademicFacts(q)'
  <2>1. at'[q] = at[q] /\ call'[q] = call[q] /\ note'[q] = note[q] /\ Located(q) /\ note[q] \in Notes
    BY <1>1 DEF Moves, TypeOK
  <2> QED
    BY <2>1, AcceptedStays DEF AcademicInv, AcademicFacts, AcademicGrows, Op, Located, Asked, Ops, Notes
<1> QED
  BY <1>1 DEF AcademicInv, AcademicRecorded, AcademicGrows

LEMMA AcademicStep ==
  ASSUME TypeOK, AcademicInv, NEW r \in Request, Academic(r) PROVE AcademicInv'
<1>0. /\ Moves(r) /\ Op(r) = "UPLOAD" /\ accepted' = accepted /\ call' = call
      /\ db \in Database /\ Located(r) /\ note[r] \in Notes /\ at[r] # 0
      /\ at \in [Request -> Nat] /\ at' \in [Request -> Nat] /\ note \in [Request -> Notes]
      /\ call[r].key \in Key /\ call[r].value \in Value
      /\ Onward(r) = IF at[r] = 4 THEN 0 ELSE at[r] + 1
  BY AcademicTouches, Onwards DEF Step, TypeOK, Moves, Located, Asked, Ops, Op
<1>1. CASE WriteProgress(r)
  <2>1. PICK i \in Item : /\ db' = [db EXCEPT !.progress[i] = call[r].value]
                          /\ Remember(r, [note[r] EXCEPT !.seen = @ \union {i}])
                          /\ IF note[r].seen \union {i} = Item THEN Advance(r) ELSE UNCHANGED at
    BY <1>1 DEF WriteProgress
  <2>2. at[r] = 1 /\ abandoned' = abandoned
    BY <1>1, <1>0, Names DEF WriteProgress, Same
  <2>3. /\ db'.evidence = db.evidence
        /\ \A j \in Item : db'.progress[j] = IF j = i THEN call[r].value ELSE db.progress[j]
    BY <2>1, <1>0 DEF Database
  <2>4. AcademicGrows
    BY <2>3, <1>0, JourneysAssumption DEF AcademicGrows
  <2>5. note'[r].seen = note[r].seen \union {i} /\ note[r].seen \subseteq Item
    BY <2>1, <1>0 DEF Remember, Notes
  <2>a. Advance(r) => at'[r] = 2
    BY <2>2, <1>0, AdvanceMoves
  <2>6. at'[r] = 1 \/ (at'[r] = 2 /\ note[r].seen \union {i} = Item)
    <3>1. CASE note[r].seen \union {i} = Item
      BY <2>1, <2>a, <3>1
    <3>2. CASE note[r].seen \union {i} # Item
      <4>1. UNCHANGED at
        BY <2>1, <3>2
      <4>2. at[r] = 1
        BY <2>2
      <4> QED
        BY <4>1, <4>2
    <3> QED
      BY <3>1, <3>2
  <2>7. AcademicFacts(r)'
    BY <2>2, <2>3, <2>5, <2>6, <1>0, JourneysAssumption DEF AcademicInv, AcademicFacts, Op
  <2>8. AcademicPending'
    BY <2>2, <2>3, <1>0, GoingStays DEF AcademicInv, AcademicPending
  <2> QED
    BY <2>3, <2>4, <2>7, <2>8, <1>0, AcademicGrown
    DEF AcademicInv, AcademicRecorded, AcademicAccepted, Accepted
<1>2. CASE SaveEvidence(r)
  <2>0. /\ db' = [db EXCEPT !.evidence[call[r].key] = IF @ = NoRow THEN "PENDING" ELSE @]
        /\ On(r, "evidence")
    BY <1>2 DEF SaveEvidence, Write
  <2>1. abandoned' = abandoned /\ note' = note /\ at[r] = 2 /\ at'[r] = 3
    BY <1>2, <2>0, <1>0, Names, WriteMoves DEF SaveEvidence
  <2>2. /\ db'.progress = db.progress
        /\ \A k \in Key : db'.evidence[k] = IF k = call[r].key /\ db.evidence[k] = NoRow THEN "PENDING"
                                             ELSE db.evidence[k]
    BY <2>0, <1>0 DEF Database
  <2>3. AcademicGrows
    BY <2>2 DEF AcademicGrows
  <2>a. (\A i \in note[r].seen : db.progress[i] # NoRow) /\ (\A i \in Item : db.progress[i] # NoRow)
    <3>1. AcademicFacts(r)
      BY DEF AcademicInv
    <3>2. at[r] >= 2
      BY <2>1
    <3>3. at[r] # 0 /\ Op(r) = "UPLOAD"
      BY <1>0
    <3> QED
      BY <3>1, <3>2, <3>3 DEF AcademicFacts
  <2>4. AcademicFacts(r)'
    BY <2>1, <2>2, <2>a, <1>0 DEF AcademicFacts
  <2>5. AcademicPending'
    <3> SUFFICES ASSUME ~abandoned', NEW k \in Key, db'.evidence[k] = "PENDING"
                 PROVE  Going("UPLOAD", 3, 4, k)'
      BY DEF AcademicPending
    <3>1. CASE k = call[r].key
      BY <3>1, <2>1, <1>0, GoingNow
    <3>2. CASE k # call[r].key
      <4>1. Going("UPLOAD", 3, 4, k)
        BY <3>2, <2>1, <2>2 DEF AcademicInv, AcademicPending
      <4> QED
        BY <4>1, <3>2, <1>0, GoingStays
    <3> QED
      BY <3>1, <3>2
  <2> QED
    BY <2>2, <2>3, <2>4, <2>5, <1>0, AcademicGrown
    DEF AcademicInv, AcademicRecorded, AcademicAccepted, Accepted
<1>3. CASE CompleteEvidence(r)
  <2>0. /\ db' = [db EXCEPT !.evidence[call[r].key] = "DELIVERED"]
        /\ On(r, "finish")
    BY <1>3 DEF CompleteEvidence, Write
  <2>1. abandoned' = abandoned /\ note' = note /\ at[r] = 4 /\ at'[r] = 0
    BY <1>3, <2>0, <1>0, Names, WriteMoves DEF CompleteEvidence
  <2>2. /\ db'.progress = db.progress
        /\ \A k \in Key : db'.evidence[k] = IF k = call[r].key THEN "DELIVERED" ELSE db.evidence[k]
    BY <2>0, <1>0 DEF Database
  <2>3. AcademicGrows
    BY <2>2 DEF AcademicGrows
  <2>4. AcademicFacts(r)'
    BY <2>1 DEF AcademicFacts
  <2>5. AcademicPending'
    <3> SUFFICES ASSUME ~abandoned', NEW k \in Key, db'.evidence[k] = "PENDING"
                 PROVE  Going("UPLOAD", 3, 4, k)'
      BY DEF AcademicPending
    <3>1. k # call[r].key /\ Going("UPLOAD", 3, 4, k)
      BY <2>1, <2>2 DEF AcademicInv, AcademicPending
    <3> QED
      BY <3>1, <1>0, GoingStays
  <2>6. AcademicAccepted'
    <3> SUFFICES ASSUME NEW k \in Key, db'.evidence[k] = "DELIVERED"
                 PROVE  \E v \in Value : Accepted(<<"READINESS", k, v>>)'
      BY DEF AcademicAccepted
    <3>1. \E v \in Value : Accepted(<<"READINESS", k, v>>)
      <4>1. CASE k = call[r].key
        <5>1. Accepted(<<"READINESS", k, call[r].value>>)
          BY <4>1, <2>1, <1>0 DEF AcademicInv, AcademicFacts
        <5> QED
          BY <5>1, <1>0
      <4>2. CASE k # call[r].key
        BY <4>2, <2>2 DEF AcademicInv, AcademicAccepted
      <4> QED
        BY <4>1, <4>2
    <3> QED
      BY <3>1, <1>0, AcceptedStays
  <2> QED
    BY <2>2, <2>3, <2>4, <2>5, <2>6, <1>0, AcademicGrown DEF AcademicInv, AcademicRecorded
<1> QED
  BY <1>1, <1>2, <1>3 DEF Academic

LEMMA AcademicPublish ==
  ASSUME TypeOK, AcademicInv, NEW r \in Request, Publish(r), Op(r) = "UPLOAD" PROVE AcademicInv'
<1>0. /\ Moves(r) /\ call' = call /\ note' = note /\ db' = db /\ abandoned' = abandoned
      /\ accepted' = accepted \cup { Due(r) }
      /\ at[r] = 3 /\ at'[r] = 4 /\ call[r].key \in Key
  <2>1. at[r] = 3
    BY Tagged
  <2>2. call[r].key \in Key
    BY Published DEF Asked, Ops, Op
  <2> QED
    BY <2>1, <2>2, Published, Onwards
<1>1. Due(r) = [key |-> <<"READINESS", call[r].key, call[r].value>>,
                body |-> <<"READINESS", call[r].key, call[r].value>>]
  BY Events
<1>2. /\ \A i \in note[r].seen : db.progress[i] # NoRow
      /\ \A i \in Item : db.progress[i] # NoRow
      /\ db.evidence[call[r].key] # NoRow
  <2>1. AcademicFacts(r) /\ at[r] # 0 /\ at[r] >= 2 /\ at[r] >= 3
    BY <1>0 DEF AcademicInv
  <2> QED
    BY <2>1 DEF AcademicFacts
<1>3. AcademicGrows
  BY <1>0 DEF AcademicGrows
<1>4. /\ \A q \in Request : q # r => AcademicFacts(q)'
      /\ \A a \in accepted : a.body[1] = "READINESS" =>
           /\ a.key[2] \in Key /\ db'.evidence[a.key[2]] # NoRow
           /\ \A i \in Item : db'.progress[i] # NoRow
  BY <1>0, <1>3, AcademicGrown
<1>5. Accepted(<<"READINESS", call[r].key, call[r].value>>)'
  BY <1>0, <1>1 DEF Accepted
<1>6. AcademicFacts(r)'
  BY <1>0, <1>2, <1>5 DEF AcademicFacts, Op
<1>7. AcademicRecorded'
  BY <1>0, <1>1, <1>2, <1>4 DEF AcademicRecorded
<1>8. AcademicAccepted'
  BY <1>0, AcceptedStays DEF AcademicInv, AcademicAccepted
<1>9. AcademicPending'
  <2> SUFFICES ASSUME ~abandoned', NEW k \in Key, db'.evidence[k] = "PENDING"
               PROVE  Going("UPLOAD", 3, 4, k)'
    BY DEF AcademicPending
  <2>1. Going("UPLOAD", 3, 4, k)
    BY <1>0 DEF AcademicInv, AcademicPending
  <2> QED
    BY <2>1, <1>0, GoingStays
<1> QED
  BY <1>4, <1>6, <1>7, <1>8, <1>9 DEF AcademicInv

LEMMA AcademicBegin ==
  ASSUME TypeOK, AcademicInv, NEW r \in Request, Begin(r) PROVE AcademicInv'
<1>0. /\ at'[r] = 1 /\ note'[r] = NoNote /\ db' = db /\ accepted' = accepted /\ abandoned' = abandoned
      /\ \A q \in Request : q # r => at'[q] = at[q] /\ call'[q] = call[q] /\ note'[q] = note[q]
  BY Begun
<1>1. ASSUME NEW q \in Request PROVE AcademicFacts(q)'
  <2>1. CASE q = r
    BY <2>1, <1>0 DEF AcademicFacts, NoNote
  <2>2. CASE q # r
    BY <2>2, <1>0, AcceptedStays DEF AcademicInv, AcademicFacts, Op
  <2> QED
    BY <2>1, <2>2
<1>2. AcademicPending'
  <2> SUFFICES ASSUME ~abandoned', NEW k \in Key, db'.evidence[k] = "PENDING"
               PROVE  Going("UPLOAD", 3, 4, k)'
    BY DEF AcademicPending
  <2>1. Going("UPLOAD", 3, 4, k)
    BY <1>0 DEF AcademicInv, AcademicPending
  <2> QED
    BY <2>1, GoingBegun
<1> QED
  BY <1>0, <1>1, <1>2, AcceptedStays DEF AcademicInv, AcademicRecorded, AcademicAccepted

LEMMA AcademicNext == TypeOK /\ AcademicInv /\ [Next]_vars => AcademicInv'
<1> SUFFICES ASSUME TypeOK, AcademicInv, [Next]_vars PROVE AcademicInv'
  OBVIOUS
<1> DEFINE apart == Elsewhere({ "UPLOAD" }, { "READINESS" }) /\ UNCHANGED AcademicRows
<1>1. apart => AcademicInv'
  BY AcademicFrame
<1>2. CASE UNCHANGED vars
  BY <1>1, <1>2, StillElsewhere DEF vars, AcademicRows
<1>3. CASE Relate
  BY <1>1, <1>3, Related, StillElsewhere
<1>4. ASSUME NEW r \in Request, Abandon(r) PROVE apart
  BY <1>4, Abandoned, AbandonElsewhere DEF AcademicRows
<1>5. ASSUME NEW r \in Request, Publish(r), Op(r) # "UPLOAD" PROVE apart
  BY <1>5, Published, Tagged, PublishElsewhere DEF AcademicRows, DueTag
<1>6. ASSUME NEW r \in Request,
             \/ Application(r) \/ Opportunity(r) \/ Support(r) \/ Messaging(r) \/ Notification(r)
             \/ Onboarding(r)
      PROVE  apart
  <2>1. /\ Step(r, Ops \ { "UPLOAD" }) /\ UNCHANGED AcademicRows
    BY <1>6, ApplicationTouches, OpportunityTouches, SupportTouches,
       MessagingTouches, NotificationTouches, OnboardingTouches DEF Step, Ops
  <2> QED
    BY <2>1, StepElsewhere DEF Step
<1> QED
  BY <1>1, <1>2, <1>3, <1>4, <1>5, <1>6, AcademicStep, AcademicPublish, AcademicBegin DEF Next

-----------------------------------------------------------------------------
(* Requests for support *)

\* A request for support is on record before it is published.
SupportFacts(r) ==
  at[r] # 0 /\ Op(r) = "ASK" =>
    /\ at[r] >= 3 => db.support[call[r].key] # NoRow
    /\ at[r] >= 4 => Accepted(<<"SUPPORT", call[r].key>>)

SupportRecorded ==
  \A a \in accepted : a.body[1] = "SUPPORT" => a.key[2] \in Key /\ db.support[a.key[2]] # NoRow

SupportAccepted == \A k \in Key : db.support[k] = "DELIVERED" => Accepted(<<"SUPPORT", k>>)

SupportPending ==
  ~abandoned => \A k \in Key : db.support[k] = "PENDING" => Going("ASK", 3, 4, k)

SupportInv ==
  /\ \A r \in Request : SupportFacts(r)
  /\ SupportRecorded /\ SupportAccepted /\ SupportPending

LEMMA SupportFrame ==
  ASSUME TypeOK, SupportInv, Elsewhere({ "ASK" }, { "SUPPORT" }), UNCHANGED db.support
  PROVE  SupportInv'
<1>1. ASSUME NEW q \in Request PROVE SupportFacts(q)'
  BY AcceptedStays DEF SupportInv, SupportFacts, Elsewhere, Op
<1>2. SupportRecorded'
  BY DEF SupportInv, SupportRecorded, Elsewhere
<1>3. SupportAccepted'
  BY AcceptedStays DEF SupportInv, SupportAccepted, Elsewhere
<1>4. SupportPending'
  <2> SUFFICES ASSUME ~abandoned', NEW k \in Key, db'.support[k] = "PENDING"
               PROVE  Going("ASK", 3, 4, k)'
    BY DEF SupportPending
  <2>1. Going("ASK", 3, 4, k)
    BY DEF SupportInv, SupportPending, Elsewhere
  <2> QED
    BY <2>1, GoingElsewhere
<1> QED
  BY <1>1, <1>2, <1>3, <1>4 DEF SupportInv

\* The requests on record are not taken back.
SupportGrows ==
  \A k \in Key : db.support[k] # NoRow => db'.support[k] # NoRow

LEMMA SupportGrown ==
  ASSUME TypeOK, SupportInv, SupportGrows, NEW r \in Request, Moves(r), accepted \subseteq accepted'
  PROVE  /\ \A q \in Request : q # r => SupportFacts(q)'
         /\ \A a \in accepted :
              a.body[1] = "SUPPORT" => a.key[2] \in Key /\ db'.support[a.key[2]] # NoRow
<1>1. ASSUME NEW q \in Request, q # r PROVE SupportFacts(q)'
  <2>1. at'[q] = at[q] /\ call'[q] = call[q] /\ note'[q] = note[q] /\ Located(q) /\ note[q] \in Notes
    BY <1>1 DEF Moves, TypeOK
  <2> QED
    BY <2>1, AcceptedStays DEF SupportInv, SupportFacts, SupportGrows, Op, Located, Asked, Ops, Notes
<1> QED
  BY <1>1 DEF SupportInv, SupportRecorded, SupportGrows

LEMMA SupportStep ==
  ASSUME TypeOK, SupportInv, NEW r \in Request, Support(r) PROVE SupportInv'
<1>0. /\ Moves(r) /\ Op(r) \in { "ASK", "SEND" } /\ accepted' = accepted /\ call' = call
      /\ db \in Database /\ Located(r) /\ at[r] # 0 /\ note[r] \in Notes
      /\ call[r].key \in Key
      /\ Op(r) = "ASK" => Onward(r) = IF at[r] = 4 THEN 0 ELSE at[r] + 1
      /\ Op(r) = "SEND" => Onward(r) = IF at[r] = 8 THEN 0 ELSE at[r] + 1
  BY SupportTouches, Onwards DEF Step, TypeOK, Moves, Located, Asked, Ops, Op
<1>1. CASE CheckRelationship(r)
  <2>1. /\ UNCHANGED <<db, abandoned>> /\ at[r] = 1 /\ at'[r] = 2
    BY <1>1, <1>0, Names, ReadMoves DEF CheckRelationship
  <2>2. SupportGrows
    BY <2>1 DEF SupportGrows
  <2>3. SupportFacts(r)'
    BY <2>1 DEF SupportFacts
  <2>4. SupportPending'
    BY <2>1, <1>0, GoingStays DEF SupportInv, SupportPending
  <2> QED
    BY <2>1, <2>2, <2>3, <2>4, <1>0, SupportGrown
    DEF SupportInv, SupportRecorded, SupportAccepted, Accepted
<1>2. CASE CreateRequest(r)
  <2>0. /\ db' = [db EXCEPT !.support[call[r].key] = "PENDING"] /\ On(r, "request")
    BY <1>2 DEF CreateRequest, Write
  <2>1. abandoned' = abandoned /\ at[r] = 2 /\ at'[r] = 3 /\ Op(r) = "ASK"
    BY <1>2, <2>0, <1>0, Names, WriteMoves DEF CreateRequest
  <2>2. \A k \in Key : db'.support[k] = IF k = call[r].key THEN "PENDING" ELSE db.support[k]
    BY <2>0, <1>0 DEF Database
  <2>3. SupportGrows
    BY <2>2 DEF SupportGrows
  <2>4. SupportFacts(r)'
    BY <2>1, <2>2, <1>0 DEF SupportFacts
  <2>5. SupportPending'
    <3> SUFFICES ASSUME ~abandoned', NEW k \in Key, db'.support[k] = "PENDING"
                 PROVE  Going("ASK", 3, 4, k)'
      BY DEF SupportPending
    <3>1. CASE k = call[r].key
      <4>1. at'[r] \in 3 .. 4
        BY <2>1
      <4> QED
        BY <4>1, <3>1, <2>1, <1>0, GoingNow
    <3>2. CASE k # call[r].key
      <4>1. Going("ASK", 3, 4, k)
        BY <3>2, <2>1, <2>2 DEF SupportInv, SupportPending
      <4> QED
        BY <4>1, <3>2, <1>0, GoingStays
    <3> QED
      BY <3>1, <3>2
  <2> QED
    BY <2>2, <2>3, <2>4, <2>5, <1>0, SupportGrown
    DEF SupportInv, SupportRecorded, SupportAccepted, Accepted
<1>3. CASE MarkDelivered(r)
  <2>0. /\ db' = [db EXCEPT !.support[call[r].key] = "DELIVERED"] /\ On(r, "finish") /\ Op(r) = "ASK"
    BY <1>3 DEF MarkDelivered, Write
  <2>1. abandoned' = abandoned /\ at[r] = 4 /\ at'[r] = 0
    BY <1>3, <2>0, <1>0, Names, WriteMoves DEF MarkDelivered
  <2>2. \A k \in Key : db'.support[k] = IF k = call[r].key THEN "DELIVERED" ELSE db.support[k]
    BY <2>0, <1>0 DEF Database
  <2>3. SupportGrows
    BY <2>2 DEF SupportGrows
  <2>4. SupportFacts(r)'
    BY <2>1 DEF SupportFacts
  <2>5. SupportPending'
    <3> SUFFICES ASSUME ~abandoned', NEW k \in Key, db'.support[k] = "PENDING"
                 PROVE  Going("ASK", 3, 4, k)'
      BY DEF SupportPending
    <3>1. k # call[r].key /\ Going("ASK", 3, 4, k)
      BY <2>1, <2>2 DEF SupportInv, SupportPending
    <3> QED
      BY <3>1, <1>0, GoingStays
  <2>6. Accepted(<<"SUPPORT", call[r].key>>)
    BY <2>0, <2>1 DEF SupportInv, SupportFacts
  <2>7. SupportAccepted'
    BY <2>2, <2>6, <1>0, AcceptedStays DEF SupportInv, SupportAccepted
  <2> QED
    BY <2>3, <2>4, <2>5, <2>7, <1>0, SupportGrown DEF SupportInv, SupportRecorded
<1> QED
  BY <1>1, <1>2, <1>3 DEF Support

LEMMA SupportPublish ==
  ASSUME TypeOK, SupportInv, NEW r \in Request, Publish(r), Op(r) = "ASK" PROVE SupportInv'
<1>0. /\ Moves(r) /\ call' = call /\ db' = db /\ abandoned' = abandoned
      /\ accepted' = accepted \cup { Due(r) }
      /\ at[r] = 3 /\ at'[r] = 4 /\ call[r].key \in Key
  <2>1. at[r] = 3
    BY Tagged
  <2>2. call[r].key \in Key
    BY Published DEF Asked, Ops, Op
  <2> QED
    BY <2>1, <2>2, Published, Onwards
<1>1. Due(r) = [key |-> <<"SUPPORT", call[r].key>>, body |-> <<"SUPPORT", call[r].key, call[r].value>>]
  BY Events
<1>2. db.support[call[r].key] # NoRow
  <2>1. SupportFacts(r) /\ at[r] # 0 /\ at[r] >= 3
    BY <1>0 DEF SupportInv
  <2> QED
    BY <2>1 DEF SupportFacts
<1>3. SupportGrows
  BY <1>0 DEF SupportGrows
<1>4. /\ \A q \in Request : q # r => SupportFacts(q)'
      /\ \A a \in accepted :
           a.body[1] = "SUPPORT" => a.key[2] \in Key /\ db'.support[a.key[2]] # NoRow
  BY <1>0, <1>3, SupportGrown
<1>5. Accepted(<<"SUPPORT", call[r].key>>)'
  BY <1>0, <1>1 DEF Accepted
<1>6. SupportFacts(r)'
  BY <1>0, <1>2, <1>5 DEF SupportFacts, Op
<1>7. SupportRecorded'
  BY <1>0, <1>1, <1>2, <1>4 DEF SupportRecorded
<1>8. SupportAccepted'
  BY <1>0, AcceptedStays DEF SupportInv, SupportAccepted
<1>9. SupportPending'
  <2> SUFFICES ASSUME ~abandoned', NEW k \in Key, db'.support[k] = "PENDING"
               PROVE  Going("ASK", 3, 4, k)'
    BY DEF SupportPending
  <2>1. Going("ASK", 3, 4, k)
    BY <1>0 DEF SupportInv, SupportPending
  <2> QED
    BY <2>1, <1>0, GoingStays
<1> QED
  BY <1>4, <1>6, <1>7, <1>8, <1>9 DEF SupportInv

LEMMA SupportBegin ==
  ASSUME TypeOK, SupportInv, NEW r \in Request, Begin(r) PROVE SupportInv'
<1>0. /\ at'[r] = 1 /\ note'[r] = NoNote /\ db' = db /\ accepted' = accepted /\ abandoned' = abandoned
      /\ \A q \in Request : q # r => at'[q] = at[q] /\ call'[q] = call[q] /\ note'[q] = note[q]
  BY Begun
<1>1. ASSUME NEW q \in Request PROVE SupportFacts(q)'
  <2>1. CASE q = r
    BY <2>1, <1>0 DEF SupportFacts, NoNote, Op
  <2>2. CASE q # r
    BY <2>2, <1>0, AcceptedStays DEF SupportInv, SupportFacts, Op
  <2> QED
    BY <2>1, <2>2
<1>2. SupportPending'
  <2> SUFFICES ASSUME ~abandoned', NEW k \in Key, db'.support[k] = "PENDING"
               PROVE  Going("ASK", 3, 4, k)'
    BY DEF SupportPending
  <2>1. Going("ASK", 3, 4, k)
    BY <1>0 DEF SupportInv, SupportPending
  <2> QED
    BY <2>1, GoingBegun
<1> QED
  BY <1>0, <1>1, <1>2, AcceptedStays DEF SupportInv, SupportRecorded, SupportAccepted

LEMMA SupportNext == TypeOK /\ SupportInv /\ [Next]_vars => SupportInv'
<1> SUFFICES ASSUME TypeOK, SupportInv, [Next]_vars PROVE SupportInv'
  OBVIOUS
<1> DEFINE apart == Elsewhere({ "ASK" }, { "SUPPORT" }) /\ UNCHANGED db.support
<1>1. apart => SupportInv'
  BY SupportFrame
<1>2. CASE UNCHANGED vars
  BY <1>1, <1>2, StillElsewhere DEF vars
<1>3. CASE Relate
  BY <1>1, <1>3, Related, StillElsewhere
<1>4. ASSUME NEW r \in Request, Abandon(r) PROVE apart
  BY <1>4, Abandoned, AbandonElsewhere 
<1>5. ASSUME NEW r \in Request, Publish(r), Op(r) # "ASK" PROVE apart
  BY <1>5, Published, Tagged, PublishElsewhere DEF DueTag
<1>6. ASSUME NEW r \in Request,
             \/ Academic(r) \/ Application(r) \/ Opportunity(r) \/ Messaging(r) \/ Notification(r)
             \/ Onboarding(r)
      PROVE  apart
  <2>1. /\ Step(r, Ops \ { "ASK" }) /\ UNCHANGED db.support
    BY <1>6, AcademicTouches, ApplicationTouches, OpportunityTouches, MessagingTouches,
       NotificationTouches, OnboardingTouches
    DEF Step, Ops
  <2> QED
    BY <2>1, StepElsewhere DEF Step
<1> QED
  BY <1>1, <1>2, <1>3, <1>4, <1>5, <1>6, SupportStep, SupportPublish, SupportBegin DEF Next

-----------------------------------------------------------------------------
(* Application workspaces *)

Created(k) == [key |-> <<"APPLICATION", k>>, body |-> <<"CREATED", k>>]
Transitions == { "COMPLETE", "REOPEN", "SUBMIT" }
\* Every task of the workspace is on record.
TaskRows(k) == \A i \in Item : db.tasks[k][i] # NoRow

\* The workspace is on record, with a task at least.
Progressing(k) == db.workspace[k] # NoRow /\ \E i \in Item : db.tasks[k][i] # NoRow
\* The event of a task is about a workspace that has one; that of a submission may be about none.
Progress(a) == a.body[3] = "SUBMIT" \/ (a.body[2] \in Key /\ Progressing(a.body[2]))

\* A workspace is written before its tasks and its event, a change of a task finds the task.
ApplicationFacts(r) ==
  /\ at[r] # 0 /\ Op(r) = "CREATE" =>
       /\ at[r] >= 2 => db.workspace[call[r].key] # NoRow
       /\ at[r] >= 3 => TaskRows(call[r].key)
       /\ at[r] >= 4 => Created(call[r].key) \in accepted
  /\ Op(r) \in { "COMPLETE", "REOPEN" } =>
       /\ at[r] >= 2 => Progressing(call[r].workspace)
       /\ at[r] >= 3 => note[r].status # NoRow
       /\ at[r] >= 5 => Accepted(<<"APPLICATION", call[r].key>>)
  /\ Op(r) = "SUBMIT" =>
       /\ at[r] >= 2 => note[r].status # NoRow
       /\ at[r] >= 4 => Accepted(<<"APPLICATION", call[r].key>>)

ApplicationRecorded ==
  \A a \in accepted :
    /\ a.body[1] = "CREATED" =>
         a.key[2] \in Key /\ db.workspace[a.key[2]] # NoRow /\ TaskRows(a.key[2])
    /\ a.body[1] = "PROGRESS" => Progress(a)

\* Tasks are those of a workspace on record.
TasksBelong == \A k \in Key, i \in Item : db.tasks[k][i] # NoRow => db.workspace[k] # NoRow

ApplicationAccepted ==
  \A k \in Key :
    /\ db.delivery[k] = "DELIVERED" => Created(k) \in accepted
    /\ k \in db.events => Accepted(<<"APPLICATION", k>>)

ApplicationPending ==
  ~abandoned => \A k \in Key : db.delivery[k] = "PENDING" => Going("CREATE", 2, 4, k)

ApplicationInv ==
  /\ \A r \in Request : ApplicationFacts(r)
  /\ ApplicationRecorded /\ ApplicationAccepted /\ ApplicationPending /\ TasksBelong

LEMMA ApplicationFrame ==
  ASSUME TypeOK, ApplicationInv,
         Elsewhere({ "CREATE", "COMPLETE", "REOPEN", "SUBMIT" }, { "CREATED", "PROGRESS" }),
         UNCHANGED ApplicationRows
  PROVE  ApplicationInv'
<1>1. ASSUME NEW q \in Request PROVE ApplicationFacts(q)'
  BY AcceptedStays
  DEF ApplicationInv, ApplicationFacts, Elsewhere, ApplicationRows, Op, TaskRows, Progressing, Transitions, Created
<1>2. ApplicationRecorded'
  BY DEF ApplicationInv, ApplicationRecorded, Elsewhere, ApplicationRows, TaskRows, Progressing, Progress
<1>3. ApplicationAccepted'
  BY AcceptedStays
  DEF ApplicationInv, ApplicationAccepted, Elsewhere, ApplicationRows, TaskRows, Transitions, Created
<1>4. ApplicationPending'
  <2> SUFFICES ASSUME ~abandoned', NEW k \in Key, db'.delivery[k] = "PENDING"
               PROVE  Going("CREATE", 2, 4, k)'
    BY DEF ApplicationPending
  <2>1. Going("CREATE", 2, 4, k)
    BY DEF ApplicationInv, ApplicationPending, Elsewhere, ApplicationRows
  <2> QED
    BY <2>1, GoingElsewhere
<1>5. TasksBelong'
  BY DEF ApplicationInv, TasksBelong, ApplicationRows
<1> QED
  BY <1>1, <1>2, <1>3, <1>4, <1>5 DEF ApplicationInv

\* The workspaces and the tasks on record are not taken back.
ApplicationGrows ==
  /\ \A k \in Key : db.workspace[k] # NoRow => db'.workspace[k] # NoRow
  /\ \A k \in Key, i \in Item : db.tasks[k][i] # NoRow => db'.tasks[k][i] # NoRow

LEMMA ApplicationGrown ==
  ASSUME TypeOK, ApplicationInv, ApplicationGrows, NEW r \in Request, Moves(r),
         accepted \subseteq accepted'
  PROVE  /\ \A q \in Request : q # r => ApplicationFacts(q)'
         /\ \A a \in accepted :
              /\ a.body[1] = "CREATED" =>
                   a.key[2] \in Key /\ db'.workspace[a.key[2]] # NoRow /\ TaskRows(a.key[2])'
              /\ a.body[1] = "PROGRESS" => Progress(a)'
<1>1. ASSUME NEW q \in Request, q # r PROVE ApplicationFacts(q)'
  <2>1. at'[q] = at[q] /\ call'[q] = call[q] /\ note'[q] = note[q] /\ Located(q) /\ note[q] \in Notes
    BY <1>1 DEF Moves, TypeOK
  <2>2. ASSUME NEW k \in Key, Progressing(k) PROVE Progressing(k)'
    BY <2>2 DEF Progressing, ApplicationGrows
  <2>3. ASSUME NEW k \in Key, TaskRows(k) PROVE TaskRows(k)'
    BY <2>3 DEF TaskRows, ApplicationGrows
  <2>4. ApplicationFacts(q)
    BY DEF ApplicationInv
  <2>5. at[q] # 0 /\ Op(q) = "CREATE" => call[q].key \in Key
    BY <2>1 DEF Located, Asked, Ops, Op
  <2>6. at[q] # 0 /\ Op(q) \in { "COMPLETE", "REOPEN" } => call[q].workspace \in Key
    BY <2>1 DEF Located, Asked, Op
  <2>7. at[q] >= 2 => at[q] # 0
    OBVIOUS
  <2> QED
    BY <2>1, <2>2, <2>3, <2>4, <2>5, <2>6, <2>7, AcceptedStays
    DEF ApplicationFacts, ApplicationGrows, Op, Created
<1> QED
  BY <1>1 DEF ApplicationInv, ApplicationRecorded, ApplicationGrows, TaskRows, Progressing, Progress

\* A pending delivery stays in the hands of its creation.
LEMMA ApplicationPends ==
  ASSUME TypeOK, ApplicationInv, NEW r \in Request, Moves(r), abandoned' = abandoned,
         \A k \in Key : db'.delivery[k] = "PENDING" =>
           \/ Op(r) = "CREATE" /\ call[r].key = k /\ at'[r] \in 2 .. 4
           \/ /\ db.delivery[k] = "PENDING"
              /\ Op(r) = "CREATE" /\ call[r].key = k /\ at[r] \in 2 .. 4 => at'[r] \in 2 .. 4
  PROVE  ApplicationPending'
<1> SUFFICES ASSUME ~abandoned', NEW k \in Key, db'.delivery[k] = "PENDING"
             PROVE  Going("CREATE", 2, 4, k)'
  BY DEF ApplicationPending
<1>1. CASE Op(r) = "CREATE" /\ call[r].key = k /\ at'[r] \in 2 .. 4
  BY <1>1, GoingNow
<1>2. CASE ~(Op(r) = "CREATE" /\ call[r].key = k /\ at'[r] \in 2 .. 4)
  <2>1. Going("CREATE", 2, 4, k)
    BY <1>2 DEF ApplicationInv, ApplicationPending
  <2> QED
    BY <2>1, <1>2, GoingStays
<1> QED
  BY <1>1, <1>2

\* What a count remembers.
LEMMA Counted ==
  ASSUME TypeOK, NEW r \in Request, Count(r)
  PROVE  \E n \in Notes : /\ Read(r, "count", Op(r) = "SUBMIT" => Tasks(r, "TODO") = {}, n)
                          /\ n.status \in { "submitted", "ready", "building" }
<1> DEFINE complete == Tasks(r, "COMPLETE")
           left == Tasks(r, "TODO")
           status == IF Op(r) = "SUBMIT" THEN "submitted"
                     ELSE IF left = {} /\ complete # {} THEN "ready" ELSE "building"
           n == [note[r] EXCEPT !.count = Cardinality(complete), !.status = status]
<1>1. Read(r, "count", Op(r) = "SUBMIT" => left = {}, n)
  BY DEF Count
<1>2. Cardinality(complete) \in Nat
  <2>1. IsFiniteSet(complete)
    BY JourneysAssumption, FS_Subset DEF Tasks
  <2> QED
    BY <2>1, FS_CardinalityType
<1>3. note[r] \in Notes /\ status \in { "submitted", "ready", "building" }
  BY DEF TypeOK
<1>4. n \in Notes /\ n.status = status
  BY <1>2, <1>3 DEF Notes, Statuses
<1> QED
  BY <1>1, <1>3, <1>4

LEMMA ApplicationStep ==
  ASSUME TypeOK, ApplicationInv, NEW r \in Request, Application(r) PROVE ApplicationInv'
<1>0. /\ Moves(r) /\ Op(r) \in { "CREATE", "COMPLETE", "REOPEN", "SUBMIT" }
      /\ accepted' = accepted /\ call' = call
      /\ db \in Database /\ Located(r) /\ at[r] # 0 /\ note[r] \in Notes /\ call[r].key \in Key
      /\ Op(r) \in Transitions => call[r].workspace \in Key
      /\ Op(r) \in { "COMPLETE", "REOPEN" } => call[r].item \in Item
      /\ Op(r) \in { "CREATE", "SUBMIT" } => Onward(r) = IF at[r] = 4 THEN 0 ELSE at[r] + 1
      /\ Op(r) \in { "COMPLETE", "REOPEN" } => Onward(r) = IF at[r] = 5 THEN 0 ELSE at[r] + 1
      /\ ApplicationFacts(r)
  <2>1. /\ Moves(r) /\ Op(r) \in { "CREATE", "COMPLETE", "REOPEN", "SUBMIT" }
        /\ accepted' = accepted /\ call' = call /\ at[r] # 0
    BY ApplicationTouches DEF Step, Moves
  <2>2. db \in Database /\ Located(r) /\ note[r] \in Notes /\ ApplicationFacts(r)
    BY DEF TypeOK, ApplicationInv
  <2>3. Asked(call[r])
    BY <2>1, <2>2 DEF Located
  <2> QED
    BY <2>1, <2>2, <2>3, Onwards DEF Asked, Op, Transitions
<1>1. CASE CreatePending(r)
  <2>0. /\ db' = [db EXCEPT !.workspace[call[r].key] = "building", !.delivery[call[r].key] = "PENDING"]
        /\ On(r, "workspace")
    BY <1>1 DEF CreatePending, Write
  <2>1. abandoned' = abandoned /\ at[r] = 1 /\ at'[r] = 2 /\ Op(r) = "CREATE"
    BY <1>1, <2>0, <1>0, Names, WriteMoves DEF CreatePending
  <2>2. /\ \A k \in Key : db'.workspace[k] = IF k = call[r].key THEN "building" ELSE db.workspace[k]
        /\ \A k \in Key : db'.delivery[k] = IF k = call[r].key THEN "PENDING" ELSE db.delivery[k]
        /\ db'.tasks = db.tasks /\ db'.events = db.events
    BY <2>0, <1>0 DEF Database
  <2>3. ApplicationGrows
    BY <2>1, <2>2, <1>0 DEF ApplicationGrows
  <2>4. ApplicationFacts(r)'
    BY <2>1, <2>2, <1>0 DEF ApplicationFacts, Transitions, Op, Progressing
  <2>t. TasksBelong'
    BY <2>2, <1>0 DEF ApplicationInv, TasksBelong
  <2>5. ApplicationAccepted'
    BY <2>2, <1>0 DEF ApplicationInv, ApplicationAccepted, Accepted
  <2>6. ApplicationPending'
    BY <2>1, <2>2, <1>0, ApplicationPends
  <2> QED
    BY <2>3, <2>4, <2>t, <2>5, <2>6, <1>0, ApplicationGrown DEF ApplicationInv, ApplicationRecorded
<1>2. CASE SaveTasks(r)
  <2>0. db' = [db EXCEPT !.tasks[call[r].key] = [i \in Item |-> "TODO"]] /\ On(r, "tasks")
    BY <1>2 DEF SaveTasks, Write
  <2>1. abandoned' = abandoned /\ at[r] = 2 /\ at'[r] = 3 /\ Op(r) = "CREATE"
    BY <1>2, <2>0, <1>0, Names, WriteMoves DEF SaveTasks
  <2>2. /\ \A k \in Key, i \in Item : db'.tasks[k][i] = IF k = call[r].key THEN "TODO" ELSE db.tasks[k][i]
        /\ db'.workspace = db.workspace /\ db'.delivery = db.delivery /\ db'.events = db.events
    BY <2>0, <1>0 DEF Database
  <2>3. ApplicationGrows
    BY <2>1, <2>2, <1>0 DEF ApplicationGrows
  <2>a. db.workspace[call[r].key] # NoRow
    BY <2>1, <1>0 DEF ApplicationFacts
  <2>4. ApplicationFacts(r)'
    BY <2>1, <2>2, <2>a, <1>0 DEF ApplicationFacts, Transitions, TaskRows, Op
  <2>t. TasksBelong'
    BY <2>2, <2>a, <1>0 DEF ApplicationInv, TasksBelong
  <2>5. ApplicationAccepted'
    BY <2>2, <1>0 DEF ApplicationInv, ApplicationAccepted, Accepted
  <2>6. ApplicationPending'
    BY <2>1, <2>2, <1>0, ApplicationPends
  <2> QED
    BY <2>3, <2>4, <2>t, <2>5, <2>6, <1>0, ApplicationGrown DEF ApplicationInv, ApplicationRecorded
<1>3. CASE Activate(r)
  <2>0. /\ db' = [db EXCEPT !.delivery[call[r].key] = "DELIVERED"]
        /\ On(r, "finish") /\ Op(r) = "CREATE"
    BY <1>3 DEF Activate, Write
  <2>1. abandoned' = abandoned /\ at[r] = 4 /\ at'[r] = 0 /\ Op(r) = "CREATE"
    BY <1>3, <2>0, <1>0, Names, WriteMoves DEF Activate
  <2>2. /\ \A k \in Key : db'.delivery[k] = IF k = call[r].key THEN "DELIVERED" ELSE db.delivery[k]
        /\ db'.workspace = db.workspace /\ db'.tasks = db.tasks /\ db'.events = db.events
    BY <2>0, <1>0 DEF Database
  <2>3. ApplicationGrows
    BY <2>1, <2>2, <1>0 DEF ApplicationGrows
  <2>a. Created(call[r].key) \in accepted
    BY <2>1, <1>0 DEF ApplicationFacts
  <2>4. ApplicationFacts(r)'
    BY <2>1, <1>0 DEF ApplicationFacts, Transitions, Op
  <2>t. TasksBelong'
    BY <2>2, <1>0 DEF ApplicationInv, TasksBelong
  <2>5. ApplicationAccepted'
    BY <2>2, <2>a, <1>0, AcceptedStays DEF ApplicationInv, ApplicationAccepted, Created
  <2>6. ApplicationPending'
    BY <2>1, <2>2, <1>0, ApplicationPends
  <2> QED
    BY <2>3, <2>4, <2>t, <2>5, <2>6, <1>0, ApplicationGrown DEF ApplicationInv, ApplicationRecorded
<1>4. CASE UpdateTask(r)
  <2>0. /\ db' = [db EXCEPT !.tasks[call[r].workspace][call[r].item] =
                       IF Op(r) = "COMPLETE" THEN "COMPLETE" ELSE "TODO"]
        /\ On(r, "task") /\ db.tasks[call[r].workspace][call[r].item] # NoRow
    BY <1>4 DEF UpdateTask, Write
  <2>1. /\ abandoned' = abandoned /\ note' = note /\ at[r] = 1 /\ at'[r] = 2
        /\ Op(r) \in { "COMPLETE", "REOPEN" }
    BY <1>4, <2>0, <1>0, Names, WriteMoves DEF UpdateTask
  <2>2. /\ \A k \in Key, i \in Item : db.tasks[k][i] # NoRow <=> db'.tasks[k][i] # NoRow
        /\ db'.workspace = db.workspace /\ db'.delivery = db.delivery /\ db'.events = db.events
    <3>1. db.tasks \in [Key -> [Item -> TaskMark]]
      BY <1>0 DEF Database
    <3> QED
      BY <2>0, <2>1, <3>1, <1>0 DEF Database, Transitions
  <2>3. ApplicationGrows
    BY <2>1, <2>2, <1>0 DEF ApplicationGrows
  <2>p. Progressing(call[r].workspace)'
    <3>1. call[r].workspace \in Key /\ call[r].item \in Item
      BY <2>1, <1>0 DEF Transitions
    <3>2. db.workspace[call[r].workspace] # NoRow
      BY <3>1, <2>0 DEF ApplicationInv, TasksBelong
    <3> QED
      BY <3>1, <3>2, <2>0, <2>2, <1>0 DEF Progressing
  <2>4. ApplicationFacts(r)'
    BY <2>1, <2>p, <1>0 DEF ApplicationFacts, Op
  <2>t. TasksBelong'
    BY <2>2, <1>0 DEF ApplicationInv, TasksBelong
  <2>5. ApplicationAccepted'
    BY <2>2, <1>0 DEF ApplicationInv, ApplicationAccepted, Accepted
  <2>6. ApplicationPending'
    BY <2>1, <2>2, <1>0, ApplicationPends
  <2> QED
    BY <2>3, <2>4, <2>t, <2>5, <2>6, <1>0, ApplicationGrown DEF ApplicationInv, ApplicationRecorded
<1>5. CASE Count(r)
  <2>0. PICK n \in Notes : /\ Read(r, "count", Op(r) = "SUBMIT" => Tasks(r, "TODO") = {}, n)
                          /\ n.status \in { "submitted", "ready", "building" }
    BY <1>5, <1>0, Counted
  <2>1. /\ abandoned' = abandoned /\ note'[r].status # NoRow
        /\ \/ Op(r) = "SUBMIT" /\ at[r] = 1 /\ at'[r] = 2
           \/ Op(r) \in { "COMPLETE", "REOPEN" } /\ at[r] = 2 /\ at'[r] = 3
    BY <2>0, <1>0, Names, ReadMoves
  <2>2. db' = db
    BY <2>0 DEF Read
  <2>3. ApplicationGrows
    BY <2>1, <2>2, <1>0 DEF ApplicationGrows
  <2>4. ApplicationFacts(r)'
    BY <2>1, <2>2, <1>0 DEF ApplicationFacts, Transitions, Op, Progressing
  <2>t. TasksBelong'
    BY <2>2, <1>0 DEF ApplicationInv, TasksBelong
  <2>5. ApplicationAccepted'
    BY <2>2, <1>0 DEF ApplicationInv, ApplicationAccepted, Accepted
  <2>6. ApplicationPending'
    BY <2>1, <2>2, <1>0, ApplicationPends
  <2> QED
    BY <2>3, <2>4, <2>t, <2>5, <2>6, <1>0, ApplicationGrown DEF ApplicationInv, ApplicationRecorded
<1>6. CASE SetStatus(r)
  <2>0. /\ db' = [db EXCEPT !.workspace[call[r].workspace] = IF @ = NoRow THEN @ ELSE note[r].status]
        /\ On(r, "status")
    BY <1>6 DEF SetStatus, Write
  <2>1. /\ abandoned' = abandoned /\ note' = note
        /\ \/ Op(r) = "SUBMIT" /\ at[r] = 2 /\ at'[r] = 3
           \/ Op(r) \in { "COMPLETE", "REOPEN" } /\ at[r] = 3 /\ at'[r] = 4
    BY <1>6, <2>0, <1>0, Names, WriteMoves DEF SetStatus
  <2>a. note[r].status # NoRow
    BY <2>1, <1>0 DEF ApplicationFacts
  <2>b. Op(r) \in Transitions
    BY <2>1 DEF Transitions
  <2>2. /\ \A k \in Key : db.workspace[k] # NoRow => db'.workspace[k] # NoRow
        /\ db'.delivery = db.delivery /\ db'.tasks = db.tasks /\ db'.events = db.events
    BY <2>0, <2>a, <2>b, <1>0 DEF Database
  <2>3. ApplicationGrows
    BY <2>1, <2>2, <1>0 DEF ApplicationGrows
  <2>4. ApplicationFacts(r)'
    BY <2>1, <2>2, <2>a, <2>b, <1>0 DEF ApplicationFacts, Transitions, Op, Progressing
  <2>t. TasksBelong'
    BY <2>2, <1>0 DEF ApplicationInv, TasksBelong
  <2>5. ApplicationAccepted'
    BY <2>2, <1>0 DEF ApplicationInv, ApplicationAccepted, Accepted
  <2>6. ApplicationPending'
    BY <2>1, <2>2, <1>0, ApplicationPends
  <2> QED
    BY <2>3, <2>4, <2>t, <2>5, <2>6, <1>0, ApplicationGrown DEF ApplicationInv, ApplicationRecorded
<1>7. CASE RecordTransition(r)
  <2>0. /\ db' = [db EXCEPT !.events = @ \union {call[r].key}]
        /\ On(r, "finish") /\ Op(r) \in Transitions
    BY <1>7 DEF RecordTransition, Write, Transitions
  <2>1. /\ abandoned' = abandoned /\ at'[r] = 0
        /\ \/ Op(r) = "SUBMIT" /\ at[r] = 4
           \/ Op(r) \in { "COMPLETE", "REOPEN" } /\ at[r] = 5
    BY <1>7, <2>0, <1>0, Names, WriteMoves DEF RecordTransition, Transitions
  <2>2. /\ db'.events = db.events \cup { call[r].key }
        /\ db'.workspace = db.workspace /\ db'.delivery = db.delivery /\ db'.tasks = db.tasks
    BY <2>0, <1>0 DEF Database
  <2>3. ApplicationGrows
    BY <2>1, <2>2, <1>0 DEF ApplicationGrows
  <2>a. Accepted(<<"APPLICATION", call[r].key>>)
    BY <2>1, <1>0 DEF ApplicationFacts
  <2>4. ApplicationFacts(r)'
    BY <2>1 DEF ApplicationFacts
  <2>t. TasksBelong'
    BY <2>2, <1>0 DEF ApplicationInv, TasksBelong
  <2>5. ApplicationAccepted'
    BY <2>2, <2>a, <1>0, AcceptedStays DEF ApplicationInv, ApplicationAccepted, Created
  <2>6. ApplicationPending'
    BY <2>1, <2>2, <1>0, ApplicationPends
  <2> QED
    BY <2>3, <2>4, <2>t, <2>5, <2>6, <1>0, ApplicationGrown DEF ApplicationInv, ApplicationRecorded
<1> QED
  BY <1>1, <1>2, <1>3, <1>4, <1>5, <1>6, <1>7 DEF Application

LEMMA ApplicationPublish ==
  ASSUME TypeOK, ApplicationInv, NEW r \in Request, Publish(r),
         Op(r) \in { "CREATE", "COMPLETE", "REOPEN", "SUBMIT" }
  PROVE  ApplicationInv'
<1>0. /\ Moves(r) /\ call' = call /\ note' = note /\ db' = db /\ abandoned' = abandoned
      /\ accepted' = accepted \cup { Due(r) } /\ ApplicationFacts(r) /\ at[r] # 0
      /\ \/ Op(r) \in { "CREATE", "SUBMIT" } /\ at[r] = 3 /\ at'[r] = 4
         \/ Op(r) \in { "COMPLETE", "REOPEN" } /\ at[r] = 4 /\ at'[r] = 5
      /\ call[r].key \in Key /\ (Op(r) \in Transitions => call[r].workspace \in Key)
  <2>1. \/ Op(r) \in { "CREATE", "SUBMIT" } /\ at[r] = 3
        \/ Op(r) \in { "COMPLETE", "REOPEN" } /\ at[r] = 4
    BY Tagged
  <2>2. call[r].key \in Key /\ (Op(r) \in Transitions => call[r].workspace \in Key)
    BY Published DEF Asked, Ops, Op, Transitions
  <2> QED
    BY <2>1, <2>2, Published, Onwards DEF ApplicationInv
<1>1. /\ Op(r) = "CREATE" => Due(r) = Created(call[r].key)
      /\ Op(r) \in Transitions =>
           Due(r).key = <<"APPLICATION", call[r].key>> /\ Due(r).body[1] = "PROGRESS"
             /\ Due(r).body[2] = call[r].workspace /\ Due(r).body[3] = Op(r)
  BY Events DEF Created, Transitions
<1>2. /\ Op(r) = "CREATE" => db.workspace[call[r].key] # NoRow /\ TaskRows(call[r].key)
      /\ Op(r) \in { "COMPLETE", "REOPEN" } => Progressing(call[r].workspace)
      /\ Op(r) \in { "COMPLETE", "REOPEN", "SUBMIT" } => note[r].status # NoRow
  BY <1>0 DEF ApplicationFacts
<1>3. ApplicationGrows
  BY <1>0 DEF ApplicationGrows
<1>4. /\ \A q \in Request : q # r => ApplicationFacts(q)'
      /\ \A a \in accepted :
           /\ a.body[1] = "CREATED" =>
                a.key[2] \in Key /\ db'.workspace[a.key[2]] # NoRow /\ TaskRows(a.key[2])'
           /\ a.body[1] = "PROGRESS" => Progress(a)'
  BY <1>0, <1>3, ApplicationGrown
<1>5. Op(r) \in Transitions => Accepted(<<"APPLICATION", call[r].key>>)'
  BY <1>0, <1>1 DEF Accepted
<1>6. ApplicationFacts(r)'
  <2>1. TaskRows(call[r].key)' <=> TaskRows(call[r].key)
    BY <1>0 DEF TaskRows
  <2>2. Op(r) = "CREATE" => Created(call[r].key) \in accepted'
    BY <1>0, <1>1
  <2> QED
    BY <1>0, <1>2, <1>5, <2>1, <2>2 DEF ApplicationFacts, Op, Transitions, Created, TaskRows, Progressing
<1>7. ApplicationRecorded'
  <2> SUFFICES ASSUME NEW a \in accepted'
               PROVE  /\ a.body[1] = "CREATED" =>
                           a.key[2] \in Key /\ db'.workspace[a.key[2]] # NoRow /\ TaskRows(a.key[2])'
                      /\ a.body[1] = "PROGRESS" => Progress(a)'
    BY DEF ApplicationRecorded
  <2>1. CASE a \in accepted
    BY <2>1, <1>4
  <2>2. CASE a = Due(r) /\ Op(r) = "CREATE"
    BY <2>2, <1>0, <1>1, <1>2 DEF Created, TaskRows
  <2>3. CASE a = Due(r) /\ Op(r) \in Transitions
    BY <2>3, <1>0, <1>1, <1>2 DEF Progress, Progressing, Transitions
  <2> QED
    BY <2>1, <2>2, <2>3, <1>0 DEF Transitions
<1>8. ApplicationAccepted'
  BY <1>0, AcceptedStays DEF ApplicationInv, ApplicationAccepted, Created
<1>9. ApplicationPending'
  BY <1>0, ApplicationPends
<1>10. TasksBelong'
  BY <1>0 DEF ApplicationInv, TasksBelong
<1> QED
  BY <1>4, <1>6, <1>7, <1>8, <1>9, <1>10 DEF ApplicationInv

LEMMA ApplicationBegin ==
  ASSUME TypeOK, ApplicationInv, NEW r \in Request, Begin(r) PROVE ApplicationInv'
<1>0. /\ at'[r] = 1 /\ note'[r] = NoNote /\ db' = db /\ accepted' = accepted /\ abandoned' = abandoned
      /\ \A q \in Request : q # r => at'[q] = at[q] /\ call'[q] = call[q] /\ note'[q] = note[q]
  BY Begun
<1>1. ASSUME NEW q \in Request PROVE ApplicationFacts(q)'
  <2>1. CASE q = r
    BY <2>1, <1>0 DEF ApplicationFacts, NoNote, Op, Transitions
  <2>2. CASE q # r
    BY <2>2, <1>0, AcceptedStays
    DEF ApplicationInv, ApplicationFacts, Op, Created, TaskRows, Progressing, Transitions
  <2> QED
    BY <2>1, <2>2
<1>2. ApplicationPending'
  <2> SUFFICES ASSUME ~abandoned', NEW k \in Key, db'.delivery[k] = "PENDING"
               PROVE  Going("CREATE", 2, 4, k)'
    BY DEF ApplicationPending
  <2>1. Going("CREATE", 2, 4, k)
    BY <1>0 DEF ApplicationInv, ApplicationPending
  <2> QED
    BY <2>1, GoingBegun
<1> QED
  BY <1>0, <1>1, <1>2, AcceptedStays
  DEF ApplicationInv, ApplicationRecorded, ApplicationAccepted, Created, TaskRows, Progressing,
      Progress, TasksBelong, Transitions

LEMMA ApplicationNext == TypeOK /\ ApplicationInv /\ [Next]_vars => ApplicationInv'
<1> SUFFICES ASSUME TypeOK, ApplicationInv, [Next]_vars PROVE ApplicationInv'
  OBVIOUS
<1> DEFINE apart == /\ Elsewhere({ "CREATE", "COMPLETE", "REOPEN", "SUBMIT" }, { "CREATED", "PROGRESS" })
                    /\ UNCHANGED ApplicationRows
<1>1. apart => ApplicationInv'
  BY ApplicationFrame
<1>2. CASE UNCHANGED vars
  BY <1>1, <1>2, StillElsewhere DEF vars, ApplicationRows
<1>3. CASE Relate
  BY <1>1, <1>3, Related, StillElsewhere
<1>4. ASSUME NEW r \in Request, Abandon(r) PROVE apart
  BY <1>4, Abandoned, AbandonElsewhere DEF ApplicationRows
<1>5. ASSUME NEW r \in Request, Publish(r), Op(r) \notin { "CREATE", "COMPLETE", "REOPEN", "SUBMIT" }
      PROVE  apart
  BY <1>5, Published, Tagged, PublishElsewhere DEF DueTag, ApplicationRows
<1>6. ASSUME NEW r \in Request,
             \/ Academic(r) \/ Opportunity(r) \/ Support(r) \/ Messaging(r) \/ Notification(r)
             \/ Onboarding(r)
      PROVE  apart
  <2>1. /\ Step(r, Ops \ { "CREATE", "COMPLETE", "REOPEN", "SUBMIT" }) /\ UNCHANGED ApplicationRows
    BY <1>6, AcademicTouches, OpportunityTouches, SupportTouches, MessagingTouches,
       NotificationTouches, OnboardingTouches
    DEF Step, Ops
  <2> QED
    BY <2>1, StepElsewhere DEF Step
<1> QED
  BY <1>1, <1>2, <1>3, <1>4, <1>5, <1>6, ApplicationStep, ApplicationPublish, ApplicationBegin DEF Next

-----------------------------------------------------------------------------
(* Opportunities *)

\* A request op that concerns the match m is about to publish or to finish.
Dealing(op, m) ==
  \E q \in Request :
    /\ at[q] \in 2 .. 3 /\ Op(q) = op
    /\ IF op = "DISCOVER" THEN m \in call[q].matches ELSE call[q].match = m

\* r is a request op for the match m.
Concerns(r, op, m) ==
  Op(r) = op /\ IF op = "DISCOVER" THEN m \in call[r].matches ELSE call[r].match = m

LEMMA DealingStays ==
  ASSUME TypeOK, NEW r \in Request, Moves(r), NEW op, NEW m, Dealing(op, m),
         Concerns(r, op, m) /\ at[r] \in 2 .. 3 => at'[r] \in 2 .. 3
  PROVE  Dealing(op, m)'
<1>1. PICK q \in Request : at[q] \in 2 .. 3 /\ Concerns(q, op, m)
  BY DEF Dealing, Concerns
<1>2. at'[q] \in 2 .. 3
  BY <1>1 DEF Moves
<1> QED
  BY <1>1, <1>2 DEF Dealing, Concerns, Moves, Op

LEMMA DealingNow ==
  ASSUME NEW r \in Request, Moves(r), NEW op, NEW m, Concerns(r, op, m), at'[r] \in 2 .. 3
  PROVE  Dealing(op, m)'
  BY DEF Dealing, Concerns, Moves, Op

LEMMA DealingElsewhere ==
  ASSUME NEW op \in { "DISCOVER", "DECIDE" }, NEW m, Dealing(op, m), ~abandoned', NEW tags,
         Elsewhere({ "DISCOVER", "DECIDE" }, tags)
  PROVE  Dealing(op, m)'
<1>1. PICK q \in Request : at[q] \in 2 .. 3 /\ Concerns(q, op, m)
  BY DEF Dealing, Concerns
<1>2. at[q] # 0
  BY <1>1
<1>3. at'[q] = at[q] /\ call'[q] = call[q]
  BY <1>1, <1>2 DEF Elsewhere, Concerns, Op
<1> QED
  BY <1>1, <1>3 DEF Dealing, Concerns, Op

LEMMA DealingBegun ==
  ASSUME TypeOK, NEW s \in Request, Begin(s), NEW op, NEW m, Dealing(op, m)
  PROVE  Dealing(op, m)'
<1>1. PICK q \in Request : at[q] \in 2 .. 3 /\ Concerns(q, op, m)
  BY DEF Dealing, Concerns
<1>2. q # s
  BY <1>1, Begun
<1>3. at'[q] = at[q] /\ call'[q] = call[q]
  BY <1>2, Begun
<1> QED
  BY <1>1, <1>3 DEF Dealing, Concerns, Op

\* PBOS has accepted the decision.
Decided(m, decision) == \E a \in accepted : a.body = <<"DECISION", m, decision>>

\* PBOS has accepted a discovery of the match or a decision about it.
Shown(m) ==
  \E a \in accepted :
    \/ a.body[1] = "MATCHES" /\ m \in a.body[2]
    \/ a.body[1] = "DECISION" /\ a.body[2] = m

\* A discovery and a decision have their matches on record.
OpportunityFacts(r) ==
  /\ at[r] >= 2 /\ Op(r) = "DISCOVER" => \A m \in call[r].matches : db.match[m].status # NoRow
  /\ at[r] >= 2 /\ Op(r) = "DECIDE" => db.match[call[r].match].status # NoRow
  /\ at[r] >= 3 /\ Op(r) = "DISCOVER" => \A m \in call[r].matches : Shown(m)
  /\ at[r] >= 3 /\ Op(r) = "DECIDE" => Decided(call[r].match, call[r].decision)

OpportunityRecorded ==
  \A a \in accepted :
    /\ a.body[1] = "MATCHES" => a.body[2] \subseteq Match /\ \A m \in a.body[2] : db.match[m].status # NoRow
    /\ a.body[1] = "DECISION" => a.body[2] \in Match /\ db.match[a.body[2]].status # NoRow

OpportunityAccepted ==
  \A m \in Match :
    /\ db.match[m].status \in { "SAVED", "DISMISSED" } => Decided(m, db.match[m].status)
    /\ db.match[m].delivery = "DELIVERED" => Shown(m)

OpportunityPending ==
  ~abandoned => \A m \in Match :
    /\ db.match[m].delivery = "PENDING" => Dealing("DISCOVER", m) \/ Dealing("DECIDE", m)
    /\ db.match[m].pending # NoRow => Dealing("DECIDE", m)

OpportunityInv ==
  /\ \A r \in Request : OpportunityFacts(r)
  /\ OpportunityRecorded /\ OpportunityAccepted /\ OpportunityPending

LEMMA DecidedStays ==
  ASSUME accepted \subseteq accepted', NEW m, NEW decision, Decided(m, decision)
  PROVE  Decided(m, decision)'
  BY DEF Decided

LEMMA ShownStays ==
  ASSUME accepted \subseteq accepted', NEW m, Shown(m) PROVE Shown(m)'
  BY DEF Shown

LEMMA OpportunityFrame ==
  ASSUME TypeOK, OpportunityInv, Elsewhere({ "DISCOVER", "DECIDE" }, { "MATCHES", "DECISION" }),
         UNCHANGED db.match
  PROVE  OpportunityInv'
<1>1. ASSUME NEW q \in Request PROVE OpportunityFacts(q)'
  BY DecidedStays, ShownStays DEF OpportunityInv, OpportunityFacts, Elsewhere, Op
<1>2. OpportunityRecorded'
  BY DEF OpportunityInv, OpportunityRecorded, Elsewhere
<1>3. OpportunityAccepted'
  BY DecidedStays, ShownStays DEF OpportunityInv, OpportunityAccepted, Elsewhere
<1>4. OpportunityPending'
  <2> SUFFICES ASSUME ~abandoned', NEW m \in Match
               PROVE  /\ db.match[m].delivery = "PENDING" =>
                           Dealing("DISCOVER", m)' \/ Dealing("DECIDE", m)'
                      /\ db.match[m].pending # NoRow => Dealing("DECIDE", m)'
    BY DEF OpportunityPending
  <2>1. /\ db.match[m].delivery = "PENDING" => Dealing("DISCOVER", m) \/ Dealing("DECIDE", m)
        /\ db.match[m].pending # NoRow => Dealing("DECIDE", m)
    BY DEF OpportunityInv, OpportunityPending, Elsewhere
  <2> QED
    BY <2>1, DealingElsewhere
<1> QED
  BY <1>1, <1>2, <1>3, <1>4 DEF OpportunityInv

\* The matches on record are not taken back.
OpportunityGrows ==
  \A m \in Match : db.match[m].status # NoRow => db'.match[m].status # NoRow

LEMMA OpportunityGrown ==
  ASSUME TypeOK, OpportunityInv, OpportunityGrows, NEW r \in Request, Moves(r),
         accepted \subseteq accepted'
  PROVE  /\ \A q \in Request : q # r => OpportunityFacts(q)'
         /\ \A a \in accepted :
              /\ a.body[1] = "MATCHES" =>
                   a.body[2] \subseteq Match /\ \A m \in a.body[2] : db'.match[m].status # NoRow
              /\ a.body[1] = "DECISION" => a.body[2] \in Match /\ db'.match[a.body[2]].status # NoRow
<1>1. ASSUME NEW q \in Request, q # r PROVE OpportunityFacts(q)'
  <2>1. at'[q] = at[q] /\ call'[q] = call[q] /\ note'[q] = note[q] /\ Located(q) /\ note[q] \in Notes
    BY <1>1 DEF Moves, TypeOK
  <2> QED
    BY <2>1, DecidedStays, ShownStays
    DEF OpportunityInv, OpportunityFacts, OpportunityGrows, Op, Located, Asked, Ops, Notes
<1> QED
  BY <1>1 DEF OpportunityInv, OpportunityRecorded, OpportunityGrows

\* A pending match stays in the hands of the requests that concern it.
LEMMA OpportunityPends ==
  ASSUME TypeOK, OpportunityInv, NEW r \in Request, Moves(r), abandoned' = abandoned,
         \A m \in Match : db'.match[m].delivery = "PENDING" =>
           \/ \E op \in { "DISCOVER", "DECIDE" } : Concerns(r, op, m) /\ at'[r] \in 2 .. 3
           \/ /\ db.match[m].delivery = "PENDING"
              /\ \A op \in { "DISCOVER", "DECIDE" } :
                   Concerns(r, op, m) /\ at[r] \in 2 .. 3 => at'[r] \in 2 .. 3,
         \A m \in Match : db'.match[m].pending # NoRow =>
           \/ Concerns(r, "DECIDE", m) /\ at'[r] \in 2 .. 3
           \/ /\ db.match[m].pending # NoRow
              /\ Concerns(r, "DECIDE", m) /\ at[r] \in 2 .. 3 => at'[r] \in 2 .. 3
  PROVE  OpportunityPending'
<1> SUFFICES ASSUME ~abandoned', NEW m \in Match
             PROVE  /\ db'.match[m].delivery = "PENDING" =>
                         Dealing("DISCOVER", m)' \/ Dealing("DECIDE", m)'
                    /\ db'.match[m].pending # NoRow => Dealing("DECIDE", m)'
  BY DEF OpportunityPending
<1>1. /\ db.match[m].delivery = "PENDING" => Dealing("DISCOVER", m) \/ Dealing("DECIDE", m)
      /\ db.match[m].pending # NoRow => Dealing("DECIDE", m)
  BY DEF OpportunityInv, OpportunityPending
<1>2. ASSUME db'.match[m].delivery = "PENDING" PROVE Dealing("DISCOVER", m)' \/ Dealing("DECIDE", m)'
  <2>1. CASE \E op \in { "DISCOVER", "DECIDE" } : Concerns(r, op, m) /\ at'[r] \in 2 .. 3
    BY <2>1, DealingNow
  <2>2. CASE ~ \E op \in { "DISCOVER", "DECIDE" } : Concerns(r, op, m) /\ at'[r] \in 2 .. 3
    <3>1. /\ Dealing("DISCOVER", m) \/ Dealing("DECIDE", m)
          /\ Concerns(r, "DISCOVER", m) /\ at[r] \in 2 .. 3 => at'[r] \in 2 .. 3
          /\ Concerns(r, "DECIDE", m) /\ at[r] \in 2 .. 3 => at'[r] \in 2 .. 3
      BY <1>1, <1>2, <2>2
    <3> QED
      BY <3>1, DealingStays
  <2> QED
    BY <2>1, <2>2
<1>3. ASSUME db'.match[m].pending # NoRow PROVE Dealing("DECIDE", m)'
  <2>1. CASE Concerns(r, "DECIDE", m) /\ at'[r] \in 2 .. 3
    BY <2>1, DealingNow
  <2>2. CASE ~(Concerns(r, "DECIDE", m) /\ at'[r] \in 2 .. 3)
    <3>1. /\ Dealing("DECIDE", m)
          /\ Concerns(r, "DECIDE", m) /\ at[r] \in 2 .. 3 => at'[r] \in 2 .. 3
      BY <1>1, <1>3, <2>2
    <3> QED
      BY <3>1, DealingStays
  <2> QED
    BY <2>1, <2>2
<1> QED
  BY <1>2, <1>3

LEMMA OpportunityStep ==
  ASSUME TypeOK, OpportunityInv, NEW r \in Request, Opportunity(r) PROVE OpportunityInv'
<1>0. /\ Moves(r) /\ Op(r) \in { "DISCOVER", "DECIDE" } /\ accepted' = accepted /\ call' = call
      /\ db \in Database /\ db.match \in [Match -> MatchRow] /\ Located(r) /\ at[r] # 0
      /\ Op(r) = "DISCOVER" => call[r].matches \subseteq Match
      /\ Op(r) = "DECIDE" => call[r].match \in Match /\ call[r].decision \in { "SAVED", "DISMISSED" }
      /\ Onward(r) = IF at[r] = 3 THEN 0 ELSE at[r] + 1
      /\ OpportunityFacts(r)
  BY OpportunityTouches, Onwards
  DEF Step, TypeOK, Moves, Located, Asked, Ops, Op, OpportunityInv, Database
<1>1. CASE PersistMatches(r)
  <2>0. db' = [db EXCEPT !.match = [m \in Match |->
                 IF m \in call[r].matches THEN Found(db.match[m]) ELSE db.match[m]]]
        /\ On(r, "matches")
    BY <1>1 DEF PersistMatches, Write
  <2>1. abandoned' = abandoned /\ Op(r) = "DISCOVER" /\ at[r] = 1 /\ at'[r] = 2
    BY <1>1, <2>0, <1>0, Names, WriteMoves DEF PersistMatches
  <2>2. db'.match = [m \in Match |-> IF m \in call[r].matches THEN Found(db.match[m]) ELSE db.match[m]]
    BY <2>0, <1>0 DEF Database
  <2>3. ASSUME NEW m \in Match
        PROVE  /\ m \notin call[r].matches => db'.match[m] = db.match[m]
               /\ db'.match[m].pending = db.match[m].pending
               /\ m \in call[r].matches => db'.match[m].status # NoRow
               /\ m \in call[r].matches => db'.match[m].delivery = "PENDING"
               /\ db'.match[m].status # db.match[m].status =>
                    db.match[m].status = NoRow /\ db'.match[m].status = "RECOMMENDED"
    <3>1. db.match[m] \in MatchRow
      BY <1>0
    <3> QED
      BY <3>1, <2>2 DEF MatchRow, Found
  <2>4. OpportunityGrows
    BY <2>3 DEF OpportunityGrows
  <2>5. OpportunityFacts(r)'
    BY <2>1, <2>3, <1>0 DEF OpportunityFacts, Op
  <2>6. OpportunityAccepted'
    BY <2>3, <1>0, DecidedStays, ShownStays DEF OpportunityInv, OpportunityAccepted
  <2>7. OpportunityPending'
    BY <2>1, <2>3, <1>0, OpportunityPends DEF Concerns
  <2> QED
    BY <2>4, <2>5, <2>6, <2>7, <1>0, OpportunityGrown DEF OpportunityInv, OpportunityRecorded
<1>2. CASE CompleteMatchDelivery(r)
  <2>0. db' = [db EXCEPT !.match = [m \in Match |->
                 IF m \in call[r].matches THEN [db.match[m] EXCEPT !.delivery = "DELIVERED"]
                 ELSE db.match[m]]]
        /\ On(r, "finish") /\ Op(r) = "DISCOVER"
    BY <1>2 DEF CompleteMatchDelivery, Write
  <2>1. abandoned' = abandoned /\ Op(r) = "DISCOVER" /\ at[r] = 3 /\ at'[r] = 0
    BY <1>2, <2>0, <1>0, Names, WriteMoves DEF CompleteMatchDelivery
  <2>2. db'.match = [m \in Match |->
          IF m \in call[r].matches THEN [db.match[m] EXCEPT !.delivery = "DELIVERED"] ELSE db.match[m]]
    BY <2>0, <1>0 DEF Database
  <2>3. ASSUME NEW m \in Match
        PROVE  /\ m \notin call[r].matches => db'.match[m] = db.match[m]
               /\ db'.match[m].pending = db.match[m].pending
               /\ m \in call[r].matches => db'.match[m].delivery = "DELIVERED"
               /\ db'.match[m].status = db.match[m].status
    <3>1. db.match[m] \in MatchRow
      BY <1>0
    <3> QED
      BY <3>1, <2>2 DEF MatchRow
  <2>a. \A m \in call[r].matches : Shown(m)
    BY <2>1, <1>0 DEF OpportunityFacts
  <2>4. OpportunityGrows
    BY <2>3 DEF OpportunityGrows
  <2>5. OpportunityFacts(r)'
    BY <2>1 DEF OpportunityFacts, Op
  <2>6. OpportunityAccepted'
    BY <2>a, <2>3, <1>0, DecidedStays, ShownStays DEF OpportunityInv, OpportunityAccepted
  <2>7. OpportunityPending'
    BY <2>1, <2>3, <1>0, OpportunityPends DEF Concerns
  <2> QED
    BY <2>4, <2>5, <2>6, <2>7, <1>0, OpportunityGrown DEF OpportunityInv, OpportunityRecorded
<1>3. CASE StageDecision(r)
  <2>0. /\ db' = [db EXCEPT !.match[call[r].match].pending = call[r].decision,
                            !.match[call[r].match].delivery = "PENDING"]
        /\ db.match[call[r].match].status # NoRow /\ On(r, "stage")
    BY <1>3 DEF StageDecision, Write
  <2>1. abandoned' = abandoned /\ Op(r) = "DECIDE" /\ at[r] = 1 /\ at'[r] = 2
    BY <1>3, <2>0, <1>0, Names, WriteMoves DEF StageDecision
  <2>3. ASSUME NEW m \in Match
        PROVE  /\ m # call[r].match => db'.match[m] = db.match[m]
               /\ db'.match[m].status = db.match[m].status
               /\ m = call[r].match => db'.match[m].delivery = "PENDING"
    <3>1. db.match[m] \in MatchRow
      BY <1>0
    <3> QED
      BY <3>1, <2>0, <2>1, <1>0 DEF MatchRow, Database
  <2>4. OpportunityGrows
    BY <2>3 DEF OpportunityGrows
  <2>5. OpportunityFacts(r)'
    <3>1. db'.match[call[r].match].status # NoRow
      BY <2>0, <2>1, <2>3, <1>0
    <3> QED
      BY <3>1, <2>1, <1>0 DEF OpportunityFacts, Op
  <2>6. OpportunityAccepted'
    BY <2>3, <1>0, DecidedStays, ShownStays DEF OpportunityInv, OpportunityAccepted
  <2>7. OpportunityPending'
    BY <2>1, <2>3, <1>0, OpportunityPends DEF Concerns
  <2> QED
    BY <2>4, <2>5, <2>6, <2>7, <1>0, OpportunityGrown DEF OpportunityInv, OpportunityRecorded
<1>4. CASE CompleteDecision(r)
  <2>0. /\ db' = [db EXCEPT !.match[call[r].match] =
                    [status |-> call[r].decision, pending |-> NoRow, delivery |-> "DELIVERED"]]
        /\ On(r, "finish") /\ Op(r) = "DECIDE"
    BY <1>4 DEF CompleteDecision, Write
  <2>1. abandoned' = abandoned /\ Op(r) = "DECIDE" /\ at[r] = 3 /\ at'[r] = 0
    BY <1>4, <2>0, <1>0, Names, WriteMoves DEF CompleteDecision
  <2>3. ASSUME NEW m \in Match
        PROVE  db'.match[m] = IF m = call[r].match
                              THEN [status |-> call[r].decision, pending |-> NoRow, delivery |-> "DELIVERED"]
                              ELSE db.match[m]
    BY <2>0, <2>1, <1>0 DEF Database
  <2>4. OpportunityGrows
    BY <2>1, <2>3, <1>0 DEF OpportunityGrows
  <2>5. OpportunityFacts(r)'
    BY <2>1 DEF OpportunityFacts, Op
  <2>a. Decided(call[r].match, call[r].decision)
    BY <2>1, <1>0 DEF OpportunityFacts
  <2>b. Shown(call[r].match)
    BY <2>a DEF Decided, Shown
  <2>6. OpportunityAccepted'
    BY <2>a, <2>b, <2>3, <1>0, DecidedStays, ShownStays DEF OpportunityInv, OpportunityAccepted
  <2>7. OpportunityPending'
    BY <2>1, <2>3, <1>0, OpportunityPends DEF Concerns
  <2> QED
    BY <2>4, <2>5, <2>6, <2>7, <1>0, OpportunityGrown DEF OpportunityInv, OpportunityRecorded
<1> QED
  BY <1>1, <1>2, <1>3, <1>4 DEF Opportunity

LEMMA OpportunityPublish ==
  ASSUME TypeOK, OpportunityInv, NEW r \in Request, Publish(r), Op(r) \in { "DISCOVER", "DECIDE" }
  PROVE  OpportunityInv'
<1>0. /\ Moves(r) /\ call' = call /\ db' = db /\ abandoned' = abandoned
      /\ accepted' = accepted \cup { Due(r) } /\ OpportunityFacts(r)
      /\ at[r] = 2 /\ at'[r] = 3
      /\ Op(r) = "DISCOVER" => call[r].matches \subseteq Match
      /\ Op(r) = "DECIDE" => call[r].match \in Match
  <2>1. at[r] = 2
    BY Tagged
  <2>2. /\ Op(r) = "DISCOVER" => call[r].matches \subseteq Match
        /\ Op(r) = "DECIDE" => call[r].match \in Match
    BY Published DEF Asked, Op
  <2> QED
    BY <2>1, <2>2, Published, Onwards DEF OpportunityInv
<1>1. /\ Op(r) = "DISCOVER" => Due(r).body = <<"MATCHES", call[r].matches>>
      /\ Op(r) = "DECIDE" => Due(r).body = <<"DECISION", call[r].match, call[r].decision>>
  BY Events
<1>2. /\ Op(r) = "DISCOVER" => \A m \in call[r].matches : db.match[m].status # NoRow
      /\ Op(r) = "DECIDE" => db.match[call[r].match].status # NoRow
  BY <1>0 DEF OpportunityFacts
<1>3. OpportunityGrows
  BY <1>0 DEF OpportunityGrows
<1>4. /\ \A q \in Request : q # r => OpportunityFacts(q)'
      /\ \A a \in accepted :
           /\ a.body[1] = "MATCHES" =>
                a.body[2] \subseteq Match /\ \A m \in a.body[2] : db'.match[m].status # NoRow
           /\ a.body[1] = "DECISION" => a.body[2] \in Match /\ db'.match[a.body[2]].status # NoRow
  BY <1>0, <1>3, OpportunityGrown
<1>5. Op(r) = "DECIDE" => Decided(call[r].match, call[r].decision)'
  BY <1>0, <1>1 DEF Decided
<1>a. Op(r) = "DISCOVER" => \A m \in call[r].matches : Shown(m)'
  <2> SUFFICES ASSUME Op(r) = "DISCOVER", NEW m \in call[r].matches PROVE Shown(m)'
    OBVIOUS
  <2>1. /\ Due(r) \in accepted' /\ Due(r).body[1] = "MATCHES" /\ m \in Due(r).body[2]
    BY <1>0, <1>1
  <2> QED
    BY <2>1 DEF Shown
<1>6. OpportunityFacts(r)'
  BY <1>0, <1>2, <1>5, <1>a DEF OpportunityFacts, Op
<1>7. OpportunityRecorded'
  BY <1>0, <1>1, <1>2, <1>4 DEF OpportunityRecorded
<1>8. OpportunityAccepted'
  BY <1>0, DecidedStays, ShownStays DEF OpportunityInv, OpportunityAccepted
<1>9. OpportunityPending'
  BY <1>0, OpportunityPends
<1> QED
  BY <1>4, <1>6, <1>7, <1>8, <1>9 DEF OpportunityInv

LEMMA OpportunityBegin ==
  ASSUME TypeOK, OpportunityInv, NEW r \in Request, Begin(r) PROVE OpportunityInv'
<1>0. /\ at'[r] = 1 /\ note'[r] = NoNote /\ db' = db /\ accepted' = accepted /\ abandoned' = abandoned
      /\ \A q \in Request : q # r => at'[q] = at[q] /\ call'[q] = call[q] /\ note'[q] = note[q]
  BY Begun
<1>1. ASSUME NEW q \in Request PROVE OpportunityFacts(q)'
  <2>1. CASE q = r
    BY <2>1, <1>0 DEF OpportunityFacts, NoNote, Op
  <2>2. CASE q # r
    BY <2>2, <1>0, DecidedStays, ShownStays DEF OpportunityInv, OpportunityFacts, Op
  <2> QED
    BY <2>1, <2>2
<1>2. OpportunityPending'
  <2> SUFFICES ASSUME ~abandoned', NEW m \in Match
               PROVE  /\ db.match[m].delivery = "PENDING" =>
                           Dealing("DISCOVER", m)' \/ Dealing("DECIDE", m)'
                      /\ db.match[m].pending # NoRow => Dealing("DECIDE", m)'
    BY <1>0 DEF OpportunityPending
  <2>1. /\ db.match[m].delivery = "PENDING" => Dealing("DISCOVER", m) \/ Dealing("DECIDE", m)
        /\ db.match[m].pending # NoRow => Dealing("DECIDE", m)
    BY <1>0 DEF OpportunityInv, OpportunityPending
  <2> QED
    BY <2>1, DealingBegun
<1> QED
  BY <1>0, <1>1, <1>2, DecidedStays, ShownStays DEF OpportunityInv, OpportunityRecorded, OpportunityAccepted

LEMMA OpportunityNext == TypeOK /\ OpportunityInv /\ [Next]_vars => OpportunityInv'
<1> SUFFICES ASSUME TypeOK, OpportunityInv, [Next]_vars PROVE OpportunityInv'
  OBVIOUS
<1> DEFINE apart == Elsewhere({ "DISCOVER", "DECIDE" }, { "MATCHES", "DECISION" }) /\ UNCHANGED db.match
<1>1. apart => OpportunityInv'
  BY OpportunityFrame
<1>2. CASE UNCHANGED vars
  BY <1>1, <1>2, StillElsewhere DEF vars
<1>3. CASE Relate
  BY <1>1, <1>3, Related, StillElsewhere
<1>4. ASSUME NEW r \in Request, Abandon(r) PROVE apart
  BY <1>4, Abandoned, AbandonElsewhere 
<1>5. ASSUME NEW r \in Request, Publish(r), Op(r) \notin { "DISCOVER", "DECIDE" } PROVE apart
  BY <1>5, Published, Tagged, PublishElsewhere DEF DueTag
<1>6. ASSUME NEW r \in Request,
             \/ Academic(r) \/ Application(r) \/ Support(r) \/ Messaging(r) \/ Notification(r)
             \/ Onboarding(r)
      PROVE  apart
  <2>1. /\ Step(r, Ops \ { "DISCOVER", "DECIDE" }) /\ UNCHANGED db.match
    BY <1>6, AcademicTouches, ApplicationTouches, SupportTouches, MessagingTouches,
       NotificationTouches, OnboardingTouches
    DEF Step, Ops
  <2> QED
    BY <2>1, StepElsewhere DEF Step
<1> QED
  BY <1>1, <1>2, <1>3, <1>4, <1>5, <1>6, OpportunityStep, OpportunityPublish, OpportunityBegin DEF Next

-----------------------------------------------------------------------------
(* Messages *)

\* A message is staged in its conversation before it is published.
MessagingFacts(r) ==
  Op(r) = "SEND" =>
    /\ at[r] >= 4 => db.conversation
    /\ at[r] >= 7 => db.message[call[r].key] # NoRow
    /\ at[r] >= 8 => Accepted(<<"MESSAGE", call[r].key>>)

MessagingRecorded ==
  \A a \in accepted : a.body[1] = "MESSAGE" =>
    a.key[2] \in Key /\ db.message[a.key[2]] # NoRow /\ db.conversation

MessagingAccepted == \A k \in Key : db.message[k] = "DELIVERED" => Accepted(<<"MESSAGE", k>>)

MessagingPending ==
  ~abandoned => \A k \in Key : db.message[k] = "PENDING" => Going("SEND", 7, 8, k)

MessagingInv ==
  /\ \A r \in Request : MessagingFacts(r)
  /\ MessagingRecorded /\ MessagingAccepted /\ MessagingPending

LEMMA MessagingFrame ==
  ASSUME TypeOK, MessagingInv, Elsewhere({ "SEND" }, { "MESSAGE" }), UNCHANGED MessagingRows
  PROVE  MessagingInv'
<1>1. ASSUME NEW q \in Request PROVE MessagingFacts(q)'
  <2>1. CASE at'[q] = 0
    BY <2>1 DEF MessagingFacts
  <2>2. CASE at'[q] # 0
    BY <2>2, AcceptedStays DEF MessagingInv, MessagingFacts, Elsewhere, MessagingRows, Op
  <2> QED
    BY <2>1, <2>2
<1>2. MessagingRecorded'
  BY DEF MessagingInv, MessagingRecorded, Elsewhere, MessagingRows
<1>3. MessagingAccepted'
  BY AcceptedStays DEF MessagingInv, MessagingAccepted, Elsewhere, MessagingRows
<1>4. MessagingPending'
  <2> SUFFICES ASSUME ~abandoned', NEW k \in Key, db'.message[k] = "PENDING"
               PROVE  Going("SEND", 7, 8, k)'
    BY DEF MessagingPending
  <2>1. Going("SEND", 7, 8, k)
    BY DEF MessagingInv, MessagingPending, Elsewhere, MessagingRows
  <2> QED
    BY <2>1, GoingElsewhere
<1> QED
  BY <1>1, <1>2, <1>3, <1>4 DEF MessagingInv

\* The messages and the conversation on record are not taken back.
MessagingGrows ==
  /\ db.conversation => db'.conversation
  /\ \A k \in Key : db.message[k] # NoRow => db'.message[k] # NoRow

LEMMA MessagingGrown ==
  ASSUME TypeOK, MessagingInv, MessagingGrows, NEW r \in Request, Moves(r), accepted \subseteq accepted'
  PROVE  /\ \A q \in Request : q # r => MessagingFacts(q)'
         /\ \A a \in accepted :
              a.body[1] = "MESSAGE" => a.key[2] \in Key /\ db'.message[a.key[2]] # NoRow /\ db'.conversation
<1>1. ASSUME NEW q \in Request, q # r PROVE MessagingFacts(q)'
  <2>1. at'[q] = at[q] /\ call'[q] = call[q] /\ note'[q] = note[q] /\ Located(q) /\ note[q] \in Notes
    BY <1>1 DEF Moves, TypeOK
  <2> QED
    <3>1. CASE at[q] = 0
      BY <2>1, <3>1 DEF MessagingFacts
    <3>2. CASE at[q] # 0
      BY <2>1, <3>2, AcceptedStays
      DEF MessagingInv, MessagingFacts, MessagingGrows, Op, Located, Asked, Ops
    <3> QED
      BY <3>1, <3>2
<1> QED
  BY <1>1 DEF MessagingInv, MessagingRecorded, MessagingGrows

\* A step that writes neither.
LEMMA MessagingQuiet ==
  ASSUME TypeOK, MessagingInv, NEW r \in Request, Moves(r),
         UNCHANGED <<MessagingRows, accepted, abandoned>>,
         Op(r) = "SEND" => at[r] < 7 /\ at'[r] < 7 /\ (at'[r] >= 4 => db.conversation)
  PROVE  MessagingInv'
<1>1. MessagingGrows
  BY DEF MessagingGrows, MessagingRows
<1>2. MessagingFacts(r)'
  BY DEF Moves, MessagingFacts, MessagingRows, Op
<1>3. MessagingAccepted'
  BY DEF MessagingInv, MessagingAccepted, MessagingRows, Accepted
<1>4. MessagingPending'
  <2> SUFFICES ASSUME ~abandoned', NEW k \in Key, db'.message[k] = "PENDING"
               PROVE  Going("SEND", 7, 8, k)'
    BY DEF MessagingPending
  <2>1. Going("SEND", 7, 8, k)
    BY DEF MessagingInv, MessagingPending, MessagingRows
  <2> QED
    BY <2>1, GoingStays DEF TypeOK
<1> QED
  BY <1>1, <1>2, <1>3, <1>4, MessagingGrown DEF MessagingInv, MessagingRecorded

LEMMA MessagingStep ==
  ASSUME TypeOK, MessagingInv, NEW r \in Request, Messaging(r) PROVE MessagingInv'
<1>0. /\ Moves(r) /\ Op(r) \in { "SEND", "BLOCK", "UNBLOCK", "REPORT" } /\ accepted' = accepted
      /\ call' = call
      /\ db \in Database /\ Located(r) /\ at[r] # 0 /\ at \in [Request -> Nat]
      /\ Op(r) = "SEND" => call[r].key \in Key
      /\ Op(r) = "SEND" => Onward(r) = IF at[r] = 8 THEN 0 ELSE at[r] + 1
      /\ MessagingFacts(r)
  BY MessagingTouches, Onwards DEF Step, TypeOK, Moves, Located, Asked, Ops, Op, MessagingInv
<1>1. CASE FindConversation(r)
  <2>1. /\ Op(r) = "SEND" /\ at[r] = 2 /\ UNCHANGED <<db, abandoned>>
        /\ IF db.conversation THEN SkipOne(r) ELSE Advance(r)
    BY <1>1, <1>0, Names DEF FindConversation, Same
  <2>2. (at'[r] = 4 /\ db.conversation) \/ at'[r] = 3
    <3>1. CASE db.conversation
      BY <3>1, <2>1, SkipMoves
    <3>2. CASE ~db.conversation
      BY <3>2, <2>1, <1>0, AdvanceMoves
    <3> QED
      BY <3>1, <3>2
  <2>3. at'[r] < 7 /\ (at'[r] >= 4 => db.conversation) /\ at[r] < 7
    BY <2>1, <2>2
  <2> QED
    BY <2>1, <2>3, <1>0, MessagingQuiet DEF MessagingRows
<1>2. CASE InsertConversation(r)
  <2>0. db' = [db EXCEPT !.conversation = TRUE] /\ On(r, "open")
    BY <1>2 DEF InsertConversation, Write
  <2>1. /\ Op(r) = "SEND" /\ abandoned' = abandoned /\ at[r] = 3 /\ at'[r] = 4
        /\ db'.conversation /\ db'.message = db.message
    BY <1>2, <2>0, <1>0, Names, WriteMoves DEF InsertConversation, Database
  <2>2. MessagingGrows
    BY <2>1 DEF MessagingGrows
  <2>3. MessagingFacts(r)'
    BY <2>1 DEF MessagingFacts
  <2>4. MessagingAccepted'
    BY <2>1, <1>0 DEF MessagingInv, MessagingAccepted, Accepted
  <2>5. MessagingPending'
    <3> SUFFICES ASSUME ~abandoned', NEW k \in Key, db'.message[k] = "PENDING"
                 PROVE  Going("SEND", 7, 8, k)'
      BY DEF MessagingPending
    <3>1. Going("SEND", 7, 8, k)
      BY <2>1 DEF MessagingInv, MessagingPending
    <3> QED
      BY <3>1, <2>1, <1>0, GoingStays
  <2> QED
    BY <2>2, <2>3, <2>4, <2>5, <1>0, MessagingGrown DEF MessagingInv, MessagingRecorded
<1>3. CASE Join(r)
  <2>0. db' = [db EXCEPT !.participant = IF @ = NoRow THEN "MEMBER" ELSE @] /\ On(r, "join")
    BY <1>3 DEF Join, Write
  <2>1. Op(r) = "SEND" /\ abandoned' = abandoned /\ at[r] = 4 /\ at'[r] = 5
    BY <1>3, <2>0, <1>0, Names, WriteMoves DEF Join
  <2>2. UNCHANGED MessagingRows
    BY <2>0, <1>0 DEF Database, MessagingRows
  <2>3. at'[r] < 7 /\ db.conversation /\ at[r] < 7
    BY <2>1, <1>0 DEF MessagingFacts
  <2> QED
    BY <2>1, <2>2, <2>3, <1>0, MessagingQuiet
<1>4. CASE CheckBlocked(r)
  <2>1. /\ Op(r) = "SEND" /\ at[r] = 5 /\ UNCHANGED <<db, abandoned>>
        /\ IF db.participant = "BLOCKED" THEN Stop(r) ELSE Advance(r)
    BY <1>4, <1>0, Names DEF CheckBlocked, Same
  <2>2. at'[r] = 0 \/ at'[r] = 6
    BY <2>1, <1>0, StopMoves, AdvanceMoves
  <2>3. at'[r] < 7 /\ db.conversation /\ at[r] < 7
    BY <2>1, <2>2, <1>0 DEF MessagingFacts
  <2> QED
    BY <2>1, <2>3, <1>0, MessagingQuiet DEF MessagingRows
<1>5. CASE StageMessage(r)
  <2>0. /\ db' = [db EXCEPT !.message[call[r].key] = IF @ = NoRow THEN "PENDING" ELSE @]
        /\ On(r, "message")
    BY <1>5 DEF StageMessage, Write
  <2>1. Op(r) = "SEND" /\ abandoned' = abandoned /\ at[r] = 6 /\ at'[r] = 7
    BY <1>5, <2>0, <1>0, Names, WriteMoves DEF StageMessage
  <2>2. /\ db'.conversation = db.conversation
        /\ \A k \in Key : db'.message[k] = IF k = call[r].key /\ db.message[k] = NoRow THEN "PENDING"
                                            ELSE db.message[k]
    BY <2>0, <2>1, <1>0 DEF Database
  <2>3. MessagingGrows
    BY <2>2 DEF MessagingGrows
  <2>a. db.conversation
    BY <2>1, <1>0 DEF MessagingFacts
  <2>4. MessagingFacts(r)'
    BY <2>1, <2>2, <2>a, <1>0 DEF MessagingFacts, Op
  <2>5. MessagingPending'
    <3> SUFFICES ASSUME ~abandoned', NEW k \in Key, db'.message[k] = "PENDING"
                 PROVE  Going("SEND", 7, 8, k)'
      BY DEF MessagingPending
    <3>1. CASE k = call[r].key
      <4>1. at'[r] \in 7 .. 8
        BY <2>1
      <4> QED
        BY <4>1, <3>1, <2>1, <1>0, GoingNow
    <3>2. CASE k # call[r].key
      <4>1. Going("SEND", 7, 8, k)
        BY <3>2, <2>1, <2>2 DEF MessagingInv, MessagingPending
      <4> QED
        BY <4>1, <3>2, <1>0, GoingStays
    <3> QED
      BY <3>1, <3>2
  <2>6. MessagingAccepted'
    BY <2>2, <1>0, AcceptedStays DEF MessagingInv, MessagingAccepted
  <2> QED
    BY <2>3, <2>4, <2>5, <2>6, <1>0, MessagingGrown DEF MessagingInv, MessagingRecorded
<1>6. CASE FinishMessage(r)
  <2>0. /\ db' = [db EXCEPT !.message[call[r].key] = "DELIVERED"] /\ On(r, "finish") /\ Op(r) = "SEND"
    BY <1>6 DEF FinishMessage, Write
  <2>1. abandoned' = abandoned /\ at[r] = 8 /\ at'[r] = 0
    BY <1>6, <2>0, <1>0, Names, WriteMoves DEF FinishMessage
  <2>2. /\ db'.conversation = db.conversation
        /\ \A k \in Key : db'.message[k] = IF k = call[r].key THEN "DELIVERED" ELSE db.message[k]
    BY <2>0, <1>0 DEF Database
  <2>3. MessagingGrows
    BY <2>2 DEF MessagingGrows
  <2>4. MessagingFacts(r)'
    BY <2>1 DEF MessagingFacts
  <2>5. MessagingPending'
    <3> SUFFICES ASSUME ~abandoned', NEW k \in Key, db'.message[k] = "PENDING"
                 PROVE  Going("SEND", 7, 8, k)'
      BY DEF MessagingPending
    <3>1. k # call[r].key /\ Going("SEND", 7, 8, k)
      BY <2>1, <2>2 DEF MessagingInv, MessagingPending
    <3> QED
      BY <3>1, <1>0, GoingStays
  <2>6. Accepted(<<"MESSAGE", call[r].key>>)
    BY <2>0, <2>1, <1>0 DEF MessagingFacts
  <2>7. MessagingAccepted'
    BY <2>2, <2>6, <1>0, AcceptedStays DEF MessagingInv, MessagingAccepted
  <2> QED
    BY <2>3, <2>4, <2>5, <2>7, <1>0, MessagingGrown DEF MessagingInv, MessagingRecorded
<1>7. CASE CheckMember(r) \/ Act(r)
  <2>1. Op(r) # "SEND" /\ abandoned' = abandoned
    BY <1>7, <1>0, Names DEF CheckMember, Act, Read, Write, Same
  <2>2. UNCHANGED MessagingRows
    <3>1. \/ db' = db
          \/ db' = [db EXCEPT !.participant = "BLOCKED"]
          \/ db' = [db EXCEPT !.participant = "MEMBER"]
          \/ db' = [db EXCEPT !.reported = @ \union {call[r].key}]
      BY <1>7, <1>0, <2>1 DEF CheckMember, Read, Act, Write
    <3> QED
      BY <3>1, <1>0 DEF Database, MessagingRows
  <2> QED
    BY <2>1, <2>2, <1>0, MessagingQuiet
<1> QED
  BY <1>1, <1>2, <1>3, <1>4, <1>5, <1>6, <1>7 DEF Messaging

LEMMA MessagingRelationship ==
  ASSUME TypeOK, MessagingInv, NEW r \in Request, CheckRelationship(r) PROVE MessagingInv'
<1>1. note[r] \in Notes /\ Located(r) /\ Read(r, "relationship", db.related, note[r])
  BY DEF TypeOK, CheckRelationship
<1>2. Moves(r) /\ at'[r] = Onward(r) /\ UNCHANGED <<accepted, db, abandoned>> /\ On(r, "relationship")
  BY <1>1, ReadMoves
<1>3. at[r] = 1 /\ (Op(r) = "SEND" => at'[r] = 2)
  BY <1>1, <1>2, Names, Onwards
<1>4. Op(r) = "SEND" => at[r] < 7 /\ at'[r] < 7 /\ ~(at'[r] >= 4)
  BY <1>3
<1> QED
  BY <1>2, <1>4, MessagingQuiet DEF MessagingRows

LEMMA MessagingPublish ==
  ASSUME TypeOK, MessagingInv, NEW r \in Request, Publish(r), Op(r) = "SEND" PROVE MessagingInv'
<1>0. /\ Moves(r) /\ call' = call /\ db' = db /\ abandoned' = abandoned
      /\ accepted' = accepted \cup { Due(r) } /\ MessagingFacts(r)
      /\ at[r] = 7 /\ at'[r] = 8 /\ call[r].key \in Key
  <2>1. at[r] = 7
    BY Tagged
  <2>2. call[r].key \in Key
    BY Published DEF Asked, Ops, Op
  <2> QED
    BY <2>1, <2>2, Published, Onwards DEF MessagingInv
<1>1. Due(r) = [key |-> <<"MESSAGE", call[r].key>>, body |-> <<"MESSAGE", call[r].key>>]
  BY Events
<1>2. db.message[call[r].key] # NoRow /\ db.conversation
  BY <1>0 DEF MessagingFacts
<1>3. MessagingGrows
  BY <1>0 DEF MessagingGrows
<1>4. /\ \A q \in Request : q # r => MessagingFacts(q)'
      /\ \A a \in accepted :
           a.body[1] = "MESSAGE" => a.key[2] \in Key /\ db'.message[a.key[2]] # NoRow /\ db'.conversation
  BY <1>0, <1>3, MessagingGrown
<1>5. Accepted(<<"MESSAGE", call[r].key>>)'
  BY <1>0, <1>1 DEF Accepted
<1>6. MessagingFacts(r)'
  BY <1>0, <1>2, <1>5 DEF MessagingFacts, Op
<1>7. MessagingRecorded'
  BY <1>0, <1>1, <1>2, <1>4 DEF MessagingRecorded
<1>8. MessagingAccepted'
  BY <1>0, AcceptedStays DEF MessagingInv, MessagingAccepted
<1>9. MessagingPending'
  <2> SUFFICES ASSUME ~abandoned', NEW k \in Key, db'.message[k] = "PENDING"
               PROVE  Going("SEND", 7, 8, k)'
    BY DEF MessagingPending
  <2>1. Going("SEND", 7, 8, k)
    BY <1>0 DEF MessagingInv, MessagingPending
  <2> QED
    BY <2>1, <1>0, GoingStays
<1> QED
  BY <1>4, <1>6, <1>7, <1>8, <1>9 DEF MessagingInv

LEMMA MessagingBegin ==
  ASSUME TypeOK, MessagingInv, NEW r \in Request, Begin(r) PROVE MessagingInv'
<1>0. /\ at'[r] = 1 /\ note'[r] = NoNote /\ db' = db /\ accepted' = accepted /\ abandoned' = abandoned
      /\ \A q \in Request : q # r => at'[q] = at[q] /\ call'[q] = call[q] /\ note'[q] = note[q]
  BY Begun
<1>1. ASSUME NEW q \in Request PROVE MessagingFacts(q)'
  <2>1. CASE q = r
    BY <2>1, <1>0 DEF MessagingFacts, NoNote, Op
  <2>2. CASE q # r
    BY <2>2, <1>0, AcceptedStays DEF MessagingInv, MessagingFacts, Op, TypeOK
  <2> QED
    BY <2>1, <2>2
<1>2. MessagingPending'
  <2> SUFFICES ASSUME ~abandoned', NEW k \in Key, db'.message[k] = "PENDING"
               PROVE  Going("SEND", 7, 8, k)'
    BY DEF MessagingPending
  <2>1. Going("SEND", 7, 8, k)
    BY <1>0 DEF MessagingInv, MessagingPending
  <2> QED
    BY <2>1, GoingBegun
<1> QED
  BY <1>0, <1>1, <1>2, AcceptedStays DEF MessagingInv, MessagingRecorded, MessagingAccepted

LEMMA MessagingNext == TypeOK /\ MessagingInv /\ [Next]_vars => MessagingInv'
<1> SUFFICES ASSUME TypeOK, MessagingInv, [Next]_vars PROVE MessagingInv'
  OBVIOUS
<1> DEFINE apart == Elsewhere({ "SEND" }, { "MESSAGE" }) /\ UNCHANGED MessagingRows
<1>1. apart => MessagingInv'
  BY MessagingFrame
<1>2. CASE UNCHANGED vars
  BY <1>1, <1>2, StillElsewhere DEF vars, MessagingRows
<1>3. CASE Relate
  BY <1>1, <1>3, Related, StillElsewhere
<1>4. ASSUME NEW r \in Request, Abandon(r) PROVE apart
  BY <1>4, Abandoned, AbandonElsewhere DEF MessagingRows
<1>5. ASSUME NEW r \in Request, Publish(r), Op(r) # "SEND" PROVE apart
  BY <1>5, Published, Tagged, PublishElsewhere DEF DueTag, MessagingRows
<1>6. ASSUME NEW r \in Request,
             Academic(r) \/ Application(r) \/ Opportunity(r) \/ Notification(r) \/ Onboarding(r)
      PROVE  apart
  <2>1. /\ Step(r, Ops \ { "SEND" }) /\ UNCHANGED MessagingRows
    BY <1>6, AcademicTouches, ApplicationTouches, OpportunityTouches, NotificationTouches,
       OnboardingTouches
    DEF Step, Ops
  <2> QED
    BY <2>1, StepElsewhere DEF Step
<1>7. ASSUME NEW r \in Request, Support(r) PROVE MessagingInv'
  <2>1. CASE Op(r) = "SEND"
    <3>1. CheckRelationship(r)
      <4>1. Located(r)
        BY DEF TypeOK
      <4> QED
        BY <1>7, <2>1, <4>1, Names DEF Support, CreateRequest, MarkDelivered, Write
    <3> QED
      BY <3>1, MessagingRelationship
  <2>2. CASE Op(r) # "SEND"
    <3>1. Step(r, { "ASK", "SEND" }) /\ UNCHANGED MessagingRows
      BY <1>7, SupportTouches
    <3> QED
      BY <3>1, <2>2, <1>1, StepElsewhere
  <2> QED
    BY <2>1, <2>2
<1> QED
  BY <1>7, <1>1, <1>2, <1>3, <1>4, <1>5, <1>6, MessagingStep, MessagingPublish, MessagingBegin DEF Next

-----------------------------------------------------------------------------
(* Notifications *)

\* A notification has its outbox row, its event and its inbox entry, in this order.
NotificationFacts(r) ==
  LET k == call[r].key
  IN  /\ Op(r) = "NOTIFY" =>
           /\ at[r] >= 3 => db.outbox[k].state # NoRow
           /\ at[r] >= 5 => Accepted(<<"NOTIFICATION", k>>)
           /\ at[r] >= 6 => db.notification[k] # NoRow
      /\ Op(r) = "RETRY" =>
           /\ at[r] >= 2 => db.outbox[k].state # NoRow
           /\ at[r] >= 4 => Accepted(<<"NOTIFICATION", k>>)
           /\ at[r] >= 5 => db.notification[k] # NoRow

NotificationRecorded ==
  \A a \in accepted : a.body[1] = "NOTIFICATION" => a.key[2] \in Key /\ db.outbox[a.key[2]].state # NoRow

NotificationAccepted ==
  \A k \in Key : db.outbox[k].state = "DELIVERED" =>
    Accepted(<<"NOTIFICATION", k>>) /\ db.notification[k] # NoRow

NotificationPending ==
  ~abandoned => \A k \in Key :
    /\ db.outbox[k].state # "FAILED"
    /\ db.outbox[k].state = "PENDING" => Going("NOTIFY", 3, 6, k)

NotificationInv ==
  /\ \A r \in Request : NotificationFacts(r)
  /\ NotificationRecorded /\ NotificationAccepted /\ NotificationPending

LEMMA NotificationFrame ==
  ASSUME TypeOK, NotificationInv, Elsewhere({ "NOTIFY", "RETRY" }, { "NOTIFICATION" }),
         UNCHANGED NotificationRows
  PROVE  NotificationInv'
<1>1. ASSUME NEW q \in Request PROVE NotificationFacts(q)'
  <2>1. CASE at'[q] = 0
    BY <2>1 DEF NotificationFacts
  <2>2. CASE at'[q] # 0
    BY <2>2, AcceptedStays DEF NotificationInv, NotificationFacts, Elsewhere, NotificationRows, Op
  <2> QED
    BY <2>1, <2>2
<1>2. NotificationRecorded'
  BY DEF NotificationInv, NotificationRecorded, Elsewhere, NotificationRows
<1>3. NotificationAccepted'
  BY AcceptedStays DEF NotificationInv, NotificationAccepted, Elsewhere, NotificationRows
<1>4. NotificationPending'
  <2> SUFFICES ASSUME ~abandoned', NEW k \in Key
               PROVE  /\ db'.outbox[k].state # "FAILED"
                      /\ db'.outbox[k].state = "PENDING" => Going("NOTIFY", 3, 6, k)'
    BY DEF NotificationPending
  <2>1. /\ db'.outbox[k].state # "FAILED"
        /\ db'.outbox[k].state = "PENDING" => Going("NOTIFY", 3, 6, k)
    BY DEF NotificationInv, NotificationPending, Elsewhere, NotificationRows
  <2> QED
    BY <2>1, GoingElsewhere
<1> QED
  BY <1>1, <1>2, <1>3, <1>4 DEF NotificationInv

\* The outbox rows and the notifications are not taken back.
NotificationGrows ==
  \A k \in Key : /\ db.outbox[k].state # NoRow => db'.outbox[k].state # NoRow
                 /\ db.notification[k] # NoRow => db'.notification[k] # NoRow

LEMMA NotificationGrown ==
  ASSUME TypeOK, NotificationInv, NotificationGrows, NEW r \in Request, Moves(r),
         accepted \subseteq accepted'
  PROVE  /\ \A q \in Request : q # r => NotificationFacts(q)'
         /\ \A a \in accepted :
              a.body[1] = "NOTIFICATION" => a.key[2] \in Key /\ db'.outbox[a.key[2]].state # NoRow
<1>1. ASSUME NEW q \in Request, q # r PROVE NotificationFacts(q)'
  <2>1. at'[q] = at[q] /\ call'[q] = call[q] /\ note'[q] = note[q] /\ Located(q) /\ note[q] \in Notes
    BY <1>1 DEF Moves, TypeOK
  <2> QED
    <3>1. CASE at[q] = 0
      BY <2>1, <3>1 DEF NotificationFacts
    <3>2. CASE at[q] # 0
      BY <2>1, <3>2, AcceptedStays
      DEF NotificationInv, NotificationFacts, NotificationGrows, Op, Located, Asked, Ops
    <3> QED
      BY <3>1, <3>2
<1> QED
  BY <1>1 DEF NotificationInv, NotificationRecorded, NotificationGrows

\* A pending row stays in the hands of its notification.
LEMMA NotificationPends ==
  ASSUME TypeOK, NotificationInv, NEW r \in Request, Moves(r), abandoned' = abandoned,
         \A k \in Key :
           /\ db'.outbox[k].state = "FAILED" => db.outbox[k].state = "FAILED"
           /\ db'.outbox[k].state = "PENDING" =>
                \/ Op(r) = "NOTIFY" /\ call[r].key = k /\ at'[r] \in 3 .. 6
                \/ /\ db.outbox[k].state = "PENDING"
                   /\ Op(r) = "NOTIFY" /\ call[r].key = k /\ at[r] \in 3 .. 6 => at'[r] \in 3 .. 6
  PROVE  NotificationPending'
<1> SUFFICES ASSUME ~abandoned', NEW k \in Key
             PROVE  /\ db'.outbox[k].state # "FAILED"
                    /\ db'.outbox[k].state = "PENDING" => Going("NOTIFY", 3, 6, k)'
  BY DEF NotificationPending
<1>1. db'.outbox[k].state # "FAILED"
  BY DEF NotificationInv, NotificationPending
<1>2. ASSUME db'.outbox[k].state = "PENDING" PROVE Going("NOTIFY", 3, 6, k)'
  <2>1. CASE Op(r) = "NOTIFY" /\ call[r].key = k /\ at'[r] \in 3 .. 6
    BY <2>1, GoingNow
  <2>2. CASE ~(Op(r) = "NOTIFY" /\ call[r].key = k /\ at'[r] \in 3 .. 6)
    <3>1. Going("NOTIFY", 3, 6, k)
      BY <1>2, <2>2 DEF NotificationInv, NotificationPending
    <3>2. Op(r) = "NOTIFY" /\ call[r].key = k /\ at[r] \in 3 .. 6 => at'[r] \in 3 .. 6
      BY <1>2, <2>2
    <3> QED
      BY <3>1, <3>2, GoingStays
  <2> QED
    BY <2>1, <2>2
<1> QED
  BY <1>1, <1>2

\* A step that writes no outbox row, and takes no notification back.
LEMMA NotificationQuiet ==
  ASSUME TypeOK, NotificationInv, NEW r \in Request, Moves(r), UNCHANGED <<db.outbox, accepted,
         abandoned>>,
         \A k \in Key : db.notification[k] # NoRow => db'.notification[k] # NoRow,
         NotificationFacts(r)', Op(r) = "NOTIFY" /\ at[r] \in 3 .. 6 => at'[r] \in 3 .. 6
  PROVE  NotificationInv'
<1>1. NotificationGrows
  BY DEF NotificationGrows
<1>2. NotificationAccepted'
  BY AcceptedStays DEF NotificationInv, NotificationAccepted
<1>3. NotificationPending'
  BY NotificationPends
<1> QED
  BY <1>1, <1>2, <1>3, NotificationGrown DEF NotificationInv, NotificationRecorded

LEMMA NotificationStep ==
  ASSUME TypeOK, NotificationInv, NEW r \in Request, Notification(r) PROVE NotificationInv'
<1>0. /\ Moves(r) /\ Op(r) \in { "NOTIFY", "RETRY", "PREFER", "READ" } /\ accepted' = accepted
      /\ call' = call
      /\ db \in Database /\ db.outbox \in [Key -> OutboxRow] /\ Located(r) /\ at[r] # 0
      /\ note[r] \in Notes /\ at \in [Request -> Nat]
      /\ Op(r) # "PREFER" => call[r].key \in Key
      /\ Op(r) = "NOTIFY" => Onward(r) = IF at[r] = 7 THEN 0 ELSE at[r] + 1
      /\ Op(r) = "RETRY" => Onward(r) = IF at[r] = 5 THEN 0 ELSE at[r] + 1
      /\ NotificationFacts(r)
  <2>1. Step(r, { "NOTIFY", "RETRY", "PREFER", "READ" })
    BY NotificationTouches
  <2>2. Asked(call[r]) /\ Located(r) /\ db \in Database /\ note[r] \in Notes /\ at \in [Request -> Nat]
    BY <2>1 DEF Step, TypeOK, Moves, Located
  <2> QED
    BY <2>1, <2>2, Onwards DEF Step, Moves, Asked, Ops, Op, NotificationInv, Database
<1>1. CASE FindOutbox(r)
  <2>0. Op(r) = "NOTIFY" /\ at[r] = 1 /\ UNCHANGED <<db, abandoned>>
    BY <1>1, <1>0, Names DEF FindOutbox, Same
  <2>1. db.outbox[call[r].key].state \in { NoRow, "PENDING", "FAILED" } \cup Settled
    BY <2>0, <1>0 DEF OutboxRow
  <2>2. \/ Stop(r) \/ Advance(r)
        \/ SkipOne(r) /\ db.outbox[call[r].key].state # NoRow
    BY <2>1, <1>1 DEF FindOutbox
  <2>3. at'[r] \in { 0, 2 } \/ (at'[r] = 3 /\ db.outbox[call[r].key].state # NoRow)
    <3>1. CASE SkipOne(r) /\ db.outbox[call[r].key].state # NoRow
      BY <2>0, <3>1, SkipMoves
    <3>2. CASE Stop(r) \/ Advance(r)
      BY <2>0, <3>2, <1>0, StopMoves, AdvanceMoves
    <3> QED
      BY <2>2, <3>1, <3>2
  <2>4. NotificationFacts(r)'
    BY <2>0, <2>3, <1>0 DEF NotificationFacts, Op
  <2> QED
    BY <2>0, <2>4, <1>0, NotificationQuiet
<1>2. CASE InsertOutbox(r)
  <2>0. db' = [db EXCEPT !.outbox[call[r].key].state = "PENDING"] /\ On(r, "insert")
    BY <1>2 DEF InsertOutbox, Write
  <2>1. Op(r) = "NOTIFY" /\ abandoned' = abandoned /\ at[r] = 2 /\ at'[r] = 3
    BY <1>2, <2>0, <1>0, Names, WriteMoves DEF InsertOutbox
  <2>2. /\ db'.notification = db.notification
        /\ \A k \in Key : db'.outbox[k].state = IF k = call[r].key THEN "PENDING" ELSE db.outbox[k].state
    <3>1. \A k \in Key : db.outbox[k] \in OutboxRow
      BY <1>0
    <3> QED
      BY <2>0, <2>1, <3>1, <1>0 DEF Database, OutboxRow
  <2>3. NotificationGrows
    BY <2>2 DEF NotificationGrows
  <2>4. NotificationFacts(r)'
    BY <2>1, <2>2, <1>0 DEF NotificationFacts, Op
  <2>5. NotificationAccepted'
    BY <2>2, <1>0, AcceptedStays DEF NotificationInv, NotificationAccepted
  <2>6. NotificationPending'
    BY <2>1, <2>2, <1>0, NotificationPends
  <2> QED
    BY <2>3, <2>4, <2>5, <2>6, <1>0, NotificationGrown DEF NotificationInv, NotificationRecorded
<1>3. CASE FindFailed(r)
  <2>0. /\ Op(r) = "RETRY" /\ at[r] = 1 /\ UNCHANGED <<db, abandoned>>
        /\ IF db.outbox[call[r].key].state = "FAILED" THEN Advance(r) ELSE Stop(r)
    BY <1>3, <1>0, Names DEF FindFailed, Same
  <2>1. at'[r] = 0 \/ (at'[r] = 2 /\ db.outbox[call[r].key].state = "FAILED")
    BY <2>0, <1>0, StopMoves, AdvanceMoves
  <2>2. NotificationFacts(r)'
    BY <2>0, <2>1, <1>0 DEF NotificationFacts, Op
  <2> QED
    BY <2>0, <2>2, <1>0, NotificationQuiet
<1>4. CASE ReadPreference(r) \/ Reply(r)
  <2>0. UNCHANGED <<db, abandoned>> /\ Advance(r)
    BY <1>4 DEF ReadPreference, Reply, Read, Same
  <2>1. /\ at'[r] = Onward(r)
        /\ \/ Op(r) = "RETRY" /\ at[r] = 2
           \/ Op(r) = "NOTIFY" /\ at[r] = 3
           \/ Op(r) = "NOTIFY" /\ at[r] = 7
    BY <2>0, <1>4, <1>0, Names, AdvanceMoves DEF ReadPreference, Reply, Read
  <2>2. /\ Op(r) = "RETRY" => at[r] = 2 /\ at'[r] = 3
        /\ Op(r) = "NOTIFY" => (at[r] = 3 /\ at'[r] = 4) \/ (at[r] = 7 /\ at'[r] = 0)
    BY <2>1, <1>0
  <2>3. NotificationFacts(r)'
    BY <2>0, <2>2, <1>0 DEF NotificationFacts, Op
  <2> QED
    BY <2>0, <2>2, <2>3, <1>0, NotificationQuiet
<1>5. CASE KeepUnsent(r)
  <2>0. /\ db' = [db EXCEPT !.outbox[call[r].key].state =
                     IF note[r].status = "muted" THEN "SUPPRESSED" ELSE "DIGEST_QUEUED"]
        /\ On(r, "publish") /\ Stop(r) /\ Op(r) \in { "NOTIFY", "RETRY" } /\ abandoned' = abandoned
    BY <1>5 DEF KeepUnsent, Sends, Same
  <2>1. at'[r] = 0
    BY <2>0, StopMoves
  <2>2. /\ db'.notification = db.notification
        /\ \A k \in Key : k # call[r].key => db'.outbox[k].state = db.outbox[k].state
        /\ db'.outbox[call[r].key].state \in { "SUPPRESSED", "DIGEST_QUEUED" }
    <3>1. \A k \in Key : db.outbox[k] \in OutboxRow
      BY <1>0
    <3> QED
      BY <2>0, <3>1, <1>0 DEF Database, OutboxRow
  <2>3. NotificationGrows
    BY <2>2 DEF NotificationGrows
  <2>4. NotificationFacts(r)'
    BY <2>1 DEF NotificationFacts
  <2>5. NotificationAccepted'
    BY <2>2, <1>0, AcceptedStays DEF NotificationInv, NotificationAccepted
  <2>6. NotificationPending'
    BY <2>0, <2>2, <1>0, NotificationPends
  <2> QED
    BY <2>3, <2>4, <2>5, <2>6, <1>0, NotificationGrown DEF NotificationInv, NotificationRecorded
<1>6. CASE SaveNotification(r)
  <2>0. /\ db' = [db EXCEPT !.notification[call[r].key] = "UNREAD"] /\ On(r, "notification")
    BY <1>6 DEF SaveNotification, Write
  <2>1. /\ abandoned' = abandoned
        /\ \/ Op(r) = "RETRY" /\ at[r] = 4 /\ at'[r] = 5
           \/ Op(r) = "NOTIFY" /\ at[r] = 5 /\ at'[r] = 6
    BY <1>6, <2>0, <1>0, Names, WriteMoves DEF SaveNotification
  <2>2. /\ db'.outbox = db.outbox
        /\ \A k \in Key : db'.notification[k] = IF k = call[r].key THEN "UNREAD" ELSE db.notification[k]
    BY <2>0, <1>0 DEF Database
  <2>3. NotificationFacts(r)'
    BY <2>1, <2>2, <1>0, AcceptedStays DEF NotificationFacts, Op
  <2> QED
    BY <2>1, <2>2, <2>3, <1>0, NotificationQuiet
<1>7. CASE CompleteOutbox(r)
  <2>0. /\ db' = [db EXCEPT !.outbox[call[r].key] = [state |-> "DELIVERED", attempts |-> note[r].count + 1]]
        /\ On(r, "finish") /\ Op(r) \in { "NOTIFY", "RETRY" }
    BY <1>7 DEF CompleteOutbox, Write
  <2>1. /\ abandoned' = abandoned
        /\ \/ Op(r) = "RETRY" /\ at[r] = 5 /\ at'[r] = 0
           \/ Op(r) = "NOTIFY" /\ at[r] = 6 /\ at'[r] = 7
    BY <1>7, <2>0, <1>0, Names, WriteMoves DEF CompleteOutbox
  <2>2. /\ db'.notification = db.notification
        /\ \A k \in Key : db'.outbox[k].state = IF k = call[r].key THEN "DELIVERED" ELSE db.outbox[k].state
    BY <2>0, <1>0 DEF Database
  <2>3. NotificationGrows
    BY <2>2 DEF NotificationGrows
  <2>a. Accepted(<<"NOTIFICATION", call[r].key>>) /\ db.notification[call[r].key] # NoRow
    BY <2>1, <1>0 DEF NotificationFacts
  <2>4. NotificationFacts(r)'
    BY <2>1, <2>2, <2>a, <1>0, AcceptedStays DEF NotificationFacts, Op
  <2>5. NotificationAccepted'
    BY <2>2, <2>a, <1>0, AcceptedStays DEF NotificationInv, NotificationAccepted
  <2>6. NotificationPending'
    BY <2>1, <2>2, <1>0, NotificationPends
  <2> QED
    BY <2>3, <2>4, <2>5, <2>6, <1>0, NotificationGrown DEF NotificationInv, NotificationRecorded
<1>8. CASE RecordFailure(r)
  <2>0. /\ db' = [db EXCEPT !.outbox[call[r].key] = [state |-> "FAILED", attempts |-> note[r].count + 1]]
        /\ Stop(r) /\ Op(r) = "NOTIFY" /\ abandoned' = TRUE
    BY <1>8 DEF RecordFailure
  <2>1. at'[r] = 0
    BY <2>0, StopMoves
  <2>2. /\ db'.notification = db.notification
        /\ \A k \in Key : db'.outbox[k].state = IF k = call[r].key THEN "FAILED" ELSE db.outbox[k].state
    BY <2>0, <1>0 DEF Database
  <2>3. NotificationGrows
    BY <2>2 DEF NotificationGrows
  <2>4. NotificationFacts(r)'
    BY <2>1 DEF NotificationFacts
  <2>5. NotificationAccepted'
    BY <2>2, <1>0, AcceptedStays DEF NotificationInv, NotificationAccepted
  <2>6. NotificationPending'
    BY <2>0 DEF NotificationPending
  <2> QED
    BY <2>3, <2>4, <2>5, <2>6, <1>0, NotificationGrown DEF NotificationInv, NotificationRecorded
<1>9. CASE SetPreference(r)
  <2>0. Op(r) \in { "PREFER", "READ" } /\ abandoned' = abandoned
    BY <1>9, <1>0, Names DEF SetPreference, Write, Same
  <2>1. \/ db' = [db EXCEPT !.mode = call[r].mode]
        \/ db' = db
        \/ Op(r) = "READ" /\ db' = [db EXCEPT !.notification[call[r].key] = "READ"]
    BY <2>0, <1>9 DEF SetPreference, Write
  <2>2. /\ db'.outbox = db.outbox
        /\ \A k \in Key : db.notification[k] # NoRow => db'.notification[k] # NoRow
    <3>1. CASE Op(r) = "READ" /\ db' = [db EXCEPT !.notification[call[r].key] = "READ"]
      <4>1. /\ db'.outbox = db.outbox
            /\ \A k \in Key : db'.notification[k] = IF k = call[r].key THEN "READ" ELSE db.notification[k]
        BY <3>1, <1>0 DEF Database
      <4> QED
        BY <4>1
    <3>2. CASE db' = [db EXCEPT !.mode = call[r].mode] \/ db' = db
      BY <3>2, <1>0 DEF Database
    <3> QED
      BY <2>1, <3>1, <3>2
  <2>3. NotificationFacts(r)'
    BY <2>0, <1>0 DEF NotificationFacts, Op
  <2> QED
    BY <2>0, <2>2, <2>3, <1>0, NotificationQuiet
<1> QED
  BY <1>1, <1>2, <1>3, <1>4, <1>5, <1>6, <1>7, <1>8, <1>9 DEF Notification

LEMMA NotificationPublish ==
  ASSUME TypeOK, NotificationInv, NEW r \in Request, Publish(r), Op(r) \in { "NOTIFY", "RETRY" }
  PROVE  NotificationInv'
<1>0. /\ Moves(r) /\ call' = call /\ db' = db /\ abandoned' = abandoned
      /\ accepted' = accepted \cup { Due(r) } /\ NotificationFacts(r) /\ call[r].key \in Key
      /\ \/ Op(r) = "NOTIFY" /\ at[r] = 4 /\ at'[r] = 5
         \/ Op(r) = "RETRY" /\ at[r] = 3 /\ at'[r] = 4
  <2>1. \/ Op(r) = "NOTIFY" /\ at[r] = 4
        \/ Op(r) = "RETRY" /\ at[r] = 3
    BY Tagged
  <2>2. call[r].key \in Key
    BY Published DEF Asked, Ops, Op
  <2> QED
    BY <2>1, <2>2, Published, Onwards DEF NotificationInv
<1>1. Due(r) = [key |-> <<"NOTIFICATION", call[r].key>>, body |-> <<"NOTIFICATION", call[r].key>>]
  BY Events
<1>2. db.outbox[call[r].key].state # NoRow
  BY <1>0 DEF NotificationFacts
<1>3. NotificationGrows
  BY <1>0 DEF NotificationGrows
<1>4. /\ \A q \in Request : q # r => NotificationFacts(q)'
      /\ \A a \in accepted :
           a.body[1] = "NOTIFICATION" => a.key[2] \in Key /\ db'.outbox[a.key[2]].state # NoRow
  BY <1>0, <1>3, NotificationGrown
<1>5. Accepted(<<"NOTIFICATION", call[r].key>>)'
  BY <1>0, <1>1 DEF Accepted
<1>6. NotificationFacts(r)'
  BY <1>0, <1>2, <1>5 DEF NotificationFacts, Op
<1>7. NotificationRecorded'
  BY <1>0, <1>1, <1>2, <1>4 DEF NotificationRecorded
<1>8. NotificationAccepted'
  BY <1>0, AcceptedStays DEF NotificationInv, NotificationAccepted
<1>9. NotificationPending'
  BY <1>0, NotificationPends
<1> QED
  BY <1>4, <1>6, <1>7, <1>8, <1>9 DEF NotificationInv

LEMMA NotificationBegin ==
  ASSUME TypeOK, NotificationInv, NEW r \in Request, Begin(r) PROVE NotificationInv'
<1>0. /\ at'[r] = 1 /\ note'[r] = NoNote /\ db' = db /\ accepted' = accepted /\ abandoned' = abandoned
      /\ \A q \in Request : q # r => at'[q] = at[q] /\ call'[q] = call[q] /\ note'[q] = note[q]
  BY Begun
<1>1. ASSUME NEW q \in Request PROVE NotificationFacts(q)'
  <2>1. CASE q = r
    BY <2>1, <1>0 DEF NotificationFacts, NoNote, Op
  <2>2. CASE q # r
    BY <2>2, <1>0, AcceptedStays DEF NotificationInv, NotificationFacts, Op, TypeOK
  <2> QED
    BY <2>1, <2>2
<1>2. NotificationPending'
  <2> SUFFICES ASSUME ~abandoned', NEW k \in Key
               PROVE  /\ db'.outbox[k].state # "FAILED"
                      /\ db'.outbox[k].state = "PENDING" => Going("NOTIFY", 3, 6, k)'
    BY DEF NotificationPending
  <2>1. /\ db'.outbox[k].state # "FAILED"
        /\ db'.outbox[k].state = "PENDING" => Going("NOTIFY", 3, 6, k)
    BY <1>0 DEF NotificationInv, NotificationPending
  <2> QED
    BY <2>1, GoingBegun
<1> QED
  BY <1>0, <1>1, <1>2, AcceptedStays DEF NotificationInv, NotificationRecorded, NotificationAccepted

LEMMA NotificationNext == TypeOK /\ NotificationInv /\ [Next]_vars => NotificationInv'
<1> SUFFICES ASSUME TypeOK, NotificationInv, [Next]_vars PROVE NotificationInv'
  OBVIOUS
<1> DEFINE apart == Elsewhere({ "NOTIFY", "RETRY" }, { "NOTIFICATION" }) /\ UNCHANGED NotificationRows
<1>1. apart => NotificationInv'
  BY NotificationFrame
<1>2. CASE UNCHANGED vars
  BY <1>1, <1>2, StillElsewhere DEF vars, NotificationRows
<1>3. CASE Relate
  BY <1>1, <1>3, Related, StillElsewhere
<1>4. ASSUME NEW r \in Request, Abandon(r) PROVE apart
  BY <1>4, Abandoned, AbandonElsewhere DEF NotificationRows
<1>5. ASSUME NEW r \in Request, Publish(r), Op(r) \notin { "NOTIFY", "RETRY" } PROVE apart
  BY <1>5, Published, Tagged, PublishElsewhere DEF DueTag, NotificationRows
<1>6. ASSUME NEW r \in Request,
             \/ Academic(r) \/ Application(r) \/ Opportunity(r) \/ Support(r) \/ Messaging(r)
             \/ Onboarding(r)
      PROVE  apart
  <2>1. /\ Step(r, Ops \ { "NOTIFY", "RETRY" }) /\ UNCHANGED NotificationRows
    BY <1>6, AcademicTouches, ApplicationTouches, OpportunityTouches, SupportTouches,
       MessagingTouches, OnboardingTouches
    DEF Step, Ops
  <2> QED
    BY <2>1, StepElsewhere DEF Step
<1> QED
  BY <1>1, <1>2, <1>3, <1>4, <1>5, <1>6, NotificationStep, NotificationPublish, NotificationBegin
  DEF Next

-----------------------------------------------------------------------------
(* Scholar onboarding *)

\* A scholar's onboarding has captured the goals and is not over.
Welcoming == \E q \in Request : at[q] \in 2 .. 7 /\ Op(q) = "ONBOARD"

LEMMA WelcomingStays ==
  ASSUME TypeOK, NEW r \in Request, Moves(r), Welcoming,
         Op(r) = "ONBOARD" /\ at[r] \in 2 .. 7 => at'[r] \in 2 .. 7
  PROVE  Welcoming'
<1>1. PICK q \in Request : at[q] \in 2 .. 7 /\ Op(q) = "ONBOARD"
  BY DEF Welcoming
<1>2. at'[q] \in 2 .. 7
  BY <1>1 DEF Moves
<1> QED
  BY <1>1, <1>2 DEF Welcoming, Moves, Op

LEMMA WelcomingElsewhere ==
  ASSUME Welcoming, ~abandoned', NEW tags, Elsewhere({ "ONBOARD" }, tags) PROVE Welcoming'
<1>1. PICK q \in Request : at[q] \in 2 .. 7 /\ Op(q) = "ONBOARD"
  BY DEF Welcoming
<1>2. at[q] # 0
  BY <1>1
<1>3. at'[q] = at[q] /\ call'[q] = call[q]
  BY <1>1, <1>2 DEF Elsewhere, Op
<1> QED
  BY <1>1, <1>3 DEF Welcoming, Op

LEMMA WelcomingBegun ==
  ASSUME TypeOK, NEW s \in Request, Begin(s), Welcoming PROVE Welcoming'
<1>1. PICK q \in Request : at[q] \in 2 .. 7 /\ Op(q) = "ONBOARD"
  BY DEF Welcoming
<1>2. q # s
  BY <1>1, Begun
<1>3. at'[q] = at[q] /\ call'[q] = call[q]
  BY <1>2, Begun
<1> QED
  BY <1>1, <1>3 DEF Welcoming, Op

\* An onboarding has its goal and milestone before its events, and its dashboard after.
OnboardingFacts(r) ==
  Op(r) = "ONBOARD" =>
    /\ at[r] >= 3 => db.goal # NoRow
    /\ at[r] >= 4 => db.milestone
    /\ at[r] >= 5 => Accepted(<<"publish">>)
    /\ at[r] >= 6 => Accepted(<<"project">>)
    /\ at[r] >= 7 => db.dashboard

OnboardingRecorded ==
  \A a \in accepted : a.body[1] \in { "publish", "project" } => db.goal # NoRow /\ db.milestone

OnboardingAccepted ==
  db.profile = "DASHBOARD_READY" =>
    db.milestone /\ db.dashboard /\ Accepted(<<"publish">>) /\ Accepted(<<"project">>)

OnboardingPending == ~abandoned /\ db.profile = "GOALS_CAPTURED" => Welcoming

OnboardingInv ==
  /\ \A r \in Request : OnboardingFacts(r)
  /\ OnboardingRecorded /\ OnboardingAccepted /\ OnboardingPending

LEMMA OnboardingFrame ==
  ASSUME TypeOK, OnboardingInv, Elsewhere({ "ONBOARD" }, { "publish", "project" }),
         UNCHANGED OnboardingRows
  PROVE  OnboardingInv'
<1>1. ASSUME NEW q \in Request PROVE OnboardingFacts(q)'
  <2>1. CASE at'[q] = 0
    BY <2>1 DEF OnboardingFacts
  <2>2. CASE at'[q] # 0
    BY <2>2, AcceptedStays DEF OnboardingInv, OnboardingFacts, Elsewhere, OnboardingRows, Op
  <2> QED
    BY <2>1, <2>2
<1>2. OnboardingRecorded'
  BY DEF OnboardingInv, OnboardingRecorded, Elsewhere, OnboardingRows
<1>3. OnboardingAccepted'
  BY AcceptedStays DEF OnboardingInv, OnboardingAccepted, Elsewhere, OnboardingRows
<1>4. OnboardingPending'
  BY WelcomingElsewhere DEF OnboardingInv, OnboardingPending, Elsewhere, OnboardingRows
<1> QED
  BY <1>1, <1>2, <1>3, <1>4 DEF OnboardingInv

\* The goal, the milestone and the dashboard are not taken back.
OnboardingGrows ==
  /\ db.goal # NoRow => db'.goal # NoRow
  /\ db.milestone => db'.milestone
  /\ db.dashboard => db'.dashboard

LEMMA OnboardingGrown ==
  ASSUME TypeOK, OnboardingInv, OnboardingGrows, NEW r \in Request, Moves(r),
         accepted \subseteq accepted'
  PROVE  /\ \A q \in Request : q # r => OnboardingFacts(q)'
         /\ \A a \in accepted :
              a.body[1] \in { "publish", "project" } => db'.goal # NoRow /\ db'.milestone
<1>1. ASSUME NEW q \in Request, q # r PROVE OnboardingFacts(q)'
  <2>1. at'[q] = at[q] /\ call'[q] = call[q] /\ note'[q] = note[q] /\ Located(q) /\ note[q] \in Notes
    BY <1>1 DEF Moves, TypeOK
  <2> QED
    BY <2>1, AcceptedStays DEF OnboardingInv, OnboardingFacts, OnboardingGrows, Op
<1> QED
  BY <1>1 DEF OnboardingInv, OnboardingRecorded, OnboardingGrows

LEMMA OnboardingStep ==
  ASSUME TypeOK, OnboardingInv, NEW r \in Request, Onboarding(r) PROVE OnboardingInv'
<1>0. /\ Moves(r) /\ Op(r) = "ONBOARD" /\ accepted' = accepted /\ call' = call
      /\ db \in Database /\ Located(r) /\ at[r] # 0 /\ at \in [Request -> Nat]
      /\ call[r].value \in Value
      /\ Onward(r) = IF at[r] = 7 THEN 0 ELSE at[r] + 1
      /\ OnboardingFacts(r)
  BY OnboardingTouches, Onwards DEF Step, TypeOK, Moves, Located, Asked, Ops, Op, OnboardingInv
<1>1. CASE SaveProfile(r)
  <2>0. db' = [db EXCEPT !.profile = "GOALS_CAPTURED"] /\ On(r, "profile")
    BY <1>1 DEF SaveProfile, Write
  <2>1. /\ abandoned' = abandoned /\ at[r] = 1 /\ at'[r] = 2
        /\ db'.profile = "GOALS_CAPTURED" /\ UNCHANGED <<db.goal, db.milestone, db.dashboard>>
    BY <1>1, <2>0, <1>0, Names, WriteMoves DEF SaveProfile, Database
  <2>2. OnboardingGrows
    BY <2>1, <1>0, JourneysAssumption DEF OnboardingGrows
  <2>3. OnboardingFacts(r)'
    BY <2>1, <1>0, AcceptedStays, JourneysAssumption DEF OnboardingFacts
  <2>4. OnboardingAccepted'
    BY <2>1, <1>0, AcceptedStays DEF OnboardingInv, OnboardingAccepted
  <2>5. OnboardingPending'
    <3>1. at'[r] \in 2 .. 7
      BY <2>1
    <3> QED
      BY <3>1, <1>0 DEF OnboardingPending, Welcoming, Moves, Op
  <2> QED
    BY <2>2, <2>3, <2>4, <2>5, <1>0, OnboardingGrown DEF OnboardingInv, OnboardingRecorded
<1>2. CASE SaveGoal(r)
  <2>0. db' = [db EXCEPT !.goal = call[r].value] /\ On(r, "goal")
    BY <1>2 DEF SaveGoal, Write
  <2>1. /\ abandoned' = abandoned /\ at[r] = 2 /\ at'[r] = 3
        /\ db'.goal = call[r].value /\ UNCHANGED <<db.profile, db.milestone, db.dashboard>>
    BY <1>2, <2>0, <1>0, Names, WriteMoves DEF SaveGoal, Database
  <2>2. OnboardingGrows
    BY <2>1, <1>0, JourneysAssumption DEF OnboardingGrows
  <2>3. OnboardingFacts(r)'
    BY <2>1, <1>0, AcceptedStays, JourneysAssumption DEF OnboardingFacts
  <2>4. OnboardingAccepted'
    BY <2>1, <1>0, AcceptedStays DEF OnboardingInv, OnboardingAccepted
  <2>5. OnboardingPending'
    <3>1. at'[r] \in 2 .. 7
      BY <2>1
    <3> QED
      BY <3>1, <1>0 DEF OnboardingPending, Welcoming, Moves, Op
  <2> QED
    BY <2>2, <2>3, <2>4, <2>5, <1>0, OnboardingGrown DEF OnboardingInv, OnboardingRecorded
<1>3. CASE SaveMilestone(r)
  <2>0. db' = [db EXCEPT !.milestone = TRUE] /\ On(r, "milestone")
    BY <1>3 DEF SaveMilestone, Write
  <2>1. /\ abandoned' = abandoned /\ at[r] = 3 /\ at'[r] = 4
        /\ db'.milestone = TRUE /\ UNCHANGED <<db.profile, db.goal, db.dashboard>>
    BY <1>3, <2>0, <1>0, Names, WriteMoves DEF SaveMilestone, Database
  <2>2. OnboardingGrows
    BY <2>1, <1>0, JourneysAssumption DEF OnboardingGrows
  <2>3. OnboardingFacts(r)'
    BY <2>1, <1>0, AcceptedStays, JourneysAssumption DEF OnboardingFacts
  <2>4. OnboardingAccepted'
    BY <2>1, <1>0, AcceptedStays DEF OnboardingInv, OnboardingAccepted
  <2>5. OnboardingPending'
    <3>1. at'[r] \in 2 .. 7
      BY <2>1
    <3> QED
      BY <3>1, <1>0 DEF OnboardingPending, Welcoming, Moves, Op
  <2> QED
    BY <2>2, <2>3, <2>4, <2>5, <1>0, OnboardingGrown DEF OnboardingInv, OnboardingRecorded
<1>4. CASE SaveDashboard(r)
  <2>0. db' = [db EXCEPT !.dashboard = TRUE] /\ On(r, "dashboard")
    BY <1>4 DEF SaveDashboard, Write
  <2>1. /\ abandoned' = abandoned /\ at[r] = 6 /\ at'[r] = 7
        /\ db'.dashboard = TRUE /\ UNCHANGED <<db.profile, db.goal, db.milestone>>
    BY <1>4, <2>0, <1>0, Names, WriteMoves DEF SaveDashboard, Database
  <2>2. OnboardingGrows
    BY <2>1, <1>0, JourneysAssumption DEF OnboardingGrows
  <2>3. OnboardingFacts(r)'
    BY <2>1, <1>0, AcceptedStays, JourneysAssumption DEF OnboardingFacts
  <2>4. OnboardingAccepted'
    BY <2>1, <1>0, AcceptedStays DEF OnboardingInv, OnboardingAccepted
  <2>5. OnboardingPending'
    <3>1. at'[r] \in 2 .. 7
      BY <2>1
    <3> QED
      BY <3>1, <1>0 DEF OnboardingPending, Welcoming, Moves, Op
  <2> QED
    BY <2>2, <2>3, <2>4, <2>5, <1>0, OnboardingGrown DEF OnboardingInv, OnboardingRecorded
<1>5. CASE DashboardReady(r)
  <2>0. db' = [db EXCEPT !.profile = "DASHBOARD_READY"] /\ On(r, "finish")
    BY <1>5 DEF DashboardReady, Write
  <2>1. /\ abandoned' = abandoned /\ at[r] = 7 /\ at'[r] = 0
        /\ db'.profile = "DASHBOARD_READY" /\ UNCHANGED <<db.goal, db.milestone, db.dashboard>>
    BY <1>5, <2>0, <1>0, Names, WriteMoves DEF DashboardReady, Database
  <2>2. OnboardingGrows
    BY <2>1, <1>0, JourneysAssumption DEF OnboardingGrows
  <2>3. OnboardingFacts(r)'
    BY <2>1, <1>0, AcceptedStays, JourneysAssumption DEF OnboardingFacts
  <2>4. OnboardingAccepted'
    <3>1. db.milestone /\ db.dashboard /\ Accepted(<<"publish">>) /\ Accepted(<<"project">>)
      BY <2>1, <1>0 DEF OnboardingFacts
    <3> QED
      BY <2>1, <3>1, <1>0, AcceptedStays DEF OnboardingAccepted
  <2>5. OnboardingPending'
    BY <2>1 DEF OnboardingPending
  <2> QED
    BY <2>2, <2>3, <2>4, <2>5, <1>0, OnboardingGrown DEF OnboardingInv, OnboardingRecorded
<1> QED
  BY <1>1, <1>2, <1>3, <1>4, <1>5 DEF Onboarding

LEMMA OnboardingPublish ==
  ASSUME TypeOK, OnboardingInv, NEW r \in Request, Publish(r), Op(r) = "ONBOARD" PROVE OnboardingInv'
<1>0. /\ Moves(r) /\ call' = call /\ db' = db /\ abandoned' = abandoned
      /\ accepted' = accepted \cup { Due(r) } /\ OnboardingFacts(r)
      /\ \/ at[r] = 4 /\ at'[r] = 5 /\ On(r, "publish")
         \/ at[r] = 5 /\ at'[r] = 6 /\ On(r, "project")
  <2>1. \/ at[r] = 4 /\ On(r, "publish")
        \/ at[r] = 5 /\ On(r, "project")
    BY Tagged
  <2> QED
    BY <2>1, Published, Onwards DEF OnboardingInv
<1>1. /\ at[r] = 4 => Due(r).key = <<"publish">>
      /\ at[r] = 5 => Due(r).key = <<"project">>
  BY <1>0, Events DEF On, Op
<1>2. db.goal # NoRow /\ db.milestone
  BY <1>0 DEF OnboardingFacts
<1>3. OnboardingGrows
  BY <1>0 DEF OnboardingGrows
<1>4. /\ \A q \in Request : q # r => OnboardingFacts(q)'
      /\ \A a \in accepted :
           a.body[1] \in { "publish", "project" } => db'.goal # NoRow /\ db'.milestone
  BY <1>0, <1>3, OnboardingGrown
<1>5. /\ at[r] = 4 => Accepted(<<"publish">>)'
      /\ at[r] = 5 => Accepted(<<"publish">>)' /\ Accepted(<<"project">>)'
  <2>1. at[r] = 5 => Accepted(<<"publish">>)
    BY <1>0 DEF OnboardingFacts
  <2> QED
    BY <2>1, <1>0, <1>1, AcceptedStays DEF Accepted
<1>6. OnboardingFacts(r)'
  BY <1>0, <1>2, <1>5 DEF OnboardingFacts, Op
<1>7. OnboardingRecorded'
  BY <1>0, <1>2, <1>4 DEF OnboardingRecorded
<1>8. OnboardingAccepted'
  BY <1>0, AcceptedStays DEF OnboardingInv, OnboardingAccepted
<1>9. OnboardingPending'
  BY <1>0, WelcomingStays DEF OnboardingInv, OnboardingPending
<1> QED
  BY <1>4, <1>6, <1>7, <1>8, <1>9 DEF OnboardingInv

LEMMA OnboardingBegin ==
  ASSUME TypeOK, OnboardingInv, NEW r \in Request, Begin(r) PROVE OnboardingInv'
<1>0. /\ at'[r] = 1 /\ note'[r] = NoNote /\ db' = db /\ accepted' = accepted /\ abandoned' = abandoned
      /\ \A q \in Request : q # r => at'[q] = at[q] /\ call'[q] = call[q] /\ note'[q] = note[q]
  BY Begun
<1>1. ASSUME NEW q \in Request PROVE OnboardingFacts(q)'
  <2>1. CASE q = r
    BY <2>1, <1>0 DEF OnboardingFacts, NoNote, Op
  <2>2. CASE q # r
    BY <2>2, <1>0, AcceptedStays DEF OnboardingInv, OnboardingFacts, Op, TypeOK
  <2> QED
    BY <2>1, <2>2
<1>2. OnboardingPending'
  BY <1>0, WelcomingBegun DEF OnboardingInv, OnboardingPending
<1> QED
  BY <1>0, <1>1, <1>2, AcceptedStays DEF OnboardingInv, OnboardingRecorded, OnboardingAccepted

LEMMA OnboardingNext == TypeOK /\ OnboardingInv /\ [Next]_vars => OnboardingInv'
<1> SUFFICES ASSUME TypeOK, OnboardingInv, [Next]_vars PROVE OnboardingInv'
  OBVIOUS
<1> DEFINE apart == Elsewhere({ "ONBOARD" }, { "publish", "project" }) /\ UNCHANGED OnboardingRows
<1>1. apart => OnboardingInv'
  BY OnboardingFrame
<1>2. CASE UNCHANGED vars
  BY <1>1, <1>2, StillElsewhere DEF vars, OnboardingRows
<1>3. CASE Relate
  BY <1>1, <1>3, Related, StillElsewhere
<1>4. ASSUME NEW r \in Request, Abandon(r) PROVE apart
  BY <1>4, Abandoned, AbandonElsewhere DEF OnboardingRows
<1>5. ASSUME NEW r \in Request, Publish(r), Op(r) # "ONBOARD" PROVE apart
  BY <1>5, Published, Tagged, PublishElsewhere DEF DueTag, OnboardingRows
<1>6. ASSUME NEW r \in Request,
             \/ Academic(r) \/ Application(r) \/ Opportunity(r) \/ Support(r) \/ Messaging(r)
             \/ Notification(r)
      PROVE  apart
  <2>1. /\ Step(r, Ops \ { "ONBOARD" }) /\ UNCHANGED OnboardingRows
    BY <1>6, AcademicTouches, ApplicationTouches, OpportunityTouches, SupportTouches,
       MessagingTouches, NotificationTouches
    DEF Step, Ops
  <2> QED
    BY <2>1, StepElsewhere DEF Step
<1> QED
  BY <1>1, <1>2, <1>3, <1>4, <1>5, <1>6, OnboardingStep, OnboardingPublish, OnboardingBegin DEF Next

-----------------------------------------------------------------------------
(* The journeys together *)

\* Every event is of a kind the journeys publish.
Known == \A a \in accepted : a.body[1] \in Tags

JourneysInv ==
  /\ TypeOK /\ Known
  /\ AcademicInv /\ ApplicationInv /\ OpportunityInv /\ SupportInv
  /\ MessagingInv /\ NotificationInv /\ OnboardingInv

LEMMA KnownNext == TypeOK /\ Known /\ [Next]_vars => Known'
<1> SUFFICES ASSUME TypeOK, Known, [Next]_vars PROVE Known'
  OBVIOUS
<1>1. ASSUME accepted' = accepted PROVE Known'
  BY <1>1 DEF Known
<1>2. ASSUME NEW r \in Request, Publish(r) PROVE Known'
  <2>1. accepted' = accepted \cup { Due(r) }
    BY <1>2, Published
  <2>2. DueTag(r) \in Tags
    BY <1>2, Tagged DEF Tags
  <2> QED
    BY <2>1, <2>2 DEF Known, DueTag
<1>3. ASSUME NEW r \in Request,
             \/ Academic(r) \/ Application(r) \/ Opportunity(r) \/ Support(r) \/ Messaging(r)
             \/ Notification(r) \/ Onboarding(r)
      PROVE  accepted' = accepted
  BY <1>3, AcademicTouches, ApplicationTouches, OpportunityTouches, SupportTouches,
     MessagingTouches, NotificationTouches, OnboardingTouches DEF Step
<1>4. CASE UNCHANGED vars
  BY <1>1, <1>4 DEF vars
<1> QED
  BY <1>1, <1>2, <1>3, <1>4, Begun, Abandoned, Related DEF Next

LEMMA InitHolds == Init => JourneysInv
<1> SUFFICES ASSUME Init PROVE JourneysInv
  OBVIOUS
<1>1. TypeOK /\ accepted = {} /\ db = EmptyDb /\ \A r \in Request : at[r] = 0
  BY InitTyped DEF Init
<1>2. AcademicInv
  BY <1>1 DEF AcademicInv, AcademicFacts, AcademicRecorded, AcademicAccepted, AcademicPending, EmptyDb
<1>3. ApplicationInv
  BY <1>1 DEF ApplicationInv, ApplicationFacts, ApplicationRecorded, ApplicationAccepted,
     ApplicationPending, TasksBelong, EmptyDb
<1>4. OpportunityInv
  BY <1>1 DEF OpportunityInv, OpportunityFacts, OpportunityRecorded, OpportunityAccepted,
     OpportunityPending, EmptyDb
<1>5. SupportInv
  BY <1>1 DEF SupportInv, SupportFacts, SupportRecorded, SupportAccepted, SupportPending, EmptyDb
<1>6. MessagingInv
  BY <1>1
  DEF MessagingInv, MessagingFacts, MessagingRecorded, MessagingAccepted, MessagingPending, EmptyDb
<1>7. NotificationInv
  BY <1>1 DEF NotificationInv, NotificationFacts, NotificationRecorded, NotificationAccepted,
     NotificationPending, EmptyDb
<1>8. OnboardingInv
  BY <1>1 DEF OnboardingInv, OnboardingFacts, OnboardingRecorded, OnboardingAccepted,
     OnboardingPending, EmptyDb
<1> QED
  BY <1>1, <1>2, <1>3, <1>4, <1>5, <1>6, <1>7, <1>8 DEF JourneysInv, Known

LEMMA NextHolds == JourneysInv /\ [Next]_vars => JourneysInv'
  BY NextTyped, KnownNext, AcademicNext, ApplicationNext, OpportunityNext, SupportNext, MessagingNext,
     NotificationNext, OnboardingNext DEF JourneysInv

\* Wherever the requests of every journey stop, interleave or are sent again, each has done
\* what its steps so far are to have done, and what is recorded, delivered, accepted and
\* pending agrees with them (the executors' handlers).
THEOREM JourneysInvariant == Spec => []JourneysInv
<1> QED
  BY InitHolds, NextHolds, PTL DEF Spec

\* The tables, the requests and what they remember keep their types.
THEOREM JourneysTypeCorrect == Spec => []TypeOK
<1>1. JourneysInv => TypeOK
  BY DEF JourneysInv
<1> QED
  BY <1>1, JourneysInvariant, PTL

\* What the application shows as delivered, decided, recorded or ready, PBOS has accepted,
\* for any number of requests, keys and matches.
THEOREM DeliveredIsAccepted == Spec => []DeliveredWasAccepted
<1>1. JourneysInv => DeliveredWasAccepted
  <2> SUFFICES ASSUME JourneysInv PROVE DeliveredWasAccepted
    OBVIOUS
  <2>1. AcademicAccepted /\ ApplicationAccepted /\ OpportunityAccepted /\ SupportAccepted
    BY DEF JourneysInv, AcademicInv, ApplicationInv, OpportunityInv, SupportInv
  <2>2. MessagingAccepted /\ NotificationAccepted /\ OnboardingAccepted
    BY DEF JourneysInv, MessagingInv, NotificationInv, OnboardingInv
  <2>3. \A m \in Match :
          /\ db.match[m].status \in { "SAVED", "DISMISSED" } =>
               \E a \in accepted : a.body = <<"DECISION", m, db.match[m].status>>
          /\ db.match[m].delivery = "DELIVERED" =>
               \E a \in accepted :
                 \/ a.body[1] = "MATCHES" /\ m \in a.body[2]
                 \/ a.body[1] = "DECISION" /\ a.body[2] = m
    BY <2>1 DEF OpportunityAccepted, Decided, Shown
  <2>4. ASSUME NEW k \in Key
        PROVE  /\ db.evidence[k] = "DELIVERED" => \E v \in Value : Accepted(<<"READINESS", k, v>>)
               /\ db.delivery[k] = "DELIVERED" =>
                    [key |-> <<"APPLICATION", k>>, body |-> <<"CREATED", k>>] \in accepted
               /\ k \in db.events => Accepted(<<"APPLICATION", k>>)
               /\ db.support[k] = "DELIVERED" => Accepted(<<"SUPPORT", k>>)
    BY <2>1 DEF AcademicAccepted, ApplicationAccepted, SupportAccepted, Created
  <2>5. ASSUME NEW k \in Key
        PROVE  /\ db.message[k] = "DELIVERED" => Accepted(<<"MESSAGE", k>>)
               /\ db.outbox[k].state = "DELIVERED" =>
                    Accepted(<<"NOTIFICATION", k>>) /\ db.notification[k] # NoRow
    BY <2>2 DEF MessagingAccepted, NotificationAccepted
  <2> QED
    BY <2>2, <2>3, <2>4, <2>5 DEF DeliveredWasAccepted, OnboardingAccepted
<1> QED
  BY <1>1, JourneysInvariant, PTL

\* Every event PBOS has accepted has its record in the application, whichever await a
\* request ends at.
THEOREM AcceptedIsRecorded == Spec => []AcceptedWasRecorded
<1>1. JourneysInv => AcceptedWasRecorded
  <2> SUFFICES ASSUME JourneysInv, NEW a \in accepted
               PROVE  LET tag == a.body[1]
                          k == a.key[2]
                      IN CASE tag = "READINESS" ->
                                db.evidence[k] # NoRow /\ \A i \in Item : db.progress[i] # NoRow
                           [] tag = "CREATED" ->
                                db.workspace[k] # NoRow /\ \A i \in Item : db.tasks[k][i] # NoRow
                           [] tag = "PROGRESS" -> a.body[3] = "SUBMIT" \/
                                (/\ db.workspace[a.body[2]] # NoRow
                                 /\ \E i \in Item : db.tasks[a.body[2]][i] # NoRow)
                           [] tag = "MATCHES" -> \A m \in a.body[2] : db.match[m].status # NoRow
                           [] tag = "DECISION" -> db.match[a.body[2]].status # NoRow
                           [] tag = "SUPPORT" -> db.support[k] # NoRow
                           [] tag = "MESSAGE" -> db.message[k] # NoRow /\ db.conversation
                           [] tag = "NOTIFICATION" -> db.outbox[k].state # NoRow
                           [] OTHER -> db.goal # NoRow /\ db.milestone
    BY DEF AcceptedWasRecorded
  <2>1. a.body[1] \in Tags
    BY DEF JourneysInv, Known
  <2>2. a.body[1] = "READINESS" =>
          db.evidence[a.key[2]] # NoRow /\ \A i \in Item : db.progress[i] # NoRow
    BY DEF JourneysInv, AcademicInv, AcademicRecorded
  <2>3. /\ a.body[1] = "CREATED" =>
             db.workspace[a.key[2]] # NoRow /\ \A i \in Item : db.tasks[a.key[2]][i] # NoRow
        /\ a.body[1] = "PROGRESS" => a.body[3] = "SUBMIT" \/
             (db.workspace[a.body[2]] # NoRow /\ \E i \in Item : db.tasks[a.body[2]][i] # NoRow)
    BY DEF JourneysInv, ApplicationInv, ApplicationRecorded, TaskRows, Progress, Progressing
  <2>4. /\ a.body[1] = "MATCHES" => \A m \in a.body[2] : db.match[m].status # NoRow
        /\ a.body[1] = "DECISION" => db.match[a.body[2]].status # NoRow
    BY DEF JourneysInv, OpportunityInv, OpportunityRecorded
  <2>5. a.body[1] = "SUPPORT" => db.support[a.key[2]] # NoRow
    BY DEF JourneysInv, SupportInv, SupportRecorded
  <2>6. a.body[1] = "MESSAGE" => db.message[a.key[2]] # NoRow /\ db.conversation
    BY DEF JourneysInv, MessagingInv, MessagingRecorded
  <2>7. a.body[1] = "NOTIFICATION" => db.outbox[a.key[2]].state # NoRow
    BY DEF JourneysInv, NotificationInv, NotificationRecorded
  <2>8. a.body[1] \in { "publish", "project" } => db.goal # NoRow /\ db.milestone
    BY DEF JourneysInv, OnboardingInv, OnboardingRecorded
  <2> QED
    BY <2>1, <2>2, <2>3, <2>4, <2>5, <2>6, <2>7, <2>8 DEF Tags
<1> QED
  BY <1>1, JourneysInvariant, PTL

\* If every request had its answer, no record is left pending or failed once none is in
\* progress, however many requests for one record overlapped.
THEOREM AnsweredLeavesNothingPending == Spec => []NothingLeftPending
<1>1. JourneysInv => NothingLeftPending
  <2> SUFFICES ASSUME JourneysInv, ~abandoned, \A r \in Request : at[r] = 0
               PROVE  /\ \A k \in Key :
                           /\ "PENDING" \notin
                                { db.evidence[k], db.delivery[k], db.support[k], db.message[k] }
                           /\ db.outbox[k].state \in Settled \cup { NoRow }
                      /\ \A m \in Match : db.match[m].delivery # "PENDING" /\ db.match[m].pending = NoRow
                      /\ db.profile # "GOALS_CAPTURED"
    BY DEF NothingLeftPending
  <2>1. ASSUME NEW op, NEW n \in Nat \ { 0 }, NEW m \in Nat, NEW k PROVE ~Going(op, n, m, k)
    BY DEF Going
  <2>2. ASSUME NEW k \in Key
        PROVE  "PENDING" \notin { db.evidence[k], db.delivery[k], db.support[k], db.message[k] }
    <3>1. AcademicPending /\ ApplicationPending /\ SupportPending /\ MessagingPending
      BY DEF JourneysInv, AcademicInv, ApplicationInv, SupportInv, MessagingInv
    <3>2. ~Going("UPLOAD", 3, 4, k) /\ ~Going("CREATE", 2, 4, k) /\ ~Going("ASK", 3, 4, k)
          /\ ~Going("SEND", 7, 8, k)
      BY <2>1
    <3> QED
      BY <3>1, <3>2 DEF AcademicPending, ApplicationPending, SupportPending, MessagingPending
  <2>3. ASSUME NEW k \in Key PROVE db.outbox[k].state \in Settled \cup { NoRow }
    <3>1. db.outbox[k] \in OutboxRow
      BY DEF JourneysInv, TypeOK, Database
    <3>2. db.outbox[k].state # "FAILED" /\ db.outbox[k].state # "PENDING"
      <4>1. NotificationPending /\ ~Going("NOTIFY", 3, 6, k)
        BY <2>1 DEF JourneysInv, NotificationInv
      <4> QED
        BY <4>1 DEF NotificationPending
    <3> QED
      BY <3>1, <3>2 DEF OutboxRow
  <2>4. ASSUME NEW m \in Match PROVE db.match[m].delivery # "PENDING" /\ db.match[m].pending = NoRow
    BY DEF JourneysInv, OpportunityInv, OpportunityPending, Dealing
  <2>5. db.profile # "GOALS_CAPTURED"
    BY DEF JourneysInv, OnboardingInv, OnboardingPending, Welcoming
  <2> QED
    BY <2>2, <2>3, <2>4, <2>5
<1> QED
  BY <1>1, JourneysInvariant, PTL
=============================================================================

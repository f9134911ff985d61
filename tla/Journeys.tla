------------------------------- MODULE Journeys -------------------------------
(* The journeys the executors generate for the Playbook application.  Each    *)
(* HTTP request is a process that stages a record in the application's        *)
(* database, publishes a lifecycle event to PBOS under an idempotency key and *)
(* then marks the record delivered.  It may stop between any two of its       *)
(* awaits, be sent again, and interleave with another request.                *)
EXTENDS Naturals, Sequences, FiniteSets

CONSTANTS
  Journey,      \* the journeys to start from
  Request,      \* requests that may be in progress at a time
  Key,          \* request identifiers chosen by the client; they name the rows
  Item,         \* subjects of a transcript, tasks of a workspace
  Value,        \* readiness scores, support categories, goals
  Match,        \* opportunities the signals may match
  MaxRequests   \* bound: requests that begin

Journeys == {"ACADEMIC", "APPLICATION", "OPPORTUNITY", "SUPPORT", "MESSAGING", "NOTIFICATION", "ONBOARDING"}
NoRow == "NONE"

ASSUME JourneysAssumption ==
  /\ Journey \subseteq Journeys
  /\ NoRow \notin Value
  /\ MaxRequests \in Nat
  /\ IsFiniteSet(Item)

VARIABLES
  journey,   \* the journey under way
  db,        \* the application's tables
  accepted,  \* what PBOS has accepted: one event for an idempotency key
  call,      \* what a request asks for
  at,        \* how many of its steps a request has begun, 0 when idle
  note,      \* what a request remembers from its reads
  begun,     \* requests so far
  abandoned  \* whether a request has ended without its answer

vars == <<journey, db, accepted, call, at, note, begun, abandoned>>

Delivery == {"PENDING", "DELIVERED"}

EmptyDb ==
  [ progress |-> [i \in Item |-> NoRow],     \* ag_progress
    evidence |-> [k \in Key |-> NoRow],      \* academic_journey_evidence.delivery_state
    workspace |-> [k \in Key |-> NoRow],     \* application_workspaces.status
    delivery |-> [k \in Key |-> NoRow],      \* application_workspaces.delivery_state
    tasks |-> [k \in Key |-> [i \in Item |-> NoRow]],
    events |-> {},                           \* application_workspace_events
    match |-> [m \in Match |-> [status |-> NoRow, pending |-> NoRow, delivery |-> NoRow]],
    support |-> [k \in Key |-> NoRow],       \* pbos_delivery_state
    related |-> TRUE,                        \* the support relationship is active
    conversation |-> FALSE,
    participant |-> NoRow,                   \* MEMBER or BLOCKED
    message |-> [k \in Key |-> NoRow],       \* delivery_state
    reported |-> {},
    outbox |-> [k \in Key |-> [state |-> NoRow, attempts |-> 0]],
    notification |-> [k \in Key |-> NoRow],  \* UNREAD or READ
    mode |-> "immediate",
    profile |-> NoRow, goal |-> NoRow, milestone |-> FALSE, dashboard |-> FALSE ]

NoCall == [op |-> NoRow]
NoNote == [seen |-> {}, status |-> NoRow, count |-> 0]

Init ==
  /\ journey \in Journey
  /\ db = EmptyDb
  /\ accepted = {}
  /\ call = [r \in Request |-> NoCall]
  /\ at = [r \in Request |-> 0]
  /\ note = [r \in Request |-> NoNote]
  /\ begun = 0
  /\ abandoned = FALSE

-------------------------------------------------------------------------------
\* What a client may ask of a journey.
Calls(j) ==
  CASE j = "ACADEMIC" -> [op : {"UPLOAD"}, key : Key, value : Value]
    [] j = "APPLICATION" ->
         [op : {"CREATE"}, key : Key]
           \union [op : {"COMPLETE", "REOPEN"}, key : Key, workspace : Key, item : Item]
           \union [op : {"SUBMIT"}, key : Key, workspace : Key]
    [] j = "OPPORTUNITY" ->
         [op : {"DISCOVER"}, matches : SUBSET Match \ {{}}]
           \union [op : {"DECIDE"}, key : Key, match : Match, decision : {"SAVED", "DISMISSED"}]
    [] j = "SUPPORT" -> [op : {"ASK"}, key : Key, value : Value]
    [] j = "MESSAGING" -> [op : {"SEND", "REPORT"}, key : Key] \union [op : {"BLOCK", "UNBLOCK"}]
    [] j = "NOTIFICATION" ->
         [op : {"NOTIFY", "RETRY", "READ"}, key : Key]
           \union [op : {"PREFER"}, mode : {"immediate", "daily_digest", "muted"}]
    [] j = "ONBOARDING" -> [op : {"ONBOARD"}, value : Value]

\* A bug: a message is published before it is staged.
SendStepsPublishFirst ==
  <<"relationship", "conversation", "open", "join", "blocked", "publish", "message", "finish">>
SendSteps ==
  <<"relationship", "conversation", "open", "join", "blocked", "message", "publish", "finish">>

\* The awaits of a request that change or read shared state, in the order of the code.
Steps(op) ==
  CASE op = "UPLOAD" -> <<"progress", "evidence", "publish", "finish">>
    [] op = "CREATE" -> <<"workspace", "tasks", "publish", "finish">>
    [] op \in {"COMPLETE", "REOPEN"} -> <<"task", "count", "status", "publish", "finish">>
    [] op = "SUBMIT" -> <<"count", "status", "publish", "finish">>
    [] op = "DISCOVER" -> <<"matches", "publish", "finish">>
    [] op = "DECIDE" -> <<"stage", "publish", "finish">>
    [] op = "ASK" -> <<"relationship", "request", "publish", "finish">>
    [] op = "SEND" -> SendSteps
    [] op \in {"BLOCK", "UNBLOCK", "REPORT"} -> <<"member", "act">>
    [] op = "NOTIFY" -> <<"outbox", "insert", "deliver", "publish", "notification", "finish", "reply">>
    [] op = "RETRY" -> <<"failed", "deliver", "publish", "notification", "finish">>
    [] op \in {"PREFER", "READ"} -> <<"set">>
    [] op = "ONBOARD" -> <<"profile", "goal", "milestone", "publish", "project", "dashboard", "finish">>

On(r, step) == at[r] # 0 /\ Steps(call[r].op)[at[r]] = step
Op(r) == call[r].op
Advance(r) == at' = [at EXCEPT ![r] = IF @ = Len(Steps(Op(r))) THEN 0 ELSE @ + 1]
SkipOne(r) == at' = [at EXCEPT ![r] = @ + 2]
Stop(r) == at' = [at EXCEPT ![r] = 0]
Remember(r, n) == note' = [note EXCEPT ![r] = n]
Same == UNCHANGED <<journey, call, begun, abandoned>>
\* A step of r that only writes the database.
Write(r, step, new) ==
  /\ On(r, step)
  /\ db' = new
  /\ Advance(r)
  /\ Same /\ UNCHANGED <<accepted, note>>
\* A step of r that only reads it; it goes on if ok.
Read(r, step, ok, n) ==
  /\ On(r, step) /\ ok
  /\ Remember(r, n)
  /\ Advance(r)
  /\ Same /\ UNCHANGED <<db, accepted>>

Begin(r) ==
  /\ at[r] = 0 /\ begun < MaxRequests
  /\ \E c \in Calls(journey) : call' = [call EXCEPT ![r] = c]
  /\ at' = [at EXCEPT ![r] = 1]
  /\ Remember(r, NoNote)
  /\ begun' = begun + 1
  /\ UNCHANGED <<journey, db, accepted, abandoned>>

\* An await throws and the handler answers with an error, or the process dies.
Abandon(r) ==
  /\ at[r] # 0
  /\ Stop(r)
  /\ abandoned' = TRUE
  /\ UNCHANGED <<journey, db, accepted, call, note, begun>>

-------------------------------------------------------------------------------
\* The event a request publishes, and the idempotency key it publishes it under.
Event(c, n, step) ==
  CASE c.op = "UPLOAD" -> [key |-> <<"READINESS", c.key, c.value>>, body |-> <<"READINESS", c.key, c.value>>]
    [] c.op = "CREATE" -> [key |-> <<"APPLICATION", c.key>>, body |-> <<"CREATED", c.key>>]
    [] c.op \in {"COMPLETE", "REOPEN", "SUBMIT"} ->
         [key |-> <<"APPLICATION", c.key>>, body |-> <<"PROGRESS", c.workspace, c.op, n.count, n.status>>]
    [] c.op = "DISCOVER" -> [key |-> <<"MATCHES", c.matches>>, body |-> <<"MATCHES", c.matches>>]
    [] c.op = "DECIDE" -> [key |-> <<"DECISION", c.key>>, body |-> <<"DECISION", c.match, c.decision>>]
    [] c.op = "ASK" -> [key |-> <<"SUPPORT", c.key>>, body |-> <<"SUPPORT", c.key, c.value>>]
    [] c.op = "SEND" -> [key |-> <<"MESSAGE", c.key>>, body |-> <<"MESSAGE", c.key>>]
    [] c.op \in {"NOTIFY", "RETRY"} -> [key |-> <<"NOTIFICATION", c.key>>, body |-> <<"NOTIFICATION", c.key>>]
    [] c.op = "ONBOARD" -> [key |-> <<step>>, body |-> <<step>>]

Conflicts(e) == \E a \in accepted : a.key = e.key /\ a.body # e.body
Accepted(key) == \E a \in accepted : a.key = key

\* A notification is sent at once, or suppressed, or kept for a digest (deliver).
Sends(r) == Op(r) \in {"NOTIFY", "RETRY"} => note[r].status = "immediate"

\* A bug: the answer of PBOS is not looked at.
PublishUnheard(r) ==
  LET step == Steps(Op(r))[at[r]]
      e == Event(call[r], note[r], step)
  IN /\ at[r] # 0 /\ step \in {"publish", "project"}
     /\ Sends(r)
     /\ accepted' = IF Conflicts(e) THEN accepted ELSE accepted \union {e}
     /\ Advance(r)
     /\ Same /\ UNCHANGED <<db, note>>

\* PBOS accepts the event, or has accepted it before and answers as it did then.  A
\* refusal, a conflicting event and a lost answer make the request throw (Abandon).
Publish(r) ==
  LET step == Steps(Op(r))[at[r]]
      e == Event(call[r], note[r], step)
  IN /\ at[r] # 0 /\ step \in {"publish", "project"}
     /\ Sends(r)
     /\ ~Conflicts(e)
     /\ accepted' = accepted \union {e}
     /\ Advance(r)
     /\ Same /\ UNCHANGED <<db, note>>

-------------------------------------------------------------------------------
\* Transcript to academic readiness.
WriteProgress(r) ==
  /\ On(r, "progress")
  /\ \E i \in Item \ note[r].seen :
       /\ db' = [db EXCEPT !.progress[i] = call[r].value]
       /\ Remember(r, [note[r] EXCEPT !.seen = @ \union {i}])
       /\ IF note[r].seen \union {i} = Item THEN Advance(r) ELSE UNCHANGED at
  /\ Same /\ UNCHANGED accepted

\* The upsert does not mention delivery_state: an existing row keeps its own.
SaveEvidence(r) ==
  Write(r, "evidence", [db EXCEPT !.evidence[call[r].key] = IF @ = NoRow THEN "PENDING" ELSE @])

CompleteEvidence(r) ==
  /\ Op(r) = "UPLOAD"
  /\ Write(r, "finish", [db EXCEPT !.evidence[call[r].key] = "DELIVERED"])

-------------------------------------------------------------------------------
\* Application workspaces.
CreatePending(r) ==
  Write(r, "workspace", [db EXCEPT !.workspace[call[r].key] = "building", !.delivery[call[r].key] = "PENDING"])

SaveTasks(r) ==
  Write(r, "tasks", [db EXCEPT !.tasks[call[r].key] = [i \in Item |-> "TODO"]])

Activate(r) ==
  /\ Op(r) = "CREATE"
  /\ Write(r, "finish", [db EXCEPT !.delivery[call[r].key] = "DELIVERED"])

UpdateTask(r) ==
  /\ On(r, "task")
  /\ db.tasks[call[r].workspace][call[r].item] # NoRow
  /\ Write(r, "task", [db EXCEPT !.tasks[call[r].workspace][call[r].item] =
                                    IF Op(r) = "COMPLETE" THEN "COMPLETE" ELSE "TODO"])

Tasks(r, status) == {i \in Item : db.tasks[call[r].workspace][i] = status}

\* Readiness of the tasks there are; a submission asks that none be left.
Count(r) ==
  LET complete == Tasks(r, "COMPLETE")
      left == Tasks(r, "TODO")
      status == IF Op(r) = "SUBMIT" THEN "submitted"
                ELSE IF left = {} /\ complete # {} THEN "ready" ELSE "building"
  IN Read(r, "count", Op(r) = "SUBMIT" => left = {},
          [note[r] EXCEPT !.count = Cardinality(complete), !.status = status])

\* An update that finds no row is no error.
SetStatus(r) ==
  Write(r, "status", [db EXCEPT !.workspace[call[r].workspace] = IF @ = NoRow THEN @ ELSE note[r].status])

\* A transition refers to its workspace: of one not on record it cannot be saved.
RecordTransition(r) ==
  /\ Op(r) \in {"COMPLETE", "REOPEN", "SUBMIT"}
  /\ db.workspace[call[r].workspace] # NoRow
  /\ Write(r, "finish", [db EXCEPT !.events = @ \union {call[r].key}])

-------------------------------------------------------------------------------
\* Opportunities: a match is found again with every discovery and decided once or more.
Found(row) ==
  [row EXCEPT !.delivery = "PENDING", !.status = IF row.status = NoRow THEN "RECOMMENDED" ELSE row.status]

PersistMatches(r) ==
  Write(r, "matches",
    [db EXCEPT !.match = [m \in Match |->
       IF m \in call[r].matches THEN Found(db.match[m]) ELSE db.match[m]]])

CompleteMatchDelivery(r) ==
  /\ Op(r) = "DISCOVER"
  /\ Write(r, "finish",
       [db EXCEPT !.match = [m \in Match |->
          IF m \in call[r].matches THEN [db.match[m] EXCEPT !.delivery = "DELIVERED"] ELSE db.match[m]]])

StageDecision(r) ==
  /\ On(r, "stage")
  /\ db.match[call[r].match].status # NoRow
  /\ Write(r, "stage", [db EXCEPT !.match[call[r].match].pending = call[r].decision,
                                  !.match[call[r].match].delivery = "PENDING"])

\* A bug: the pending action is cleared and the record left to be delivered.
CompleteDecisionUndelivered(r) ==
  /\ Op(r) = "DECIDE"
  /\ Write(r, "finish", [db EXCEPT !.match[call[r].match].pending = NoRow,
                                   !.match[call[r].match].status = call[r].decision])

CompleteDecision(r) ==
  /\ Op(r) = "DECIDE"
  /\ Write(r, "finish", [db EXCEPT !.match[call[r].match] =
       [status |-> call[r].decision, pending |-> NoRow, delivery |-> "DELIVERED"]])

-------------------------------------------------------------------------------
\* Support requests and messages, which an active relationship authorizes.
CheckRelationship(r) == Read(r, "relationship", db.related, note[r])

CreateRequest(r) == Write(r, "request", [db EXCEPT !.support[call[r].key] = "PENDING"])

MarkDelivered(r) ==
  /\ Op(r) = "ASK"
  /\ Write(r, "finish", [db EXCEPT !.support[call[r].key] = "DELIVERED"])

\* The relationship ends, or is taken up again.
Relate ==
  /\ journey \in {"SUPPORT", "MESSAGING"}
  /\ db' = [db EXCEPT !.related = ~@]
  /\ UNCHANGED <<journey, accepted, call, at, note, begun, abandoned>>

FindConversation(r) ==
  /\ On(r, "conversation")
  /\ IF db.conversation THEN SkipOne(r) ELSE Advance(r)
  /\ Same /\ UNCHANGED <<db, accepted, note>>

\* A relationship has one conversation: a second insert throws.
InsertConversation(r) ==
  /\ ~db.conversation
  /\ Write(r, "open", [db EXCEPT !.conversation = TRUE])

Join(r) == Write(r, "join", [db EXCEPT !.participant = IF @ = NoRow THEN "MEMBER" ELSE @])

CheckBlocked(r) ==
  /\ On(r, "blocked")
  /\ IF db.participant = "BLOCKED" THEN Stop(r) ELSE Advance(r)
  /\ Same /\ UNCHANGED <<db, accepted, note>>

\* The upsert ignores a message with the same key and goes on with the one on record.
StageMessage(r) ==
  Write(r, "message", [db EXCEPT !.message[call[r].key] = IF @ = NoRow THEN "PENDING" ELSE @])

FinishMessage(r) ==
  /\ Op(r) = "SEND"
  /\ Write(r, "finish", [db EXCEPT !.message[call[r].key] = "DELIVERED"])

CheckMember(r) == Read(r, "member", db.participant # NoRow, note[r])

Act(r) ==
  Write(r, "act",
    CASE Op(r) = "BLOCK" -> [db EXCEPT !.participant = "BLOCKED"]
      [] Op(r) = "UNBLOCK" -> [db EXCEPT !.participant = "MEMBER"]
      [] Op(r) = "REPORT" ->
           IF db.message[call[r].key] = NoRow THEN db ELSE [db EXCEPT !.reported = @ \union {call[r].key}])

-------------------------------------------------------------------------------
\* Notifications: an outbox of their own, with preferences and retries.
Settled == {"DELIVERED", "SUPPRESSED", "DIGEST_QUEUED"}

FindOutbox(r) ==
  LET row == db.outbox[call[r].key]
  IN /\ On(r, "outbox")
     /\ CASE row.state \in Settled -> Stop(r)
          [] row.state = NoRow -> Advance(r)
          [] OTHER -> SkipOne(r)
     /\ Remember(r, [note[r] EXCEPT !.count = row.attempts])
     /\ Same /\ UNCHANGED <<db, accepted>>

\* An event has one outbox row: a second insert throws, outside the inner try.
InsertOutbox(r) ==
  /\ On(r, "insert")
  /\ db.outbox[call[r].key].state = NoRow
  /\ Write(r, "insert", [db EXCEPT !.outbox[call[r].key].state = "PENDING"])

FindFailed(r) ==
  /\ On(r, "failed")
  /\ IF db.outbox[call[r].key].state = "FAILED" THEN Advance(r) ELSE Stop(r)
  /\ Remember(r, [note[r] EXCEPT !.count = db.outbox[call[r].key].attempts])
  /\ Same /\ UNCHANGED <<db, accepted>>

ReadPreference(r) == Read(r, "deliver", TRUE, [note[r] EXCEPT !.status = db.mode])

KeepUnsent(r) ==
  /\ On(r, "publish") /\ ~Sends(r)
  /\ db' = [db EXCEPT !.outbox[call[r].key].state = IF note[r].status = "muted" THEN "SUPPRESSED" ELSE "DIGEST_QUEUED"]
  /\ Stop(r)
  /\ Same /\ UNCHANGED <<accepted, note>>

SaveNotification(r) == Write(r, "notification", [db EXCEPT !.notification[call[r].key] = "UNREAD"])

CompleteOutbox(r) ==
  /\ Op(r) \in {"NOTIFY", "RETRY"}
  /\ Write(r, "finish", [db EXCEPT !.outbox[call[r].key] = [state |-> "DELIVERED", attempts |-> note[r].count + 1]])

Reply(r) == Read(r, "reply", TRUE, note[r])

\* The catch of a posted event: an await of deliver threw, done or not.
RecordFailure(r) ==
  /\ at[r] # 0 /\ Op(r) = "NOTIFY"
  /\ Steps("NOTIFY")[at[r]] \in {"deliver", "publish", "notification", "finish", "reply"}
  /\ db' = [db EXCEPT !.outbox[call[r].key] = [state |-> "FAILED", attempts |-> note[r].count + 1]]
  /\ Stop(r)
  /\ abandoned' = TRUE
  /\ UNCHANGED <<journey, accepted, call, note, begun>>

SetPreference(r) ==
  Write(r, "set",
    IF Op(r) = "PREFER" THEN [db EXCEPT !.mode = call[r].mode]
    ELSE IF db.notification[call[r].key] = NoRow THEN db
    ELSE [db EXCEPT !.notification[call[r].key] = "READ"])

-------------------------------------------------------------------------------
\* Scholar onboarding, whose two events PBOS accepts before the dashboard is ready.
SaveProfile(r) == Write(r, "profile", [db EXCEPT !.profile = "GOALS_CAPTURED"])
SaveGoal(r) == Write(r, "goal", [db EXCEPT !.goal = call[r].value])
SaveMilestone(r) == Write(r, "milestone", [db EXCEPT !.milestone = TRUE])
SaveDashboard(r) == Write(r, "dashboard", [db EXCEPT !.dashboard = TRUE])
DashboardReady(r) ==
  /\ Op(r) = "ONBOARD"
  /\ Write(r, "finish", [db EXCEPT !.profile = "DASHBOARD_READY"])

Academic(r) == WriteProgress(r) \/ SaveEvidence(r) \/ CompleteEvidence(r)
Application(r) ==
  \/ CreatePending(r) \/ SaveTasks(r) \/ Activate(r)
  \/ UpdateTask(r) \/ Count(r) \/ SetStatus(r) \/ RecordTransition(r)
Opportunity(r) == PersistMatches(r) \/ CompleteMatchDelivery(r) \/ StageDecision(r) \/ CompleteDecision(r)
Support(r) == CheckRelationship(r) \/ CreateRequest(r) \/ MarkDelivered(r)
Messaging(r) ==
  \/ FindConversation(r) \/ InsertConversation(r) \/ Join(r) \/ CheckBlocked(r)
  \/ StageMessage(r) \/ FinishMessage(r) \/ CheckMember(r) \/ Act(r)
Notification(r) ==
  \/ FindOutbox(r) \/ InsertOutbox(r) \/ FindFailed(r) \/ ReadPreference(r) \/ KeepUnsent(r)
  \/ SaveNotification(r) \/ CompleteOutbox(r) \/ Reply(r) \/ RecordFailure(r) \/ SetPreference(r)
Onboarding(r) == SaveProfile(r) \/ SaveGoal(r) \/ SaveMilestone(r) \/ SaveDashboard(r) \/ DashboardReady(r)

Next ==
  \/ Relate
  \/ \E r \in Request :
       \/ Begin(r) \/ Abandon(r) \/ Publish(r)
       \/ Academic(r) \/ Application(r) \/ Opportunity(r) \/ Support(r) \/ Messaging(r)
       \/ Notification(r) \/ Onboarding(r)

Spec == Init /\ [][Next]_vars

-------------------------------------------------------------------------------
\* Properties

\* Whatever the application shows as delivered, decided, recorded or ready, PBOS has
\* accepted: whichever awaits were lost, repeated or interleaved (complete, transition,
\* discover, decide, request, deliver).  A match is delivered by its discovery or by a
\* decision about it: not of the decision that waits, see RejectionStaysVisible.
DeliveredWasAccepted ==
  /\ \A k \in Key :
       /\ db.evidence[k] = "DELIVERED" => \E v \in Value : Accepted(<<"READINESS", k, v>>)
       /\ db.delivery[k] = "DELIVERED" =>
            [key |-> <<"APPLICATION", k>>, body |-> <<"CREATED", k>>] \in accepted
       /\ k \in db.events => Accepted(<<"APPLICATION", k>>)
       /\ db.support[k] = "DELIVERED" => Accepted(<<"SUPPORT", k>>)
       /\ db.message[k] = "DELIVERED" => Accepted(<<"MESSAGE", k>>)
       /\ db.outbox[k].state = "DELIVERED" =>
            Accepted(<<"NOTIFICATION", k>>) /\ db.notification[k] # NoRow
  /\ \A m \in Match :
       /\ db.match[m].status \in {"SAVED", "DISMISSED"} =>
            \E a \in accepted : a.body = <<"DECISION", m, db.match[m].status>>
       /\ db.match[m].delivery = "DELIVERED" =>
            \E a \in accepted :
              \/ a.body[1] = "MATCHES" /\ m \in a.body[2]
              \/ a.body[1] = "DECISION" /\ a.body[2] = m
  /\ db.profile = "DASHBOARD_READY" =>
       db.milestone /\ db.dashboard /\ Accepted(<<"publish">>) /\ Accepted(<<"project">>)

\* Every event PBOS has accepted has its record in the application: a request that stops
\* between the publication and its end leaves no event without one.  A submission is
\* excepted: of a workspace that is not on record it is published all the same.
AcceptedWasRecorded ==
  \A a \in accepted :
    LET tag == a.body[1]
        k == a.key[2]
    IN CASE tag = "READINESS" -> db.evidence[k] # NoRow /\ \A i \in Item : db.progress[i] # NoRow
         [] tag = "CREATED" -> db.workspace[k] # NoRow /\ \A i \in Item : db.tasks[k][i] # NoRow
         [] tag = "PROGRESS" -> a.body[3] = "SUBMIT" \/
              (db.workspace[a.body[2]] # NoRow /\ \E i \in Item : db.tasks[a.body[2]][i] # NoRow)
         [] tag = "MATCHES" -> \A m \in a.body[2] : db.match[m].status # NoRow
         [] tag = "DECISION" -> db.match[a.body[2]].status # NoRow
         [] tag = "SUPPORT" -> db.support[k] # NoRow
         [] tag = "MESSAGE" -> db.message[k] # NoRow /\ db.conversation
         [] tag = "NOTIFICATION" -> db.outbox[k].state # NoRow
         [] OTHER -> db.goal # NoRow /\ db.milestone

\* "PBOS rejection leaves a visible pending record": a decision PBOS has not accepted shows as
\* pending once its request has ended.  The code does not keep it: a later discovery sets the
\* match to delivered (completeMatchDelivery).
RejectionStaysVisible ==
  (\A r \in Request : at[r] = 0) =>
    \A m \in Match : db.match[m].pending # NoRow => db.match[m].delivery = "PENDING"

\* If every request had its answer, nothing is left pending once none is in progress:
\* two requests for one record do not undo each other's delivery.
NothingLeftPending ==
  (~abandoned /\ \A r \in Request : at[r] = 0) =>
    /\ \A k \in Key :
         /\ "PENDING" \notin {db.evidence[k], db.delivery[k], db.support[k], db.message[k]}
         /\ db.outbox[k].state \in Settled \union {NoRow}
    /\ \A m \in Match : db.match[m].delivery # "PENDING" /\ db.match[m].pending = NoRow
    /\ db.profile # "GOALS_CAPTURED"
===============================================================================

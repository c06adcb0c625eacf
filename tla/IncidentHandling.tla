-------------------------- MODULE IncidentHandling --------------------------
(***************************************************************************)
(* The handling of incidents: the API requests that create, move, amend    *)
(* and delete them (app/routers/incidents.py on                            *)
(* app/services/incident_service.py), the SQS queue, and the worker that   *)
(* classifies them and contains the critical ones                          *)
(* (app/workers/main.py on app/workers/incident_worker.py).                *)
(*                                                                         *)
(* Sessions are those of module NotificationDelivery: one SELECT, a        *)
(* decision on what it returned, an UPDATE of the changed columns that     *)
(* waits for the row lock, and a commit.  Only incidents without           *)
(* compliance records and notifications can be deleted; the others refuse  *)
(* it with an integrity error and are left out of `Incidents`.             *)
(***************************************************************************)
EXTENDS Naturals, UnitOfWork, SqsQueue

CONSTANTS
    Incidents,    \* ids the API may draw
    Featured,     \* those created with network features
    Clients,      \* API requests that can be in progress at a time
    Workers,      \* worker processes polling the incident queue
    MaxReceive,   \* maxReceiveCount of the queue's redrive policy
    MaxRequests,  \* bound: API requests in a behaviour
    Amendments,   \* the statuses analysts write with PATCH
    Faults        \* may sessions abort and SQS be unreachable?

Sessions == Clients \cup Workers

ASSUME SessionKinds == Clients \cap Workers = {}
ASSUME FeaturedAreIncidents == Featured \subseteq Incidents
ASSUME Limits ==
    /\ MaxReceive \in Nat
    /\ MaxRequests \in Nat
    /\ Faults \in BOOLEAN

VARIABLES
    presence,  \* where the row of each incident stands
    db,        \* committed rows, meaningful while "live"
    pc,        \* where each session stands
    intent,    \* the statement its flush and commit stand for
    on,        \* the incident a session works on
    loaded,    \* the row as the session read it
    mine,      \* the row as the session would write it
    lock,      \* lock[i]: the session that holds the row lock, if any
    queue,     \* messages not deleted yet, visible or in flight
    dlq,       \* ids of the messages the redrive policy moved away
    nextId,    \* id of the next message
    held,      \* id of the message a worker is handling
    requests,  \* API requests so far
    verdicts,  \* verdicts[i]: predictions the classifier made for i
    past,      \* past[i]: what the rows i has had say of it
    overtaken, \* incidents updated by a session that had read another row
    amended    \* incidents a PATCH updated

vars == <<presence, db, pc, intent, on, loaded, mine, lock, queue, dlq,
          nextId, held, requests, verdicts, past, overtaken, amended>>

sessionVars == <<pc, intent, on, loaded, mine>>
queueVars == <<queue, dlq, nextId, held>>
rowVars == <<presence, db, past, overtaken, amended>>

(* What the abstract state machine sees of an incident.                    *)
View(r) == [status |-> r.status, closed |-> r.closed, isolated |-> r.isolated]

ViewOf(i) ==
    CASE presence[i] = "live" -> View(db[i])
      [] presence[i] = "deleted" ->
            [status |-> "removed", closed |-> FALSE, isolated |-> FALSE]
      [] OTHER -> [status |-> "absent", closed |-> FALSE, isolated |-> FALSE]

StateMachine == INSTANCE IncidentStateMachine WITH
    row <- [i \in Incidents |-> ViewOf(i)]

(* Attack categories and severities, as far as the code tells them apart:  *)
(* SEVERITY_MAP makes the severe ones critical.                            *)
Categories == {"benign", "severe"}
Severities == {"critical", "medium"}

Prediction == [category : Categories, review : BOOLEAN]

Row == [status : StateMachine!Statuses, closed : BOOLEAN,
        severity : Severities, category : Categories \cup {"none"},
        review : BOOLEAN, isolated : BOOLEAN]

(* A row as create() inserts it. *)
Fresh(severity) ==
    [status |-> "new", closed |-> FALSE, severity |-> severity,
     category |-> "none", review |-> FALSE, isolated |-> FALSE]

ASSUME AmendmentsAreStatuses == Amendments \subseteq StateMachine!Statuses

Message == MessageAbout(Featured)

(* A row whose transaction was rolled back is "lost": its id is not drawn  *)
(* again.                                                                  *)
Presence == {"absent", "inserted", "live", "deleted", "lost"}

Stages == {"idle", "flushing", "committing", "acking"}

(* "amend" is the UPDATE of a PATCH, "update" any other.                   *)
Updates == {"update", "amend"}
Intents == Updates \cup {"insert", "delete"}

-----------------------------------------------------------------------------
Init ==
    /\ presence = [i \in Incidents |-> "absent"]
    /\ db = [i \in Incidents |-> Fresh("medium")]
    /\ pc = [s \in Sessions |-> "idle"]
    /\ intent = [s \in Sessions |-> "update"]
    /\ on \in [Sessions -> Incidents]
    /\ \A s, t \in Sessions : on[s] = on[t]
    /\ loaded = [s \in Sessions |-> Fresh("medium")]
    /\ mine = [s \in Sessions |-> Fresh("medium")]
    /\ lock = [i \in Incidents |-> {}]
    /\ queue = {}
    /\ dlq = {}
    /\ nextId = 1
    /\ held = [w \in Workers |-> 0]
    /\ requests = 0
    /\ verdicts = [i \in Incidents |-> {}]
    /\ past = [i \in Incidents |-> {}]
    /\ overtaken = {}
    /\ amended = {}

(* Session s holds i, read as `old` and to be written as `new`.            *)
Hold(s, i, what, stage, old, new) ==
    /\ pc' = [pc EXCEPT ![s] = stage]
    /\ intent' = [intent EXCEPT ![s] = what]
    /\ on' = [on EXCEPT ![s] = i]
    /\ loaded' = [loaded EXCEPT ![s] = old]
    /\ mine' = [mine EXCEPT ![s] = new]

Request(c) ==
    /\ pc[c] = "idle"
    /\ requests < MaxRequests
    /\ requests' = requests + 1

(* create(): the INSERT is flushed and the message posted - before the     *)
(* commit - unless the call raises, which is swallowed: always on a queue  *)
(* that is not FIFO.                                                       *)
BeginCreate(c, i, severity) ==
    /\ Request(c)
    /\ presence[i] = "absent"
    /\ presence' = [presence EXCEPT ![i] = "inserted"]
    /\ Hold(c, i, "insert", "committing", Fresh(severity), Fresh(severity))
    /\ lock' = [lock EXCEPT ![i] = {c}]
    /\ \/ /\ i \in Featured
          /\ Fifo
          /\ queue' = Posted(queue, nextId, i)
          /\ nextId' = nextId + 1
       \/ /\ i \notin Featured \/ ~Fifo \/ Faults
          /\ UNCHANGED <<queue, nextId>>
    /\ UNCHANGED <<db, past, overtaken, amended, dlq, held, verdicts>>

(* A request on a row that is there: it answers 404 otherwise.             *)
Change(c, i, what, new) ==
    /\ Request(c)
    /\ presence[i] = "live"
    /\ Hold(c, i, what, "flushing", db[i], new)
    /\ UNCHANGED <<rowVars, lock, queueVars, verdicts>>

(* Mutant of Moved: reopening leaves closed_at set.                        *)
MovedKeepsClosure(r, t) ==
    [r EXCEPT !.status = t, !.closed = @ \/ (t = "closed")]

Moved(r, t) ==
    [r EXCEPT !.status = t, !.closed = StateMachine!ClosedAfter(t, @)]

(* Mutant of BeginTransition: the table is not consulted.                  *)
BeginTransitionAny(c, i, t) == Change(c, i, "update", Moved(db[i], t))

(* transition_status(): a status the table does not allow answers 409.     *)
BeginTransition(c, i, t) ==
    /\ t \in StateMachine!NextStatuses[db[i].status]
    /\ Change(c, i, "update", Moved(db[i], t))

(* update(), a PATCH: it may set the status and the severity to any value, *)
(* and a list of the analyst's replaces the worker's containment actions;  *)
(* closed_at and needs_analyst_review are out of its reach.                *)
BeginAmend(c, i, t, severity) ==
    /\ t \in Amendments \cup {db[i].status}
    /\ \E isolated \in {db[i].isolated, FALSE} :
          LET new == [db[i] EXCEPT !.status = t, !.severity = severity,
                                   !.isolated = isolated]
          IN  /\ new # db[i]
              /\ Change(c, i, "amend", new)

BeginDelete(c, i) == Change(c, i, "delete", db[i])

-----------------------------------------------------------------------------
(* The statement waits for the row lock.  A DELETE of a row that is gone   *)
(* only warns.                                                             *)
Flush(s) ==
    /\ pc[s] = "flushing"
    /\ lock[on[s]] = {}
    /\ presence[on[s]] = "live" \/ intent[s] = "delete"
    /\ lock' = [lock EXCEPT ![on[s]] = {s}]
    /\ pc' = [pc EXCEPT ![s] = "committing"]
    /\ UNCHANGED <<rowVars, intent, on, loaded, mine, queueVars, requests,
                   verdicts>>

(* The session ends and forgets its row.                                   *)
Close(s, stage) ==
    /\ pc' = [pc EXCEPT ![s] = stage]
    /\ intent' = [intent EXCEPT ![s] = "update"]
    /\ loaded' = [loaded EXCEPT ![s] = Fresh("medium")]
    /\ mine' = [mine EXCEPT ![s] = Fresh("medium")]
    /\ UNCHANGED on

(* An UPDATE of a row that is gone raises; a worker's message stays.       *)
FlushFails(s) ==
    /\ pc[s] = "flushing"
    /\ lock[on[s]] = {}
    /\ presence[on[s]] # "live"
    /\ intent[s] \in Updates
    /\ Close(s, "idle")
    /\ UNCHANGED <<rowVars, lock, queueVars, requests, verdicts>>

(* Mutant of Written: the UPDATE writes every column.                      *)
WrittenWhole(cur, read, new) == new

Written(cur, read, new) ==
    [status   |-> Flushed(cur.status, read.status, new.status),
     closed   |-> Flushed(cur.closed, read.closed, new.closed),
     severity |-> Flushed(cur.severity, read.severity, new.severity),
     category |-> Flushed(cur.category, read.category, new.category),
     review   |-> Flushed(cur.review, read.review, new.review),
     isolated |-> Flushed(cur.isolated, read.isolated, new.isolated)]

(* The row lock has kept the row as the UPDATE found it, so the write may  *)
(* be applied when it becomes visible.  A worker goes on to delete its     *)
(* message.                                                                *)
Commit(s) ==
    LET i == on[s]
    IN  /\ pc[s] = "committing"
        /\ \/ /\ intent[s] = "insert"
              /\ presence' = [presence EXCEPT ![i] = "live"]
              /\ db' = [db EXCEPT ![i] = mine[s]]
              /\ past' = [past EXCEPT ![i] = @ \cup {View(mine[s])}]
              /\ UNCHANGED <<overtaken, amended>>
           \/ /\ intent[s] \in Updates
              /\ db' = [db EXCEPT ![i] = Written(@, loaded[s], mine[s])]
              /\ past' = [past EXCEPT ![i] = @ \cup {View(db'[i])}]
              /\ overtaken' =
                    IF loaded[s] = db[i] THEN overtaken
                    ELSE overtaken \cup {i}
              /\ amended' =
                    IF intent[s] = "amend" THEN amended \cup {i}
                    ELSE amended
              /\ UNCHANGED presence
           \/ /\ intent[s] = "delete"
              /\ presence' = [presence EXCEPT ![i] = "deleted"]
              /\ UNCHANGED <<db, past, overtaken, amended>>
        /\ lock' = [lock EXCEPT ![i] = {}]
        /\ Close(s, IF s \in Workers THEN "acking" ELSE "idle")
        /\ UNCHANGED <<queueVars, requests, verdicts>>

(* Mutant of Abort: the message is deleted whether the handler raised or   *)
(* not.                                                                    *)
AbortAcks(s) ==
    /\ Faults
    /\ pc[s] # "idle"
    /\ presence' =
          IF pc[s] = "committing" /\ intent[s] = "insert"
          THEN [presence EXCEPT ![on[s]] = "lost"]
          ELSE presence
    /\ lock' = [lock EXCEPT ![on[s]] = @ \ {s}]
    /\ Close(s, IF s \in Workers THEN "acking" ELSE "idle")
    /\ UNCHANGED <<db, past, overtaken, amended, queueVars, requests,
                   verdicts>>

(* The process dies, or a statement, the commit or the deletion raises:    *)
(* the session rolls back, and a worker's message stays in the queue.      *)
Abort(s) ==
    /\ Faults
    /\ pc[s] # "idle"
    /\ presence' =
          IF pc[s] = "committing" /\ intent[s] = "insert"
          THEN [presence EXCEPT ![on[s]] = "lost"]
          ELSE presence
    /\ lock' = [lock EXCEPT ![on[s]] = @ \ {s}]
    /\ Close(s, "idle")
    /\ UNCHANGED <<db, past, overtaken, amended, queueVars, requests,
                   verdicts>>

-----------------------------------------------------------------------------
(* A worker receives m; SQS may hand out a message again whose deletion it *)
(* has not seen.                                                           *)
Receive(w, m) ==
    /\ pc[w] = "idle"
    /\ m.receives < MaxReceive
    /\ InTurn(queue, m)
    /\ queue' = Received(queue, m)
    /\ held' = [held EXCEPT ![w] = m.id]
    /\ UNCHANGED <<rowVars, lock, dlq, nextId, requests>>

(* Mutants of Classified: a doubtful prediction contains as well, a review *)
(* once asked for stays asked for, and the status the older worker in      *)
(* app/worker/main.py writes.                                              *)
ClassifiedUnsure(r, p) ==
    LET severity == IF p.review THEN r.severity
                    ELSE IF p.category = "severe" THEN "critical" ELSE "medium"
        contain  == severity = "critical" /\ p.category # "benign"
    IN  [r EXCEPT !.status = IF contain THEN "contained" ELSE @,
                  !.severity = severity, !.category = p.category,
                  !.review = p.review, !.isolated = @ \/ contain]

ClassifiedSticky(r, p) ==
    [r EXCEPT !.category = p.category, !.review = @ \/ p.review]

ClassifiedContaining(r, p) ==
    [r EXCEPT !.status = IF p.review THEN @ ELSE "containing",
              !.category = p.category, !.review = p.review]

(* The row after classify_incident: a confident prediction decides the     *)
(* severity, and a confident critical one contains the incident.           *)
Classified(r, p) ==
    LET severity == IF p.review THEN r.severity
                    ELSE IF p.category = "severe" THEN "critical" ELSE "medium"
        contain  == /\ severity = "critical"
                    /\ ~p.review
                    /\ p.category # "benign"
    IN  [status   |-> IF contain THEN "contained" ELSE r.status,
         closed   |-> r.closed,
         severity |-> severity,
         category |-> p.category,
         review   |-> p.review,
         isolated |-> r.isolated \/ contain]

(* The prediction is computed synchronously between SELECT and commit.     *)
WorkerTakes(w, m, p) ==
    LET i == m.subject
    IN  /\ presence[i] = "live"
        /\ Receive(w, m)
        /\ Hold(w, i, "update", "flushing", db[i], Classified(db[i], p))
        /\ verdicts' = [verdicts EXCEPT ![i] = @ \cup {p}]

(* A worker that does not find the incident returns, and the poll loop     *)
(* deletes the message.                                                    *)
WorkerSkips(w, m) ==
    /\ presence[m.subject] # "live"
    /\ Receive(w, m)
    /\ pc' = [pc EXCEPT ![w] = "acking"]
    /\ UNCHANGED <<intent, on, loaded, mine, verdicts>>

DeleteMessage(w) ==
    /\ pc[w] = "acking"
    /\ queue' = Deleted(queue, held[w])
    /\ pc' = [pc EXCEPT ![w] = "idle"]
    /\ UNCHANGED <<rowVars, intent, on, loaded, mine, lock, dlq, nextId, held,
                   requests, verdicts>>

(* SQS gives up on a message received MaxReceive times and not deleted.    *)
Redrive(m) ==
    /\ m.receives = MaxReceive
    /\ \A w \in Workers : pc[w] = "idle" \/ held[w] # m.id
    /\ queue' = queue \ {m}
    /\ dlq' = dlq \cup {m.id}
    /\ UNCHANGED <<rowVars, sessionVars, lock, nextId, held, requests,
                   verdicts>>

-----------------------------------------------------------------------------
SessionStep(s) ==
    \/ Flush(s)
    \/ FlushFails(s)
    \/ Commit(s)
    \/ s \in Workers /\ DeleteMessage(s)

Poll(w) ==
    \E m \in queue :
        \/ \E p \in Prediction : WorkerTakes(w, m, p)
        \/ WorkerSkips(w, m)

Ask(c, i) ==
    \/ \E severity \in Severities : BeginCreate(c, i, severity)
    \/ \E t \in StateMachine!Statuses : BeginTransition(c, i, t)
    \/ \E t \in StateMachine!Statuses, severity \in Severities :
          BeginAmend(c, i, t, severity)
    \/ BeginDelete(c, i)

Next ==
    \/ \E c \in Clients, i \in Incidents : Ask(c, i)
    \/ \E s \in Sessions : SessionStep(s) \/ Abort(s)
    \/ \E w \in Workers : Poll(w)
    \/ \E m \in queue : Redrive(m)

Spec == Init /\ [][Next]_vars

(* A started session goes on, a worker keeps polling and the redrive       *)
(* policy is applied; nobody has to send requests.                         *)
Fairness ==
    /\ \A s \in Sessions : WF_vars(SessionStep(s))
    /\ \A w \in Workers : WF_vars(Poll(w))
    /\ WF_vars(\E m \in queue : Redrive(m))

FairSpec == Spec /\ Fairness

-----------------------------------------------------------------------------
TypeOK ==
    /\ presence \in [Incidents -> Presence]
    /\ db \in [Incidents -> Row]
    /\ pc \in [Sessions -> Stages]
    /\ intent \in [Sessions -> Intents]
    /\ on \in [Sessions -> Incidents]
    /\ loaded \in [Sessions -> Row]
    /\ mine \in [Sessions -> Row]
    /\ lock \in [Incidents -> SUBSET Sessions]
    /\ queue \subseteq Message
    /\ dlq \subseteq Nat
    /\ nextId \in Nat
    /\ held \in [Workers -> Nat]
    /\ requests \in Nat
    /\ verdicts \in [Incidents -> SUBSET Prediction]
    /\ past \in [Incidents -> SUBSET StateMachine!Views]
    /\ overtaken \subseteq Incidents
    /\ amended \subseteq Incidents

(* Row r says nothing the predictions ps did not say.                      *)
Caused(r, ps) ==
    /\ r.isolated => [category |-> "severe", review |-> FALSE] \in ps
    /\ r.category # "none" => \E p \in ps : p.category = r.category
    /\ r.review => \E p \in ps : p.review = TRUE

(* However sessions overlap and whatever stale row was written last, an    *)
(* incident is marked as isolated only if the classifier was confident     *)
(* that it is severe, and it carries a category or asks for a review only  *)
(* if some prediction said so (incident_worker.py, classify_incident and   *)
(* _auto_contain).                                                         *)
IsolationHasCause == \A i \in Incidents : Caused(db[i], verdicts[i])

(* The verdict on row r is one prediction of ps.                           *)
Whole(r, ps) ==
    r.category # "none" =>
        [category |-> r.category, review |-> r.review] \in ps

(* Unless a session updated an incident by a row it had not read, the      *)
(* category and the review flag on record are those of one prediction,     *)
(* however often the message came back and whatever requests and PATCHes   *)
(* came in between; two classifications that overlap may leave a mixture   *)
(* (incident_worker.py, classify_incident).                                *)
VerdictIsWhole ==
    \A i \in Incidents \ overtaken : Whole(db[i], verdicts[i])

(* Only a PATCH, an automated containment, or a session that decided on a  *)
(* status another session has replaced meanwhile takes an incident where   *)
(* the table of transition_status would not (incident_service.py,          *)
(* transition_status).                                                     *)
OnlyStaleSessionsLeaveTheTable ==
    [][\A i \in Incidents :
          LET from == db[i].status
              to   == db'[i].status
          IN  (/\ presence[i] = "live"
               /\ from # to
               /\ to \notin StateMachine!NextStatuses[from])
              => \E s \in Sessions :
                    /\ pc[s] = "committing"
                    /\ on[s] = i
                    /\ \/ loaded[s].status # from
                       \/ intent[s] = "amend"
                       \/ s \in Workers /\ to = "contained"]_vars

(* Each commit is a move along the table, a containment or a PATCH decided *)
(* on a row the incident has had; where it is not the present row only the *)
(* decision's columns are merged into it, and the incident counts as       *)
(* overtaken.  A deleted incident stays deleted (incident_service.py,      *)
(* incident_worker.py; database.py).                                       *)
FollowsStateMachine == StateMachine!Spec

(* Unless a PATCH wrote the incident or a session updated it by a row it   *)
(* had not read, a closed incident has its closed_at, and until an         *)
(* automated containment only a closed one has: the containment alone      *)
(* leaves a stale closed_at (incident_service.py, transition_status;       *)
(* incident_worker.py, _auto_contain).                                     *)
ClosedAtTracksUntilContained ==
    \A i \in Incidents \ (overtaken \cup amended) :
        presence[i] = "live" =>
            /\ db[i].status = "closed" => db[i].closed
            /\ ~db[i].isolated => db[i].closed = (db[i].status = "closed")

(* On a FIFO queue, an incident on record whose message no worker has      *)
(* received yet is classified, unless it is deleted or a message lands in  *)
(* the dead-letter queue, however often workers die over it                *)
(* (workers/main.py, poll_queue).                                          *)
WaitingIsClassified ==
    \A i \in Incidents :
        presence[i] = "live" /\ Waiting(queue, i)
        ~> (db[i].category # "none" \/ presence[i] # "live" \/ dlq # {})
=============================================================================

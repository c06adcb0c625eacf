----------------------- MODULE IncidentHandlingProofs -----------------------
(***************************************************************************)
(* Proofs about IncidentHandling for every set of incidents, clients and   *)
(* workers and every bound.                                                *)
(***************************************************************************)
EXTENDS IncidentHandling, TLAPS

Abstract == INSTANCE IncidentStateMachineProofs WITH
    row <- [i \in Incidents |-> ViewOf(i)]

USE DEF Message, MessageAbout, Posted, Received, Deleted

(* The rows the handlers build are rows.                                   *)
LEMMA RowFacts ==
    /\ \A v \in Severities : Fresh(v) \in Row
    /\ \A r \in Row, t \in StateMachine!Statuses : Moved(r, t) \in Row
    /\ \A r \in Row, t \in StateMachine!Statuses, v \in Severities,
          k \in BOOLEAN :
          [r EXCEPT !.status = t, !.severity = v, !.isolated = k] \in Row
    /\ \A r \in Row, p \in Prediction : Classified(r, p) \in Row
<1> USE DEF Row, Severities, Categories, StateMachine!Statuses
<1>1. \A v \in Severities : Fresh(v) \in Row
  BY DEF Fresh
<1>2. ASSUME NEW r \in Row, NEW t \in StateMachine!Statuses
      PROVE  Moved(r, t) \in Row
  <2>1. StateMachine!ClosedAfter(t, r.closed) \in BOOLEAN
    BY DEF StateMachine!ClosedAfter
  <2> QED
    BY <2>1 DEF Moved
<1>3. ASSUME NEW r \in Row, NEW t \in StateMachine!Statuses,
             NEW v \in Severities, NEW k \in BOOLEAN
      PROVE  [r EXCEPT !.status = t, !.severity = v, !.isolated = k] \in Row
  OBVIOUS
<1>4. ASSUME NEW r \in Row, NEW p \in Prediction
      PROVE  Classified(r, p) \in Row
  BY DEF Classified, Prediction
<1> QED
  BY <1>1, <1>2, <1>3, <1>4

(* Merging rows yields a row.                                              *)
LEMMA WrittenIsRow ==
    \A cur, read, new \in Row : Written(cur, read, new) \in Row
  BY DEF Written, Flushed, Row

(* Receiving a message keeps the queue well formed.                        *)
LEMMA ReceiveFacts ==
    ASSUME TypeOK, NEW w \in Workers, NEW m \in queue, Receive(w, m)
    PROVE  /\ m.subject \in Featured
           /\ m.subject \in Incidents
           /\ queue' \subseteq Message
           /\ held' \in [Workers -> Nat]
<1>1. m \in Message
  BY DEF TypeOK
<1>2. [m EXCEPT !.receives = @ + 1] \in Message
  BY <1>1
<1> QED
  BY <1>1, <1>2, FeaturedAreIncidents DEF Receive, TypeOK

(* Every reachable state is well typed (the model of the incidents table,  *)
(* its sessions and its queue).                                            *)
THEOREM TypeCorrect == Spec => []TypeOK
<1>1. Init => TypeOK
  <2>1. Fresh("medium") \in Row
    BY RowFacts DEF Severities
  <2> QED
    BY <2>1 DEF Init, TypeOK, Presence, Stages, Intents, Updates
<1>2. TypeOK /\ [Next]_vars => TypeOK'
  <2> SUFFICES ASSUME TypeOK, [Next]_vars PROVE TypeOK'
    OBVIOUS
  <2> USE DEF TypeOK, Presence, Stages, Intents, Updates, sessionVars,
              queueVars, rowVars
  <2>1. ASSUME NEW s \in Sessions, NEW i \in Incidents,
               NEW what \in Intents, NEW stage \in Stages,
               NEW old \in Row, NEW new \in Row,
               Hold(s, i, what, stage, old, new)
        PROVE  /\ pc' \in [Sessions -> Stages]
               /\ intent' \in [Sessions -> Intents]
               /\ on' \in [Sessions -> Incidents]
               /\ loaded' \in [Sessions -> Row]
               /\ mine' \in [Sessions -> Row]
    BY <2>1 DEF Hold
  <2>2. ASSUME NEW c \in Clients, NEW i \in Incidents, NEW v \in Severities,
               BeginCreate(c, i, v)
        PROVE  TypeOK'
    <3>1. c \in Sessions /\ Fresh(v) \in Row
      BY RowFacts DEF Sessions
    <3>2. /\ pc' \in [Sessions -> Stages]
          /\ intent' \in [Sessions -> Intents]
          /\ on' \in [Sessions -> Incidents]
          /\ loaded' \in [Sessions -> Row]
          /\ mine' \in [Sessions -> Row]
      BY <2>1, <2>2, <3>1 DEF BeginCreate
    <3>3. queue' \subseteq Message /\ nextId' \in Nat
      BY <2>2 DEF BeginCreate
    <3>4. /\ presence' \in [Incidents -> Presence]
          /\ lock' \in [Incidents -> SUBSET Sessions]
          /\ requests' \in Nat
      BY <2>2, <3>1 DEF BeginCreate, Request
    <3> QED
      BY <2>2, <3>2, <3>3, <3>4 DEF BeginCreate
  <2>3. ASSUME NEW c \in Clients, NEW i \in Incidents,
               NEW what \in Intents, NEW new \in Row, Change(c, i, what, new)
        PROVE  TypeOK'
    <3>1. c \in Sessions /\ db[i] \in Row
      BY DEF Sessions
    <3>2. /\ pc' \in [Sessions -> Stages]
          /\ intent' \in [Sessions -> Intents]
          /\ on' \in [Sessions -> Incidents]
          /\ loaded' \in [Sessions -> Row]
          /\ mine' \in [Sessions -> Row]
      BY <2>1, <2>3, <3>1 DEF Change
    <3> QED
      BY <2>3, <3>2 DEF Change, Request
  <2>4. ASSUME NEW c \in Clients, NEW i \in Incidents, Ask(c, i)
        PROVE  TypeOK'
    <3>1. db[i] \in Row
      OBVIOUS
    <3>2. ASSUME NEW t \in StateMachine!Statuses, BeginTransition(c, i, t)
          PROVE  TypeOK'
      <4>1. Moved(db[i], t) \in Row
        BY <3>1, RowFacts
      <4> QED
        BY <2>3, <3>2, <4>1 DEF BeginTransition
    <3>3. ASSUME NEW t \in StateMachine!Statuses, NEW v \in Severities,
                 BeginAmend(c, i, t, v)
          PROVE  TypeOK'
      <4>1. db[i].isolated \in BOOLEAN
        BY <3>1 DEF Row
      <4>2. PICK k \in {db[i].isolated, FALSE} :
               Change(c, i, "amend",
                      [db[i] EXCEPT !.status = t, !.severity = v,
                                    !.isolated = k])
        BY <3>3 DEF BeginAmend
      <4>3. [db[i] EXCEPT !.status = t, !.severity = v, !.isolated = k]
              \in Row
        BY <3>1, <4>1, RowFacts
      <4> QED
        BY <2>3, <4>2, <4>3
    <3>4. ASSUME BeginDelete(c, i) PROVE TypeOK'
      BY <2>3, <3>1, <3>4 DEF BeginDelete
    <3> QED
      BY <2>2, <2>4, <3>2, <3>3, <3>4 DEF Ask
  <2>5. ASSUME NEW s \in Sessions, Flush(s) PROVE TypeOK'
    BY <2>5 DEF Flush
  <2>6. ASSUME NEW s \in Sessions, NEW stage \in Stages, Close(s, stage)
        PROVE  /\ pc' \in [Sessions -> Stages]
               /\ intent' \in [Sessions -> Intents]
               /\ on' \in [Sessions -> Incidents]
               /\ loaded' \in [Sessions -> Row]
               /\ mine' \in [Sessions -> Row]
    <3>1. Fresh("medium") \in Row
      BY RowFacts DEF Severities
    <3> QED
      BY <2>6, <3>1 DEF Close
  <2>7. ASSUME NEW s \in Sessions, FlushFails(s) PROVE TypeOK'
    BY <2>6, <2>7 DEF FlushFails
  <2>8. ASSUME NEW s \in Sessions, Commit(s) PROVE TypeOK'
    <3>1. Written(db[on[s]], loaded[s], mine[s]) \in Row
      BY WrittenIsRow
    <3>2. db' \in [Incidents -> Row]
      BY <2>8, <3>1 DEF Commit
    <3>3. /\ presence' \in [Incidents -> Presence]
          /\ lock' \in [Incidents -> SUBSET Sessions]
          /\ overtaken' \subseteq Incidents
          /\ amended' \subseteq Incidents
      BY <2>8 DEF Commit
    <3>4. past' \in [Incidents -> SUBSET StateMachine!Views]
      <4>1. /\ View(mine[s]) \in StateMachine!Views
            /\ View(db'[on[s]]) \in StateMachine!Views
        BY <3>2 DEF View, StateMachine!Views, Row
      <4> QED
        BY <2>8, <4>1 DEF Commit
    <3> QED
      BY <2>6, <2>8, <3>2, <3>3, <3>4 DEF Commit
  <2>9. ASSUME NEW s \in Sessions, Abort(s) PROVE TypeOK'
    <3>1. /\ presence' \in [Incidents -> Presence]
          /\ lock' \in [Incidents -> SUBSET Sessions]
      BY <2>9 DEF Abort
    <3> QED
      BY <2>6, <2>9, <3>1 DEF Abort
  <2>10. ASSUME NEW w \in Workers, NEW m \in queue, NEW p \in Prediction,
                WorkerTakes(w, m, p)
         PROVE  TypeOK'
    <3>1. /\ m.subject \in Incidents /\ queue' \subseteq Message
          /\ held' \in [Workers -> Nat] /\ w \in Sessions
      BY <2>10, ReceiveFacts DEF WorkerTakes, Sessions
    <3>2. /\ db[m.subject] \in Row
          /\ Classified(db[m.subject], p) \in Row
      BY <3>1, RowFacts
    <3>3. /\ pc' \in [Sessions -> Stages]
          /\ intent' \in [Sessions -> Intents]
          /\ on' \in [Sessions -> Incidents]
          /\ loaded' \in [Sessions -> Row]
          /\ mine' \in [Sessions -> Row]
      BY <2>1, <2>10, <3>1, <3>2 DEF WorkerTakes
    <3>4. verdicts' \in [Incidents -> SUBSET Prediction]
      BY <2>10 DEF WorkerTakes
    <3> QED
      BY <2>10, <3>1, <3>3, <3>4 DEF WorkerTakes, Receive
  <2>11. ASSUME NEW w \in Workers, NEW m \in queue, WorkerSkips(w, m)
         PROVE  TypeOK'
    BY <2>11, ReceiveFacts DEF WorkerSkips, Receive, Sessions
  <2>12. ASSUME NEW w \in Workers, DeleteMessage(w) PROVE TypeOK'
    BY <2>12 DEF DeleteMessage, Sessions
  <2>13. ASSUME NEW m \in queue, Redrive(m) PROVE TypeOK'
    BY <2>13 DEF Redrive
  <2>14. CASE UNCHANGED vars
    BY <2>14 DEF vars
  <2> QED
    BY <2>4, <2>5, <2>7, <2>8, <2>9, <2>10, <2>11, <2>12, <2>13, <2>14
    DEF Next, SessionStep, Poll
<1>3. QED
  BY <1>1, <1>2, PTL DEF Spec
-----------------------------------------------------------------------------
(* The inductive part of IsolationHasCause: what a session would write has *)
(* a cause as well, since it was read from a row that had one or comes     *)
(* from a prediction just made.                                            *)
EverythingCaused ==
    /\ IsolationHasCause
    /\ \A s \in Sessions : Caused(mine[s], verdicts[on[s]])

(* The merge of two caused rows is caused: its columns come from either.   *)
LEMMA WrittenIsCaused ==
    ASSUME NEW cur, NEW read, NEW new, NEW ps,
           Caused(cur, ps), Caused(new, ps)
    PROVE  Caused(Written(cur, read, new), ps)
<1> DEFINE r == Written(cur, read, new)
<1>1. /\ r.isolated \in {cur.isolated, new.isolated}
      /\ r.category \in {cur.category, new.category}
      /\ r.review \in {cur.review, new.review}
  BY DEF Written, Flushed
<1>2. CASE r.isolated = cur.isolated
  BY <1>1, <1>2 DEF Caused
<1>3. CASE r.isolated = new.isolated
  BY <1>1, <1>3 DEF Caused
<1> QED
  BY <1>1, <1>2, <1>3

(* A fresh row needs no cause.                                             *)
LEMMA FreshIsCaused ==
    ASSUME NEW v, NEW ps PROVE Caused(Fresh(v), ps)
  BY DEF Caused, Fresh

(* A move or an amendment keeps the causes.                                *)
LEMMA MovedIsCaused ==
    ASSUME NEW r \in Row, NEW ps, NEW t, Caused(r, ps)
    PROVE  Caused(Moved(r, t), ps)
<1>1. /\ Moved(r, t).isolated = r.isolated
      /\ Moved(r, t).category = r.category
      /\ Moved(r, t).review = r.review
  BY DEF Moved, Row
<1> QED
  BY <1>1 DEF Caused

LEMMA AmendedIsCaused ==
    ASSUME NEW r \in Row, NEW ps, NEW t, NEW v,
           NEW k \in {r.isolated, FALSE}, Caused(r, ps)
    PROVE  Caused([r EXCEPT !.status = t, !.severity = v, !.isolated = k], ps)
<1> DEFINE q == [r EXCEPT !.status = t, !.severity = v, !.isolated = k]
<1>1. q.isolated = k /\ q.category = r.category /\ q.review = r.review
  BY DEF Row
<1>2. q.isolated => r.isolated
  BY <1>1
<1> HIDE DEF q
<1> QED
  BY <1>1, <1>2 DEF Caused

(* A classification has its prediction as a cause.                         *)
LEMMA ClassifiedIsCaused ==
    ASSUME NEW r \in Row, NEW p \in Prediction,
           NEW ps \in SUBSET Prediction, Caused(r, ps)
    PROVE  Caused(Classified(r, p), ps \cup {p})
<1> DEFINE q == Classified(r, p)
           qs == ps \cup {p}
<1>1. /\ q.category = p.category
      /\ q.review = p.review
      /\ q.isolated => r.isolated \/ (p.category = "severe" /\ p.review = FALSE)
  BY DEF Classified, Prediction, Categories, Row, Severities
<1>2. q.isolated => [category |-> "severe", review |-> FALSE] \in qs
  <2>1. (p.category = "severe" /\ p.review = FALSE)
          => p = [category |-> "severe", review |-> FALSE]
    BY DEF Prediction
  <2> QED
    BY <1>1, <2>1 DEF Caused
<1>3. p \in qs /\ p.review \in BOOLEAN
  BY DEF Prediction
<1>4. q.category # "none" => \E d \in qs : d.category = q.category
  BY <1>1, <1>3
<1>5. q.review => \E d \in qs : d.review = TRUE
  BY <1>1, <1>3
<1> HIDE DEF q, qs
<1>6. Caused(q, qs)
  BY <1>2, <1>4, <1>5, Zenon DEF Caused
<1> QED
  BY <1>6 DEF q, qs

(* More predictions are no fewer causes.                                   *)
LEMMA CausesGrow ==
    ASSUME NEW r, NEW ps, NEW qs, ps \subseteq qs, Caused(r, ps)
    PROVE  Caused(r, qs)
  BY DEF Caused

(* IsolationHasCause holds in every reachable state: no interleaving of    *)
(* requests and redelivered messages marks an incident as isolated, gives  *)
(* it a category or asks for its review without a prediction that said so  *)
(* (incident_worker.py, classify_incident).                                *)
THEOREM IsolationCorrect == Spec => []IsolationHasCause
<1>1. Init => EverythingCaused
  BY FreshIsCaused DEF Init, EverythingCaused, IsolationHasCause
<1>2. TypeOK /\ EverythingCaused /\ [Next]_vars => EverythingCaused'
  <2> SUFFICES ASSUME TypeOK, EverythingCaused, [Next]_vars
               PROVE  EverythingCaused'
    OBVIOUS
  <2> USE DEF sessionVars, queueVars, rowVars
  <2>0. ASSUME db' = db, on' = on, mine' = mine, verdicts' = verdicts
        PROVE  EverythingCaused'
    BY <2>0 DEF EverythingCaused, IsolationHasCause
  <2>1. ASSUME NEW s \in Sessions, NEW i \in Incidents, NEW what, NEW stage,
               NEW old, NEW new, Hold(s, i, what, stage, old, new),
               Caused(new, verdicts'[i]), db' = db,
               \A j \in Incidents : verdicts[j] \subseteq verdicts'[j]
        PROVE  EverythingCaused'
    <3>1. IsolationHasCause'
      BY <2>1, CausesGrow DEF EverythingCaused, IsolationHasCause
    <3>2. mine'[s] = new /\ on'[s] = i
      BY <2>1 DEF Hold, TypeOK
    <3>3. ASSUME NEW t \in Sessions, t # s
          PROVE  Caused(mine'[t], verdicts'[on'[t]])
      <4>1. mine'[t] = mine[t] /\ on'[t] = on[t] /\ on[t] \in Incidents
        BY <2>1, <3>3 DEF Hold, TypeOK
      <4> QED
        BY <2>1, <4>1, CausesGrow DEF EverythingCaused
    <3> QED
      BY <2>1, <3>1, <3>2, <3>3 DEF EverythingCaused
  <2>2. ASSUME NEW s \in Sessions, NEW stage, Close(s, stage),
               verdicts' = verdicts,
               IsolationHasCause'
        PROVE  EverythingCaused'
    <3>1. mine'[s] = Fresh("medium") /\ on' = on
      BY <2>2 DEF Close, TypeOK
    <3>2. \A t \in Sessions \ {s} : mine'[t] = mine[t]
      BY <2>2 DEF Close, TypeOK
    <3> QED
      BY <2>2, <3>1, <3>2, FreshIsCaused DEF EverythingCaused
  <2>3. ASSUME NEW c \in Clients, NEW i \in Incidents, Ask(c, i)
        PROVE  EverythingCaused'
    <3>1. c \in Sessions /\ db[i] \in Row /\ Caused(db[i], verdicts[i])
      BY DEF Sessions, TypeOK, EverythingCaused, IsolationHasCause
    <3>2. ASSUME NEW v, BeginCreate(c, i, v) PROVE EverythingCaused'
      <4>1. Caused(Fresh(v), verdicts'[i])
        BY FreshIsCaused
      <4>2. db' = db /\ verdicts' = verdicts
        BY <3>2 DEF BeginCreate
      <4> QED
        BY <2>1, <3>1, <3>2, <4>1, <4>2 DEF BeginCreate
    <3>3. ASSUME NEW what, NEW new, Change(c, i, what, new),
                 Caused(new, verdicts[i])
          PROVE  EverythingCaused'
      <4>1. db' = db /\ verdicts' = verdicts
        BY <3>3 DEF Change
      <4> QED
        BY <2>1, <3>1, <3>3, <4>1 DEF Change
    <3>4. ASSUME NEW t, BeginTransition(c, i, t) PROVE EverythingCaused'
      BY <3>1, <3>3, <3>4, MovedIsCaused DEF BeginTransition
    <3>5. ASSUME NEW t, NEW v, BeginAmend(c, i, t, v)
          PROVE  EverythingCaused'
      <4>1. PICK k \in {db[i].isolated, FALSE} :
               Change(c, i, "amend",
                      [db[i] EXCEPT !.status = t, !.severity = v,
                                    !.isolated = k])
        BY <3>5 DEF BeginAmend
      <4>2. Caused([db[i] EXCEPT !.status = t, !.severity = v,
                                 !.isolated = k], verdicts[i])
        BY <3>1, AmendedIsCaused
      <4> QED
        BY <3>3, <4>1, <4>2
    <3>6. ASSUME BeginDelete(c, i) PROVE EverythingCaused'
      BY <3>1, <3>3, <3>6 DEF BeginDelete
    <3> QED
      BY <2>3, <3>2, <3>4, <3>5, <3>6 DEF Ask
  <2>4. ASSUME NEW s \in Sessions, Flush(s) PROVE EverythingCaused'
    BY <2>0, <2>4 DEF Flush
  <2>5. ASSUME NEW s \in Sessions, FlushFails(s) PROVE EverythingCaused'
    BY <2>2, <2>5 DEF FlushFails, EverythingCaused, IsolationHasCause
  <2>6. ASSUME NEW s \in Sessions, Commit(s) PROVE EverythingCaused'
    <3> DEFINE i == on[s]
               ps == verdicts[i]
    <3>1. i \in Incidents /\ Caused(db[i], ps) /\ Caused(mine[s], ps)
      BY DEF TypeOK, EverythingCaused, IsolationHasCause
    <3>2. \/ db' = db
          \/ db' = [db EXCEPT ![i] = mine[s]]
          \/ db' = [db EXCEPT ![i] = Written(db[i], loaded[s], mine[s])]
      BY <2>6 DEF Commit
    <3>3. Caused(Written(db[i], loaded[s], mine[s]), ps)
      BY <3>1, WrittenIsCaused
    <3>4. Caused(db'[i], ps)
      BY <3>1, <3>2, <3>3 DEF TypeOK
    <3>5. \A j \in Incidents : j # i => db'[j] = db[j]
      BY <3>2 DEF TypeOK
    <3>6. verdicts' = verdicts
      BY <2>6 DEF Commit
    <3>7. IsolationHasCause'
      BY <3>4, <3>5, <3>6 DEF EverythingCaused, IsolationHasCause
    <3> QED
      BY <2>2, <2>6, <3>6, <3>7 DEF Commit
  <2>7. ASSUME NEW s \in Sessions, Abort(s) PROVE EverythingCaused'
    BY <2>2, <2>7 DEF Abort, EverythingCaused, IsolationHasCause
  <2>8. ASSUME NEW w \in Workers, NEW m \in queue, NEW p \in Prediction,
               WorkerTakes(w, m, p)
        PROVE  EverythingCaused'
    <3> DEFINE i == m.subject
    <3>1. w \in Sessions /\ i \in Incidents /\ db' = db
      BY <2>8, ReceiveFacts DEF WorkerTakes, Receive, Sessions
    <3>2. /\ db[i] \in Row /\ Caused(db[i], verdicts[i])
          /\ verdicts[i] \in SUBSET Prediction
      BY <3>1 DEF TypeOK, EverythingCaused, IsolationHasCause
    <3>3. verdicts' = [verdicts EXCEPT ![i] = @ \cup {p}]
      BY <2>8 DEF WorkerTakes
    <3>4. /\ verdicts'[i] = verdicts[i] \cup {p}
          /\ \A j \in Incidents : verdicts[j] \subseteq verdicts'[j]
      BY <3>1, <3>3 DEF TypeOK
    <3>5. Caused(Classified(db[i], p), verdicts'[i])
      BY <3>2, <3>4, ClassifiedIsCaused
    <3>6. Hold(w, i, "update", "flushing", db[i], Classified(db[i], p))
      BY <2>8 DEF WorkerTakes
    <3> QED
      BY <2>1, <3>1, <3>4, <3>5, <3>6
  <2>9. ASSUME NEW w \in Workers, NEW m \in queue, WorkerSkips(w, m)
        PROVE  EverythingCaused'
    BY <2>0, <2>9 DEF WorkerSkips, Receive
  <2>10. ASSUME NEW w \in Workers, DeleteMessage(w) PROVE EverythingCaused'
    BY <2>0, <2>10 DEF DeleteMessage
  <2>11. ASSUME NEW m \in queue, Redrive(m) PROVE EverythingCaused'
    BY <2>0, <2>11 DEF Redrive
  <2>12. CASE UNCHANGED vars
    BY <2>0, <2>12 DEF vars
  <2> QED
    BY <2>3, <2>4, <2>5, <2>6, <2>7, <2>8, <2>9, <2>10, <2>11, <2>12
    DEF Next, SessionStep, Poll
<1>3. EverythingCaused => IsolationHasCause
  BY DEF EverythingCaused
<1>4. QED
  BY <1>1, <1>2, <1>3, TypeCorrect, PTL DEF Spec
-----------------------------------------------------------------------------
(* What a session that writes with `what` has decided on the row it read:  *)
(* an update moves it along the table, contains it or leaves alone what    *)
(* the state machine sees; a PATCH amends it.                              *)
Decided(s, what, old, new) ==
    /\ what = "update" =>
          \/ View(new) = View(old)
          \/ View(new) \in StateMachine!Moves(View(old))
          \/ s \in Workers /\ View(new) = StateMachine!Contained(View(old))
    /\ what = "amend" => View(new) \in StateMachine!Amended(View(old))

Busy(s) == pc[s] \notin {"idle", "acking"}

(* A session between flush and commit has the row lock.  A row being       *)
(* inserted is its session's own and is new; any other row in hand was on  *)
(* record when it was read, and is still there once its UPDATE has the     *)
(* lock.                                                                   *)
InHand(s) ==
    /\ pc[s] = "committing" => lock[on[s]] = {s}
    /\ intent[s] = "insert"
         => /\ pc[s] = "committing"
            /\ presence[on[s]] = "inserted"
            /\ View(mine[s]) = StateMachine!New
            /\ mine[s].category = "none"
    /\ intent[s] # "insert"
         => /\ presence[on[s]] \in {"live", "deleted"}
            /\ View(loaded[s]) \in past[on[s]]
    /\ pc[s] = "committing" /\ intent[s] \in Updates
         => presence[on[s]] = "live"
    /\ Decided(s, intent[s], loaded[s], mine[s])

(* What sessions have in hand, overlapping or not; the verdict they would  *)
(* write is whole unless they read one that was overtaken.                 *)
SessionsDecide ==
    /\ \A i \in Incidents : presence[i] = "live" => View(db[i]) \in past[i]
    /\ \A s \in Sessions : Busy(s) => InHand(s)
    /\ \A s \in Sessions :
          Busy(s) /\ on[s] \notin overtaken
            => Whole(mine[s], verdicts[on[s]])
    /\ VerdictIsWhole

(* A write into the row the session read is the session's row.             *)
LEMMA WrittenUndisturbed ==
    \A r, new \in Row : Written(r, r, new) = new
  BY DEF Written, Flushed, Row

(* Moves, amendments and classifications are decisions that keep a verdict *)
(* whole.                                                                  *)
LEMMA MovedIsDecided ==
    ASSUME NEW s, NEW r \in Row, NEW ps,
           NEW t \in StateMachine!NextStatuses[r.status]
    PROVE  /\ Decided(s, "update", r, Moved(r, t))
           /\ Whole(r, ps) => Whole(Moved(r, t), ps)
<1> DEFINE q == Moved(r, t)
<1>1. /\ q.status = t /\ q.isolated = r.isolated
      /\ q.closed = StateMachine!ClosedAfter(t, r.closed)
      /\ q.category = r.category /\ q.review = r.review
  BY DEF Moved, Row
<1>2. View(q) = StateMachine!View(t, StateMachine!ClosedAfter(t, r.closed),
                                  r.isolated)
  BY <1>1 DEF View, StateMachine!View
<1>3. View(r).status = r.status /\ View(r).closed = r.closed
      /\ View(r).isolated = r.isolated
  BY DEF View
<1>4. View(q) \in StateMachine!Moves(View(r))
  BY <1>2, <1>3 DEF StateMachine!Moves
<1> HIDE DEF q
<1>5. Decided(s, "update", r, q) /\ (Whole(r, ps) => Whole(q, ps))
  BY <1>1, <1>4 DEF Decided, Whole
<1> QED
  BY <1>5 DEF q

LEMMA AmendedIsDecided ==
    ASSUME NEW s, NEW r \in Row, NEW ps, NEW t \in StateMachine!Statuses,
           NEW v, NEW k \in {r.isolated, FALSE}
    PROVE  LET q == [r EXCEPT !.status = t, !.severity = v, !.isolated = k]
           IN  /\ Decided(s, "amend", r, q)
               /\ Whole(r, ps) => Whole(q, ps)
<1> DEFINE q == [r EXCEPT !.status = t, !.severity = v, !.isolated = k]
<1>1. /\ q.status = t /\ q.isolated = k /\ q.closed = r.closed
      /\ q.category = r.category /\ q.review = r.review
      /\ r.closed \in BOOLEAN /\ k \in BOOLEAN
  BY DEF Row
<1> HIDE DEF q
<1>2. View(q) \in StateMachine!Amended(View(r))
  BY <1>1 DEF View, StateMachine!Amended, StateMachine!Views
<1>3. Decided(s, "amend", r, q) /\ (Whole(r, ps) => Whole(q, ps))
  BY <1>1, <1>2 DEF Decided, Whole
<1> QED
  BY <1>3 DEF q

LEMMA ClassifiedIsDecided ==
    ASSUME NEW w \in Workers, NEW r \in Row, NEW p \in Prediction,
           NEW ps, p \in ps
    PROVE  /\ Decided(w, "update", r, Classified(r, p))
           /\ Whole(Classified(r, p), ps)
<1> DEFINE q == Classified(r, p)
<1>1. /\ q.closed = r.closed
      /\ q.category = p.category /\ q.review = p.review
      /\ \/ q.status = "contained" /\ q.isolated = TRUE
         \/ q.status = r.status /\ q.isolated = r.isolated
  BY DEF Classified, Row
<1>2. [category |-> p.category, review |-> p.review] = p
  BY DEF Prediction
<1> HIDE DEF q
<1>3. \/ View(q) = View(r)
      \/ View(q) = StateMachine!Contained(View(r))
  BY <1>1 DEF View, StateMachine!Contained, StateMachine!View
<1>4. Decided(w, "update", r, q) /\ Whole(q, ps)
  BY <1>1, <1>2, <1>3 DEF Decided, Whole
<1> QED
  BY <1>4 DEF q

(* More predictions leave a verdict whole.                                 *)
LEMMA WholeGrows ==
    ASSUME NEW r, NEW ps, NEW qs, ps \subseteq qs, Whole(r, ps)
    PROVE  Whole(r, qs)
  BY DEF Whole

(* Each step keeps what sessions have in hand, overlapping or not.         *)
LEMMA SessionsDecideInductive ==
    ASSUME TypeOK, TypeOK', SessionsDecide, [Next]_vars
    PROVE  SessionsDecide'
<1> USE DEF sessionVars, queueVars, rowVars
<1>1. ASSUME NEW s \in Sessions, NEW i \in Incidents, NEW what, NEW stage,
             NEW old, NEW new, Hold(s, i, what, stage, old, new), ~Busy(s),
             Decided(s, what, old, new),
             UNCHANGED <<db, past, overtaken>>,
             i \notin overtaken => Whole(new, verdicts'[i]),
             \A j \in Incidents : verdicts[j] \subseteq verdicts'[j],
             \/ /\ what # "insert" /\ stage = "flushing"
                /\ presence' = presence /\ presence[i] = "live"
                /\ old = db[i] /\ lock' = lock
             \/ /\ what = "insert" /\ stage = "committing"
                /\ presence' = [presence EXCEPT ![i] = "inserted"]
                /\ presence[i] = "absent"
                /\ View(new) = StateMachine!New /\ new.category = "none"
                /\ lock' = [lock EXCEPT ![i] = {s}]
      PROVE  SessionsDecide'
  <2>1. /\ pc'[s] = stage /\ intent'[s] = what /\ on'[s] = i
        /\ loaded'[s] = old /\ mine'[s] = new
        /\ \A t \in Sessions \ {s} :
              /\ pc'[t] = pc[t] /\ intent'[t] = intent[t]
              /\ on'[t] = on[t] /\ loaded'[t] = loaded[t]
              /\ mine'[t] = mine[t]
    BY <1>1 DEF Hold, TypeOK
  <2>2. InHand(s)'
    <3>1. CASE what = "insert"
      BY <1>1, <2>1, <3>1 DEF InHand, TypeOK, Decided, Updates
    <3>2. CASE what # "insert"
      BY <1>1, <2>1, <3>2 DEF InHand, TypeOK, Decided, SessionsDecide
    <3> QED
      BY <3>1, <3>2
  <2>3. ASSUME NEW t \in Sessions \ {s}, Busy(t) PROVE InHand(t)'
    <3>1. InHand(t) /\ on[t] \in Incidents
      BY <2>3 DEF SessionsDecide, TypeOK
    <3>2. presence[on[t]] \in {"inserted", "live", "deleted"}
      BY <3>1 DEF InHand
    <3>3. presence'[on[t]] = presence[on[t]] /\ lock'[on[t]] = lock[on[t]]
      BY <1>1, <3>1, <3>2 DEF TypeOK
    <3> QED
      BY <1>1, <2>1, <3>1, <3>3 DEF InHand, Decided
  <2>4. \A t \in Sessions : Busy(t)' => InHand(t)'
    BY <2>1, <2>2, <2>3 DEF Busy
  <2>5. ASSUME NEW t \in Sessions, Busy(t)', on'[t] \notin overtaken'
        PROVE  Whole(mine'[t], verdicts'[on'[t]])
    <3>1. CASE t = s
      BY <1>1, <2>1, <2>5, <3>1
    <3>2. CASE t # s
      <4>1. /\ Busy(t) /\ on[t] \notin overtaken /\ on[t] \in Incidents
            /\ mine'[t] = mine[t] /\ on'[t] = on[t]
        BY <1>1, <2>1, <2>5, <3>2 DEF Busy, TypeOK
      <4> QED
        BY <1>1, <4>1, WholeGrows DEF SessionsDecide
    <3> QED
      BY <3>1, <3>2
  <2>6. VerdictIsWhole'
    BY <1>1, WholeGrows DEF SessionsDecide, VerdictIsWhole
  <2>7. \A j \in Incidents : presence'[j] = "live" => View(db'[j]) \in past'[j]
    <3>1. \A j \in Incidents : presence'[j] = "live" => presence[j] = "live"
      BY <1>1 DEF TypeOK
    <3> QED
      BY <1>1, <3>1 DEF SessionsDecide, View
  <2> QED
    BY <2>4, <2>5, <2>6, <2>7 DEF SessionsDecide
<1>2. ASSUME NEW s \in Sessions, pc'[s] \in {"idle", "acking"},
             on' = on, verdicts' = verdicts,
             overtaken \subseteq overtaken',
             \A i \in Incidents : past[i] \subseteq past'[i],
             \A i \in Incidents :
                presence'[i] = "live" => View(db'[i]) \in past'[i],
             VerdictIsWhole',
             \A t \in Sessions \ {s} :
                /\ pc'[t] = pc[t] /\ intent'[t] = intent[t]
                /\ loaded'[t] = loaded[t] /\ mine'[t] = mine[t]
                /\ Busy(t) =>
                     /\ pc[t] = "committing"
                          => /\ presence'[on[t]] = presence[on[t]]
                             /\ lock'[on[t]] = lock[on[t]]
                     /\ \/ presence'[on[t]] = presence[on[t]]
                        \/ presence'[on[t]] \in {"live", "deleted"}
      PROVE  SessionsDecide'
  <2>1. ~Busy(s)'
    BY <1>2 DEF Busy
  <2>2. ASSUME NEW t \in Sessions, Busy(t)' PROVE InHand(t)'
    <3>1. t \in Sessions \ {s} /\ Busy(t) /\ InHand(t) /\ on[t] \in Incidents
      BY <1>2, <2>1, <2>2 DEF SessionsDecide, Busy, TypeOK
    <3>2. pc[t] # "committing" => intent[t] # "insert"
      BY <3>1 DEF InHand
    <3> QED
      BY <1>2, <3>1, <3>2 DEF InHand, Decided
  <2>3. ASSUME NEW t \in Sessions, Busy(t)', on'[t] \notin overtaken'
        PROVE  Whole(mine'[t], verdicts'[on'[t]])
    <3>1. t \in Sessions \ {s} /\ Busy(t)
      BY <1>2, <2>1, <2>3 DEF Busy
    <3> QED
      BY <1>2, <2>3, <3>1 DEF SessionsDecide
  <2> QED
    BY <1>2, <2>2, <2>3 DEF SessionsDecide
<1>3. ASSUME NEW c \in Clients, NEW i \in Incidents, Ask(c, i)
      PROVE  SessionsDecide'
  <2>1. /\ c \in Sessions /\ db[i] \in Row
        /\ i \notin overtaken => Whole(db[i], verdicts[i])
    BY DEF Sessions, TypeOK, SessionsDecide, VerdictIsWhole
  <2>2. ASSUME NEW v, BeginCreate(c, i, v) PROVE SessionsDecide'
    <3>1. /\ Hold(c, i, "insert", "committing", Fresh(v), Fresh(v))
          /\ ~Busy(c) /\ presence[i] = "absent"
          /\ presence' = [presence EXCEPT ![i] = "inserted"]
          /\ lock' = [lock EXCEPT ![i] = {c}]
          /\ UNCHANGED <<db, past, overtaken, verdicts>>
      BY <2>2 DEF BeginCreate, Request, Busy
    <3>2. /\ Decided(c, "insert", Fresh(v), Fresh(v))
          /\ View(Fresh(v)) = StateMachine!New
          /\ Fresh(v).category = "none"
          /\ Whole(Fresh(v), verdicts'[i])
      BY DEF Decided, View, Fresh, StateMachine!New, StateMachine!View, Whole
    <3> QED
      BY <1>1, <2>1, <3>1, <3>2
  <2>3. ASSUME NEW what \in {"update", "amend", "delete"}, NEW new,
               Change(c, i, what, new), Decided(c, what, db[i], new),
               i \notin overtaken => Whole(new, verdicts[i])
        PROVE  SessionsDecide'
    <3>1. /\ Hold(c, i, what, "flushing", db[i], new)
          /\ ~Busy(c) /\ presence[i] = "live"
          /\ UNCHANGED <<presence, lock, db, past, overtaken, verdicts>>
      BY <2>3 DEF Change, Request, Busy
    <3> QED
      BY <1>1, <2>1, <2>3, <3>1
  <2>4. ASSUME NEW t, BeginTransition(c, i, t) PROVE SessionsDecide'
    BY <2>1, <2>3, <2>4, MovedIsDecided DEF BeginTransition
  <2>5. ASSUME NEW t \in StateMachine!Statuses, NEW v, BeginAmend(c, i, t, v)
        PROVE  SessionsDecide'
    <3>1. PICK k \in {db[i].isolated, FALSE} :
             Change(c, i, "amend",
                    [db[i] EXCEPT !.status = t, !.severity = v,
                                  !.isolated = k])
      BY <2>5 DEF BeginAmend
    <3> QED
      BY <2>1, <2>3, <3>1, AmendedIsDecided
  <2>6. ASSUME BeginDelete(c, i) PROVE SessionsDecide'
    BY <2>1, <2>3, <2>6 DEF BeginDelete, Decided
  <2> QED
    BY <1>3, <2>2, <2>4, <2>5, <2>6 DEF Ask
<1>4. ASSUME NEW s \in Sessions, Flush(s) PROVE SessionsDecide'
  <2>1. /\ pc[s] = "flushing" /\ Busy(s) /\ pc'[s] = "committing"
        /\ lock[on[s]] = {} /\ lock' = [lock EXCEPT ![on[s]] = {s}]
        /\ presence[on[s]] = "live" \/ intent[s] = "delete"
        /\ \A t \in Sessions \ {s} : pc'[t] = pc[t]
        /\ UNCHANGED <<presence, db, past, overtaken, intent, on, loaded,
                       mine, verdicts>>
    BY <1>4 DEF Flush, TypeOK, Busy
  <2>2. InHand(s)'
    <3>1. InHand(s) /\ on[s] \in Incidents
      BY <2>1 DEF SessionsDecide, TypeOK
    <3> QED
      BY <2>1, <3>1 DEF InHand, Decided, TypeOK, Updates
  <2>3. ASSUME NEW t \in Sessions \ {s}, Busy(t) PROVE InHand(t)'
    <3>1. InHand(t) /\ on[t] \in Incidents
      BY <2>3 DEF SessionsDecide, TypeOK
    <3>2. pc[t] = "committing" => lock'[on[t]] = lock[on[t]]
      BY <2>1, <3>1 DEF InHand, TypeOK
    <3> QED
      BY <2>1, <3>1, <3>2 DEF InHand, Decided
  <2>4. \A t \in Sessions : Busy(t)' => InHand(t)' /\ Busy(t)
    BY <2>1, <2>2, <2>3 DEF Busy
  <2> QED
    BY <2>1, <2>4 DEF SessionsDecide, VerdictIsWhole
<1>5. ASSUME NEW s \in Sessions, FlushFails(s) PROVE SessionsDecide'
  <2>1. /\ pc'[s] = "idle"
        /\ UNCHANGED <<presence, db, past, overtaken, on, lock, verdicts>>
        /\ \A t \in Sessions \ {s} :
              /\ pc'[t] = pc[t] /\ intent'[t] = intent[t]
              /\ loaded'[t] = loaded[t] /\ mine'[t] = mine[t]
    BY <1>5 DEF FlushFails, Close, TypeOK
  <2>2. VerdictIsWhole'
    BY <2>1 DEF SessionsDecide, VerdictIsWhole
  <2> QED
    BY <1>2, <2>1, <2>2 DEF SessionsDecide, View
<1>6. ASSUME NEW s \in Sessions, Commit(s) PROVE SessionsDecide'
  <2> DEFINE i == on[s]
  <2>1. /\ pc[s] = "committing"
        /\ pc'[s] \in {"idle", "acking"} /\ on' = on /\ verdicts' = verdicts
        /\ lock' = [lock EXCEPT ![i] = {}]
        /\ \A t \in Sessions \ {s} :
              /\ pc'[t] = pc[t] /\ intent'[t] = intent[t]
              /\ loaded'[t] = loaded[t] /\ mine'[t] = mine[t]
    BY <1>6 DEF Commit, Close, TypeOK
  <2>2. Busy(s) /\ InHand(s) /\ i \in Incidents
    BY <2>1 DEF Busy, SessionsDecide, TypeOK
  <2>3. /\ \A j \in Incidents \ {i} :
              /\ presence'[j] = presence[j] /\ db'[j] = db[j]
              /\ past'[j] = past[j]
              /\ j \in overtaken' <=> j \in overtaken
        /\ past[i] \subseteq past'[i] /\ overtaken \subseteq overtaken'
        /\ presence'[i] \in {"live", "deleted"}
    BY <1>6, <2>2 DEF Commit, TypeOK, InHand
  <2>4. ASSUME NEW t \in Sessions \ {s}, Busy(t)
        PROVE  /\ pc[t] = "committing"
                    => /\ presence'[on[t]] = presence[on[t]]
                       /\ lock'[on[t]] = lock[on[t]]
               /\ \/ presence'[on[t]] = presence[on[t]]
                  \/ presence'[on[t]] \in {"live", "deleted"}
    <3>1. InHand(t) /\ on[t] \in Incidents
      BY <2>4 DEF SessionsDecide, TypeOK
    <3>2. pc[t] = "committing" => on[t] # i
      BY <2>1, <2>2, <3>1 DEF InHand
    <3> QED
      BY <2>1, <2>3, <3>1, <3>2 DEF TypeOK
  <2>5. /\ presence'[i] = "live" => View(db'[i]) \in past'[i]
        /\ i \notin overtaken' => Whole(db'[i], verdicts[i])
    <3>1. CASE intent[s] = "insert"
      <4>1. /\ db'[i] = mine[s]
            /\ past'[i] = past[i] \cup {View(mine[s])}
            /\ mine[s].category = "none"
        BY <1>6, <2>2, <3>1 DEF Commit, InHand, TypeOK, Updates
      <4> QED
        BY <4>1 DEF Whole
    <3>2. CASE intent[s] \in Updates
      <4>1. /\ db'[i] = Written(db[i], loaded[s], mine[s])
            /\ past'[i] = past[i] \cup {View(db'[i])}
            /\ overtaken' = IF loaded[s] = db[i] THEN overtaken
                            ELSE overtaken \cup {i}
        BY <1>6, <2>2, <3>2 DEF Commit, TypeOK, Updates
      <4>2. i \notin overtaken' => db'[i] = mine[s] /\ i \notin overtaken
        BY <2>2, <4>1, WrittenUndisturbed DEF TypeOK
      <4>3. i \notin overtaken' => Whole(mine[s], verdicts[i])
        BY <2>2, <4>2 DEF SessionsDecide
      <4> QED
        BY <4>1, <4>2, <4>3
    <3>3. CASE intent[s] = "delete"
      <4>1. /\ db' = db /\ overtaken' = overtaken
            /\ presence'[i] = "deleted"
        BY <1>6, <2>2, <3>3 DEF Commit, TypeOK, Updates
      <4> QED
        BY <2>2, <4>1 DEF SessionsDecide, VerdictIsWhole
    <3> QED
      BY <3>1, <3>2, <3>3 DEF TypeOK, Intents, Updates
  <2>6. VerdictIsWhole'
    BY <2>1, <2>3, <2>5 DEF SessionsDecide, VerdictIsWhole
  <2>7. \A j \in Incidents : presence'[j] = "live" => View(db'[j]) \in past'[j]
    BY <2>3, <2>5 DEF SessionsDecide
  <2>8. \A j \in Incidents : past[j] \subseteq past'[j]
    BY <2>3
  <2> QED
    BY <1>2, <2>1, <2>3, <2>4, <2>6, <2>7, <2>8
<1>7. ASSUME NEW s \in Sessions, Abort(s) PROVE SessionsDecide'
  <2>1. /\ pc'[s] = "idle"
        /\ UNCHANGED <<db, past, overtaken, on, verdicts>>
        /\ lock' = [lock EXCEPT ![on[s]] = @ \ {s}]
        /\ \A t \in Sessions \ {s} :
              /\ pc'[t] = pc[t] /\ intent'[t] = intent[t]
              /\ loaded'[t] = loaded[t] /\ mine'[t] = mine[t]
    BY <1>7 DEF Abort, Close, TypeOK
  <2>2. VerdictIsWhole'
    BY <2>1 DEF SessionsDecide, VerdictIsWhole
  <2>3. \/ presence' = presence
        \/ /\ presence' = [presence EXCEPT ![on[s]] = "lost"]
           /\ lock[on[s]] = {s} /\ presence[on[s]] = "inserted"
    <3>1. CASE pc[s] = "committing" /\ intent[s] = "insert"
      BY <1>7, <3>1 DEF Abort, SessionsDecide, Busy, InHand
    <3>2. CASE ~(pc[s] = "committing" /\ intent[s] = "insert")
      BY <1>7, <3>2 DEF Abort
    <3> QED
      BY <3>1, <3>2
  <2>4. ASSUME NEW t \in Sessions \ {s}, Busy(t)
        PROVE  /\ presence'[on[t]] = presence[on[t]]
               /\ pc[t] = "committing" => lock'[on[t]] = lock[on[t]]
    <3>1. InHand(t) /\ on[t] \in Incidents /\ on[s] \in Incidents
      BY <2>4 DEF SessionsDecide, TypeOK
    <3>2. pc[t] = "committing" => lock'[on[t]] = lock[on[t]]
      BY <2>1, <3>1 DEF InHand, TypeOK
    <3>3. presence[on[s]] = "inserted" /\ lock[on[s]] = {s}
            => on[t] # on[s]
      BY <3>1 DEF InHand
    <3> QED
      BY <2>3, <3>1, <3>2, <3>3 DEF TypeOK
  <2>5. \A i \in Incidents : presence'[i] = "live" => View(db'[i]) \in past'[i]
    <3>1. \A i \in Incidents : presence'[i] = "live" => presence[i] = "live"
      BY <2>3 DEF TypeOK
    <3> QED
      BY <2>1, <3>1 DEF SessionsDecide, View
  <2> QED
    BY <1>2, <2>1, <2>2, <2>4, <2>5
<1>8. ASSUME NEW w \in Workers, NEW m \in queue, NEW p \in Prediction,
             WorkerTakes(w, m, p)
      PROVE  SessionsDecide'
  <2> DEFINE i == m.subject
  <2>1. /\ w \in Sessions /\ i \in Incidents /\ ~Busy(w)
        /\ presence[i] = "live"
        /\ UNCHANGED <<presence, lock, db, past, overtaken>>
    BY <1>8, ReceiveFacts DEF WorkerTakes, Receive, Sessions, Busy
  <2>2. /\ db[i] \in Row
        /\ verdicts' = [verdicts EXCEPT ![i] = @ \cup {p}]
    BY <1>8, <2>1 DEF TypeOK, WorkerTakes
  <2>3. /\ p \in verdicts'[i]
        /\ \A j \in Incidents : verdicts[j] \subseteq verdicts'[j]
    BY <2>1, <2>2 DEF TypeOK
  <2>4. Hold(w, i, "update", "flushing", db[i], Classified(db[i], p))
    BY <1>8 DEF WorkerTakes
  <2>5. /\ Decided(w, "update", db[i], Classified(db[i], p))
        /\ Whole(Classified(db[i], p), verdicts'[i])
    BY <2>2, <2>3, ClassifiedIsDecided
  <2> QED
    BY <1>1, <2>1, <2>3, <2>4, <2>5
<1>9. ASSUME NEW s \in Sessions, pc'[s] \in {"idle", "acking"},
             \A t \in Sessions \ {s} : pc'[t] = pc[t],
             UNCHANGED <<presence, db, past, overtaken, intent, on, loaded,
                         mine, lock, verdicts>>
      PROVE  SessionsDecide'
  <2>1. VerdictIsWhole'
    BY <1>9 DEF SessionsDecide, VerdictIsWhole
  <2> QED
    BY <1>2, <1>9, <2>1 DEF SessionsDecide, View
<1>10. ASSUME NEW w \in Workers, NEW m \in queue, WorkerSkips(w, m)
       PROVE  SessionsDecide'
  <2>1. /\ w \in Sessions /\ pc'[w] \in {"idle", "acking"}
        /\ \A t \in Sessions \ {w} : pc'[t] = pc[t]
    BY <1>10 DEF WorkerSkips, Receive, Sessions, TypeOK
  <2> QED
    BY <1>9, <1>10, <2>1 DEF WorkerSkips, Receive
<1>11. ASSUME NEW w \in Workers, DeleteMessage(w) PROVE SessionsDecide'
  <2>1. /\ w \in Sessions /\ pc'[w] \in {"idle", "acking"}
        /\ \A t \in Sessions \ {w} : pc'[t] = pc[t]
    BY <1>11 DEF DeleteMessage, Sessions, TypeOK
  <2> QED
    BY <1>9, <1>11, <2>1 DEF DeleteMessage
<1>12. ASSUME UNCHANGED <<presence, db, past, overtaken, pc, intent, on,
                          loaded, mine, lock, verdicts>>
       PROVE  SessionsDecide'
  BY <1>12 DEF SessionsDecide, VerdictIsWhole, InHand, Busy, Decided, View
<1> QED
  BY <1>3, <1>4, <1>5, <1>6, <1>7, <1>8, <1>10, <1>11, <1>12
  DEF Next, SessionStep, Poll, Redrive, vars

(* Initially nothing is in hand.                                           *)
LEMMA SessionsStart == Init => SessionsDecide
  BY DEF Init, SessionsDecide, Busy, VerdictIsWhole, Whole, Fresh

(* SessionsDecide holds in every reachable state.                          *)
LEMMA SessionsAlwaysDecide == Spec => []SessionsDecide
<1>1. TypeOK /\ TypeOK' /\ SessionsDecide /\ [Next]_vars => SessionsDecide'
  BY SessionsDecideInductive
<1> QED
  BY <1>1, SessionsStart, TypeCorrect, PTL DEF Spec

(* Unless a session updated an incident by a row it had not read, the      *)
(* category and the review flag on record are those of one prediction      *)
(* (incident_worker.py, classify_incident).                                *)
THEOREM VerdictsAreWhole == Spec => []VerdictIsWhole
<1>1. SessionsDecide => VerdictIsWhole
  BY DEF SessionsDecide
<1> QED
  BY <1>1, SessionsAlwaysDecide, PTL
-----------------------------------------------------------------------------
(* Rows on record change at a commit only.                                 *)
LEMMA OnlyCommitsWrite ==
    ASSUME [Next]_vars PROVE db' = db \/ \E s \in Sessions : Commit(s)
<1> USE DEF rowVars
<1>1. ASSUME NEW c \in Clients, NEW i \in Incidents, Ask(c, i)
      PROVE  db' = db
  BY <1>1 DEF Ask, BeginCreate, BeginTransition, BeginAmend, BeginDelete,
              Change
<1>2. ASSUME NEW s \in Sessions, SessionStep(s) PROVE db' = db \/ Commit(s)
  BY <1>2 DEF SessionStep, Flush, FlushFails, DeleteMessage
<1>3. ASSUME NEW s \in Sessions, Abort(s) PROVE db' = db
  BY <1>3 DEF Abort
<1>4. ASSUME NEW w \in Workers, Poll(w) PROVE db' = db
  BY <1>4 DEF Poll, WorkerTakes, WorkerSkips, Receive
<1>5. ASSUME NEW m \in queue, Redrive(m) PROVE db' = db
  BY <1>5 DEF Redrive
<1> QED
  BY <1>1, <1>2, <1>3, <1>4, <1>5 DEF Next, vars

(* However sessions overlap, only a PATCH, an automated containment or a   *)
(* session that decided on a status replaced meanwhile takes an incident   *)
(* where the table would not (incident_service.py, transition_status).     *)
THEOREM OnlyStaleSessionsBreakTheTable == Spec => OnlyStaleSessionsLeaveTheTable
<1> DEFINE Excused(i) ==
       LET from == db[i].status
           to   == db'[i].status
       IN  (/\ presence[i] = "live"
            /\ from # to
            /\ to \notin StateMachine!NextStatuses[from])
           => \E s \in Sessions :
                 /\ pc[s] = "committing"
                 /\ on[s] = i
                 /\ \/ loaded[s].status # from
                    \/ intent[s] = "amend"
                    \/ s \in Workers /\ to = "contained"
<1>1. TypeOK /\ SessionsDecide /\ [Next]_vars
        => [\A i \in Incidents : Excused(i)]_vars
  <2> SUFFICES ASSUME TypeOK, SessionsDecide, [Next]_vars,
                      NEW i \in Incidents
               PROVE  Excused(i)
    OBVIOUS
  <2>1. ASSUME NEW s \in Sessions, Commit(s) PROVE Excused(i)
    <3>1. CASE on[s] # i
      BY <2>1, <3>1 DEF Commit, TypeOK
    <3>2. CASE on[s] = i
      <4>1. InHand(s) /\ pc[s] = "committing"
        BY <2>1 DEF Commit, Busy, SessionsDecide
      <4>2. CASE intent[s] = "insert"
        BY <3>2, <4>1, <4>2 DEF InHand
      <4>3. CASE intent[s] = "delete"
        BY <2>1, <4>3 DEF Commit, Updates
      <4>4. CASE intent[s] = "amend"
        BY <3>2, <4>1, <4>4
      <4>5. CASE intent[s] = "update"
        <5>1. db'[i] = Written(db[i], loaded[s], mine[s])
          BY <2>1, <3>2, <4>5 DEF Commit, TypeOK, Updates
        <5>2. db'[i].status
                = Flushed(db[i].status, loaded[s].status, mine[s].status)
          BY <5>1 DEF Written
        <5>3. \/ mine[s].status = loaded[s].status
              \/ mine[s].status \in StateMachine!NextStatuses[loaded[s].status]
              \/ s \in Workers /\ mine[s].status = "contained"
          <6>1. Decided(s, "update", loaded[s], mine[s])
            BY <4>1, <4>5 DEF InHand
          <6> QED
            BY <6>1
            DEF Decided, View, StateMachine!Moves, StateMachine!Contained,
                StateMachine!View
        <5> QED
          BY <3>2, <4>1, <5>2, <5>3 DEF Flushed
      <4> QED
        BY <4>2, <4>3, <4>4, <4>5 DEF TypeOK, Intents, Updates
    <3> QED
      BY <3>1, <3>2
  <2>2. CASE db' = db
    BY <2>2
  <2> HIDE DEF Excused
  <2> QED
    BY <2>1, <2>2, OnlyCommitsWrite
<1>2. QED
  BY <1>1, SessionsAlwaysDecide, TypeCorrect, PTL
  DEF Spec, OnlyStaleSessionsLeaveTheTable
-----------------------------------------------------------------------------
(* A step that touches at most incident i sets what the state machine sees *)
(* of i.                                                                   *)
LEMMA MappedStep ==
    ASSUME NEW i \in Incidents,
           \A j \in Incidents \ {i} :
              presence'[j] = presence[j] /\ db'[j] = db[j]
    PROVE  [j \in Incidents |-> ViewOf(j)']
             = [[j \in Incidents |-> ViewOf(j)] EXCEPT ![i] = ViewOf(i)']
<1>1. \A j \in Incidents \ {i} : ViewOf(j)' = ViewOf(j)
  BY DEF ViewOf, View
<1> QED
  BY <1>1

(* What the state machine sees of a merge is the merge of what it sees.    *)
LEMMA MergedView ==
    \A cur, read, new :
       View(Written(cur, read, new))
         = StateMachine!Merged(View(cur), View(read), View(new))
  BY DEF View, Written, Flushed, StateMachine!Merged, StateMachine!View,
         StateMachine!Flushed

(* A commit is a step of the state machine, on the row as it stands or on  *)
(* one that was.                                                           *)
LEMMA CommitFollows ==
    ASSUME TypeOK, SessionsDecide, NEW s \in Sessions, Commit(s)
    PROVE  StateMachine!Next \/ UNCHANGED StateMachine!vars
<1> DEFINE Rows == [j \in Incidents |-> ViewOf(j)]
<1>0. PICK i \in Incidents : i = on[s]
  BY DEF TypeOK
<1>1. InHand(s) /\ lock[i] = {s}
  BY <1>0 DEF Commit, Busy, SessionsDecide, InHand
<1>2. \A j \in Incidents \ {i} :
         presence'[j] = presence[j] /\ db'[j] = db[j]
  BY <1>0 DEF Commit, TypeOK
<1>3. [j \in Incidents |-> ViewOf(j)'] = [Rows EXCEPT ![i] = ViewOf(i)']
  BY <1>2, MappedStep
<1>4. CASE intent[s] = "insert"
  <2>1. /\ presence[i] = "inserted" /\ presence'[i] = "live"
        /\ db'[i] = mine[s] /\ View(mine[s]) = StateMachine!New
        /\ past' = [past EXCEPT ![i] = @ \cup {View(mine[s])}]
        /\ overtaken' = overtaken /\ amended' = amended
    BY <1>0, <1>1, <1>4 DEF Commit, InHand, TypeOK, Updates
  <2>2. ViewOf(i) = StateMachine!Absent /\ ViewOf(i)' = StateMachine!New
    BY <2>1 DEF ViewOf, View, StateMachine!Absent, StateMachine!View
  <2>3. StateMachine!Open(i)
    BY <1>3, <2>1, <2>2 DEF StateMachine!Open, StateMachine!Become
  <2> QED
    BY <2>3 DEF StateMachine!Next
<1>5. CASE intent[s] = "delete"
  <2>1. /\ presence[i] \in {"live", "deleted"} /\ presence'[i] = "deleted"
        /\ db' = db
        /\ UNCHANGED <<past, overtaken, amended>>
    BY <1>0, <1>1, <1>5 DEF Commit, InHand, TypeOK, Updates
  <2>2. ViewOf(i)' = StateMachine!Removed
    BY <2>1 DEF ViewOf, StateMachine!Removed, StateMachine!View
  <2>3. CASE presence[i] = "live"
    <3>1. ViewOf(i).status \in StateMachine!Statuses
      BY <2>3 DEF ViewOf, View, TypeOK, Row
    <3>2. StateMachine!Remove(i)
      BY <1>3, <2>1, <2>2, <3>1
      DEF StateMachine!Remove, StateMachine!Present
    <3> QED
      BY <3>2 DEF StateMachine!Next
  <2>4. CASE presence[i] = "deleted"
    <3>1. ViewOf(i)' = ViewOf(i)
      BY <2>1, <2>4 DEF ViewOf
    <3>2. \A j \in Incidents : ViewOf(j)' = ViewOf(j)
      BY <1>2, <3>1 DEF ViewOf, View
    <3>3. [j \in Incidents |-> ViewOf(j)'] = Rows
      BY <3>2
    <3> QED
      BY <2>1, <3>3 DEF StateMachine!vars
  <2> QED
    BY <2>1, <2>3, <2>4
<1>6. CASE intent[s] \in Updates
  <2> DEFINE cur == View(db[i])
             read == View(loaded[s])
             new == View(mine[s])
  <2>1. /\ presence[i] = "live" /\ presence'[i] = "live"
        /\ db'[i] = Written(db[i], loaded[s], mine[s])
        /\ past' = [past EXCEPT ![i] = @ \cup {View(db'[i])}]
        /\ overtaken' = IF loaded[s] = db[i] THEN overtaken
                        ELSE overtaken \cup {i}
        /\ amended' = IF intent[s] = "amend" THEN amended \cup {i}
                      ELSE amended
    BY <1>0, <1>1, <1>6 DEF Commit, InHand, TypeOK, Updates
  <2>2. /\ ViewOf(i) = cur /\ ViewOf(i)' = View(db'[i])
        /\ View(db'[i]) = StateMachine!Merged(cur, read, new)
        /\ cur.status \in StateMachine!Statuses
        /\ cur \in past[i] /\ read \in past[i]
    <3>1. ViewOf(i) = cur /\ ViewOf(i)' = View(db'[i])
      BY <2>1 DEF ViewOf, View
    <3>2. View(db'[i]) = StateMachine!Merged(cur, read, new)
      BY <2>1, MergedView
    <3>3. cur.status \in StateMachine!Statuses
      BY DEF TypeOK, Row, View
    <3>4. cur \in past[i] /\ read \in past[i]
      BY <1>0, <1>1, <1>6, <2>1 DEF SessionsDecide, InHand, Updates
    <3> QED
      BY <3>1, <3>2, <3>3, <3>4
  <2>3. /\ intent[s] = "update"
             => \/ new = read
                \/ new \in StateMachine!Moves(read)
                \/ new = StateMachine!Contained(read)
        /\ intent[s] = "amend" => new \in StateMachine!Amended(read)
    BY <1>1 DEF InHand, Decided
  <2>4. loaded[s] \in Row
    BY DEF TypeOK
  <2>5. StateMachine!Present(i)
    BY <2>2 DEF StateMachine!Present
  <2>6. StateMachine!Become(i, View(db'[i]))
    BY <1>3, <2>1, <2>2 DEF StateMachine!Become
  <2>7. CASE loaded[s] # db[i]
    <3>1. read \in StateMachine!Amended(read)
      BY <2>4 DEF View, Row, StateMachine!Amended, StateMachine!Views
    <3>2. new \in StateMachine!Moves(read) \cup StateMachine!Amended(read)
                    \cup {StateMachine!Contained(read)}
      BY <1>6, <2>3, <3>1 DEF Updates
    <3>3. StateMachine!Overtake(i)
      BY <2>1, <2>2, <2>5, <2>6, <2>7, <3>2 DEF StateMachine!Overtake
    <3> QED
      BY <3>3 DEF StateMachine!Next
  <2>8. CASE loaded[s] = db[i]
    <3>1. /\ View(db'[i]) = new /\ read = cur
          /\ overtaken' = overtaken
      <4>1. db'[i] = mine[s]
        BY <2>1, <2>8, WrittenUndisturbed DEF TypeOK
      <4> QED
        BY <2>1, <2>8, <4>1
    <3>2. CASE intent[s] = "amend"
      <4>1. StateMachine!Amend(i)
        BY <2>1, <2>2, <2>3, <2>5, <2>6, <3>1, <3>2
        DEF StateMachine!Amend
      <4> QED
        BY <4>1 DEF StateMachine!Next
    <3>3. CASE intent[s] = "update"
      <4>0. amended' = amended
        BY <2>1, <3>3
      <4>1. CASE new \in StateMachine!Moves(read)
        <5>1. StateMachine!Move(i)
          BY <2>2, <2>5, <2>6, <3>1, <4>0, <4>1 DEF StateMachine!Move
        <5> QED
          BY <5>1 DEF StateMachine!Next
      <4>2. CASE new = StateMachine!Contained(read)
        <5>1. StateMachine!Contain(i)
          BY <2>2, <2>5, <2>6, <3>1, <4>0, <4>2 DEF StateMachine!Contain
        <5> QED
          BY <5>1 DEF StateMachine!Next
      <4>3. CASE new = read
        <5>1. \A j \in Incidents : ViewOf(j)' = ViewOf(j)
          BY <1>2, <2>2, <3>1, <4>3 DEF ViewOf, View
        <5>2. [j \in Incidents |-> ViewOf(j)'] = Rows
          BY <5>1
        <5>3. past' = past
          BY <2>1, <2>2, <3>1, <4>3 DEF TypeOK
        <5> QED
          BY <3>1, <4>0, <5>2, <5>3 DEF StateMachine!vars
      <4> QED
        BY <2>3, <3>3, <4>1, <4>2, <4>3
    <3> QED
      BY <1>6, <3>2, <3>3 DEF Updates
  <2> QED
    BY <2>7, <2>8
<1> QED
  BY <1>4, <1>5, <1>6 DEF TypeOK, Intents, Updates

(* Every behaviour of the API, the queue and the worker, overlapping and   *)
(* failing as they may, is one of the state machine                        *)
(* (incident_service.py, incident_worker.py; database.py).                 *)
THEOREM HandlingFollowsStateMachine == Spec => FollowsStateMachine
<1>1. Init => StateMachine!Init
  BY DEF Init, StateMachine!Init, StateMachine!Absent, StateMachine!View,
         ViewOf
<1>2. TypeOK /\ SessionsDecide /\ [Next]_vars
        => [StateMachine!Next]_StateMachine!vars
  <2> SUFFICES ASSUME TypeOK, SessionsDecide, [Next]_vars
               PROVE  [StateMachine!Next]_StateMachine!vars
    OBVIOUS
  <2> DEFINE Seen == StateMachine!vars
  <2> USE DEF sessionVars, queueVars, rowVars
  <2>1. ASSUME UNCHANGED <<presence, db, past, overtaken, amended>>
        PROVE  UNCHANGED Seen
    BY <2>1 DEF StateMachine!vars, ViewOf, View
  <2>2. ASSUME NEW i \in Incidents, presence[i] \in {"absent", "inserted"},
               \E to \in {"inserted", "lost"} :
                  presence' = [presence EXCEPT ![i] = to],
               UNCHANGED <<db, past, overtaken, amended>>
        PROVE  UNCHANGED Seen
    <3>1. \A j \in Incidents : ViewOf(j)' = ViewOf(j)
      BY <2>2 DEF ViewOf, View, TypeOK
    <3>2. [j \in Incidents |-> ViewOf(j)'] = [j \in Incidents |-> ViewOf(j)]
      BY <3>1
    <3> QED
      BY <2>2, <3>2 DEF StateMachine!vars
  <2>3. ASSUME NEW c \in Clients, NEW i \in Incidents, Ask(c, i)
        PROVE  UNCHANGED Seen
    <3>1. ASSUME NEW v, BeginCreate(c, i, v) PROVE UNCHANGED Seen
      BY <2>2, <3>1 DEF BeginCreate
    <3>2. ASSUME NEW what, NEW new, Change(c, i, what, new)
          PROVE  UNCHANGED Seen
      BY <2>1, <3>2 DEF Change
    <3> QED
      BY <2>3, <3>1, <3>2
      DEF Ask, BeginTransition, BeginAmend, BeginDelete
  <2>4. ASSUME NEW s \in Sessions, Abort(s) PROVE UNCHANGED Seen
    <3>1. CASE pc[s] = "committing" /\ intent[s] = "insert"
      <4>1. presence[on[s]] = "inserted" /\ on[s] \in Incidents
        BY <3>1 DEF SessionsDecide, Busy, InHand, TypeOK
      <4> QED
        BY <2>2, <2>4, <3>1, <4>1 DEF Abort
    <3>2. CASE ~(pc[s] = "committing" /\ intent[s] = "insert")
      BY <2>1, <2>4, <3>2 DEF Abort
    <3> QED
      BY <3>1, <3>2
  <2>5. ASSUME NEW s \in Sessions, Flush(s) \/ FlushFails(s)
        PROVE  UNCHANGED Seen
    BY <2>1, <2>5 DEF Flush, FlushFails
  <2>6. ASSUME NEW w \in Workers, NEW m \in queue,
               (\E p \in Prediction : WorkerTakes(w, m, p))
                 \/ WorkerSkips(w, m)
        PROVE  UNCHANGED Seen
    BY <2>1, <2>6 DEF WorkerTakes, WorkerSkips, Receive
  <2>7. ASSUME NEW w \in Workers, DeleteMessage(w) PROVE UNCHANGED Seen
    BY <2>1, <2>7 DEF DeleteMessage
  <2>8. ASSUME NEW m \in queue, Redrive(m) PROVE UNCHANGED Seen
    BY <2>1, <2>8 DEF Redrive
  <2>9. CASE UNCHANGED vars
    BY <2>1, <2>9 DEF vars
  <2> HIDE DEF Seen
  <2>10. CASE UNCHANGED Seen
    BY <2>10 DEF Seen
  <2> QED
    BY <2>3, <2>4, <2>5, <2>6, <2>7, <2>8, <2>9, <2>10, CommitFollows
    DEF Next, SessionStep, Poll
<1>3. QED
  BY <1>1, <1>2, SessionsAlwaysDecide, TypeCorrect, PTL
  DEF Spec, FollowsStateMachine, StateMachine!Spec

(* Where no PATCH and no stale session wrote, a closed incident has its    *)
(* closed_at and, until an automated containment, only a closed one has    *)
(* (incident_service.py, transition_status): an invariant of the state     *)
(* machine, carried over by the refinement.                                *)
THEOREM ContainmentAloneBreaksClosure == Spec => []ClosedAtTracksUntilContained
<1>1. Abstract!Spec => []Abstract!ClosedAtTracksStatus
  BY Abstract!TableTracksClosure
<1>2. StateMachine!Init => Abstract!Init
  BY DEF StateMachine!Init, Abstract!Init, StateMachine!Absent,
         Abstract!Absent, StateMachine!View, Abstract!View
<1>3. [StateMachine!Next]_StateMachine!vars => [Abstract!Next]_Abstract!vars
  BY DEF StateMachine!Next, StateMachine!Open, StateMachine!Move,
         StateMachine!Contain, StateMachine!Amend, StateMachine!Overtake,
         StateMachine!Remove, StateMachine!Present, StateMachine!Become,
         StateMachine!Absent, StateMachine!New, StateMachine!Removed,
         StateMachine!View, StateMachine!Views, StateMachine!Moves,
         StateMachine!Amended, StateMachine!Contained, StateMachine!Merged,
         StateMachine!Flushed, StateMachine!ClosedAfter,
         StateMachine!Statuses, StateMachine!NextStatuses, StateMachine!vars,
         Abstract!Next, Abstract!Open, Abstract!Move,
         Abstract!Contain, Abstract!Amend, Abstract!Overtake,
         Abstract!Remove, Abstract!Present, Abstract!Become,
         Abstract!Absent, Abstract!New, Abstract!Removed,
         Abstract!View, Abstract!Views, Abstract!Moves,
         Abstract!Amended, Abstract!Contained, Abstract!Merged,
         Abstract!Flushed, Abstract!ClosedAfter,
         Abstract!Statuses, Abstract!NextStatuses, Abstract!vars
<1>4. Abstract!ClosedAtTracksStatus => ClosedAtTracksUntilContained
  BY DEF Abstract!ClosedAtTracksStatus, ClosedAtTracksUntilContained, ViewOf,
         View
<1>5. QED
  BY <1>1, <1>2, <1>3, <1>4, HandlingFollowsStateMachine, PTL
  DEF FollowsStateMachine, StateMachine!Spec, Abstract!Spec
=============================================================================

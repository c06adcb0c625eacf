--------------------- MODULE IncidentStateMachineProofs ---------------------
(* Proofs about IncidentStateMachine for every set of incidents. *)
EXTENDS IncidentStateMachine, TLAPS

(* A row whose closed_at is in step with its status, unless the incident   *)
(* was contained: then it may be left over.                                *)
InStep(r) ==
    /\ r.status = "closed" => r.closed
    /\ ~r.isolated => r.closed = (r.status = "closed")

(* What may be decided on a row is a row.                                  *)
LEMMA DecisionsAreViews ==
    ASSUME NEW r \in Views,
           NEW q \in Moves(r) \cup Amended(r) \cup {Contained(r)}
    PROVE  q \in Views
<1>1. r.status \in Statuses /\ r.closed \in BOOLEAN /\ r.isolated \in BOOLEAN
  BY DEF Views
<1>2. NextStatuses[r.status] \subseteq Statuses
  BY <1>1 DEF NextStatuses, Statuses
<1>3. \A t \in Statuses, c \in BOOLEAN, k \in BOOLEAN : View(t, c, k) \in Views
  BY DEF View, Views
<1>4. CASE q \in Moves(r)
  <2>1. PICK t \in NextStatuses[r.status] :
           q = View(t, ClosedAfter(t, r.closed), r.isolated)
    BY <1>4 DEF Moves
  <2>2. ClosedAfter(t, r.closed) \in BOOLEAN
    BY DEF ClosedAfter
  <2> QED
    BY <1>1, <1>2, <1>3, <2>1, <2>2
<1>5. CASE q \in Amended(r)
  BY <1>5 DEF Amended
<1>6. CASE q = Contained(r)
  BY <1>1, <1>3, <1>6 DEF Contained, Statuses
<1> QED
  BY <1>4, <1>5, <1>6

(* A move along the table keeps a row in step: it reopens just what is     *)
(* closed.                                                                 *)
LEMMA MovesKeepStep ==
    ASSUME NEW r \in Views, InStep(r), NEW q \in Moves(r)
    PROVE  InStep(q)
<1>1. PICK t \in NextStatuses[r.status] :
         q = View(t, ClosedAfter(t, r.closed), r.isolated)
  BY DEF Moves
<1>2. r.status \in Statuses /\ r.closed \in BOOLEAN /\ r.isolated \in BOOLEAN
  BY DEF Views
<1>3. t \in Statuses /\ ((t = "reopened") <=> (r.status = "closed"))
  BY <1>2 DEF Statuses, NextStatuses
<1>4. /\ q.status = t /\ q.isolated = r.isolated
      /\ q.closed = ClosedAfter(t, r.closed)
  BY <1>1 DEF View
<1> QED
  BY <1>2, <1>3, <1>4 DEF InStep, ClosedAfter

LEMMA ContainmentKeepsStep ==
    ASSUME NEW r \in Views, InStep(r)
    PROVE  InStep(Contained(r))
  BY DEF Contained, View, InStep

(* Whatever overlaps, an incident that no PATCH touched and no session     *)
(* overtook has a closed_at when it is closed and, until the worker        *)
(* contains it, only then (incident_service.py, transition_status).        *)
THEOREM TableTracksClosure == Spec => []ClosedAtTracksStatus
<1> DEFINE Careful == Incidents \ (overtaken \cup amended)
           Inv == /\ row \in [Incidents -> Views \cup {Absent, Removed}]
                  /\ past \in [Incidents -> SUBSET Views]
                  /\ \A i \in Careful : InStep(row[i])
<1>1. Init => Inv
  <2>1. InStep(Absent)
    BY DEF InStep, Absent, View
  <2> QED
    BY <2>1 DEF Init
<1>2. Inv /\ [Next]_vars => Inv'
  <2> SUFFICES ASSUME Inv, [Next]_vars PROVE Inv'
    OBVIOUS
  <2>1. \A i \in Incidents : Present(i) => row[i] \in Views
    BY DEF Present, Absent, Removed, View, Statuses
  <2>2. ASSUME NEW i \in Incidents, NEW r \in Views, Become(i, r),
               overtaken' = overtaken, amended' = amended,
               i \in Careful => InStep(r)
        PROVE  Inv'
    BY <2>2 DEF Become
  <2>3. ASSUME NEW i \in Incidents, NEW r \in Views, Become(i, r),
               i \in overtaken' \cup amended',
               overtaken \subseteq overtaken', amended \subseteq amended'
        PROVE  Inv'
    BY <2>3 DEF Become
  <2>4. ASSUME NEW i \in Incidents, Open(i) PROVE Inv'
    <3>1. New \in Views /\ InStep(New)
      BY DEF New, View, Views, Statuses, InStep
    <3> QED
      BY <2>2, <2>4, <3>1 DEF Open
  <2>5. ASSUME NEW i \in Incidents, Move(i) PROVE Inv'
    <3>1. PICK r \in Moves(row[i]) : Become(i, r)
      BY <2>5 DEF Move
    <3>2. row[i] \in Views
      BY <2>1, <2>5 DEF Move
    <3>3. r \in Views
      BY <3>1, <3>2, DecisionsAreViews
    <3>4. i \in Careful => InStep(r)
      BY <3>2, MovesKeepStep
    <3> QED
      BY <2>2, <2>5, <3>1, <3>3, <3>4 DEF Move
  <2>6. ASSUME NEW i \in Incidents, Contain(i) PROVE Inv'
    <3>1. row[i] \in Views
      BY <2>1, <2>6 DEF Contain
    <3>2. Contained(row[i]) \in Views
      BY <3>1, DecisionsAreViews
    <3>3. i \in Careful => InStep(Contained(row[i]))
      BY <3>1, ContainmentKeepsStep
    <3> QED
      BY <2>2, <2>6, <3>2, <3>3 DEF Contain
  <2>7. ASSUME NEW i \in Incidents, Amend(i) PROVE Inv'
    <3>1. PICK r \in Amended(row[i]) : Become(i, r)
      BY <2>7 DEF Amend
    <3>2. r \in Views
      BY <2>1, <2>7, <3>1, DecisionsAreViews DEF Amend
    <3> QED
      BY <2>3, <2>7, <3>1, <3>2 DEF Amend
  <2>8. ASSUME NEW i \in Incidents, Overtake(i) PROVE Inv'
    <3>1. PICK read \in past[i] :
             \E new \in Moves(read) \cup Amended(read) \cup {Contained(read)} :
                Become(i, Merged(row[i], read, new))
      BY <2>8 DEF Overtake
    <3>2. PICK new \in Moves(read) \cup Amended(read) \cup {Contained(read)} :
             Become(i, Merged(row[i], read, new))
      BY <3>1
    <3>3. read \in Views /\ row[i] \in Views
      BY <2>1, <2>8 DEF Overtake
    <3>4. new \in Views
      BY <3>3, DecisionsAreViews
    <3>5. Merged(row[i], read, new) \in Views
      BY <3>3, <3>4 DEF Merged, Flushed, View, Views
    <3> QED
      BY <2>3, <2>8, <3>2, <3>5 DEF Overtake
  <2>9. ASSUME NEW i \in Incidents, Remove(i) PROVE Inv'
    <3>1. InStep(Removed)
      BY DEF Removed, View, InStep
    <3> QED
      BY <2>9, <3>1 DEF Remove
  <2>10. CASE UNCHANGED vars
    BY <2>10 DEF vars
  <2> QED
    BY <2>4, <2>5, <2>6, <2>7, <2>8, <2>9, <2>10 DEF Next
<1>3. Inv => ClosedAtTracksStatus
  BY DEF ClosedAtTracksStatus, InStep
<1>4. QED
  BY <1>1, <1>2, <1>3, PTL DEF Spec
=============================================================================

------------------------ MODULE IncidentStateMachine ------------------------
(***************************************************************************)
(* What the status of an incident, its closed_at and its containment       *)
(* promise, whoever drives them: analysts move an incident along the table *)
(* of transition_status (app/services/incident_service.py), the worker may *)
(* contain it from any status, a PATCH may set any status, and a removed   *)
(* incident never comes back.                                              *)
(*                                                                         *)
(* Nothing keeps a decision from being taken on a row that has changed     *)
(* meanwhile.  Then the columns the decision changes, and only these, are  *)
(* merged into the row as it stands, and the incident counts as overtaken. *)
(***************************************************************************)
EXTENDS UnitOfWork

CONSTANT Incidents

VARIABLES
    row,       \* row[i]: what an incident's row says of it
    past,      \* past[i]: the rows i has had, the present one included
    overtaken, \* the incidents written by a session that had read another row
    amended    \* the incidents written by a PATCH

vars == <<row, past, overtaken, amended>>

Statuses == {"new", "triaging", "contained", "eradicating", "recovering",
             "closed", "reopened"}

(* valid_transitions.                                                      *)
NextStatuses ==
    [new         |-> {"triaging"},
     triaging    |-> {"contained", "closed"},
     contained   |-> {"eradicating", "closed"},
     eradicating |-> {"recovering"},
     recovering  |-> {"closed"},
     closed      |-> {"reopened"},
     reopened    |-> {"triaging", "closed"}]

(* `closed` stands for a closed_at that is set, `isolated` for containment *)
(* actions of the worker.                                                  *)
View(status, closed, isolated) ==
    [status |-> status, closed |-> closed, isolated |-> isolated]

Views == [status : Statuses, closed : BOOLEAN, isolated : BOOLEAN]

Absent == View("absent", FALSE, FALSE)
New == View("new", FALSE, FALSE)
Removed == View("removed", FALSE, FALSE)

(* closed_at after a move to t: closing sets it, reopening clears it.      *)
ClosedAfter(t, c) == (t = "closed") \/ (c /\ t # "reopened")

Moves(r) ==
    {View(t, ClosedAfter(t, r.closed), r.isolated) :
        t \in NextStatuses[r.status]}

Contained(r) == View("contained", r.closed, TRUE)

(* A PATCH may set any status and drop the containment.                    *)
Amended(r) ==
    {v \in Views : v.closed = r.closed /\ v.isolated \in {r.isolated, FALSE}}

(* The row `cur` after a session that read `read` wrote `new`.             *)
Merged(cur, read, new) ==
    View(Flushed(cur.status, read.status, new.status),
         Flushed(cur.closed, read.closed, new.closed),
         Flushed(cur.isolated, read.isolated, new.isolated))

Init ==
    /\ row = [i \in Incidents |-> Absent]
    /\ past = [i \in Incidents |-> {}]
    /\ overtaken = {}
    /\ amended = {}

Become(i, r) ==
    /\ row' = [row EXCEPT ![i] = r]
    /\ past' = [past EXCEPT ![i] = @ \cup {r}]

Present(i) == row[i].status \in Statuses

Open(i) ==
    /\ row[i] = Absent
    /\ Become(i, New)
    /\ UNCHANGED <<overtaken, amended>>

Move(i) ==
    /\ Present(i)
    /\ \E r \in Moves(row[i]) : Become(i, r)
    /\ UNCHANGED <<overtaken, amended>>

Contain(i) ==
    /\ Present(i)
    /\ Become(i, Contained(row[i]))
    /\ UNCHANGED <<overtaken, amended>>

Amend(i) ==
    /\ Present(i)
    /\ \E r \in Amended(row[i]) : Become(i, r)
    /\ amended' = amended \cup {i}
    /\ UNCHANGED overtaken

(* A session decided on a row of the past, or on one whose other columns   *)
(* have changed; it may decide to leave the row as it read it.             *)
Overtake(i) ==
    /\ Present(i)
    /\ \E read \in past[i] :
          \E new \in Moves(read) \cup Amended(read) \cup {Contained(read)} :
             Become(i, Merged(row[i], read, new))
    /\ overtaken' = overtaken \cup {i}
    /\ amended' \in {amended, amended \cup {i}}

Remove(i) ==
    /\ Present(i)
    /\ row' = [row EXCEPT ![i] = Removed]
    /\ UNCHANGED <<past, overtaken, amended>>

Next ==
    \E i \in Incidents :
        \/ Open(i) \/ Move(i) \/ Contain(i) \/ Amend(i)
        \/ Overtake(i) \/ Remove(i)

Spec == Init /\ [][Next]_vars

(* Where every decision was taken on the row as it stood and no PATCH      *)
(* touched it, a closed incident has its closed_at, and until the worker   *)
(* contains it only a closed one has; "Closed-at timestamp is set/cleared  *)
(* correctly on close/reopen" (LBRO_FINAL_AUDIT_REPORT.md).                *)
ClosedAtTracksStatus ==
    \A i \in Incidents \ (overtaken \cup amended) :
        /\ row[i].status = "closed" => row[i].closed
        /\ ~row[i].isolated => row[i].closed = (row[i].status = "closed")
=============================================================================

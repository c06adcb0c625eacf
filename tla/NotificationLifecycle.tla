------------------------ MODULE NotificationLifecycle ------------------------
(***************************************************************************)
(* What a regulatory notification promises, whoever drives it.  An officer *)
(* approves a pending draft, an approved or failed one is delivered or     *)
(* fails once more, and a dispatch does the approval and the delivery of a *)
(* pending draft in one step.  Every failed attempt is counted.            *)
(*                                                                         *)
(* Nothing keeps a decision from being taken on a row that has changed     *)
(* meanwhile.  Then the columns the decision changes, and only these, are  *)
(* merged into the row as it stands, and the notification counts as        *)
(* overtaken; one that never is is sent once and never changes again.      *)
(***************************************************************************)
EXTENDS Naturals, UnitOfWork

CONSTANT Notifications

VARIABLES
    row,       \* row[n]: the status, retry_count and (sent_at # NULL) of n
    past,      \* past[n]: the rows n has had, the present one included
    overtaken  \* the notifications decided on by a row no longer present

vars == <<row, past, overtaken>>

Status == {"pending", "approved", "sent", "failed"}

Row == [status : Status, retries : Nat, sentAt : BOOLEAN]

Fresh == [status |-> "pending", retries |-> 0, sentAt |-> FALSE]

Approved(r) == [r EXCEPT !.status = "approved"]

Delivered(r) == [status |-> "sent", retries |-> r.retries, sentAt |-> TRUE]

Bounced(r) ==
    [status |-> "failed", retries |-> r.retries + 1, sentAt |-> r.sentAt]

(* What may be decided on a row that was read as r.  From pending a        *)
(* delivery or a failure is that of a dispatch, which approves on the way. *)
Outcomes(r) ==
    {new \in {Approved(r)} : r.status = "pending"}
        \cup {new \in {Delivered(r), Bounced(r)} : r.status # "sent"}

(* The row `cur` after a session that read `read` wrote `new`.             *)
Merged(cur, read, new) ==
    [status  |-> Flushed(cur.status, read.status, new.status),
     retries |-> Flushed(cur.retries, read.retries, new.retries),
     sentAt  |-> Flushed(cur.sentAt, read.sentAt, new.sentAt)]

Init ==
    /\ row = [n \in Notifications |-> Fresh]
    /\ past = [n \in Notifications |-> {Fresh}]
    /\ overtaken = {}

Become(n, r) ==
    /\ row' = [row EXCEPT ![n] = r]
    /\ past' = [past EXCEPT ![n] = @ \cup {r}]

Decide(n) ==
    /\ \E new \in Outcomes(row[n]) : Become(n, new)
    /\ UNCHANGED overtaken

Overtake(n) ==
    /\ \E read \in past[n] \ {row[n]} :
          \E new \in Outcomes(read) : Become(n, Merged(row[n], read, new))
    /\ overtaken' = overtaken \cup {n}

Next == \E n \in Notifications : Decide(n) \/ Overtake(n)

Spec == Init /\ [][Next]_vars
=============================================================================

------------------------- MODULE ComplianceRegister -------------------------
(***************************************************************************)
(* The compliance register (app/services/compliance_service.py behind      *)
(* app/routers/compliance.py): the records an incident leaves behind with  *)
(* the dashboard that counts them, and the obligations of a project with   *)
(* their scores and assessments.                                           *)
(*                                                                         *)
(* Every query of the dashboard sees what is committed at its moment.  An  *)
(* obligation is looked up and then inserted or updated; migration 008     *)
(* gives (project, framework, control) no unique constraint.               *)
(***************************************************************************)
EXTENDS Naturals, FiniteSets, UnitOfWork

CONSTANTS
    Records,            \* compliance records that incidents may leave
    Controls,           \* controls of the project's framework
    Rows,               \* obligation rows
    Editors,            \* sessions that edit obligations
    GivenScores,        \* scores a PATCH may state
    MaxRegisterEdits    \* bound: edits in a behaviour

ASSUME SomeControl == Controls # {} /\ Rows # {}
ASSUME RegisterLimits == /\ IsFiniteSet(Records) /\ IsFiniteSet(Rows)
                         /\ GivenScores \subseteq 0..100
                         /\ MaxRegisterEdits \in Nat

VARIABLES
    record,       \* record[r]: "absent", "pending", "overdue" or "met"
    board,        \* the dashboard that is being computed
    born,         \* records committed since its total was read
    obligation,   \* obligation[o]: the row o, or NoRow
    edit,         \* edit[e]: what session e found and holds
    assessment,   \* the latest assessment
    edits         \* edits so far

registerVars == <<record, board, born, obligation, edit, assessment, edits>>
recordVars == <<record, board, born>>
obligationVars == <<obligation, edit, assessment, edits>>

(* compliant and not_started set the score; in_progress stands for every   *)
(* other status.                                                           *)
Statuses == {"not_started", "in_progress", "compliant"}

Scores == {0, 100} \cup GivenScores

Obligations == [control : Controls, status : Statuses, score : Scores]

NoRow == [control |-> CHOOSE c \in Controls : TRUE, status |-> "absent",
          score |-> 0]

InRegister(o) == obligation[o] # NoRow

RowsOf(c) == {o \in Rows : InRegister(o) /\ obligation[o].control = c}

(* A session is idle, or has read a row - or found none - and holds what   *)
(* it will write.                                                          *)
None == "none"

(* No score: a request that states none, a project without rows.           *)
NoScore == 101

Idle == [stage |-> "idle", of |-> None, read |-> NoRow, mine |-> NoRow,
         given |-> FALSE]

(* given: the request states a score.                                      *)
Edits == [stage : {"idle", "inserting", "updating"},
          of : Rows \cup {None},
          read : Obligations \cup {NoRow},
          mine : Obligations \cup {NoRow},
          given : BOOLEAN]

Boards == [stage : {"none", "total", "met", "shown"},
           total : Nat, met : Nat, overdue : Nat]

NoBoard == [stage |-> "none", total |-> 0, met |-> 0, overdue |-> 0]

RecordsIn(states) == {r \in Records : record[r] \in states}

Counted(states) == Cardinality(RecordsIn(states))

RegisterInit ==
    /\ record = [r \in Records |-> "absent"]
    /\ board = NoBoard
    /\ born = 0
    /\ obligation = [o \in Rows |-> NoRow]
    /\ edit = [e \in Editors |-> Idle]
    /\ assessment = [score |-> 0, total |-> 0, compliant |-> 0]
    /\ edits = 0

-----------------------------------------------------------------------------
(* generate_obligations commits with its incident; a deadline lies ahead.  *)
Generate(rs) ==
    /\ rs # {}
    /\ \A r \in rs : record[r] = "absent"
    /\ record' = [r \in Records |-> IF r \in rs THEN "pending" ELSE record[r]]
    /\ born' = born + Cardinality(rs)
    /\ UNCHANGED <<board, obligationVars>>

(* The deadline passes.                                                    *)
Expire(r) ==
    /\ record[r] = "pending"
    /\ record' = [record EXCEPT ![r] = "overdue"]
    /\ UNCHANGED <<board, born, obligationVars>>

(* mark_met: is_met is only ever set, so sessions that overlap agree.      *)
MarkMet(r) ==
    /\ record[r] \in {"pending", "overdue"}
    /\ record' = [record EXCEPT ![r] = "met"]
    /\ UNCHANGED <<board, born, obligationVars>>

(* get_dashboard, one regulation: three queries.                           *)
CountTotal ==
    /\ board.stage \in {"none", "shown"}
    /\ board' = [NoBoard EXCEPT !.stage = "total",
                    !.total = Counted({"pending", "overdue", "met"})]
    /\ born' = 0
    /\ UNCHANGED <<record, obligationVars>>

CountMet ==
    /\ board.stage = "total"
    /\ board' = [board EXCEPT !.stage = "met", !.met = Counted({"met"})]
    /\ UNCHANGED <<record, born, obligationVars>>

(* Mutant of CountOverdue: what is met late is still counted as overdue.   *)
CountLate ==
    /\ board.stage = "met"
    /\ board' = [board EXCEPT !.stage = "shown",
                    !.overdue = Counted({"overdue", "met"})]
    /\ UNCHANGED <<record, born, obligationVars>>

CountOverdue ==
    /\ board.stage = "met"
    /\ board' = [board EXCEPT !.stage = "shown",
                    !.overdue = Counted({"overdue"})]
    /\ UNCHANGED <<record, born, obligationVars>>

-----------------------------------------------------------------------------
Begin(e, found) ==
    /\ edit[e].stage = "idle"
    /\ edits < MaxRegisterEdits
    /\ edits' = edits + 1
    /\ edit' = [edit EXCEPT ![e] = found]
    /\ UNCHANGED <<recordVars, obligation, assessment>>

(* Mutant of Rescored: an update leaves the score alone.                   *)
RescoredNever(row, st) == [row EXCEPT !.status = st]

(* The upsert of an existing row.                                          *)
Rescored(row, st) ==
    [row EXCEPT !.status = st,
                !.score = CASE st = "compliant" -> 100
                            [] st = "not_started" -> 0
                            [] OTHER -> @]

Fresh(c, st) ==
    [control |-> c, status |-> st, score |-> IF st = "compliant" THEN 100 ELSE 0]

(* upsert_obligation looks the control up ...                              *)
UpsertFinds(e, o, st) ==
    /\ RowsOf(obligation[o].control) = {o}
    /\ Begin(e, [stage |-> "updating", of |-> o, read |-> obligation[o],
                 mine |-> Rescored(obligation[o], st), given |-> FALSE])

(* Mutant of UpsertMisses: it looks for rows of the same status only.      *)
UpsertMissesOften(e, c, st) ==
    /\ \A o \in RowsOf(c) : obligation[o].status # st
    /\ Begin(e, [stage |-> "inserting", of |-> None, read |-> NoRow,
                 mine |-> Fresh(c, st), given |-> FALSE])

(* ... and makes a row when it finds none.                                 *)
UpsertMisses(e, c, st) ==
    /\ RowsOf(c) = {}
    /\ Begin(e, [stage |-> "inserting", of |-> None, read |-> NoRow,
                 mine |-> Fresh(c, st), given |-> FALSE])

(* Two rows are more than scalar_one_or_none takes: the request fails.     *)
UpsertFails(c) ==
    /\ Cardinality(RowsOf(c)) > 1
    /\ edits < MaxRegisterEdits
    /\ edits' = edits + 1
    /\ UNCHANGED <<recordVars, obligation, edit, assessment>>

(* Mutant of Patched: what the request leaves out is written all the same. *)
PatchedMissing(row, st, score) ==
    [row EXCEPT !.status = IF st = None THEN @ ELSE st,
                !.score = IF st = None THEN score
                          ELSE IF st = "compliant" THEN 100 ELSE 0]

(* update_obligation: by id; a new status sets the score unless the        *)
(* request states one.                                                     *)
Patched(row, st, score) ==
    [row EXCEPT !.status = IF st = None THEN @ ELSE st,
                !.score = IF score # NoScore THEN score
                          ELSE IF st = None THEN @
                          ELSE IF st = "compliant" THEN 100 ELSE 0]

Patch(e, o, st, score) ==
    /\ InRegister(o)
    /\ Begin(e, [stage |-> "updating", of |-> o, read |-> obligation[o],
                 mine |-> Patched(obligation[o], st, score),
                 given |-> score # NoScore])

-----------------------------------------------------------------------------
Close(e) == edit' = [edit EXCEPT ![e] = Idle]

(* The row of edit x after its columns are flushed.                        *)
Rewritten(x) ==
    [control |-> obligation[x.of].control,
     status |-> Flushed(obligation[x.of].status, x.read.status, x.mine.status),
     score |-> Flushed(obligation[x.of].score, x.read.score, x.mine.score)]

CommitUpdate(e) ==
    /\ edit[e].stage = "updating"
    /\ obligation' = [obligation EXCEPT ![edit[e].of] = Rewritten(edit[e])]
    /\ Close(e)
    /\ UNCHANGED <<recordVars, assessment, edits>>

CommitInsert(e) ==
    /\ edit[e].stage = "inserting"
    /\ \E o \in Rows :
          /\ ~InRegister(o)
          /\ obligation' = [obligation EXCEPT ![o] = edit[e].mine]
    /\ Close(e)
    /\ UNCHANGED <<recordVars, assessment, edits>>

(* get_score: the share of rows that are compliant, none without rows.     *)
Compliant == {o \in Rows : InRegister(o) /\ obligation[o].status = "compliant"}

Kept == {o \in Rows : InRegister(o)}

OverallScore ==
    IF Kept = {} THEN NoScore
    ELSE (Cardinality(Compliant) * 100) \div Cardinality(Kept)

(* create_assessment: a score of None is left out of the INSERT, and the   *)
(* column's default stands in for it.                                      *)
Assess(e) ==
    /\ edit[e].stage = "idle"
    /\ edits < MaxRegisterEdits
    /\ edits' = edits + 1
    /\ assessment' = [score |-> IF OverallScore = NoScore THEN 0 ELSE OverallScore,
                      total |-> Cardinality(Kept),
                      compliant |-> Cardinality(Compliant)]
    /\ UNCHANGED <<recordVars, obligation, edit>>

-----------------------------------------------------------------------------
RecordStep ==
    \/ \E rs \in SUBSET Records : Generate(rs)
    \/ \E r \in Records : Expire(r) \/ MarkMet(r)
    \/ CountTotal \/ CountMet \/ CountOverdue

ObligationStep(e) ==
    \/ \E o \in Rows, st \in Statuses : UpsertFinds(e, o, st)
    \/ \E c \in Controls, st \in Statuses : UpsertMisses(e, c, st)
    \/ \E o \in Rows, st \in Statuses \cup {None},
            score \in GivenScores \cup {NoScore} : Patch(e, o, st, score)
    \/ CommitUpdate(e) \/ CommitInsert(e) \/ Assess(e)

RegisterNext ==
    \/ RecordStep
    \/ \E e \in Editors : ObligationStep(e)
    \/ \E c \in Controls : UpsertFails(c)

RegisterSpec == RegisterInit /\ [][RegisterNext]_registerVars

-----------------------------------------------------------------------------
RegisterTypeOK ==
    /\ record \in [Records -> {"absent", "pending", "overdue", "met"}]
    /\ board \in Boards
    /\ born \in Nat
    /\ obligation \in [Rows -> Obligations \cup {NoRow}]
    /\ edit \in [Editors -> Edits]
    /\ assessment \in [score : Nat, total : Nat, compliant : Nat]
    /\ edits \in Nat

(* The dashboard computes pending as total - met - overdue from three      *)
(* queries: the parts exceed the total by no more records than were born   *)
(* since it was read, so that pending is negative only then.               *)
BoardNeverOvercounts ==
    board.stage = "shown" => board.met + board.overdue <= board.total + born

Settled(c) ==
    /\ Cardinality(RowsOf(c)) = 1
    /\ \A e \in Editors : ~(edit[e].stage = "inserting"
                              /\ edit[e].mine.control = c)

Broken(c) == Cardinality(RowsOf(c)) > 1

(* A control that has its row while nobody is inserting it keeps exactly   *)
(* one; one that two overlapping upserts have doubled is doubled for good, *)
(* and every later upsert of it fails (upsert_obligation).                 *)
ControlsStayAsTheyAre ==
    [][\A c \in Controls : /\ Settled(c) => Settled(c)'
                           /\ Broken(c) => Broken(c)']_registerVars

Split(row) == \/ row.status = "compliant" /\ row.score # 100
              \/ row.status = "not_started" /\ row.score # 0

Stale(x) == x.stage = "updating" /\ obligation[x.of] # x.read

(* Compliant means 100 and not started means 0, except where a request     *)
(* stated the score, or a session wrote the half of a row it had changed   *)
(* over a half that another session had committed since.                   *)
OnlyStaleEditsSplitRows ==
    [][\A o \in Rows :
          Split(obligation'[o]) /\ ~Split(obligation[o]) =>
              \E e \in Editors : /\ edit[e].of = o
                                 /\ edit[e].given \/ Stale(edit[e])]_registerVars
=============================================================================

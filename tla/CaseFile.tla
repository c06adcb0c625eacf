------------------------------ MODULE CaseFile ------------------------------
(***************************************************************************)
(* What hangs on one incident: the regulations it is registered under, the *)
(* evidence vault with its chain of custody, the investigation notes, and  *)
(* the deletion that takes them along (app/routers/evidence.py,            *)
(* app/services/evidence_service.py, app/routers/incidents.py,             *)
(* app/services/compliance_service.py and the relationships of             *)
(* app/models/incident.py and app/models/evidence.py).                     *)
(*                                                                         *)
(* A session reads what it needs, flushes - an INSERT of a child row locks *)
(* its parent against deletion and waits for a deletion in progress - is   *)
(* answered, and commits after the answer.                                 *)
(***************************************************************************)
EXTENDS Naturals, Sequences, FiniteSets

CONSTANTS
    Files,            \* evidence rows that can be uploaded
    Notes,            \* investigation notes that can be written
    Places,           \* jurisdictions an incident may name
    Clients,          \* sessions that can be open at a time
    CommitsFail,      \* may a commit fail after its answer was sent?
    MaxCaseRequests   \* bound: requests in a behaviour

ASSUME SomeFile == Files # {} /\ Notes # {}
ASSUME CaseLimits == /\ IsFiniteSet(Clients)
                     /\ MaxCaseRequests \in Nat /\ CommitsFail \in BOOLEAN

VARIABLES
    case,        \* "none", "open" or "gone"
    marks,       \* the incident's jurisdictions and data flags
    registered,  \* regulations with compliance records and a draft
    files,       \* files[f]: what the vault holds for f, or "none"
    custody,     \* custody[f]: the chain of custody of f
    notes,       \* notes[n]: "none", "written" or "edited"
    answered,    \* answered[f]: positive answers about f
    lost,        \* lost[f]: answers about f whose commit failed
    stage,       \* where each session stands
    task,        \* what each session is about
    asked        \* requests so far

caseVars == <<case, marks, registered, files, custody, notes, answered, lost,
              stage, task, asked>>
vault == <<files, custody, notes, lost>>

Contents == {"bytes", "empty"}

(* "EU" stands for EU, EEA and UK.                                         *)
Marks == [places : SUBSET Places, personal : BOOLEAN, health : BOOLEAN]

NoMarks == [places |-> {}, personal |-> FALSE, health |-> FALSE]

Regulations == {"GDPR", "HIPAA", "DPDPA"}

Accesses == {"view", "download", "verify"}

(* Who may edit or erase a note, its author or an administrator, does not  *)
(* change while a session is at it; the others' requests change nothing.   *)
NoteWork == {"note", "edit", "erase"}

Tasks == [kind : Accesses \cup NoteWork \cup {"upload", "discard", "amend", "delete"},
          file : Files, note : Notes, content : Contents, marks : Marks]

NoTask == [kind |-> "view", file |-> CHOOSE f \in Files : TRUE,
           note |-> CHOOSE n \in Notes : TRUE, content |-> "empty",
           marks |-> NoMarks]

(* The rule book: a regulation applies to an incident by its place or by   *)
(* the data involved.                                                      *)
Applying(m) ==
    {r \in Regulations :
        \/ r = "GDPR"  /\ ("EU" \in m.places \/ m.personal)
        \/ r = "HIPAA" /\ ("US" \in m.places \/ m.health)
        \/ r = "DPDPA" /\ ("IN" \in m.places \/ m.personal)}

Vault(f) == files[f] # "none"

(* Sessions that have flushed and not committed hold their locks.          *)
Holds(s, kinds) == stage[s] = "committing" /\ task[s].kind \in kinds

DeletionFlushed == \E s \in Clients : Holds(s, {"delete"})

-----------------------------------------------------------------------------
CaseInit ==
    /\ case = "none"
    /\ marks = NoMarks
    /\ registered = {}
    /\ files = [f \in Files |-> "none"]
    /\ custody = [f \in Files |-> <<>>]
    /\ notes = [n \in Notes |-> "none"]
    /\ answered = [f \in Files |-> 0]
    /\ lost = [f \in Files |-> 0]
    /\ stage = [s \in Clients |-> "idle"]
    /\ task = [s \in Clients |-> NoTask]
    /\ asked = 0

(* create_incident: the incident, its compliance records and its drafts    *)
(* are one transaction that nobody sees before its commit.                 *)
OpenCase(m) ==
    /\ case = "none"
    /\ case' = "open"
    /\ marks' = m
    /\ registered' = Applying(m)
    /\ UNCHANGED <<vault, answered, stage, task, asked>>

Ask(s, job) ==
    /\ stage[s] = "idle"
    /\ case = "open"
    /\ asked < MaxCaseRequests
    /\ asked' = asked + 1
    /\ stage' = [stage EXCEPT ![s] = "flushing"]
    /\ task' = [task EXCEPT ![s] = job]
    /\ UNCHANGED <<case, marks, registered, vault, answered>>

(* upload_evidence: a new row for a file of its own.                       *)
AskUpload(s, f, c) ==
    /\ ~Vault(f)
    /\ ~\E t \in Clients : /\ stage[t] # "idle"
                          /\ task[t].kind = "upload"
                          /\ task[t].file = f
    /\ Ask(s, [NoTask EXCEPT !.kind = "upload", !.file = f, !.content = c])

(* get_evidence_by_id, download, verify: the row is read, then an entry is *)
(* added to its chain.                                                     *)
AskAccess(s, kind, f) ==
    /\ Vault(f)
    /\ Ask(s, [NoTask EXCEPT !.kind = kind, !.file = f, !.content = files[f]])

(* delete_evidence goes through the same get().                            *)
AskDiscard(s, f) ==
    Vault(f) /\ Ask(s, [NoTask EXCEPT !.kind = "discard", !.file = f])

(* PATCH may change the places and the flags.                              *)
AskAmend(s, m) ==
    m # marks /\ Ask(s, [NoTask EXCEPT !.kind = "amend", !.marks = m])

AskDelete(s) == Ask(s, [NoTask EXCEPT !.kind = "delete"])

(* add_, update_ and delete_investigation_note: the incident is read, and  *)
(* the note, if it is to exist already.                                    *)
AskNote(s, n) ==
    /\ notes[n] = "none"
    /\ ~\E t \in Clients : stage[t] # "idle" /\ task[t].note = n
                          /\ task[t].kind = "note"
    /\ Ask(s, [NoTask EXCEPT !.kind = "note", !.note = n])

AskEdit(s, n) ==
    notes[n] # "none" /\ Ask(s, [NoTask EXCEPT !.kind = "edit", !.note = n])

AskErase(s, n) ==
    notes[n] # "none" /\ Ask(s, [NoTask EXCEPT !.kind = "erase", !.note = n])

-----------------------------------------------------------------------------
Rest(s) ==
    /\ stage' = [stage EXCEPT ![s] = "idle"]
    /\ task' = [task EXCEPT ![s] = NoTask]

Proceed(s) ==
    /\ stage' = [stage EXCEPT ![s] = "committing"]
    /\ UNCHANGED task

(* The row an INSERT refers to, or an UPDATE is of.                        *)
ParentExists(t) ==
    CASE t.kind \in {"upload", "note"} -> case = "open"
      [] t.kind = "edit" -> notes[t.note] # "none"
      [] OTHER -> Vault(t.file)

(* Immutable evidence, and every row is, is not discarded; a file without  *)
(* bytes is not downloaded.  Either refusal rolls the custody entry back.  *)
Refused(t) == \/ t.kind = "discard"
              \/ t.kind = "download" /\ t.content = "empty"

InsertFlushed(s) ==
    /\ Proceed(s)
    /\ answered' = [answered EXCEPT ![task[s].file] = @ + 1]
    /\ UNCHANGED <<case, marks, registered, vault, asked>>

(* Mutant of Insert: the foreign key does not wait for a deletion.         *)
InsertUnguarded(s) ==
    /\ stage[s] = "flushing"
    /\ task[s].kind \in Accesses \cup {"upload"}
    /\ ParentExists(task[s])
    /\ ~Refused(task[s])
    /\ InsertFlushed(s)

(* The flush of a new row, after which the client is answered.             *)
Insert(s) ==
    /\ stage[s] = "flushing"
    /\ task[s].kind \in Accesses \cup {"upload"}
    /\ ~DeletionFlushed
    /\ ParentExists(task[s])
    /\ ~Refused(task[s])
    /\ InsertFlushed(s)

(* A refusal, or a parent that went away.                                  *)
Reject(s) ==
    /\ stage[s] = "flushing"
    /\ task[s].kind \in Accesses \cup {"upload", "discard"}
    /\ ~DeletionFlushed
    /\ Refused(task[s]) \/ ~ParentExists(task[s])
    /\ Rest(s)
    /\ UNCHANGED <<case, marks, registered, vault, answered, asked>>

(* A note's INSERT and UPDATE need their rows; a DELETE that finds none is *)
(* a warning.  The row is locked until the commit, which here precedes the *)
(* answer.                                                                 *)
WriteNote(s) ==
    /\ stage[s] = "flushing"
    /\ task[s].kind \in NoteWork
    /\ ~DeletionFlushed
    /\ ~\E t \in Clients : Holds(t, NoteWork) /\ task[t].note = task[s].note
    /\ IF task[s].kind = "erase" \/ ParentExists(task[s]) THEN Proceed(s)
       ELSE Rest(s)
    /\ UNCHANGED <<case, marks, registered, vault, answered, asked>>

(* The UPDATE waits for another one and for a deletion; without a row left *)
(* it fails.                                                               *)
Amend(s) ==
    /\ stage[s] = "flushing"
    /\ task[s].kind = "amend"
    /\ ~DeletionFlushed
    /\ ~\E t \in Clients : Holds(t, {"amend"})
    /\ IF case = "open" THEN Proceed(s) ELSE Rest(s)
    /\ UNCHANGED <<case, marks, registered, vault, answered, asked>>

(* Compliance records and drafts are no cascade of the session: it sets    *)
(* their incident_id to NULL, which the column refuses, and the deletion   *)
(* fails.  Otherwise the DELETEs wait for all who hold a row of the case;  *)
(* a second deletion finds nothing left and is answered all the same.      *)
Delete(s) ==
    /\ stage[s] = "flushing"
    /\ task[s].kind = "delete"
    /\ registered # {} \/ ~\E t \in Clients : stage[t] = "committing"
    /\ IF case = "open" /\ registered = {} THEN Proceed(s) ELSE Rest(s)
    /\ UNCHANGED <<case, marks, registered, vault, answered, asked>>

-----------------------------------------------------------------------------
(* What is on record once task t is committed.                             *)
FilesAfter(t) ==
    CASE t.kind = "upload" -> [files EXCEPT ![t.file] = t.content]
      [] t.kind = "delete" -> [f \in Files |-> "none"]
      [] OTHER -> files

NotesAfter(t) ==
    CASE t.kind = "note" -> [notes EXCEPT ![t.note] = "written"]
      [] t.kind = "edit" -> [notes EXCEPT ![t.note] = "edited"]
      [] t.kind = "erase" -> [notes EXCEPT ![t.note] = "none"]
      [] t.kind = "delete" -> [n \in Notes |-> "none"]
      [] OTHER -> notes

(* Mutant of CustodyAfter: verifying leaves no trace.                      *)
CustodySilent(t) ==
    CASE t.kind = "upload" -> [custody EXCEPT ![t.file] = <<"uploaded">>]
      [] t.kind \in Accesses \ {"verify"} ->
            [custody EXCEPT ![t.file] = Append(@, "accessed")]
      [] t.kind = "delete" -> [f \in Files |-> <<>>]
      [] OTHER -> custody

CustodyAfter(t) ==
    CASE t.kind = "upload" -> [custody EXCEPT ![t.file] = <<"uploaded">>]
      [] t.kind \in Accesses -> [custody EXCEPT ![t.file] = Append(@, "accessed")]
      [] t.kind = "delete" -> [f \in Files |-> <<>>]
      [] OTHER -> custody

CommitCase(s) ==
    /\ stage[s] = "committing"
    /\ LET t == task[s]
       IN /\ files' = FilesAfter(t)
          /\ custody' = CustodyAfter(t)
          /\ notes' = NotesAfter(t)
          /\ case' = IF t.kind = "delete" THEN "gone" ELSE case
          /\ marks' = IF t.kind = "amend" THEN t.marks ELSE marks
    /\ Rest(s)
    /\ UNCHANGED <<registered, answered, lost, asked>>

(* The answer is out, the transaction is not.                              *)
LoseCommit(s) ==
    /\ CommitsFail
    /\ stage[s] = "committing"
    /\ lost' = IF task[s].kind \in Accesses \cup {"upload"}
               THEN [lost EXCEPT ![task[s].file] = @ + 1] ELSE lost
    /\ Rest(s)
    /\ UNCHANGED <<case, marks, registered, files, custody, notes, answered, asked>>

CaseRequest(s) ==
    \/ \E f \in Files, c \in Contents : AskUpload(s, f, c)
    \/ \E f \in Files, k \in Accesses : AskAccess(s, k, f)
    \/ \E f \in Files : AskDiscard(s, f)
    \/ \E m \in Marks : AskAmend(s, m)
    \/ AskDelete(s)
    \/ \E n \in Notes : AskNote(s, n) \/ AskEdit(s, n) \/ AskErase(s, n)

CaseStep(s) ==
    \/ Insert(s) \/ Reject(s) \/ Amend(s) \/ WriteNote(s) \/ Delete(s)
    \/ CommitCase(s) \/ LoseCommit(s)

CaseNext ==
    \/ \E m \in Marks : OpenCase(m)
    \/ \E s \in Clients : CaseRequest(s) \/ CaseStep(s)

CaseSpec == CaseInit /\ [][CaseNext]_caseVars

-----------------------------------------------------------------------------
CaseTypeOK ==
    /\ case \in {"none", "open", "gone"}
    /\ marks \in Marks
    /\ registered \subseteq Regulations
    /\ files \in [Files -> Contents \cup {"none"}]
    /\ custody \in [Files -> Seq({"uploaded", "accessed"})]
    /\ notes \in [Notes -> {"none", "written", "edited"}]
    /\ answered \in [Files -> Nat]
    /\ lost \in [Files -> Nat]
    /\ stage \in [Clients -> {"idle", "flushing", "committing"}]
    /\ task \in [Clients -> Tasks]
    /\ asked \in Nat

(* Nothing in the vault, the chains or the notes outlives the incident,    *)
(* whoever was uploading, reading or writing while it was deleted          *)
(* (delete_incident and the foreign keys of evidence, chain_of_custody and *)
(* investigation_notes).                                                   *)
NothingOutlivesTheCase ==
    case # "open" =>
        /\ \A f \in Files : ~Vault(f) /\ custody[f] = <<>>
        /\ \A n \in Notes : notes[n] = "none"

(* Sessions that have answered about f and not committed yet.              *)
Unwritten(f) == {s \in Clients : Holds(s, Accesses \cup {"upload"})
                                 /\ task[s].file = f}

(* Every positive answer about a file - uploaded, shown, downloaded,       *)
(* verified - is an entry of its chain, is about to be one, or its commit  *)
(* failed after the answer (evidence_service.get, upload; get_db).         *)
AnswersAreOnRecord ==
    case = "open" =>
        \A f \in Files :
            answered[f] = Len(custody[f]) + Cardinality(Unwritten(f)) + lost[f]
=============================================================================

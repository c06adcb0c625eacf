--------------------------- MODULE RegistersProofs ---------------------------
(***************************************************************************)
(* Proofs about the registers the platform keeps, and about module         *)
(* MCRegisters, which puts them side by side: of CaseFile, that nothing in *)
(* the vault, the chains or the notes outlives the incident, and that      *)
(* every positive answer about a file is accounted for; of                 *)
(* ComplianceRegister, that the dashboard overcounts by no more than was   *)
(* born while it counted, that a control stays single or broken, and that  *)
(* only a stale edit or a given score tears the score of a row from its    *)
(* status; of Posture, that the views agree with each other; and of        *)
(* Migrations, that every schema they and the application can reach goes   *)
(* up to head, and down again below revision 12, unless create_all ran     *)
(* ahead.                                                                  *)
(***************************************************************************)
EXTENDS MCRegisters, FiniteSetTheorems, WellFoundedInduction, TLAPS

-----------------------------------------------------------------------------
(* Types. *)

LEMMA NoTaskType == NoTask \in Tasks
  BY SomeFile DEF NoTask, Tasks, Accesses, NoteWork, Contents, Marks, NoMarks

LEMMA AskType ==
    ASSUME CaseTypeOK, NEW s \in Clients, NEW job \in Tasks, Ask(s, job)
    PROVE  CaseTypeOK'
  BY DEF CaseTypeOK, Ask, vault

(* What a session may ask, and what it has seen before it asks.            *)
Asks(s, job) ==
    /\ Ask(s, job)
    /\ job.kind = "upload" =>
          /\ ~Vault(job.file)
          /\ ~\E t \in Clients : /\ stage[t] # "idle"
                                /\ task[t].kind = "upload"
                                /\ task[t].file = job.file

LEMMA RequestShape ==
    ASSUME CaseTypeOK, NEW s \in Clients, CaseRequest(s)
    PROVE  \E job \in Tasks : Asks(s, job)
<1> USE NoTaskType DEF Tasks, Asks
<1>1. ASSUME NEW f \in Files, NEW c \in Contents, AskUpload(s, f, c)
      PROVE  \E job \in Tasks : Asks(s, job)
  <2> DEFINE job == [NoTask EXCEPT !.kind = "upload", !.file = f, !.content = c]
  <2>1. job \in Tasks /\ job.file = f
    OBVIOUS
  <2> QED
    BY <1>1, <2>1 DEF AskUpload
<1>2. ASSUME NEW f \in Files, NEW k \in Accesses, AskAccess(s, k, f)
      PROVE  \E job \in Tasks : Asks(s, job)
  <2> DEFINE job == [NoTask EXCEPT !.kind = k, !.file = f, !.content = files[f]]
  <2>1. files[f] \in Contents
    BY <1>2 DEF AskAccess, Vault, CaseTypeOK
  <2>2. job \in Tasks /\ job.kind # "upload"
    BY <2>1 DEF Accesses
  <2> QED
    BY <1>2, <2>2 DEF AskAccess
<1>3. ASSUME NEW f \in Files, AskDiscard(s, f)
      PROVE  \E job \in Tasks : Asks(s, job)
  <2> DEFINE job == [NoTask EXCEPT !.kind = "discard", !.file = f]
  <2>1. job \in Tasks /\ job.kind # "upload"
    OBVIOUS
  <2> QED
    BY <1>3, <2>1 DEF AskDiscard
<1>4. ASSUME NEW m \in Marks, AskAmend(s, m)
      PROVE  \E job \in Tasks : Asks(s, job)
  <2> DEFINE job == [NoTask EXCEPT !.kind = "amend", !.marks = m]
  <2>1. job \in Tasks /\ job.kind # "upload"
    OBVIOUS
  <2> QED
    BY <1>4, <2>1 DEF AskAmend
<1>5. CASE AskDelete(s)
  <2> DEFINE job == [NoTask EXCEPT !.kind = "delete"]
  <2>1. job \in Tasks /\ job.kind # "upload"
    OBVIOUS
  <2> QED
    BY <1>5, <2>1 DEF AskDelete
<1>6. ASSUME NEW n \in Notes, NEW k \in NoteWork,
             Ask(s, [NoTask EXCEPT !.kind = k, !.note = n])
      PROVE  \E job \in Tasks : Asks(s, job)
  <2> DEFINE job == [NoTask EXCEPT !.kind = k, !.note = n]
  <2>1. job \in Tasks /\ job.kind # "upload"
    BY DEF NoteWork
  <2> QED
    BY <1>6, <2>1
<1> QED
  BY <1>1, <1>2, <1>3, <1>4, <1>5, <1>6
  DEF CaseRequest, AskNote, AskEdit, AskErase, NoteWork

LEMMA AfterTypes ==
    ASSUME CaseTypeOK, NEW t \in Tasks
    PROVE  /\ FilesAfter(t) \in [Files -> Contents \cup {"none"}]
           /\ NotesAfter(t) \in [Notes -> {"none", "written", "edited"}]
           /\ CustodyAfter(t) \in [Files -> Seq({"uploaded", "accessed"})]
<1>1. t.file \in Files /\ t.note \in Notes /\ t.content \in Contents
  BY DEF Tasks
<1>2. FilesAfter(t) \in [Files -> Contents \cup {"none"}]
  BY <1>1 DEF FilesAfter, CaseTypeOK
<1>3. NotesAfter(t) \in [Notes -> {"none", "written", "edited"}]
  BY <1>1 DEF NotesAfter, CaseTypeOK
<1>4. CustodyAfter(t) \in [Files -> Seq({"uploaded", "accessed"})]
  <2>1. <<"uploaded">> \in Seq({"uploaded", "accessed"})
        /\ << >> \in Seq({"uploaded", "accessed"})
    OBVIOUS
  <2>2. Append(custody[t.file], "accessed") \in Seq({"uploaded", "accessed"})
    BY <1>1 DEF CaseTypeOK
  <2> QED
    BY <1>1, <2>1, <2>2 DEF CustodyAfter, CaseTypeOK
<1> QED
  BY <1>2, <1>3, <1>4

(* Every reachable state of the case file is well typed.                   *)
THEOREM CaseTypeCorrect == CaseSpec => []CaseTypeOK
<1>1. CaseInit => CaseTypeOK
  BY NoTaskType DEF CaseInit, CaseTypeOK, NoMarks, Marks
<1>2. CaseTypeOK /\ [CaseNext]_caseVars => CaseTypeOK'
  <2> SUFFICES ASSUME CaseTypeOK, [CaseNext]_caseVars PROVE CaseTypeOK'
    OBVIOUS
  <2>1. ASSUME NEW m \in Marks, OpenCase(m) PROVE CaseTypeOK'
    BY <2>1 DEF OpenCase, CaseTypeOK, vault, Applying
  <2>2. ASSUME NEW s \in Clients, CaseRequest(s) PROVE CaseTypeOK'
    BY <2>2, RequestShape, AskType DEF Asks
  <2>3. ASSUME NEW s \in Clients, CaseStep(s) PROVE CaseTypeOK'
    <3>1. task[s] \in Tasks /\ task[s].file \in Files /\ task[s].marks \in Marks
      BY DEF CaseTypeOK, Tasks
    <3>2. CASE Insert(s)
      BY <3>1, <3>2 DEF Insert, InsertFlushed, Proceed, CaseTypeOK, vault
    <3>3. CASE Reject(s) \/ Amend(s) \/ WriteNote(s) \/ Delete(s)
      BY <3>3, NoTaskType
      DEF Reject, Amend, WriteNote, Delete, Proceed, Rest, CaseTypeOK, vault
    <3>4. CASE CommitCase(s)
      <4>1. /\ files' = FilesAfter(task[s]) /\ notes' = NotesAfter(task[s])
            /\ custody' = CustodyAfter(task[s])
            /\ case' \in {case, "gone"} /\ marks' \in {marks, task[s].marks}
            /\ stage' = [stage EXCEPT ![s] = "idle"]
            /\ task' = [task EXCEPT ![s] = NoTask]
            /\ UNCHANGED <<registered, answered, lost, asked>>
        BY <3>4 DEF CommitCase, Rest
      <4> QED
        BY <3>1, <4>1, AfterTypes, NoTaskType DEF CaseTypeOK
    <3>5. CASE LoseCommit(s)
      BY <3>1, <3>5, NoTaskType DEF LoseCommit, Rest, CaseTypeOK
    <3> QED
      BY <2>3, <3>2, <3>3, <3>4, <3>5 DEF CaseStep
  <2>4. CASE UNCHANGED caseVars
    BY <2>4 DEF caseVars, vault, CaseTypeOK
  <2> QED
    BY <2>1, <2>2, <2>3, <2>4 DEF CaseNext
<1>3. QED
  BY <1>1, <1>2, PTL DEF CaseSpec

-----------------------------------------------------------------------------
(* The inductive invariant. *)

Counts == Accesses \cup {"upload"}

(* Who has flushed has found what its rows refer to.                       *)
HoldSound(s) ==
    stage[s] = "committing" =>
        /\ task[s].kind # "erase" => case = "open"
        /\ task[s].kind \in Accesses => Vault(task[s].file)

(* A file is uploaded once.                                                *)
UploadSound(s) ==
    stage[s] # "idle" /\ task[s].kind = "upload" =>
        /\ ~Vault(task[s].file)
        /\ \A t \in Clients :
              stage[t] # "idle" /\ task[t].kind = "upload"
                /\ task[t].file = task[s].file => t = s

(* A deletion that has flushed holds every row of the case.                *)
DeletionIsAlone ==
    \A s, t \in Clients : Holds(s, {"delete"}) /\ stage[t] = "committing" => s = t

ChainsNeedFiles == \A f \in Files : ~Vault(f) => custody[f] = << >>

NothingYet ==
    case = "none" => /\ \A s \in Clients : stage[s] = "idle"
                     /\ \A f \in Files : answered[f] = 0 /\ lost[f] = 0

CaseInv ==
    /\ CaseTypeOK
    /\ \A s \in Clients : HoldSound(s) /\ UploadSound(s)
    /\ DeletionIsAlone
    /\ ChainsNeedFiles
    /\ NothingYet
    /\ NothingOutlivesTheCase
    /\ AnswersAreOnRecord

LEMMA UnwrittenFinite ==
    \A f \in Files : IsFiniteSet(Unwritten(f)) /\ Cardinality(Unwritten(f)) \in Nat
  BY CaseLimits, FS_Subset, FS_CardinalityType DEF Unwritten

LEMMA CaseStart == CaseInit /\ CaseTypeOK => CaseInv
  BY DEF CaseInit, CaseInv, HoldSound, UploadSound, DeletionIsAlone, Holds,
         ChainsNeedFiles, NothingYet, NothingOutlivesTheCase, Vault,
         AnswersAreOnRecord

LEMMA OpenKeepsInv ==
    ASSUME CaseInv, NEW m \in Marks, OpenCase(m), CaseTypeOK'
    PROVE  CaseInv'
<1>1. /\ case = "none" /\ case' = "open"
      /\ UNCHANGED <<files, custody, notes, lost, answered, stage, task>>
  BY DEF OpenCase, vault
<1>2. /\ \A s \in Clients : stage[s] = "idle"
      /\ \A f \in Files : answered[f] = 0 /\ lost[f] = 0 /\ custody[f] = << >>
  BY <1>1 DEF CaseInv, NothingYet, NothingOutlivesTheCase
<1>3. \A f \in Files : Unwritten(f)' = {}
  BY <1>1, <1>2 DEF Unwritten, Holds
<1>4. AnswersAreOnRecord'
  <2> SUFFICES ASSUME NEW f \in Files
               PROVE  answered[f] = Len(custody[f]) + Cardinality(Unwritten(f)') + lost[f]
    BY <1>1 DEF AnswersAreOnRecord
  <2>1. Cardinality(Unwritten(f)') = 0
    BY <1>3, FS_EmptySet
  <2>2. Len(custody[f]) = 0
    BY <1>2
  <2> QED
    BY <1>2, <2>1, <2>2
<1> QED
  BY <1>1, <1>2, <1>4
  DEF CaseInv, HoldSound, UploadSound, DeletionIsAlone, Holds, ChainsNeedFiles,
      NothingYet, NothingOutlivesTheCase, Vault

LEMMA AskKeepsInv ==
    ASSUME CaseInv, NEW s \in Clients, NEW job \in Tasks, Asks(s, job), CaseTypeOK'
    PROVE  CaseInv'
<1>1. /\ stage[s] = "idle" /\ case = "open"
      /\ stage' = [stage EXCEPT ![s] = "flushing"]
      /\ task' = [task EXCEPT ![s] = job]
      /\ UNCHANGED <<case, files, custody, notes, lost, answered>>
      /\ stage \in [Clients -> {"idle", "flushing", "committing"}]
      /\ task \in [Clients -> Tasks]
  BY DEF Asks, Ask, vault, CaseInv, CaseTypeOK
<1>2. /\ stage'[s] = "flushing" /\ task'[s] = job
      /\ \A t \in Clients \ {s} : stage'[t] = stage[t] /\ task'[t] = task[t]
  BY <1>1
<1>3. \A t \in Clients : HoldSound(t)'
  BY <1>1, <1>2 DEF CaseInv, HoldSound, Vault
<1>4. \A t \in Clients : UploadSound(t)'
  <2>1. \A f \in Files : Vault(f)' = Vault(f)
    BY <1>1 DEF Vault
  <2>2. \A t \in Clients : task'[t].file \in Files
    BY DEF CaseTypeOK, Tasks
  <2>3. UploadSound(s)'
    BY <1>1, <1>2, <2>1, <2>2 DEF Asks, UploadSound
  <2>4. ASSUME NEW t \in Clients \ {s} PROVE UploadSound(t)'
    BY <1>1, <1>2, <2>1, <2>2, <2>3 DEF Asks, UploadSound, CaseInv
  <2> QED
    BY <2>3, <2>4
<1>5. DeletionIsAlone'
  BY <1>2 DEF CaseInv, DeletionIsAlone, Holds
<1>6. \A f \in Files : Unwritten(f)' = Unwritten(f)
  BY <1>1, <1>2 DEF Unwritten, Holds
<1>7. AnswersAreOnRecord'
  BY <1>1, <1>6 DEF CaseInv, AnswersAreOnRecord
<1> QED
  BY <1>1, <1>3, <1>4, <1>5, <1>7
  DEF CaseInv, ChainsNeedFiles, NothingYet, NothingOutlivesTheCase, Vault

(* A session that gives up before it has flushed.                          *)
LEMMA RestKeepsInv ==
    ASSUME CaseInv, NEW s \in Clients, stage[s] # "committing", Rest(s),
           UNCHANGED <<case, vault, answered>>, CaseTypeOK'
    PROVE  CaseInv'
<1>1. /\ stage'[s] = "idle"
      /\ \A t \in Clients \ {s} : stage'[t] = stage[t] /\ task'[t] = task[t]
      /\ UNCHANGED <<files, custody, notes, lost>>
  BY DEF Rest, CaseInv, CaseTypeOK, vault
<1>2. \A f \in Files : Unwritten(f)' = Unwritten(f)
  BY <1>1 DEF Unwritten, Holds
<1>3. AnswersAreOnRecord'
  BY <1>1, <1>2 DEF CaseInv, AnswersAreOnRecord
<1>4. \A t \in Clients : HoldSound(t)' /\ UploadSound(t)'
  BY <1>1 DEF CaseInv, HoldSound, UploadSound, Vault
<1> QED
  BY <1>1, <1>3, <1>4
  DEF CaseInv, DeletionIsAlone, Holds, ChainsNeedFiles, NothingYet,
      NothingOutlivesTheCase, Vault

(* A session that flushes and leaves the answers alone.                    *)
LEMMA ProceedKeepsInv ==
    ASSUME CaseInv, NEW s \in Clients, stage[s] = "flushing", Proceed(s),
           task[s].kind \notin Counts,
           UNCHANGED <<case, vault, answered>>, CaseTypeOK',
           task[s].kind # "erase" => case = "open",
           ~DeletionFlushed,
           task[s].kind = "delete" => \A t \in Clients : stage[t] # "committing"
    PROVE  CaseInv'
<1>1. /\ stage'[s] = "committing" /\ task' = task
      /\ \A t \in Clients \ {s} : stage'[t] = stage[t]
      /\ UNCHANGED <<files, custody, notes, lost>>
  BY DEF Proceed, CaseInv, CaseTypeOK, vault
<1>2. \A f \in Files : Unwritten(f)' = Unwritten(f)
  BY <1>1 DEF Unwritten, Holds, Counts
<1>3. AnswersAreOnRecord'
  BY <1>1, <1>2 DEF CaseInv, AnswersAreOnRecord
<1>4. \A t \in Clients : HoldSound(t)' /\ UploadSound(t)'
  BY <1>1 DEF CaseInv, HoldSound, UploadSound, Vault, Counts
<1>5. DeletionIsAlone'
  BY <1>1 DEF CaseInv, DeletionIsAlone, DeletionFlushed, Holds
<1>6. NothingYet'
  BY <1>1 DEF CaseInv, NothingYet
<1> QED
  BY <1>1, <1>3, <1>4, <1>5, <1>6
  DEF CaseInv, ChainsNeedFiles, NothingOutlivesTheCase, Vault

LEMMA InsertKeepsInv ==
    ASSUME CaseInv, NEW s \in Clients, Insert(s), CaseTypeOK'
    PROVE  CaseInv'
<1> DEFINE g == task[s].file
<1>1. /\ stage[s] = "flushing" /\ stage' = [stage EXCEPT ![s] = "committing"]
      /\ task' = task /\ task[s].kind \in Counts /\ g \in Files
      /\ answered' = [answered EXCEPT ![g] = @ + 1]
      /\ UNCHANGED <<case, files, custody, notes, lost>>
      /\ ~DeletionFlushed /\ ParentExists(task[s])
      /\ stage \in [Clients -> {"idle", "flushing", "committing"}]
      /\ answered \in [Files -> Nat] /\ lost \in [Files -> Nat]
      /\ custody \in [Files -> Seq({"uploaded", "accessed"})]
  BY DEF Insert, InsertFlushed, Proceed, vault, Counts, CaseInv, CaseTypeOK, Tasks
<1>2. /\ task[s].kind \in Accesses => Vault(g)
      /\ case = "open"
  BY <1>1
  DEF ParentExists, Counts, Accesses, CaseInv, NothingOutlivesTheCase
<1>3. /\ stage'[s] = "committing"
      /\ \A t \in Clients \ {s} : stage'[t] = stage[t]
  BY <1>1
<1>4. \A t \in Clients : HoldSound(t)' /\ UploadSound(t)'
  BY <1>1, <1>2, <1>3 DEF CaseInv, HoldSound, UploadSound, Vault
<1>5. DeletionIsAlone'
  BY <1>1, <1>3 DEF CaseInv, DeletionIsAlone, DeletionFlushed, Holds, Counts, Accesses
<1>6. ASSUME NEW f \in Files
      PROVE  answered'[f] = Len(custody[f]) + Cardinality(Unwritten(f)') + lost[f]
  <2>1. answered[f] = Len(custody[f]) + Cardinality(Unwritten(f)) + lost[f]
    BY <1>2 DEF CaseInv, AnswersAreOnRecord
  <2>2. CASE f = g
    <3>1. Unwritten(f)' = Unwritten(f) \cup {s} /\ s \notin Unwritten(f)
      BY <1>1, <1>3, <2>2 DEF Unwritten, Holds, Counts
    <3>2. Cardinality(Unwritten(f)') = Cardinality(Unwritten(f)) + 1
      BY <3>1, UnwrittenFinite, FS_AddElement
    <3>3. answered'[f] = answered[f] + 1 /\ Len(custody[f]) \in Nat /\ lost[f] \in Nat
      BY <1>1, <2>2
    <3>4. Cardinality(Unwritten(f)) \in Nat
      BY UnwrittenFinite
    <3> QED
      BY <2>1, <3>2, <3>3, <3>4
  <2>3. CASE f # g
    <3>1. Unwritten(f)' = Unwritten(f)
      BY <1>1, <1>3, <2>3 DEF Unwritten, Holds
    <3> QED
      BY <1>1, <2>1, <2>3, <3>1
  <2> QED
    BY <2>2, <2>3
<1>7. AnswersAreOnRecord'
  BY <1>1, <1>6 DEF AnswersAreOnRecord
<1> QED
  BY <1>1, <1>2, <1>4, <1>5, <1>7
  DEF CaseInv, ChainsNeedFiles, NothingYet, NothingOutlivesTheCase, Vault

(* What a commit leaves of the tables, by the kind of task.                *)
LEMMA CommitShape ==
    ASSUME CaseInv, NEW s \in Clients, CommitCase(s)
    PROVE  LET t == task[s]
           IN /\ t.file \in Files /\ t.note \in Notes /\ t.content \in Contents
              /\ stage[s] = "committing" /\ HoldSound(s) /\ UploadSound(s)
              /\ stage' = [stage EXCEPT ![s] = "idle"]
              /\ task' = [task EXCEPT ![s] = NoTask]
              /\ files' = FilesAfter(t) /\ custody' = CustodyAfter(t)
              /\ notes' = NotesAfter(t)
              /\ case' = IF t.kind = "delete" THEN "gone" ELSE case
              /\ UNCHANGED <<answered, lost>>
              /\ stage'[s] = "idle"
              /\ \A r \in Clients \ {s} : stage'[r] = stage[r] /\ task'[r] = task[r]
  BY DEF CommitCase, Rest, CaseInv, CaseTypeOK, Tasks

LEMMA DeletionKeepsInv ==
    ASSUME CaseInv, NEW s \in Clients, CommitCase(s), task[s].kind = "delete",
           CaseTypeOK'
    PROVE  CaseInv'
<1>1. /\ case' = "gone" /\ stage'[s] = "idle" /\ stage[s] = "committing"
      /\ \A f \in Files : files'[f] = "none" /\ custody'[f] = << >>
      /\ \A n \in Notes : notes'[n] = "none"
      /\ \A r \in Clients \ {s} : stage'[r] = stage[r] /\ task'[r] = task[r]
  BY CommitShape DEF FilesAfter, CustodyAfter, NotesAfter, Accesses
<1>2. \A t \in Clients : stage'[t] # "committing"
  BY <1>1 DEF CaseInv, DeletionIsAlone, Holds
<1>3. \A t \in Clients : task'[t].file \in Files
  BY DEF CaseTypeOK, Tasks
<1>4. \A t \in Clients : HoldSound(t)' /\ UploadSound(t)'
  BY <1>1, <1>2, <1>3 DEF CaseInv, HoldSound, UploadSound, Vault
<1> QED
  BY <1>1, <1>2, <1>4
  DEF CaseInv, DeletionIsAlone, Holds, ChainsNeedFiles, NothingYet,
      NothingOutlivesTheCase, AnswersAreOnRecord, Vault

LEMMA CaseCommitKeepsInv ==
    ASSUME CaseInv, NEW s \in Clients, CommitCase(s), task[s].kind # "delete",
           CaseTypeOK'
    PROVE  CaseInv'
<1> DEFINE x == task[s]
           g == task[s].file
<1>1. /\ g \in Files /\ x.content \in Contents /\ stage[s] = "committing"
      /\ HoldSound(s) /\ UploadSound(s)
      /\ stage'[s] = "idle" /\ case' = case
      /\ UNCHANGED <<answered, lost>>
      /\ \A r \in Clients \ {s} : stage'[r] = stage[r] /\ task'[r] = task[r]
      /\ files' = FilesAfter(x) /\ custody' = CustodyAfter(x) /\ notes' = NotesAfter(x)
      /\ files \in [Files -> Contents \cup {"none"}]
      /\ custody \in [Files -> Seq({"uploaded", "accessed"})]
  BY CommitShape DEF CaseInv, CaseTypeOK
<1>2. /\ x.kind = "upload" => files'[g] = x.content /\ custody'[g] = <<"uploaded">>
      /\ x.kind # "upload" => files'[g] = files[g]
      /\ x.kind \in Accesses => custody'[g] = Append(custody[g], "accessed")
      /\ x.kind \notin Counts => custody'[g] = custody[g]
      /\ \A f \in Files \ {g} : files'[f] = files[f] /\ custody'[f] = custody[f]
  BY <1>1 DEF FilesAfter, CustodyAfter, Counts, Accesses
<1>3. x.kind # "upload" => \A f \in Files : Vault(f)' = Vault(f)
  BY <1>2 DEF Vault
<1>4. \A f \in Files : Vault(f) => Vault(f)'
  BY <1>1, <1>2 DEF Vault, Contents
<1>5. \A f \in Files : f # g => Vault(f)' = Vault(f)
  BY <1>2 DEF Vault
<1>6. ASSUME NEW t \in Clients PROVE HoldSound(t)' /\ UploadSound(t)'
  <2>1. CASE t = s
    BY <1>1, <2>1 DEF HoldSound, UploadSound
  <2>2. CASE t # s
    <3>1. /\ stage'[t] = stage[t] /\ task'[t] = task[t] /\ task[t].file \in Files
          /\ HoldSound(t) /\ UploadSound(t)
      BY <1>1, <2>2 DEF CaseInv, CaseTypeOK, Tasks
    <3>2. HoldSound(t)'
      BY <1>1, <1>4, <3>1 DEF HoldSound
    <3>3. UploadSound(t)'
      BY <1>1, <1>3, <1>5, <2>2, <3>1 DEF UploadSound
    <3> QED
      BY <3>2, <3>3
  <2> QED
    BY <2>1, <2>2
<1>7. DeletionIsAlone'
  BY <1>1 DEF CaseInv, DeletionIsAlone, Holds
<1>8. ChainsNeedFiles'
  <2> SUFFICES ASSUME NEW f \in Files, ~Vault(f)' PROVE custody'[f] = << >>
    BY DEF ChainsNeedFiles
  <2>1. ~Vault(f) /\ custody[f] = << >>
    BY <1>4 DEF CaseInv, ChainsNeedFiles
  <2>2. f = g => x.kind \notin Counts
    <3>1. f = g /\ x.kind = "upload" => FALSE
      BY <1>1, <1>2 DEF Vault, Contents
    <3>2. f = g /\ x.kind \in Accesses => FALSE
      BY <1>1, <2>1 DEF HoldSound
    <3> QED
      BY <3>1, <3>2 DEF Counts
  <2> QED
    BY <1>2, <2>1, <2>2
<1>9. NothingOutlivesTheCase'
  <2> SUFFICES ASSUME case # "open" PROVE NothingOutlivesTheCase'
    BY <1>1 DEF NothingOutlivesTheCase
  <2>1. x.kind = "erase"
    BY <1>1 DEF HoldSound
  <2>2. \A n \in Notes : notes'[n] = "none"
    BY <1>1, <2>1, CommitShape DEF NotesAfter, CaseInv, CaseTypeOK, NothingOutlivesTheCase
  <2> QED
    BY <1>1, <1>2, <1>3, <2>1, <2>2
    DEF CaseInv, NothingOutlivesTheCase, Counts, Accesses
<1>10. ASSUME NEW f \in Files, case = "open"
       PROVE  answered[f] = Len(custody'[f]) + Cardinality(Unwritten(f)') + lost[f]
  <2>1. answered[f] = Len(custody[f]) + Cardinality(Unwritten(f)) + lost[f]
    BY <1>10 DEF CaseInv, AnswersAreOnRecord
  <2>2. CASE f = g /\ x.kind \in Counts
    <3>1. Unwritten(f)' = Unwritten(f) \ {s} /\ s \in Unwritten(f)
      BY <1>1, <2>2 DEF Unwritten, Holds, Counts
    <3>2. Cardinality(Unwritten(f)') = Cardinality(Unwritten(f)) - 1
      BY <3>1, UnwrittenFinite, FS_RemoveElement
    <3>3. Len(custody'[f]) = Len(custody[f]) + 1
      <4>1. CASE x.kind = "upload"
        <5>1. custody[f] = << >>
          BY <1>1, <2>2, <4>1 DEF UploadSound, CaseInv, ChainsNeedFiles
        <5>2. custody'[f] = <<"uploaded">>
          BY <1>2, <2>2, <4>1
        <5> QED
          BY <5>1, <5>2
      <4>2. CASE x.kind \in Accesses
        <5>1. custody'[f] = Append(custody[f], "accessed")
          BY <1>2, <2>2, <4>2
        <5>2. custody[f] \in Seq({"uploaded", "accessed"})
          BY <1>1
        <5> QED
          BY <5>1, <5>2
      <4> QED
        BY <2>2, <4>1, <4>2 DEF Counts
    <3>4. /\ Len(custody[f]) \in Nat /\ Cardinality(Unwritten(f)) \in Nat
          /\ lost[f] \in Nat
      BY <1>1, UnwrittenFinite DEF CaseInv, CaseTypeOK
    <3> QED
      BY <2>1, <3>2, <3>3, <3>4
  <2>3. CASE ~(f = g /\ x.kind \in Counts)
    <3>1. Unwritten(f)' = Unwritten(f)
      BY <1>1, <2>3 DEF Unwritten, Holds, Counts
    <3>2. custody'[f] = custody[f]
      BY <1>2, <2>3
    <3> QED
      BY <2>1, <3>1, <3>2
  <2> QED
    BY <2>2, <2>3
<1>11. AnswersAreOnRecord'
  BY <1>1, <1>10 DEF AnswersAreOnRecord
<1> QED
  BY <1>1, <1>6, <1>7, <1>8, <1>9, <1>11 DEF CaseInv, NothingYet

LEMMA LossKeepsInv ==
    ASSUME CaseInv, NEW s \in Clients, LoseCommit(s), CaseTypeOK'
    PROVE  CaseInv'
<1> DEFINE g == task[s].file
<1>1. /\ stage[s] = "committing" /\ g \in Files
      /\ stage'[s] = "idle"
      /\ \A r \in Clients \ {s} : stage'[r] = stage[r] /\ task'[r] = task[r]
      /\ lost' = IF task[s].kind \in Counts THEN [lost EXCEPT ![g] = @ + 1] ELSE lost
      /\ UNCHANGED <<case, files, custody, notes, answered>>
      /\ lost \in [Files -> Nat]
      /\ custody \in [Files -> Seq({"uploaded", "accessed"})]
  BY DEF LoseCommit, Rest, Counts, CaseInv, CaseTypeOK, Tasks
<1>2. ASSUME NEW t \in Clients PROVE HoldSound(t)' /\ UploadSound(t)'
  <2>1. CASE t = s
    BY <1>1, <2>1 DEF HoldSound, UploadSound
  <2>2. CASE t # s
    <3>1. /\ stage'[t] = stage[t] /\ task'[t] = task[t] /\ task[t].file \in Files
          /\ HoldSound(t) /\ UploadSound(t)
      BY <1>1, <2>2 DEF CaseInv, CaseTypeOK, Tasks
    <3>2. HoldSound(t)'
      BY <1>1, <3>1 DEF HoldSound, Vault
    <3>3. UploadSound(t)'
      BY <1>1, <2>2, <3>1 DEF UploadSound, Vault
    <3> QED
      BY <3>2, <3>3
  <2> QED
    BY <2>1, <2>2
<1>3. case # "none"
  BY <1>1 DEF CaseInv, NothingYet
<1>4. ASSUME NEW f \in Files, case = "open"
      PROVE  answered[f] = Len(custody[f]) + Cardinality(Unwritten(f)') + lost'[f]
  <2>1. answered[f] = Len(custody[f]) + Cardinality(Unwritten(f)) + lost[f]
    BY <1>4 DEF CaseInv, AnswersAreOnRecord
  <2>2. CASE f = g /\ task[s].kind \in Counts
    <3>1. Unwritten(f)' = Unwritten(f) \ {s} /\ s \in Unwritten(f)
      BY <1>1, <2>2 DEF Unwritten, Holds, Counts
    <3>2. Cardinality(Unwritten(f)') = Cardinality(Unwritten(f)) - 1
      BY <3>1, UnwrittenFinite, FS_RemoveElement
    <3>3. lost'[f] = lost[f] + 1
      BY <1>1, <2>2
    <3>4. custody[f] \in Seq({"uploaded", "accessed"}) /\ lost[f] \in Nat
      BY DEF CaseInv, CaseTypeOK
    <3>5. Len(custody[f]) \in Nat /\ Cardinality(Unwritten(f)) \in Nat
      BY <3>4, UnwrittenFinite
    <3> QED
      BY <2>1, <3>2, <3>3, <3>4, <3>5
  <2>3. CASE ~(f = g /\ task[s].kind \in Counts)
    <3>1. Unwritten(f)' = Unwritten(f)
      BY <1>1, <2>3 DEF Unwritten, Holds, Counts
    <3>2. lost'[f] = lost[f]
      BY <1>1, <2>3
    <3> QED
      BY <2>1, <3>1, <3>2
  <2> QED
    BY <2>2, <2>3
<1>5. AnswersAreOnRecord'
  BY <1>1, <1>4 DEF AnswersAreOnRecord
<1> QED
  BY <1>1, <1>2, <1>3, <1>5
  DEF CaseInv, DeletionIsAlone, Holds, ChainsNeedFiles, NothingYet,
      NothingOutlivesTheCase, Vault

LEMMA CaseStepKeepsInv ==
    ASSUME CaseInv, NEW s \in Clients, CaseStep(s), CaseTypeOK'
    PROVE  CaseInv'
<1> DEFINE k == task[s].kind
<1>1. CASE Insert(s)
  BY <1>1, InsertKeepsInv
<1>2. CASE Reject(s)
  BY <1>2, RestKeepsInv DEF Reject
<1>3. CASE Amend(s)
  <2>1. /\ stage[s] = "flushing" /\ k = "amend" /\ ~DeletionFlushed
        /\ UNCHANGED <<case, vault, answered>>
        /\ IF case = "open" THEN Proceed(s) ELSE Rest(s)
    BY <1>3 DEF Amend
  <2> QED
    BY <2>1, ProceedKeepsInv, RestKeepsInv DEF Counts, Accesses
<1>4. CASE WriteNote(s)
  <2>1. /\ stage[s] = "flushing" /\ k \in NoteWork /\ ~DeletionFlushed
        /\ UNCHANGED <<case, vault, answered>>
        /\ IF k = "erase" \/ ParentExists(task[s]) THEN Proceed(s) ELSE Rest(s)
    BY <1>4 DEF WriteNote
  <2>2. k \notin Counts /\ k # "delete"
    BY <2>1 DEF NoteWork, Counts, Accesses
  <2>3. ParentExists(task[s]) /\ k # "erase" => case = "open"
    <3>1. task[s].note \in Notes
      BY DEF CaseInv, CaseTypeOK, Tasks
    <3> QED
      BY <2>1, <3>1 DEF ParentExists, NoteWork, CaseInv, NothingOutlivesTheCase
  <2> QED
    BY <2>1, <2>2, <2>3, ProceedKeepsInv, RestKeepsInv
<1>5. CASE Delete(s)
  <2>1. /\ stage[s] = "flushing" /\ k = "delete"
        /\ UNCHANGED <<case, vault, answered>>
        /\ \/ Rest(s)
           \/ /\ Proceed(s) /\ case = "open"
              /\ \A t \in Clients : stage[t] # "committing"
    BY <1>5 DEF Delete
  <2>2. CASE Rest(s)
    BY <2>1, <2>2, RestKeepsInv
  <2>3. CASE Proceed(s) /\ case = "open" /\ \A t \in Clients : stage[t] # "committing"
    <3>1. ~DeletionFlushed
      BY <2>3 DEF DeletionFlushed, Holds
    <3> QED
      BY <2>1, <2>3, <3>1, ProceedKeepsInv DEF Counts, Accesses
  <2> QED
    BY <2>1, <2>2, <2>3
<1>6. CASE CommitCase(s)
  BY <1>6, DeletionKeepsInv, CaseCommitKeepsInv
<1>7. CASE LoseCommit(s)
  BY <1>7, LossKeepsInv
<1> QED
  BY <1>1, <1>2, <1>3, <1>4, <1>5, <1>6, <1>7 DEF CaseStep

LEMMA CaseNextKeepsInv ==
    ASSUME CaseInv, CaseTypeOK', [CaseNext]_caseVars
    PROVE  CaseInv'
<1>1. ASSUME NEW s \in Clients, CaseRequest(s) PROVE CaseInv'
  <2>1. CaseTypeOK
    BY DEF CaseInv
  <2> QED
    BY <1>1, <2>1, RequestShape, AskKeepsInv
<1>2. CASE UNCHANGED caseVars
  BY <1>2
  DEF caseVars, vault, CaseInv, HoldSound, UploadSound, DeletionIsAlone, Holds,
      ChainsNeedFiles, NothingYet, NothingOutlivesTheCase, AnswersAreOnRecord,
      Unwritten, Vault
<1> QED
  BY <1>1, <1>2, OpenKeepsInv, CaseStepKeepsInv DEF CaseNext

(* Nothing in the vault, the chains or the notes outlives the incident,    *)
(* whoever uploads, reads or writes while it is deleted (delete_incident   *)
(* and the cascades of models/incident.py and models/evidence.py).         *)
THEOREM NothingOutlives == CaseSpec => []NothingOutlivesTheCase
<1>1. CaseInv /\ CaseTypeOK' /\ [CaseNext]_caseVars => CaseInv'
  BY CaseNextKeepsInv
<1>2. CaseInv => NothingOutlivesTheCase
  BY DEF CaseInv
<1>3. QED
  BY <1>1, <1>2, CaseStart, CaseTypeCorrect, PTL DEF CaseSpec

(* Every positive answer about a file of an open case is an entry of its   *)
(* chain, about to be one, or one whose commit failed                      *)
(* (EvidenceService.upload, get; get_db).                                  *)
THEOREM AnswersAreAccountedFor == CaseSpec => []AnswersAreOnRecord
<1>1. CaseInv /\ CaseTypeOK' /\ [CaseNext]_caseVars => CaseInv'
  BY CaseNextKeepsInv
<1>2. CaseInv => AnswersAreOnRecord
  BY DEF CaseInv
<1>3. QED
  BY <1>1, <1>2, CaseStart, CaseTypeCorrect, PTL DEF CaseSpec

-----------------------------------------------------------------------------
(* Counting records and rows. *)

LEMMA CountType ==
    \A states : /\ IsFiniteSet(RecordsIn(states))
                /\ Counted(states) \in Nat
  BY RegisterLimits, FS_Subset, FS_CardinalityType DEF RecordsIn, Counted

LEMMA DisjointCount ==
    ASSUME NEW S, NEW T, IsFiniteSet(S), IsFiniteSet(T), S \cap T = {}
    PROVE  Cardinality(S \cup T) = Cardinality(S) + Cardinality(T)
<1>1. /\ Cardinality(S \cup T) = Cardinality(S) + Cardinality(T) - Cardinality(S \cap T)
      /\ Cardinality(S \cap T) = 0
  BY FS_Union, FS_EmptySet
<1>2. Cardinality(S) \in Nat /\ Cardinality(T) \in Nat
  BY FS_CardinalityType
<1> QED
  BY <1>1, <1>2

LEMMA RowCountType ==
    /\ IsFiniteSet(Kept) /\ Cardinality(Kept) \in Nat
    /\ IsFiniteSet(Compliant) /\ Cardinality(Compliant) \in Nat
    /\ \A c \in Controls : /\ IsFiniteSet(RowsOf(c))
                           /\ Cardinality(RowsOf(c)) \in Nat
  BY RegisterLimits, FS_Subset, FS_CardinalityType DEF Kept, Compliant, RowsOf

LEMMA ScoreType == OverallScore \in Nat
<1>1. CASE Kept = {}
  BY <1>1 DEF OverallScore, NoScore
<1>2. CASE Kept # {}
  <2>1. Cardinality(Kept) # 0
    BY <1>2, RowCountType, FS_EmptySet
  <2> DEFINE k == Cardinality(Kept)
             c == Cardinality(Compliant)
  <2>2. k \in Nat /\ k > 0 /\ c \in Nat
    BY <2>1, RowCountType
  <2>3. OverallScore = (c * 100) \div k
    BY <1>2 DEF OverallScore
  <2> HIDE DEF k, c
  <2> QED
    BY <2>2, <2>3
<1> QED
  BY <1>1, <1>2

-----------------------------------------------------------------------------
(* Types. *)

LEMMA RowTypes ==
    /\ Idle \in Edits /\ NoBoard \in Boards
    /\ \A c \in Controls, st \in Statuses : Fresh(c, st) \in Obligations
    /\ \A row \in Obligations, st \in Statuses : Rescored(row, st) \in Obligations
    /\ \A row \in Obligations, st \in Statuses \cup {None},
          score \in GivenScores \cup {NoScore} : Patched(row, st, score) \in Obligations
<1>1. Idle \in Edits /\ NoBoard \in Boards
  BY DEF Idle, Edits, NoBoard, Boards, None
<1>2. \A c \in Controls, st \in Statuses : Fresh(c, st) \in Obligations
  BY DEF Fresh, Obligations, Scores
<1>3. \A row \in Obligations, st \in Statuses : Rescored(row, st) \in Obligations
  BY DEF Rescored, Obligations, Scores
<1>4. ASSUME NEW row \in Obligations, NEW st \in Statuses \cup {None},
             NEW score \in GivenScores \cup {NoScore}
      PROVE  Patched(row, st, score) \in Obligations
  <2>1. score # NoScore => score \in Scores
    BY DEF Scores
  <2>2. row.status \in Statuses /\ row.score \in Scores /\ row.control \in Controls
    BY DEF Obligations
  <2>3. {0, 100} \subseteq Scores
    BY DEF Scores
  <2>4. st # None => st \in Statuses
    OBVIOUS
  <2> QED
    BY <2>1, <2>2, <2>3, <2>4 DEF Patched, Obligations
<1> QED
  BY <1>1, <1>2, <1>3, <1>4

LEMMA NoRowIsNone == NoRow \notin Obligations
  BY DEF NoRow, Obligations, Statuses

(* What a session may have found when it begins an edit.                   *)
Begins(e, x) ==
    /\ Begin(e, x)
    /\ x \in Edits
    /\ x.stage = "updating" =>
          /\ x.of \in Rows /\ InRegister(x.of)
          /\ x.read \in Obligations /\ x.mine \in Obligations
          /\ Split(x.mine) => x.given \/ Split(x.read)
    /\ x.stage = "inserting" =>
          /\ x.mine \in Obligations /\ ~Split(x.mine)
          /\ RowsOf(x.mine.control) = {}

Edited(e) == \E x \in Edits : Begins(e, x)

LEMMA FoundIsEdited ==
    ASSUME RegisterTypeOK, NEW e \in Editors, NEW o \in Rows, NEW st \in Statuses,
           UpsertFinds(e, o, st)
    PROVE  Edited(e)
<1> DEFINE x == [stage |-> "updating", of |-> o, read |-> obligation[o],
                 mine |-> Rescored(obligation[o], st), given |-> FALSE]
<1>1. Begin(e, x) /\ InRegister(o)
  BY DEF UpsertFinds, RowsOf
<1>2. obligation[o] \in Obligations
  BY <1>1 DEF InRegister, RegisterTypeOK
<1>3. Rescored(obligation[o], st) \in Obligations
  BY <1>2, RowTypes
<1>4. ~Split(Rescored(obligation[o], st))
  BY <1>2 DEF Split, Rescored, Obligations
<1>5. x \in Edits
  BY <1>2, <1>3 DEF Edits
<1> QED
  BY <1>1, <1>2, <1>3, <1>4, <1>5 DEF Edited, Begins

LEMMA MissIsEdited ==
    ASSUME NEW e \in Editors, NEW c \in Controls, NEW st \in Statuses,
           UpsertMisses(e, c, st)
    PROVE  Edited(e)
<1> DEFINE x == [stage |-> "inserting", of |-> None, read |-> NoRow,
                 mine |-> Fresh(c, st), given |-> FALSE]
<1>1. Begin(e, x) /\ RowsOf(c) = {}
  BY DEF UpsertMisses
<1>2. Fresh(c, st) \in Obligations /\ Fresh(c, st).control = c
  BY RowTypes DEF Fresh
<1>3. ~Split(Fresh(c, st))
  BY DEF Split, Fresh
<1>4. x \in Edits
  BY <1>2 DEF Edits
<1> QED
  BY <1>1, <1>2, <1>3, <1>4 DEF Edited, Begins

LEMMA PatchIsEdited ==
    ASSUME RegisterTypeOK, NEW e \in Editors, NEW o \in Rows,
           NEW st \in Statuses \cup {None},
           NEW score \in GivenScores \cup {NoScore}, Patch(e, o, st, score)
    PROVE  Edited(e)
<1> DEFINE y == Patched(obligation[o], st, score)
           x == [stage |-> "updating", of |-> o, read |-> obligation[o],
                 mine |-> y, given |-> score # NoScore]
<1>1. Begin(e, x) /\ InRegister(o)
  BY DEF Patch
<1>2. obligation[o] \in Obligations
  BY <1>1 DEF InRegister, RegisterTypeOK
<1>3. y \in Obligations
  BY <1>2, RowTypes
<1>4. score = NoScore /\ Split(y) => Split(obligation[o])
  BY <1>2 DEF Split, Patched, Obligations, Statuses, None
<1>5. x \in Edits
  BY <1>2, <1>3 DEF Edits
<1> HIDE DEF y
<1> QED
  BY <1>1, <1>2, <1>3, <1>4, <1>5 DEF Edited, Begins

LEMMA EditShape ==
    ASSUME RegisterTypeOK, NEW e \in Editors, ObligationStep(e)
    PROVE  Edited(e) \/ CommitUpdate(e) \/ CommitInsert(e) \/ Assess(e)
  BY FoundIsEdited, MissIsEdited, PatchIsEdited DEF ObligationStep

(* What every session that is about to write knows of its row.             *)
EditSound(e) ==
    /\ edit[e].stage = "updating" =>
          /\ edit[e].of \in Rows /\ InRegister(edit[e].of)
          /\ edit[e].read \in Obligations /\ edit[e].mine \in Obligations
          /\ Split(edit[e].mine) => edit[e].given \/ Split(edit[e].read)
    /\ edit[e].stage = "inserting" =>
          /\ edit[e].mine \in Obligations
          /\ ~Split(edit[e].mine)

RegisterInv == RegisterTypeOK /\ \A e \in Editors : EditSound(e)

LEMMA RewrittenType ==
    ASSUME RegisterInv, NEW e \in Editors, edit[e].stage = "updating"
    PROVE  /\ edit[e].of \in Rows /\ obligation[edit[e].of] \in Obligations
           /\ Rewritten(edit[e]) \in Obligations
           /\ Rewritten(edit[e]).control = obligation[edit[e].of].control
<1>1. /\ edit[e].of \in Rows /\ InRegister(edit[e].of)
      /\ edit[e].read \in Obligations /\ edit[e].mine \in Obligations
  BY DEF RegisterInv, EditSound
<1>2. obligation[edit[e].of] \in Obligations
  BY <1>1 DEF InRegister, RegisterInv, RegisterTypeOK
<1> QED
  BY <1>1, <1>2 DEF Rewritten, Flushed, Obligations

LEMMA RegisterStart == RegisterInit => RegisterInv
<1> SUFFICES ASSUME RegisterInit PROVE RegisterInv
  OBVIOUS
<1>1. RegisterTypeOK
  BY RowTypes DEF RegisterInit, RegisterTypeOK
<1>2. \A e \in Editors : edit[e].stage = "idle"
  BY DEF RegisterInit, Idle
<1> QED
  BY <1>1, <1>2 DEF RegisterInv, EditSound

LEMMA RecordsKeepInv ==
    ASSUME RegisterInv, RecordStep
    PROVE  RegisterInv'
<1>1. UNCHANGED obligationVars
  BY DEF RecordStep, Generate, Expire, MarkMet, CountTotal, CountMet, CountOverdue
<1>2. /\ record' \in [Records -> {"absent", "pending", "overdue", "met"}]
      /\ board' \in Boards /\ born' \in Nat
  <2> USE CountType, RowTypes DEF RegisterInv, RegisterTypeOK, Boards
  <2>1. ASSUME NEW rs \in SUBSET Records, Generate(rs)
        PROVE  /\ record' \in [Records -> {"absent", "pending", "overdue", "met"}]
               /\ board' \in Boards /\ born' \in Nat
    <3>1. Cardinality(rs) \in Nat
      BY RegisterLimits, FS_Subset, FS_CardinalityType
    <3> QED
      BY <2>1, <3>1 DEF Generate
  <2>2. ASSUME NEW r \in Records, Expire(r) \/ MarkMet(r)
        PROVE  /\ record' \in [Records -> {"absent", "pending", "overdue", "met"}]
               /\ board' \in Boards /\ born' \in Nat
    BY <2>2 DEF Expire, MarkMet
  <2>3. CASE CountTotal
    BY <2>3 DEF CountTotal, NoBoard
  <2>4. CASE CountMet
    BY <2>4 DEF CountMet
  <2>5. CASE CountOverdue
    BY <2>5 DEF CountOverdue
  <2> QED
    BY <2>1, <2>2, <2>3, <2>4, <2>5 DEF RecordStep
<1>3. RegisterTypeOK'
  BY <1>1, <1>2 DEF RegisterInv, RegisterTypeOK, obligationVars
<1> QED
  BY <1>1, <1>3 DEF RegisterInv, EditSound, obligationVars, InRegister

LEMMA BeginKeepsInv ==
    ASSUME RegisterInv, NEW e \in Editors, NEW x \in Edits, Begins(e, x)
    PROVE  RegisterInv'
<1>1. /\ edit' = [edit EXCEPT ![e] = x] /\ edits' = edits + 1
      /\ UNCHANGED <<record, board, born, obligation, assessment>>
      /\ edit \in [Editors -> Edits]
  BY DEF Begins, Begin, recordVars, RegisterInv, RegisterTypeOK
<1>2. RegisterTypeOK'
  BY <1>1 DEF RegisterInv, RegisterTypeOK
<1>3. ASSUME NEW d \in Editors PROVE EditSound(d)'
  <2>1. CASE d = e
    <3>1. edit'[d] = x
      BY <1>1, <2>1
    <3> QED
      BY <1>1, <3>1 DEF EditSound, Begins, InRegister
  <2>2. CASE d # e
    <3>1. edit'[d] = edit[d]
      BY <1>1, <2>2
    <3> QED
      BY <1>1, <3>1 DEF EditSound, RegisterInv, InRegister
  <2> QED
    BY <2>1, <2>2
<1> QED
  BY <1>2, <1>3 DEF RegisterInv

(* Either commit writes a whole row, and rows stay in the register.        *)
LEMMA EditCommitKeepsInv ==
    ASSUME RegisterInv, NEW e \in Editors, NEW o \in Rows, NEW row \in Obligations,
           obligation' = [obligation EXCEPT ![o] = row],
           Close(e), UNCHANGED <<recordVars, assessment, edits>>
    PROVE  RegisterInv'
<1>1. /\ edit' = [edit EXCEPT ![e] = Idle]
      /\ UNCHANGED <<record, board, born, assessment, edits>>
      /\ edit \in [Editors -> Edits]
      /\ obligation \in [Rows -> Obligations \cup {NoRow}]
  BY DEF Close, recordVars, RegisterInv, RegisterTypeOK
<1>2. RegisterTypeOK'
  BY <1>1, RowTypes DEF RegisterInv, RegisterTypeOK
<1>3. \A p \in Rows : InRegister(p) => InRegister(p)'
  BY <1>1, NoRowIsNone DEF InRegister
<1>4. ASSUME NEW d \in Editors PROVE EditSound(d)'
  <2>1. CASE d = e
    <3>1. edit'[d].stage = "idle"
      BY <1>1, <2>1 DEF Idle
    <3> QED
      BY <3>1 DEF EditSound
  <2>2. CASE d # e
    <3>1. edit'[d] = edit[d] /\ EditSound(d)
      BY <1>1, <2>2 DEF RegisterInv
    <3> QED
      BY <1>3, <3>1 DEF EditSound
  <2> QED
    BY <2>1, <2>2
<1> QED
  BY <1>2, <1>4 DEF RegisterInv

LEMMA RegisterNextKeepsInv ==
    ASSUME RegisterInv, [RegisterNext]_registerVars
    PROVE  RegisterInv'
<1>1. ASSUME NEW e \in Editors, ObligationStep(e) PROVE RegisterInv'
  <2>1. CASE Edited(e)
    BY <2>1, BeginKeepsInv DEF Edited
  <2>2. CASE CommitUpdate(e)
    BY <2>2, RewrittenType, EditCommitKeepsInv DEF CommitUpdate
  <2>3. CASE CommitInsert(e)
    <3>1. edit[e].mine \in Obligations
      BY <2>3 DEF CommitInsert, RegisterInv, EditSound
    <3>2. PICK o \in Rows : obligation' = [obligation EXCEPT ![o] = edit[e].mine]
      BY <2>3 DEF CommitInsert
    <3> QED
      BY <2>3, <3>1, <3>2, EditCommitKeepsInv DEF CommitInsert
  <2>4. CASE Assess(e)
    <3>1. assessment' \in [score : Nat, total : Nat, compliant : Nat]
      BY <2>4, RowCountType, ScoreType DEF Assess
    <3>2. RegisterTypeOK'
      BY <2>4, <3>1 DEF Assess, RegisterInv, RegisterTypeOK, recordVars
    <3> QED
      BY <2>4, <3>2 DEF Assess, RegisterInv, EditSound, InRegister
  <2> QED
    BY <1>1, <2>1, <2>2, <2>3, <2>4, EditShape DEF RegisterInv
<1>2. ASSUME NEW c \in Controls, UpsertFails(c) PROVE RegisterInv'
  BY <1>2 DEF UpsertFails, recordVars, RegisterInv, RegisterTypeOK, EditSound, InRegister
<1>3. CASE UNCHANGED registerVars
  BY <1>3 DEF registerVars, RegisterInv, RegisterTypeOK, EditSound, InRegister
<1> QED
  BY <1>1, <1>2, <1>3, RecordsKeepInv DEF RegisterNext

LEMMA RegisterInvHolds == RegisterSpec => []RegisterInv
<1>1. RegisterInv /\ [RegisterNext]_registerVars => RegisterInv'
  BY RegisterNextKeepsInv
<1> QED
  BY <1>1, RegisterStart, PTL DEF RegisterSpec

(* Every reachable state of the register is well typed.                    *)
THEOREM RegisterTypeCorrect == RegisterSpec => []RegisterTypeOK
<1>1. RegisterInv => RegisterTypeOK
  BY DEF RegisterInv
<1> QED
  BY <1>1, RegisterInvHolds, PTL

-----------------------------------------------------------------------------
(* Rows and their scores. *)

(* The obligations change only when an edit is committed.                  *)
LEMMA WhoWrites ==
    ASSUME RegisterTypeOK, [RegisterNext]_registerVars
    PROVE  \/ UNCHANGED obligation
           \/ \E e \in Editors : CommitUpdate(e) \/ CommitInsert(e)
<1>1. RecordStep => UNCHANGED obligation
  BY DEF RecordStep, Generate, Expire, MarkMet, CountTotal, CountMet,
         CountOverdue, obligationVars
<1>2. \A e \in Editors : Edited(e) \/ Assess(e) => UNCHANGED obligation
  BY DEF Edited, Begins, Begin, Assess
<1>3. \A c \in Controls : UpsertFails(c) => UNCHANGED obligation
  BY DEF UpsertFails
<1> QED
  BY <1>1, <1>2, <1>3, EditShape DEF RegisterNext, registerVars

LEMMA SplitStep ==
    ASSUME RegisterInv, [RegisterNext]_registerVars, NEW o \in Rows,
           Split(obligation'[o]), ~Split(obligation[o])
    PROVE  \E e \in Editors : edit[e].of = o /\ (edit[e].given \/ Stale(edit[e]))
<1>1. obligation'[o] # obligation[o]
  OBVIOUS
<1>2. PICK e \in Editors : CommitUpdate(e) \/ CommitInsert(e)
  BY <1>1, WhoWrites DEF RegisterInv
<1>3. CASE CommitInsert(e)
  <2>1. ~Split(edit[e].mine)
    BY <1>3 DEF CommitInsert, RegisterInv, EditSound
  <2>2. PICK p \in Rows : obligation' = [obligation EXCEPT ![p] = edit[e].mine]
    BY <1>3 DEF CommitInsert
  <2>3. p = o /\ obligation'[o] = edit[e].mine
    BY <1>1, <2>2 DEF RegisterInv, RegisterTypeOK
  <2> QED
    BY <2>1, <2>3
<1>4. CASE CommitUpdate(e)
  <2> DEFINE x == edit[e]
  <2>1. /\ x.stage = "updating" /\ x.of \in Rows
        /\ x.read \in Obligations /\ x.mine \in Obligations
        /\ Split(x.mine) => x.given \/ Split(x.read)
        /\ obligation' = [obligation EXCEPT ![x.of] = Rewritten(x)]
    BY <1>4 DEF CommitUpdate, RegisterInv, EditSound
  <2>2. x.of = o /\ obligation'[o] = Rewritten(x)
    BY <1>1, <2>1 DEF RegisterInv, RegisterTypeOK
  <2>3. SUFFICES ASSUME obligation[o] = x.read, ~x.given PROVE FALSE
    BY <2>1, <2>2 DEF Stale
  <2>4. ~Split(x.read) /\ ~Split(x.mine)
    BY <2>1, <2>3
  <2>5. /\ Rewritten(x).status = x.mine.status
        /\ Rewritten(x).score = x.mine.score
    BY <2>2, <2>3 DEF Rewritten, Flushed
  <2>6. Split(Rewritten(x))
    BY <2>2
  <2> HIDE DEF x
  <2> QED
    BY <2>4, <2>5, <2>6 DEF Split
<1> QED
  BY <1>2, <1>3, <1>4

(* A row's score parts with its status only where a request stated the     *)
(* score, or a session had decided on a row that was replaced              *)
(* (upsert_obligation, update_obligation).                                 *)
THEOREM SplitRowsAreStale == RegisterSpec => OnlyStaleEditsSplitRows
<1>1. RegisterInv /\ [RegisterNext]_registerVars =>
        [\A o \in Rows :
          Split(obligation'[o]) /\ ~Split(obligation[o]) =>
              \E e \in Editors : /\ edit[e].of = o
                                 /\ edit[e].given \/ Stale(edit[e])]_registerVars
  BY SplitStep
<1> QED
  BY <1>1, RegisterInvHolds, PTL DEF RegisterSpec, OnlyStaleEditsSplitRows

LEMMA ControlStep ==
    ASSUME RegisterInv, [RegisterNext]_registerVars, NEW c \in Controls
    PROVE  (Settled(c) => Settled(c)') /\ (Broken(c) => Broken(c)')
<1>1. RowsOf(c) \subseteq RowsOf(c)' /\ (Settled(c) => RowsOf(c)' = RowsOf(c))
  <2>1. CASE UNCHANGED obligation
    BY <2>1 DEF RowsOf, InRegister
  <2>2. ASSUME NEW e \in Editors, CommitUpdate(e) PROVE RowsOf(c)' = RowsOf(c)
    <3> DEFINE p == edit[e].of
               row == Rewritten(edit[e])
    <3>1. /\ p \in Rows /\ obligation[p] \in Obligations
          /\ row \in Obligations /\ row.control = obligation[p].control
          /\ obligation' = [obligation EXCEPT ![p] = row]
          /\ obligation \in [Rows -> Obligations \cup {NoRow}]
      BY <2>2, RewrittenType DEF CommitUpdate, RegisterInv, RegisterTypeOK
    <3> HIDE DEF p, row
    <3> QED
      BY <3>1, NoRowIsNone DEF RowsOf, InRegister
  <2>3. ASSUME NEW e \in Editors, CommitInsert(e)
        PROVE  RowsOf(c) \subseteq RowsOf(c)' /\ (Settled(c) => RowsOf(c)' = RowsOf(c))
    <3>1. PICK p \in Rows : /\ ~InRegister(p)
                            /\ obligation' = [obligation EXCEPT ![p] = edit[e].mine]
      BY <2>3 DEF CommitInsert
    <3>2. /\ obligation'[p] = edit[e].mine
          /\ \A o \in Rows \ {p} : obligation'[o] = obligation[o]
      BY <3>1 DEF RegisterInv, RegisterTypeOK
    <3>3. Settled(c) => edit[e].mine.control # c
      BY <2>3 DEF Settled, CommitInsert
    <3> QED
      BY <3>1, <3>2, <3>3 DEF RowsOf, InRegister
  <2> QED
    BY <2>1, <2>2, <2>3, WhoWrites DEF RegisterInv
<1>2. Broken(c) => Broken(c)'
  <2>1. IsFiniteSet(RowsOf(c)')
    BY RegisterLimits, FS_Subset DEF RowsOf
  <2>2. /\ Cardinality(RowsOf(c)) <= Cardinality(RowsOf(c)')
        /\ Cardinality(RowsOf(c)) \in Nat /\ Cardinality(RowsOf(c)') \in Nat
    BY <1>1, <2>1, RowCountType, FS_Subset, FS_CardinalityType
  <2>3. Broken(c)' <=> Cardinality(RowsOf(c)') > 1
    BY DEF Broken
  <2> QED
    BY <2>2, <2>3 DEF Broken
<1>3. ASSUME Settled(c), NEW d \in Editors,
             edit'[d].stage = "inserting", edit'[d].mine.control = c
      PROVE  FALSE
  <2>1. edit'[d] # edit[d]
    BY <1>3 DEF Settled
  <2>2. RowsOf(c) # {}
    <3>1. Cardinality(RowsOf(c)) = 1
      BY <1>3 DEF Settled
    <3>2. Cardinality({}) = 0
      BY FS_EmptySet
    <3> QED
      BY <3>1, <3>2
  <2>3. ASSUME NEW e \in Editors, CommitUpdate(e) \/ CommitInsert(e) PROVE FALSE
    <3>1. edit' = [edit EXCEPT ![e] = Idle]
      BY <2>3 DEF CommitUpdate, CommitInsert, Close
    <3>2. edit'[d] = edit[d] \/ edit'[d] = Idle
      BY <3>1 DEF RegisterInv, RegisterTypeOK
    <3> QED
      BY <1>3, <2>1, <3>2 DEF Idle
  <2>4. ASSUME NEW e \in Editors, NEW x \in Edits, Begins(e, x) PROVE FALSE
    <3>1. edit' = [edit EXCEPT ![e] = x]
      BY <2>4 DEF Begins, Begin
    <3>2. edit'[d] = edit[d] \/ edit'[d] = x
      BY <3>1 DEF RegisterInv, RegisterTypeOK
    <3>3. x.stage = "inserting" => RowsOf(x.mine.control) = {}
      BY <2>4 DEF Begins
    <3> QED
      BY <1>3, <2>1, <2>2, <3>2, <3>3
  <2>5. UNCHANGED edit => FALSE
    BY <2>1
  <2>6. /\ RecordStep => UNCHANGED edit
        /\ \A e \in Editors : Assess(e) => UNCHANGED edit
        /\ \A b \in Controls : UpsertFails(b) => UNCHANGED edit
        /\ UNCHANGED registerVars => UNCHANGED edit
    BY DEF RecordStep, Generate, Expire, MarkMet, CountTotal, CountMet,
           CountOverdue, obligationVars, Assess, UpsertFails, registerVars
  <2> QED
    BY <2>3, <2>4, <2>5, <2>6, EditShape DEF RegisterNext, Edited, RegisterInv
<1>4. Settled(c) => Settled(c)'
  BY <1>1, <1>3 DEF Settled
<1> QED
  BY <1>2, <1>4

(* A settled control stays settled and a broken one broken, whatever edits *)
(* overlap (upsert_obligation and the index migration 008 does not make).  *)
THEOREM ControlsCorrect == RegisterSpec => ControlsStayAsTheyAre
<1>1. RegisterInv /\ [RegisterNext]_registerVars =>
        [\A c \in Controls : /\ Settled(c) => Settled(c)'
                             /\ Broken(c) => Broken(c)']_registerVars
  BY ControlStep
<1> QED
  BY <1>1, RegisterInvHolds, PTL DEF RegisterSpec, ControlsStayAsTheyAre

-----------------------------------------------------------------------------
(* The dashboard. *)

Present == {"pending", "overdue", "met"}

(* What is known of the total while the parts are still to be counted.     *)
BoardInv ==
    /\ board.stage \in {"total", "met"} => Counted(Present) = board.total + born
    /\ board.stage = "met" => board.met <= Counted({"met"})
    /\ BoardNeverOvercounts

LEMMA BoardStep ==
    ASSUME BoardInv, RegisterTypeOK, RecordStep
    PROVE  BoardInv'
<1>1. /\ record \in [Records -> {"absent", "pending", "overdue", "met"}]
      /\ board \in Boards /\ born \in Nat
  BY DEF RegisterTypeOK
<1>2. board.total \in Nat /\ board.met \in Nat /\ board.overdue \in Nat
  BY <1>1 DEF Boards
<1>3. ASSUME NEW rs \in SUBSET Records, Generate(rs) PROVE BoardInv'
  <2>1. /\ RecordsIn(Present)' = RecordsIn(Present) \cup rs
        /\ RecordsIn(Present) \cap rs = {}
        /\ RecordsIn({"met"})' = RecordsIn({"met"})
    BY <1>1, <1>3 DEF Generate, RecordsIn, Present
  <2>2. IsFiniteSet(rs) /\ Cardinality(rs) \in Nat
    BY RegisterLimits, FS_Subset, FS_CardinalityType
  <2>3. Counted(Present)' = Counted(Present) + Cardinality(rs)
    <3>1. Counted(Present)' = Cardinality(RecordsIn(Present)')
      BY DEF Counted
    <3>2. Cardinality(RecordsIn(Present) \cup rs)
            = Cardinality(RecordsIn(Present)) + Cardinality(rs)
      BY <2>1, <2>2, CountType, DisjointCount
    <3> QED
      BY <2>1, <3>1, <3>2 DEF Counted
  <2>4. Counted({"met"})' = Counted({"met"})
    BY <2>1 DEF Counted
  <2>5. board' = board /\ born' = born + Cardinality(rs)
    BY <1>3 DEF Generate
  <2> QED
    BY <1>1, <1>2, <2>2, <2>3, <2>4, <2>5, CountType DEF BoardInv, BoardNeverOvercounts
<1>4. ASSUME NEW r \in Records, Expire(r) \/ MarkMet(r) PROVE BoardInv'
  <2>1. /\ RecordsIn(Present)' = RecordsIn(Present)
        /\ RecordsIn({"met"}) \subseteq RecordsIn({"met"})'
        /\ board' = board /\ born' = born
    BY <1>1, <1>4 DEF Expire, MarkMet, RecordsIn, Present
  <2>2. IsFiniteSet(RecordsIn({"met"})')
    BY RegisterLimits, FS_Subset DEF RecordsIn
  <2>3. /\ Counted({"met"}) <= Counted({"met"})'
        /\ Counted({"met"}) \in Nat /\ Counted({"met"})' \in Nat
    BY <2>1, <2>2, FS_Subset, FS_CardinalityType, CountType DEF Counted
  <2>4. Counted(Present)' = Counted(Present)
    BY <2>1 DEF Counted
  <2> QED
    BY <1>2, <2>1, <2>3, <2>4 DEF BoardInv, BoardNeverOvercounts
<1>5. CASE CountTotal
  <2>1. /\ board'.stage = "total" /\ born' = 0 /\ record' = record
        /\ board'.total = Counted(Present)
    BY <1>5 DEF CountTotal, NoBoard, Present
  <2>2. Counted(Present)' = Counted(Present) /\ Counted(Present) \in Nat
    BY <2>1, CountType DEF Counted, RecordsIn
  <2> QED
    BY <2>1, <2>2 DEF BoardInv, BoardNeverOvercounts
<1>6. CASE CountMet
  <2>1. /\ board.stage = "total" /\ born' = born /\ record' = record
        /\ board'.stage = "met" /\ board'.total = board.total
        /\ board'.met = Counted({"met"})
    BY <1>1, <1>6 DEF CountMet, Boards
  <2>2. /\ Counted(Present)' = Counted(Present)
        /\ Counted({"met"})' = Counted({"met"}) /\ Counted({"met"}) \in Nat
    BY <2>1, CountType DEF Counted, RecordsIn
  <2> QED
    BY <2>1, <2>2 DEF BoardInv, BoardNeverOvercounts
<1>7. CASE CountOverdue
  <2>1. /\ board.stage = "met" /\ born' = born
        /\ board'.stage = "shown" /\ board'.total = board.total
        /\ board'.met = board.met /\ board'.overdue = Counted({"overdue"})
    BY <1>1, <1>7 DEF CountOverdue, Boards
  <2>2. /\ RecordsIn({"met"}) \cup RecordsIn({"overdue"}) \subseteq RecordsIn(Present)
        /\ RecordsIn({"met"}) \cap RecordsIn({"overdue"}) = {}
    BY DEF RecordsIn, Present
  <2>3. Counted({"met"}) + Counted({"overdue"}) <= Counted(Present)
    <3>1. Cardinality(RecordsIn({"met"}) \cup RecordsIn({"overdue"}))
            = Counted({"met"}) + Counted({"overdue"})
      BY <2>2, CountType, DisjointCount DEF Counted
    <3>2. Cardinality(RecordsIn({"met"}) \cup RecordsIn({"overdue"}))
            <= Counted(Present)
      BY <2>2, CountType, FS_Subset DEF Counted
    <3> QED
      BY <3>1, <3>2
  <2>4. Counted({"met"}) \in Nat /\ Counted({"overdue"}) \in Nat
    BY CountType
  <2> QED
    BY <1>1, <1>2, <2>1, <2>3, <2>4 DEF BoardInv, BoardNeverOvercounts
<1> QED
  BY <1>3, <1>4, <1>5, <1>6, <1>7 DEF RecordStep

(* The met and the overdue of a dashboard exceed its total by no more than *)
(* the records born since the total was read (get_dashboard), so pending   *)
(* is negative only then.                                                  *)
THEOREM BoardCorrect == RegisterSpec => []BoardNeverOvercounts
<1>1. RegisterInit => BoardInv
  BY DEF RegisterInit, NoBoard, BoardInv, BoardNeverOvercounts
<1>2. BoardInv /\ RegisterTypeOK /\ [RegisterNext]_registerVars => BoardInv'
  <2> SUFFICES ASSUME BoardInv, RegisterTypeOK, [RegisterNext]_registerVars
               PROVE  BoardInv'
    OBVIOUS
  <2>1. ASSUME UNCHANGED recordVars PROVE BoardInv'
    BY <2>1 DEF recordVars, BoardInv, BoardNeverOvercounts, Counted, RecordsIn
  <2>2. \A e \in Editors : ObligationStep(e) => UNCHANGED recordVars
    BY EditShape
    DEF Edited, Begins, Begin, CommitUpdate, CommitInsert, Assess
  <2>3. \A c \in Controls : UpsertFails(c) => UNCHANGED recordVars
    BY DEF UpsertFails
  <2> QED
    BY <2>1, <2>2, <2>3, BoardStep DEF RegisterNext, registerVars, recordVars
<1>3. BoardInv => BoardNeverOvercounts
  BY DEF BoardInv
<1> QED
  BY <1>1, <1>2, <1>3, RegisterTypeCorrect, PTL DEF RegisterSpec

-----------------------------------------------------------------------------
(* Posture. *)

(* The numbers add up to what the scope holds.                             *)
PostureInv ==
    /\ PostureTypeOK
    /\ Opened + Resolved <= MaxIncidents
    /\ Duties <= MaxRecords

LEMMA PostureNumbers ==
    ASSUME PostureTypeOK
    PROVE  /\ \A v \in Severities : open[v] \in Nat
           /\ \A c \in Classes : closed[c] \in Nat
           /\ \A x \in Dues : due[x] \in Nat
           /\ users \in Nat \ {0} /\ forbidden \in BOOLEAN
           /\ MaxIncidents \in Nat /\ MaxRecords \in Nat /\ MaxUsers \in Nat
  BY PostureLimits DEF PostureTypeOK

(* Types, when the numbers add up.                                         *)
LEMMA SumsBound ==
    ASSUME NEW o \in [Severities -> Nat], NEW c \in [Classes -> Nat],
           NEW d \in [Dues -> Nat],
           o["critical"] + o["high"] + (o["medium"] + o["low"]) + o["info"]
              + (c["critical"] + c["other"]) <= MaxIncidents,
           d["pending"] + d["overdue"] + d["met"] <= MaxRecords
    PROVE  /\ o \in [Severities -> 0..MaxIncidents]
           /\ c \in [Classes -> 0..MaxIncidents]
           /\ d \in [Dues -> 0..MaxRecords]
<1>1. MaxIncidents \in Nat /\ MaxRecords \in Nat
  BY PostureLimits
<1>2. \A v \in Severities : o[v] \in 0..MaxIncidents
  BY <1>1 DEF Severities, Classes
<1>3. \A v \in Classes : c[v] \in 0..MaxIncidents
  BY <1>1 DEF Severities, Classes
<1>4. \A v \in Dues : d[v] \in 0..MaxRecords
  BY <1>1 DEF Dues
<1> QED
  BY <1>2, <1>3, <1>4

LEMMA PostureStep == PostureInv /\ [PostureNext]_postureVars => PostureInv'
<1> SUFFICES ASSUME PostureInv, [PostureNext]_postureVars PROVE PostureInv'
  OBVIOUS
<1>a. /\ open \in [Severities -> Nat] /\ closed \in [Classes -> Nat]
      /\ due \in [Dues -> Nat]
      /\ open["critical"] + open["high"] + (open["medium"] + open["low"])
            + open["info"] + (closed["critical"] + closed["other"]) <= MaxIncidents
      /\ due["pending"] + due["overdue"] + due["met"] <= MaxRecords
      /\ users \in 1..MaxUsers /\ forbidden \in BOOLEAN
      /\ MaxIncidents \in Nat /\ MaxRecords \in Nat /\ MaxUsers \in Nat
  BY PostureLimits
  DEF PostureInv, PostureTypeOK, Opened, Resolved, Minor, Unmet, Duties
<1>b. ASSUME open' \in [Severities -> Nat], closed' \in [Classes -> Nat],
             due' \in [Dues -> Nat],
             open'["critical"] + open'["high"] + (open'["medium"] + open'["low"])
               + open'["info"] + (closed'["critical"] + closed'["other"])
               <= MaxIncidents,
             due'["pending"] + due'["overdue"] + due'["met"] <= MaxRecords,
             users' \in 1..MaxUsers, forbidden' \in BOOLEAN
      PROVE  PostureInv'
  BY <1>b, SumsBound
  DEF PostureInv, PostureTypeOK, Opened, Resolved, Minor, Unmet, Duties
<1>1. ASSUME NEW v \in Severities, OpenIncident(v) PROVE PostureInv'
  <2>1. /\ UNCHANGED <<closed, due, users, forbidden>>
        /\ open' \in [Severities -> Nat]
        /\ \A u \in Severities : open'[u] = IF u = v THEN open[u] + 1 ELSE open[u]
        /\ open["critical"] + open["high"] + (open["medium"] + open["low"])
            + open["info"] + (closed["critical"] + closed["other"]) < MaxIncidents
    BY <1>1, <1>a DEF OpenIncident, Opened, Resolved, Minor
  <2>2. open'["critical"] + open'["high"] + (open'["medium"] + open'["low"])
          + open'["info"] + (closed'["critical"] + closed'["other"])
          <= MaxIncidents
    BY <2>1, <1>a DEF Severities, Classes
  <2> QED
    BY <1>a, <1>b, <2>1, <2>2
<1>2. ASSUME NEW v \in Severities, CloseIncident(v) PROVE PostureInv'
  <2>1. /\ UNCHANGED <<due, users, forbidden>> /\ open[v] > 0
        /\ open' \in [Severities -> Nat] /\ closed' \in [Classes -> Nat]
        /\ \A u \in Severities : open'[u] = IF u = v THEN open[u] - 1 ELSE open[u]
        /\ \A c \in Classes : closed'[c] = IF c = Class(v) THEN closed[c] + 1
                                                           ELSE closed[c]
    BY <1>2, <1>a DEF CloseIncident, Class, Classes
  <2>2. open'["critical"] + open'["high"] + (open'["medium"] + open'["low"])
          + open'["info"] + (closed'["critical"] + closed'["other"])
          <= MaxIncidents
    BY <2>1, <1>a DEF Severities, Classes, Class
  <2> QED
    BY <1>a, <1>b, <2>1, <2>2
<1>3. CASE Regulate
  <2>1. /\ UNCHANGED <<open, closed, users, forbidden>>
        /\ due' \in [Dues -> Nat]
        /\ \A x \in Dues : due'[x] = IF x = "pending" THEN due[x] + 1 ELSE due[x]
        /\ due["pending"] + due["overdue"] + due["met"] < MaxRecords
    BY <1>3, <1>a DEF Regulate, Duties, Unmet, Dues
  <2>2. due'["pending"] + due'["overdue"] + due'["met"] <= MaxRecords
    BY <2>1, <1>a DEF Dues
  <2> QED
    BY <1>a, <1>b, <2>1, <2>2
<1>4. ASSUME NEW from \in Dues, NEW to \in Dues, from # to, MoveRecord(from, to)
      PROVE  PostureInv'
  <2>1. /\ UNCHANGED <<open, closed, users, forbidden>> /\ due[from] > 0
        /\ due' \in [Dues -> Nat]
        /\ \A x \in Dues : due'[x] = IF x = from THEN due[x] - 1
                                     ELSE IF x = to THEN due[x] + 1 ELSE due[x]
    BY <1>4, <1>a DEF MoveRecord
  <2>2. due'["pending"] + due'["overdue"] + due'["met"] <= MaxRecords
    BY <1>4, <2>1, <1>a DEF Dues
  <2> QED
    BY <1>a, <1>b, <2>1, <2>2
<1>5. CASE Join \/ Leave \/ Probe \/ Calm
  <2>1. UNCHANGED <<open, closed, due>>
    BY <1>5 DEF Join, Leave, Probe, Calm
  <2>2. users' \in 1..MaxUsers
    BY <1>5, <1>a DEF Join, Leave, Probe, Calm
  <2>3. forbidden' \in BOOLEAN
    BY <1>5, <1>a, Zenon DEF Join, Leave, Probe, Calm
  <2> QED
    BY <1>a, <1>b, <2>1, <2>2, <2>3
<1>6. CASE UNCHANGED postureVars
  BY <1>6, <1>a, <1>b DEF postureVars
<1>7. ASSUME Meet \/ Lapse PROVE PostureInv'
  BY <1>4, <1>7 DEF Meet, Lapse, Dues
<1> QED
  BY <1>1, <1>2, <1>3, <1>5, <1>6, <1>7 DEF PostureNext

LEMMA PostureInitial == PostureInit => PostureInv
<1> SUFFICES ASSUME PostureInit PROVE PostureInv
  OBVIOUS
<1>1. /\ open \in [Severities -> Nat] /\ closed \in [Classes -> Nat]
      /\ due \in [Dues -> Nat]
  BY DEF PostureInit
<1>2. /\ Opened = 0 /\ Resolved = 0 /\ Duties = 0
  BY DEF PostureInit, Opened, Resolved, Minor, Unmet, Duties, Severities,
         Classes, Dues
<1>3. PostureTypeOK
  <2>1. /\ 0 \in 0..MaxIncidents /\ 0 \in 0..MaxRecords /\ 1 \in 1..MaxUsers
        /\ FALSE \in BOOLEAN
    BY PostureLimits
  <2> QED
    BY <2>1 DEF PostureInit, PostureTypeOK
<1> QED
  BY <1>2, <1>3, PostureLimits DEF PostureInv

(* Every reachable state of the counted numbers is well typed.             *)
THEOREM PostureTypeCorrect == PostureSpec => []PostureTypeOK
<1>1. PostureInv => PostureTypeOK
  BY DEF PostureInv
<1> QED
  BY <1>1, PostureInitial, PostureStep, PTL DEF PostureSpec

-----------------------------------------------------------------------------
(* What the scores are made of. *)

(* A score between 0 and 100, less by what is taken off beyond the bonus.  *)
LEMMA ScoreFacts ==
    ASSUME NEW plus \in {0, 5}, NEW minus \in Nat
    PROVE  /\ Score100(plus, minus) \in 0..100
           /\ 100 + plus - minus >= 0 => Score100(plus, minus) <= 100 + plus - minus
           /\ minus >= plus /\ 100 + plus - minus >= 0
                 => Score100(plus, minus) = 100 + plus - minus
           /\ minus < plus => Score100(plus, minus) = 100
           /\ 100 + plus - minus < 0 => Score100(plus, minus) = 0
  BY DEF Score100, Least

(* What is taken off, one after the other, for what is open or overdue.    *)
OffCritical == Least(open["critical"] * 15, 45)
OffHigh == Least(open["high"] * 8, 24)
OffMinor == Least(Minor * 2, 10)
OffOverdue == Least(due["overdue"] * 5, 15)
OffForbidden == IF forbidden THEN 10 ELSE 0
OffUsers == Least(users * 4, 20)

LEMMA DeductionFacts ==
    ASSUME PostureTypeOK
    PROVE  /\ Deductions
                = OffCritical + OffHigh + OffMinor + OffOverdue + OffForbidden
           /\ QuickScore = 100 - OffCritical - OffHigh - OffOverdue
           /\ OffCritical \in 0..45 /\ OffHigh \in 0..24 /\ OffMinor \in 0..10
           /\ OffOverdue \in 0..15 /\ OffForbidden \in 0..10 /\ OffUsers \in 1..20
           /\ OffCritical > 0 <=> open["critical"] > 0
           /\ OffHigh > 0 <=> open["high"] > 0
           /\ open["high"] <= 1 => OffHigh <= 8
           /\ OffOverdue > 0 <=> due["overdue"] > 0
           /\ OffForbidden > 0 <=> forbidden
<1>1. /\ open["critical"] \in Nat /\ open["high"] \in Nat /\ Minor \in Nat
      /\ due["overdue"] \in Nat /\ users \in Nat \ {0} /\ forbidden \in BOOLEAN
  BY PostureNumbers DEF Severities, Dues, Minor
<1>2. OffCritical \in 0..45 /\ (OffCritical > 0 <=> open["critical"] > 0)
  BY <1>1 DEF OffCritical, Least
<1>3. OffHigh \in 0..24 /\ (OffHigh > 0 <=> open["high"] > 0)
      /\ (open["high"] <= 1 => OffHigh <= 8)
  BY <1>1 DEF OffHigh, Least
<1>4. OffMinor \in 0..10
  BY <1>1 DEF OffMinor, Least
<1>5. OffOverdue \in 0..15 /\ (OffOverdue > 0 <=> due["overdue"] > 0)
  BY <1>1 DEF OffOverdue, Least
<1>6. OffForbidden \in 0..10 /\ (OffForbidden > 0 <=> forbidden)
  BY <1>1 DEF OffForbidden
<1>7. OffUsers \in 1..20
  BY <1>1 DEF OffUsers, Least
<1>8. Deductions = OffCritical + OffHigh + OffMinor + OffOverdue + OffForbidden
  BY Zenon DEF Deductions, OffCritical, OffHigh, OffMinor, OffOverdue, OffForbidden
<1>9. QuickScore = 100 - OffCritical - OffHigh - OffOverdue
  BY Zenon DEF QuickScore, OffCritical, OffHigh, OffOverdue
<1> QED
  BY <1>2, <1>3, <1>4, <1>5, <1>6, <1>7, <1>8, <1>9

(* A grade below A is a score below 90. *)
LEMMA GradeFacts == \A n \in Nat : Grade(n) # "A" => n < 90
  BY DEF Grade

(* What the views show follows from the numbers alone.                     *)
LEMMA NumbersAgree == PostureTypeOK => PagesAgree
<1> SUFFICES ASSUME PostureTypeOK PROVE PagesAgree
  OBVIOUS
<1>a. /\ \A v \in Severities : open[v] \in Nat
      /\ \A c \in Classes : closed[c] \in Nat
      /\ \A x \in Dues : due[x] \in Nat
      /\ users \in Nat \ {0} /\ forbidden \in BOOLEAN
  BY PostureNumbers
<1>1. /\ Deductions
           = OffCritical + OffHigh + OffMinor + OffOverdue + OffForbidden
      /\ QuickScore = 100 - OffCritical - OffHigh - OffOverdue
      /\ OffCritical \in 0..45 /\ OffHigh \in 0..24 /\ OffMinor \in 0..10
      /\ OffOverdue \in 0..15 /\ OffForbidden \in 0..10 /\ OffUsers \in 1..20
      /\ OffCritical > 0 <=> open["critical"] > 0
      /\ OffHigh > 0 <=> open["high"] > 0
      /\ open["high"] <= 1 => OffHigh <= 8
      /\ OffOverdue > 0 <=> due["overdue"] > 0
      /\ OffForbidden > 0 <=> forbidden
  BY DeductionFacts
<1> DEFINE plus == IF Unmet = 0 THEN 5 ELSE 0
           less == IF Duties > 0 /\ Unmet = 0 THEN 5 ELSE 0
<1>2. Score = Score100(plus, Deductions) /\ ReportScore = Score100(less, Deductions + OffUsers)
  BY Zenon DEF Score, ReportScore, OffUsers
<1>3. plus \in {0, 5} /\ less \in {0, 5} /\ less <= plus
      /\ Deductions \in Nat /\ Deductions + OffUsers \in Nat
  BY <1>1
<1> HIDE DEF plus, less
<1>4. Score \in 0..100 /\ ReportScore \in 0..100
  BY <1>2, <1>3, ScoreFacts
<1>5. ReportScore <= Score /\ Score <= ReportScore + 25
  BY <1>1, <1>2, <1>3 DEF Score100, Least
<1>6. Score <= QuickScore + 5 /\ QuickScore <= Score + 20
  BY <1>1, <1>2, <1>3 DEF Score100, Least
<1>7. Grade(Score) # "A" => Recommended # {}
  <2> SUFFICES ASSUME Grade(Score) # "A", Recommended = {} PROVE FALSE
    OBVIOUS
  <2>1. Score < 90
    BY <1>4, GradeFacts
  <2>2. /\ ~(open["critical"] > 0) /\ ~(open["high"] > 0 /\ open["critical"] = 0)
        /\ ~(due["overdue"] > 0) /\ ~forbidden
    BY DEF Recommended
  <2>3. open["critical"] = 0
    BY <1>a, <2>2 DEF Severities
  <2>4. OffCritical = 0 /\ OffHigh = 0 /\ OffOverdue = 0 /\ OffForbidden = 0
    BY <1>1, <2>2, <2>3
  <2> QED
    BY <1>1, <1>2, <1>3, <2>1, <2>4 DEF Score100, Least
<1>8. Grade(ReportScore) # "A" => "Recommendations" \in Sections
  <2>1. "mfa" \in ReportRecommended
    BY <1>a DEF ReportRecommended
  <2> QED
    BY <2>1 DEF Sections
<1>9. Grade(QuickScore) # "A" => OverviewRecommended # {} \/ open["high"] > 1
  <2> SUFFICES ASSUME Grade(QuickScore) # "A", OverviewRecommended = {},
                      ~(open["high"] > 1)
               PROVE  FALSE
    OBVIOUS
  <2>1. QuickScore \in Nat
    BY <1>1
  <2>2. QuickScore < 90
    BY <2>1, GradeFacts
  <2>3. ~(open["critical"] > 0) /\ ~(due["overdue"] > 0)
    BY DEF OverviewRecommended, Overview
  <2>4. open["high"] <= 1
    BY <1>a DEF Severities
  <2> QED
    BY <1>1, <2>2, <2>3, <2>4
<1>10. /\ ReportCounts.total = Summary.total /\ Overview.open = Summary.open
       /\ Overview.critical <= Summary.critical
  BY <1>a DEF ReportCounts, Summary, Overview, Severities, Classes
<1>11. ReportCounts.listed > 0 <=> "Open Critical Incidents" \in Sections
  <2>1. ReportCounts.listed > 0 <=> open["critical"] > 0
    BY <1>a DEF ReportCounts, Least, Severities
  <2> QED
    BY <2>1 DEF Sections
<1> QED
  BY <1>5, <1>6, <1>7, <1>8, <1>9, <1>10, <1>11 DEF PagesAgree

(* Whatever is opened, closed, due, met or overdue, and however large the  *)
(* scope is, the views agree as far as they claim to: the report's score   *)
(* is within 25 points of the page's, the overview's within 20, and a      *)
(* grade below A comes with a recommendation (get_security_score,          *)
(* _build_report_data, ProjectService._quick_score).                       *)
THEOREM PagesCorrect == PostureSpec => []PagesAgree
  BY PostureTypeCorrect, NumbersAgree, PTL

-----------------------------------------------------------------------------
(* Migrations. *)

(* The revision a table comes with.                                        *)
Born(t) ==
    IF t = "revoked_tokens" THEN 5
    ELSE IF t = "projects" THEN 7
    ELSE IF t = "investigation_notes" THEN 11
    ELSE IF t = "project_invitations" THEN 14
    ELSE IF t \in ObligationTables THEN 8
    ELSE IF t \in PlatformTables THEN 10
    ELSE 1

(* The CHECK a revision leaves behind. *)
AllowedAt(v) ==
    IF v <= 1 THEN AllRoles ELSE IF v = 2 THEN SevenRoles ELSE ThreeRoles

ApiKeysAt(v) == IF v < 7 THEN "none" ELSE IF v < 12 THEN "plain" ELSE "hashed"

TablesAt(v) == {t \in Tables : Born(t) <= v}

KeysAt(v) ==
    {k \in ForeignKeys \ ProjectColumns : Born(k[1]) <= v}
    \cup {k \in ProjectColumns : v >= 7}

(* A schema that only revisions have made.                                 *)
Clean(d) ==
    /\ d.tables = TablesAt(d.version)
    /\ d.keys = KeysAt(d.version)
    /\ d.apiKeys = ApiKeysAt(d.version)
    /\ d.keyless => d.version >= 6

(* One that create_all got to before its last revision, and that this      *)
(* revision never passes.                                                  *)
Spoilt(d) == "project_invitations" \in d.tables /\ d.version < 14

InOrder(d) ==
    /\ d \in Databases
    /\ d.allowed = AllowedAt(d.version) /\ Complies(d)
    /\ d.version >= 12 => d.apiKeys = "hashed"
    /\ d.version >= 13 => {d.owner} \ {Nobody} \subseteq d.members
    /\ Clean(d) \/ Spoilt(d)

MigrationsInv == InOrder(db) /\ changes \in Nat

LEMMA CreatesFacts ==
    /\ Creates(1) = CaseTables \cup DutyTables
    /\ Creates(5) = {"revoked_tokens"}
    /\ Creates(7) = {"projects"}
    /\ Creates(8) = ObligationTables
    /\ Creates(10) = PlatformTables
    /\ Creates(11) = {"investigation_notes"}
    /\ Creates(14) = {"project_invitations"}
    /\ \A v \in Revisions \ {1, 5, 7, 8, 10, 11, 14} : Creates(v) = {}
  BY DEF Creates, Revisions, Newest

LEMMA BornFacts ==
    /\ \A t \in Tables : Born(t) \in {1, 5, 7, 8, 10, 11, 14}
    /\ \A v \in Revisions : Creates(v) = {t \in Tables : Born(t) = v}
    /\ "project_invitations" \in Tables /\ Born("project_invitations") = 14
    /\ Born("projects") = 7
<1>1. \A v \in Revisions : Creates(v) \subseteq Tables
  BY DEF Tables
<1>2. ASSUME NEW t \in CaseTables \cup DutyTables PROVE Born(t) = 1 /\ t \in Creates(1)
  BY CreatesFacts DEF Born, CaseTables, DutyTables, ObligationTables, PlatformTables
<1>3. Born("revoked_tokens") = 5 /\ "revoked_tokens" \in Creates(5)
  BY CreatesFacts DEF Born
<1>4. Born("projects") = 7 /\ "projects" \in Creates(7)
  BY CreatesFacts DEF Born
<1>5. ASSUME NEW t \in ObligationTables PROVE Born(t) = 8 /\ t \in Creates(8)
  BY CreatesFacts DEF Born, ObligationTables
<1>6. ASSUME NEW t \in PlatformTables PROVE Born(t) = 10 /\ t \in Creates(10)
  BY CreatesFacts DEF Born, ObligationTables, PlatformTables
<1>7. Born("investigation_notes") = 11 /\ "investigation_notes" \in Creates(11)
  BY CreatesFacts DEF Born
<1>8. Born("project_invitations") = 14 /\ "project_invitations" \in Creates(14)
  BY CreatesFacts DEF Born
<1>9. ASSUME NEW v \in Revisions, NEW t \in Creates(v)
      PROVE  Born(t) = v /\ v \in {1, 5, 7, 8, 10, 11, 14}
  <2>1. CASE v = 1
    BY <2>1, <1>2, <1>9, CreatesFacts
  <2>2. CASE v = 5
    BY <2>2, <1>3, <1>9, CreatesFacts
  <2>3. CASE v = 7
    BY <2>3, <1>4, <1>9, CreatesFacts
  <2>4. CASE v = 8
    BY <2>4, <1>5, <1>9, CreatesFacts
  <2>5. CASE v = 10
    BY <2>5, <1>6, <1>9, CreatesFacts
  <2>6. CASE v = 11
    BY <2>6, <1>7, <1>9, CreatesFacts
  <2>7. CASE v = 14
    BY <2>7, <1>8, <1>9, CreatesFacts
  <2>8. CASE v \notin {1, 5, 7, 8, 10, 11, 14}
    BY <2>8, <1>9, CreatesFacts
  <2> QED
    BY <2>1, <2>2, <2>3, <2>4, <2>5, <2>6, <2>7, <2>8
<1>10. \A t \in Tables : \E v \in Revisions : t \in Creates(v)
  BY DEF Tables
<1>11. ASSUME NEW v \in Revisions PROVE Creates(v) = {t \in Tables : Born(t) = v}
  BY <1>1, <1>9, <1>10
<1>12. "project_invitations" \in Tables
  BY <1>1, <1>8 DEF Revisions, Newest
<1> QED
  BY <1>4, <1>8, <1>9, <1>10, <1>11, <1>12

(* A table comes with or after those it refers to, except where revision 7 *)
(* adds a column to one of the first.                                      *)
LEMMA KeyFacts ==
    /\ \A k \in ForeignKeys : k[1] \in Tables /\ k[2] \in Tables
    /\ \A k \in ForeignKeys \ ProjectColumns : Born(k[2]) <= Born(k[1])
    /\ \A k \in ProjectColumns : Born(k[1]) = 1 /\ Born(k[2]) = 7
    /\ ProjectColumns \subseteq ForeignKeys
<1>1. \A v \in Revisions : Creates(v) \subseteq Tables
  BY DEF Tables
<1>2. \A t \in CaseTables \cup DutyTables : Born(t) = 1 /\ t \in Tables
  BY <1>1, CreatesFacts
  DEF Born, CaseTables, DutyTables, ObligationTables, PlatformTables, Revisions, Newest
<1>3. Born("projects") = 7 /\ "projects" \in Tables
  BY BornFacts, <1>1, CreatesFacts DEF Revisions, Newest
<1>4. \A t \in ObligationTables : Born(t) = 8 /\ t \in Tables
  BY <1>1, BornFacts, CreatesFacts DEF Revisions, Newest
<1>5. \A t \in PlatformTables : Born(t) = 10 /\ t \in Tables
  BY <1>1, BornFacts, CreatesFacts DEF Revisions, Newest
<1>6. Born("investigation_notes") = 11 /\ "investigation_notes" \in Tables
  BY <1>1, BornFacts, CreatesFacts DEF Revisions, Newest
<1>7. Born("project_invitations") = 14 /\ "project_invitations" \in Tables
  BY BornFacts
<1>8. ASSUME NEW k \in CaseKeys \cup DutyKeys
      PROVE  /\ k[1] \in CaseTables \cup DutyTables
             /\ k[2] \in CaseTables \cup DutyTables
  BY DEF CaseKeys, DutyKeys, CaseTables, DutyTables
<1>9. ASSUME NEW k \in ProjectColumns
      PROVE  k[1] \in CaseTables \cup DutyTables /\ k[2] = "projects"
  BY DEF ProjectColumns, CaseTables, DutyTables
<1>10. "users" \in CaseTables \cup DutyTables /\ "incidents" \in CaseTables \cup DutyTables
  BY DEF CaseTables
<1>11. ASSUME NEW k \in LaterKeys
       PROVE  k[1] \in Tables /\ k[2] \in Tables /\ Born(k[2]) <= Born(k[1])
  <2>1. CASE k = <<"projects", "users">>
    BY <2>1, <1>2, <1>3, <1>10
  <2>2. CASE k \in ObligationTables \X {"projects"}
    BY <2>2, <1>4, <1>3
  <2>3. CASE k \in PlatformTables \X {"projects"}
    BY <2>3, <1>5, <1>3
  <2>4. CASE k = <<"project_members", "users">> \/ k = <<"security_events", "incidents">>
    BY <2>4, <1>2, <1>5, <1>10 DEF PlatformTables
  <2>5. CASE k \in {<<"investigation_notes", "users">>, <<"investigation_notes", "incidents">>}
    BY <2>5, <1>2, <1>6, <1>10
  <2>6. CASE k \in {"project_invitations"} \X {"projects", "users"}
    BY <2>6, <1>2, <1>3, <1>7, <1>10
  <2> QED
    BY <2>1, <2>2, <2>3, <2>4, <2>5, <2>6 DEF LaterKeys
<1> QED
  BY <1>2, <1>3, <1>8, <1>9, <1>11 DEF ForeignKeys

-----------------------------------------------------------------------------
(* The roles after each revision that rewrites them.                       *)
LEMMA ExpandedRole ==
    ASSUME NEW d, d.role \in [People -> AllRoles \cup {"none"}]
    PROVE  /\ ExpandedRoles(d) \in [People -> SevenRoles \cup {"none"}]
           /\ Seeded(ExpandedRoles(d)) \in [People -> SevenRoles \cup {"none"}]
<1> DEFINE new == [admin |-> "super_admin", analyst |-> "soc_analyst",
                   responder |-> "incident_manager"]
<1>1. DOMAIN new = {"admin", "analyst", "responder"}
  OBVIOUS
<1>2. \A r \in DOMAIN new : new[r] \in SevenRoles \cup {"none"}
  BY <1>1 DEF SevenRoles
<1>3. \A r \in (AllRoles \cup {"none"}) \ DOMAIN new : r \in SevenRoles \cup {"none"}
  BY <1>1 DEF AllRoles, OldRoles, SevenRoles
<1>4. ExpandedRoles(d) = Renamed(d, new)
  BY DEF ExpandedRoles
<1> HIDE DEF new
<1>5. ExpandedRoles(d) \in [People -> SevenRoles \cup {"none"}]
  BY <1>2, <1>3, <1>4 DEF Renamed
<1> QED
  BY <1>5, PeopleAssumption DEF Seeded, SevenRoles

LEMMA SimplifiedRole ==
    ASSUME NEW d, d.role \in [People -> SevenRoles \cup {"none"}]
    PROVE  SimplifiedRoles(d) \in [People -> ThreeRoles \cup {"none"}]
<1> DEFINE new == [super_admin |-> "admin", security_admin |-> "admin",
                   incident_manager |-> "analyst", soc_analyst |-> "analyst",
                   compliance_officer |-> "analyst", auditor |-> "viewer"]
<1>1. DOMAIN new = {"super_admin", "security_admin", "incident_manager",
                    "soc_analyst", "compliance_officer", "auditor"}
  OBVIOUS
<1>2. \A r \in DOMAIN new : new[r] \in ThreeRoles \cup {"none"}
  BY <1>1 DEF ThreeRoles
<1>3. \A r \in (SevenRoles \cup {"none"}) \ DOMAIN new : r \in ThreeRoles \cup {"none"}
  BY <1>1 DEF ThreeRoles, SevenRoles
<1>4. SimplifiedRoles(d) = Renamed(d, new)
  BY DEF SimplifiedRoles
<1> HIDE DEF new
<1> QED
  BY <1>2, <1>3, <1>4 DEF Renamed

LEMMA SanitizedRole ==
    ASSUME NEW d
    PROVE  SanitizedRoles(d) \in [People -> ThreeRoles \cup {"none"}]
  BY DEF SanitizedRoles, ThreeRoles

LEMMA RevertedRole ==
    ASSUME NEW d, d.role \in [People -> AllRoles \cup {"none"}]
    PROVE  RevertedRoles(d) \in [People -> AllRoles \cup {"none"}]
<1> DEFINE new == [super_admin |-> "admin", soc_analyst |-> "analyst",
                   incident_manager |-> "responder", security_admin |-> "admin",
                   compliance_officer |-> "analyst", auditor |-> "viewer"]
<1>1. \A r \in DOMAIN new : new[r] \in AllRoles \cup {"none"}
  BY DEF AllRoles, OldRoles
<1>2. RevertedRoles(d) = Renamed(d, new)
  BY DEF RevertedRoles
<1> HIDE DEF new
<1> QED
  BY <1>1, <1>2 DEF Renamed

LEMMA RevivedRole ==
    ASSUME NEW d, d.role \in [People -> ThreeRoles \cup {"none"}]
    PROVE  RevivedRoles(d) \in [People -> SevenRoles \cup {"none"}]
<1> DEFINE new == [admin |-> "super_admin", analyst |-> "soc_analyst"]
<1>1. DOMAIN new = {"admin", "analyst"}
  OBVIOUS
<1>2. \A r \in DOMAIN new : new[r] \in SevenRoles \cup {"none"}
  BY <1>1 DEF SevenRoles
<1>3. \A r \in (ThreeRoles \cup {"none"}) \ DOMAIN new : r \in SevenRoles \cup {"none"}
  BY <1>1 DEF ThreeRoles, SevenRoles
<1>4. RevivedRoles(d) = Renamed(d, new)
  BY DEF RevivedRoles
<1> HIDE DEF new
<1> QED
  BY <1>2, <1>3, <1>4 DEF Renamed

(* What an upgrade by one revision, or a downgrade, leaves behind.         *)
UpTables(v, d) == d.tables \cup (Creates(v) \ d.tables)

UpKeys(v, d) == d.keys \cup KeysOf(Creates(v) \ d.tables)
                       \cup (IF v = 7 THEN ProjectColumns ELSE {})

UpAllowed(v, d) ==
    IF v = 2 THEN SevenRoles ELSE IF v \in {3, 4} THEN ThreeRoles ELSE d.allowed

UpRole(v, d) ==
    IF v = 2 THEN Seeded(ExpandedRoles(d))
    ELSE IF v = 3 THEN SimplifiedRoles(d)
    ELSE IF v = 4 THEN SanitizedRoles(d) ELSE d.role

UpApiKeys(v, d) ==
    IF v = 7 THEN "plain" ELSE IF v = 12 THEN "hashed" ELSE d.apiKeys

UpMembers(v, d) ==
    IF v = 13 THEN d.members \cup ({d.owner} \ {Nobody}) ELSE d.members

DownTables(v, d) == d.tables \ Creates(v)

DownKeys(v, d) == {k \in d.keys : k[1] \notin Creates(v)}
                  \ (IF v = 7 THEN ProjectColumns ELSE {})

DownAllowed(v, d) ==
    IF v = 2 THEN AllRoles ELSE IF v = 3 THEN SevenRoles ELSE d.allowed

DownRole(v, d) ==
    IF v = 1 THEN [u \in People |-> "none"]
    ELSE IF v = 2 THEN RevertedRoles(d)
    ELSE IF v = 3 THEN RevivedRoles(d) ELSE d.role

DownOwner(v, d) == IF v = 7 THEN Nobody ELSE d.owner

DownApiKeys(v, d) == IF v = 7 THEN "none" ELSE d.apiKeys

DownMembers(v, d) == IF v = 10 THEN {} ELSE d.members

DownKeyless(v, d) == IF v = 1 THEN FALSE ELSE d.keyless

LEMMA UpFields ==
    ASSUME NEW v \in Revisions, NEW d \in Databases
    PROVE  Up(v, d) =
             [version |-> v, tables |-> UpTables(v, d),
              keys |-> UpKeys(v, d), allowed |-> UpAllowed(v, d),
              role |-> UpRole(v, d), apiKeys |-> UpApiKeys(v, d),
              owner |-> d.owner, members |-> UpMembers(v, d),
             keyless |-> d.keyless]
<1> DEFINE b == Built(v, d)
<1>1. b = [d EXCEPT !.tables = UpTables(v, d), !.keys = UpKeys(v, d), !.version = v]
  BY DEF Built, UpTables, UpKeys
<1>2. b = [version |-> v, tables |-> UpTables(v, d),
           keys |-> UpKeys(v, d), allowed |-> d.allowed,
           role |-> d.role, apiKeys |-> d.apiKeys,
           owner |-> d.owner, members |-> d.members, keyless |-> d.keyless]
  BY <1>1 DEF Databases
<1> HIDE DEF b
<1>3. CASE v = 2
  <2>1. Up(v, d) = [b EXCEPT !.role = Seeded(ExpandedRoles(d)), !.allowed = SevenRoles]
    BY <1>3 DEF Up, b
  <2>2. /\ UpRole(v, d) = Seeded(ExpandedRoles(d)) /\ UpAllowed(v, d) = SevenRoles
        /\ UpApiKeys(v, d) = d.apiKeys /\ UpMembers(v, d) = d.members
    BY <1>3 DEF UpAllowed, UpRole, UpApiKeys, UpMembers
  <2> QED
    BY <1>2, <2>1, <2>2
<1>4. CASE v = 3
  <2>1. Up(v, d) = [b EXCEPT !.role = SimplifiedRoles(d), !.allowed = ThreeRoles]
    BY <1>4 DEF Up, b
  <2>2. /\ UpRole(v, d) = SimplifiedRoles(d) /\ UpAllowed(v, d) = ThreeRoles
        /\ UpApiKeys(v, d) = d.apiKeys /\ UpMembers(v, d) = d.members
    BY <1>4 DEF UpAllowed, UpRole, UpApiKeys, UpMembers
  <2> QED
    BY <1>2, <2>1, <2>2
<1>5. CASE v = 4
  <2>1. Up(v, d) = [b EXCEPT !.role = SanitizedRoles(d), !.allowed = ThreeRoles]
    BY <1>5 DEF Up, b
  <2>2. /\ UpRole(v, d) = SanitizedRoles(d) /\ UpAllowed(v, d) = ThreeRoles
        /\ UpApiKeys(v, d) = d.apiKeys /\ UpMembers(v, d) = d.members
    BY <1>5 DEF UpAllowed, UpRole, UpApiKeys, UpMembers
  <2> QED
    BY <1>2, <2>1, <2>2
<1>6. CASE v = 7
  <2>1. Up(v, d) = [b EXCEPT !.apiKeys = "plain"]
    BY <1>6 DEF Up, b
  <2> QED
    BY <1>6, <1>2, <2>1 DEF UpAllowed, UpRole, UpApiKeys, UpMembers
<1>7. CASE v = 12
  <2>1. Up(v, d) = [b EXCEPT !.apiKeys = "hashed"]
    BY <1>7 DEF Up, b
  <2> QED
    BY <1>7, <1>2, <2>1 DEF UpAllowed, UpRole, UpApiKeys, UpMembers
<1>8. CASE v = 13
  <2>1. Up(v, d) = [b EXCEPT !.members = b.members \cup ({d.owner} \ {Nobody})]
    BY <1>8 DEF Up, b
  <2> QED
    BY <1>8, <1>2, <2>1 DEF UpAllowed, UpRole, UpApiKeys, UpMembers
<1>9. CASE v \notin {2, 3, 4, 7, 12, 13}
  <2>1. Up(v, d) = b
    BY <1>9 DEF Up, b
  <2> QED
    BY <1>9, <1>2, <2>1 DEF UpAllowed, UpRole, UpApiKeys, UpMembers
<1> QED
  BY <1>3, <1>4, <1>5, <1>6, <1>7, <1>8, <1>9

LEMMA DownFields ==
    ASSUME NEW v \in Revisions, NEW d \in Databases
    PROVE  Down(v, d) =
             [version |-> v - 1, tables |-> DownTables(v, d),
              keys |-> DownKeys(v, d), allowed |-> DownAllowed(v, d),
              role |-> DownRole(v, d), apiKeys |-> DownApiKeys(v, d),
              owner |-> DownOwner(v, d), members |-> DownMembers(v, d),
             keyless |-> DownKeyless(v, d)]
<1> DEFINE b == Dropped(v, d)
<1>1. b = [d EXCEPT !.tables = DownTables(v, d), !.keys = DownKeys(v, d), !.version = v - 1]
  BY DEF Dropped, DownTables, DownKeys
<1>2. b = [version |-> v - 1, tables |-> DownTables(v, d),
           keys |-> DownKeys(v, d), allowed |-> d.allowed,
           role |-> d.role, apiKeys |-> d.apiKeys,
           owner |-> d.owner, members |-> d.members, keyless |-> d.keyless]
  BY <1>1 DEF Databases
<1> HIDE DEF b
<1>3. CASE v = 1
  <2>1. Down(v, d) = [b EXCEPT !.role = [u \in People |-> "none"], !.keyless = FALSE]
    BY <1>3 DEF Down, b
  <2>2. /\ DownOwner(v, d) = d.owner /\ DownApiKeys(v, d) = d.apiKeys
        /\ DownRole(v, d) = [u \in People |-> "none"] /\ DownAllowed(v, d) = d.allowed
        /\ DownMembers(v, d) = d.members /\ DownKeyless(v, d) = FALSE
    BY <1>3 DEF DownAllowed, DownRole, DownOwner, DownApiKeys, DownMembers,
        DownKeyless
  <2> QED
    BY <1>2, <2>1, <2>2
<1>4. CASE v = 2
  <2>1. Down(v, d) = [b EXCEPT !.role = RevertedRoles(d), !.allowed = AllRoles]
    BY <1>4 DEF Down, b
  <2>2. /\ DownRole(v, d) = RevertedRoles(d) /\ DownAllowed(v, d) = AllRoles
        /\ DownOwner(v, d) = d.owner /\ DownApiKeys(v, d) = d.apiKeys
        /\ DownMembers(v, d) = d.members /\ DownKeyless(v, d) = d.keyless
    BY <1>4 DEF DownAllowed, DownRole, DownOwner, DownApiKeys,
        DownMembers, DownKeyless
  <2> QED
    BY <1>2, <2>1, <2>2
<1>5. CASE v = 3
  <2>1. Down(v, d) = [b EXCEPT !.role = RevivedRoles(d), !.allowed = SevenRoles]
    BY <1>5 DEF Down, b
  <2>2. /\ DownRole(v, d) = RevivedRoles(d) /\ DownAllowed(v, d) = SevenRoles
        /\ DownOwner(v, d) = d.owner /\ DownApiKeys(v, d) = d.apiKeys
        /\ DownMembers(v, d) = d.members /\ DownKeyless(v, d) = d.keyless
    BY <1>5 DEF DownAllowed, DownRole, DownOwner, DownApiKeys,
        DownMembers, DownKeyless
  <2> QED
    BY <1>2, <2>1, <2>2
<1>6. CASE v = 7
  <2>1. Down(v, d) = [b EXCEPT !.owner = Nobody, !.apiKeys = "none"]
    BY <1>6 DEF Down, b
  <2>2. /\ DownOwner(v, d) = Nobody /\ DownApiKeys(v, d) = "none"
        /\ DownRole(v, d) = d.role /\ DownAllowed(v, d) = d.allowed
        /\ DownMembers(v, d) = d.members /\ DownKeyless(v, d) = d.keyless
    BY <1>6 DEF DownAllowed, DownRole, DownOwner, DownApiKeys, DownMembers,
        DownKeyless
  <2> QED
    BY <1>2, <2>1, <2>2
<1>7. CASE v = 10
  <2>1. Down(v, d) = [b EXCEPT !.members = {}]
    BY <1>7 DEF Down, b
  <2> QED
    BY <1>7, <1>2, <2>1 DEF DownAllowed, DownRole, DownOwner, DownApiKeys, DownMembers,
        DownKeyless
<1>8. CASE v \notin {1, 2, 3, 7, 10}
  <2>1. Down(v, d) = b
    BY <1>8 DEF Down, b
  <2> QED
    BY <1>8, <1>2, <2>1 DEF DownAllowed, DownRole, DownOwner, DownApiKeys, DownMembers,
        DownKeyless
<1> QED
  BY <1>3, <1>4, <1>5, <1>6, <1>7, <1>8

-----------------------------------------------------------------------------
(* A revision keeps a clean schema clean, and finds nothing in its way.    *)
LEMMA UpClean ==
    ASSUME NEW v \in Revisions, NEW d \in Databases, d.version = v - 1, Clean(d)
    PROVE  Clean(Up(v, d))
<1>1. v \in 1..14
  BY DEF Revisions, Newest
<1>2. /\ Up(v, d).version = v /\ Up(v, d).tables = UpTables(v, d)
      /\ Up(v, d).keys = UpKeys(v, d) /\ Up(v, d).apiKeys = UpApiKeys(v, d)
  BY UpFields
<1>3. /\ d.tables = TablesAt(v - 1) /\ d.keys = KeysAt(v - 1)
      /\ d.apiKeys = ApiKeysAt(v - 1)
  BY DEF Clean
<1>4. Creates(v) = {t \in Tables : Born(t) = v}
  BY BornFacts
<1>5. \A t \in Tables : Born(t) \in 1..14
  BY BornFacts
<1>6. UpTables(v, d) = TablesAt(v)
  BY <1>1, <1>3, <1>4, <1>5 DEF UpTables, TablesAt
<1>7. KeysOf(Creates(v) \ d.tables)
          = {k \in ForeignKeys \ ProjectColumns : Born(k[1]) = v}
  BY <1>1, <1>3, <1>4, <1>5, KeyFacts DEF KeysOf, TablesAt
<1>8. UpKeys(v, d) = KeysAt(v)
  <2>1. \A k \in ForeignKeys : Born(k[1]) \in 1..14
    BY <1>5, KeyFacts
  <2>2. {k \in ForeignKeys \ ProjectColumns : Born(k[1]) <= v}
          = {k \in ForeignKeys \ ProjectColumns : Born(k[1]) <= v - 1}
            \cup {k \in ForeignKeys \ ProjectColumns : Born(k[1]) = v}
    BY <2>1, <1>1
  <2>3. {k \in ProjectColumns : v >= 7}
          = {k \in ProjectColumns : v - 1 >= 7}
            \cup (IF v = 7 THEN ProjectColumns ELSE {})
    BY <1>1
  <2>4. d.keys = {k \in ForeignKeys \ ProjectColumns : Born(k[1]) <= v - 1}
                 \cup {k \in ProjectColumns : v - 1 >= 7}
    BY <1>3 DEF KeysAt
  <2> QED
    BY <2>2, <2>3, <2>4, <1>7 DEF UpKeys, KeysAt
<1>9. UpApiKeys(v, d) = ApiKeysAt(v)
  BY <1>1, <1>3 DEF UpApiKeys, ApiKeysAt
<1>10. Up(v, d).keyless => v >= 6
  <2>1. Up(v, d).keyless = d.keyless
    BY UpFields
  <2> QED
    BY <1>1, <2>1 DEF Clean
<1> QED
  BY <1>2, <1>6, <1>8, <1>9, <1>10 DEF Clean

LEMMA UpRoles ==
    ASSUME NEW v \in Revisions, NEW d, d.version = v - 1, d.allowed = AllowedAt(v - 1),
           d.role \in [People -> AllowedAt(v - 1) \cup {"none"}]
    PROVE  /\ UpAllowed(v, d) = AllowedAt(v)
           /\ UpRole(v, d) \in [People -> AllowedAt(v) \cup {"none"}]
<1>1. v \in 1..14
  BY DEF Revisions, Newest
<1>2. UpAllowed(v, d) = AllowedAt(v)
  BY <1>1 DEF UpAllowed, AllowedAt
<1>3. CASE v = 2
  <2>1. AllowedAt(v - 1) = AllRoles /\ AllowedAt(v) = SevenRoles
    BY <1>3 DEF AllowedAt
  <2>2. UpRole(v, d) = Seeded(ExpandedRoles(d))
    BY <1>3 DEF UpRole
  <2>3. d.role \in [People -> AllRoles \cup {"none"}]
    BY <2>1
  <2> QED
    BY <1>2, <2>1, <2>2, <2>3, ExpandedRole, Zenon
<1>4. CASE v = 3
  <2>1. AllowedAt(v - 1) = SevenRoles /\ AllowedAt(v) = ThreeRoles
    BY <1>4 DEF AllowedAt
  <2>2. UpRole(v, d) = SimplifiedRoles(d)
    BY <1>4 DEF UpRole
  <2>3. d.role \in [People -> SevenRoles \cup {"none"}]
    BY <2>1
  <2> QED
    BY <1>2, <2>1, <2>2, <2>3, SimplifiedRole, Zenon
<1>5. CASE v = 4
  <2>1. AllowedAt(v) = ThreeRoles
    BY <1>5 DEF AllowedAt
  <2>2. UpRole(v, d) = SanitizedRoles(d)
    BY <1>5 DEF UpRole
  <2> QED
    BY <1>2, <2>1, <2>2, SanitizedRole, Zenon
<1>6. CASE v \notin {2, 3, 4}
  <2>1. AllowedAt(v) = AllowedAt(v - 1)
    BY <1>1, <1>6 DEF AllowedAt
  <2>2. UpRole(v, d) = d.role
    BY <1>6 DEF UpRole
  <2> QED
    BY <1>2, <2>1, <2>2
<1> QED
  BY <1>3, <1>4, <1>5, <1>6

LEMMA AllowedFacts ==
    \A v : /\ AllowedAt(v) \in {AllRoles, SevenRoles, ThreeRoles}
           /\ AllowedAt(v) \subseteq AllRoles
  BY DEF AllowedAt, AllRoles, OldRoles, SevenRoles, ThreeRoles

LEMMA KeptRoles ==
    ASSUME NEW d, InOrder(d)
    PROVE  d.role \in [People -> AllowedAt(d.version) \cup {"none"}]
  BY DEF InOrder, Databases, Complies

LEMMA UpInOrder ==
    ASSUME NEW v \in Revisions, NEW d, InOrder(d), d.version = v - 1, UpGoes(v, d)
    PROVE  InOrder(Up(v, d)) /\ Up(v, d).version = v
<1> DEFINE e == Up(v, d)
<1>1. v \in 1..14 /\ d \in Databases
  BY DEF InOrder, Revisions, Newest
<1>2. /\ UpAllowed(v, d) = AllowedAt(v)
      /\ UpRole(v, d) \in [People -> AllowedAt(v) \cup {"none"}]
  BY UpRoles, KeptRoles DEF InOrder
<1>3. e = [version |-> v, tables |-> UpTables(v, d),
           keys |-> UpKeys(v, d), allowed |-> UpAllowed(v, d),
           role |-> UpRole(v, d), apiKeys |-> UpApiKeys(v, d),
           owner |-> d.owner, members |-> UpMembers(v, d),
             keyless |-> d.keyless]
  BY UpFields, <1>1
<1> HIDE DEF e
<1>4. UpTables(v, d) \in SUBSET Tables
  BY <1>1 DEF UpTables, Databases, Tables
<1>5. UpKeys(v, d) \in SUBSET ForeignKeys
  BY <1>1, KeyFacts DEF UpKeys, KeysOf, Databases
<1>6. UpApiKeys(v, d) \in {"none", "plain", "hashed"}
  BY <1>1 DEF UpApiKeys, Databases
<1>7. UpMembers(v, d) \in SUBSET People
  BY <1>1 DEF UpMembers, Databases
<1>8. UpAllowed(v, d) \in {AllRoles, SevenRoles, ThreeRoles}
      /\ UpRole(v, d) \in [People -> AllRoles \cup {"none"}]
  BY <1>2, AllowedFacts
<1>9. d.owner \in People \cup {Nobody} /\ d.keyless \in BOOLEAN /\ v \in 0..Newest
  BY <1>1 DEF Databases, Newest
<1>10. e \in Databases
  BY <1>3, <1>4, <1>5, <1>6, <1>7, <1>8, <1>9 DEF Databases
<1>11. e.allowed = AllowedAt(v) /\ e.version = v /\ Complies(e)
  BY <1>2, <1>3 DEF Complies
<1>12. v >= 12 => e.apiKeys = "hashed"
  BY <1>1, <1>3 DEF UpApiKeys, InOrder
<1>13. v >= 13 => {e.owner} \ {Nobody} \subseteq e.members
  <2>1. e.owner = d.owner /\ e.members = UpMembers(v, d)
    BY <1>3
  <2>2. CASE v = 13
    BY <2>1, <2>2 DEF UpMembers
  <2>3. CASE v = 14
    BY <2>1, <2>3 DEF UpMembers, InOrder
  <2> QED
    BY <1>1, <2>2, <2>3
<1>14. Clean(e) \/ Spoilt(e)
  <2>1. CASE Clean(d)
    BY <2>1, <1>1, UpClean DEF e
  <2>2. CASE Spoilt(d)
    <3>1. v # 14
      <4>1. Creates(14) = {"project_invitations"} /\ 14 \notin Careful
        BY CreatesFacts DEF Careful
      <4> QED
        BY <4>1, <2>2 DEF UpGoes, Spoilt
    <3>2. "project_invitations" \in e.tables
      BY <2>2, <1>3 DEF Spoilt, UpTables
    <3> QED
      BY <3>1, <3>2, <1>1, <1>11 DEF Spoilt
  <2> QED
    BY <2>1, <2>2 DEF InOrder
<1> QED
  BY <1>10, <1>11, <1>12, <1>13, <1>14 DEF InOrder, e

LEMMA UpOpen ==
    ASSUME NEW v \in Revisions, NEW d, InOrder(d), Clean(d), d.version = v - 1
    PROVE  UpGoes(v, d)
<1>1. v \in 1..14 /\ d \in Databases
  BY DEF InOrder, Revisions, Newest
<1>2. Creates(v) \cap d.tables = {}
  BY <1>1, BornFacts DEF Clean, TablesAt
<1>3. v = 12 => d.apiKeys = "plain"
  BY <1>1 DEF Clean, ApiKeysAt
<1>4. Complies(Up(v, d))
  <2>1. /\ UpAllowed(v, d) = AllowedAt(v)
        /\ UpRole(v, d) \in [People -> AllowedAt(v) \cup {"none"}]
    BY UpRoles, KeptRoles DEF InOrder
  <2>2. Up(v, d).role = UpRole(v, d) /\ Up(v, d).allowed = UpAllowed(v, d)
    BY UpFields, <1>1
  <2> QED
    BY <2>1, <2>2 DEF Complies
<1> QED
  BY <1>2, <1>3, <1>4 DEF UpGoes

-----------------------------------------------------------------------------
(* The way down: what a revision has made, its downgrade takes away.       *)
LEMMA DownClean ==
    ASSUME NEW v \in Revisions \ {12}, NEW d \in Databases, d.version = v, Clean(d),
           v = 6 => ~d.keyless
    PROVE  Clean(Down(v, d))
<1>1. v \in 1..14 /\ v \in Revisions
  BY DEF Revisions, Newest
<1>2. /\ Down(v, d).version = v - 1 /\ Down(v, d).tables = DownTables(v, d)
      /\ Down(v, d).keys = DownKeys(v, d) /\ Down(v, d).apiKeys = DownApiKeys(v, d)
  BY <1>1, DownFields
<1>3. /\ d.tables = TablesAt(v) /\ d.keys = KeysAt(v)
      /\ d.apiKeys = ApiKeysAt(v)
  BY DEF Clean
<1>4. Creates(v) = {t \in Tables : Born(t) = v}
  BY <1>1, BornFacts
<1>5. \A t \in Tables : Born(t) \in 1..14
  BY BornFacts
<1>6. DownTables(v, d) = TablesAt(v - 1)
  BY <1>1, <1>3, <1>4, <1>5 DEF DownTables, TablesAt
<1>7. \A k \in ForeignKeys : /\ Born(k[1]) \in 1..14
                             /\ k[1] \in Creates(v) <=> Born(k[1]) = v
  BY <1>4, <1>5, KeyFacts
<1>8. DownKeys(v, d) = KeysAt(v - 1)
  <2>1. ASSUME NEW k \in ForeignKeys \ ProjectColumns
        PROVE  k \in DownKeys(v, d) <=> k \in KeysAt(v - 1)
    BY <1>1, <1>3, <1>7 DEF DownKeys, KeysAt
  <2>2. ASSUME NEW k \in ProjectColumns
        PROVE  k \in DownKeys(v, d) <=> k \in KeysAt(v - 1)
    <3>1. Born(k[1]) = 1 /\ k \in ForeignKeys
      BY KeyFacts
    <3>2. k \in KeysAt(v) <=> v >= 7
      BY DEF KeysAt
    <3>3. k \in KeysAt(v - 1) <=> v - 1 >= 7
      BY DEF KeysAt
    <3> QED
      BY <1>1, <1>3, <1>7, <3>1, <3>2, <3>3 DEF DownKeys
  <2>3. DownKeys(v, d) \subseteq ForeignKeys /\ KeysAt(v - 1) \subseteq ForeignKeys
    BY KeyFacts DEF DownKeys, KeysAt, Databases
  <2> QED
    BY <2>1, <2>2, <2>3
<1>9. DownApiKeys(v, d) = ApiKeysAt(v - 1)
  BY <1>1, <1>3 DEF DownApiKeys, ApiKeysAt
<1>10. Down(v, d).keyless => v - 1 >= 6
  <2>1. Down(v, d).keyless = DownKeyless(v, d)
    BY <1>1, DownFields
  <2>2. CASE v = 1
    BY <2>1, <2>2 DEF DownKeyless
  <2>3. CASE v # 1
    BY <1>1, <2>1, <2>3 DEF DownKeyless, Clean
  <2> QED
    BY <2>2, <2>3
<1> QED
  BY <1>2, <1>6, <1>8, <1>9, <1>10 DEF Clean

LEMMA DownRoles ==
    ASSUME NEW v \in Revisions, NEW d, d.version = v, d.allowed = AllowedAt(v),
           d.role \in [People -> AllowedAt(v) \cup {"none"}]
    PROVE  /\ DownAllowed(v, d) = AllowedAt(v - 1)
           /\ DownRole(v, d) \in [People -> AllowedAt(v - 1) \cup {"none"}]
<1>1. v \in 1..14
  BY DEF Revisions, Newest
<1>2. DownAllowed(v, d) = AllowedAt(v - 1)
  BY <1>1 DEF DownAllowed, AllowedAt
<1>3. CASE v = 2
  <2>1. AllowedAt(v) = SevenRoles /\ AllowedAt(v - 1) = AllRoles
    BY <1>3 DEF AllowedAt
  <2>2. DownRole(v, d) = RevertedRoles(d)
    BY <1>3 DEF DownRole
  <2>3. d.role \in [People -> AllRoles \cup {"none"}]
    BY <2>1 DEF AllRoles
  <2> QED
    BY <1>2, <2>1, <2>2, <2>3, RevertedRole, Zenon
<1>4. CASE v = 3
  <2>1. AllowedAt(v) = ThreeRoles /\ AllowedAt(v - 1) = SevenRoles
    BY <1>4 DEF AllowedAt
  <2>2. DownRole(v, d) = RevivedRoles(d)
    BY <1>4 DEF DownRole
  <2>3. d.role \in [People -> ThreeRoles \cup {"none"}]
    BY <2>1
  <2> QED
    BY <1>2, <2>1, <2>2, <2>3, RevivedRole, Zenon
<1>5. CASE v = 1
  <2>1. DownRole(v, d) = [u \in People |-> "none"]
    BY <1>5 DEF DownRole
  <2> QED
    BY <1>2, <2>1
<1>6. CASE v \notin {1, 2, 3}
  <2>1. AllowedAt(v) = AllowedAt(v - 1)
    BY <1>1, <1>6 DEF AllowedAt
  <2>2. DownRole(v, d) = d.role
    BY <1>6 DEF DownRole
  <2> QED
    BY <1>2, <2>1, <2>2
<1> QED
  BY <1>3, <1>4, <1>5, <1>6

LEMMA DownInOrder ==
    ASSUME NEW v \in Revisions, NEW d, InOrder(d), d.version = v, DownGoes(v, d)
    PROVE  InOrder(Down(v, d)) /\ Down(v, d).version = v - 1
<1> DEFINE e == Down(v, d)
<1>1. v \in 1..14 /\ d \in Databases /\ v # 12
  BY DEF InOrder, Revisions, Newest, DownGoes
<1>2. /\ DownAllowed(v, d) = AllowedAt(v - 1)
      /\ DownRole(v, d) \in [People -> AllowedAt(v - 1) \cup {"none"}]
  BY DownRoles, KeptRoles DEF InOrder
<1>3. e = [version |-> v - 1, tables |-> DownTables(v, d),
           keys |-> DownKeys(v, d), allowed |-> DownAllowed(v, d),
           role |-> DownRole(v, d), apiKeys |-> DownApiKeys(v, d),
           owner |-> DownOwner(v, d), members |-> DownMembers(v, d),
             keyless |-> DownKeyless(v, d)]
  BY DownFields, <1>1
<1> HIDE DEF e
<1>4. DownTables(v, d) \in SUBSET Tables
  BY <1>1 DEF DownTables, Databases
<1>5. DownKeys(v, d) \in SUBSET ForeignKeys
  BY <1>1 DEF DownKeys, Databases
<1>6. DownApiKeys(v, d) \in {"none", "plain", "hashed"}
  BY <1>1 DEF DownApiKeys, Databases
<1>7. DownMembers(v, d) \in SUBSET People
  BY <1>1 DEF DownMembers, Databases
<1>8. DownAllowed(v, d) \in {AllRoles, SevenRoles, ThreeRoles}
      /\ DownRole(v, d) \in [People -> AllRoles \cup {"none"}]
  BY <1>2, AllowedFacts
<1>9. /\ DownOwner(v, d) \in People \cup {Nobody} /\ v - 1 \in 0..Newest
      /\ DownKeyless(v, d) \in BOOLEAN
  <2>1. d.keyless \in BOOLEAN
    BY <1>1 DEF Databases
  <2>2. DownKeyless(v, d) \in BOOLEAN
    BY <2>1, Zenon DEF DownKeyless
  <2> QED
    BY <1>1, <2>2 DEF Databases, Newest, DownOwner
<1>10. e \in Databases
  BY <1>3, <1>4, <1>5, <1>6, <1>7, <1>8, <1>9 DEF Databases
<1>11. e.allowed = AllowedAt(v - 1) /\ e.version = v - 1 /\ Complies(e)
  BY <1>2, <1>3 DEF Complies
<1>12. v - 1 >= 12 => e.apiKeys = "hashed"
  BY <1>1, <1>3 DEF DownApiKeys, InOrder
<1>13. v - 1 >= 13 => {e.owner} \ {Nobody} \subseteq e.members
  <2> SUFFICES ASSUME v = 14 PROVE {e.owner} \ {Nobody} \subseteq e.members
    BY <1>1
  <2>1. e.owner = d.owner /\ e.members = d.members
    BY <1>3 DEF DownOwner, DownMembers
  <2> QED
    BY <2>1 DEF InOrder
<1>14. Clean(e) \/ Spoilt(e)
  <2>1. CASE Clean(d)
    BY <2>1, <1>1, DownClean DEF e, DownGoes
  <2>2. CASE Spoilt(d)
    <3>1. v < 14 /\ Creates(v) = {t \in Tables : Born(t) = v}
      BY <2>2, BornFacts DEF Spoilt
    <3>2. "project_invitations" \in e.tables
      BY <2>2, <3>1, <1>1, <1>3, BornFacts DEF Spoilt, DownTables
    <3> QED
      BY <3>1, <3>2, <1>1, <1>11 DEF Spoilt
  <2> QED
    BY <2>1, <2>2 DEF InOrder
<1> QED
  BY <1>10, <1>11, <1>12, <1>13, <1>14 DEF InOrder, e

LEMMA DownOpen ==
    ASSUME NEW v \in Revisions \ {12}, NEW d, InOrder(d), Clean(d), d.version = v,
           v = 6 => ~d.keyless
    PROVE  DownGoes(v, d)
<1>1. v \in 1..14 /\ d \in Databases /\ v \in Revisions
  BY DEF InOrder, Revisions, Newest
<1>2. ASSUME NEW k \in Down(v, d).keys PROVE k[2] \notin Creates(v)
  <2>1. k \in KeysAt(v - 1)
    <3>1. Clean(Down(v, d)) /\ Down(v, d).version = v - 1
      BY <1>1, DownClean, DownFields
    <3> QED
      BY <1>2, <3>1 DEF Clean
  <2>2. \A t \in Tables : Born(t) \in 1..14
    BY BornFacts
  <2>3. \/ k \in ForeignKeys \ ProjectColumns /\ Born(k[1]) <= v - 1
        \/ k \in ProjectColumns /\ v - 1 >= 7
    BY <2>1 DEF KeysAt
  <2>4. Born(k[2]) <= v - 1
    BY <2>2, <2>3, <1>1, KeyFacts
  <2>5. k[2] \in Tables
    BY <2>3, KeyFacts
  <2> QED
    BY <2>2, <2>4, <2>5, <1>1, BornFacts
<1>3. Complies(Down(v, d))
  <2>1. /\ DownAllowed(v, d) = AllowedAt(v - 1)
        /\ DownRole(v, d) \in [People -> AllowedAt(v - 1) \cup {"none"}]
    BY <1>1, DownRoles, KeptRoles DEF InOrder
  <2>2. Down(v, d).role = DownRole(v, d) /\ Down(v, d).allowed = DownAllowed(v, d)
    BY DownFields, <1>1
  <2> QED
    BY <2>1, <2>2 DEF Complies
<1> QED
  BY <1>2, <1>3 DEF DownGoes

-----------------------------------------------------------------------------
(* Sets of natural numbers have a least element.                           *)
LEMMA LeastNumber ==
    ASSUME NEW S \in SUBSET Nat, S # {}
    PROVE  \E n \in S : \A m \in S : n <= m
<1> DEFINE R == OpToRel(<, Nat)
<1>1. R = {ss \in Nat \X Nat : ss[1] < ss[2]}
  BY DEF OpToRel
<1>2. \E x \in S : \A y \in S : ~ (<<y, x>> \in R)
  BY NatLessThanWellFounded, WFMin
<1> HIDE DEF R
<1>3. PICK n \in S : \A m \in S : ~ (<<m, n>> \in R)
  BY <1>2
<1>4. ASSUME NEW m \in S, m < n PROVE FALSE
  <2>1. <<m, n>> \in Nat \X Nat /\ <<m, n>>[1] < <<m, n>>[2]
    BY <1>4
  <2> QED
    BY <2>1, <1>1, <1>3
<1> QED
  BY <1>4

(* What holds at one end of a range, and passes on from each number to the *)
(* next, holds all along.                                                  *)
LEMMA Upwards ==
    ASSUME NEW a \in Nat, NEW n \in Nat, a <= n, NEW S, a \in S,
           \A v \in a + 1 .. n : v - 1 \in S => v \in S
    PROVE  \A v \in a .. n : v \in S
<1> DEFINE T == {v \in a .. n : v \notin S}
<1> SUFFICES ASSUME T # {} PROVE FALSE
  OBVIOUS
<1>1. T \in SUBSET Nat
  OBVIOUS
<1>2. PICK v \in T : \A u \in T : v <= u
  BY <1>1, LeastNumber
<1>3. v \in a .. n /\ v \notin S /\ v # a
  BY <1>2
<1>4. v - 1 \in a .. n /\ v - 1 \notin T /\ v \in a + 1 .. n
  BY <1>2, <1>3
<1> QED
  BY <1>3, <1>4

LEMMA Downwards ==
    ASSUME NEW a \in Nat, NEW n \in Nat, n <= a, NEW S, a \in S,
           \A v \in n .. a - 1 : v + 1 \in S => v \in S
    PROVE  \A v \in n .. a : v \in S
<1> DEFINE T == {j \in 0 .. a - n : a - j \notin S}
<1>1. ASSUME NEW j \in 1 .. a - n, j - 1 \notin T PROVE j \notin T
  <2>1. a - (j - 1) \in S /\ a - j \in n .. a - 1 /\ a - j + 1 = a - (j - 1)
    BY <1>1
  <2> QED
    BY <2>1
<1>2. \A j \in 0 .. a - n : j \in {i \in 0 .. a - n : i \notin T}
  <2> DEFINE U == {i \in 0 .. a - n : i \notin T}
  <2>1. 0 \in U
    OBVIOUS
  <2>2. \A j \in 0 + 1 .. a - n : j - 1 \in U => j \in U
    BY <1>1
  <2>3. 0 \in Nat /\ a - n \in Nat /\ 0 <= a - n
    OBVIOUS
  <2> HIDE DEF U
  <2> QED
    BY <2>1, <2>2, <2>3, Upwards DEF U
<1>3. ASSUME NEW v \in n .. a PROVE v \in S
  <2>1. a - v \in 0 .. a - n /\ a - (a - v) = v
    OBVIOUS
  <2> QED
    BY <1>2, <2>1
<1> QED
  BY <1>3

(* The revisions of one command, one after the other.  Both functions      *)
(* exist, revision by revision, and each agrees with the shorter ones.     *)
Climbs(f, n, d) ==
    f = [v \in d.version .. n |-> IF v = d.version THEN d ELSE Up(v, f[v - 1])]

Descends(f, n, d) ==
    f = [v \in n .. d.version |->
            IF v = d.version THEN d ELSE Down(v + 1, f[v + 1])]

LEMMA UpgradedIsChosen ==
    \A n, d : Upgraded(n, d) = (CHOOSE f : Climbs(f, n, d))[n]
  BY DEF Upgraded, Climbs

LEMMA DowngradedIsChosen ==
    \A n, d : Downgraded(n, d) = (CHOOSE f : Descends(f, n, d))[n]
  BY DEF Downgraded, Descends

LEMMA ClimbExists ==
    ASSUME NEW d, d.version \in Nat
    PROVE  \A n \in Nat : n >= d.version => \E f : Climbs(f, n, d)
<1> DEFINE a == d.version
           P(n) == \E f : Climbs(f, n, d)
<1>1. P(a)
  <2> DEFINE f == [v \in a .. a |-> d]
  <2>1. f = [v \in a .. a |-> IF v = a THEN d ELSE Up(v, f[v - 1])]
    OBVIOUS
  <2> QED
    BY <2>1, Zenon DEF Climbs
<1>2. ASSUME NEW n \in Nat, n >= a, P(n) PROVE P(n + 1)
  <2>1. PICK f : Climbs(f, n, d)
    BY <1>2
  <2> DEFINE g == [v \in a .. n + 1 |-> IF v = n + 1 THEN Up(n + 1, f[n]) ELSE f[v]]
  <2>2. f = [v \in a .. n |-> IF v = a THEN d ELSE Up(v, f[v - 1])]
    BY <2>1 DEF Climbs
  <2>3. \A v \in a .. n : g[v] = f[v]
    BY <1>2
  <2>4. ASSUME NEW v \in a .. n + 1
        PROVE  g[v] = IF v = a THEN d ELSE Up(v, g[v - 1])
    <3>1. CASE v = n + 1
      <4>1. n \in a .. n /\ v - 1 = n /\ v # a
        BY <1>2, <3>1
      <4>2. g[v] = Up(n + 1, f[n])
        BY <3>1
      <4> QED
        BY <4>1, <4>2, <2>3, <3>1
    <3>2. CASE v # n + 1
      <4>1. v \in a .. n /\ (v # a => v - 1 \in a .. n)
        BY <1>2, <2>4, <3>2
      <4>2. f[v] = IF v = a THEN d ELSE Up(v, f[v - 1])
        BY <2>2, <4>1
      <4> QED
        BY <2>3, <4>1, <4>2
    <3> QED
      BY <3>1, <3>2
  <2>5. g = [v \in a .. n + 1 |-> g[v]]
    OBVIOUS
  <2> HIDE DEF g
  <2>6. g = [v \in a .. n + 1 |-> IF v = a THEN d ELSE Up(v, g[v - 1])]
    BY <2>4, <2>5
  <2>7. Climbs(g, n + 1, d)
    BY <2>6 DEF Climbs
  <2> QED
    BY <2>7
<1> SUFFICES ASSUME NEW n \in Nat, n >= a PROVE P(n)
  OBVIOUS
<1> HIDE DEF P
<1> DEFINE S == {v \in a .. n : P(v)}
<1>3. a \in S
  BY <1>1
<1>4. \A v \in a + 1 .. n : v - 1 \in S => v \in S
  <2> SUFFICES ASSUME NEW v \in a + 1 .. n, P(v - 1) PROVE P(v)
    OBVIOUS
  <2>1. v - 1 \in Nat /\ v - 1 >= a /\ v - 1 + 1 = v
    OBVIOUS
  <2> QED
    BY <1>2, <2>1
<1> HIDE DEF S
<1>5. \A v \in a .. n : v \in S
  BY <1>3, <1>4, Upwards
<1>6. n \in S
  BY <1>5
<1> QED
  BY <1>6 DEF S

LEMMA ClimbsAgree ==
    ASSUME NEW d, d.version \in Nat, NEW m \in Nat, NEW n \in Nat, m <= n,
           NEW f, NEW g, Climbs(f, m, d), Climbs(g, n, d)
    PROVE  \A v \in d.version .. m : f[v] = g[v]
<1> DEFINE a == d.version
           S == {v \in a .. m : f[v] = g[v]}
<1>1. \A v \in a .. m : f[v] = IF v = a THEN d ELSE Up(v, f[v - 1])
  BY DEF Climbs
<1>2. \A v \in a .. n : g[v] = IF v = a THEN d ELSE Up(v, g[v - 1])
  BY DEF Climbs
<1> SUFFICES ASSUME a <= m PROVE \A v \in a .. m : f[v] = g[v]
  OBVIOUS
<1>3. a \in S
  BY <1>1, <1>2
<1>4. \A v \in a + 1 .. m : v - 1 \in S => v \in S
  BY <1>1, <1>2
<1> HIDE DEF S
<1>5. \A v \in a .. m : v \in S
  BY <1>3, <1>4, Upwards
<1> QED
  BY <1>5 DEF S

LEMMA UpgradedSteps ==
    ASSUME NEW d, d.version \in Nat
    PROVE  /\ Upgraded(d.version, d) = d
           /\ \A n \in Nat : n > d.version => Upgraded(n, d) = Up(n, Upgraded(n - 1, d))
<1> DEFINE F(n) == CHOOSE f : Climbs(f, n, d)
<1>1. ASSUME NEW n \in Nat, n >= d.version
      PROVE  Climbs(F(n), n, d) /\ Upgraded(n, d) = F(n)[n]
  BY <1>1, ClimbExists, UpgradedIsChosen
<1> HIDE DEF F
<1>2. ASSUME NEW n \in Nat, n >= d.version
      PROVE  Upgraded(n, d) = IF n = d.version THEN d ELSE Up(n, F(n)[n - 1])
  BY <1>1, <1>2 DEF Climbs
<1>3. ASSUME NEW n \in Nat, n > d.version
      PROVE  F(n)[n - 1] = Upgraded(n - 1, d)
  <2>1. n - 1 \in Nat /\ n - 1 >= d.version /\ n - 1 <= n /\ n >= d.version
    BY <1>3
  <2>2. Climbs(F(n - 1), n - 1, d) /\ Climbs(F(n), n, d)
        /\ Upgraded(n - 1, d) = F(n - 1)[n - 1]
    BY <1>1, <2>1
  <2>3. \A v \in d.version .. n - 1 : F(n - 1)[v] = F(n)[v]
    BY <2>1, <2>2, ClimbsAgree
  <2> QED
    BY <2>1, <2>2, <2>3
<1> QED
  BY <1>2, <1>3

LEMMA DescentExists ==
    ASSUME NEW d, d.version \in Nat
    PROVE  \A n \in 0 .. d.version : \E f : Descends(f, n, d)
<1> DEFINE a == d.version
           P(n) == \E f : Descends(f, n, d)
<1>1. P(a)
  <2> DEFINE f == [v \in a .. a |-> d]
  <2>1. f = [v \in a .. a |-> IF v = a THEN d ELSE Down(v + 1, f[v + 1])]
    OBVIOUS
  <2> QED
    BY <2>1, Zenon DEF Descends
<1>2. ASSUME NEW n \in 1 .. a, P(n) PROVE P(n - 1)
  <2>1. PICK f : Descends(f, n, d)
    BY <1>2
  <2> DEFINE m == n - 1
             g == [v \in m .. a |-> IF v = m THEN Down(n, f[n]) ELSE f[v]]
  <2>2. f = [v \in n .. a |-> IF v = a THEN d ELSE Down(v + 1, f[v + 1])]
    BY <2>1 DEF Descends
  <2>3. \A v \in n .. a : g[v] = f[v]
    BY <1>2
  <2>4. ASSUME NEW v \in m .. a
        PROVE  g[v] = IF v = a THEN d ELSE Down(v + 1, g[v + 1])
    <3>1. CASE v = m
      <4>1. n \in n .. a /\ v + 1 = n /\ v # a
        BY <1>2, <3>1
      <4>2. g[v] = Down(n, f[n])
        BY <3>1
      <4> QED
        BY <4>1, <4>2, <2>3, <3>1
    <3>2. CASE v # m
      <4>1. v \in n .. a /\ (v # a => v + 1 \in n .. a)
        BY <1>2, <2>4, <3>2
      <4>2. f[v] = IF v = a THEN d ELSE Down(v + 1, f[v + 1])
        BY <2>2, <4>1
      <4> QED
        BY <2>3, <4>1, <4>2
    <3> QED
      BY <3>1, <3>2
  <2>5. g = [v \in m .. a |-> g[v]]
    OBVIOUS
  <2> HIDE DEF g
  <2>6. g = [v \in m .. a |-> IF v = a THEN d ELSE Down(v + 1, g[v + 1])]
    BY <2>4, <2>5
  <2>7. Descends(g, m, d)
    BY <2>6 DEF Descends
  <2> QED
    BY <2>7
<1> SUFFICES \A n \in 0 .. a : P(n)
  OBVIOUS
<1> HIDE DEF P
<1> DEFINE S == {v \in 0 .. a : P(v)}
<1>3. a \in S
  BY <1>1
<1>4. \A v \in 0 .. a - 1 : v + 1 \in S => v \in S
  <2> SUFFICES ASSUME NEW v \in 0 .. a - 1, P(v + 1) PROVE P(v)
    OBVIOUS
  <2>1. v + 1 \in 1 .. a /\ v + 1 - 1 = v
    OBVIOUS
  <2> QED
    BY <1>2, <2>1
<1> HIDE DEF S
<1>5. \A v \in 0 .. a : v \in S
  BY <1>3, <1>4, Downwards
<1> QED
  BY <1>5 DEF S

LEMMA DescentsAgree ==
    ASSUME NEW d, d.version \in Nat, NEW m \in Nat, NEW n \in Nat, m >= n,
           NEW f, NEW g, Descends(f, m, d), Descends(g, n, d)
    PROVE  \A v \in m .. d.version : f[v] = g[v]
<1> DEFINE a == d.version
           S == {v \in m .. a : f[v] = g[v]}
<1>1. \A v \in m .. a : f[v] = IF v = a THEN d ELSE Down(v + 1, f[v + 1])
  BY DEF Descends
<1>2. \A v \in n .. a : g[v] = IF v = a THEN d ELSE Down(v + 1, g[v + 1])
  BY DEF Descends
<1> SUFFICES ASSUME m <= a PROVE \A v \in m .. a : f[v] = g[v]
  OBVIOUS
<1>3. a \in S
  BY <1>1, <1>2
<1>4. \A v \in m .. a - 1 : v + 1 \in S => v \in S
  BY <1>1, <1>2
<1> HIDE DEF S
<1>5. \A v \in m .. a : v \in S
  BY <1>3, <1>4, Downwards
<1> QED
  BY <1>5 DEF S

LEMMA DowngradedSteps ==
    ASSUME NEW d, d.version \in Nat
    PROVE  /\ Downgraded(d.version, d) = d
           /\ \A n \in 0 .. d.version - 1 :
                  Downgraded(n, d) = Down(n + 1, Downgraded(n + 1, d))
<1> DEFINE F(n) == CHOOSE f : Descends(f, n, d)
<1>1. ASSUME NEW n \in 0 .. d.version
      PROVE  Descends(F(n), n, d) /\ Downgraded(n, d) = F(n)[n]
  BY <1>1, DescentExists, DowngradedIsChosen
<1> HIDE DEF F
<1>2. ASSUME NEW n \in 0 .. d.version
      PROVE  Downgraded(n, d) = IF n = d.version THEN d ELSE Down(n + 1, F(n)[n + 1])
  BY <1>1, <1>2 DEF Descends
<1>3. ASSUME NEW n \in 0 .. d.version - 1
      PROVE  F(n)[n + 1] = Downgraded(n + 1, d)
  <2>1. /\ n \in Nat /\ n + 1 \in Nat /\ n + 1 >= n
        /\ n \in 0 .. d.version /\ n + 1 \in 0 .. d.version
    BY <1>3
  <2>2. Descends(F(n + 1), n + 1, d) /\ Descends(F(n), n, d)
        /\ Downgraded(n + 1, d) = F(n + 1)[n + 1]
    BY <1>1, <2>1
  <2>3. \A v \in n + 1 .. d.version : F(n + 1)[v] = F(n)[v]
    BY <2>1, <2>2, DescentsAgree
  <2> QED
    BY <2>1, <2>2, <2>3
<1> QED
  BY <1>2, <1>3

-----------------------------------------------------------------------------
(* What a command leaves is in order again.                                *)
LEMMA ClimbInOrder ==
    ASSUME NEW d, InOrder(d), NEW n \in 0 .. Newest, n > d.version,
           UpgradeGoes(n, d)
    PROVE  InOrder(Upgraded(n, d))
<1> DEFINE a == d.version
           P(v) == InOrder(Upgraded(v, d)) /\ Upgraded(v, d).version = v
           S == {v \in a .. n : P(v)}
<1>1. a \in 0 .. 14 /\ n \in 0 .. 14
  BY DEF InOrder, Databases, Newest
<1>2. a \in S
  BY <1>1, UpgradedSteps
<1>3. ASSUME NEW v \in a + 1 .. n, P(v - 1) PROVE P(v)
  <2>1. v \in Revisions /\ v \in Nat /\ v > a
    BY <1>1 DEF Revisions, Newest
  <2>2. Upgraded(v, d) = Up(v, Upgraded(v - 1, d))
    BY <1>1, <2>1, UpgradedSteps
  <2>3. UpGoes(v, Upgraded(v - 1, d))
    BY DEF UpgradeGoes
  <2> QED
    BY <1>3, <2>1, <2>2, <2>3, UpInOrder
<1> HIDE DEF P
<1>4. \A v \in a + 1 .. n : v - 1 \in S => v \in S
  BY <1>1, <1>3
<1> HIDE DEF S
<1>5. n \in S
  BY <1>1, <1>2, <1>4, Upwards
<1> QED
  BY <1>5 DEF S, P

(* Nothing stands in the way of a clean schema: not up to head ...         *)
LEMMA CleanClimb ==
    ASSUME NEW d, InOrder(d), Clean(d)
    PROVE  UpgradeGoes(Newest, d)
<1> DEFINE a == d.version
           P(v) == /\ InOrder(Upgraded(v, d)) /\ Clean(Upgraded(v, d))
                   /\ Upgraded(v, d).version = v
           S == {v \in a .. 14 : P(v)}
<1>1. a \in 0 .. 14 /\ Newest = 14
  BY DEF InOrder, Databases, Newest
<1>2. a \in S
  BY <1>1, UpgradedSteps
<1>3. ASSUME NEW v \in a + 1 .. 14, P(v - 1)
      PROVE  P(v) /\ UpGoes(v, Upgraded(v - 1, d))
  <2>1. v \in Revisions /\ v \in Nat /\ v > a
    BY <1>1 DEF Revisions, Newest
  <2>2. Upgraded(v, d) = Up(v, Upgraded(v - 1, d))
    BY <1>1, <2>1, UpgradedSteps
  <2>3. UpGoes(v, Upgraded(v - 1, d))
    BY <1>3, <2>1, UpOpen
  <2>4. Upgraded(v - 1, d) \in Databases
    BY <1>3 DEF InOrder
  <2>5. Clean(Upgraded(v, d))
    BY <1>3, <2>1, <2>2, <2>4, UpClean
  <2> QED
    BY <1>3, <2>1, <2>2, <2>3, <2>5, UpInOrder
<1> HIDE DEF P
<1>4. \A v \in a + 1 .. 14 : v - 1 \in S => v \in S
  BY <1>1, <1>3
<1> HIDE DEF S
<1>5. \A v \in a .. 14 : v \in S
  BY <1>1, <1>2, <1>4, Upwards
<1>6. ASSUME NEW v \in a + 1 .. 14 PROVE UpGoes(v, Upgraded(v - 1, d))
  <2>1. v - 1 \in a .. 14
    BY <1>1
  <2>2. P(v - 1)
    BY <1>5, <2>1 DEF S
  <2> QED
    BY <1>3, <2>2
<1> QED
  BY <1>1, <1>6 DEF UpgradeGoes

LEMMA DescentInOrder ==
    ASSUME NEW d, InOrder(d), NEW n \in 0 .. Newest, n < d.version,
           DowngradeGoes(n, d)
    PROVE  InOrder(Downgraded(n, d))
<1> DEFINE a == d.version
           P(v) == InOrder(Downgraded(v, d)) /\ Downgraded(v, d).version = v
           S == {v \in n .. a : P(v)}
<1>1. a \in 0 .. 14 /\ n \in 0 .. 14
  BY DEF InOrder, Databases, Newest
<1>2. a \in S
  BY <1>1, DowngradedSteps
<1>3. ASSUME NEW v \in n .. a - 1, P(v + 1) PROVE P(v)
  <2>1. v + 1 \in Revisions /\ v \in 0 .. a - 1 /\ v + 1 \in n + 1 .. a
        /\ v + 1 - 1 = v
    BY <1>1 DEF Revisions, Newest
  <2>2. Downgraded(v, d) = Down(v + 1, Downgraded(v + 1, d))
    BY <1>1, <2>1, DowngradedSteps
  <2>3. DownGoes(v + 1, Downgraded(v + 1, d))
    BY <2>1 DEF DowngradeGoes
  <2> QED
    BY <1>3, <2>1, <2>2, <2>3, DownInOrder
<1> HIDE DEF P
<1>4. \A v \in n .. a - 1 : v + 1 \in S => v \in S
  BY <1>1, <1>3
<1> HIDE DEF S
<1>5. \A v \in n .. a : v \in S
  BY <1>1, <1>2, <1>4, Downwards
<1>6. n \in S
  BY <1>1, <1>5
<1> QED
  BY <1>6 DEF S, P

(* ... and, before revision 12, not down to nothing, or to 6 if there is   *)
(* keyless evidence.                                                       *)
LEMMA CleanDescent ==
    ASSUME NEW d, InOrder(d), Clean(d), d.version < 12
    PROVE  DowngradeGoes(IF d.keyless THEN 6 ELSE 0, d)
<1> DEFINE a == d.version
           m == IF d.keyless THEN 6 ELSE 0
           P(v) == /\ InOrder(Downgraded(v, d)) /\ Clean(Downgraded(v, d))
                   /\ Downgraded(v, d).version = v
                   /\ Downgraded(v, d).keyless => d.keyless
           S == {v \in m .. a : P(v)}
<1>1. a \in 0 .. 11 /\ m \in {0, 6} /\ m <= a /\ (d.keyless => m = 6)
  BY DEF InOrder, Databases, Newest, Clean
<1> HIDE DEF m
<1>2. a \in S
  BY <1>1, DowngradedSteps
<1>3. ASSUME NEW v \in m + 1 .. a, P(v) PROVE DownGoes(v, Downgraded(v, d))
  <2>1. v \in Revisions \ {12}
    BY <1>1 DEF Revisions, Newest
  <2>2. v = 6 => ~Downgraded(v, d).keyless
    BY <1>1, <1>3
  <2> QED
    BY <1>3, <2>1, <2>2, DownOpen
<1>4. ASSUME NEW v \in m .. a - 1, P(v + 1) PROVE P(v)
  <2>1. v + 1 \in Revisions \ {12} /\ v + 1 \in m + 1 .. a /\ v + 1 - 1 = v
    BY <1>1 DEF Revisions, Newest
  <2>2. Downgraded(v, d) = Down(v + 1, Downgraded(v + 1, d))
    BY <1>1, DowngradedSteps
  <2>3. DownGoes(v + 1, Downgraded(v + 1, d))
    BY <1>3, <1>4, <2>1
  <2>4. Downgraded(v + 1, d) \in Databases
    BY <1>4 DEF InOrder
  <2>5. Clean(Downgraded(v, d))
    BY <1>4, <2>1, <2>2, <2>3, <2>4, DownClean DEF DownGoes
  <2>6. Down(v + 1, Downgraded(v + 1, d)).keyless
            = DownKeyless(v + 1, Downgraded(v + 1, d))
    BY <2>1, <2>4, DownFields
  <2>7. Downgraded(v, d).keyless => d.keyless
    BY <1>4, <2>2, <2>6 DEF DownKeyless
  <2> QED
    BY <1>4, <2>1, <2>2, <2>3, <2>5, <2>7, DownInOrder
<1> HIDE DEF P
<1>5. \A v \in m .. a - 1 : v + 1 \in S => v \in S
  BY <1>1, <1>4
<1> HIDE DEF S
<1>6. \A v \in m .. a : v \in S
  BY <1>1, <1>2, <1>5, Downwards
<1>7. ASSUME NEW v \in m + 1 .. a PROVE DownGoes(v, Downgraded(v, d))
  <2>1. P(v)
    BY <1>1, <1>6 DEF S
  <2> QED
    BY <1>3, <2>1
<1> QED
  BY <1>1, <1>7 DEF DowngradeGoes, m

-----------------------------------------------------------------------------
(* Between two commands: what the application and create_all write.        *)
LEMMA CreateAllInOrder == InOrder(db) /\ CreateAll => InOrder(db')
<1> SUFFICES ASSUME InOrder(db), CreateAll PROVE InOrder(db')
  OBVIOUS
<1> DEFINE new == Tables \ db.tables
           ks == db.keys \cup {k \in ForeignKeys : k[1] \in new}
           ak == IF "projects" \in new THEN "hashed" ELSE db.apiKeys
<1>1. db \in Databases
  BY DEF InOrder
<1>2. new # {} /\ db' = [db EXCEPT !.tables = Tables, !.keys = ks, !.apiKeys = ak]
  BY DEF CreateAll
<1>3. ks \in SUBSET ForeignKeys /\ ak \in {"none", "plain", "hashed"}
  BY <1>1 DEF Databases
<1>4. db.apiKeys = "hashed" => ak = "hashed"
  OBVIOUS
<1> HIDE DEF ks, ak
<1>5. /\ db'.tables = Tables /\ db'.version = db.version /\ db'.owner = db.owner
      /\ db'.members = db.members /\ db'.role = db.role
      /\ db'.allowed = db.allowed /\ db'.apiKeys = ak
  BY <1>1, <1>2 DEF Databases
<1>6. db' \in Databases
  BY <1>1, <1>2, <1>3 DEF Databases
<1>7. db.version < 14
  <2>1. CASE Clean(db)
    <3>1. db.version \in 0 .. 14
      BY <1>1 DEF Databases, Newest
    <3>2. db.version # 14
      BY <2>1, <1>2, BornFacts DEF Clean, TablesAt
    <3> QED
      BY <3>1, <3>2
  <2>2. CASE Spoilt(db)
    BY <2>2 DEF Spoilt
  <2> QED
    BY <2>1, <2>2 DEF InOrder
<1>8. Spoilt(db')
  BY <1>5, <1>7, BornFacts DEF Spoilt
<1> QED
  BY <1>4, <1>5, <1>6, <1>8 DEF InOrder, Complies

LEMMA AssignRoleInOrder ==
    ASSUME InOrder(db), NEW u \in People, NEW r \in AllRoles, AssignRole(u, r)
    PROVE  InOrder(db')
<1>1. db \in Databases
  BY DEF InOrder
<1>2. r \in db.allowed /\ db' = [db EXCEPT !.role[u] = r]
  BY DEF AssignRole, RolesInUse
<1>3. /\ db'.tables = db.tables /\ db'.version = db.version /\ db'.owner = db.owner
      /\ db'.members = db.members /\ db'.role = [db.role EXCEPT ![u] = r]
      /\ db'.allowed = db.allowed /\ db'.apiKeys = db.apiKeys
      /\ db'.keys = db.keys /\ db'.keyless = db.keyless
  BY <1>1, <1>2 DEF Databases
<1>4. db' \in Databases
  BY <1>1, <1>2 DEF Databases
<1>5. Complies(db')
  BY <1>1, <1>2, <1>3 DEF InOrder, Complies, Databases
<1>6. Clean(db') \/ Spoilt(db')
  BY <1>3 DEF InOrder, Clean, Spoilt
<1> QED
  BY <1>3, <1>4, <1>5, <1>6 DEF InOrder

LEMMA AddProjectInOrder ==
    ASSUME InOrder(db), NEW u \in People, AddProject(u)
    PROVE  InOrder(db')
<1>1. db \in Databases
  BY DEF InOrder
<1>2. PICK joined \in BOOLEAN :
          /\ db.apiKeys = "hashed" => joined
          /\ db' = [db EXCEPT !.owner = u,
                              !.members = IF joined THEN @ \cup {u} ELSE @]
  BY DEF AddProject
<1> DEFINE ms == IF joined THEN db.members \cup {u} ELSE db.members
<1>3. ms \in SUBSET People /\ (joined => u \in ms)
  BY <1>1 DEF Databases
<1>4. db' = [db EXCEPT !.owner = u, !.members = ms]
  BY <1>2
<1> HIDE DEF ms
<1>5. /\ db'.tables = db.tables /\ db'.version = db.version /\ db'.owner = u
      /\ db'.members = ms /\ db'.role = db.role
      /\ db'.allowed = db.allowed /\ db'.apiKeys = db.apiKeys
      /\ db'.keys = db.keys /\ db'.keyless = db.keyless
  BY <1>1, <1>4 DEF Databases
<1>6. db' \in Databases
  BY <1>1, <1>3, <1>4 DEF Databases
<1>7. db.version \in 0 .. 14
  BY <1>1 DEF Databases, Newest
<1>8. db'.version >= 13 => {db'.owner} \ {Nobody} \subseteq db'.members
  BY <1>2, <1>3, <1>5, <1>7 DEF InOrder
<1>9. Clean(db') \/ Spoilt(db')
  BY <1>5 DEF InOrder, Clean, Spoilt
<1> QED
  BY <1>5, <1>6, <1>8, <1>9 DEF InOrder, Complies

LEMMA UploadInOrder ==
    ASSUME InOrder(db), Upload \/ DeleteIncident
    PROVE  InOrder(db')
<1>1. db \in Databases
  BY DEF InOrder
<1>2. PICK b \in BOOLEAN : db' = [db EXCEPT !.keyless = b]
  BY DEF Upload, DeleteIncident
<1>3. /\ db'.tables = db.tables /\ db'.version = db.version /\ db'.owner = db.owner
      /\ db'.members = db.members /\ db'.role = db.role
      /\ db'.allowed = db.allowed /\ db'.apiKeys = db.apiKeys
      /\ db'.keys = db.keys /\ db'.keyless = b
  BY <1>1, <1>2 DEF Databases
<1>4. db' \in Databases
  BY <1>1, <1>2 DEF Databases
<1>5. CASE Clean(db)
  <2>1. db.version \in 0 .. 14
    BY <1>1 DEF Databases, Newest
  <2>2. db.version = 0 => "evidence" \notin db.tables
    <3> SUFFICES ASSUME db.version = 0 PROVE db.tables = {}
      OBVIOUS
    <3> QED
      BY <1>5, BornFacts DEF Clean, TablesAt
  <2>3. db'.keyless => db.version >= 6
    <3>1. CASE Upload
      BY <3>1, <2>1, <2>2 DEF Upload
    <3>2. CASE DeleteIncident
      BY <3>2, <1>5 DEF DeleteIncident, Clean
    <3> QED
      BY <3>1, <3>2
  <2>4. Clean(db')
    BY <1>3, <1>5, <2>3 DEF Clean
  <2> QED
    BY <1>3, <1>4, <2>4 DEF InOrder, Complies
<1>6. CASE Spoilt(db)
  BY <1>3, <1>4, <1>6 DEF InOrder, Complies, Spoilt
<1> QED
  BY <1>5, <1>6 DEF InOrder

LEMMA MigrationsStart == MigrationsInit => MigrationsInv
<1> SUFFICES ASSUME MigrationsInit PROVE MigrationsInv
  OBVIOUS
<1>1. /\ db.version = 0 /\ db.tables = {} /\ db.keys = {} /\ db.allowed = AllRoles
      /\ db.role = [u \in People |-> "none"] /\ db.apiKeys = "none"
      /\ db.owner = Nobody /\ db.members = {} /\ db.keyless = FALSE
  BY DEF MigrationsInit
<1>2. db \in Databases
  BY DEF MigrationsInit, Databases, Newest
<1>3. TablesAt(0) = {} /\ KeysAt(0) = {}
  BY BornFacts, KeyFacts DEF TablesAt, KeysAt
<1>4. Clean(db) /\ db.allowed = AllowedAt(db.version) /\ Complies(db)
  BY <1>1, <1>3 DEF Clean, ApiKeysAt, AllowedAt, Complies
<1> QED
  BY <1>1, <1>2, <1>4 DEF MigrationsInit, MigrationsInv, InOrder

LEMMA MigrationsStep ==
    MigrationsInv /\ [MigrationsNext]_migrationVars => MigrationsInv'
<1> SUFFICES ASSUME MigrationsInv, [MigrationsNext]_migrationVars
             PROVE  MigrationsInv'
  OBVIOUS
<1>1. ASSUME NEW n \in 0 .. Newest, Upgrade(n) PROVE MigrationsInv'
  <2>1. InOrder(Upgraded(n, db))
    BY <1>1, ClimbInOrder DEF MigrationsInv, Upgrade
  <2> QED
    BY <1>1, <2>1 DEF MigrationsInv, Upgrade
<1>2. ASSUME NEW n \in 0 .. Newest, Downgrade(n) PROVE MigrationsInv'
  <2>1. InOrder(Downgraded(n, db))
    BY <1>2, DescentInOrder DEF MigrationsInv, Downgrade
  <2> QED
    BY <1>2, <2>1 DEF MigrationsInv, Downgrade
<1>3. CASE CreateAll
  <2>1. InOrder(db') /\ Write
    BY <1>3, CreateAllInOrder DEF MigrationsInv, CreateAll
  <2> QED
    BY <2>1 DEF MigrationsInv, Write
<1>4. ASSUME NEW u \in People, AddProject(u) PROVE MigrationsInv'
  <2>1. InOrder(db') /\ Write
    BY <1>4, AddProjectInOrder DEF MigrationsInv, AddProject
  <2> QED
    BY <2>1 DEF MigrationsInv, Write
<1>5. ASSUME NEW u \in People, NEW r \in AllRoles, AssignRole(u, r)
      PROVE  MigrationsInv'
  <2>1. InOrder(db') /\ Write
    BY <1>5, AssignRoleInOrder DEF MigrationsInv, AssignRole
  <2> QED
    BY <2>1 DEF MigrationsInv, Write
<1>6. CASE Upload \/ DeleteIncident
  <2>1. InOrder(db') /\ Write
    BY <1>6, UploadInOrder DEF MigrationsInv, Upload, DeleteIncident
  <2> QED
    BY <2>1 DEF MigrationsInv, Write
<1>7. CASE UNCHANGED migrationVars
  BY <1>7 DEF migrationVars, MigrationsInv
<1> QED
  BY <1>1, <1>2, <1>3, <1>4, <1>5, <1>6, <1>7 DEF MigrationsNext

(* Whatever commands and writes came before, the schema is one of a        *)
(* revision: its rows, its CHECK and its tables are those that the         *)
(* revision's number stands for.                                           *)
THEOREM MigrationsTypeCorrect == MigrationsSpec => []MigrationsTypeOK
<1>1. MigrationsInv => MigrationsTypeOK
  BY DEF MigrationsInv, InOrder, MigrationsTypeOK
<1> QED
  BY <1>1, MigrationsStart, MigrationsStep, PTL DEF MigrationsSpec

(* For any users and any number of writes: upgrade head goes through       *)
(* unless create_all ran ahead; below revision 12 every downgrade does     *)
(* down to 6, and all the way while no evidence lacks a key in S3; and     *)
(* from 013 on a project's owner is a member.                              *)
THEOREM HistoryCorrect == MigrationsSpec => []HistoryHolds
<1>1. MigrationsInv => HistoryHolds
  <2> SUFFICES ASSUME InOrder(db) PROVE HistoryHolds
    BY DEF MigrationsInv
  <2>1. Ahead = {} => Clean(db)
    <3> SUFFICES ASSUME Spoilt(db) PROVE Ahead # {}
      BY DEF InOrder
    <3>1. db.version \in 0 .. 14
      BY DEF InOrder, Databases, Newest
    <3>2. 14 \in db.version + 1 .. Newest
      BY <3>1 DEF Spoilt, Newest
    <3>3. "project_invitations" \in Creates(14) /\ 14 \notin Careful
      BY CreatesFacts DEF Careful
    <3> QED
      BY <3>2, <3>3 DEF Spoilt, Ahead
  <2> QED
    BY <2>1, CleanClimb, CleanDescent DEF HistoryHolds, InOrder
<1> QED
  BY <1>1, MigrationsStart, MigrationsStep, PTL DEF MigrationsSpec

-----------------------------------------------------------------------------
(* The registers side by side. *)

LEMMA PartsStep ==
    [Next]_vars => /\ [CaseNext]_caseVars /\ [RegisterNext]_registerVars
                   /\ [PostureNext]_postureVars /\ [MigrationsNext]_migrationVars
<1> SUFFICES ASSUME [Next]_vars
             PROVE  /\ [CaseNext]_caseVars /\ [RegisterNext]_registerVars
                    /\ [PostureNext]_postureVars
                    /\ [MigrationsNext]_migrationVars
  OBVIOUS
<1>1. CASE UNCHANGED vars
  BY <1>1 DEF vars
<1>2. CASE Next
  BY <1>2 DEF Next, RegisterNext
<1> QED
  BY <1>1, <1>2

(* What is put together is what was modelled: every behaviour of the       *)
(* registers is one of the case file, of the compliance register, of the   *)
(* numbers and of the schema.                                              *)
THEOREM PartsImplemented ==
    Spec => CaseSpec /\ RegisterSpec /\ PostureSpec /\ MigrationsSpec
<1>1. Init => CaseInit /\ RegisterInit /\ PostureInit /\ MigrationsInit
  BY DEF Init
<1> QED
  BY <1>1, PartsStep, PTL
  DEF Spec, CaseSpec, RegisterSpec, PostureSpec, MigrationsSpec

(* Every reachable state of the four parts is well typed (CaseFile,        *)
(* ComplianceRegister, Posture, Migrations).                               *)
THEOREM TypeCorrect == Spec => []TypeOK
  BY PartsImplemented, CaseTypeCorrect, RegisterTypeCorrect,
     PostureTypeCorrect, MigrationsTypeCorrect, PTL DEF TypeOK
=============================================================================

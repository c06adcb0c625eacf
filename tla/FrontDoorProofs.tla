--------------------------- MODULE FrontDoorProofs ---------------------------
(***************************************************************************)
(* Proofs about modules ProjectLife and Accounts: their type invariants,   *)
(* that the key handed out last is the one a project has and no incident   *)
(* refers to a project that is gone, that a refused request leaves no      *)
(* trace, that no role changes without its audit row, and that the last    *)
(* super admin goes by overlap only; and about module MCFrontDoor, which   *)
(* puts them beside the modules of TrafficProofs.                          *)
(***************************************************************************)
EXTENDS MCFrontDoor, TrafficProofs, TLAPS

-----------------------------------------------------------------------------
(* ProjectLife: types. *)

LEMMA NoWorkType == NoWork \in WorkOf
  BY ProjectLimits DEF NoWork, WorkOf, Unmade, ProjectRow

LEMMA NoFeedType == NoFeed \in FeedOf
  BY ProjectLimits DEF NoFeed, FeedOf

LEMMA RowWrittenType ==
    ASSUME ProjectTypeOK, NEW x \in WorkOf
    PROVE  RowWritten(x) \in ProjectRow
  BY DEF ProjectTypeOK, WorkOf, RowWritten, Flushed, ProjectRow

LEMMA ReadType ==
    ASSUME ProjectTypeOK, NEW m \in Managers, NEW p \in ProjectIds,
           NEW op \in {"create", "status", "regenerate", "delete"},
           NEW mine \in ProjectRow, Read(m, op, p, mine)
    PROVE  ProjectTypeOK'
<1>1. [stage |-> "read", op |-> op, on |-> p, read |-> project[p], mine |-> mine,
       loaded |-> IF op = "delete" THEN {i \in Cases : origin[i] = p} ELSE {}]
         \in WorkOf
  BY DEF ProjectTypeOK, WorkOf
<1>2. work' \in [Managers -> WorkOf]
  BY <1>1 DEF Read, ProjectTypeOK
<1> QED
  BY <1>2 DEF Read, ProjectTypeOK, Minted

(* Every reachable state of the projects' life is well typed. *)
THEOREM ProjectTypeCorrect == ProjectSpec => []ProjectTypeOK
<1>1. ProjectInit => ProjectTypeOK
  BY NoWorkType, NoFeedType DEF ProjectInit, ProjectTypeOK, Unmade, ProjectRow
<1>2. ProjectTypeOK /\ [ProjectNext]_projectVars => ProjectTypeOK'
  <2> SUFFICES ASSUME ProjectTypeOK, [ProjectNext]_projectVars PROVE ProjectTypeOK'
    OBVIOUS
  <2>1. ASSUME NEW m \in Managers, NEW p \in ProjectIds, CreateProject(m, p)
        PROVE  ProjectTypeOK'
    <3>1. [NoWork EXCEPT !.stage = "flushed", !.op = "create", !.on = p,
                         !.mine = [status |-> "active", key |-> minted + 1]]
            \in WorkOf
      <4>1. minted + 1 \in Nat
        BY DEF ProjectTypeOK
      <4> QED
        BY <4>1, ProjectLimits DEF NoWork, WorkOf, ProjectRow, Unmade
    <3>2. work' \in [Managers -> WorkOf]
      BY <2>1, <3>1 DEF CreateProject, ProjectTypeOK
    <3> QED
      BY <2>1, <3>2 DEF CreateProject, ProjectTypeOK, Minted, HandOut
  <2>2. ASSUME NEW m \in Managers, NEW p \in ProjectIds,
               NEW st \in {"active", "archived"}, ChangeStatus(m, p, st)
        PROVE  ProjectTypeOK'
    <3>1. [project[p] EXCEPT !.status = st] \in ProjectRow
      BY DEF ProjectTypeOK, ProjectRow
    <3> QED
      BY <2>2, <3>1, ReadType DEF ChangeStatus
  <2>3. ASSUME NEW m \in Managers, NEW p \in ProjectIds, Regenerate(m, p)
        PROVE  ProjectTypeOK'
    <3>1. [project[p] EXCEPT !.key = minted + 1] \in ProjectRow
      BY DEF ProjectTypeOK, ProjectRow
    <3> QED
      BY <2>3, <3>1, ReadType DEF Regenerate
  <2>4. ASSUME NEW m \in Managers, NEW p \in ProjectIds, DeleteProject(m, p)
        PROVE  ProjectTypeOK'
    <3>1. [status |-> "gone", key |-> 0] \in ProjectRow
      BY DEF ProjectRow
    <3> QED
      BY <2>4, <3>1, ReadType DEF DeleteProject
  <2>5. ASSUME NEW m \in Managers, FlushWork(m) PROVE ProjectTypeOK'
    <3>1. work[m] \in WorkOf
      BY DEF ProjectTypeOK
    <3>2. work' \in [Managers -> WorkOf]
      BY <2>5, <3>1 DEF FlushWork, ProjectTypeOK, WorkOf
    <3>3. latest' \in [ProjectIds -> Nat] /\ undone' \in [ProjectIds -> BOOLEAN]
      BY <2>5, <3>1 DEF FlushWork, ProjectTypeOK, HandOut, WorkOf, ProjectRow
    <3> QED
      BY <2>5, <3>2, <3>3 DEF FlushWork, ProjectTypeOK
  <2>6. ASSUME NEW m \in Managers, CommitWork(m) PROVE ProjectTypeOK'
    <3>1. work[m] \in WorkOf
      BY DEF ProjectTypeOK
    <3>2. project' \in [ProjectIds -> ProjectRow]
      BY <2>6, <3>1, RowWrittenType DEF CommitWork, ProjectTypeOK
    <3>3. origin' \in [Cases -> ProjectIds \cup {"none", "orphan", "gone"}]
      BY <2>6 DEF CommitWork, OriginAfter, ProjectTypeOK
    <3> QED
      BY <2>6, <3>2, <3>3, NoWorkType DEF CommitWork, ProjectTypeOK
  <2>7. ASSUME NEW m \in Managers, FailWork(m) PROVE ProjectTypeOK'
    BY <2>7, NoWorkType DEF FailWork, ProjectTypeOK
  <2>8. ASSUME NEW f \in Feeds, Ingest(f) PROVE ProjectTypeOK'
    <3>1. ASSUME NEW p \in ProjectIds, Resolve(f, p) PROVE ProjectTypeOK'
      <4>1. [NoFeed EXCEPT !.stage = "resolved", !.on = p] \in FeedOf
        BY NoFeedType DEF FeedOf
      <4> QED
        BY <3>1, <4>1 DEF Resolve, ProjectTypeOK
    <3>2. ASSUME NEW is \in SUBSET Cases, IngestEvent(f, is) PROVE ProjectTypeOK'
      BY <3>2 DEF IngestEvent, ProjectTypeOK, FeedOf
    <3>3. CASE CommitFeed(f)
      BY <3>3, NoFeedType DEF CommitFeed, ProjectTypeOK, FeedOf
    <3>4. CASE FailFeed(f)
      BY <3>4, NoFeedType DEF FailFeed, ProjectTypeOK
    <3> QED
      BY <2>8, <3>1, <3>2, <3>3, <3>4 DEF Ingest
  <2>9. CASE UNCHANGED projectVars
    BY <2>9 DEF projectVars, ProjectTypeOK
  <2> QED
    BY <2>1, <2>2, <2>3, <2>4, <2>5, <2>6, <2>7, <2>8, <2>9
    DEF ProjectNext, Manage
<1>3. QED
  BY <1>1, <1>2, PTL DEF ProjectSpec

-----------------------------------------------------------------------------
(* ProjectLife: keys and incidents. *)

Living == {"active", "archived"}

(* What a session in progress has read and holds of its project.           *)
WorkSound(m) ==
    LET w == work[m]
    IN /\ w.stage = "idle" => w = NoWork
       /\ w.mine.key <= minted
       /\ w.op = "create" =>
             /\ w.stage = "flushed" /\ project[w.on] = Unmade
             /\ w.mine.status = "active" /\ latest[w.on] = w.mine.key
       /\ w.stage # "idle" /\ w.op \in {"status", "regenerate"} =>
             /\ w.mine.status \in Living /\ w.read.status \in Living
             /\ w.stage = "flushed" => Lives(w.on)
       /\ w.stage # "idle" /\ w.op = "status" => w.mine.key = w.read.key
       /\ w.stage # "idle" /\ w.op = "regenerate" => w.read.key < w.mine.key
       /\ w.stage = "flushed" /\ w.op = "regenerate" => latest[w.on] = w.mine.key
       /\ w.stage # "idle" /\ w.op = "delete" => w.mine.status = "gone"
       /\ w.stage # "idle" /\ w.op # "create" => project[w.on].status # "none"

OneHolder ==
    \A p \in ProjectIds, m, n \in Managers : HeldBy(m, p) /\ HeldBy(n, p) => m = n

(* An event that is inserted keeps its project, and the key, as they are.  *)
FeedSound(f) ==
    feed[f].stage = "inserted" => Lives(feed[f].on) /\ ~ClosedTo(feed[f].on)

ProjectInv ==
    /\ ProjectTypeOK
    /\ \A m \in Managers : WorkSound(m)
    /\ OneHolder
    /\ \A f \in Feeds : FeedSound(f)
    /\ \A p \in ProjectIds : project[p].key <= minted
    /\ ProjectsAreSound

LEMMA ReadKeepsInv ==
    ASSUME ProjectInv, NEW m \in Managers, NEW p \in ProjectIds,
           NEW op \in {"status", "regenerate", "delete"}, NEW mine \in ProjectRow,
           Read(m, op, p, mine), mine.key <= minted + 1,
           op \in {"status", "regenerate"} => mine.status \in Living,
           op = "status" => mine.key = project[p].key,
           op = "regenerate" => project[p].key < mine.key,
           op = "delete" => mine.status = "gone",
           ProjectTypeOK'
    PROVE  ProjectInv'
<1> USE DEF ProjectInv
<1>1. /\ work' = [work EXCEPT ![m] =
                     [stage |-> "read", op |-> op, on |-> p, read |-> project[p],
                      mine |-> mine,
                      loaded |-> IF op = "delete"
                                 THEN {i \in Cases : origin[i] = p} ELSE {}]]
      /\ Lives(p) /\ minted' = minted + 1 /\ minted \in Nat
      /\ UNCHANGED <<project, origin, latest, undone, feed>>
      /\ work[m] = NoWork
      /\ work \in [Managers -> WorkOf] /\ project \in [ProjectIds -> ProjectRow]
  BY DEF Read, Minted, ProjectTypeOK
<1>2. work[m].stage = "idle"
  BY <1>1 DEF NoWork
<1>3. \A n \in Managers : WorkSound(n)'
  <2> SUFFICES ASSUME NEW n \in Managers PROVE WorkSound(n)'
    OBVIOUS
  <2>1. CASE n = m
    BY <1>1, <2>1 DEF WorkSound, Lives, Living
  <2>2. CASE n # m
    <3>1. work'[n] = work[n] /\ work[n].mine.key \in Nat
      BY <1>1, <2>2 DEF WorkOf, ProjectRow
    <3> QED
      BY <1>1, <3>1 DEF WorkSound, Lives
  <2> QED
    BY <2>1, <2>2
<1>4. \A n \in Managers, q \in ProjectIds : HeldBy(n, q)' <=> HeldBy(n, q)
  BY <1>1, <1>2 DEF HeldBy
<1>5. \A n \in Managers : work[n].stage = "flushed" => work'[n] = work[n]
  BY <1>1, <1>2
<1>6. OneHolder'
  BY <1>4 DEF OneHolder
<1>7. \A f \in Feeds : FeedSound(f)'
  BY <1>1, <1>4, <1>5 DEF FeedSound, ClosedTo, HeldBy, Lives
<1>8. \A q \in ProjectIds : project'[q].key <= minted'
  BY <1>1 DEF ProjectRow
<1>9. LastKeyWorks' /\ IncidentsHaveProjects'
  BY <1>1, <1>4, <1>5
  DEF ProjectsAreSound, LastKeyWorks, IncidentsHaveProjects, Lives, HeldBy
<1> QED
  BY <1>3, <1>6, <1>7, <1>8, <1>9 DEF ProjectsAreSound

LEMMA CreateKeepsInv ==
    ASSUME ProjectInv, NEW m \in Managers, NEW p \in ProjectIds,
           CreateProject(m, p), ProjectTypeOK'
    PROVE  ProjectInv'
<1> USE DEF ProjectInv
<1>1. /\ \A n \in Managers \ {m} : work'[n] = work[n]
      /\ minted' = minted + 1 /\ minted \in Nat
      /\ latest' = [latest EXCEPT ![p] = minted + 1]
      /\ undone' = [undone EXCEPT ![p] = FALSE]
      /\ UNCHANGED <<project, origin, feed>>
      /\ work[m] = NoWork /\ project[p] = Unmade
      /\ \A n \in Managers : work[n].op # "create"
      /\ work \in [Managers -> WorkOf] /\ project \in [ProjectIds -> ProjectRow]
      /\ latest \in [ProjectIds -> Nat] /\ undone \in [ProjectIds -> BOOLEAN]
  BY DEF CreateProject, Minted, HandOut, ProjectTypeOK
<1>2. /\ work'[m].stage = "flushed" /\ work'[m].op = "create" /\ work'[m].on = p
      /\ work'[m].mine = [status |-> "active", key |-> minted + 1]
      /\ work[m].stage = "idle"
  BY <1>1 DEF CreateProject, NoWork
<1>3. \A n \in Managers : work[n].stage # "idle" => work[n].on # p
  BY <1>1 DEF WorkSound, Unmade
<1>4. \A n \in Managers : WorkSound(n)'
  <2> SUFFICES ASSUME NEW n \in Managers PROVE WorkSound(n)'
    OBVIOUS
  <2>1. CASE n = m
    BY <1>1, <1>2, <2>1 DEF WorkSound
  <2>2. CASE n # m
    <3>1. work'[n] = work[n] /\ work[n].mine.key \in Nat /\ work[n].on \in ProjectIds
      BY <1>1, <2>2 DEF WorkOf, ProjectRow
    <3> QED
      BY <1>1, <1>3, <3>1 DEF WorkSound, Lives
  <2> QED
    BY <2>1, <2>2
<1>5. OneHolder'
  BY <1>1, <1>2, <1>3 DEF OneHolder, HeldBy
<1>6. \A f \in Feeds : FeedSound(f)'
  <2> SUFFICES ASSUME NEW f \in Feeds, feed[f].stage = "inserted"
               PROVE  Lives(feed[f].on)' /\ ~ClosedTo(feed[f].on)'
    BY <1>1 DEF FeedSound
  <2>1. Lives(feed[f].on) /\ ~ClosedTo(feed[f].on)
    BY DEF FeedSound
  <2> QED
    BY <1>1, <1>2, <2>1 DEF ClosedTo, HeldBy, Lives
<1>7. \A q \in ProjectIds : project'[q].key <= minted'
  BY <1>1 DEF ProjectRow
<1>8. LastKeyWorks'
  <2> SUFFICES ASSUME NEW q \in ProjectIds, Lives(q)
               PROVE  \/ latest'[q] = project'[q].key
                      \/ undone'[q]
                      \/ \E n \in Managers : /\ HeldBy(n, q)'
                                             /\ work'[n].op = "regenerate"
                                             /\ work'[n].mine.key = latest'[q]
    BY <1>1 DEF LastKeyWorks, Lives
  <2>1. q # p
    BY <1>1 DEF Lives, Unmade
  <2>2. \/ latest[q] = project[q].key
        \/ undone[q]
        \/ \E n \in Managers : /\ HeldBy(n, q)
                               /\ work[n].op = "regenerate"
                               /\ work[n].mine.key = latest[q]
    BY DEF ProjectsAreSound, LastKeyWorks
  <2> QED
    BY <1>1, <1>2, <2>1, <2>2 DEF HeldBy
<1>9. IncidentsHaveProjects'
  BY <1>1 DEF ProjectsAreSound, IncidentsHaveProjects, Lives
<1> QED
  BY <1>4, <1>5, <1>6, <1>7, <1>8, <1>9 DEF ProjectsAreSound

LEMMA FlushKeepsInv ==
    ASSUME ProjectInv, NEW m \in Managers, FlushWork(m), ProjectTypeOK'
    PROVE  ProjectInv'
<1> DEFINE w == work[m]
           p == work[m].on
<1>1. /\ work' = [work EXCEPT ![m].stage = "flushed"]
      /\ w.stage = "read" /\ p \in ProjectIds /\ w.mine.key \in Nat
      /\ Lives(p) \/ w.op = "delete"
      /\ w.op \in {"regenerate", "delete"} => ~Referred(p)
      /\ \A n \in Managers : ~HeldBy(n, p)
      /\ IF w.op = "regenerate"
         THEN /\ latest' = [latest EXCEPT ![p] = w.mine.key]
              /\ undone' = [undone EXCEPT ![p] = FALSE]
         ELSE UNCHANGED <<latest, undone>>
      /\ UNCHANGED <<project, origin, feed, minted>>
      /\ work \in [Managers -> WorkOf]
      /\ latest \in [ProjectIds -> Nat] /\ undone \in [ProjectIds -> BOOLEAN]
  BY DEF FlushWork, HandOut, ProjectInv, ProjectTypeOK, WorkOf, ProjectRow
<1>2. /\ work'[m].stage = "flushed" /\ work'[m].op = w.op /\ work'[m].on = p
      /\ work'[m].read = w.read /\ work'[m].mine = w.mine
      /\ \A n \in Managers \ {m} : work'[n] = work[n]
  BY <1>1 DEF WorkOf
<1>3. \A n \in Managers : WorkSound(n)
  BY DEF ProjectInv
<1>4. w.op # "create"
  BY <1>1, <1>3 DEF WorkSound
<1>5. \A n \in Managers : WorkSound(n)'
  <2> SUFFICES ASSUME NEW n \in Managers PROVE WorkSound(n)'
    OBVIOUS
  <2>1. CASE n = m
    <3>1. WorkSound(m)
      BY <1>3
    <3> QED
      BY <1>1, <1>2, <1>4, <2>1, <3>1 DEF WorkSound, Lives
  <2>2. CASE n # m
    <3>1. work'[n] = work[n] /\ WorkSound(n)
      BY <1>2, <1>3, <2>2
    <3>2. work[n].stage = "flushed" => work[n].on # p
      BY <1>1 DEF HeldBy
    <3>3. work[n].op = "create" => work[n].stage = "flushed"
      BY <3>1 DEF WorkSound
    <3>4. work[n].on \in ProjectIds
      BY <1>1 DEF WorkOf
    <3> QED
      BY <1>1, <3>1, <3>2, <3>3, <3>4 DEF WorkSound, Lives
  <2> QED
    BY <2>1, <2>2
<1>6. OneHolder'
  BY <1>1, <1>2 DEF ProjectInv, OneHolder, HeldBy
<1>7. \A f \in Feeds : FeedSound(f)'
  <2> SUFFICES ASSUME NEW f \in Feeds, feed[f].stage = "inserted"
               PROVE  Lives(feed[f].on)' /\ ~ClosedTo(feed[f].on)'
    BY <1>1 DEF FeedSound
  <2>1. Lives(feed[f].on) /\ ~ClosedTo(feed[f].on)
    BY DEF ProjectInv, FeedSound
  <2>2. feed[f].on = p => w.op \notin {"regenerate", "delete"}
    BY <1>1 DEF Referred
  <2> QED
    BY <1>1, <1>2, <2>1, <2>2 DEF ClosedTo, HeldBy, Lives
<1>8. \A q \in ProjectIds : project'[q].key <= minted'
  BY <1>1 DEF ProjectInv
<1>9. LastKeyWorks'
  <2> SUFFICES ASSUME NEW q \in ProjectIds, Lives(q)
               PROVE  \/ latest'[q] = project'[q].key
                      \/ undone'[q]
                      \/ \E n \in Managers : /\ HeldBy(n, q)'
                                             /\ work'[n].op = "regenerate"
                                             /\ work'[n].mine.key = latest'[q]
    BY <1>1 DEF LastKeyWorks, Lives
  <2>1. \/ latest[q] = project[q].key
        \/ undone[q]
        \/ \E n \in Managers : /\ HeldBy(n, q)
                               /\ work[n].op = "regenerate"
                               /\ work[n].mine.key = latest[q]
    BY DEF ProjectInv, ProjectsAreSound, LastKeyWorks
  <2>2. CASE q = p /\ w.op = "regenerate"
    BY <1>1, <1>2, <2>2 DEF HeldBy
  <2>3. CASE ~(q = p /\ w.op = "regenerate")
    <3>1. latest'[q] = latest[q] /\ undone'[q] = undone[q] /\ project'[q] = project[q]
      BY <1>1, <2>3
    <3>2. \A n \in Managers : HeldBy(n, q) => HeldBy(n, q)' /\ work'[n].op = work[n].op
                                              /\ work'[n].mine = work[n].mine
      BY <1>1, <1>2 DEF HeldBy
    <3> QED
      BY <2>1, <3>1, <3>2
  <2> QED
    BY <2>2, <2>3
<1>10. IncidentsHaveProjects'
  BY <1>1 DEF ProjectInv, ProjectsAreSound, IncidentsHaveProjects, Lives
<1> QED
  BY <1>5, <1>6, <1>7, <1>8, <1>9, <1>10 DEF ProjectInv, ProjectsAreSound

(* What a commit leaves in the row, by the kind of session.                *)
LEMMA RowAfterCommit ==
    ASSUME ProjectInv, NEW m \in Managers, work[m].stage = "flushed"
    PROVE  LET w == work[m]
               row == RowWritten(w)
           IN /\ row.status # "none"
              /\ w.op = "delete" => row.status = "gone"
              /\ w.op # "delete" => row.status \in Living
              /\ w.op \in {"create", "regenerate"} => row.key = latest[w.on]
              /\ w.op = "status" => row.key = project[w.on].key
              /\ row.key <= minted
<1> DEFINE w == work[m]
<1>1. WorkSound(m) /\ w \in WorkOf /\ project \in [ProjectIds -> ProjectRow]
      /\ minted \in Nat /\ project[w.on].key <= minted
  BY DEF ProjectInv, ProjectTypeOK, WorkOf
<1>2. w.op \in {"create", "status", "regenerate", "delete"} /\ w.on \in ProjectIds
      /\ w.mine \in ProjectRow /\ w.read \in ProjectRow
  BY <1>1 DEF WorkOf
<1>3. w.mine.key \in Nat /\ w.read.key \in Nat
  BY <1>2 DEF ProjectRow
<1>4. CASE w.op \in {"create", "delete"}
  BY <1>1, <1>4 DEF RowWritten, WorkSound, Living
<1>5. CASE w.op = "status"
  BY <1>1, <1>5 DEF RowWritten, WorkSound, Living, Flushed, Lives
<1>6. CASE w.op = "regenerate"
  <2>1. w.mine.key # w.read.key /\ latest[w.on] = w.mine.key /\ w.mine.key <= minted
        /\ w.mine.status \in Living /\ Lives(w.on)
    BY <1>1, <1>3, <1>6 DEF WorkSound
  <2> QED
    BY <1>1, <1>6, <2>1 DEF RowWritten, Living, Flushed, Lives
<1> QED
  BY <1>2, <1>4, <1>5, <1>6

LEMMA CommitKeepsInv ==
    ASSUME ProjectInv, NEW m \in Managers, CommitWork(m), ProjectTypeOK'
    PROVE  ProjectInv'
<1> DEFINE w == work[m]
           p == work[m].on
           row == RowWritten(work[m])
<1>1. /\ w.stage = "flushed" /\ p \in ProjectIds
      /\ w.op \in {"create", "status", "regenerate", "delete"}
      /\ project' = [project EXCEPT ![p] = row]
      /\ work' = [work EXCEPT ![m] = NoWork]
      /\ UNCHANGED <<latest, undone, feed, minted>>
      /\ work \in [Managers -> WorkOf] /\ project \in [ProjectIds -> ProjectRow]
      /\ feed \in [Feeds -> FeedOf]
  BY DEF CommitWork, ProjectInv, ProjectTypeOK, WorkOf
<1>2. /\ row.status # "none"
      /\ w.op = "delete" => row.status = "gone"
      /\ w.op # "delete" => row.status \in Living
      /\ w.op \in {"create", "regenerate"} => row.key = latest[p]
      /\ w.op = "status" => row.key = project[p].key
      /\ row.key <= minted
  BY <1>1, RowAfterCommit
<1>3. WorkSound(m) /\ HeldBy(m, p)
  BY <1>1 DEF ProjectInv, HeldBy
<1>4. \A n \in Managers : n # m /\ work[n].stage = "flushed" => work[n].on # p
  BY <1>1, <1>3 DEF ProjectInv, OneHolder, HeldBy
<1>5. /\ project'[p] = row
      /\ \A q \in ProjectIds : q # p => project'[q] = project[q]
      /\ work'[m] = NoWork
      /\ \A n \in Managers : n # m => work'[n] = work[n]
  BY <1>1
<1> HIDE DEF row
<1>6. \A n \in Managers : WorkSound(n)'
  <2> SUFFICES ASSUME NEW n \in Managers PROVE WorkSound(n)'
    OBVIOUS
  <2>1. CASE n = m
    <3>1. 0 <= minted
      BY DEF ProjectInv, ProjectTypeOK
    <3>2. NoWork.stage = "idle" /\ NoWork.op = "status" /\ NoWork.mine.key = 0
      BY DEF NoWork, Unmade
    <3> QED
      BY <1>1, <1>5, <2>1, <3>1, <3>2 DEF WorkSound
  <2>2. CASE n # m
    <3>1. work'[n] = work[n] /\ WorkSound(n) /\ work[n].on \in ProjectIds
      BY <1>1, <1>5, <2>2 DEF ProjectInv, WorkOf
    <3>2. work[n].on # p => WorkSound(n)'
      BY <1>1, <1>5, <3>1 DEF WorkSound, Lives
    <3>3. work[n].on = p => WorkSound(n)'
      BY <1>1, <1>2, <1>4, <1>5, <2>2, <3>1 DEF WorkSound
    <3> QED
      BY <3>2, <3>3
  <2> QED
    BY <2>1, <2>2
<1>7. \A n \in Managers, q \in ProjectIds : HeldBy(n, q)' => HeldBy(n, q) /\ n # m
  <2>1. NoWork.stage = "idle"
    BY DEF NoWork
  <2> QED
    BY <1>5, <2>1 DEF HeldBy
<1>8. OneHolder'
  BY <1>7 DEF ProjectInv, OneHolder
<1>9. \A f \in Feeds : FeedSound(f)'
  <2> SUFFICES ASSUME NEW f \in Feeds, feed[f].stage = "inserted"
               PROVE  Lives(feed[f].on)' /\ ~ClosedTo(feed[f].on)'
    BY <1>1 DEF FeedSound
  <2>1. Lives(feed[f].on) /\ ~ClosedTo(feed[f].on) /\ feed[f].on \in ProjectIds
    BY <1>1 DEF ProjectInv, FeedSound, FeedOf
  <2>2. ~ClosedTo(feed[f].on)'
    BY <1>1, <1>5, <1>7, <2>1 DEF ClosedTo
  <2>3. feed[f].on = p => w.op # "delete"
    BY <1>3, <2>1 DEF ClosedTo
  <2>4. Lives(feed[f].on)'
    BY <1>1, <1>2, <1>5, <2>1, <2>3 DEF Lives, Living
  <2> QED
    BY <2>2, <2>4
<1>10. \A q \in ProjectIds : project'[q].key <= minted'
  BY <1>1, <1>2, <1>5 DEF ProjectInv
<1>11. LastKeyWorks'
  <2> SUFFICES ASSUME NEW q \in ProjectIds, Lives(q)'
               PROVE  \/ latest[q] = project'[q].key
                      \/ undone[q]
                      \/ \E n \in Managers : /\ HeldBy(n, q)'
                                             /\ work'[n].op = "regenerate"
                                             /\ work'[n].mine.key = latest[q]
    BY <1>1 DEF LastKeyWorks
  <2>1. Lives(q) => \/ latest[q] = project[q].key
                    \/ undone[q]
                    \/ \E n \in Managers : /\ HeldBy(n, q)
                                           /\ work[n].op = "regenerate"
                                           /\ work[n].mine.key = latest[q]
    BY DEF ProjectInv, ProjectsAreSound, LastKeyWorks
  <2>2. CASE q # p
    <3>1. \A n \in Managers : HeldBy(n, q) => n # m /\ work'[n] = work[n]
      BY <1>5, <2>2 DEF HeldBy
    <3>2. \A n \in Managers : HeldBy(n, q) => HeldBy(n, q)'
      BY <3>1 DEF HeldBy
    <3> QED
      BY <1>5, <2>1, <2>2, <3>1, <3>2 DEF Lives
  <2>3. CASE q = p /\ w.op \in {"create", "regenerate"}
    BY <1>2, <1>5, <2>3
  <2>4. CASE q = p /\ w.op = "status"
    <3>1. Lives(p)
      BY <1>1, <1>3, <2>4 DEF WorkSound, Lives
    <3>2. \A n \in Managers : HeldBy(n, p) => n = m
      BY <1>1, <1>3 DEF ProjectInv, OneHolder
    <3> QED
      BY <1>2, <1>5, <2>1, <2>4, <3>1, <3>2
  <2>5. CASE q = p /\ w.op = "delete"
    BY <1>2, <1>5, <2>5 DEF Lives
  <2> QED
    BY <1>1, <2>2, <2>3, <2>4, <2>5
<1>12. IncidentsHaveProjects'
  <2> SUFFICES ASSUME NEW i \in Cases, origin'[i] \in ProjectIds
               PROVE  project'[origin'[i]].status \in Living
    BY DEF IncidentsHaveProjects, Lives, Living
  <2>1. origin'[i] = OriginAfter(w, i)
    BY DEF CommitWork
  <2>2. origin'[i] = origin[i] /\ (w.op # "delete" \/ origin[i] # p)
    BY <2>1, ProjectNames DEF OriginAfter
  <2>3. Lives(origin[i])
    BY <2>2 DEF ProjectInv, ProjectsAreSound, IncidentsHaveProjects
  <2> QED
    BY <1>1, <1>2, <1>5, <2>2, <2>3 DEF Lives, Living
<1> QED
  BY <1>6, <1>8, <1>9, <1>10, <1>11, <1>12 DEF ProjectInv, ProjectsAreSound

LEMMA FailKeepsInv ==
    ASSUME ProjectInv, NEW m \in Managers, FailWork(m), ProjectTypeOK'
    PROVE  ProjectInv'
<1>1. /\ work' = [work EXCEPT ![m] = NoWork] /\ work[m].on \in ProjectIds
      /\ undone' = IF work[m].stage = "flushed" /\ work[m].op \in {"create", "regenerate"}
                   THEN [undone EXCEPT ![work[m].on] = TRUE] ELSE undone
      /\ UNCHANGED <<project, origin, latest, feed, minted>>
      /\ work \in [Managers -> WorkOf] /\ undone \in [ProjectIds -> BOOLEAN]
      /\ minted \in Nat
  BY DEF FailWork, ProjectInv, ProjectTypeOK, WorkOf
<1>2. /\ NoWork.stage = "idle" /\ NoWork.op = "status" /\ NoWork.mine.key = 0
      /\ work'[m] = NoWork /\ \A n \in Managers : n # m => work'[n] = work[n]
  BY <1>1 DEF NoWork, Unmade
<1>3. \A n \in Managers : WorkSound(n)'
  BY <1>1, <1>2 DEF ProjectInv, WorkSound, Lives
<1>4. \A n \in Managers, q \in ProjectIds : HeldBy(n, q)' <=> HeldBy(n, q) /\ n # m
  BY <1>2 DEF HeldBy
<1>5. OneHolder'
  BY <1>4 DEF ProjectInv, OneHolder
<1>6. \A f \in Feeds : FeedSound(f)'
  <2> SUFFICES ASSUME NEW f \in Feeds, feed[f].stage = "inserted"
               PROVE  Lives(feed[f].on)' /\ ~ClosedTo(feed[f].on)'
    BY <1>1 DEF FeedSound
  <2>1. Lives(feed[f].on) /\ ~ClosedTo(feed[f].on)
    BY DEF ProjectInv, FeedSound
  <2> QED
    BY <1>1, <1>2, <2>1 DEF ClosedTo, HeldBy, Lives
<1>7. LastKeyWorks'
  <2> SUFFICES ASSUME NEW q \in ProjectIds, Lives(q)
               PROVE  \/ latest[q] = project[q].key
                      \/ undone'[q]
                      \/ \E n \in Managers : /\ HeldBy(n, q)'
                                             /\ work'[n].op = "regenerate"
                                             /\ work'[n].mine.key = latest[q]
    BY <1>1 DEF LastKeyWorks, Lives
  <2>1. \/ latest[q] = project[q].key
        \/ undone[q]
        \/ \E n \in Managers : /\ HeldBy(n, q)
                               /\ work[n].op = "regenerate"
                               /\ work[n].mine.key = latest[q]
    BY DEF ProjectInv, ProjectsAreSound, LastKeyWorks
  <2>2. undone[q] => undone'[q]
    BY <1>1
  <2>3. HeldBy(m, q) /\ work[m].op = "regenerate" => undone'[q]
    BY <1>1 DEF HeldBy
  <2> QED
    BY <1>2, <1>4, <2>1, <2>2, <2>3
<1>8. IncidentsHaveProjects'
  BY <1>1 DEF ProjectInv, ProjectsAreSound, IncidentsHaveProjects, Lives
<1> QED
  BY <1>1, <1>3, <1>5, <1>6, <1>7, <1>8 DEF ProjectInv, ProjectsAreSound

LEMMA FeedKeepsInv ==
    ASSUME ProjectInv, NEW f \in Feeds, Ingest(f), ProjectTypeOK'
    PROVE  ProjectInv'
<1>1. UNCHANGED <<project, latest, undone, work, minted>>
  BY DEF Ingest, Resolve, IngestEvent, CommitFeed, FailFeed
<1>2. (\A m \in Managers : WorkSound(m)') /\ OneHolder'
      /\ \A p \in ProjectIds : project'[p].key <= minted'
  BY <1>1 DEF ProjectInv, WorkSound, Lives, OneHolder, HeldBy
<1>3. LastKeyWorks'
  BY <1>1 DEF ProjectInv, ProjectsAreSound, LastKeyWorks, Lives, HeldBy
<1>4. \A p \in ProjectIds : Lives(p)' = Lives(p) /\ ClosedTo(p)' = ClosedTo(p)
  BY <1>1 DEF Lives, ClosedTo, HeldBy
<1>5. feed \in [Feeds -> FeedOf] /\ feed' \in [Feeds -> FeedOf]
  BY DEF ProjectInv, ProjectTypeOK
<1>6. /\ \A g \in Feeds \ {f} : feed'[g] = feed[g]
      /\ \/ feed'[f].stage # "inserted"
         \/ /\ feed'[f].stage = "inserted" /\ feed'[f].on = feed[f].on
            /\ Lives(feed[f].on) /\ ~ClosedTo(feed[f].on)
  <2>1. ASSUME NEW p \in ProjectIds, Resolve(f, p)
        PROVE  /\ \A g \in Feeds \ {f} : feed'[g] = feed[g]
               /\ feed'[f].stage # "inserted"
    BY <1>5, <2>1 DEF Resolve, NoFeed
  <2>2. ASSUME NEW is \in SUBSET Cases, IngestEvent(f, is)
        PROVE  /\ \A g \in Feeds \ {f} : feed'[g] = feed[g]
               /\ feed'[f].stage = "inserted" /\ feed'[f].on = feed[f].on
               /\ Lives(feed[f].on) /\ ~ClosedTo(feed[f].on)
    BY <1>5, <2>2 DEF IngestEvent, FeedOf
  <2>3. CASE CommitFeed(f) \/ FailFeed(f)
    BY <1>5, <2>3 DEF CommitFeed, FailFeed, NoFeed
  <2> QED
    BY <2>1, <2>2, <2>3 DEF Ingest
<1>7. \A g \in Feeds : FeedSound(g)'
  <2> SUFFICES ASSUME NEW g \in Feeds, feed'[g].stage = "inserted"
               PROVE  (Lives(feed[g].on) /\ ~ClosedTo(feed[g].on))'
    BY DEF FeedSound
  <2>1. feed'[g].on \in ProjectIds
    BY <1>5 DEF FeedOf
  <2>2. Lives(feed'[g].on) /\ ~ClosedTo(feed'[g].on)
    BY <1>6 DEF ProjectInv, FeedSound
  <2> QED
    BY <1>1, <2>2 DEF Lives, ClosedTo, HeldBy
<1>8. IncidentsHaveProjects'
  <2> SUFFICES ASSUME NEW i \in Cases, origin'[i] \in ProjectIds
               PROVE  Lives(origin'[i])
    BY <1>4 DEF IncidentsHaveProjects
  <2>1. CASE CommitFeed(f)
    BY <2>1 DEF CommitFeed, ProjectInv, ProjectTypeOK, FeedSound, ProjectsAreSound,
                IncidentsHaveProjects
  <2>2. CASE ~CommitFeed(f)
    BY <2>2 DEF Ingest, Resolve, IngestEvent, FailFeed, ProjectInv,
                ProjectsAreSound, IncidentsHaveProjects
  <2> QED
    BY <2>1, <2>2
<1> QED
  BY <1>2, <1>3, <1>7, <1>8 DEF ProjectInv, ProjectsAreSound

(* However rotations, archivals, deletions and ingestion overlap, the key  *)
(* that was handed out last is the one the project has, unless its commit  *)
(* failed, and no incident refers to a project that is gone                *)
(* (ProjectService, get_project_from_api_key, _ingest_single).             *)
THEOREM ProjectsCorrect == ProjectSpec => []ProjectsAreSound
<1>1. ProjectInit /\ ProjectTypeOK => ProjectInv
  <2> SUFFICES ASSUME ProjectInit, ProjectTypeOK PROVE ProjectInv
    OBVIOUS
  <2>1. \A m \in Managers : WorkSound(m)
    BY DEF ProjectInit, WorkSound, NoWork, Unmade
  <2>2. OneHolder /\ \A f \in Feeds : FeedSound(f)
    BY DEF ProjectInit, OneHolder, HeldBy, FeedSound, NoWork, NoFeed
  <2>3. \A p \in ProjectIds : project[p].key <= minted
    BY DEF ProjectInit, Unmade
  <2>4. ProjectsAreSound
    BY ProjectNames
    DEF ProjectInit, ProjectsAreSound, LastKeyWorks, IncidentsHaveProjects, Lives, Unmade
  <2> QED
    BY <2>1, <2>2, <2>3, <2>4 DEF ProjectInv
<1>2. ProjectInv /\ ProjectTypeOK' /\ [ProjectNext]_projectVars => ProjectInv'
  <2> SUFFICES ASSUME ProjectInv, ProjectTypeOK', [ProjectNext]_projectVars
               PROVE  ProjectInv'
    OBVIOUS
  <2>1. ASSUME NEW m \in Managers, NEW p \in ProjectIds,
               NEW st \in {"active", "archived"}, ChangeStatus(m, p, st)
        PROVE  ProjectInv'
    <3>1. project[p] \in ProjectRow /\ project[p].key <= minted + 1
      BY DEF ProjectInv, ProjectTypeOK, ProjectRow
    <3> DEFINE row == [project[p] EXCEPT !.status = st]
    <3>2. row \in ProjectRow /\ row.key = project[p].key /\ row.status = st
      BY <3>1 DEF ProjectRow
    <3>3. Read(m, "status", p, row) /\ row.status \in Living /\ row.key <= minted + 1
      BY <2>1, <3>1, <3>2 DEF ChangeStatus, Living
    <3> HIDE DEF row
    <3> QED
      BY <3>2, <3>3, ReadKeepsInv
  <2>2. ASSUME NEW m \in Managers, NEW p \in ProjectIds, Regenerate(m, p)
        PROVE  ProjectInv'
    <3>1. project[p] \in ProjectRow /\ project[p].key <= minted /\ minted \in Nat
      BY DEF ProjectInv, ProjectTypeOK
    <3> DEFINE row == [project[p] EXCEPT !.key = minted + 1]
    <3>2. /\ row \in ProjectRow
          /\ row.key = minted + 1 /\ row.status = project[p].status
      BY <3>1 DEF ProjectRow
    <3>3. row.status \in Living /\ project[p].key < row.key
      BY <2>2, <3>1, <3>2 DEF Regenerate, Read, Lives, Living, ProjectRow
    <3>4. Read(m, "regenerate", p, row) /\ row.key <= minted + 1
      BY <2>2, <3>1, <3>2 DEF Regenerate
    <3> HIDE DEF row
    <3> QED
      BY <3>2, <3>3, <3>4, ReadKeepsInv
  <2>3. ASSUME NEW m \in Managers, NEW p \in ProjectIds, DeleteProject(m, p)
        PROVE  ProjectInv'
    <3>1. [status |-> "gone", key |-> 0] \in ProjectRow /\ 0 <= minted + 1
      BY DEF ProjectRow, ProjectInv, ProjectTypeOK
    <3> QED
      BY <2>3, <3>1, ReadKeepsInv DEF DeleteProject
  <2>4. CASE UNCHANGED projectVars
    BY <2>4 DEF projectVars, ProjectInv, WorkSound, OneHolder, HeldBy, FeedSound,
                Lives, ClosedTo, ProjectsAreSound, LastKeyWorks, IncidentsHaveProjects
  <2> QED
    BY <2>1, <2>2, <2>3, <2>4, CreateKeepsInv, FlushKeepsInv, CommitKeepsInv,
       FailKeepsInv, FeedKeepsInv
    DEF ProjectNext, Manage
<1>3. QED
  BY <1>1, <1>2, ProjectTypeCorrect, PTL DEF ProjectSpec, ProjectInv

-----------------------------------------------------------------------------
(* Accounts: types. *)

LEMMA NoAccountType == NoAccount \in Accounts /\ Gone \in Accounts
  BY DEF NoAccount, Gone, Fresh, Accounts

LEMMA FreshType == \A r \in Roles : Fresh(r) \in Accounts
  BY DEF Fresh, Accounts

LEMMA NoSessionType == NoSession \in SessionsOf
  BY AccountLimits, NoAccountType DEF NoSession, SessionsOf

LEMMA WrittenType ==
    ASSUME AccountTypeOK, NEW x \in SessionsOf
    PROVE  Written(x) \in Accounts
<1>1. /\ account[x.target] \in Accounts /\ x.mine \in Accounts
      /\ x.read \in Accounts
  BY DEF AccountTypeOK, SessionsOf
<1>2. CASE x.op \in {"create", "enroll", "remove", "erase"} \/ ~Exists(account[x.target])
  BY <1>1, <1>2 DEF Written
<1>3. CASE x.op \notin {"create", "enroll", "remove", "erase"} /\ Exists(account[x.target])
  BY <1>1, <1>3 DEF Written, Accounts, Flushed
<1> QED
  BY <1>2, <1>3

LEMMA EnterType ==
    ASSUME AccountTypeOK, NEW s \in Sessions, NEW a \in People, NEW u \in People,
           NEW op \in Managing \cup Platform \cup {"rotate"}, NEW mine \in Accounts,
           Enter(s, op, a, u, mine)
    PROVE  AccountTypeOK'
<1>1. [op |-> op, actor |-> a, target |-> u, authority |-> account[a],
       read |-> account[u], mine |-> mine] \in SessionsOf
  BY DEF AccountTypeOK, SessionsOf
<1>2. session' \in [Sessions -> SessionsOf]
  BY <1>1 DEF Enter, AccountTypeOK
<1> QED
  BY <1>2 DEF Enter, AccountTypeOK, Asked, tokens

(* A request of an administrator enters with a row it has made of what it  *)
(* read.                                                                   *)
AdministerEnters(s, a) ==
    \E op \in Managing \cup Platform \cup {"rotate"}, u \in People,
       mine \in Accounts :
          /\ Enter(s, op, a, u, mine)
          /\ RefusalsLeaveNoTrace => mine.failed = 0 /\ ~mine.locked
          /\ op \in {"remove", "erase"} => mine = Gone
          /\ op \in {"disable", "reset", "rotate"} => mine.role = account[u].role
          /\ op \in {"reset", "rotate"} => mine.active = account[u].active
          /\ op \in {"disable", "erase"} => u # a

LEMMA AdministerShape ==
    ASSUME AccountTypeOK, NEW s \in Sessions, NEW a \in People, Administer(s, a)
    PROVE  AdministerEnters(s, a)
<1> USE DEF AdministerEnters, Managing, Platform
<1>1. ASSUME NEW u \in People, NEW r \in Roles,
             Create(s, a, u, r) \/ Enroll(s, a, u, r)
      PROVE  AdministerEnters(s, a)
  <2>1. /\ Fresh(r) \in Accounts /\ Fresh(r).failed = 0 /\ ~Fresh(r).locked
    BY FreshType DEF Fresh
  <2> QED
    BY <1>1, <2>1 DEF Create, Enroll
<1>2. ASSUME NEW u \in People, NEW row \in Accounts,
             NEW op \in {"rerole", "update", "disable", "reset", "rotate"},
             op \in {"disable", "reset", "rotate"} => row.role = account[u].role,
             op \in {"reset", "rotate"} => row.active = account[u].active,
             op = "disable" => u # a,
             RefusalsLeaveNoTrace => row.failed = 0 /\ ~row.locked,
             Enter(s, op, a, u, row)
      PROVE  AdministerEnters(s, a)
  BY <1>2
<1>3. \A u \in People :
         /\ account[u] \in Accounts
         /\ RefusalsLeaveNoTrace => account[u].failed = 0 /\ ~account[u].locked
  BY DEF AccountTypeOK, RefusalsLeaveNoTrace
<1>4. ASSUME NEW u \in People, NEW r \in Roles, Rerole(s, a, u, r)
      PROVE  AdministerEnters(s, a)
  <2> DEFINE row == [account[u] EXCEPT !.role = r]
  <2>1. /\ row \in Accounts /\ row.failed = account[u].failed
        /\ row.locked = account[u].locked
    BY <1>3 DEF Accounts
  <2>2. Enter(s, "rerole", a, u, row)
    BY <1>4 DEF Rerole
  <2> HIDE DEF row
  <2> QED
    BY <1>2, <1>3, <2>1, <2>2
<1>5. ASSUME NEW u \in People, NEW r \in Roles, NEW b \in BOOLEAN,
             Update(s, a, u, r, b)
      PROVE  AdministerEnters(s, a)
  <2> DEFINE row == [account[u] EXCEPT !.role = r, !.active = b]
  <2>1. /\ row \in Accounts /\ row.failed = account[u].failed
        /\ row.locked = account[u].locked
    BY <1>3 DEF Accounts
  <2>2. Enter(s, "update", a, u, row)
    BY <1>5 DEF Update
  <2> HIDE DEF row
  <2> QED
    BY <1>2, <1>3, <2>1, <2>2
<1>6. ASSUME NEW u \in People, DeleteUser(s, a, u) \/ Erase(s, a, u)
      PROVE  AdministerEnters(s, a)
  <2>1. Gone \in Accounts /\ Gone.failed = 0 /\ ~Gone.locked
    BY NoAccountType DEF Gone, Fresh
  <2> QED
    BY <1>6, <2>1 DEF DeleteUser, Erase
<1>7. ASSUME NEW u \in People, Disable(s, a, u)
      PROVE  AdministerEnters(s, a)
  <2> DEFINE row == [account[u] EXCEPT !.active = FALSE]
  <2>1. /\ row \in Accounts /\ row.failed = account[u].failed
        /\ row.locked = account[u].locked /\ row.role = account[u].role
    BY <1>3 DEF Accounts
  <2>2. Enter(s, "disable", a, u, row) /\ u # a
    BY <1>7 DEF Disable
  <2> HIDE DEF row
  <2> QED
    BY <1>2, <1>3, <2>1, <2>2
<1>8. ASSUME NEW u \in People, Reset(s, a, u)
      PROVE  AdministerEnters(s, a)
  <2> DEFINE row == [account[u] EXCEPT !.failed = 0, !.locked = FALSE]
  <2>1. /\ row \in Accounts /\ row.failed = 0 /\ ~row.locked
        /\ row.role = account[u].role /\ row.active = account[u].active
    BY <1>3 DEF Accounts
  <2>2. Enter(s, "reset", a, u, row)
    BY <1>8 DEF Reset
  <2> HIDE DEF row
  <2> QED
    BY <1>2, <2>1, <2>2
<1>9. CASE Rotate(s, a)
  <2> DEFINE row == [account[a] EXCEPT !.key = requests + 1]
  <2>1. requests + 1 \in Nat
    BY DEF AccountTypeOK
  <2>2. /\ row \in Accounts /\ row.failed = account[a].failed
        /\ row.locked = account[a].locked /\ row.role = account[a].role
        /\ row.active = account[a].active
    BY <1>3, <2>1 DEF Accounts
  <2>3. Enter(s, "rotate", a, a, row)
    BY <1>9 DEF Rotate
  <2> HIDE DEF row
  <2> QED
    BY <1>2, <1>3, <2>2, <2>3
<1> QED
  BY <1>1, <1>4, <1>5, <1>6, <1>7, <1>8, <1>9 DEF Administer

(* Every reachable state of the accounts is well typed.                    *)
THEOREM AccountTypeCorrect == AccountSpec => []AccountTypeOK
<1>1. AccountInit => AccountTypeOK
  <2> SUFFICES ASSUME AccountInit PROVE AccountTypeOK
    OBVIOUS
  <2>1. PICK f \in Founders :
           account = [u \in People |-> IF f[u] = "none" THEN NoAccount ELSE Fresh(f[u])]
    BY DEF AccountInit
  <2>2. \A u \in People : f[u] \in Roles \cup {"none"}
    BY <2>1, FoundersReign
  <2>3. account \in [People -> Accounts]
    BY <2>1, <2>2, NoAccountType, FreshType
  <2>4. bearer \in [People -> Nat] /\ refreshable \subseteq People
        /\ named \in [People -> [Roles -> Nat]]
    BY DEF AccountInit
  <2> QED
    BY <2>3, <2>4, NoSessionType DEF AccountInit, AccountTypeOK
<1>2. AccountTypeOK /\ [AccountNext]_accountVars => AccountTypeOK'
  <2> SUFFICES ASSUME AccountTypeOK, [AccountNext]_accountVars PROVE AccountTypeOK'
    OBVIOUS
  <2>1. ASSUME NEW u \in People, SignOn(u) PROVE AccountTypeOK'
    <3>1. account[u] \in Accounts /\ bearer[u] \in Nat /\ "analyst" \in Roles
      BY DEF AccountTypeOK, Roles
    <3>2. CASE Register(u)
      BY <3>1, <3>2, FreshType DEF Register, AccountTypeOK, Asked, Issue
    <3>3. CASE Login(u)
      <4>1. [account[u] EXCEPT !.failed = 0, !.locked = FALSE] \in Accounts
        BY <3>1 DEF Accounts
      <4>2. account' \in [People -> Accounts]
        BY <3>3, <4>1 DEF Login, AccountTypeOK
      <4> QED
        BY <3>1, <3>3, <4>2 DEF Login, AccountTypeOK, Asked, Issue
    <3>4. CASE LoginFails(u)
      BY <3>1, <3>4 DEF LoginFails, AccountTypeOK, Asked, AfterException, tokens
    <3>5. CASE Refresh(u) \/ Logout(u) \/ Expire(u)
      BY <3>1, <3>5
      DEF Refresh, Logout, Expire, AccountTypeOK, Asked, Issue
    <3>6. ASSUME NEW op, Deny(u, op) PROVE AccountTypeOK'
      BY <3>6 DEF Deny, AccountTypeOK, Asked, AfterException, tokens
    <3> QED
      BY <2>1, <3>2, <3>3, <3>4, <3>5, <3>6 DEF SignOn
  <2>2. ASSUME NEW s \in Sessions, NEW a \in People, Administer(s, a)
        PROVE  AccountTypeOK'
    BY <2>2, AdministerShape, EnterType DEF AdministerEnters
  <2>3. ASSUME NEW s \in Sessions, CommitSession(s) PROVE AccountTypeOK'
    <3> DEFINE x == session[s]
    <3>1. x \in SessionsOf /\ x.target \in People /\ x.mine \in Accounts
      BY DEF AccountTypeOK, SessionsOf
    <3>2. account' \in [People -> Accounts]
      BY <2>3, <3>1, WrittenType DEF CommitSession, AccountTypeOK
    <3>3. named' \in [People -> [Roles -> Nat]]
      <4>1. named[x.target] \in [Roles -> Nat]
        BY <3>1 DEF AccountTypeOK
      <4>2. [named[x.target] EXCEPT ![x.mine.role] = @ + 1] \in [Roles -> Nat]
        <5>1. CASE x.mine.role \in Roles
          BY <4>1, <5>1
        <5>2. CASE x.mine.role \notin Roles
          BY <4>1, <5>2
        <5> QED
          BY <5>1, <5>2
      <4>3. named' = IF Audited(x)
                     THEN [named EXCEPT ![x.target] =
                              [named[x.target] EXCEPT ![x.mine.role] = @ + 1]]
                     ELSE named
        BY <2>3 DEF CommitSession
      <4> QED
        BY <3>1, <4>2, <4>3 DEF AccountTypeOK
    <3> QED
      BY <2>3, <3>2, <3>3, NoSessionType DEF CommitSession, AccountTypeOK, tokens
  <2>4. ASSUME NEW s \in Sessions, FailSession(s) PROVE AccountTypeOK'
    BY <2>4, NoSessionType DEF FailSession, AccountTypeOK, tokens
  <2>5. CASE UNCHANGED accountVars
    BY <2>5 DEF accountVars, AccountTypeOK
  <2> QED
    BY <2>1, <2>2, <2>3, <2>4, <2>5 DEF AccountNext
<1>3. QED
  BY <1>1, <1>2, PTL DEF AccountSpec

-----------------------------------------------------------------------------
(* Accounts: refusals and audit rows. *)

SessionSound(s) ==
    LET x == session[s]
    IN /\ x.mine.failed = 0 /\ ~x.mine.locked
       /\ x.op \in {"remove", "erase"} => x.mine = Gone
       /\ x.op \in {"disable", "reset", "rotate"} => x.mine.role = x.read.role
       /\ x.op \in {"reset", "rotate"} => x.mine.active = x.read.active
       /\ x.op \in {"disable", "erase"} =>
             x.target # x.actor /\ Reigns(x.authority)

AccountInv ==
    /\ AccountTypeOK
    /\ RefusalsLeaveNoTrace
    /\ \A s \in Sessions : SessionSound(s)

LEMMA NoSessionSound ==
    /\ NoSession.op = "none"
    /\ NoSession.mine.failed = 0 /\ ~NoSession.mine.locked
  BY DEF NoSession, NoAccount, Fresh

LEMMA AccountStep ==
    ASSUME AccountInv, AccountTypeOK', [AccountNext]_accountVars
    PROVE  AccountInv'
<1> USE DEF AccountInv
<1>1. ASSUME NEW u \in People, SignOn(u) PROVE AccountInv'
  <2>1. UNCHANGED session
    BY <1>1 DEF SignOn, Register, Login, LoginFails, Refresh, Logout, Expire, Deny
  <2>2. \A s \in Sessions : SessionSound(s)'
    BY <2>1 DEF SessionSound
  <2>3. \A v \in People : account[v] \in Accounts /\ account[v].failed = 0
                          /\ ~account[v].locked
    BY DEF AccountTypeOK, RefusalsLeaveNoTrace
  <2>4. CASE Register(u)
    <3>1. Fresh("analyst").failed = 0 /\ ~Fresh("analyst").locked
      BY DEF Fresh
    <3> QED
      BY <2>2, <2>4, <3>1 DEF Register, RefusalsLeaveNoTrace, AccountTypeOK
  <2>5. CASE Login(u)
    <3>1. account' = [account EXCEPT ![u] = [@ EXCEPT !.failed = 0, !.locked = FALSE]]
      BY <2>5 DEF Login
    <3>2. account'[u].failed = 0 /\ ~account'[u].locked
      BY <2>3, <3>1 DEF AccountTypeOK, Accounts
    <3> QED
      BY <2>2, <2>5, <3>1, <3>2 DEF Login, RefusalsLeaveNoTrace, AccountTypeOK
  <2>6. CASE LoginFails(u)
    BY <2>2, <2>6 DEF LoginFails, AfterException, RefusalsLeaveNoTrace, AccountTypeOK
  <2>7. CASE Refresh(u) \/ Logout(u) \/ Expire(u)
    BY <2>2, <2>7 DEF Refresh, Logout, Expire, RefusalsLeaveNoTrace
  <2>8. ASSUME NEW op, Deny(u, op) PROVE AccountInv'
    BY <2>2, <2>8 DEF Deny, AfterException, RefusalsLeaveNoTrace
  <2> QED
    BY <1>1, <2>4, <2>5, <2>6, <2>7, <2>8 DEF SignOn
<1>2. ASSUME NEW s \in Sessions, NEW a \in People, Administer(s, a)
      PROVE  AccountInv'
  <2>1. PICK op \in Managing \cup Platform \cup {"rotate"}, u \in People,
             mine \in Accounts :
          /\ Enter(s, op, a, u, mine)
          /\ mine.failed = 0 /\ ~mine.locked
          /\ op \in {"remove", "erase"} => mine = Gone
          /\ op \in {"disable", "reset", "rotate"} => mine.role = account[u].role
          /\ op \in {"reset", "rotate"} => mine.active = account[u].active
          /\ op \in {"disable", "erase"} => u # a
    BY <1>2, AdministerShape DEF AdministerEnters
  <2>2. /\ session' = [session EXCEPT ![s] =
                        [op |-> op, actor |-> a, target |-> u,
                         authority |-> account[a], read |-> account[u],
                         mine |-> mine]]
        /\ UNCHANGED <<account, deniedRows>>
        /\ account[a].active
        /\ op # "rotate" => Allowed(account[a].role, Demand(op))
    BY <2>1 DEF Enter, Authenticates
  <2>3. op \in {"disable", "erase"} => Reigns(account[a])
    BY <2>2 DEF Demand, Managing, Allowed, Reigns
  <2>4. \A t \in Sessions : SessionSound(t)'
    BY <2>1, <2>2, <2>3 DEF SessionSound, AccountTypeOK
  <2> QED
    BY <2>2, <2>4 DEF RefusalsLeaveNoTrace
<1>3. ASSUME NEW s \in Sessions, CommitSession(s) PROVE AccountInv'
  <2> DEFINE x == session[s]
  <2>1. x \in SessionsOf /\ x.target \in People /\ x.mine.failed = 0 /\ ~x.mine.locked
    BY DEF AccountTypeOK, SessionsOf, SessionSound
  <2>2. account[x.target].failed = 0 /\ ~account[x.target].locked
    BY <2>1 DEF RefusalsLeaveNoTrace
  <2>3. Written(x).failed = 0 /\ ~Written(x).locked
    BY <2>1, <2>2 DEF Written, Flushed
  <2>4. RefusalsLeaveNoTrace'
    BY <1>3, <2>1, <2>3 DEF CommitSession, RefusalsLeaveNoTrace, AccountTypeOK
  <2>5. session' = [session EXCEPT ![s] = NoSession]
    BY <1>3 DEF CommitSession
  <2> QED
    BY <2>4, <2>5, NoSessionSound DEF SessionSound, AccountTypeOK
<1>4. ASSUME NEW s \in Sessions, FailSession(s) PROVE AccountInv'
  BY <1>4, NoSessionSound
  DEF FailSession, RefusalsLeaveNoTrace, SessionSound, AccountTypeOK
<1>5. CASE UNCHANGED accountVars
  BY <1>5 DEF accountVars, RefusalsLeaveNoTrace, SessionSound
<1> QED
  BY <1>1, <1>2, <1>3, <1>4, <1>5 DEF AccountNext

LEMMA AccountStart == AccountInit /\ AccountTypeOK => AccountInv
  <1> SUFFICES ASSUME AccountInit, AccountTypeOK PROVE AccountInv
    OBVIOUS
  <1>1. \A u \in People : account[u].failed = 0 /\ ~account[u].locked
    BY DEF AccountInit, NoAccount, Fresh
  <1>2. \A s \in Sessions : SessionSound(s)
    BY NoSessionSound DEF AccountInit, SessionSound
  <1> QED
    BY <1>1, <1>2 DEF AccountInit, AccountInv, RefusalsLeaveNoTrace

(* No count of failed sign-ons, no lock and no audit row of a 403 is ever  *)
(* stored: what is flushed before an exception is rolled back              *)
(* (AuthService.login, _audit_authz_failure, get_db).                      *)
THEOREM RefusalsAreForgotten == AccountSpec => []RefusalsLeaveNoTrace
<1>1. AccountInv /\ AccountTypeOK' /\ [AccountNext]_accountVars => AccountInv'
  BY AccountStep
<1>2. AccountInv => RefusalsLeaveNoTrace
  BY DEF AccountInv
<1>3. QED
  BY <1>1, <1>2, AccountStart, AccountTypeCorrect, PTL DEF AccountSpec

(* A role changes only with an audit row that names the new one, for every *)
(* number of people and of overlapping sessions (update_user,              *)
(* platform_change_user_role).                                             *)
THEOREM RoleChangesCorrect == AccountSpec => RoleChangesAreAudited
<1>1. AccountInv /\ [AccountNext]_accountVars =>
        [\A u \in People :
            Exists(account[u]) /\ Exists(account'[u])
              /\ account'[u].role # account[u].role =>
                  named'[u][account'[u].role] = named[u][account'[u].role] + 1]_accountVars
  <2> SUFFICES ASSUME AccountInv, AccountNext,
                      NEW u \in People, Exists(account[u]), Exists(account'[u]),
                      account'[u].role # account[u].role
               PROVE  named'[u][account'[u].role] = named[u][account'[u].role] + 1
    OBVIOUS
  <2>1. account \in [People -> Accounts] /\ named \in [People -> [Roles -> Nat]]
    BY DEF AccountInv, AccountTypeOK
  <2>2. ASSUME NEW v \in People, SignOn(v) PROVE FALSE
    <3>1. account' = account \/ Register(v) \/ Login(v)
      BY <2>1, <2>2
      DEF SignOn, LoginFails, AfterException, Refresh, Logout, Expire, Deny
    <3>2. ~Exists(NoAccount)
      BY DEF Exists, NoAccount, Fresh, Roles
    <3>3. CASE Register(v)
      BY <2>1, <3>2, <3>3 DEF Register
    <3>4. CASE Login(v)
      <4>1. account' = [account EXCEPT ![v] = [@ EXCEPT !.failed = 0, !.locked = FALSE]]
        BY <3>4 DEF Login
      <4>2. account'[v].role = account[v].role
        BY <2>1, <4>1 DEF Accounts
      <4> QED
        BY <2>1, <4>1, <4>2
    <3> QED
      BY <3>1, <3>3, <3>4
  <2>3. ASSUME NEW s \in Sessions, NEW a \in People, Administer(s, a) PROVE FALSE
    <3>1. AccountTypeOK
      BY DEF AccountInv
    <3> QED
      BY <2>3, <3>1, AdministerShape DEF AdministerEnters, Enter
  <2>4. ASSUME NEW s \in Sessions, FailSession(s) PROVE FALSE
    BY <2>4 DEF FailSession
  <2>5. ASSUME NEW s \in Sessions, CommitSession(s)
        PROVE  named'[u][account'[u].role] = named[u][account'[u].role] + 1
    <3> DEFINE x == session[s]
    <3>1. /\ x.target \in People /\ SessionSound(s)
          /\ x.op \in Managing \cup Platform \cup {"none", "rotate"}
      BY DEF AccountInv, AccountTypeOK, SessionsOf
    <3>2. /\ x.op # "none" /\ Succeeds(x)
          /\ account' = [account EXCEPT ![x.target] = Written(x)]
          /\ named' = IF Audited(x)
                      THEN [named EXCEPT ![x.target][x.mine.role] = @ + 1] ELSE named
      BY <2>5 DEF CommitSession
    <3>3. u = x.target /\ account'[u] = Written(x)
      BY <2>1, <3>1, <3>2
    <3>4. ~Exists(NoAccount) /\ ~Exists(Gone)
      BY DEF Exists, NoAccount, Gone, Fresh, Roles
    <3>5. x.op \notin {"create", "enroll", "remove", "erase"}
      BY <3>1, <3>2, <3>3, <3>4 DEF Succeeds, Written, SessionSound
    <3>6. /\ x.mine.role # x.read.role
          /\ account'[u].role = x.mine.role
      BY <3>3, <3>5 DEF Written, Flushed
    <3>7. x.op \in {"update", "rerole"}
      BY <3>1, <3>2, <3>5, <3>6 DEF SessionSound, Managing, Platform
    <3>8. Audited(x)
      BY <3>6, <3>7 DEF Audited
    <3>9. x.mine.role \in Roles
      BY <3>6 DEF Exists
    <3> QED
      BY <2>1, <3>2, <3>3, <3>6, <3>8, <3>9
  <2> QED
    BY <2>2, <2>3, <2>4, <2>5 DEF AccountNext
<1>2. AccountInv /\ AccountTypeOK' /\ [AccountNext]_accountVars => AccountInv'
  BY AccountStep
<1>3. QED
  BY <1>1, <1>2, AccountStart, AccountTypeCorrect, PTL
  DEF AccountSpec, RoleChangesAreAudited

-----------------------------------------------------------------------------
(* Accounts: the last super admin. *)

(* What a sign-on does to a row leaves whether its account reigns.         *)
LEMMA SignOnKeepsReign ==
    ASSUME AccountTypeOK, NEW v \in People, SignOn(v), NEW u \in People,
           Reigns(account[u])
    PROVE  Reigns(account'[u])
<1>1. account' = account \/ Register(v) \/ Login(v)
  BY DEF SignOn, LoginFails, AfterException, Refresh, Logout, Expire, Deny,
         AccountTypeOK
<1>2. CASE Register(v)
  <2>1. ~Reigns(NoAccount)
    BY DEF Reigns, IsSuperAdmin, NoAccount, Fresh
  <2>2. account[v] = NoAccount
    BY <1>2 DEF Register
  <2>3. u # v
    BY <2>1, <2>2
  <2> QED
    BY <1>2, <2>3 DEF Register, AccountTypeOK
<1>3. CASE Login(v)
  <2>1. account' = [account EXCEPT ![v] = [@ EXCEPT !.failed = 0, !.locked = FALSE]]
    BY <1>3 DEF Login
  <2>2. /\ account'[v].role = account[v].role
        /\ account'[v].active = account[v].active
    BY <2>1 DEF AccountTypeOK, Accounts
  <2>3. u # v => account'[u] = account[u]
    BY <2>1 DEF AccountTypeOK
  <2> QED
    BY <2>2, <2>3 DEF Reigns
<1> QED
  BY <1>1, <1>2, <1>3

(* Neither a new account nor a reset nor a rotated key ends a reign.       *)
LEMMA CommitKeepsReign ==
    ASSUME AccountInv, NEW s \in Sessions, CommitSession(s),
           session[s].op \in {"enroll", "reset", "rotate"},
           NEW u \in People, Reigns(account[u])
    PROVE  Reigns(account'[u])
<1> DEFINE x == session[s]
<1>1. /\ x.target \in People /\ SessionSound(s)
      /\ account \in [People -> Accounts]
      /\ account' = [account EXCEPT ![x.target] = Written(x)]
      /\ Succeeds(x)
  BY DEF AccountInv, AccountTypeOK, SessionsOf, CommitSession
<1>2. CASE u # x.target
  BY <1>1, <1>2
<1>3. CASE u = x.target /\ x.op = "enroll"
  BY <1>1, <1>3
  DEF Succeeds, Reigns, IsSuperAdmin, NoAccount, Fresh
<1>4. CASE u = x.target /\ x.op \in {"reset", "rotate"}
  <2>1. x.mine.role = x.read.role /\ x.mine.active = x.read.active
    BY <1>1, <1>4 DEF SessionSound
  <2>2. /\ Written(x).role = account[u].role
        /\ Written(x).active = account[u].active
    BY <1>4, <2>1 DEF Written, Flushed
  <2> QED
    BY <1>1, <1>4, <2>2 DEF Reigns
<1> QED
  BY <1>2, <1>3, <1>4

(* The last super admin goes only by a request that manages users or roles *)
(* or whose actor has changed since they were authenticated, for every      *)
(* number of people and of overlapping sessions (platform_disable_user,     *)
(* platform_delete_user).                                                   *)
THEOREM DismissalsNeedAChange == AccountSpec => LastSuperAdminIsNotDismissed
<1> DEFINE Dismissed ==
      \E s \in Sessions :
         LET x == session[s]
         IN /\ x.op # "none" /\ session'[s] = NoSession
            /\ \/ x.op \in Managing \cup {"rerole"}
               \/ account[x.actor] # x.authority
<1>1. AccountInv /\ [AccountNext]_accountVars =>
        [SomeoneReigns /\ ~SomeoneReigns' => Dismissed]_accountVars
  <2> SUFFICES ASSUME AccountInv, AccountNext,
                      NEW u \in People, Reigns(account[u]), ~SomeoneReigns'
               PROVE  Dismissed
    BY DEF SomeoneReigns
  <2>a. AccountTypeOK /\ \A v \in People : ~Reigns(account'[v])
    BY DEF AccountInv, SomeoneReigns
  <2>1. ~\E v \in People : SignOn(v)
    BY <2>a, SignOnKeepsReign
  <2>2. account' # account
    BY <2>a
  <2>3. PICK s \in Sessions : CommitSession(s)
    BY <2>a, <2>1, <2>2, AdministerShape
    DEF AccountNext, AdministerEnters, Enter, FailSession
  <2> DEFINE x == session[s]
  <2>4. /\ x.op # "none" /\ session'[s] = NoSession
        /\ x.op \in Managing \cup Platform \cup {"none", "rotate"}
        /\ x.actor \in People /\ x.target \in People
        /\ account' = [account EXCEPT ![x.target] = Written(x)]
    BY <2>3, <2>a DEF CommitSession, AccountTypeOK, SessionsOf
  <2>5. x.op \notin {"enroll", "reset", "rotate"}
    BY <2>3, <2>a, CommitKeepsReign
  <2>6. ASSUME x.op \in {"disable", "erase"}
        PROVE  account[x.actor] # x.authority
    <3>1. x.target # x.actor /\ Reigns(x.authority)
      BY <2>6 DEF AccountInv, SessionSound
    <3>2. account'[x.actor] = account[x.actor]
      BY <2>4, <3>1, <2>a DEF AccountTypeOK
    <3> QED
      BY <2>4, <2>a, <3>1, <3>2
  <2>7. x.op \in Managing \cup {"rerole"} \/ x.op \in {"disable", "erase"}
    BY <2>4, <2>5 DEF Platform
  <2> QED
    BY <2>3, <2>4, <2>6, <2>7
<1>2. AccountInv /\ AccountTypeOK' /\ [AccountNext]_accountVars => AccountInv'
  BY AccountStep
<1>3. QED
  BY <1>1, <1>2, AccountStart, AccountTypeCorrect, PTL
  DEF AccountSpec, LastSuperAdminIsNotDismissed

-----------------------------------------------------------------------------
(* MCFrontDoor: the components side by side, one of them moving.           *)

(* The parts share no state: a step of the whole is a step of one of them, *)
(* and of none of the others.                                              *)
LEMMA PartsStep ==
    [Next]_vars => /\ [AccountNext]_accountVars /\ [LimiterNext]_limiterVars
                   /\ [StreamNext]_streamVars /\ [ProjectNext]_projectVars
                   /\ [TailNext]_tailVars /\ [CallNext]_callVars
<1> SUFFICES ASSUME [Next]_vars
             PROVE  /\ [AccountNext]_accountVars /\ [LimiterNext]_limiterVars
                    /\ [StreamNext]_streamVars /\ [ProjectNext]_projectVars
                    /\ [TailNext]_tailVars /\ [CallNext]_callVars
  OBVIOUS
<1>1. CASE UNCHANGED vars
  BY <1>1 DEF vars
<1>2. CASE Next
  BY <1>2 DEF Next, sources
<1> QED
  BY <1>1, <1>2

(* What is put together is what was modelled: every behaviour of the front *)
(* door is one of the accounts, of the limiter, of the stream, of the      *)
(* projects, of a watcher and of a call.                                   *)
THEOREM PartsImplemented ==
    Spec => /\ AccountSpec /\ LimiterSpec /\ StreamSpec /\ ProjectSpec
            /\ TailSpec /\ CallSpec
<1>1. Init => /\ AccountInit /\ LimiterInit /\ StreamInit /\ ProjectInit
              /\ TailInit /\ CallInit
  BY DEF Init
<1> QED
  BY <1>1, PartsStep, PTL
  DEF Spec, AccountSpec, LimiterSpec, StreamSpec, ProjectSpec, TailSpec, CallSpec

(* Every reachable state of the six parts is well typed (Accounts,         *)
(* RateLimit, LiveStream, ProjectLife, LogTail, SdkCalls).                 *)
THEOREM TypeCorrect == Spec => []TypeOK
  BY PartsImplemented, AccountTypeCorrect, LimiterTypeCorrect,
     StreamTypeCorrect, ProjectTypeCorrect, TailTypeCorrect, CallTypeCorrect, PTL
  DEF TypeOK

(* A watcher yields the text of a file once, in order and without a gap,   *)
(* and a caller is told of its events what becomes of them (tail_file,     *)
(* _request, ingest_event_batch).                                          *)
THEOREM SourcesCorrect == Spec => []SourcesAreFaithful
  BY PartsImplemented, TailCorrect, CallsCorrect, PTL DEF SourcesAreFaithful
=============================================================================

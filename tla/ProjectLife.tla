----------------------------- MODULE ProjectLife -----------------------------
(***************************************************************************)
(* The life of a project: its API key from creation through rotations, its *)
(* archival and deletion (app/services/project_service.py behind           *)
(* app/routers/projects.py and app/routers/platform.py), against the       *)
(* requests that ingest events with that key (app/dependencies.py,         *)
(* app/routers/events.py).                                                 *)
(*                                                                         *)
(* A session reads the row, flushes - from then on it holds the row's lock *)
(* and its client is answered - and commits.  Changing a key locks out the *)
(* inserts that refer to the row, because the key is under a unique        *)
(* constraint; so does a deletion.                                         *)
(***************************************************************************)
EXTENDS Naturals, UnitOfWork

CONSTANTS
    ProjectIds,
    Cases,          \* incidents that ingested events may open
    Managers,       \* sessions that manage projects
    Feeds,          \* ingestion requests in progress at a time
    MaxProjectWork  \* bound: sessions of managers in a behaviour

ASSUME ProjectLimits == MaxProjectWork \in Nat /\ ProjectIds # {}
ASSUME ProjectNames == ProjectIds \cap {"none", "orphan", "gone"} = {}

VARIABLES
    project,   \* project[p]: the row of p as committed
    origin,    \* origin[i]: the project of incident i, or what became of it
    latest,    \* latest[p]: the key of p that was handed out last, 0 for none
    undone,    \* undone[p]: did the commit of that key fail?
    work,      \* work[m]: what session m has read and will write
    feed,      \* feed[f]: what request f ingests
    minted     \* keys and sessions so far

projectVars == <<project, origin, latest, undone, work, feed, minted>>

ProjectRow == [status : {"none", "active", "archived", "gone"}, key : Nat]

Unmade == [status |-> "none", key |-> 0]

Lives(p) == project[p].status \in {"active", "archived"}

NoWork == [stage |-> "idle", op |-> "status", on |-> CHOOSE p \in ProjectIds : TRUE,
           read |-> Unmade, mine |-> Unmade, loaded |-> {}]

WorkOf == [stage : {"idle", "read", "flushed"},
           op : {"create", "status", "regenerate", "delete"}, on : ProjectIds,
           read : ProjectRow, mine : ProjectRow, loaded : SUBSET Cases]

NoFeed == [stage |-> "idle", on |-> CHOOSE p \in ProjectIds : TRUE, case |-> {}]

FeedOf == [stage : {"idle", "resolved", "inserted"}, on : ProjectIds,
           case : SUBSET Cases]

ProjectInit ==
    /\ project = [p \in ProjectIds |-> Unmade]
    /\ origin = [i \in Cases |-> "none"]
    /\ latest = [p \in ProjectIds |-> 0]
    /\ undone = [p \in ProjectIds |-> FALSE]
    /\ work = [m \in Managers |-> NoWork]
    /\ feed = [f \in Feeds |-> NoFeed]
    /\ minted = 0

-----------------------------------------------------------------------------
Minted == minted < MaxProjectWork /\ minted' = minted + 1

HandOut(p, key) ==
    /\ latest' = [latest EXCEPT ![p] = key]
    /\ undone' = [undone EXCEPT ![p] = FALSE]

(* create: nobody else sees the row before the commit; the key is in the   *)
(* answer.                                                                 *)
CreateProject(m, p) ==
    /\ Minted
    /\ work[m] = NoWork
    /\ project[p] = Unmade /\ \A n \in Managers : work[n].op # "create"
    /\ work' = [work EXCEPT ![m] =
                  [NoWork EXCEPT !.stage = "flushed", !.op = "create", !.on = p,
                                 !.mine = [status |-> "active", key |-> minted + 1]]]
    /\ HandOut(p, minted + 1)
    /\ UNCHANGED <<project, origin, feed>>

Read(m, op, p, mine) ==
    /\ Minted
    /\ work[m] = NoWork
    /\ Lives(p)
    /\ work' = [work EXCEPT ![m] =
                  [stage |-> "read", op |-> op, on |-> p, read |-> project[p],
                   mine |-> mine,
                   loaded |-> IF op = "delete" THEN {i \in Cases : origin[i] = p}
                              ELSE {}]]
    /\ UNCHANGED <<project, origin, latest, undone, feed>>

(* update, with or without a status, and platform_archive_project.         *)
ChangeStatus(m, p, status) ==
    Read(m, "status", p, [project[p] EXCEPT !.status = status])

Regenerate(m, p) ==
    Read(m, "regenerate", p, [project[p] EXCEPT !.key = minted + 1])

(* delete() loads the incidents that it is going to delete.                *)
DeleteProject(m, p) == Read(m, "delete", p, [status |-> "gone", key |-> 0])

-----------------------------------------------------------------------------
(* Who holds the row of p, and who keeps it from being referred to.        *)
HeldBy(m, p) == work[m].stage = "flushed" /\ work[m].on = p

ClosedTo(p) ==
    \E m \in Managers : HeldBy(m, p) /\ work[m].op \in {"regenerate", "delete"}

Referred(p) == \E f \in Feeds : feed[f].stage = "inserted" /\ feed[f].on = p

FlushWork(m) ==
    LET x == work[m]
    IN /\ x.stage = "read"
       /\ ~\E n \in Managers : HeldBy(n, x.on)
       /\ x.op \in {"regenerate", "delete"} => ~Referred(x.on)
       /\ Lives(x.on) \/ x.op = "delete"
       /\ work' = [work EXCEPT ![m].stage = "flushed"]
       /\ IF x.op = "regenerate" THEN HandOut(x.on, x.mine.key)
          ELSE UNCHANGED <<latest, undone>>
       /\ UNCHANGED <<project, origin, feed, minted>>

(* Mutant of RowWritten: the whole row is written back.                    *)
RowWrittenWhole(x) == x.mine

(* The row of x.on once x is committed.                                    *)
RowWritten(x) ==
    IF x.op \in {"create", "delete"} THEN x.mine
    ELSE [status |-> Flushed(project[x.on].status, x.read.status, x.mine.status),
          key |-> Flushed(project[x.on].key, x.read.key, x.mine.key)]

(* A deletion takes the incidents it has loaded; the foreign key of those  *)
(* that have come since is set to NULL.                                    *)
OriginAfter(x, i) ==
    IF x.op # "delete" \/ origin[i] # x.on THEN origin[i]
    ELSE IF i \in x.loaded THEN "gone" ELSE "orphan"

CommitWork(m) ==
    /\ work[m].stage = "flushed"
    /\ project' = [project EXCEPT ![work[m].on] = RowWritten(work[m])]
    /\ origin' = [i \in Cases |-> OriginAfter(work[m], i)]
    /\ work' = [work EXCEPT ![m] = NoWork]
    /\ UNCHANGED <<latest, undone, feed, minted>>

(* A statement fails - the row is gone, its slug taken, an incident to     *)
(* delete has compliance records - or the commit, after the answer.        *)
FailWork(m) ==
    LET x == work[m]
    IN /\ x.stage # "idle"
       /\ work' = [work EXCEPT ![m] = NoWork]
       /\ undone' = IF x.stage = "flushed" /\ x.op \in {"create", "regenerate"}
                    THEN [undone EXCEPT ![x.on] = TRUE] ELSE undone
       /\ UNCHANGED <<project, origin, latest, feed, minted>>

-----------------------------------------------------------------------------
(* get_project_from_api_key: only an active project's key.                 *)
Resolve(f, p) ==
    /\ feed[f] = NoFeed
    /\ project[p].status = "active"
    /\ feed' = [feed EXCEPT ![f] = [NoFeed EXCEPT !.stage = "resolved", !.on = p]]
    /\ UNCHANGED <<project, origin, latest, undone, work, minted>>

(* _ingest_single: an event refers to the project as it was resolved, and  *)
(* opens an incident if it is severe.                                      *)
IngestEvent(f, is) ==
    /\ feed[f].stage = "resolved"
    /\ Lives(feed[f].on) /\ ~ClosedTo(feed[f].on)
    /\ \A i \in is : origin[i] = "none" /\ \A g \in Feeds : i \notin feed[g].case
    /\ feed' = [feed EXCEPT ![f].stage = "inserted", ![f].case = is]
    /\ UNCHANGED <<project, origin, latest, undone, work, minted>>

CommitFeed(f) ==
    /\ feed[f].stage = "inserted"
    /\ origin' = [i \in Cases |-> IF i \in feed[f].case THEN feed[f].on ELSE origin[i]]
    /\ feed' = [feed EXCEPT ![f] = NoFeed]
    /\ UNCHANGED <<project, latest, undone, work, minted>>

FailFeed(f) ==
    /\ feed[f].stage # "idle"
    /\ feed' = [feed EXCEPT ![f] = NoFeed]
    /\ UNCHANGED <<project, origin, latest, undone, work, minted>>

Manage(m) ==
    \/ \E p \in ProjectIds :
          \/ CreateProject(m, p) \/ Regenerate(m, p) \/ DeleteProject(m, p)
          \/ \E status \in {"active", "archived"} : ChangeStatus(m, p, status)
    \/ FlushWork(m) \/ CommitWork(m) \/ FailWork(m)

Ingest(f) ==
    \/ \E p \in ProjectIds : Resolve(f, p)
    \/ \E is \in {{}} \cup {{i} : i \in Cases} : IngestEvent(f, is)
    \/ CommitFeed(f) \/ FailFeed(f)

ProjectNext == (\E m \in Managers : Manage(m)) \/ (\E f \in Feeds : Ingest(f))

ProjectSpec == ProjectInit /\ [][ProjectNext]_projectVars

-----------------------------------------------------------------------------
ProjectTypeOK ==
    /\ project \in [ProjectIds -> ProjectRow]
    /\ origin \in [Cases -> ProjectIds \cup {"none", "orphan", "gone"}]
    /\ latest \in [ProjectIds -> Nat]
    /\ undone \in [ProjectIds -> BOOLEAN]
    /\ work \in [Managers -> WorkOf]
    /\ feed \in [Feeds -> FeedOf]
    /\ minted \in Nat

(* However rotations, archivals and updates overlap, the key that was      *)
(* handed out last is the one that works: it is on the row, its session is *)
(* about to commit it, or that commit failed after the answer              *)
(* (regenerate_api_key, platform_regenerate_project_key).                  *)
LastKeyWorks ==
    \A p \in ProjectIds :
        Lives(p) => \/ latest[p] = project[p].key
                    \/ undone[p]
                    \/ \E m \in Managers : /\ HeldBy(m, p)
                                           /\ work[m].op = "regenerate"
                                           /\ work[m].mine.key = latest[p]

(* No incident refers to a project that is gone: ingestion in progress     *)
(* holds up a deletion, and one that comes later finds no project          *)
(* (_ingest_single, ProjectService.delete).                                *)
IncidentsHaveProjects ==
    \A i \in Cases : origin[i] \in ProjectIds => Lives(origin[i])

ProjectsAreSound == LastKeyWorks /\ IncidentsHaveProjects
=============================================================================

----------------------------- MODULE Migrations -----------------------------
(***************************************************************************)
(* The schema's history, app/migrations/versions/001 to 014, under the     *)
(* commands of Alembic: each `upgrade` or `downgrade` runs one or more     *)
(* revisions in a single PostgreSQL transaction (app/migrations/env.py),   *)
(* so that one failing statement, even in a `try`, undoes them all.        *)
(* Meanwhile the application and its scripts write rows, and a script that *)
(* calls create_all may build tables ahead of their revision.              *)
(*                                                                         *)
(* Of a schema the model keeps what a revision can stumble over or spoil:  *)
(* tables, foreign keys, the CHECK on users.role, the form of the keys,    *)
(* everybody's role, owner and members of one project, and whether any     *)
(* evidence lacks a key in S3.  Other columns and indexes come and go with *)
(* their tables.                                                           *)
(***************************************************************************)
EXTENDS Naturals

CONSTANTS
    People,      \* users
    Nobody,      \* the owner of a project without one
    SeedAdmin,   \* whom SEED_ADMIN_EMAIL names, or Nobody
    MaxChanges   \* bound: writes by the application in a behaviour

ASSUME PeopleAssumption ==
    Nobody \notin People /\ SeedAdmin \in People \cup {Nobody}
ASSUME ChangesAssumption == MaxChanges \in Nat

VARIABLES
    db,       \* the database
    changes   \* writes by the application so far

migrationVars == <<db, changes>>

Newest == 14
Revisions == 1 .. Newest

CaseTables == {"users", "incidents", "incident_actions", "evidence",
               "chain_of_custody"}
DutyTables == {"notifications", "notification_recipients", "audit_logs",
               "compliance_records"}
ObligationTables == {"compliance_obligations", "compliance_assessments"}
PlatformTables == {"project_members", "security_events"}

(* What each revision creates. *)
Creates(v) ==
    CASE v = 1 -> CaseTables \cup DutyTables
      [] v = 5 -> {"revoked_tokens"}
      [] v = 7 -> {"projects"}
      [] v = 8 -> ObligationTables
      [] v = 10 -> PlatformTables
      [] v = 11 -> {"investigation_notes"}
      [] v = 14 -> {"project_invitations"}
      [] OTHER -> {}

(* Those that look for their tables before they create them.               *)
Careful == {8, 10, 11}

Tables == UNION {Creates(v) : v \in Revisions}

(* Foreign keys between the tables, from child to parent.                  *)
CaseKeys ==
    {<<"incidents", "users">>, <<"incident_actions", "incidents">>,
     <<"incident_actions", "users">>, <<"evidence", "incidents">>,
     <<"evidence", "users">>, <<"chain_of_custody", "evidence">>,
     <<"chain_of_custody", "users">>}

DutyKeys ==
    {<<"notifications", "incidents">>, <<"notifications", "users">>,
     <<"notification_recipients", "notifications">>,
     <<"audit_logs", "users">>, <<"compliance_records", "incidents">>}

(* The columns revision 7 adds to tables of revision 1. *)
ProjectColumns == {<<"incidents", "projects">>, <<"audit_logs", "projects">>}

LaterKeys ==
    {<<"projects", "users">>} \cup (ObligationTables \X {"projects"})
    \cup (PlatformTables \X {"projects"})
    \cup {<<"project_members", "users">>, <<"security_events", "incidents">>,
          <<"investigation_notes", "users">>,
          <<"investigation_notes", "incidents">>}
    \cup ({"project_invitations"} \X {"projects", "users"})

ForeignKeys == CaseKeys \cup DutyKeys \cup ProjectColumns \cup LaterKeys

(* The keys table t is created with by a revision. *)
KeysOf(ts) == {k \in ForeignKeys \ ProjectColumns : k[1] \in ts}

-----------------------------------------------------------------------------
OldRoles == {"admin", "analyst", "responder", "viewer"}
SevenRoles == {"super_admin", "security_admin", "incident_manager",
               "soc_analyst", "compliance_officer", "auditor", "viewer"}
ThreeRoles == {"admin", "analyst", "viewer"}
AppRoles == ThreeRoles \cup {"super_admin"}
AllRoles == OldRoles \cup SevenRoles

(* Without a CHECK every role is allowed; "none" is nobody's row.          *)
Databases ==
    [version : 0 .. Newest, tables : SUBSET Tables, keys : SUBSET ForeignKeys,
     allowed : {AllRoles, SevenRoles, ThreeRoles},
     role : [People -> AllRoles \cup {"none"}],
     apiKeys : {"none", "plain", "hashed"},
     owner : People \cup {Nobody}, members : SUBSET People,
     keyless : BOOLEAN]

(* UPDATE users SET role = :new WHERE role = :old, for each pair of a map: *)
(* no map chains one pair into another.                                    *)
Renamed(d, new) ==
    [u \in People |-> IF d.role[u] \in DOMAIN new THEN new[d.role[u]]
                      ELSE d.role[u]]

(* _seed_super_admin: if nobody is one yet. *)
Seeded(role) ==
    IF SeedAdmin = Nobody \/ \E u \in People : role[u] = "super_admin"
    THEN role
    ELSE [role EXCEPT ![SeedAdmin] = "super_admin"]

ExpandedRoles(d) ==
    Renamed(d, [admin |-> "super_admin", analyst |-> "soc_analyst",
                responder |-> "incident_manager"])

SimplifiedRoles(d) ==
    Renamed(d, [super_admin |-> "admin", security_admin |-> "admin",
                incident_manager |-> "analyst", soc_analyst |-> "analyst",
                compliance_officer |-> "analyst", auditor |-> "viewer"])

(* Revision 4 lets an auditor be an analyst and anything unknown a viewer. *)
SanitizedRoles(d) ==
    LET known == Renamed(d, [super_admin |-> "admin",
                             security_admin |-> "admin",
                             incident_manager |-> "analyst",
                             soc_analyst |-> "analyst",
                             compliance_officer |-> "analyst",
                             auditor |-> "analyst"])
    IN  [u \in People |->
            IF known[u] \in ThreeRoles \cup {"none"} THEN known[u]
            ELSE "viewer"]

(* The downgrades of 2 and 3, best effort. *)
RevertedRoles(d) ==
    Renamed(d, [super_admin |-> "admin", soc_analyst |-> "analyst",
                incident_manager |-> "responder", security_admin |-> "admin",
                compliance_officer |-> "analyst", auditor |-> "viewer"])

RevivedRoles(d) ==
    Renamed(d, [admin |-> "super_admin", analyst |-> "soc_analyst"])

-----------------------------------------------------------------------------
(* Revision v creates its tables, or those of them that are missing.       *)
Built(v, d) ==
    LET new == Creates(v) \ d.tables
    IN  [d EXCEPT !.tables = @ \cup new,
                  !.keys = @ \cup KeysOf(new)
                             \cup (IF v = 7 THEN ProjectColumns ELSE {}),
                  !.version = v]

(* The rows revision v rewrites: roles with their CHECK, the keys of       *)
(* existing projects, the missing memberships of owners.                   *)
Up(v, d) ==
    LET b == Built(v, d)
    IN  CASE v = 2 -> [b EXCEPT !.role = Seeded(ExpandedRoles(d)),
                                !.allowed = SevenRoles]
          [] v = 3 -> [b EXCEPT !.role = SimplifiedRoles(d), !.allowed = ThreeRoles]
          [] v = 4 -> [b EXCEPT !.role = SanitizedRoles(d), !.allowed = ThreeRoles]
          [] v = 7 -> [b EXCEPT !.apiKeys = "plain"]
          [] v = 12 -> [b EXCEPT !.apiKeys = "hashed"]
          [] v = 13 -> [b EXCEPT !.members = @ \cup ({d.owner} \ {Nobody})]
          [] OTHER -> b

Complies(d) == \A u \in People : d.role[u] \in d.allowed \cup {"none"}

(* No table of the revision stands in its way, unless it looks first, and  *)
(* every row passes the CHECK, the seeded one of 2 included.               *)
UpGoes(v, d) ==
    /\ Creates(v) \cap d.tables = {} \/ v \in Careful
    /\ v = 12 => d.apiKeys = "plain"
    /\ Complies(Up(v, d))

(* Mutant of Dropped: 7 forgets the columns it added.                      *)
DroppedKeepingColumns(v, d) ==
    [d EXCEPT !.tables = @ \ Creates(v),
              !.keys = {k \in @ : k[1] \notin Creates(v)},
              !.version = v - 1]

Dropped(v, d) ==
    [d EXCEPT !.tables = @ \ Creates(v),
              !.keys = {k \in @ : k[1] \notin Creates(v)}
                       \ (IF v = 7 THEN ProjectColumns ELSE {}),
              !.version = v - 1]

Down(v, d) ==
    LET b == Dropped(v, d)
    IN  CASE v = 1 -> [b EXCEPT !.role = [u \in People |-> "none"],
                                !.keyless = FALSE]
          [] v = 2 -> [b EXCEPT !.role = RevertedRoles(d), !.allowed = AllRoles]
          [] v = 3 -> [b EXCEPT !.role = RevivedRoles(d), !.allowed = SevenRoles]
          [] v = 7 -> [b EXCEPT !.owner = Nobody, !.apiKeys = "none"]
          [] v = 10 -> [b EXCEPT !.members = {}]
          [] OTHER -> b

(* A table that another one refers to cannot be dropped, 12 raises, and 6  *)
(* makes s3_key and s3_bucket NOT NULL again, which one keyless row stops. *)
DownGoes(v, d) ==
    /\ v # 12
    /\ v = 6 => ~d.keyless
    /\ \A k \in Down(v, d).keys : k[2] \notin Creates(v)
    /\ Complies(Down(v, d))

(* Revisions d.version + 1 to n, or d.version down to n + 1.               *)
Upgraded(n, d) ==
    LET f[v \in d.version .. n] == IF v = d.version THEN d ELSE Up(v, f[v - 1])
    IN  f[n]

Downgraded(n, d) ==
    LET f[v \in n .. d.version] ==
            IF v = d.version THEN d ELSE Down(v + 1, f[v + 1])
    IN  f[n]

UpgradeGoes(n, d) ==
    \A v \in d.version + 1 .. n : UpGoes(v, Upgraded(v - 1, d))

DowngradeGoes(n, d) ==
    \A v \in n + 1 .. d.version : DownGoes(v, Downgraded(v, d))

-----------------------------------------------------------------------------
MigrationsInit ==
    /\ db = [version |-> 0, tables |-> {}, keys |-> {}, allowed |-> AllRoles,
             role |-> [u \in People |-> "none"], apiKeys |-> "none",
             owner |-> Nobody, members |-> {}, keyless |-> FALSE]
    /\ changes = 0

(* alembic upgrade, to head or to an earlier revision. *)
Upgrade(n) ==
    /\ n > db.version
    /\ UpgradeGoes(n, db)
    /\ db' = Upgraded(n, db)
    /\ UNCHANGED changes

Downgrade(n) ==
    /\ n < db.version
    /\ DowngradeGoes(n, db)
    /\ db' = Downgraded(n, db)
    /\ UNCHANGED changes

(* Writes between two commands. *)
Write ==
    /\ changes < MaxChanges
    /\ changes' = changes + 1

(* create_all of seed_admin.py or of the legacy worker: the tables of head *)
(* that are not there, while the roles stay unchecked.  The application    *)
(* has no use for a database whose projects are ahead of their revision.   *)
CreateAll ==
    LET new == Tables \ db.tables
    IN  /\ Write
        /\ new # {}
        /\ db' = [db EXCEPT
              !.tables = Tables,
              !.keys = @ \cup {k \in ForeignKeys : k[1] \in new},
              !.apiKeys = IF "projects" \in new THEN "hashed" ELSE @]

(* The roles the application of the day gives, as far as the CHECK admits  *)
(* them: today's once the keys are hashed or the roles are three.          *)
RolesInUse ==
    db.allowed \cap (IF db.apiKeys = "hashed" \/ db.version > 3 THEN AppRoles
                     ELSE IF db.version < 2 THEN OldRoles
                     ELSE SevenRoles)

(* A user joins or changes roles. *)
AssignRole(u, r) ==
    /\ Write
    /\ "users" \in db.tables
    /\ r \in RolesInUse
    /\ db' = [db EXCEPT !.role[u] = r]

(* A project: its owner is made a member where ProjectService.create       *)
(* finds the table; older applications had none.                           *)
AddProject(u) ==
    /\ Write
    /\ db.role[u] # "none"
    /\ "projects" \in db.tables /\ db.owner = Nobody
    /\ \E joined \in BOOLEAN :
          /\ db.apiKeys = "hashed" => joined
          /\ joined => "project_members" \in db.tables
          /\ db' = [db EXCEPT !.owner = u,
                              !.members = IF joined THEN @ \cup {u} ELSE @]

(* EvidenceService.upload stores the bytes in the row and no key, which    *)
(* takes the columns of revision 6, or a table of create_all.  Older       *)
(* applications stored a key.                                              *)
Upload ==
    /\ Write
    /\ "evidence" \in db.tables /\ db.version \notin 1 .. 5
    /\ \E u \in People : db.role[u] # "none"
    /\ db' = [db EXCEPT !.keyless = TRUE]

(* The last keyless evidence goes with its incident. *)
DeleteIncident ==
    /\ Write
    /\ db.keyless
    /\ db' = [db EXCEPT !.keyless = FALSE]

MigrationsNext ==
    \/ \E n \in 0 .. Newest : Upgrade(n) \/ Downgrade(n)
    \/ CreateAll \/ Upload \/ DeleteIncident
    \/ \E u \in People : AddProject(u) \/ \E r \in AllRoles : AssignRole(u, r)

MigrationsSpec == MigrationsInit /\ [][MigrationsNext]_migrationVars

-----------------------------------------------------------------------------
MigrationsTypeOK == db \in Databases /\ changes \in Nat

(* Tables that create_all built and whose revision does not look first.    *)
Ahead ==
    {t \in db.tables : \E v \in db.version + 1 .. Newest :
                          t \in Creates(v) /\ v \notin Careful}

(* Whatever was upgraded, downgraded and written before, `upgrade head`    *)
(* goes through unless create_all ran ahead of a revision that does not    *)
(* look first; below revision 12, whose downgrade raises, every downgrade  *)
(* does that leaves 006 in place, and the others too while all evidence    *)
(* has a key in S3; and from 013 on a project's owner is a member.         *)
HistoryHolds ==
    /\ Ahead = {} => UpgradeGoes(Newest, db)
    /\ Ahead = {} /\ db.version < 12 =>
           DowngradeGoes(IF db.keyless THEN 6 ELSE 0, db)
    /\ db.version >= 13 => {db.owner} \ {Nobody} \subseteq db.members

(* 010_platform_layer.py:10: "Add super_admin to the users.role CHECK      *)
(* constraint (PostgreSQL)".                                               *)
SuperAdminIsStorable == db.version >= 10 => "super_admin" \in db.allowed
=============================================================================

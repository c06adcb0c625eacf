-------------------------------- MODULE Rbac --------------------------------
(***************************************************************************)
(* app/core/rbac.py: the one place where roles are given permissions, and  *)
(* the checks that app/dependencies.py makes before a handler runs.        *)
(***************************************************************************)

Roles == {"super_admin", "admin", "analyst", "viewer"}

ViewerPermissions ==
    {"incident:read", "evidence:download", "dashboard:read", "notification:read",
     "compliance:read", "report:view", "ml:read"}

AnalystPermissions ==
    ViewerPermissions \cup
    {"incident:create", "incident:update", "incident:assign", "evidence:upload",
     "report:generate", "report:approve", "audit:read", "audit:export",
     "notification:approve", "notification:dispatch", "compliance:manage",
     "infra:read"}

(* What is left to administrators; the platform permissions are in every   *)
(* admin's set, and no route asks for them.                                *)
Permissions ==
    AnalystPermissions \cup
    {"incident:delete", "evidence:delete", "user:manage", "role:manage",
     "apikey:rotate", "ml:manage", "system:settings", "platform:view_all",
     "platform:manage_users", "platform:manage_projects", "platform:view_audit",
     "platform:system_health", "platform:assign_roles"}

RolePermissions ==
    [r \in Roles |-> CASE r = "viewer" -> ViewerPermissions
                       [] r = "analyst" -> AnalystPermissions
                       [] OTHER -> Permissions]

IsSuperAdmin(role) == role = "super_admin"

HasPermission(role, p) == role \in Roles /\ p \in RolePermissions[role]

(* require_permission, require_super_admin: what a handler demands.        *)
Allowed(role, demand) ==
    IF demand = "super_admin" THEN IsSuperAdmin(role)
    ELSE IsSuperAdmin(role) \/ HasPermission(role, demand)
=============================================================================

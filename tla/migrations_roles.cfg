SPECIFICATION MigrationsSpec
CONSTANTS
    People = {p1, p2}
    Nobody = nobody
    SeedAdmin = p1
    MaxChanges = 3
CHECK_DEADLOCK FALSE
INVARIANTS
    SuperAdminIsStorable

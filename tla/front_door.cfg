SPECIFICATION Spec
CONSTANTS
    p1 = p1
    p2 = p2
    thing1 = thing1
    thing2 = thing2
    w1 = w1
    w2 = w2
    api1 = api1
    api2 = api2
    People <- Two
    Founders <- First
    Sessions <- TwoThings
    MaxLoginAttempts = 2
    MaxBearers = 1
    MaxAccountRequests = 3
    Processes <- TwoProcesses
    Clients = {c}
    Limit = 2
    Window = 2
    PurgeInterval = 3
    MaxClock = 5
    Projects <- TwoThings
    Viewers = {v1}
    Senders <- TwoSenders
    QueueSize = 1
    MaxEvents = 2
    ProjectIds = {p}
    Cases = {i1}
    Managers = {m1, m2}
    Feeds <- TwoSenders
    MaxProjectWork = 4
    MaxFiles = 2
    MaxText = 3
    CallRetries = 1
    BatchLimit = 2
CHECK_DEADLOCK FALSE
SYMMETRY Interchangeable
INVARIANTS
    TypeOK
    RefusalsLeaveNoTrace
    WindowNeverExceeded
    StreamIsFaithful
    ProjectsAreSound
    SourcesAreFaithful
PROPERTIES
    RoleChangesAreAudited
    LastSuperAdminIsNotDismissed

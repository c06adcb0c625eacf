SPECIFICATION Spec
SYMMETRY WorkerSymmetry
CONSTANTS
    i1 = i1
    c1 = c1
    c2 = c2
    w1 = w1
    w2 = w2
    Incidents <- OneIncident
    Featured <- OneIncident
    Clients <- OneClient
    Workers <- TwoWorkers
    MaxReceive = 2
    MaxRequests = 4
    Amendments <- Closing
    Fifo = TRUE
    Faults = FALSE
CHECK_DEADLOCK FALSE
INVARIANTS
    VerdictIsWhole
    ClosedAtTracksUntilContained
PROPERTIES
    FollowsStateMachine

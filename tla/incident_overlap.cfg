SPECIFICATION FairSpec
CONSTANTS
    i1 = i1
    c1 = c1
    c2 = c2
    w1 = w1
    w2 = w2
    Incidents <- OneIncident
    Featured <- OneIncident
    Clients <- TwoClients
    Workers <- OneWorker
    MaxReceive = 2
    MaxRequests = 3
    Amendments <- Closing
    Fifo = TRUE
    Faults = TRUE
CHECK_DEADLOCK FALSE
INVARIANTS
    TypeOK
    IsolationHasCause
PROPERTIES
    OnlyStaleSessionsLeaveTheTable
    WaitingIsClassified

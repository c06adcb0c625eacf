SPECIFICATION Spec
CONSTANTS
    n1 = n1
    n2 = n2
    c1 = c1
    c2 = c2
    w1 = w1
    w2 = w2
    Notifications <- OneNotification
    Clients <- TwoClients
    Workers <- OneWorker
    Mailers <- TwoClients
    MaxRetries = 2
    MaxReceive = 2
    MaxRequests = 3
    Fifo = TRUE
    Faults = TRUE
SYMMETRY ClientSymmetry
CHECK_DEADLOCK FALSE
INVARIANTS
    TypeOK
    RegisterIsTruthful
    MailsAreExact
PROPERTIES
    DeliveriesStayOnRecord
    OnlyStaleSessionsReopen
    FollowsLifecycle

SPECIFICATION FairSpec
CONSTANTS
    n1 = n1
    n2 = n2
    c1 = c1
    c2 = c2
    w1 = w1
    w2 = w2
    Notifications <- TwoNotifications
    Clients <- OneClient
    Workers <- OneWorker
    Mailers <- Everybody
    MaxRetries = 2
    MaxReceive = 2
    MaxRequests = 2
    Fifo = TRUE
    Faults = TRUE
CHECK_DEADLOCK FALSE
PROPERTIES
    ApprovalIsActedOn

SPECIFICATION FairSpec
CONSTANTS
    n1 = n1
    n2 = n2
    c1 = c1
    c2 = c2
    w1 = w1
    w2 = w2
    Notifications <- OneNotification
    Clients <- OneClient
    Workers <- OneWorker
    Mailers <- OneClient
    MaxRetries = 3
    MaxReceive = 3
    MaxRequests = 1
    Fifo = FALSE
    Faults = FALSE
CHECK_DEADLOCK FALSE
PROPERTIES
    FailureIsRetried

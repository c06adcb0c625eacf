SPECIFICATION FairSpec
CONSTANTS
    f1 = f1
    f2 = f2
    Files <- OneFile
    Capacity = 3
    BatchSize = 2
    CompressionThreshold = 2
    MaxRetries = 1
    MaxEvents = 4
    MaxSessions = 2
    Faults = TRUE
CHECK_DEADLOCK FALSE
INVARIANTS
    TypeOK
    EventsAreAccountedFor
    NoEventInTwoHands
    CopiesAreAttempts
PROPERTIES
    RingIsDrained

SPECIFICATION FairSpec
CONSTANTS
    f1 = f1
    f2 = f2
    Files <- OneFile
    Capacity = 3
    BatchSize = 2
    CompressionThreshold = 2
    MaxRetries = 1
    MaxEvents = 3
    MaxSessions = 2
    Faults = FALSE
CHECK_DEADLOCK FALSE
PROPERTIES
    ShippedEventsAreStored

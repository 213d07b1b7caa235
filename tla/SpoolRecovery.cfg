SPECIFICATION FairSpec
CONSTANTS
    MaxEvents = 3
    MaxRecords = 2
    MaxBatch = 2
    ReadLimit = 2
    MaxFailures = 2
    MaxStops = 2
    Envelope <- Samples
    NoKey = NoKey
    Faults = {}
INVARIANTS
    TypeOK
    AcknowledgedKept
    CommitExact
PROPERTIES
    EventuallyDelivered
CHECK_DEADLOCK FALSE

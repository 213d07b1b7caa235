SPECIFICATION Spec
CONSTANTS
    MaxEvents = 4
    MaxRecords = 2
    MaxBatch = 2
    ReadLimit = 2
    MaxFailures = 1
    MaxStops = 1
    Envelope <- Samples
    NoKey = NoKey
    Faults = {"renumber", "skip", "unsynced", "orphan"}
INVARIANTS
    BatchIntact
    CommitAccepted
CHECK_DEADLOCK FALSE

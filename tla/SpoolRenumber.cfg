SPECIFICATION Spec
CONSTANTS
    MaxEvents = 3
    MaxRecords = 2
    MaxBatch = 2
    ReadLimit = 2
    MaxFailures = 0
    MaxStops = 0
    Envelope <- Plain
    NoKey = NoKey
    Faults = {"renumber"}
INVARIANTS
    AcknowledgedKept
CHECK_DEADLOCK FALSE

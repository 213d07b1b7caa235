SPECIFICATION Spec
CONSTANTS
    Ids = {"a"}
    MaintenanceIds = {}
    Revisions = {"v1"}
    Workers = {w1, w2}
    Callers = {c1, c2}
    HandlerResults = {"ok", "retry"}
    MaxRegs = 2
    MaxRuns = 1
    MaxAttempts = 1
    MaxCalls = 4
SYMMETRY Interchangeable
INVARIANTS
    TypeOK
    RemovedIsQuiet
    RevokedStaysEmpty
    DrainIsFinal
    RegistrationKept
PROPERTIES
    RevocationSparesSuccessor
CHECK_DEADLOCK FALSE

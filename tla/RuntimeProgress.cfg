SPECIFICATION FairSpec
CONSTANTS
    Ids = {"a", "m"}
    MaintenanceIds = {"m"}
    Revisions = {"v1"}
    Workers = {"w1"}
    Callers = {"c1"}
    HandlerResults = {"ok", "retry"}
    MaxRegs = 1
    MaxRuns = 1
    MaxAttempts = 1
    MaxCalls = 3
PROPERTIES
    CallsReturn
    CancellationDelivered
    PauseReaches
CHECK_DEADLOCK FALSE

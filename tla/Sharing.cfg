SPECIFICATION FairSpec
CONSTANTS
    Text <- Strings
    Workers = {"w"}
    HandlerSets = {{"h"}}
    PluginOwners = {"plugin:p"}
    Groups = {"g"}
    Lanes = {"core", "group:g", "plugin:p"}
    GroupLanes = {"group:g"}
    DefaultTimeout = 1
    YieldDelay = 1
    MaxBackoff = 2
    GroupCapacity <- OneSlotPerGroup
    Submissions <- Sharing
    Imports <- ImportedCore
    Definitions <- None
    ScheduleIds = {}
    MaxRuns = 2
    MaxTokens = 3
    MaxTime = 3
    Capacity = 2
    MaxPending = 2
    MaxPluginPending = 2
    MaxPluginOwnerPending = 1
    Retention = 1
    PruneBatch = 1
INVARIANTS
    TypeOK
    ResourceExclusive
    MaintenanceExclusive
    LeaseEvidence
    LostAttemptIsLast
PROPERTIES
    RunLifecycle
    LeaseSettles
CHECK_DEADLOCK FALSE

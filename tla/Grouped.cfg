SPECIFICATION FairSpec
CONSTANTS
    Text <- Strings
    Workers = {"w"}
    HandlerSets = {{"h"}}
    PluginOwners = {"plugin:p"}
    Groups = {"g"}
    Lanes = {"core", "group:g", "plugin:p"}
    GroupLanes = {"group:g"}
    DefaultTimeout = 1
    YieldDelay = 1
    MaxBackoff = 2
    GroupCapacity <- OneSlotPerGroup
    Submissions <- Grouped
    Imports <- None
    Definitions <- None
    ScheduleIds = {}
    MaxRuns = 4
    MaxTokens = 3
    MaxTime = 0
    Capacity = 2
    MaxPending = 1
    MaxPluginPending = 2
    MaxPluginOwnerPending = 1
    Retention = 1
    PruneBatch = 1
INVARIANTS
    CapacityRespected
    BacklogBounded
PROPERTIES
    MaintenanceReached
CHECK_DEADLOCK FALSE

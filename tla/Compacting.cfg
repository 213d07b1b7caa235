SPECIFICATION Spec
CONSTANTS
    Text <- Strings
    Workers = {"w"}
    HandlerSets = {{"h"}}
    PluginOwners = {"plugin:p"}
    Groups = {}
    Lanes = {"core"}
    GroupLanes = {}
    GroupCapacity <- OneSlotPerGroup
    Submissions <- None
    Imports <- None
    Definitions <- Compacting
    ScheduleIds = {"s"}
    DefaultTimeout = 1
    YieldDelay = 1
    MaxBackoff = 2
    MaxRuns = 3
    MaxTokens = 3
    MaxTime = 3
    Capacity = 1
    MaxPending = 1
    MaxPluginPending = 1
    MaxPluginOwnerPending = 1
    Retention = 2
    PruneBatch = 1
INVARIANTS
    SettledOnce
    ScheduleSingleFlight
PROPERTIES
    EvidenceKept
CHECK_DEADLOCK FALSE

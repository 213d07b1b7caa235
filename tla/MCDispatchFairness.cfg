SPECIFICATION Spec
CONSTANTS
    Lanes = {"core", "group", "plugin"}
    GroupLanes = {"group"}
    MaxVirtual = 4096
CONSTRAINT WithinBound
INVARIANTS
    BoundedLead
    BoundedBypass
CHECK_DEADLOCK FALSE

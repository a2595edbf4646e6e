SPECIFICATION VmSpec
CONSTANTS
    VmIds = {"v1", "v2", "v3"}
    VmNames = {"a", "b"}
    VmPolicies = {"p"}
    VmCreates <- MCCreates
    VmChanges <- MCChanges
    VmReqs = {"r1", "r2"}
    MaxVmOps = 2
    MaxVmFaults = 1
    MaxVmCrashes = 1
INVARIANTS
    CreateIsUndone
CHECK_DEADLOCK FALSE

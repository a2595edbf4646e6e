SPECIFICATION MCSpec
SYMMETRY MCSymmetry
CONSTANTS
    VmIds = {"v1", "v2", "v3"}
    VmNames = {"a", "b"}
    VmPolicies = {"p"}
    VmCreates <- MCCreates
    VmChanges <- MCChanges
    VmReqs = {r1, r2}
    MaxVmOps = 2
    MaxVmFaults = 1
    MaxVmCrashes = 1
    Datasets = {"a", "b"}
    UsbDevs = {"u1"}
    PciDevs = {"p1"}
    MaxDisks = 2
    MaxUsb = 1
    MaxGib = 2
    DevReqs = {d1, d2}
    MaxDevOps = 3
    MaxDevFaults = 1
    SnapVms = {"v"}
    DisksOf <- MCDisksOf
    CopyOf <- MCCopyOf
    PoolOf <- OnePool
    Tags = {"t"}
    SnapReqs = {1, 2}
    MaxSnapOps = 3
    MaxSnapFaults = 1
    CtIds = {"i", "j"}
    CtNames = {"m", "n"}
    CtTags = {"t"}
    CtLimits = {"lo", "hi"}
    CtReqs = {1, 2}
    MaxCtOps = 3
    MaxCtFaults = 2
    ConVms = {"v1", "v2"}
    ConCts = {"c1"}
    Tickets = {"t1", "t2"}
    TicketTtl = 1
    MaxConTime = 2
    MaxStarts = 2
INVARIANTS
    FailedCreateLeavesNothing
    AgreeWhenSerial
    DefinitionFollows
    ListedIsOneMoment
    FailedCloneLeavesNothing
    FailedCtLeavesNothing
    CtAgreeWhenSerial
    TicketOpensOnce
PROPERTIES
    OnlyOwnZvolsDestroyed
CHECK_DEADLOCK FALSE

SPECIFICATION MCSpec
CONSTANTS
    Users = {"u1", "u2", "u3"}
    Names = {"n1", "n2"}
    Reqs = {"r1", "r2"}
    Tokens = {"t1"}
    MaxPw = 3
    MaxGen = 0
    MaxAuthCrashes = 1
    MaxAuthFaults = 1
    MaxDrops = 0
    IPs = {"i1", "i2"}
    Accounts = {"c1"}
    Attempts = {"a1", "a2"}
    MaxShift = 2
    MaxDelay = 3
    MaxSleep = 1
    QuietWindow = 4
    MaxEntries = 1
    GuestDisks = {"d1", "d2"}
    Workers = {"w1", "w2"}
    MaxKeep = 2
    PlanChanges <- MCChanges
    MaxRuns = 2
    MaxBkOps = 3
    MaxBkFaults = 1
    AcUsers = {"u1"}
    Entries = {"e1", "e2"}
    AcReqs = {"q1", "q2"}
    Resources = {"vm1"}
    GrantPaths <- MCGrantPaths
    GrantRoles = {"viewer"}
    MaxAcFaults = 1
    MaxAcCrashes = 1
    Domains = {"d1"}
    Issuers = {"scheduler", "trigger"}
    MaxIssued = 2
    LifeTime = 1
    MaxAcmeTime = 2
    MaxAcmeCrashes = 1
    MaxConfigs = 2
    RuleIds = {"r1"}
    Subjects = {"s1"}
    Channels = {"c1"}
    Values = {1, 2}
    Thresholds = {1, 2}
    Sustains = {0, 2}
    Cooldowns = {2}
    Pins = {{}, {"s1"}}
    MaxEvals = 3
    MaxRuleEdits = 1
    FwRules = {"a", "bad"}
    MaxRules = 1
    Refused = {"bad"}
    FwReqs = {"q1", "q2"}
    MaxFwFaults = 1
    MaxFwRestarts = 1
    LibNames = {"n1"}
    Jobs = {"j1", "j2", "j3"}
    Downloads = {"j2", "j3"}
    MaxBody = 2
    MaxUpload = 1
    MaxRedirects = 1
    MaxHistory = 1
    MaxLibCrashes = 1
INVARIANTS
    CacheMatchesDisk
    AdminRemains
    UniqueNames
    OneRunAtATime
    NewestArtifactIsWhole
    NoStraySnapshots
    PairFromOneIssuance
    ListedFilesAreWhole
PROPERTIES
    PenaltyHolds
    RevokeIsFinal
    AlertIsSustained
    FilterIsTheAcceptedOne
CHECK_DEADLOCK FALSE

SPECIFICATION MCSpec
CONSTANTS
    Ops = {o1, o2}
    MaxCrashes = 2
    MaxFaults = 1
    Users = {u1}
    Names = {n1}
    Reqs = {r1, r2}
    Tokens = {t1}
    MaxPw = 1
    MaxGen = 1
    MaxAuthCrashes = 1
    MaxAuthFaults = 1
    MaxDrops = 1
    Chunks = 2
    MaxSessions = 1
    Scheds = {"s1", "s2"}
    Keeps = {1}
    ManualNames = {3}
    Period = 2
    MaxTime = 4
    MaxSchOps = 3
    MaxSchFaults = 1
    LibNames = {"n1"}
    Jobs = {"j2", "j3"}
    Downloads = {"j2", "j3"}
    MaxBody = 1
    MaxUpload = 1
    MaxRedirects = 1
    MaxHistory = 1
    MaxLibCrashes = 1
    SnapVms = {"v"}
    DisksOf <- MCDisksOf
    CopyOf <- MCCopyOf
    PoolOf <- TwoPools
    Tags = {"t"}
    SnapReqs = {1, 2}
    MaxSnapOps = 2
    MaxSnapFaults = 1
INVARIANTS
    TypeOK
    SuccessIsReal
    RecordedBeforeHost
    SnapshotsAreFresh
    NothingLeftOver
    ResetRevokes
    RecoveryCodeOnce
    StreamOkIsWhole
PROPERTIES
    TerminalIsFinal
    ImplementsLifecycle
    OperationsResolve
    RequestsFinish
    SessionEnds
    DueIsNotStuck
    CaptureSurvivesPrune
    DownloadOutcomeIsListed
    GuestThaws
CHECK_DEADLOCK FALSE

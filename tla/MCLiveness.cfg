SPECIFICATION LiveSpec
CONSTANTS
    n0 = n0
    n1 = n1
    m0 = m0
    m1 = m1
    Notes = {n1}
    Mocs = {m1}
    DirOf <- VaultDirOf
    PathRank <- VaultRank
    Kind <- OneKind
    Supplied <- OneInitial
    InitialVault <- OneInitial
    Noisy = {n1}
    b0 = b0
    b1 = b1
    t1 = t1
    r1 = r1
    r2 = r2
    NoReceipt = NoReceipt
    Effects = {1, 2}
    Targets = {t1}
    Bytes = {b0, b1}
    Runs = {r1, r2}
    TargetOf <- ChainTargetOf
    Prior <- ChainPrior
    Proposed <- ChainProposed
    RunOf <- ChainRunOf
    Original <- ChainOriginal
    InitialTarget <- ChainInitial
    Absent = Absent
    Unbound = Unbound
    NoIntent = NoIntent
    NoBatch = NoBatch
    NoWrite = NoWrite
    NoSignal = NoSignal
    Debounce = 1
    MaxDelay = 1
    Periodic = 1
    MaxPaths = 1
    MaxDisturbances = 1
    MaxNoteEdits = 1
    MaxRequests = 0
    MaxEdits = 0
    MaxFailures = 0
    MaxCrashes = 1
    MaxTargetEdits = 1
    MaxDeaths = 2
    MaxIoErrors = 0
    MaxAttempts = 1
    Requests = {"s1"}
    MaxVersions = 1
    MaxFaults = 1
PROPERTIES
    AcceptedIsReconciled
    ChangesAreReflected
    StartedIsDecided
    EditsArePublished
CHECK_DEADLOCK FALSE

SPECIFICATION Spec
CONSTANTS
    n0 = n0
    n1 = n1
    m0 = m0
    m1 = m1
    Notes = {n0, n1}
    Mocs = {m0, m1}
    DirOf <- VaultDirOf
    PathRank <- VaultRank
    Kind <- VaultKind
    Supplied <- VaultInitial
    InitialVault <- VaultInitial
    Noisy = {}
    Absent = Absent
    Unbound = Unbound
    NoIntent = NoIntent
    NoBatch = NoBatch
    NoWrite = NoWrite
    NoSignal = NoSignal
    Debounce = 1
    MaxDelay = 1
    Periodic = 1
    MaxPaths = 1
    MaxDisturbances = 2
    MaxNoteEdits = 2
    MaxRequests = 1
    MaxEdits = 1
    MaxFailures = 1
    MaxCrashes = 1
INVARIANTS
    MocTypeOK
    AcceptedEventsDurable
    OwnershipFollowsCommit
    NoSilentStaleness
PROPERTIES
    OnlyManagedTextReplaced

SPECIFICATION Spec
CONSTANTS
    b0 = b0
    b1 = b1
    t1 = t1
    t2 = t2
    r1 = r1
    r2 = r2
    r3 = r3
    Absent = Absent
    NoReceipt = NoReceipt
    Effects = {1, 2, 3}
    Targets = {t1}
    Bytes = {b0, b1}
    Runs = {r1, r2, r3}
    TargetOf <- ChainTargetOf
    Prior <- ChainPrior
    Proposed <- ChainProposed
    RunOf <- ChainRunOf
    Original <- ChainOriginal
    InitialTarget <- ChainInitial
    MaxEdits = 0
    MaxCrashes = 1
    MaxFailures = 0
    MaxAttempts = 2
INVARIANTS
    CrashNeverLooksCorrupt
CHECK_DEADLOCK FALSE

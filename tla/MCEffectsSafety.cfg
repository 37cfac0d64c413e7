SPECIFICATION Spec
CONSTANTS
    b0 = b0
    b1 = b1
    t1 = t1
    t2 = t2
    r1 = r1
    r2 = r2
    r3 = r3
    Absent = Absent
    NoReceipt = NoReceipt
    Effects = {1, 2}
    Targets = {t1, t2}
    Bytes = {b0, b1}
    Runs = {r1, r2, r3}
    TargetOf <- BatchTargetOf
    Prior <- BatchPrior
    Proposed <- BatchProposed
    RunOf <- BatchRunOf
    Original <- BatchOriginal
    InitialTarget <- BatchInitial
    MaxEdits = 1
    MaxCrashes = 1
    MaxFailures = 1
    MaxAttempts = 2
INVARIANTS
    TypeOK
    BeforeImageArchived
    SealedReceiptsRetained
    CommittedEvidenceComplete
PROPERTIES
    OnlyPriorReplaced
CHECK_DEADLOCK FALSE

SPECIFICATION PartsSpec
CONSTANTS
    p1 = p1
    p2 = p2
    p3 = p3
    q1 = q1
    here = here
    there = there
    NoLease = NoLease
    Processes = {p1, p2, p3, q1}
    HostOf <- MCHostOf
    MaxLeases = 3
    Nothing = Nothing
    s1 = s1
    Requests = {s1}
    MaxEdits = 2
    MaxFailures = 1
    Readers = {s1}
    MaxAttempts = 3
    MaxDeaths = 3
    MaxTorn = 1
    MaxIoErrors = 1
    LedgerJobs = {"j1", "j2"}
    ScopeOf <- OneScope
    CorpusOf <- OneCorpus
    Episodes = 2
    Workers = {"w1", "w2"}
    Capacity = 1
    MaxChanges = 2
    NoLedgerJob = "none"
    NoWorker = "none"
    Credentials = {"c1", "c2"}
    Sessions = {"x1", "x2"}
    Searches = {1, 2, 3, 4, 5, 6}
    SearchedBy <- SearchOf
    CapOf <- SlotsOf
    Slots = 2
    QueueCap = 3
    CredentialCap = 2
    SessionCap = 1
INVARIANTS
    TypeOK
    ExclusiveUnlessTakeoversOverlap
    QuarantineNamesItsLease
    HostTypeOK
    FailureIsRetried
    HintsReachAScan
    CoverageIsOfTheGeneration
    AnswersAreCurrent
    ReadersSeeActivated
    StoresAgree
    RecoveryFinishes
    OneWriter
    TransitionsComplete
    PublishedIsWhole
    PurgedStaysAbsent
    WaitersAreServed
CHECK_DEADLOCK FALSE

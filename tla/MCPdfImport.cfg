CONSTANTS
    ana = ana
    rui = rui
    p1 = p1
    s1 = s1
    s2 = s2
    s3 = s3
    l1 = l1
    l2 = l2
    NumBatches = 1
    Workers = {w1, w2}
    Users = {ana, rui}
    Partners = {p1}
    Snapshots = {s1, s2}
    Lawsuits = {l1, l2}
    PartnerOf <- OnePartner
    PeriodOf <- OnePeriod
    Portfolio <- OnePortfolio
    Uploader <- SentByAna
    VerdictOf <- MixedVerdicts
    MaxAttempts = 2
    MaxRevision = 4
    FourEyes = TRUE
    Corrections = TRUE
    OfferedOnly = TRUE
    NoRun = NoRun
    NoWorker = NoWorker
SPECIFICATION Spec
SYMMETRY WorkerSymmetry
INVARIANTS
    TypeOK
    ApprovedAsShown
    NoApprovalDuringReprocess
    SucceededMeansServed
PROPERTIES
    LifecycleRespected
    OutOfScopeUntouched

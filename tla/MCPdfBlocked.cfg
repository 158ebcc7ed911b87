CONSTANTS
    ana = ana
    rui = rui
    p1 = p1
    s1 = s1
    s2 = s2
    s3 = s3
    l1 = l1
    l2 = l2
    NumBatches = 1
    Workers = {w1, w2}
    Users = {ana}
    Partners = {p1}
    Snapshots = {s1, s2}
    Lawsuits = {l1}
    PartnerOf <- OnePartner
    PeriodOf <- OnePeriod
    Portfolio <- OnePortfolio
    Uploader <- SentByAna
    VerdictOf <- CleanVerdicts
    MaxAttempts = 2
    MaxRevision = 4
    FourEyes = FALSE
    Corrections = TRUE
    OfferedOnly = FALSE
    NoRun = NoRun
    NoWorker = NoWorker
SPECIFICATION Spec
INVARIANTS
    RequestBlocksApproval

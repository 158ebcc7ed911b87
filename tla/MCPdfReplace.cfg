CONSTANTS
    ana = ana
    rui = rui
    p1 = p1
    s1 = s1
    s2 = s2
    s3 = s3
    l1 = l1
    l2 = l2
    NumBatches = 2
    Workers = {w1}
    Users = {ana, rui}
    Partners = {p1}
    Snapshots = {s2}
    Lawsuits = {l1, l2}
    PartnerOf <- OnePartner
    PeriodOf <- OnePeriod
    Portfolio <- Shared
    Uploader <- SentByAna
    VerdictOf <- MixedVerdicts
    MaxAttempts = 2
    MaxRevision = 0
    FourEyes = FALSE
    Corrections = FALSE
    OfferedOnly = FALSE
    NoRun = NoRun
    NoWorker = NoWorker
SPECIFICATION Spec
INVARIANTS
    OneCurrentPortfolio
PROPERTIES
    RegisterKept

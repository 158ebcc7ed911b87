CONSTANTS
    ana = ana
    rui = rui
    p1 = p1
    s1 = s1
    s2 = s2
    s3 = s3
    l1 = l1
    l2 = l2
    NumBatches = 2
    Workers = {w1}
    Users = {ana}
    Partners = {p1}
    Snapshots = {s2}
    Lawsuits = {l1, l2}
    PartnerOf <- OnePartner
    PeriodOf <- MonthSoFar
    Portfolio <- Disjoint
    Uploader <- SentByAna
    VerdictOf <- MixedVerdicts
    MaxAttempts = 2
    MaxRevision = 0
    FourEyes = FALSE
    Corrections = FALSE
    OfferedOnly = TRUE
    NoRun = NoRun
    NoWorker = NoWorker
SPECIFICATION Spec
INVARIANTS
    OneApprovalPerMonth

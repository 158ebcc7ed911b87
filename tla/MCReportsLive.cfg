CONSTANTS
    NumBatches = 1
    PeriodOf <- SamePeriod
    Synthetic = TRUE
    Workers = {w1}
    MaxAttempts = 2
    MaxKey = 1
    MaxBump = 2
    MaxVersions = 2
    Faults = {}
    NoWorker = NoWorker
SPECIFICATION FairSpec
INVARIANTS
    DoneMeansMade
PROPERTIES
    RequestSettles

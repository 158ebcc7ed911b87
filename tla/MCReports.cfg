CONSTANTS
    NumBatches = 2
    PeriodOf <- SamePeriod
    Synthetic = FALSE
    Workers = {w1, w2}
    MaxAttempts = 2
    MaxKey = 1
    MaxBump = 1
    MaxVersions = 2
    Faults = {}
    NoWorker = NoWorker
SPECIFICATION Spec
SYMMETRY WorkerSymmetry
INVARIANTS
    TypeOK
    VisibleComplete
    InsertNeverCollides
    AlwaysOneToRead
    ReplacementNotOverridden
PROPERTIES
    QueueKept

CONSTANTS
    Ids = {1, 2, 3}
    Versions = {1, 2}
    Limit = 2
    MaxRetries = 1
    MaxChanges = 2
    Resource = "lawsuits"
    References = {c1}
    RefersTo <- MCRefersTo
    MaxBatches = 2
    Complete <- MCComplete
    NoText = NoText
    Items <- MCItems
    Numbering <- MCNumbering
    Filing <- MCFiling
SPECIFICATION Spec
CONSTRAINT OneReader
CHECK_DEADLOCK FALSE
INVARIANTS
    TypeOK
    SucceededComplete
    MatchedAsInSource
    OneItemPerLawsuit
PROPERTIES
    ReprocessHeals

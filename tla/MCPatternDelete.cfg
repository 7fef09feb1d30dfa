SPECIFICATION FairSpec
CONSTANTS
    MaxId = 4
    PageSize = 3
    Limit = 2
INVARIANTS TypeOK ScanIsExact
PROPERTY EndsWithEnough

SPECIFICATION FairSpec
CONSTANTS
    RowWords = 2
    LineRows = 2
    NumPages = 2
    NumSets = 1
    Ways = {0, 1}
    Targets <- MCTargets
    FETCH_BUFFER_SZ = 2
INVARIANTS OnThePath RightRow FreshAfterFence
PROPERTY FetchContinues

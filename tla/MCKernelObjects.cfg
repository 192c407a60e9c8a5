SPECIFICATION SpecAll
CONSTANTS
    MaxWritten = 4
    MaxNum = 2
    MemMaps <- GoodMaps
    Enough = 6
    FlagsPerPage = 7
    MaxPages = 3
    Align = 2
    PageSize = 8
    HeapStart = 8
    Sizes = {1, 4, 8}
    Limits = {1, 3}
INVARIANTS
    PipeConsistent FirstReadInOrder
    PagesOwnedOnce HaltsOnlyWhenFull
    HeapConsistent GrowsOnlyIfNeeded
PROPERTY CallsEnd

SPECIFICATION PagesFairSpec
CONSTANTS
    a = a
    b = b
    c = c
    twoPages = twoPages
    onePage = onePage
    None = None
    Movies <- MCMovies
    Filters <- MCFilters
    Catalog <- MCCatalog
    InitialDisk <- MCInitialDisk
    DefaultFilter = twoPages
    DefaultTotal = 100
    ServerMaxPage = 2
    Enough = 1
    MaxStarts = 2
    MaxSaves = 1
INVARIANTS
    NoPageSkipped
    NoPageRepeated
    OnePassPerLoad
PROPERTIES
    LoadsAdvance
    LoadsEnd
\* The app waits for its user once the bounds are used up.
CHECK_DEADLOCK FALSE

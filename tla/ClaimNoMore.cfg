SPECIFICATION Spec
CONSTANTS
    a = a
    b = b
    twoPages = twoPages
    onePage = onePage
    None = None
    Movies <- MCMovies
    Filters <- TwoFilters
    Catalog <- MCCatalog
    InitialDisk <- NoDisk
    DefaultFilter = twoPages
    DefaultTotal = 100
    ServerMaxPage = 3
    Enough = 0
    MaxStarts = 2
    MaxSaves = 0
    Decks <- MCDecks
    AccountLists <- EmptyAccount
    Swipes = {"skipped"}
PROPERTIES
    NoMoreMoviesIsTrue
\* The app waits for its user once the bounds are used up.
CHECK_DEADLOCK FALSE

SPECIFICATION Spec
CONSTANTS
    a = a
    b = b
    twoPages = twoPages
    onePage = onePage
    None = None
    Movies <- MCMovies
    Filters <- OneFilter
    Catalog <- MCCatalog
    InitialDisk <- NoDisk
    DefaultFilter = onePage
    DefaultTotal = 100
    ServerMaxPage = 1
    Enough = 0
    MaxStarts = 2
    MaxSaves = 1
    Decks <- MCDecks
    AccountLists <- TwoAccounts
    Swipes = {"skipped"}
INVARIANTS
    LoadsAccountedFor
    CardsAreUndecided
PROPERTIES
    DeckIsFresh
    EmptyScreenIsTold
    DeckSpec
    FetchSpec
\* The app waits for its user once the bounds are used up.
CHECK_DEADLOCK FALSE

SPECIFICATION WatchSpec
CONSTANTS
    a = a
    b = b
    None = None
    Unknown = Unknown
    Movies <- MCMovies
    Watchlists <- MCWatchlists
    MaxLoads = 2
    MaxStars = 1
SYMMETRY Alike
INVARIANTS
    WatchInv
    CacheIsWatchlist
PROPERTIES
    ShowsWholeList
\* The app waits for its user once the bounds are used up.
CHECK_DEADLOCK FALSE

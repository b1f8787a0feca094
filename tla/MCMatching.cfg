SPECIFICATION MatchSpec
CONSTANTS
    a = a
    b = b
    f = f
    g = g
    None = None
    Unknown = Unknown
    Movies <- MCMovies
    Friends <- MCFriends
    WatchlistOf <- MCWatchlistOf
    ExcludedOf <- MCExcludedOf
    Watchlists <- MCWatchlists
    MaxVisits = 2
INVARIANTS
    MatchInv
    ResultsOfChoice
    WholeResults

-------------------------- MODULE MCWatchlistCache --------------------------
(* Two movies, and watchlists with a movie twice, two equally long.        *)
EXTENDS WatchlistCache, TLC

CONSTANTS a, b

MCMovies == {a, b, Unknown}
MCWatchlists == {NoMovies} \cup {Plus(Plus(NoMovies, m), m) : m \in {a, b}}
Alike == Permutations({a, b})
=============================================================================

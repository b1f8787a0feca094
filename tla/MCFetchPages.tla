---------------------------- MODULE MCFetchPages ----------------------------
(* Loading on its own, with every answer of removeAlreadySwiped: a query   *)
(* with two pages and one with a single page, one movie in both, and a     *)
(* page number of an earlier launch in UserDefaults.                       *)
EXTENDS FetchPages

CONSTANTS a, b, c, twoPages, onePage

MCMovies == {a, b, c}
MCFilters == {twoPages, onePage}
MCCatalog == [f \in Filters |-> IF f = twoPages THEN <<<<a, b>>, <<c>>>> ELSE <<<<c>>>>]
MCInitialDisk == {None, [id |-> onePage, page |-> 2, totalPages |-> 1]}

ASSUME OncePerQuery
=============================================================================

--------------------------- MODULE MCSwipeScreen ---------------------------
(* The swipe screen on a query with one page of two movies, or on two       *)
(* queries that share a movie, and accounts that are empty or have one.     *)
(* What one load shows is a part of that page; two loads that overlap put   *)
(* their parts together.                                                    *)
EXTENDS ScreenClaims

CONSTANTS a, b, twoPages, onePage

MCMovies == {a, b}
OneFilter == {onePage}
TwoFilters == {twoPages, onePage}
MCCatalog == [f \in Filters |-> IF f = twoPages THEN <<<<a>>, <<b>>>> ELSE <<<<a, b>>>>]
NoDisk == {None}
Parts == {<<>>, <<a>>, <<b>>, <<a, b>>}
MCDecks == {s \o t : s, t \in Parts}
EmptyAccount == {NoLists}
TwoAccounts == {NoLists, [NoLists EXCEPT !["skipped"] = {b}]}

ASSUME OncePerQuery
=============================================================================

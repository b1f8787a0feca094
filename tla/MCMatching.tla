----------------------------- MODULE MCMatching -----------------------------
(* Two friends who have and exclude different ones of two movies.          *)
EXTENDS Matching

CONSTANTS a, b, f, g

MCMovies == {a, b, Unknown}
MCFriends == {f, g}
MCWatchlistOf == [x \in MCFriends |-> IF x = f THEN {a} ELSE {b}]
MCExcludedOf == [x \in MCFriends |-> IF x = f THEN {b} ELSE {a}]
MCWatchlists == {[m \in MCMovies |-> IF m = b THEN i ELSE IF m = a THEN 1 ELSE 0] : i \in {0, 2}}
=============================================================================

------------------------------ MODULE MovieBags ------------------------------
(* Lists of movies as bags, how often each movie is in them: where their   *)
(* order only matters to the layout, and their length to the code.         *)
EXTENDS MovieIds, FiniteSets, Naturals, Functions

CONSTANT Unknown   \* the movie of id 0 that Movie makes of an error's JSON

ASSUME MoviesAssumption == IsFiniteSet(Movies) /\ Unknown \in Movies

Bags == [Movies -> Nat]
NoMovies == [m \in Movies |-> 0]
IdLists == {list \in Bags : list[Unknown] = 0}

Length(list) == SumFunction(list)
Plus(list, m) == [list EXCEPT ![m] = @ + 1]
Minus(list, m) == [list EXCEPT ![m] = @ - 1]
=============================================================================

---------------------------- MODULE ScreenClaims ----------------------------
(***************************************************************************)
(* What an alert of the swipe screen tells its user, stated of             *)
(* SwipeScreen.  It does not hold of the code.                             *)
(***************************************************************************)
EXTENDS SwipeScreen

(* "There are no more movies with this active filter" (SwipeView.swift:104):*)
(* every page TMDB has for the filter was requested, page being the next   *)
(* one to request.                                                         *)
NoMoreMoviesIsTrue ==
    [][ modal # "noMoreMovies" /\ modal' = "noMoreMovies" =>
          filter'.page > Len(Catalog[filter'.id]) ]_screenVars
=============================================================================

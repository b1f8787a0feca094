---------------------------- MODULE MCUserSession ----------------------------
(* Two accounts and two phones, with one movie: a verdict is lost, kept or *)
(* filed to the wrong owner independently of the others.                   *)
EXTENDS SessionClaims

CONSTANTS anna, ben, a

MCAccounts == {anna, ben}
MCSecondPhone == {ben}
MCMovies == {a}
=============================================================================

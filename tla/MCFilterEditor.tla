--------------------------- MODULE MCFilterEditor ---------------------------
(* Two genres and the heading on a screen of two rows; years that are in   *)
(* one year, that hold one whole year, and the widest.                     *)
EXTENDS FilterEditor

CONSTANTS a, b

MCGenreList == <<a, b>>
MCMinYears == {20002}
MCMaxYears == {20009, 20011}
=============================================================================

------------------------------ MODULE MovieIds ------------------------------
(* The values every component of Movieskip shares.                         *)
CONSTANTS
    Movies,     \* Movie.id, as TMDB assigns them
    None        \* nil: no card, no animation, nothing stored
=============================================================================

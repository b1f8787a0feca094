-------------------------------- MODULE Ranks --------------------------------
(* How it is told that something comes to an end: by numbers in order of    *)
(* weight, one of which falls in every step while those before it stay.     *)
EXTENDS Naturals, Sequences

Lower(r, s) ==
    \E i \in 1..Len(s) : r[i] < s[i] /\ \A j \in 1..(i - 1) : r[j] = s[j]
===============================================================================

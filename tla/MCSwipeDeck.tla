---------------------------- MODULE MCSwipeDeck ----------------------------
(* The deck on its own: two movies, every deck of at most three cards (also *)
(* decks with the same movie twice), every content of the three lists.     *)
EXTENDS SwipeDeck

MCDecks == {<<>>} \cup UNION {[1..n -> Movies] : n \in 1..3}
MCAccountLists == [Lists -> SUBSET Movies]
=============================================================================

----------------------------- MODULE MCFriends -----------------------------
(* Three users: any two can be the user and a friend, or two friends; all  *)
(* of them named, or two by the same name and one not named yet.           *)
EXTENDS Friends

CONSTANTS a, b, c, n1, n2, n3

MCUsers == {a, b, c}
MCLists == {[u \in MCUsers |-> IF u \in list THEN 1 ELSE 0] : list \in {{}, {b}, {b, c}}}
MCNames == {n1, n2, n3}
MCNamesThen == {[u \in MCUsers |-> IF u = a THEN n1 ELSE IF u = b THEN n2 ELSE n3],
                [u \in MCUsers |-> IF u = a THEN Unnamed ELSE n2]}
MCSearches == {MCNames, {n2}}
=============================================================================

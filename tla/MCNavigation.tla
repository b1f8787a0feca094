----------------------------- MODULE MCNavigation -----------------------------
(* Two accounts and two names: enough for a name to be taken early, late or*)
(* never, and for a sign-in to replace the user who is being asked.        *)
EXTENDS Navigation, TLC

CONSTANTS anna, ben, n1, n2

MCAccounts == {anna, ben}
MCNames == {n1, n2}
Alike == Permutations(MCAccounts) \cup Permutations(MCNames)
=============================================================================

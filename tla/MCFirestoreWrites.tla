-------------------------- MODULE MCFirestoreWrites --------------------------
(* Two users of a phone; one of them may be the signed-out one.  They are  *)
(* alike, so it does not matter with which of them the phone begins.       *)
EXTENDS FirestoreWrites

CONSTANTS anna, ben

BothUsers == {anna, ben}

AnnaFirst == FirestoreInit /\ authUser = anna
AnnaFirstSpec == AnnaFirst /\ [][FirestoreNext]_writeVars /\ FirestoreFairness
===============================================================================

---------------------------- MODULE SessionClaims ----------------------------
(***************************************************************************)
(* What an alert of the registration tells its user, stated of             *)
(* UserSession.  It does not hold of the code.                             *)
(***************************************************************************)
EXTENDS UserSession

(* "please try closing the app and starting again" (RegisterView.swift:95):*)
(* started again, and with every request answered, the home screen works   *)
(* for a user or for the local user.                                       *)
HomeHasLists ==
    screen = "home" /\ fetches = {} /\ flow = NoFlow =>
        user # None \/ localUser # None
=============================================================================

---------------------------- MODULE SwipeScreen ----------------------------
(***************************************************************************)
(* The swipe screen: the deck (SwipeDeck) and the loading of movies        *)
(* (MovieFetch) put together as View/SwipeView.swift does, under           *)
(* Controller/MovieskipController.swift and Xcode-Default/SceneDelegate.   *)
(*                                                                         *)
(* A response installs the deck; the deck decides when the refill button   *)
(* is there to start a load; the lists the deck files into decide what     *)
(* removeAlreadySwiped leaves out of a response; what the controller       *)
(* presents keeps the user off the deck; and the account is replaced by    *)
(* the two fetches of the launch, a logout or a sign-in at any moment.     *)
(***************************************************************************)
EXTENDS SwipeDeck, MovieFetch

VARIABLES
    sceneFetch,     \* the fetch of fetchAndSetUser is in flight
    userFetch,      \* the fetch of configureUser is in flight
    overlaps,       \* history: loads started by the filter screen or a
                    \* sign-in since no request was in flight
    old,            \* history: movies in the lists ever since the last load
                    \* was started
    clean           \* history: since the last load was started on an empty
                    \* screen, every actor has kept out of the others' way

launchVars == <<sceneFetch, userFetch>>
screenVars == <<deckVars, fetchVars, launchVars, overlaps, old, clean>>

SameDeck == UNCHANGED deckVars
SameFetch == UNCHANGED fetchVars
SameLaunch == UNCHANGED launchVars

(* History of a step that starts no load, and of one that does; n: whether *)
(* it is one that the refill button does not guard.                        *)
KeepOverlaps == overlaps' = IF requests' = {} THEN 0 ELSE overlaps
KeepRound ==
    /\ KeepOverlaps
    /\ old' = old \cap Recorded'
    /\ clean' = (clean /\ ~disturbed' /\ pure')
NewRound(n) ==
    /\ overlaps' = IF requests' = {} THEN 0 ELSE overlaps + n
    /\ old' = Recorded
    /\ clean' = (requests = {} /\ cards' = <<>> /\ ~InFlight)
NewAccount ==
    /\ KeepOverlaps
    /\ old' = old \cap Recorded'
    /\ clean' = (clean /\ requests = {} /\ cards = <<>> /\ ~InFlight)

(* Launch, after SceneDelegate.init and configureUser: signed in, with two *)
(* fetches of the user's document in flight; or with the local user only,  *)
(* and the login either skipped before or asked for.                       *)
Init ==
    /\ DeckInit
    /\ FetchInit
    /\ sceneFetch = ~hasAccount /\ userFetch = ~hasAccount
    /\ IF hasAccount THEN loaded = ~loginAsked ELSE ~loaded /\ ~loginAsked
    /\ overlaps = 0
    /\ old = {}
    /\ clean = TRUE

(* A button of the bottom row, the end of a pan, the star; only while      *)
(* nothing covers the screen.                                              *)
UserSwipes ==
    /\ modal = "none"
    /\ \/ \E l \in Swipes : Tap(l) \/ PanRelease(l)
       \/ AddWatchlist
    /\ SameFetch /\ SameLaunch /\ KeepRound

AnimationEnds ==
    /\ SwipeAnimationDone \/ PanDone
    /\ SameFetch /\ SameLaunch /\ KeepRound

(* The refill button: resetMovieData, then fetchMovies.                    *)
RefillMovies ==
    /\ ~refillHidden
    /\ Refill
    /\ Install(<<>>)
    /\ SameLaunch /\ NewRound(0)

(* Saving the filter leaves the deck in place until the load has ended.    *)
SaveNewFilter ==
    /\ \E q \in Filters : ApplyFilter(q)
    /\ SameDeck /\ SameLaunch /\ NewRound(1)

(* Mutant: the page is reset as soon as the account is set.                *)
AuthenticatedResets ==
    /\ modal = "login"
    /\ AccountChanges
    /\ filter' = [filter EXCEPT !.page = 1]
    /\ UNCHANGED <<disk, uiVars, requests, moviesToDisplay, modal, starts, saves, pure>>
    /\ SameLaunch /\ NewAccount

(* A sign-in or the skipped login sets the account: on the login screen, or*)
(* over any other once that was left.                                      *)
Authenticated ==
    /\ modal = "login" \/ signInsLeft
    /\ AccountChanges
    /\ SameFetch /\ SameLaunch /\ NewAccount

SignedIn == \E named \in BOOLEAN : SignIn(named)

(* Mutant: the cards go and topCardView stays.                             *)
AuthenticationKeepsTop ==
    /\ SignedIn
    /\ cards' = <<>> /\ refillHidden' = TRUE
    /\ UNCHANGED <<topCard, ready, swipeFlight, panFlight, hasAccount, lists,
                   verdicts, disturbed>>
    /\ SameLaunch /\ NewRound(1)

(* authenticationComplete: once what was presented is gone the deck is     *)
(* reset and a load started; handleUserLoggedIn gets here after an error   *)
(* too.                                                                    *)
AuthenticationComplete ==
    /\ SignedIn
    /\ Install(<<>>)
    /\ SameLaunch /\ NewRound(1)

(* logout clears the user, which leaves the local user if there is one;    *)
(* userPressedRegister only asks for the login screen.                     *)
LogoutOrRegister ==
    /\ AskLogin
    /\ \/ SameDeck /\ KeepRound
       \/ AccountChanges /\ NewAccount
    /\ SameLaunch

(* A response: a load that has enough movies replaces the deck.            *)
Response ==
    /\ \E r \in requests : Respond(r, Recorded)
    /\ IF Len(moviesToDisplay') > Enough
       THEN Install(moviesToDisplay')
       ELSE SameDeck
    /\ SameLaunch /\ KeepRound

Failure ==
    /\ \E r \in requests : Fail(r)
    /\ SameDeck /\ SameLaunch /\ KeepRound

(* Opening and closing screens, and the filter saved by a scene callback   *)
(* (saveUserDataOnExit changes nothing in memory).                         *)
ScreenOnly ==
    /\ OpenFilter \/ CloseModal \/ PresentLogin \/ PresentOther \/ SaveFilter
    /\ SameDeck /\ SameLaunch /\ KeepRound

(* fetchAndSetUser: the user's document, or the local user after an error, *)
(* which shows only while there is no user.                                *)
SceneUserFetched ==
    /\ sceneFetch
    /\ sceneFetch' = FALSE
    /\ SameFetch /\ UNCHANGED userFetch
    /\ \/ \E l \in AccountLists : SetAccount(TRUE, l) /\ NewAccount
       \/ SameDeck /\ KeepRound

(* configureUser: the user's document overwrites the user and the filter   *)
(* is loaded; no document, or an error with its alert.                     *)
UserFetched ==
    /\ userFetch
    /\ userFetch' = FALSE
    /\ \/ /\ \E l \in AccountLists : SetAccount(TRUE, l)
          /\ \E next \in {"none", "username"} : LoadFilter(next)
          /\ NewAccount
       \/ (PresentOther \/ SameFetch) /\ SameDeck /\ KeepRound
    /\ UNCHANGED sceneFetch

Next ==
    \/ UserSwipes
    \/ AnimationEnds
    \/ RefillMovies
    \/ SaveNewFilter
    \/ Authenticated
    \/ AuthenticationComplete
    \/ LogoutOrRegister
    \/ Response
    \/ Failure
    \/ ScreenOnly
    \/ SceneUserFetched
    \/ UserFetched

Spec == Init /\ [][Next]_screenVars

-----------------------------------------------------------------------------

(* Every request in flight is accounted for: besides the loads started by  *)
(* the filter screen and sign-ins there is at most one, and none at all    *)
(* while the deck has cards or the refill button shows.  Hence no response *)
(* replaces the deck under the user's finger, and the refill button starts *)
(* no second load, unless the user asked for an overlap (configureCards    *)
(* hides the button; fetchMovies itself has no guard against two loads).   *)
LoadsAccountedFor ==
    /\ Cardinality(requests) <= overlaps + 1
    /\ cards # <<>> \/ ~refillHidden => Cardinality(requests) <= overlaps

(* A movie that was in the lists when the load began is not shown by it,   *)
(* whatever overlaps (removeAlreadySwiped, on every response).             *)
DeckIsFresh ==
    [][ cards' # cards /\ requests' # requests => ToSet(cards') \cap old' = {}
      ]_screenVars

(* An empty screen without its refill button and without a request in      *)
(* flight is where the user is stuck.  configureCards hides the button     *)
(* before anything is known of the load, so it may be reached, but only by *)
(* a step that shows an alert or that leaves another screen on top, which  *)
(* UIKit puts before the alert: never silently under the user's eyes.      *)
Stuck == cards = <<>> /\ refillHidden /\ requests = {}
EmptyScreenIsTold == [][ ~Stuck /\ Stuck' => modal' # "none" ]_screenVars

(* Every card still to be swiped is of a movie without a verdict, and of   *)
(* one movie only: the card of the button animation is the one exception.  *)
(* It is what makes a verdict count once; it depends on the load, the      *)
(* deck, the animations and the account keeping step, which they do unless *)
(* a load overlapped, a save rewound it, an animation was disturbed, or    *)
(* the account changed under a deck or a load.                             *)
CardsAreUndecided ==
    clean => /\ IsInjective(cards)
             /\ \A i \in DOMAIN cards :
                  cards[i] \in Recorded => i = Len(cards) /\ swipeFlight = cards[i]
=============================================================================

------------------------------ MODULE SwipeDeck ------------------------------
(***************************************************************************)
(* The deck of movie cards of View/SwipeView.swift, the pan gesture of     *)
(* View/HomeView/CardView.swift and the part of SceneDelegate.swift that   *)
(* files a verdict into the lists of the current account.                  *)
(*                                                                         *)
(* Everything runs on the main thread.  What interleaves is the order of   *)
(* the callbacks: a button starts a two second animation and the card is   *)
(* only taken off the deck by the completion of that animation; a pan      *)
(* files its verdict and takes a card off in the completion of a 0.3       *)
(* second animation; the star button does both at once; and a response     *)
(* can replace the whole deck between any two of them.                     *)
(***************************************************************************)
EXTENDS Integers, Sequences, SequencesExt, MovieIds

CONSTANTS
    Decks,          \* the decks a response may install
    AccountLists,   \* the contents the lists of an account may have
    Swipes          \* bound: the verdicts tried, of excluded and skipped

Lists == {"watchlist", "excluded", "skipped"}
NoLists == [l \in Lists |-> {}]

Pans == [movie : Movies, list : {"excluded", "skipped"}]

ASSUME NoneAssumption == None \notin Movies \cup Pans
ASSUME DecksAssumption == Decks \subseteq Seq(Movies)
ASSUME SwipesAssumption == Swipes \subseteq {"excluded", "skipped"}
ASSUME AccountAssumption == AccountLists \subseteq [Lists -> SUBSET Movies]

VARIABLES
    cards,          \* cardViews: the last one is on top
    topCard,        \* topCardView
    ready,          \* swipeAnimationReady
    swipeFlight,    \* the movie whose button animation is running, or None
    panFlight,      \* the movie and list of the pan animation running, or None
    refillHidden,   \* refillMoviesButton.isHidden
    hasAccount,     \* user # nil or localUser # nil
    lists,          \* watchlist, excluded and skipped of that account
    verdicts,       \* history: verdicts filed since topCard last changed
    disturbed       \* history: another actor stepped during an animation

deckVars == <<cards, topCard, ready, swipeFlight, panFlight, refillHidden,
              hasAccount, lists, verdicts, disturbed>>

InFlight == swipeFlight # None \/ panFlight # None
Recorded == UNION {lists[l] : l \in Lists}
Top(s) == IF s = <<>> THEN None ELSE Last(s)

DeckInit ==
    /\ cards = <<>> /\ topCard = None
    /\ ready = TRUE
    /\ swipeFlight = None /\ panFlight = None
    /\ refillHidden = FALSE
    /\ \/ hasAccount = FALSE /\ lists = NoLists
       \/ hasAccount = TRUE /\ lists \in AccountLists
    /\ verdicts = 0 /\ disturbed = FALSE

(* addToWatchlist / addToExcluded / addToSkipped: the verdict is dropped   *)
(* while neither a user nor a local user is loaded.                        *)
Record(list, m) ==
    lists' = IF hasAccount THEN [lists EXCEPT ![list] = @ \cup {m}] ELSE lists

Filed == IF hasAccount THEN 1 ELSE 0

RemoveTop ==
    /\ cards' = IF cards = <<>> THEN cards ELSE Front(cards)
    /\ topCard' = Top(cards')
    /\ verdicts' = 0

(* Mutant: the refill button shows over the last card.                     *)
UpdateCardViewEarly ==
    /\ RemoveTop
    /\ refillHidden' = (refillHidden /\ (cards = <<>> \/ Len(cards') > 1))

(* updateCardView: takes off whatever card is on top now.                  *)
UpdateCardView ==
    /\ RemoveTop
    /\ refillHidden' = (refillHidden /\ (cards = <<>> \/ cards' # <<>>))

Rebuild(ms) ==
    /\ cards' = ms
    /\ topCard' = Top(ms)
    /\ verdicts' = 0
    /\ disturbed' = InFlight
    /\ UNCHANGED <<ready, swipeFlight, panFlight, hasAccount, lists>>

(* Mutant: the refill button stays where it is.                            *)
InstallUnderButton(ms) == Rebuild(ms) /\ UNCHANGED refillHidden

(* didSet of movies: configureCards rebuilds the deck; resetMovieData is   *)
(* the same with no movies.  An animation under way keeps its completion.  *)
Install(ms) == Rebuild(ms) /\ refillHidden' = TRUE

SwipeTop(list) ==
    /\ topCard # None
    /\ Record(list, topCard)
    /\ verdicts' = verdicts + Filed
    /\ ready' = FALSE
    /\ swipeFlight' = topCard
    /\ disturbed' = (panFlight # None)
    /\ UNCHANGED <<cards, topCard, panFlight, refillHidden, hasAccount>>

(* Mutant: the buttons stay enabled during the animation.                  *)
TapAnyTime(list) == SwipeTop(list)

(* handleSkip and handleExclude: file the verdict now, animate, and leave  *)
(* the card on the deck until the animation completes.                     *)
Tap(list) == ready /\ SwipeTop(list)

TakeOffSwiped ==
    /\ swipeFlight # None
    /\ swipeFlight' = None
    /\ UpdateCardView
    /\ disturbed' = (disturbed /\ panFlight # None)
    /\ UNCHANGED <<panFlight, hasAccount, lists>>

(* Mutant: the completion does not enable the buttons again.               *)
SwipeAnimationForgets == TakeOffSwiped /\ UNCHANGED ready

(* The completion in performSwipeAnimation.                                *)
SwipeAnimationDone == TakeOffSwiped /\ ready' = TRUE

(* resetCardPosition when the card was dragged far enough.  The start of a *)
(* pan ends the animations of every card of the deck, hence at most one    *)
(* pan animation; a button can still be tapped during the drag.            *)
PanRelease(list) ==
    /\ topCard # None
    /\ panFlight = None
    /\ panFlight' = [movie |-> topCard, list |-> list]
    /\ disturbed' = InFlight
    /\ UNCHANGED <<cards, topCard, ready, swipeFlight, refillHidden,
                   hasAccount, lists, verdicts>>

(* cardView(_:didLikeMovie:), from the completion of the pan animation:    *)
(* the verdict is for the panned card, the card taken off is the top one.  *)
PanDone ==
    /\ panFlight # None
    /\ Record(panFlight.list, panFlight.movie)
    /\ panFlight' = None
    /\ UpdateCardView
    /\ disturbed' = (disturbed /\ swipeFlight # None)
    /\ UNCHANGED <<ready, swipeFlight, hasAccount>>

StarTop ==
    /\ topCard # None
    /\ Record("watchlist", topCard)
    /\ disturbed' = InFlight
    /\ UNCHANGED <<ready, swipeFlight, panFlight, hasAccount>>

(* Mutant: the star files the movie and leaves its card on the deck.       *)
AddWatchlistKeepsCard ==
    StarTop /\ UNCHANGED <<cards, topCard, refillHidden, verdicts>>

(* handleAddWatchlist: not guarded by swipeAnimationReady.                 *)
AddWatchlist == StarTop /\ UpdateCardView

(* user or localUser is set, replaced or cleared.                          *)
SetAccount(has, l) ==
    /\ hasAccount' = has
    /\ lists' = l
    /\ disturbed' = InFlight
    /\ UNCHANGED <<cards, topCard, ready, swipeFlight, panFlight,
                   refillHidden, verdicts>>

AccountChanges ==
    \/ SetAccount(FALSE, NoLists)
    \/ \E l \in AccountLists : SetAccount(TRUE, l)

DeckNext ==
    \/ \E ms \in Decks : Install(ms)
    \/ \E l \in Swipes : Tap(l)
    \/ SwipeAnimationDone
    \/ \E l \in Swipes : PanRelease(l)
    \/ PanDone
    \/ AddWatchlist
    \/ AccountChanges

DeckSpec == DeckInit /\ [][DeckNext]_deckVars

-----------------------------------------------------------------------------

DeckTypeOK ==
    /\ cards \in Seq(Movies)
    /\ topCard \in Movies \cup {None}
    /\ ready \in BOOLEAN
    /\ swipeFlight \in Movies \cup {None}
    /\ panFlight \in Pans \cup {None}
    /\ refillHidden \in BOOLEAN
    /\ hasAccount \in BOOLEAN
    /\ lists \in [Lists -> SUBSET Movies]
    /\ verdicts \in Nat
    /\ disturbed \in BOOLEAN

(* What the completions rely on: topCardView is the last card view, and    *)
(* the buttons are enabled exactly while no button animation runs.         *)
TopIsLast == topCard = Top(cards)
ReadyIffNoFlight == ready <=> swipeFlight = None

(* The refill button never lies over a deck that still has cards: it would *)
(* throw them away (refillMoviesButton.isHidden in configureCards and      *)
(* updateCardView).                                                        *)
RefillOnlyWhenEmpty == ~refillHidden => cards = <<>>

(* Unless another actor stepped in between, the card an animation is about *)
(* to take off is the card that was swiped (updateCardView takes off the   *)
(* card on top when the animation completes, not the one it animated).     *)
FlightIsTopCard ==
    ~disturbed => /\ swipeFlight \in {None, topCard}
                  /\ panFlight # None => panFlight.movie = topCard
                  /\ swipeFlight = None \/ panFlight = None

(* The verdicts filed for the card on top: one from the tap of a button    *)
(* until its animation completes, else none.                               *)
VerdictsAccounted ==
    ~disturbed =>
        verdicts = IF hasAccount /\ swipeFlight # None THEN 1 ELSE 0

FlightIsFiled ==
    ~disturbed /\ hasAccount /\ swipeFlight # None => swipeFlight \in Recorded

DisturbedOnlyInFlight == disturbed => InFlight

(* The inductive invariant of the deck.                                    *)
DeckInv ==
    /\ DeckTypeOK
    /\ TopIsLast
    /\ ReadyIffNoFlight
    /\ RefillOnlyWhenEmpty
    /\ FlightIsTopCard
    /\ VerdictsAccounted
    /\ FlightIsFiled
    /\ DisturbedOnlyInFlight

(* A card that is swiped off the deck was filed exactly once, by the       *)
(* button, the pan or the star, as long as no other actor stepped in while *)
(* its animation ran: no swipe is lost and none is counted twice.          *)
OneVerdictPerCard ==
    [][ ~disturbed /\ ~disturbed' /\ hasAccount /\ cards # <<>> =>
          /\ SwipeAnimationDone => verdicts = 1 /\ topCard \in Recorded
          /\ PanDone \/ AddWatchlist => verdicts = 0 /\ topCard \in Recorded'
      ]_deckVars

(* UIKit completes every animation: the skip and exclude buttons, which    *)
(* handleSkip and handleExclude disable during theirs, come back.          *)
DeckFairness == WF_deckVars(SwipeAnimationDone) /\ WF_deckVars(PanDone)
DeckFairSpec == DeckSpec /\ DeckFairness

ButtonsRecover == ~ready ~> ready
=============================================================================

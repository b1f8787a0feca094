--------------------------- MODULE WatchlistCache ---------------------------
(***************************************************************************)
(* The watchlist on the screen: WatchlistView.swift and                    *)
(* SceneDelegate.userWatchlist, the movies with their details.             *)
(*                                                                         *)
(* An account only has the ids.  The details are requested one by one, and *)
(* each answer is appended to the one shared cache; the lists are shown    *)
(* when the cache is as long as the watchlist was when its load began.     *)
(* Meanwhile movies are starred, accounts change and other loads begin.    *)
(*                                                                         *)
(* All of this is in memory: a restart of the app is an initial state.     *)
(***************************************************************************)
EXTENDS MovieBags

CONSTANTS
    Watchlists, \* the watchlists an account or UserDefaults may have
    MaxLoads,   \* bound: loads of details
    MaxStars    \* bound: movies starred

ASSUME WatchlistsAssumption == Watchlists \subseteq IdLists /\ NoMovies \in Watchlists
ASSUME NoListAssumption == None \notin Bags
ASSUME BoundsAssumption == MaxLoads \in Nat /\ MaxStars \in Nat

VARIABLES
    user,           \* the watchlist of SceneDelegate.user
    localUser,      \* the watchlist of SceneDelegate.localUser
    userWatchlist,  \* SceneDelegate.userWatchlist, the cache
    loads,          \* the loads begun
    calls,          \* for each load the movies whose details are in flight
    wanted,         \* for each load the length it waits for
    shown,          \* the movies of movieTable and movieCollection
    screen,         \* LoginController is presented, or being dismissed
    launch,         \* the launch fetches of the user in flight
    signIn,         \* a sign-in is in flight
    stars,
    clean,          \* history: one load since, for this account, none failed
    starred         \* history: a movie was starred while the load went on

accountVars == <<user, localUser>>
listVars == <<userWatchlist, loads, calls, wanted, shown>>
flowVars == <<screen, launch, signIn>>
watchVars == <<accountVars, listVars, flowVars, stars, clean, starred>>

Loads == 1..MaxLoads
Watchlist == IF user # None THEN user ELSE localUser
Quiet == \A l \in Loads : calls[l] = NoMovies

(* configureUser at launch: a signed-in user is fetched twice, the local   *)
(* user is there, and shown at once if the login was skipped before.       *)
WatchInit ==
    /\ user = None /\ userWatchlist = NoMovies /\ shown = NoMovies
    /\ signIn = FALSE /\ stars = 0 /\ starred = FALSE
    /\ \/ /\ localUser = None
          /\ screen = "home" /\ launch = {"scene", "controller"}
          /\ loads = 0 /\ clean = FALSE
          /\ calls = [l \in Loads |-> NoMovies] /\ wanted = [l \in Loads |-> 0]
       \/ /\ localUser \in Watchlists
          /\ screen \in {"login", "home"} /\ launch = {}
          /\ screen = "home" => localUser = NoMovies
          /\ loads = 0 /\ clean = (localUser = NoMovies)
          /\ calls = [l \in Loads |-> NoMovies] /\ wanted = [l \in Loads |-> 0]
       \/ /\ MaxLoads > 0
          /\ localUser \in Watchlists \ {NoMovies}
          /\ screen = "home" /\ launch = {}
          /\ loads = 1 /\ clean = TRUE
          /\ calls = [l \in Loads |-> IF l = 1 THEN localUser ELSE NoMovies]
          /\ wanted = [l \in Loads |-> IF l = 1 THEN Length(localUser) ELSE 0]

DisplayMovies(list) == shown' = list

(* Mutant: the cache is not emptied before the movies are fetched.         *)
ReloadKeeping(list) ==
    /\ loads < MaxLoads
    /\ loads' = loads + 1
    /\ calls' = [calls EXCEPT ![loads + 1] = list]
    /\ wanted' = [wanted EXCEPT ![loads + 1] = Length(list)]
    /\ clean' = Quiet /\ starred' = FALSE
    /\ UNCHANGED <<shown, userWatchlist>>

Reload(list) ==
    /\ loads < MaxLoads
    /\ loads' = loads + 1
    /\ userWatchlist' = NoMovies
    /\ calls' = [calls EXCEPT ![loads + 1] = list]
    /\ wanted' = [wanted EXCEPT ![loads + 1] = Length(list)]
    /\ clean' = Quiet /\ starred' = FALSE
    /\ UNCHANGED shown

(* fetchAndConfigureMovies, with the watchlist there is when it is called. *)
FetchAndConfigureMovies(list, same) ==
    \/ /\ list = None
       /\ clean' = same
       /\ UNCHANGED <<listVars, starred>>
    \/ /\ list # None /\ Length(list) = Length(userWatchlist)
       /\ DisplayMovies(userWatchlist)
       /\ clean' = same
       /\ UNCHANGED <<userWatchlist, loads, calls, wanted, starred>>
    \/ /\ list # None /\ Length(list) # Length(userWatchlist)
       /\ Reload(list)

(* Mutant: the length is compared before the movie is appended.            *)
DetailsAnswerEarly(l, m, movie) ==
    /\ calls[l][m] > 0
    /\ calls' = [calls EXCEPT ![l] = Minus(@, m)]
    /\ userWatchlist' = Plus(userWatchlist, movie)
    /\ IF Length(userWatchlist) = wanted[l]
         THEN DisplayMovies(userWatchlist') ELSE UNCHANGED shown
    /\ clean' = (clean /\ movie = m)
    /\ UNCHANGED <<accountVars, loads, wanted, flowVars, stars, starred>>

(* The completion of fetchMovieWithDetails, with the movie asked for or    *)
(* the one made of an error.                                               *)
DetailsAnswer(l, m, movie) ==
    /\ calls[l][m] > 0
    /\ calls' = [calls EXCEPT ![l] = Minus(@, m)]
    /\ userWatchlist' = Plus(userWatchlist, movie)
    /\ IF Length(userWatchlist') = wanted[l]
         THEN DisplayMovies(userWatchlist') ELSE UNCHANGED shown
    /\ clean' = (clean /\ movie = m)
    /\ UNCHANGED <<accountVars, loads, wanted, flowVars, stars, starred>>

(* Without an answer in JSON there is no completion.                       *)
DetailsFail(l, m) ==
    /\ calls[l][m] > 0
    /\ calls' = [calls EXCEPT ![l] = Minus(@, m)]
    /\ clean' = FALSE
    /\ UNCHANGED <<accountVars, userWatchlist, loads, wanted, shown, flowVars, stars,
                   starred>>

(* Mutant: only the account learns of the star.                            *)
AddWatchlistUncached(m) ==
    /\ screen = "home" /\ stars < MaxStars
    /\ stars' = stars + 1
    /\ user' = IF user # None THEN Plus(user, m) ELSE None
    /\ localUser' = IF user = None /\ localUser # None THEN Plus(localUser, m) ELSE localUser
    /\ clean' = (clean /\ Watchlist # None)
    /\ starred' = (starred \/ ~Quiet)
    /\ UNCHANGED <<userWatchlist, loads, calls, wanted, shown, flowVars>>

(* handleAddWatchlist: the id goes to the account, if there is one, and    *)
(* the movie to the cache, also while that is being filled.                *)
AddWatchlist(m) ==
    /\ screen = "home" /\ stars < MaxStars
    /\ stars' = stars + 1
    /\ user' = IF user # None THEN Plus(user, m) ELSE None
    /\ localUser' = IF user = None /\ localUser # None THEN Plus(localUser, m) ELSE localUser
    /\ userWatchlist' = Plus(userWatchlist, m)
    /\ clean' = (clean /\ Watchlist # None)
    /\ starred' = (starred \/ ~Quiet)
    /\ UNCHANGED <<loads, calls, wanted, shown, flowVars>>

(* showWatchlistView.                                                      *)
ShowWatchlistView ==
    /\ screen = "home"
    /\ DisplayMovies(userWatchlist)
    /\ UNCHANGED <<accountVars, userWatchlist, loads, calls, wanted, flowVars, stars,
                   clean, starred>>

-----------------------------------------------------------------------------
(* The accounts, as far as the watchlist goes: UserSession says which.     *)

(* fetchAndSetUser of the scene delegate tells nobody.                     *)
SceneAnswer ==
    /\ "scene" \in launch /\ launch' = launch \ {"scene"}
    /\ \/ user' \in Watchlists /\ UNCHANGED localUser
       \/ localUser' \in Watchlists /\ UNCHANGED user
       \/ UNCHANGED accountVars
    /\ clean' = (clean /\ UNCHANGED accountVars)
    /\ UNCHANGED <<listVars, screen, signIn, stars, starred>>

(* The answer in configureUser, or an error.                               *)
ControllerAnswer ==
    /\ "controller" \in launch /\ launch' = launch \ {"controller"}
    /\ \/ /\ user' \in Watchlists
          /\ FetchAndConfigureMovies(user', clean /\ user' = user)
       \/ UNCHANGED <<user, listVars, clean, starred>>
    /\ UNCHANGED <<localUser, screen, signIn, stars>>

(* logout: the user goes, the cache stays.                                 *)
Logout ==
    /\ screen = "home" /\ user # None
    /\ user' = None
    /\ screen' = "login"
    /\ clean' = FALSE
    /\ UNCHANGED <<localUser, listVars, launch, signIn, stars, starred>>

UserPressedRegister ==
    /\ screen = "home" /\ user = None
    /\ screen' = "login"
    /\ UNCHANGED <<accountVars, listVars, launch, signIn, stars, clean, starred>>

StartSignIn ==
    /\ screen = "login" /\ ~signIn
    /\ signIn' = TRUE
    /\ UNCHANGED <<accountVars, listVars, screen, launch, stars, clean, starred>>

(* setUser of any of the sign-ins, as soon as its answer comes.            *)
SignInAnswer ==
    /\ signIn
    /\ user' \in Watchlists
    /\ clean' = (clean /\ user' = user)
    /\ UNCHANGED <<localUser, listVars, flowVars, stars, starred>>

SignInEnds ==
    /\ signIn /\ signIn' = FALSE
    /\ screen' \in {screen, "closing"}
    /\ UNCHANGED <<accountVars, listVars, launch, stars, clean, starred>>

(* handleSkipLogin reads the local user again.                             *)
HandleSkipLogin ==
    /\ screen = "login"
    /\ localUser' \in Watchlists
    /\ clean' = (clean /\ (user # None \/ localUser' = localUser))
    /\ screen' = "closing"
    /\ UNCHANGED <<user, listVars, launch, signIn, stars, starred>>

(* authenticationComplete, once the login screen is gone.                  *)
AuthenticationComplete ==
    /\ screen = "closing" /\ screen' = "home"
    /\ FetchAndConfigureMovies(Watchlist, clean)
    /\ UNCHANGED <<accountVars, launch, signIn, stars>>

WatchNext ==
    \/ \E l \in Loads, m \in Movies :
          \/ \E movie \in {m, Unknown} : DetailsAnswer(l, m, movie)
          \/ DetailsFail(l, m)
    \/ \E m \in Movies \ {Unknown} : AddWatchlist(m)
    \/ ShowWatchlistView
    \/ SceneAnswer \/ ControllerAnswer
    \/ Logout \/ UserPressedRegister \/ HandleSkipLogin
    \/ StartSignIn \/ SignInAnswer \/ SignInEnds
    \/ AuthenticationComplete

WatchSpec == WatchInit /\ [][WatchNext]_watchVars

-----------------------------------------------------------------------------

WatchTypeOK ==
    /\ user \in Bags \cup {None} /\ localUser \in Bags \cup {None}
    /\ userWatchlist \in Bags /\ shown \in Bags
    /\ loads \in 0..MaxLoads
    /\ calls \in [Loads -> Bags]
    /\ screen \in {"home", "login", "closing"}
    /\ launch \in SUBSET {"scene", "controller"}
    /\ signIn \in BOOLEAN /\ stars \in Nat
    /\ clean \in BOOLEAN /\ starred \in BOOLEAN

(* Of a load that nothing disturbed, what has arrived and what is still    *)
(* under way make up the watchlist, movies starred meanwhile included.     *)
NothingLost ==
    clean =>
        /\ Watchlist # None
        /\ loads = 0 => userWatchlist = Watchlist
        /\ loads > 0 =>
              /\ \A l \in Loads \ {loads} : calls[l] = NoMovies
              /\ \A m \in Movies :
                    userWatchlist[m] + calls[loads][m] = Watchlist[m]

(* The inductive invariant of the cache.                                   *)
WatchInv ==
    /\ WatchTypeOK
    /\ \A l \in Loads : l > loads => calls[l] = NoMovies
    /\ NothingLost

(* When the answers are in, the cache is the watchlist: whatever is        *)
(* starred during the load, and in whichever order the answers come, no    *)
(* movie is missing and none is there twice (fetchAndConfigureMovies,      *)
(* handleAddWatchlist).  What may disturb it is a failed request or an     *)
(* error that counts as a movie, another account, a second load at a time  *)
(* and a star given to nobody.                                             *)
CacheIsWatchlist == clean /\ Quiet => userWatchlist = Watchlist

(* Of an undisturbed load the user sees nothing until its last answer, and *)
(* then all of it, unless movies were starred meanwhile: the captured      *)
(* length is met exactly once, at the end.                                 *)
ShowsWholeList ==
    [][ (\E l \in Loads, m \in Movies : DetailsAnswer(l, m, m)) /\ clean /\ ~starred =>
            shown' = IF Quiet' THEN Watchlist ELSE shown ]_watchVars
=============================================================================

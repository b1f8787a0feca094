---------------------------- MODULE CopiesProofs ----------------------------
(***************************************************************************)
(* Two screens that work on a copy of what is stored, and keep it in step: *)
(* the watchlist, on the cache of its movies, and the filter screen, on    *)
(* its copy of the filter.  For every list of movies and of genres, every  *)
(* number of loads, and every size of the screen and position of the       *)
(* sliders.                                                                *)
(***************************************************************************)
EXTENDS WatchlistCache, FilterEditor, MovieBagsProofs, SequenceTheorems, FiniteSetTheorems,
        TLAPS

(* The watchlist.  Lengths only decide when a load begins and what is      *)
(* shown: nothing is assumed of them for the inductive invariant.          *)

LEMMA WatchlistsAreBags == Watchlists \subseteq Bags /\ NoMovies \in Watchlists
  BY WatchlistsAssumption DEF IdLists

LEMMA WatchInitInv == WatchInit => WatchInv
<1> SUFFICES ASSUME WatchInit PROVE WatchInv
  OBVIOUS
<1> USE WatchlistsAreBags, NoListAssumption, BoundsAssumption, NoMoviesIsBag
<1>0. clean \in BOOLEAN /\ (clean /\ loads = 0 => localUser = NoMovies)
  <2>1. \/ clean = FALSE
        \/ clean = (localUser = NoMovies)
        \/ clean = TRUE /\ loads = 1
    BY DEF WatchInit
  <2>2. 0 # 1
    OBVIOUS
  <2>3. QED BY <2>1, <2>2, Zenon
<1>1. WatchTypeOK
  <2>1. signIn \in BOOLEAN /\ starred \in BOOLEAN
    BY Zenon DEF WatchInit
  <2>2. calls \in [Loads -> Bags] /\ localUser \in Bags \cup {None}
    BY DEF WatchInit
  <2>3. /\ user = None /\ userWatchlist \in Bags /\ shown \in Bags /\ stars \in Nat
        /\ loads \in 0..MaxLoads
        /\ screen \in {"home", "login", "closing"}
        /\ launch \in SUBSET {"scene", "controller"}
    BY DEF WatchInit
  <2>4. QED BY <1>0, <2>1, <2>2, <2>3 DEF WatchTypeOK
<1>2. \A l \in Loads : l > loads => calls[l] = NoMovies
  BY DEF WatchInit, Loads
<1>3. ASSUME clean PROVE NothingLost
  <2>1. CASE loads = 0
    <3>1. user = None /\ userWatchlist = NoMovies /\ localUser = NoMovies
      BY <1>0, <1>3, <2>1 DEF WatchInit
    <3>2. QED BY <2>1, <3>1 DEF NothingLost, Watchlist
  <2>2. CASE loads = 1
    <3>1. /\ user = None /\ localUser \in Bags /\ userWatchlist = NoMovies
          /\ 1 \in Loads /\ calls[1] = localUser
          /\ \A l \in Loads \ {1} : calls[l] = NoMovies
      BY <2>2 DEF WatchInit, Loads
    <3>2. \A m \in Movies : userWatchlist[m] + calls[loads][m] = Watchlist[m]
      <4>1. TAKE m \in Movies
      <4>2. userWatchlist[m] = 0 /\ localUser[m] \in Nat
        BY <3>1 DEF NoMovies, Bags
      <4>3. QED BY <2>2, <3>1, <4>2 DEF Watchlist
    <3>3. QED BY <2>2, <3>1, <3>2 DEF NothingLost, Watchlist
  <2>3. QED BY <2>1, <2>2 DEF WatchInit
<1>4. QED BY <1>1, <1>2, <1>3 DEF WatchInv, NothingLost

(* What a load does, whatever it is of.                                    *)
LEMMA FetchKeepsInv ==
    ASSUME WatchInv, NEW list \in Bags \cup {None}, NEW same \in BOOLEAN,
           FetchAndConfigureMovies(list, same),
           list = Watchlist',
           same => clean /\ Watchlist' = Watchlist
    PROVE  /\ userWatchlist' \in Bags /\ shown' \in Bags
           /\ loads' \in 0..MaxLoads
           /\ calls' \in [Loads -> Bags]
           /\ clean' \in BOOLEAN /\ starred' \in BOOLEAN
           /\ \A l \in Loads : l > loads' => calls'[l] = NoMovies
           /\ NothingLost'
<1> USE BoundsAssumption
<1>1. CASE \/ list = None
           \/ Length(list) = Length(userWatchlist)
  <2>1. /\ UNCHANGED <<userWatchlist, loads, calls, wanted, starred>>
        /\ clean' = same
        /\ shown' \in {shown, userWatchlist}
    BY <1>1, NoListAssumption
       DEF FetchAndConfigureMovies, listVars, DisplayMovies
  <2>2. NothingLost'
    BY <2>1 DEF WatchInv, NothingLost
  <2>3. QED BY <2>1, <2>2 DEF WatchInv, WatchTypeOK
<1>2. CASE /\ list # None
           /\ Length(list) # Length(userWatchlist)
  <2>1. Reload(list)
    BY <1>2 DEF FetchAndConfigureMovies
  <2>2. /\ list \in Bags
        /\ loads + 1 \in Loads /\ loads' = loads + 1
        /\ calls' \in [Loads -> Bags]
        /\ calls'[loads + 1] = list
        /\ \A l \in Loads \ {loads + 1} : calls'[l] = calls[l]
    BY <1>2, <2>1 DEF Reload, WatchInv, WatchTypeOK, Loads
  <2>3. NothingLost'
    <3>1. SUFFICES ASSUME clean' PROVE NothingLost'
      BY DEF NothingLost
    <3>2. Quiet /\ userWatchlist' = NoMovies
      BY <2>1, <3>1 DEF Reload
    <3>3. \A m \in Movies : userWatchlist'[m] + calls'[loads'][m] = Watchlist'[m]
      BY <2>2, <3>2 DEF NoMovies, Bags
    <3>4. QED BY <1>2, <2>2, <3>2, <3>3 DEF NothingLost, Quiet, WatchInv, WatchTypeOK
  <2>4. clean' \in BOOLEAN /\ starred' \in BOOLEAN
    BY <2>1, Zenon DEF Reload, Quiet
  <2>5. /\ userWatchlist' \in Bags /\ shown' \in Bags
        /\ loads' \in 0..MaxLoads
    <3>1. userWatchlist' = NoMovies /\ shown' = shown /\ loads < MaxLoads
      BY <2>1, Zenon DEF Reload
    <3>2. QED BY <2>2, <3>1, NoMoviesIsBag DEF WatchInv, WatchTypeOK
  <2>6. \A l \in Loads : l > loads' => calls'[l] = NoMovies
    BY <2>2 DEF WatchInv, WatchTypeOK, Loads
  <2>7. QED BY <2>2, <2>3, <2>4, <2>5, <2>6
<1>3. QED BY <1>1, <1>2

(* The rest of the invariant, for the steps that leave the account alone   *)
(* or end the clean state.                                                 *)
LEMMA AccountKeepsInv ==
    ASSUME WatchInv, UNCHANGED listVars, WatchTypeOK',
           clean' => clean /\ Watchlist' = Watchlist
    PROVE  WatchInv'
<1>1. UNCHANGED <<userWatchlist, loads, calls>>
  BY DEF listVars
<1>2. NothingLost'
  BY <1>1 DEF WatchInv, NothingLost
<1>3. QED BY <1>1, <1>2 DEF WatchInv

(* A request ends with its movie, with an entry made of an error, or with  *)
(* nothing.                                                                *)
CallEnds(l, m) ==
    (\E movie \in {m, Unknown} : DetailsAnswer(l, m, movie)) \/ DetailsFail(l, m)

LEMMA DetailsKeepInv ==
    ASSUME WatchInv, NEW l \in Loads, NEW m \in Movies,
           CallEnds(l, m)
    PROVE  WatchInv'
<1>1. /\ calls \in [Loads -> Bags] /\ userWatchlist \in Bags
      /\ calls[l] \in Bags /\ calls[l][m] > 0
      /\ calls' = [calls EXCEPT ![l] = Minus(@, m)]
      /\ UNCHANGED <<accountVars, loads, wanted, flowVars, stars, starred>>
  BY DEF CallEnds, DetailsAnswer, DetailsFail, WatchInv, WatchTypeOK
<1>2. /\ Minus(calls[l], m) \in Bags
      /\ Plus(userWatchlist, m) \in Bags /\ Plus(userWatchlist, Unknown) \in Bags
  BY <1>1, PlusMinus, MoviesAssumption
<1>3. /\ \/ userWatchlist' = userWatchlist
         \/ userWatchlist' = Plus(userWatchlist, m)
         \/ userWatchlist' = Plus(userWatchlist, Unknown)
      /\ shown' \in {shown, userWatchlist'} /\ clean' \in {clean, FALSE}
  BY DEF CallEnds, DetailsAnswer, DetailsFail, DisplayMovies
<1>4. WatchTypeOK'
  BY <1>1, <1>2, <1>3 DEF WatchInv, WatchTypeOK, accountVars, flowVars
<1>5. ASSUME NEW k \in Loads, k > loads' PROVE calls'[k] = NoMovies
  <2>1. k # l
    BY <1>1, <1>5 DEF WatchInv, NoMovies
  <2>2. QED BY <1>1, <1>5, <2>1 DEF WatchInv
<1>6. NothingLost'
  <2>1. SUFFICES ASSUME clean' PROVE NothingLost'
    BY DEF NothingLost
  <2>2. /\ clean /\ clean' /\ Watchlist' = Watchlist /\ loads' = loads
        /\ userWatchlist' = Plus(userWatchlist, m)
    BY <1>1, <2>1 DEF CallEnds, DetailsAnswer, DetailsFail, accountVars, Watchlist
  <2>3. l = loads /\ loads > 0
    <3>1. loads \in Nat /\ l \in Nat /\ calls[l] # NoMovies
      BY <1>1 DEF WatchInv, WatchTypeOK, Loads, NoMovies
    <3>2. l <= loads
      BY <3>1 DEF WatchInv
    <3>3. loads > 0
      BY <3>1, <3>2 DEF Loads
    <3>4. QED BY <2>2, <3>1, <3>3 DEF WatchInv, NothingLost
  <2>4. \A k \in Loads \ {loads} : calls'[k] = NoMovies
    BY <1>1, <2>2, <2>3 DEF WatchInv, NothingLost
  <2>5. ASSUME NEW n \in Movies
        PROVE  userWatchlist'[n] + calls'[loads][n] = Watchlist[n]
    <3>1. userWatchlist[n] + calls[loads][n] = Watchlist[n]
      BY <2>2, <2>3 DEF WatchInv, NothingLost
    <3>2. userWatchlist[n] \in Nat /\ calls[loads][n] \in Nat
      BY <1>1, <2>3 DEF Bags
    <3>3. calls'[loads] = Minus(calls[loads], m)
      BY <1>1, <2>3
    <3>4. CASE n = m
      <4>1. /\ userWatchlist'[n] = userWatchlist[n] + 1
            /\ calls'[loads][n] = calls[loads][n] - 1
        BY <1>1, <2>2, <2>3, <3>3, <3>4, PlusMinus
      <4>2. QED BY <3>1, <3>2, <4>1
    <3>5. CASE n # m
      <4>1. userWatchlist'[n] = userWatchlist[n] /\ calls'[loads][n] = calls[loads][n]
        BY <1>1, <2>2, <2>3, <3>3, <3>5, PlusMinus
      <4>2. QED BY <3>1, <4>1
    <3>6. QED BY <3>4, <3>5
  <2>6. Watchlist' # None
    BY <2>2 DEF WatchInv, NothingLost
  <2>7. QED BY <2>2, <2>3, <2>4, <2>5, <2>6 DEF NothingLost
<1>7. QED BY <1>4, <1>5, <1>6 DEF WatchInv

LEMMA StarKeepsInv ==
    ASSUME WatchInv, NEW m \in Movies, AddWatchlist(m)
    PROVE  WatchInv'
<1>1. /\ UNCHANGED <<loads, calls, wanted, shown, flowVars>>
      /\ userWatchlist' = Plus(userWatchlist, m)
      /\ userWatchlist \in Bags /\ calls \in [Loads -> Bags] /\ loads \in Nat
  BY DEF AddWatchlist, WatchInv, WatchTypeOK
<1>2. CASE Watchlist = None
  <2>1. clean' = FALSE
    BY <1>2, Zenon DEF AddWatchlist
  <2>2. user = None /\ localUser = None /\ user' = None /\ localUser' = None
    <3>1. user = None
      BY <1>2 DEF Watchlist
    <3>2. localUser = None
      BY <1>2, <3>1 DEF Watchlist
    <3>3. QED BY <3>1, <3>2 DEF AddWatchlist
  <2>3. starred' \in BOOLEAN
    BY Zenon DEF AddWatchlist, WatchInv, WatchTypeOK, Quiet
  <2>4. WatchTypeOK'
    BY <1>1, <2>1, <2>2, <2>3, PlusMinus DEF AddWatchlist, WatchInv, WatchTypeOK, flowVars
  <2>5. QED BY <1>1, <2>1, <2>4 DEF WatchInv, NothingLost
<1>3. CASE Watchlist # None
  <2>1. clean' = clean
    BY <1>3, Zenon DEF AddWatchlist, WatchInv, WatchTypeOK
  <2>2. Watchlist \in Bags
    BY <1>3 DEF Watchlist, WatchInv, WatchTypeOK
  <2>3. /\ user' \in Bags \cup {None} /\ localUser' \in Bags \cup {None}
        /\ Watchlist' = Plus(Watchlist, m)
    <3>1. CASE user # None
      <4>1. user' = Plus(user, m) /\ localUser' = localUser /\ user \in Bags
        BY <3>1 DEF AddWatchlist, WatchInv, WatchTypeOK
      <4>2. user' \in Bags
        BY <4>1, PlusMinus
      <4>3. QED BY <3>1, <4>1, <4>2, NoListAssumption DEF Watchlist, WatchInv, WatchTypeOK
    <3>2. CASE user = None
      <4>1. user' = None /\ localUser' = Plus(localUser, m) /\ localUser \in Bags
        BY <1>3, <3>2 DEF AddWatchlist, Watchlist, WatchInv, WatchTypeOK
      <4>2. localUser' \in Bags
        BY <4>1, PlusMinus
      <4>3. QED BY <3>2, <4>1, <4>2 DEF Watchlist
    <3>3. QED BY <3>1, <3>2
  <2>4. starred' \in BOOLEAN
    BY Zenon DEF AddWatchlist, WatchInv, WatchTypeOK, Quiet
  <2>5. WatchTypeOK'
    BY <1>1, <2>1, <2>3, <2>4, PlusMinus DEF AddWatchlist, WatchInv, WatchTypeOK, flowVars
  <2>6. Watchlist' \in Bags /\ Watchlist' # None
    BY <2>2, <2>3, PlusMinus, NoListAssumption
  <2>7. ASSUME clean', loads > 0, NEW n \in Movies
        PROVE  userWatchlist'[n] + calls'[loads][n] = Watchlist'[n]
    <3>1. userWatchlist[n] + calls[loads][n] = Watchlist[n]
      BY <2>1, <2>7 DEF WatchInv, NothingLost
    <3>2. userWatchlist[n] \in Nat /\ calls[loads][n] \in Nat /\ Watchlist[n] \in Nat
      <4>1. loads \in Loads
        BY <2>7 DEF Loads, WatchInv, WatchTypeOK
      <4>2. calls[loads] \in Bags
        BY <1>1, <4>1
      <4>3. QED BY <1>1, <2>2, <4>2 DEF Bags
    <3>3. \/ /\ userWatchlist'[n] = userWatchlist[n] + 1
             /\ Watchlist'[n] = Watchlist[n] + 1
          \/ /\ userWatchlist'[n] = userWatchlist[n]
             /\ Watchlist'[n] = Watchlist[n]
      <4>1. CASE n = m
        BY <1>1, <2>2, <2>3, <4>1, PlusMinus
      <4>2. CASE n # m
        BY <1>1, <2>2, <2>3, <4>2, PlusMinus
      <4>3. QED BY <4>1, <4>2
    <3>4. QED BY <1>1, <3>1, <3>2, <3>3
  <2>8. NothingLost'
    BY <1>1, <2>1, <2>3, <2>6, <2>7 DEF WatchInv, NothingLost
  <2>9. QED BY <1>1, <2>5, <2>8 DEF WatchInv
<1>4. QED BY <1>2, <1>3

(* The account may become any watchlist, the screens may change.          *)
LEMMA FlowKeepsInv ==
    ASSUME WatchInv,
           \/ ShowWatchlistView \/ SceneAnswer \/ Logout \/ UserPressedRegister
           \/ StartSignIn \/ SignInAnswer \/ SignInEnds \/ HandleSkipLogin
    PROVE  WatchInv'
<1> USE WatchlistsAreBags DEF WatchInv, WatchTypeOK, accountVars, listVars, flowVars
<1>1. CASE ShowWatchlistView
  <2>1. WatchTypeOK' /\ UNCHANGED <<loads, calls, userWatchlist, clean, user, localUser>>
    BY <1>1 DEF ShowWatchlistView, DisplayMovies
  <2>2. NothingLost'
    BY <2>1 DEF NothingLost, Watchlist
  <2>3. QED BY <2>1, <2>2
<1>2. CASE SceneAnswer
  <2>1. clean' \in BOOLEAN /\ (clean' => clean /\ UNCHANGED accountVars)
    BY <1>2, Zenon DEF SceneAnswer
  <2>2. UNCHANGED <<listVars, screen, signIn, stars, starred>>
        /\ user' \in Bags \cup {None} /\ localUser' \in Bags \cup {None}
        /\ launch' \in SUBSET {"scene", "controller"}
    BY <1>2 DEF SceneAnswer
  <2>3. QED BY <2>1, <2>2, AccountKeepsInv DEF Watchlist
<1>3. CASE Logout
  <2>1. WatchTypeOK' /\ UNCHANGED listVars /\ ~clean'
    BY <1>3 DEF Logout
  <2>2. QED BY <2>1, AccountKeepsInv
<1>4. CASE UserPressedRegister \/ StartSignIn \/ SignInEnds
  <2>1. UNCHANGED <<accountVars, listVars, clean, stars, starred>>
    BY <1>4 DEF UserPressedRegister, StartSignIn, SignInEnds
  <2>2. signIn' \in BOOLEAN /\ screen' \in {"home", "login", "closing"} /\ launch' = launch
    BY <1>4 DEF UserPressedRegister, StartSignIn, SignInEnds
  <2>3. QED BY <2>1, <2>2, AccountKeepsInv DEF Watchlist
<1>5. CASE SignInAnswer
  <2>1. clean' \in BOOLEAN /\ (clean' => clean /\ user' = user)
    BY <1>5, Zenon DEF SignInAnswer
  <2>2. UNCHANGED <<localUser, listVars, flowVars, stars, starred>> /\ user' \in Bags
    BY <1>5 DEF SignInAnswer
  <2>3. QED BY <2>1, <2>2, AccountKeepsInv DEF Watchlist
<1>6. CASE HandleSkipLogin
  <2>1. clean' \in BOOLEAN /\ (clean' => clean /\ (user # None \/ localUser' = localUser))
    BY <1>6, Zenon DEF HandleSkipLogin
  <2>2. /\ UNCHANGED <<user, listVars, launch, signIn, stars, starred>>
        /\ localUser' \in Bags /\ screen' = "closing"
    BY <1>6 DEF HandleSkipLogin
  <2>3. QED BY <2>1, <2>2, AccountKeepsInv DEF Watchlist
<1>7. QED BY <1>1, <1>2, <1>3, <1>4, <1>5, <1>6

LEMMA LoadsKeepInv ==
    ASSUME WatchInv, ControllerAnswer \/ AuthenticationComplete
    PROVE  WatchInv'
<1> USE WatchlistsAreBags DEF WatchInv, WatchTypeOK, accountVars, listVars
<1>1. CASE AuthenticationComplete
  <2>1. /\ FetchAndConfigureMovies(Watchlist, clean) /\ screen' = "home"
        /\ UNCHANGED <<user, localUser, launch, signIn, stars>>
    BY <1>1 DEF AuthenticationComplete
  <2>2. Watchlist' = Watchlist /\ Watchlist \in Bags \cup {None}
    BY <2>1 DEF Watchlist
  <2>3. QED BY <2>1, <2>2, FetchKeepsInv
<1>2. CASE ControllerAnswer
  <2>1. /\ UNCHANGED <<localUser, screen, signIn, stars>>
        /\ launch' \in SUBSET {"scene", "controller"}
    BY <1>2 DEF ControllerAnswer
  <2>2. CASE user' \in Watchlists /\ FetchAndConfigureMovies(user', clean /\ user' = user)
    <3>1. user' \in Bags /\ user' = Watchlist'
      BY <2>2, NoListAssumption DEF Watchlist
    <3>2. (clean /\ user' = user) \in BOOLEAN
      OBVIOUS
    <3>3. clean /\ user' = user => clean /\ Watchlist' = Watchlist
      BY <2>1 DEF Watchlist
    <3>4. /\ userWatchlist' \in Bags /\ shown' \in Bags
          /\ loads' \in 0..MaxLoads
          /\ calls' \in [Loads -> Bags]
          /\ clean' \in BOOLEAN /\ starred' \in BOOLEAN
          /\ \A l \in Loads : l > loads' => calls'[l] = NoMovies
          /\ NothingLost'
      BY <2>2, <3>1, <3>2, <3>3, FetchKeepsInv
    <3>5. QED BY <2>1, <3>1, <3>4
  <2>3. CASE UNCHANGED <<user, listVars, clean, starred>>
    BY <2>1, <2>3, AccountKeepsInv DEF Watchlist
  <2>4. QED BY <1>2, <2>2, <2>3 DEF ControllerAnswer
<1>3. QED BY <1>1, <1>2

(* WatchInv holds in every reachable state of the watchlist, for any       *)
(* movies, any watchlists and any number of loads and stars.               *)
THEOREM WatchInvariant == WatchSpec => []WatchInv
<1>1. WatchInv /\ [WatchNext]_watchVars => WatchInv'
  <2>1. SUFFICES ASSUME WatchInv, [WatchNext]_watchVars PROVE WatchInv'
    OBVIOUS
  <2>2. CASE \E l \in Loads, m \in Movies : CallEnds(l, m)
    BY <2>1, <2>2, DetailsKeepInv
  <2>3. CASE \E m \in Movies \ {Unknown} : AddWatchlist(m)
    BY <2>1, <2>3, StarKeepsInv
  <2>4. CASE \/ ShowWatchlistView \/ SceneAnswer \/ Logout \/ UserPressedRegister
             \/ StartSignIn \/ SignInAnswer \/ SignInEnds \/ HandleSkipLogin
    BY <2>1, <2>4, FlowKeepsInv
  <2>5. CASE ControllerAnswer \/ AuthenticationComplete
    BY <2>1, <2>5, LoadsKeepInv
  <2>6. CASE UNCHANGED watchVars
    <3>1. UNCHANGED listVars /\ WatchTypeOK' /\ clean' = clean /\ Watchlist' = Watchlist
      BY <2>1, <2>6
         DEF WatchInv, WatchTypeOK, Watchlist, watchVars, accountVars, listVars, flowVars
    <3>2. QED BY <2>1, <3>1, AccountKeepsInv
  <2>7. QED BY <2>1, <2>2, <2>3, <2>4, <2>5, <2>6 DEF WatchNext, CallEnds
<1>2. QED BY <1>1, WatchInitInv, PTL DEF WatchSpec

(* Once the answers of an undisturbed load are in, the cache is the        *)
(* watchlist of the account, with what was starred meanwhile               *)
(* (fetchAndConfigureMovies and handleAddWatchlist).                       *)
THEOREM WatchlistKept == WatchSpec => []CacheIsWatchlist
<1>1. WatchInv => CacheIsWatchlist
  <2>1. SUFFICES ASSUME WatchInv, clean, Quiet PROVE userWatchlist = Watchlist
    BY DEF CacheIsWatchlist
  <2>2. userWatchlist \in Bags /\ Watchlist \in Bags /\ loads \in 0..MaxLoads
    BY <2>1 DEF WatchInv, WatchTypeOK, NothingLost, Watchlist
  <2>3. CASE loads = 0
    BY <2>1, <2>3 DEF WatchInv, NothingLost
  <2>4. CASE loads > 0
    <3>1. calls[loads] = NoMovies
      BY <2>1, <2>2, <2>4, BoundsAssumption DEF Quiet, Loads
    <3>2. ASSUME NEW m \in Movies PROVE userWatchlist[m] = Watchlist[m]
      <4>1. userWatchlist[m] + calls[loads][m] = Watchlist[m]
        BY <2>1, <2>4 DEF WatchInv, NothingLost
      <4>2. userWatchlist[m] \in Nat /\ calls[loads][m] = 0
        BY <2>2, <3>1 DEF Bags, NoMovies
      <4>3. QED BY <4>1, <4>2
    <3>3. QED BY <2>2, <3>2, SameBag
  <2>5. QED BY <2>2, <2>3, <2>4, BoundsAssumption
<1>2. QED BY <1>1, WatchInvariant, PTL

(* The length a load waits for is the one of the watchlist it is for.      *)
LengthTold ==
    /\ DOMAIN wanted = Loads
    /\ clean /\ ~starred /\ ~Quiet => wanted[loads] = Length(Watchlist)

LEMMA WatchInitTold == WatchInit => LengthTold
<1>1. SUFFICES ASSUME WatchInit PROVE LengthTold
  OBVIOUS
<1>2. DOMAIN wanted = Loads
  BY <1>1 DEF WatchInit
<1>3. ASSUME ~Quiet PROVE wanted[loads] = Length(Watchlist)
  <2>1. /\ user = None /\ loads = 1 /\ 1 \in Loads
        /\ wanted = [l \in Loads |-> IF l = 1 THEN Length(localUser) ELSE 0]
    BY <1>1, <1>3, BoundsAssumption DEF WatchInit, Quiet, Loads
  <2>2. QED BY <2>1 DEF Watchlist
<1>4. QED BY <1>2, <1>3 DEF LengthTold

LEMMA FetchKeepsTold ==
    ASSUME WatchInv, LengthTold, NEW list, NEW same,
           FetchAndConfigureMovies(list, same),
           list = Watchlist',
           same => clean /\ Watchlist' = Watchlist
    PROVE  LengthTold'
<1>1. CASE /\ calls' = calls /\ loads' = loads /\ wanted' = wanted
           /\ starred' = starred /\ clean' = same
  <2>1. Quiet' <=> Quiet
    BY <1>1, Zenon DEF Quiet
  <2>2. QED BY <1>1, <2>1 DEF LengthTold
<1>2. CASE Reload(list)
  <2>1. /\ loads' = loads + 1 /\ loads + 1 \in Loads
        /\ wanted' = [wanted EXCEPT ![loads + 1] = Length(list)]
    BY <1>2, BoundsAssumption DEF Reload, WatchInv, WatchTypeOK, Loads
  <2>2. QED BY <2>1 DEF LengthTold
<1>3. QED BY <1>1, <1>2, Zenon DEF FetchAndConfigureMovies, listVars

LEMMA DetailsKeepTold ==
    ASSUME WatchInv, LengthTold, NEW l \in Loads, NEW m \in Movies,
           CallEnds(l, m)
    PROVE  LengthTold'
<1>1. ~Quiet
  <2>1. calls[l] # NoMovies
    BY DEF CallEnds, DetailsAnswer, DetailsFail, NoMovies
  <2>2. QED BY <2>1 DEF Quiet
<1>2. /\ UNCHANGED <<accountVars, loads, wanted, starred>>
      /\ clean' => clean
  <2>1. UNCHANGED <<accountVars, loads, wanted, starred>>
    BY DEF CallEnds, DetailsAnswer, DetailsFail
  <2>2. clean' = clean \/ clean' = FALSE
    BY DEF CallEnds, DetailsAnswer, DetailsFail
  <2>3. QED BY <2>1, <2>2
<1>3. Watchlist' = Watchlist
  BY <1>2 DEF Watchlist, accountVars
<1>4. QED BY <1>1, <1>2, <1>3 DEF LengthTold

LEMMA StarKeepsTold ==
    ASSUME LengthTold, NEW m \in Movies, AddWatchlist(m)
    PROVE  LengthTold'
<1>1. /\ calls' = calls /\ loads' = loads /\ wanted' = wanted
      /\ starred' = (starred \/ ~Quiet)
  BY DEF AddWatchlist
<1>2. Quiet' <=> Quiet
  BY <1>1, Zenon DEF Quiet
<1>3. QED BY <1>1, <1>2, Zenon DEF LengthTold

LEMMA FlowKeepsTold ==
    ASSUME LengthTold,
           calls' = calls /\ loads' = loads /\ wanted' = wanted /\ starred' = starred,
           clean' => clean /\ Watchlist' = Watchlist
    PROVE  LengthTold'
<1>1. Quiet' <=> Quiet
  BY Zenon DEF Quiet
<1>2. QED BY <1>1 DEF LengthTold

LEMMA OthersKeepTold ==
    ASSUME WatchInv, LengthTold,
           \/ ShowWatchlistView \/ SceneAnswer \/ Logout \/ UserPressedRegister
           \/ StartSignIn \/ SignInAnswer \/ SignInEnds \/ HandleSkipLogin
           \/ ControllerAnswer \/ AuthenticationComplete \/ UNCHANGED watchVars
    PROVE  LengthTold'
<1>1. CASE \/ ShowWatchlistView \/ UserPressedRegister \/ StartSignIn \/ SignInEnds
           \/ UNCHANGED watchVars
  <2>1. UNCHANGED <<calls, loads, wanted, starred, clean, user, localUser>>
    BY <1>1 DEF ShowWatchlistView, UserPressedRegister, StartSignIn, SignInEnds, watchVars,
                listVars, accountVars
  <2>2. QED BY <2>1, FlowKeepsTold DEF Watchlist
<1>2. CASE SceneAnswer
  <2>1. /\ UNCHANGED <<calls, loads, wanted, starred>>
        /\ clean' => clean /\ UNCHANGED accountVars
    BY <1>2, Zenon DEF SceneAnswer, listVars
  <2>2. QED BY <2>1, FlowKeepsTold DEF Watchlist, accountVars
<1>3. CASE Logout
  <2>1. UNCHANGED <<calls, loads, wanted, starred>> /\ ~clean'
    BY <1>3 DEF Logout, listVars
  <2>2. QED BY <2>1, FlowKeepsTold
<1>4. CASE SignInAnswer
  <2>1. /\ UNCHANGED <<calls, loads, wanted, starred, localUser>>
        /\ clean' => clean /\ user' = user
    BY <1>4, Zenon DEF SignInAnswer, listVars
  <2>2. QED BY <2>1, FlowKeepsTold DEF Watchlist
<1>5. CASE HandleSkipLogin
  <2>1. /\ UNCHANGED <<calls, loads, wanted, starred, user>>
        /\ clean' => clean /\ (user # None \/ localUser' = localUser)
    BY <1>5, Zenon DEF HandleSkipLogin, listVars
  <2>2. QED BY <2>1, FlowKeepsTold DEF Watchlist
<1>6. CASE AuthenticationComplete
  <2>1. FetchAndConfigureMovies(Watchlist, clean) /\ Watchlist' = Watchlist
    BY <1>6 DEF AuthenticationComplete, Watchlist, accountVars
  <2>2. QED BY <2>1, FetchKeepsTold
<1>7. CASE ControllerAnswer
  <2>1. localUser' = localUser
    BY <1>7 DEF ControllerAnswer
  <2>2. CASE user' \in Watchlists /\ FetchAndConfigureMovies(user', clean /\ user' = user)
    <3>1. user' = Watchlist'
      BY <2>2, WatchlistsAreBags, NoListAssumption DEF Watchlist
    <3>2. clean /\ user' = user => clean /\ Watchlist' = Watchlist
      BY <2>1 DEF Watchlist
    <3>3. QED BY <2>2, <3>1, <3>2, FetchKeepsTold
  <2>3. CASE UNCHANGED <<user, listVars, clean, starred>>
    BY <2>1, <2>3, FlowKeepsTold DEF Watchlist, listVars
  <2>4. QED BY <1>7, <2>2, <2>3 DEF ControllerAnswer
<1>8. QED BY <1>1, <1>2, <1>3, <1>4, <1>5, <1>6, <1>7

LEMMA StepKeepsTold ==
    ASSUME WatchInv, LengthTold, [WatchNext]_watchVars PROVE LengthTold'
<1>1. CASE \E l \in Loads, m \in Movies : CallEnds(l, m)
  BY <1>1, DetailsKeepTold
<1>2. CASE \E m \in Movies \ {Unknown} : AddWatchlist(m)
  BY <1>2, StarKeepsTold
<1>3. CASE \/ ShowWatchlistView \/ SceneAnswer \/ Logout \/ UserPressedRegister
           \/ StartSignIn \/ SignInAnswer \/ SignInEnds \/ HandleSkipLogin
           \/ ControllerAnswer \/ AuthenticationComplete \/ UNCHANGED watchVars
  BY <1>3, OthersKeepTold
<1>4. QED BY <1>1, <1>2, <1>3 DEF WatchNext, CallEnds

(* What has arrived is nowhere more than the watchlist: the lengths agree  *)
(* exactly when nothing is left to come.                                   *)
LEMMA LengthMetAtTheEnd ==
    ASSUME WatchInv, WatchInv', LengthTold, NEW l \in Loads, NEW m \in Movies,
           DetailsAnswer(l, m, m), clean, ~starred
    PROVE  shown' = IF Quiet' THEN Watchlist ELSE shown
<1>1. /\ calls[l] # NoMovies
      /\ clean' /\ loads' = loads /\ wanted' = wanted /\ Watchlist' = Watchlist
      /\ shown' = IF Length(userWatchlist') = wanted[l] THEN userWatchlist' ELSE shown
  <2>1. clean'
    BY Zenon DEF DetailsAnswer
  <2>2. QED BY <2>1 DEF DetailsAnswer, DisplayMovies, accountVars, Watchlist, NoMovies
<1>2. l = loads /\ loads > 0 /\ Watchlist # None
  <2>1. loads \in Nat /\ l \in Nat /\ l > 0 /\ ~(l > loads)
    BY <1>1 DEF WatchInv, WatchTypeOK, Loads
  <2>2. loads > 0
    BY <2>1
  <2>3. QED BY <1>1, <2>2 DEF WatchInv, NothingLost
<1>3. wanted[l] = Length(Watchlist)
  <2>1. ~Quiet
    BY <1>1 DEF Quiet
  <2>2. QED BY <1>2, <2>1 DEF LengthTold
<1>4. /\ userWatchlist' \in Bags /\ Watchlist \in Bags /\ calls'[loads] \in Bags
      /\ \A k \in Loads \ {loads} : calls'[k] = NoMovies
      /\ \A n \in Movies : userWatchlist'[n] + calls'[loads][n] = Watchlist[n]
  <2>1. Watchlist \in Bags
    BY <1>2 DEF WatchInv, WatchTypeOK, Watchlist
  <2>2. userWatchlist' \in Bags /\ calls' \in [Loads -> Bags]
    BY DEF WatchInv, WatchTypeOK
  <2>3. QED BY <1>1, <1>2, <2>1, <2>2 DEF WatchInv, NothingLost
<1>5. ASSUME NEW n \in Movies
      PROVE  /\ userWatchlist'[n] <= Watchlist[n]
             /\ userWatchlist'[n] = Watchlist[n] <=> calls'[loads][n] = 0
  <2>1. /\ userWatchlist'[n] \in Nat /\ calls'[loads][n] \in Nat /\ Watchlist[n] \in Nat
        /\ userWatchlist'[n] + calls'[loads][n] = Watchlist[n]
    BY <1>4 DEF Bags
  <2>2. QED BY <2>1
<1>6. Length(userWatchlist') = Length(Watchlist) <=> userWatchlist' = Watchlist
  BY <1>4, <1>5, SameLength
<1>7. Quiet' <=> calls'[loads] = NoMovies
  BY <1>2, <1>4 DEF Quiet
<1>8. calls'[loads] = NoMovies <=> userWatchlist' = Watchlist
  <2>1. ASSUME calls'[loads] = NoMovies PROVE userWatchlist' = Watchlist
    <3>1. \A n \in Movies : userWatchlist'[n] = Watchlist[n]
      BY <1>5, <2>1 DEF NoMovies
    <3>2. QED BY <1>4, <3>1, SameBag
  <2>2. ASSUME userWatchlist' = Watchlist PROVE calls'[loads] = NoMovies
    <3>1. \A n \in Movies : calls'[loads][n] = NoMovies[n]
      BY <1>5, <2>2 DEF NoMovies
    <3>2. QED BY <1>4, <3>1, SameBag, NoMoviesIsBag
  <2>3. QED BY <2>1, <2>2
<1>9. QED BY <1>1, <1>3, <1>6, <1>7, <1>8

(* An undisturbed load shows nothing before its last answer and everything *)
(* with it, for any lists and any order of the answers                     *)
(* (fetchAndConfigureMovies).                                              *)
THEOREM WholeListShown == WatchSpec => ShowsWholeList
<1>1. WatchSpec => [](WatchInv /\ LengthTold)
  <2>1. WatchInv /\ LengthTold /\ [WatchNext]_watchVars => LengthTold'
    BY StepKeepsTold
  <2>2. QED BY <2>1, WatchInitTold, WatchInvariant, PTL DEF WatchSpec
<1>2. ASSUME WatchInv, WatchInv', LengthTold, [WatchNext]_watchVars
      PROVE  [ (\E l \in Loads, m \in Movies : DetailsAnswer(l, m, m)) /\ clean /\ ~starred =>
                  shown' = IF Quiet' THEN Watchlist ELSE shown ]_watchVars
  BY <1>2, LengthMetAtTheEnd
<1>3. QED BY <1>1, <1>2, PTL DEF WatchSpec, ShowsWholeList

-----------------------------------------------------------------------------
(* The filter screen.                                                      *)

(* The years of every filter that can be in use are far enough apart: the  *)
(* edited copy's need not be.                                              *)
FarApart(f) == f.minYear < f.maxYear - 10
YearsFarApart == FarApart(filter) /\ (disk # NoFilter => FarApart(disk))

(* What the open screen has changed of the filter in use is what the user  *)
(* has changed, field by field.                                            *)
ChangesTracked ==
    open /\ ~stale =>
      /\ \A g \in Genres : g \in changed <=>
            (g \in ToSet(edited.genres)) # (g \in ToSet(filter.genres))
      /\ "popular" \notin changed => edited.popular = filter.popular
      /\ "minYear" \notin changed => edited.minYear = filter.minYear
      /\ "maxYear" \notin changed => edited.maxYear = filter.maxYear

(* The inductive invariant of the filter screen.                           *)
FilterInv == EditorTypeOK /\ EachGenreOnce /\ CheckmarksAgree /\ YearsFarApart /\ ChangesTracked

-----------------------------------------------------------------------------

(* The list of genres.                                                     *)

LEMMA GenreListType ==
    /\ GenreList \in Seq(Genres) /\ IsInjective(GenreList)
    /\ Len(GenreList) \in Nat /\ DOMAIN GenreList = 1..Len(GenreList)
    /\ \A row \in 1..Len(GenreList) : GenreList[row] \in Genres
BY EditorAssumption

LEMMA ListType ==
    ASSUME NEW list
    PROVE  list \in SeqOf(Genres, Len(GenreList))
             <=> list \in Seq(Genres) /\ Len(list) <= Len(GenreList)
<1>1. Len(GenreList) \in Nat
  BY GenreListType
<1>2. ASSUME list \in SeqOf(Genres, Len(GenreList))
      PROVE  list \in Seq(Genres) /\ Len(list) <= Len(GenreList)
  <2>1. PICK n \in 0..Len(GenreList) : list \in [1..n -> Genres]
    BY <1>2 DEF SeqOf
  <2>2. list \in Seq(Genres) /\ Len(list) = n
    BY <2>1, <1>1
  <2>3. QED BY <2>2, <1>1
<1>3. ASSUME list \in Seq(Genres), Len(list) <= Len(GenreList)
      PROVE  list \in SeqOf(Genres, Len(GenreList))
  <2>1. Len(list) \in 0..Len(GenreList) /\ list \in [1..Len(list) -> Genres]
    BY <1>1, <1>3
  <2>2. QED BY <2>1 DEF SeqOf
<1>4. QED BY <1>2, <1>3

(* A list without repetitions is no longer than the list of all genres.    *)
LEMMA NoLongerThanAll ==
    ASSUME NEW list \in Seq(Genres), IsInjective(list)
    PROVE  Len(list) <= Len(GenreList)
<1>1. Len(list) \in Nat /\ Len(GenreList) \in Nat
  BY GenreListType
<1>2. GenreList \in Surjection(1..Len(GenreList), Genres)
  <2>1. GenreList \in [1..Len(GenreList) -> Genres]
    BY GenreListType
  <2>2. \A g \in Genres : \E row \in 1..Len(GenreList) : GenreList[row] = g
    BY <2>1 DEF Genres, ToSet
  <2>3. QED BY <2>1, <2>2 DEF Surjection
<1>3. /\ IsFiniteSet(1..Len(GenreList)) /\ Cardinality(1..Len(GenreList)) = Len(GenreList)
      /\ IsFiniteSet(1..Len(list)) /\ Cardinality(1..Len(list)) = Len(list)
  <2>1. ASSUME NEW n \in Nat PROVE IsFiniteSet(1..n) /\ Cardinality(1..n) = n
    <3>1. IsFiniteSet(1..n) /\ Cardinality(1..n) = IF 1 > n THEN 0 ELSE n - 1 + 1
      BY FS_Interval
    <3>2. QED BY <3>1
  <2>2. QED BY <1>1, <2>1
<1>4. IsFiniteSet(Genres) /\ Cardinality(Genres) <= Len(GenreList)
  <2>1. IsFiniteSet(Genres) /\ Cardinality(Genres) <= Cardinality(1..Len(GenreList))
    BY <1>2, <1>3, FS_Surjection, Zenon
  <2>2. QED BY <2>1, <1>3
<1>5. list \in Injection(1..Len(list), Genres)
  <2>1. list \in [1..Len(list) -> Genres]
    OBVIOUS
  <2>2. QED BY <2>1 DEF Injection
<1>6. Len(list) <= Cardinality(Genres)
  BY <1>3, <1>4, <1>5, FS_Injection
<1>7. Cardinality(Genres) \in Nat
  BY <1>4, FS_CardinalityType
<1>8. QED BY <1>1, <1>4, <1>6, <1>7

LEMMA MinIs ==
    ASSUME NEW S \in SUBSET Nat, NEW m \in S, \A k \in S : m <= k
    PROVE  Min(S) = m
<1>1. \A x \in S : (\A k \in S : x <= k) => x = m
  OBVIOUS
<1>2. QED BY <1>1 DEF Min

(* Removing from a list without repetitions the element at i.              *)
LEMMA Removed ==
    ASSUME NEW S, NEW list \in Seq(S), IsInjective(list), NEW i \in 1..Len(list)
    PROVE  /\ RemoveAt(list, i) \in Seq(S) /\ IsInjective(RemoveAt(list, i))
           /\ Len(RemoveAt(list, i)) = Len(list) - 1
           /\ ToSet(RemoveAt(list, i)) = ToSet(list) \ {list[i]}
<1> DEFINE s == SubSeq(list, 1, i - 1)
           t == SubSeq(list, i + 1, Len(list))
           r == s \o t
           n == Len(list)
<1>1. n \in Nat /\ i \in 1..n /\ DOMAIN list = 1..n
  OBVIOUS
<1>2. s \in Seq(S) /\ Len(s) = i - 1 /\ \A j \in 1..(i - 1) : s[j] = list[j]
  <2>1. \A j \in 1..(i - 1) : list[j] \in S
    BY <1>1, ElementOfSeq
  <2>2. QED BY <2>1, <1>1, SubSeqProperties
<1>3. /\ t \in Seq(S) /\ Len(t) = n - i
      /\ \A j \in 1..(n - i) : t[j] = list[i + j]
  <2>1. \A j \in (i + 1)..n : list[j] \in S
    BY <1>1, ElementOfSeq
  <2> DEFINE k == i + 1
  <2>2. /\ k \in Int /\ n \in Int /\ n - k + 1 = n - i
        /\ (IF k <= n THEN n - k + 1 ELSE 0) = n - i
        /\ \A j \in 1..(n - i) : k + j - 1 = i + j
    <3>1. i \in Int /\ n \in Int /\ i <= n
      BY <1>1
    <3> HIDE DEF n
    <3>2. QED BY <3>1
  <2> HIDE DEF k, n
  <2>3. t = SubSeq(list, k, n)
    BY DEF k, n
  <2>4. /\ SubSeq(list, k, n) \in Seq(S)
        /\ Len(SubSeq(list, k, n)) = IF k <= n THEN n - k + 1 ELSE 0
        /\ \A j \in 1..(n - k + 1) : SubSeq(list, k, n)[j] = list[k + j - 1]
    BY <2>1, <2>2, SubSeqProperties DEF k
  <2>5. QED BY <2>2, <2>3, <2>4
<1>4. RemoveAt(list, i) = r
  BY DEF RemoveAt
<1> HIDE DEF s, t
<1>5. /\ r \in Seq(S) /\ Len(r) = Len(s) + Len(t)
      /\ \A j \in 1..Len(s) + Len(t) : r[j] = IF j <= Len(s) THEN s[j] ELSE t[j - Len(s)]
  BY <1>2, <1>3, ConcatProperties
<1> HIDE DEF r, n
<1>6. Len(r) = n - 1 /\ DOMAIN r = 1..(n - 1)
  BY <1>1, <1>2, <1>3, <1>5
<1>7. ASSUME NEW j \in 1..(n - 1)
      PROVE  r[j] = IF j < i THEN list[j] ELSE list[j + 1]
  <2>1. j \in 1..Len(s) + Len(t)
    BY <1>1, <1>2, <1>3
  <2>2. CASE j < i
    BY <2>1, <2>2, <1>1, <1>2, <1>5
  <2>3. CASE ~ (j < i)
    <3>1. j - (i - 1) \in 1..(n - i) /\ ~ (j <= Len(s)) /\ i + (j - (i - 1)) = j + 1
      BY <2>3, <1>1, <1>2
    <3>2. t[j - (i - 1)] = list[j + 1]
      BY <3>1, <1>3
    <3>3. r[j] = t[j - (i - 1)]
      BY <3>1, <2>1, <1>2, <1>5
    <3>4. QED BY <2>3, <3>2, <3>3
  <2>4. QED BY <2>2, <2>3
<1>8. ASSUME NEW a \in 1..n, NEW b \in 1..n, list[a] = list[b] PROVE a = b
  BY <1>1, <1>8 DEF IsInjective
<1>9. IsInjective(r)
  <2>1. SUFFICES ASSUME NEW a \in 1..(n - 1), NEW b \in 1..(n - 1), r[a] = r[b]
                 PROVE  a = b
    BY <1>6 DEF IsInjective
  <2> DEFINE at(j) == IF j < i THEN j ELSE j + 1
  <2>2. at(a) \in 1..n /\ at(b) \in 1..n
    BY <1>1
  <2>3. list[at(a)] = list[at(b)]
    BY <2>1, <1>7
  <2>4. at(a) = at(b)
    BY <2>2, <2>3, <1>8
  <2>5. QED BY <2>4, <1>1
<1>10. ToSet(r) = ToSet(list) \ {list[i]}
  <2>1. ASSUME NEW x \in ToSet(r) PROVE x \in ToSet(list) \ {list[i]}
    <3>1. PICK j \in 1..(n - 1) : x = r[j]
      BY <2>1, <1>6 DEF ToSet
    <3>2. PICK k \in 1..n : k # i /\ x = list[k]
      <4>1. CASE j < i
        BY <4>1, <3>1, <1>7, <1>1
      <4>2. CASE ~ (j < i)
        <5>1. j + 1 \in 1..n /\ j + 1 # i
          BY <4>2, <1>1
        <5>2. QED BY <5>1, <4>2, <3>1, <1>7
      <4>3. QED BY <4>1, <4>2
    <3>3. QED BY <3>2, <1>1, <1>8 DEF ToSet
  <2>2. ASSUME NEW x \in ToSet(list), x # list[i] PROVE x \in ToSet(r)
    <3>1. PICK k \in 1..n : x = list[k]
      BY <2>2, <1>1 DEF ToSet
    <3>2. PICK j \in 1..(n - 1) : x = r[j]
      <4>1. CASE k < i
        <5>1. k \in 1..(n - 1)
          BY <4>1, <1>1
        <5>2. QED BY <5>1, <4>1, <3>1, <1>7
      <4>2. CASE ~ (k < i)
        <5>1. k # i
          BY <3>1, <2>2
        <5>2. k - 1 \in 1..(n - 1) /\ ~ (k - 1 < i) /\ (k - 1) + 1 = k
          BY <4>2, <5>1, <1>1
        <5>3. QED BY <5>2, <3>1, <1>7
      <4>3. QED BY <4>1, <4>2
    <3>3. QED BY <3>2, <1>6 DEF ToSet
  <2>3. QED BY <2>1, <2>2
<1>11. QED BY <1>4, <1>5, <1>6, <1>9, <1>10 DEF n

(* Appending to a list without repetitions an element it does not have.    *)
LEMMA Appended ==
    ASSUME NEW S, NEW list \in Seq(S), IsInjective(list), NEW g \in S, g \notin ToSet(list)
    PROVE  /\ Append(list, g) \in Seq(S) /\ IsInjective(Append(list, g))
           /\ Len(Append(list, g)) = Len(list) + 1
           /\ ToSet(Append(list, g)) = ToSet(list) \cup {g}
<1> DEFINE n == Len(list)
           r == Append(list, g)
<1>1. n \in Nat /\ DOMAIN list = 1..n
  OBVIOUS
<1>2. /\ r \in Seq(S) /\ Len(r) = n + 1 /\ DOMAIN r = 1..(n + 1)
      /\ \A j \in 1..n : r[j] = list[j]
      /\ r[n + 1] = g
  OBVIOUS
<1> HIDE DEF n, r
<1>3. \A j \in 1..n : list[j] \in ToSet(list)
  BY <1>1 DEF ToSet
<1>4. \A j \in 1..(n + 1) : j \in 1..n \/ j = n + 1
  BY <1>1
<1>5. IsInjective(r)
  <2>1. SUFFICES ASSUME NEW a \in 1..(n + 1), NEW b \in 1..(n + 1), r[a] = r[b]
                 PROVE  a = b
    BY <1>2 DEF IsInjective
  <2>2. CASE a \in 1..n /\ b \in 1..n
    BY <2>1, <2>2, <1>1, <1>2 DEF IsInjective
  <2>3. CASE a = n + 1 \/ b = n + 1
    BY <2>1, <2>3, <1>2, <1>3, <1>4
  <2>4. QED BY <2>2, <2>3, <1>4
<1>6. ToSet(r) = ToSet(list) \cup {g}
  <2>1. \A j \in 1..n : j \in 1..(n + 1)
    BY <1>1
  <2>2. n + 1 \in 1..(n + 1)
    BY <1>1
  <2>3. QED BY <2>1, <2>2, <1>1, <1>2, <1>4 DEF ToSet
<1>7. QED BY <1>2, <1>5, <1>6 DEF n, r

(* A tap on a genre's row takes the genre out of the list, or puts it in.  *)
LEMMA GenreToggled ==
    ASSUME NEW list \in SeqOf(Genres, Len(GenreList)), IsInjective(list), NEW g \in Genres
    PROVE  /\ AddGenreToFilter(list, g) \in SeqOf(Genres, Len(GenreList))
           /\ IsInjective(AddGenreToFilter(list, g))
           /\ ToSet(AddGenreToFilter(list, g)) =
                IF g \in ToSet(list) THEN ToSet(list) \ {g} ELSE ToSet(list) \cup {g}
           /\ Len(AddGenreToFilter(list, g)) > Len(list) <=> g \notin ToSet(list)
<1> DEFINE I == {j \in 1..Len(list) : list[j] = g}
<1>1. list \in Seq(Genres) /\ Len(list) \in Nat /\ DOMAIN list = 1..Len(list)
  BY ListType
<1>2. I \in SUBSET Nat
  BY <1>1
<1>3. g \in ToSet(list) <=> I # {}
  BY <1>1 DEF ToSet
<1>4. CASE g \in ToSet(list)
  <2>1. PICK i \in 1..Len(list) : list[i] = g
    BY <1>4, <1>1 DEF ToSet
  <2>2. i \in I /\ \A j \in I : i = j
    BY <2>1, <1>1 DEF IsInjective
  <2>3. SelectInSeq(list, LAMBDA h : h = g) = i
    <3>1. Min(I) = i
      <4> HIDE DEF I
      <4>1. \A j \in I : i <= j
        BY <2>2, <1>1
      <4>2. QED BY <4>1, <2>2, <1>2, MinIs
    <3>2. QED BY <3>1, <2>2 DEF SelectInSeq
  <2>4. AddGenreToFilter(list, g) = RemoveAt(list, i)
    BY <2>3, <1>1 DEF AddGenreToFilter
  <2>5. /\ RemoveAt(list, i) \in Seq(Genres) /\ IsInjective(RemoveAt(list, i))
        /\ Len(RemoveAt(list, i)) = Len(list) - 1
        /\ ToSet(RemoveAt(list, i)) = ToSet(list) \ {g}
    BY <2>1, <1>1, Removed
  <2>6. QED BY <1>1, <1>4, <2>4, <2>5, ListType, NoLongerThanAll
<1>5. CASE g \notin ToSet(list)
  <2>1. SelectInSeq(list, LAMBDA h : h = g) = 0
    BY <1>3, <1>5 DEF SelectInSeq
  <2>2. AddGenreToFilter(list, g) = Append(list, g)
    BY <2>1 DEF AddGenreToFilter
  <2>3. /\ Append(list, g) \in Seq(Genres) /\ IsInjective(Append(list, g))
        /\ Len(Append(list, g)) = Len(list) + 1
        /\ ToSet(Append(list, g)) = ToSet(list) \cup {g}
    BY <1>1, <1>5, Appended
  <2> DEFINE r == Append(list, g)
  <2> HIDE DEF r
  <2>4. r \in SeqOf(Genres, Len(GenreList)) /\ Len(r) > Len(list)
    <3>1. r \in Seq(Genres) /\ IsInjective(r) /\ Len(r) = Len(list) + 1
      BY <2>3 DEF r
    <3>2. Len(r) <= Len(GenreList)
      BY <3>1, NoLongerThanAll
    <3>3. QED BY <1>1, <3>1, <3>2, ListType
  <2>5. AddGenreToFilter(list, g) = r /\ IsInjective(r) /\ ToSet(r) = ToSet(list) \cup {g}
    BY <2>2, <2>3 DEF r
  <2> HIDE DEF I
  <2>6. QED
    <3>1. ToSet(r) = IF g \in ToSet(list) THEN ToSet(list) \ {g} ELSE ToSet(list) \cup {g}
      BY <1>5, <2>5, Zenon
    <3>2. QED BY <1>5, <2>4, <2>5, <3>1
<1>6. QED BY <1>4, <1>5
-----------------------------------------------------------------------------

(* The records a filter can be.                                            *)

LEMMA FilterFields ==
    ASSUME NEW f \in Filters
    PROVE  /\ f.genres \in SeqOf(Genres, Len(GenreList))
           /\ f.minYear \in Int /\ f.maxYear \in Int /\ f.popular \in BOOLEAN
           /\ f.minYear \in MinYears \cup {20000, 20100}
           /\ f.maxYear \in MaxYears \cup {20210}
<1>1. /\ f.genres \in SeqOf(Genres, Len(GenreList)) /\ f.popular \in BOOLEAN
      /\ f.minYear \in MinYears \cup {20000, 20100}
      /\ f.maxYear \in MaxYears \cup {20210}
  BY DEF Filters
<1>2. \A y \in MinYears \cup {20000, 20100} : y \in Int
  <2>1. MinYears \subseteq 19500..20160
    BY EditorAssumption
  <2>2. QED BY <2>1
<1>3. \A y \in MaxYears \cup {20210} : y \in Int
  <2>1. MaxYears \subseteq 19550..20210
    BY EditorAssumption
  <2>2. QED BY <2>1
<1>4. f.minYear \in Int /\ f.maxYear \in Int
  <2>1. f.minYear \in Int
    BY <1>1, <1>2
  <2>2. f.maxYear \in Int
    BY <1>1, <1>3
  <2>3. QED BY <2>1, <2>2
<1>5. QED BY <1>1, <1>4

LEMMA FilterChanges ==
    ASSUME NEW f \in Filters
    PROVE  /\ \A l \in SeqOf(Genres, Len(GenreList)) :
                [f EXCEPT !.genres = l] \in Filters
           /\ \A year \in MinYears : [f EXCEPT !.minYear = year] \in Filters
           /\ \A year \in MaxYears : [f EXCEPT !.maxYear = year] \in Filters
           /\ [f EXCEPT !.popular = ~@] \in Filters
<1>1. ASSUME NEW l \in SeqOf(Genres, Len(GenreList)) PROVE [f EXCEPT !.genres = l] \in Filters
  BY DEF Filters
<1>2. ASSUME NEW year \in MinYears PROVE [f EXCEPT !.minYear = year] \in Filters
  BY DEF Filters
<1>3. ASSUME NEW year \in MaxYears PROVE [f EXCEPT !.maxYear = year] \in Filters
  BY DEF Filters
<1>4. [f EXCEPT !.popular = ~@] \in Filters
  <2>1. ASSUME NEW p \in BOOLEAN PROVE [f EXCEPT !.popular = p] \in Filters
    BY DEF Filters
  <2>2. (~f.popular) \in BOOLEAN
    BY Zenon
  <2>3. [f EXCEPT !.popular = ~f.popular] \in Filters
    BY <2>1, <2>2
  <2>4. QED BY <2>3
<1>5. QED BY <1>1, <1>2, <1>3, <1>4

LEMMA DefaultType ==
    /\ DefaultFilter \in Filters /\ IsInjective(DefaultFilter.genres)
    /\ FarApart(DefaultFilter)
<1>1. GenreList \in SeqOf(Genres, Len(GenreList))
  BY GenreListType, ListType
<1>2. DefaultFilter \in Filters
  BY <1>1 DEF DefaultFilter, Filters
<1>3. QED BY <1>2, GenreListType DEF DefaultFilter, FarApart

(* Years that are kept are far enough apart, and those that are replaced.  *)
LEMMA SavedType ==
    ASSUME NEW f \in Filters
    PROVE  /\ SavedYears(f) \in Filters /\ SavedYears(f).genres = f.genres
           /\ SavedYears(f).popular = f.popular
           /\ FarApart(SavedYears(f))
           /\ FarApart(f) => SavedYears(f) = f
<1>1. f.minYear \in Int /\ f.maxYear \in Int
  BY FilterFields
<1>2. CASE FarApart(f)
  <2>1. SavedYears(f) = f
    BY <1>1, <1>2 DEF FarApart, SavedYears
  <2>2. QED BY <1>2, <2>1
<1>3. CASE ~FarApart(f)
  <2>1. SavedYears(f) = [f EXCEPT !.minYear = 20100, !.maxYear = 20210]
    BY <1>1, <1>3 DEF FarApart, SavedYears
  <2> DEFINE r == [f EXCEPT !.minYear = 20100, !.maxYear = 20210]
  <2>2. r \in Filters /\ r.genres = f.genres /\ r.popular = f.popular
    <3>1. [f EXCEPT !.minYear = 20100] \in Filters
      BY DEF Filters
    <3>2. r = [[f EXCEPT !.minYear = 20100] EXCEPT !.maxYear = 20210]
      BY DEF Filters
    <3>3. \A h \in Filters : [h EXCEPT !.maxYear = 20210] \in Filters
      BY DEF Filters
    <3>4. r.genres = f.genres /\ r.popular = f.popular
      BY DEF Filters
    <3> DEFINE h == [f EXCEPT !.minYear = 20100]
    <3> HIDE DEF h, r
    <3>5. r \in Filters
      <4>1. h \in Filters /\ r = [h EXCEPT !.maxYear = 20210]
        BY <3>1, <3>2 DEF h
      <4>2. QED BY <4>1, <3>3
    <3>6. QED BY <3>4, <3>5
  <2>3. r.minYear = 20100 /\ r.maxYear = 20210
    BY DEF Filters
  <2> HIDE DEF r
  <2>4. FarApart(r)
    BY <2>3 DEF FarApart
  <2>5. SavedYears(f) = r
    BY <2>1 DEF r
  <2>6. QED BY <1>3, <2>2, <2>4, <2>5
<1>4. QED BY <1>2, <1>3

LEMMA ScreenType ==
    /\ OnScreen(0) \subseteq Rows /\ 0 \in Rows
    /\ \A first \in Int : OnScreen(first) \subseteq Rows => first \in Rows
    /\ Rows \subseteq Int
<1>1. Visible \in 1..Len(GenreList) + 1 /\ Len(GenreList) \in Nat
  BY EditorAssumption, GenreListType
<1>2. ASSUME NEW first \in Int PROVE first \in OnScreen(first)
  BY <1>1 DEF OnScreen
<1>3. OnScreen(0) \subseteq Rows
  BY <1>1 DEF OnScreen, Rows
<1>4. QED BY <1>1, <1>2, <1>3 DEF Rows

LEMMA EditedList ==
    ASSUME EditorTypeOK, EachGenreOnce
    PROVE  edited.genres \in SeqOf(Genres, Len(GenreList)) /\ IsInjective(edited.genres)
BY FilterFields DEF EditorTypeOK, EachGenreOnce

(* Typing and no repetitions, action by action.                            *)
LEMMA TypeStep ==
    ASSUME EditorTypeOK, EachGenreOnce, [EditorNext]_editorVars
    PROVE  EditorTypeOK' /\ EachGenreOnce'
<1> USE DEF EditorTypeOK, EachGenreOnce
<1> USE DefaultType
<1>1. CASE Relaunch
  BY <1>1 DEF Relaunch, Launch, editVars
<1>2. CASE SaveFilter
  <2>1. NoFilter \notin Filters
    BY EditorAssumption
  <2>2. QED BY <1>2, <2>1 DEF SaveFilter, editVars
<1>3. CASE FetchFilter
  BY <1>3 DEF FetchFilter
<1>4. CASE ShowFilter
  <2>1. cells' \subseteq OnScreen(0) /\ top' = 0 /\ spare' = {} /\ changed' = {}
    BY <1>4 DEF ShowFilter
  <2>2. QED BY <1>4, <2>1, ScreenType DEF ShowFilter
<1>5. CASE HandleCancel
  BY <1>5 DEF HandleCancel, editVars
<1>6. CASE HandleSave
  BY <1>6, SavedType DEF HandleSave, editVars
<1>7. CASE HandleSliderChanged
  <2>1. edited' \in Filters /\ edited'.genres = edited.genres
    BY <1>7, FilterChanges DEF HandleSliderChanged, Filters
  <2>2. QED BY <1>7, <2>1 DEF HandleSliderChanged, Change, Controls
<1>8. CASE HandleTogglePopular
  <2>1. edited' \in Filters /\ edited'.genres = edited.genres
    BY <1>8, FilterChanges DEF HandleTogglePopular, Filters
  <2>2. QED BY <1>8, <2>1 DEF HandleTogglePopular, Change, Controls
<1>9. ASSUME NEW row \in Rows, DidSelectRow(row)
      PROVE  EditorTypeOK' /\ EachGenreOnce'
  <2> DEFINE g == GenreList[row]
             l == AddGenreToFilter(edited.genres, g)
  <2>1. row \in OnScreen(top) /\ row \in 1..Len(GenreList) /\ g \in Genres
    BY <1>9, GenreListType DEF DidSelectRow, Rows
  <2>2. l \in SeqOf(Genres, Len(GenreList)) /\ IsInjective(l)
    BY <2>1, EditedList, GenreToggled
  <2>3. edited' = [edited EXCEPT !.genres = l]
    BY <1>9 DEF DidSelectRow
  <2>4. cells' \in {cells \cup {row}, cells \ {row}} /\ changed' \in {changed \cup {g}, changed \ {g}}
    BY <1>9 DEF DidSelectRow
  <2> HIDE DEF l, g
  <2>5. edited' \in Filters /\ IsInjective(edited'.genres)
    BY <2>2, <2>3, FilterChanges DEF Filters
  <2>6. UNCHANGED <<filter, disk, pending, open, top, spare, stale>>
    BY <1>9 DEF DidSelectRow
  <2>7. cells' \subseteq OnScreen(top) /\ changed' \subseteq Genres \cup Controls
    BY <2>1, <2>4
  <2>8. QED BY <2>5, <2>6, <2>7
<1>10. ASSUME NEW first \in Int, NEW leaving, NEW entering,
              Scroll(first, leaving, entering), entering \in OnScreen(first),
              OnScreen(top) \ {leaving} \subseteq OnScreen(first)
       PROVE  EditorTypeOK' /\ EachGenreOnce'
  <2>1. /\ OnScreen(first) \subseteq Rows /\ top' = first
        /\ spare' = spare \cup {leaving \in cells}
        /\ UNCHANGED <<filter, disk, pending, open, edited, changed, stale>>
    BY <1>10 DEF Scroll
  <2>2. cells' \subseteq (cells \ {leaving}) \cup {entering}
    BY <1>10 DEF Scroll
  <2>3. spare' \subseteq BOOLEAN
    BY <2>1, Zenon
  <2>4. cells' \subseteq OnScreen(first)
    BY <1>10, <2>2
  <2>5. first \in Rows
    BY <2>1, ScreenType
  <2>6. QED BY <2>1, <2>3, <2>4, <2>5
<1>11. Visible \in Int /\ top \in Int /\ Visible >= 1
  BY EditorAssumption, GenreListType, ScreenType
<1>12. CASE Scroll(top + 1, top, top + Visible)
  <2>1. /\ top + 1 \in Int /\ top + Visible \in OnScreen(top + 1)
        /\ OnScreen(top) \ {top} \subseteq OnScreen(top + 1)
    BY <1>11 DEF OnScreen
  <2>2. QED BY <1>10, <1>12, <2>1
<1>13. CASE Scroll(top - 1, top + Visible - 1, top - 1)
  <2>1. /\ top - 1 \in Int /\ top - 1 \in OnScreen(top - 1)
        /\ OnScreen(top) \ {top + Visible - 1} \subseteq OnScreen(top - 1)
    BY <1>11 DEF OnScreen
  <2>2. QED BY <1>10, <1>13, <2>1
<1>14. CASE UNCHANGED editorVars
  BY <1>14 DEF editorVars, editVars
<1>15. QED
  BY <1>1, <1>2, <1>3, <1>4, <1>5, <1>6, <1>7, <1>8, <1>9, <1>12, <1>13, <1>14 DEF EditorNext
(* Checkmarks: which rows are chosen depends on the edited copy alone.     *)
LEMMA MarksStep ==
    ASSUME EditorTypeOK, EachGenreOnce, CheckmarksAgree, [EditorNext]_editorVars
    PROVE  CheckmarksAgree'
<1>1. Visible \in Int /\ Visible >= 1 /\ top \in Int /\ OnScreen(top) \subseteq Rows
  BY EditorAssumption, GenreListType, ScreenType DEF EditorTypeOK
<1>2. CASE UNCHANGED <<open, edited, top, cells>>
  BY <1>2 DEF CheckmarksAgree, Chosen
<1>3. CASE ~open'
  BY <1>3 DEF CheckmarksAgree
<1>4. CASE ShowFilter
  <2>1. top' = 0 /\ cells' = {row \in OnScreen(0) : Chosen(row)'}
    BY <1>4 DEF ShowFilter
  <2>2. QED BY <2>1 DEF CheckmarksAgree
<1>5. CASE HandleSliderChanged \/ HandleTogglePopular
  <2>1. edited'.genres = edited.genres
    BY <1>5, FilterChanges DEF HandleSliderChanged, HandleTogglePopular, EditorTypeOK, Filters
  <2>2. UNCHANGED <<open, top, cells>>
    BY <1>5 DEF HandleSliderChanged, HandleTogglePopular, Change
  <2>3. QED BY <2>1, <2>2 DEF CheckmarksAgree, Chosen
<1>6. ASSUME NEW row \in Rows, DidSelectRow(row)
      PROVE  CheckmarksAgree'
  <2> DEFINE g == GenreList[row]
             l == AddGenreToFilter(edited.genres, g)
  <2>1. open /\ row \in OnScreen(top) /\ row # 0 /\ row \in 1..Len(GenreList) /\ g \in Genres
    BY <1>6, GenreListType DEF DidSelectRow, Rows
  <2>2. /\ ToSet(l) = IF g \in ToSet(edited.genres)
                        THEN ToSet(edited.genres) \ {g} ELSE ToSet(edited.genres) \cup {g}
        /\ Len(l) > Len(edited.genres) <=> g \notin ToSet(edited.genres)
    BY <2>1, EditedList, GenreToggled
  <2>3. edited' = [edited EXCEPT !.genres = l]
    BY <1>6 DEF DidSelectRow
  <2>4. edited'.genres = l
    BY <2>3 DEF EditorTypeOK, Filters
  <2>5. /\ cells' = IF Len(edited'.genres) > Len(edited.genres)
                      THEN cells \cup {row} ELSE cells \ {row}
        /\ UNCHANGED <<open, top>>
    BY <1>6 DEF DidSelectRow
  <2> HIDE DEF l
  <2>6. cells' = IF g \notin ToSet(edited.genres) THEN cells \cup {row} ELSE cells \ {row}
    BY <2>2, <2>4, <2>5
  <2>7. SUFFICES ASSUME NEW other \in OnScreen(top), other # 0
                 PROVE  other \in cells' <=> GenreList[other] \in ToSet(l)
    BY <2>4, <2>5 DEF CheckmarksAgree, Chosen
  <2>8. other \in cells <=> GenreList[other] \in ToSet(edited.genres)
    BY <2>1, <2>7 DEF CheckmarksAgree, Chosen
  <2>9. CASE other = row
    BY <2>9, <2>2, <2>6
  <2>10. CASE other # row
    <3>1. other \in 1..Len(GenreList)
      BY <1>1, <2>7, GenreListType DEF Rows
    <3>2. GenreList[other] # g
      BY <3>1, <2>1, <2>10, GenreListType DEF IsInjective
    <3> HIDE DEF g
    <3>3. GenreList[other] \in ToSet(l) <=> GenreList[other] \in ToSet(edited.genres)
      BY <3>2, <2>2
    <3>4. other \in cells' <=> other \in cells
      BY <2>6, <2>10
    <3>5. QED BY <3>3, <3>4, <2>8
  <2>11. QED BY <2>9, <2>10
<1>7. ASSUME NEW first \in Int, NEW leaving, NEW entering \in Int,
             Scroll(first, leaving, entering), leaving \notin OnScreen(first),
             OnScreen(first) \ {entering} \subseteq OnScreen(top),
             entering \notin OnScreen(top)
      PROVE  CheckmarksAgree'
  <2>1. PICK mark : cells' = (cells \ {leaving}) \cup
                             (IF CellForRow(entering, mark) THEN {entering} ELSE {})
    BY <1>7 DEF Scroll
  <2>2. open /\ top' = first /\ UNCHANGED <<open, edited>>
    BY <1>7 DEF Scroll
  <2>3. SUFFICES ASSUME NEW row \in OnScreen(first), row # 0
                 PROVE  row \in cells' <=> Chosen(row)
    BY <2>2 DEF CheckmarksAgree, Chosen
  <2>4. CASE row = entering
    <3>1. CellForRow(entering, mark) <=> Chosen(entering)
      BY <2>3, <2>4 DEF CellForRow
    <3>2. entering \notin cells
      BY <1>7 DEF EditorTypeOK
    <3>3. QED BY <2>1, <2>4, <3>1, <3>2
  <2>5. CASE row # entering
    <3>1. row \in OnScreen(top) /\ row # leaving
      BY <1>7, <2>3, <2>5
    <3>2. row \in cells <=> Chosen(row)
      BY <3>1, <2>2, <2>3 DEF CheckmarksAgree
    <3>3. QED BY <2>1, <2>5, <3>1, <3>2
  <2>6. QED BY <2>4, <2>5
<1>8. CASE Scroll(top + 1, top, top + Visible)
  <2>1. /\ top + 1 \in Int /\ top + Visible \in Int /\ top \notin OnScreen(top + 1)
        /\ OnScreen(top + 1) \ {top + Visible} \subseteq OnScreen(top)
        /\ top + Visible \notin OnScreen(top)
    BY <1>1 DEF OnScreen
  <2>2. QED BY <1>7, <1>8, <2>1
<1>9. CASE Scroll(top - 1, top + Visible - 1, top - 1)
  <2>1. /\ top - 1 \in Int /\ top + Visible - 1 \notin OnScreen(top - 1)
        /\ OnScreen(top - 1) \ {top - 1} \subseteq OnScreen(top)
        /\ top - 1 \notin OnScreen(top)
    BY <1>1 DEF OnScreen
  <2>2. QED BY <1>7, <1>9, <2>1
<1>10. Relaunch \/ HandleCancel \/ HandleSave => ~open'
  BY DEF Relaunch, HandleCancel, HandleSave
<1>11. SaveFilter \/ FetchFilter \/ UNCHANGED editorVars => UNCHANGED <<open, edited, top, cells>>
  BY DEF SaveFilter, FetchFilter, editorVars, editVars
<1>12. QED
  BY <1>2, <1>3, <1>4, <1>5, <1>6, <1>8, <1>9, <1>10, <1>11 DEF EditorNext

(* Years: a filter comes from the defaults, the disk or handleSave.        *)
LEMMA YearsStep ==
    ASSUME EditorTypeOK, YearsFarApart, [EditorNext]_editorVars
    PROVE  YearsFarApart'
<1> USE DefaultType DEF YearsFarApart, FarApart
<1>1. CASE Relaunch
  BY <1>1 DEF Relaunch, Launch, editVars
<1>2. CASE SaveFilter
  BY <1>2 DEF SaveFilter, editVars
<1>3. CASE FetchFilter
  BY <1>3 DEF FetchFilter
<1>4. CASE HandleSave
  BY <1>4, SavedType DEF HandleSave, EditorTypeOK
<1>5. CASE UNCHANGED <<filter, disk>>
  BY <1>5
<1>6. ShowFilter \/ HandleCancel \/ HandleSliderChanged \/ HandleTogglePopular
        \/ (\E row \in Rows : DidSelectRow(row))
        \/ (\E first, leaving, entering : Scroll(first, leaving, entering))
        \/ UNCHANGED editorVars
      => UNCHANGED <<filter, disk>>
  BY DEF ShowFilter, HandleCancel, HandleSliderChanged, HandleTogglePopular, Change,
         DidSelectRow, Scroll, editorVars
<1>7. QED
  BY <1>1, <1>2, <1>3, <1>4, <1>5, <1>6 DEF EditorNext
(* The history of changes, field by field.                                 *)
LEMMA TrackedStep ==
    ASSUME EditorTypeOK, EachGenreOnce, ChangesTracked, [EditorNext]_editorVars
    PROVE  ChangesTracked'
<1>1. CASE ~open' \/ stale'
  BY <1>1 DEF ChangesTracked
<1>2. CASE UNCHANGED <<open, stale, edited, changed, filter>>
  BY <1>2 DEF ChangesTracked
<1>3. CASE ShowFilter
  <2>1. edited' = filter /\ changed' = {} /\ filter' = filter
    BY <1>3 DEF ShowFilter
  <2>2. QED BY <2>1 DEF ChangesTracked
<1>4. \A g \in Genres : g \notin Controls
  <2>1. Genres \cap Controls = {}
    BY EditorAssumption
  <2>2. QED BY <2>1
<1>5. ASSUME NEW c \in Controls, changed' = changed \cup {c},
             UNCHANGED <<open, stale, filter>>, edited'.genres = edited.genres,
             c # "popular" => edited'.popular = edited.popular,
             c # "minYear" => edited'.minYear = edited.minYear,
             c # "maxYear" => edited'.maxYear = edited.maxYear
      PROVE  ChangesTracked'
  <2>1. \A g \in Genres : g \in changed' <=> g \in changed
    BY <1>4, <1>5
  <2>2. \A d \in {"popular", "minYear", "maxYear"} : d \notin changed' => d # c /\ d \notin changed
    BY <1>5
  <2>3. QED BY <2>1, <2>2, <1>5 DEF ChangesTracked
<1>6. CASE HandleSliderChanged
  <2>1. CASE Change("minYear") /\ \E year \in MinYears : edited' = [edited EXCEPT !.minYear = year]
    <3>1. /\ "minYear" \in Controls /\ changed' = changed \cup {"minYear"}
          /\ UNCHANGED <<open, stale, filter>>
      BY <2>1 DEF Change, Controls
    <3>2. /\ edited'.genres = edited.genres /\ edited'.popular = edited.popular
          /\ edited'.maxYear = edited.maxYear
      BY <2>1 DEF EditorTypeOK, Filters
    <3>3. QED BY <3>1, <3>2, <1>5
  <2>2. CASE Change("maxYear") /\ \E year \in MaxYears : edited' = [edited EXCEPT !.maxYear = year]
    <3>1. /\ "maxYear" \in Controls /\ changed' = changed \cup {"maxYear"}
          /\ UNCHANGED <<open, stale, filter>>
      BY <2>2 DEF Change, Controls
    <3>2. /\ edited'.genres = edited.genres /\ edited'.popular = edited.popular
          /\ edited'.minYear = edited.minYear
      BY <2>2 DEF EditorTypeOK, Filters
    <3>3. QED BY <3>1, <3>2, <1>5
  <2>3. QED BY <1>6, <2>1, <2>2 DEF HandleSliderChanged
<1>7. CASE HandleTogglePopular
  <2>1. /\ "popular" \in Controls /\ changed' = changed \cup {"popular"}
        /\ UNCHANGED <<open, stale, filter>>
    BY <1>7 DEF HandleTogglePopular, Change, Controls
  <2>2. /\ edited'.genres = edited.genres /\ edited'.minYear = edited.minYear
        /\ edited'.maxYear = edited.maxYear
    BY <1>7 DEF HandleTogglePopular, EditorTypeOK, Filters
  <2>3. QED BY <2>1, <2>2, <1>5
<1>8. ASSUME NEW row \in Rows, DidSelectRow(row)
      PROVE  ChangesTracked'
  <2> DEFINE g == GenreList[row]
             l == AddGenreToFilter(edited.genres, g)
  <2>1. g \in Genres
    BY <1>8, GenreListType DEF DidSelectRow, Rows
  <2>2. ToSet(l) = IF g \in ToSet(edited.genres)
                     THEN ToSet(edited.genres) \ {g} ELSE ToSet(edited.genres) \cup {g}
    BY <2>1, EditedList, GenreToggled
  <2>3. /\ edited' = [edited EXCEPT !.genres = l]
        /\ changed' = IF g \in changed THEN changed \ {g} ELSE changed \cup {g}
        /\ UNCHANGED <<open, stale, filter>>
    BY <1>8 DEF DidSelectRow
  <2> HIDE DEF l, g
  <2>4. /\ edited'.genres = l /\ edited'.popular = edited.popular
        /\ edited'.minYear = edited.minYear /\ edited'.maxYear = edited.maxYear
    BY <2>3 DEF EditorTypeOK, Filters
  <2>5. ASSUME open, ~stale, NEW h \in Genres
        PROVE  h \in changed' <=> (h \in ToSet(edited'.genres)) # (h \in ToSet(filter'.genres))
    <3>1. h \in changed <=> (h \in ToSet(edited.genres)) # (h \in ToSet(filter.genres))
      BY <2>5 DEF ChangesTracked
    <3>2. CASE h = g
      <4>1. h \in changed' <=> ~(h \in changed)
        BY <2>3, <3>2
      <4>2. h \in ToSet(edited'.genres) <=> ~(h \in ToSet(edited.genres))
        BY <2>2, <2>4, <3>2
      <4>3. QED BY <4>1, <4>2, <3>1, <2>3
    <3>3. CASE h # g
      <4>1. h \in changed' <=> h \in changed
        BY <2>3, <3>3
      <4>2. h \in ToSet(edited'.genres) <=> h \in ToSet(edited.genres)
        BY <2>2, <2>4, <3>3
      <4>3. QED BY <4>1, <4>2, <3>1, <2>3
    <3>4. QED BY <3>2, <3>3
  <2>6. \A c \in Controls : c \in changed' <=> c \in changed
    BY <1>4, <2>1, <2>3
  <2>7. "popular" \in Controls /\ "minYear" \in Controls /\ "maxYear" \in Controls
    BY DEF Controls
  <2>8. QED BY <2>3, <2>4, <2>5, <2>6, <2>7 DEF ChangesTracked
<1>9. Relaunch \/ HandleCancel \/ HandleSave => ~open'
  BY DEF Relaunch, HandleCancel, HandleSave
<1>10. FetchFilter => ~open' \/ stale'
  BY DEF FetchFilter
<1>11. SaveFilter \/ (\E first, leaving, entering : Scroll(first, leaving, entering))
         \/ UNCHANGED editorVars
       => UNCHANGED <<open, stale, edited, changed, filter>>
  BY DEF SaveFilter, Scroll, editorVars, editVars
<1>12. QED
  BY <1>1, <1>2, <1>3, <1>6, <1>7, <1>8, <1>9, <1>10, <1>11 DEF EditorNext

-----------------------------------------------------------------------------

(* The filters, the edited copy and the checkmarks stay in step with what  *)
(* the user has changed, whatever the app loads and saves beside the open  *)
(* screen (FilterController, FilterView).                                  *)
THEOREM FilterInvariant == EditorSpec => []FilterInv
<1>1. EditorInit => FilterInv
  <2> SUFFICES ASSUME EditorInit PROVE FilterInv
    OBVIOUS
  <2>1. EditorTypeOK
    BY DefaultType, ScreenType DEF EditorInit, EditorTypeOK
  <2>2. EachGenreOnce /\ YearsFarApart
    BY DefaultType DEF EditorInit, EachGenreOnce, YearsFarApart
  <2>3. CheckmarksAgree /\ ChangesTracked
    BY DEF EditorInit, CheckmarksAgree, ChangesTracked
  <2>4. QED BY <2>1, <2>2, <2>3 DEF FilterInv
<1>2. FilterInv /\ [EditorNext]_editorVars => FilterInv'
  BY TypeStep, MarksStep, YearsStep, TrackedStep DEF FilterInv
<1>3. QED BY <1>1, <1>2, PTL DEF EditorSpec

(* For every list of genres and every size of the screen, the filters are  *)
(* well formed, no genre is in one twice, and on an open screen the        *)
(* checkmarks say which genres are chosen (FilterController's table).      *)
THEOREM CheckmarksAreRight == EditorSpec => []EditorInv
<1>1. FilterInv => EditorInv
  BY DEF FilterInv, EditorInv
<1>2. QED BY <1>1, FilterInvariant, PTL

(* For every position the sliders may have, the filter in use asks for a   *)
(* whole year at least (handleSave, minYearString, maxYearString).         *)
THEOREM AsksForWholeYears == EditorSpec => []SpanHoldsAYear
<1>1. ASSUME FilterInv PROVE SpanHoldsAYear
  <2>1. filter \in Filters /\ FarApart(filter)
    BY <1>1 DEF FilterInv, EditorTypeOK, YearsFarApart
  <2>2. filter.minYear \in Int /\ filter.maxYear \in Int
    BY <2>1, FilterFields
  <2>3. \A m, n \in Int : m < n - 10 => m \div 10 + 1 < n \div 10 + 1
    OBVIOUS
  <2>4. MinYearString(filter) < MaxYearString(filter)
    BY <2>1, <2>2, <2>3 DEF FarApart, MinYearString, MaxYearString
  <2>5. QED BY <2>4 DEF SpanHoldsAYear, FilterUrlString
<1>2. QED BY <1>1, FilterInvariant, PTL

(* Saving writes what the user has changed and nothing else, for every     *)
(* list of genres and every sequence of taps (handleSave).                 *)
THEOREM SavingIsFaithful == EditorSpec => SavesWhatWasChanged
<1>1. ASSUME FilterInv, HandleSave, ~stale
      PROVE  /\ \A g \in Genres : g \in changed <=>
                  (g \in ToSet(filter'.genres)) # (g \in ToSet(filter.genres))
             /\ "popular" \notin changed => filter'.popular = filter.popular
             /\ changed \cap {"minYear", "maxYear"} = {} =>
                  filter'.minYear = filter.minYear /\ filter'.maxYear = filter.maxYear
  <2>1. edited \in Filters /\ filter \in Filters /\ open /\ filter' = SavedYears(edited)
    BY <1>1 DEF FilterInv, EditorTypeOK, HandleSave
  <2>2. /\ \A g \in Genres : g \in changed <=>
             (g \in ToSet(edited.genres)) # (g \in ToSet(filter.genres))
        /\ "popular" \notin changed => edited.popular = filter.popular
        /\ "minYear" \notin changed => edited.minYear = filter.minYear
        /\ "maxYear" \notin changed => edited.maxYear = filter.maxYear
    BY <1>1, <2>1 DEF FilterInv, ChangesTracked
  <2>3. filter'.genres = edited.genres /\ filter'.popular = edited.popular
    BY <2>1, SavedType
  <2>4. ASSUME changed \cap {"minYear", "maxYear"} = {}
        PROVE  filter'.minYear = filter.minYear /\ filter'.maxYear = filter.maxYear
    <3>1. edited.minYear = filter.minYear /\ edited.maxYear = filter.maxYear
      BY <2>2, <2>4
    <3>2. FarApart(edited)
      BY <3>1, <1>1 DEF FilterInv, YearsFarApart, FarApart
    <3>3. QED BY <2>1, <3>1, <3>2, SavedType
  <2>5. QED BY <2>2, <2>3, <2>4
<1>2. QED BY <1>1, FilterInvariant, PTL DEF EditorSpec, SavesWhatWasChanged
=============================================================================

---------------------------- MODULE FriendsProofs ----------------------------
(***************************************************************************)
(* The inductive invariant of Friends, and what it says of adding friends  *)
(* and of the rows of the combine screen.                                  *)
(***************************************************************************)
EXTENDS Friends, TLAPS

LEMMA NoFriendsIsBag == NoFriends \in Bags
  BY DEF NoFriends, Bags

(* What the helpers on bags return.                                        *)
LEMMA BagFacts ==
    ASSUME NEW list \in Bags, NEW u \in Users
    PROVE  /\ Plus(list, u) \in Bags /\ Plus(list, u) # NoFriends
           /\ Minus(list, u) \in Bags
           /\ allUsers \in SUBSET Users => Known(list) \in Bags
           /\ Members(list) \subseteq Users
  BY DEF Bags, Plus, Minus, Known, Members, NoFriends

(* Adding and removing someone known is the same before and after looking  *)
(* the friends up.                                                         *)
LEMMA KnownCommutes ==
    ASSUME NEW list \in Bags, NEW u \in Users, u \in allUsers
    PROVE  /\ Known(Plus(list, u)) = Plus(Known(list), u)
           /\ Known(Minus(list, u)) = Minus(Known(list), u)
           /\ Known(list)[u] = list[u]
  BY DEF Bags, Plus, Minus, Known

LEMMA AllKnown ==
    ASSUME NEW list \in Bags, Members(list) \subseteq allUsers
    PROVE  Known(list) = list
  BY DEF Bags, Members, Known

LEMMA FriendsInitInv == FriendsInit => FriendsInv
<1> SUFFICES ASSUME FriendsInit PROVE FriendsInv
  OBVIOUS
<1>1. /\ friendsShown = FALSE /\ crashed = FALSE /\ signIn = FALSE /\ inStep = FALSE
      /\ renamed = FALSE /\ name = Unnamed /\ fetchedAs = [u \in Users |-> Unnamed]
      /\ user = None /\ allUsers = None
      /\ userFriends = NoFriends /\ friendIds = NoFriends
      /\ rows = {} /\ marked = {} /\ selectedFriends = {}
  BY Zenon DEF FriendsInit
<1>2. /\ tab = "other" /\ screen \in {"home", "login"}
      /\ launch \in SUBSET {"users", "scene", "controller"}
  BY DEF FriendsInit
<1>3. FriendsTypeOK
  BY <1>1, <1>2, NoFriendsIsBag DEF FriendsTypeOK
<1>4. CacheInStep /\ ButtonsAgree /\ RowsAreOthers
  BY <1>1 DEF CacheInStep, ButtonsAgree, RowsAreOthers
<1>5. QED BY <1>3, <1>4 DEF FriendsInv

(* configureAndShowFriends, whoever calls it.                              *)
LEMMA ShowKeepsInv ==
    ASSUME FriendsInv, NEW cache \in Bags, NEW same \in BOOLEAN,
           ConfigureAndShowFriends(cache, same),
           user' \in Users \cup {None}, friendIds' \in Bags,
           allUsers' = allUsers, fetchedAs' = fetchedAs,
           allUsers = None => cache = NoFriends,
           allUsers # None => Members(cache) \subseteq allUsers,
           same => user' # None /\ allUsers # None /\ cache = Known(friendIds')
    PROVE  /\ userFriends' \in Bags /\ inStep' \in BOOLEAN
           /\ rows' \subseteq Users /\ marked' \subseteq rows'
           /\ CacheInStep'
           /\ allUsers = None => rows' = {} /\ userFriends' = NoFriends
           /\ allUsers # None => rows' \cup Members(userFriends') \subseteq allUsers
           /\ user' # None => rows' = Members(userFriends') /\ marked' = rows'
           /\ renamed' \in BOOLEAN
           /\ user' # None /\ ~renamed' => name' = fetchedAs'[user']
<1>1. Known(friendIds') = Known(friendIds)'
  BY DEF Known
<1>6. renamed \in BOOLEAN /\ NamedOtherwise \in BOOLEAN
  BY DEF FriendsInv, FriendsTypeOK, NamedOtherwise
<1>7. /\ renamed' \in BOOLEAN
      /\ user' # None /\ ~renamed' => name' = fetchedAs'[user']
  <2>1. renamed' \in {NamedOtherwise, renamed \/ NamedOtherwise}
    BY Zenon DEF ConfigureAndShowFriends, FillCache
  <2>2. renamed' \in BOOLEAN /\ (NamedOtherwise => renamed')
    BY <1>6, <2>1
  <2>3. QED BY <2>2 DEF NamedOtherwise
<1>2. CASE cache = NoFriends /\ allUsers # None /\ user' # None
  <2>1. /\ userFriends' = Known(friendIds') /\ inStep' = TRUE
        /\ rows' = Members(userFriends') /\ marked' = rows'
    BY <1>2, Zenon DEF ConfigureAndShowFriends, FillCache
  <2>2. userFriends' \in Bags /\ Members(userFriends') \subseteq allUsers
    BY <1>2, <2>1, BagFacts DEF FriendsInv, FriendsTypeOK, Known, Bags, Members
  <2>3. Members(userFriends') \subseteq Users
    BY DEF Members
  <2>4. CacheInStep'
    BY <1>1, <1>2, <2>1 DEF CacheInStep
  <2>5. QED BY <1>2, <1>7, <2>1, <2>2, <2>3, <2>4
<1>3. CASE cache = NoFriends /\ (allUsers = None \/ user' = None)
  <2>1. /\ userFriends' = cache /\ inStep' = same /\ UNCHANGED <<rows, marked>>
    BY <1>3, Zenon DEF ConfigureAndShowFriends, FillCache
  <2>2. ~same /\ Members(cache) = {}
    BY <1>3 DEF Members, NoFriends
  <2>3. QED
    BY <1>3, <1>7, <2>1, <2>2
       DEF CacheInStep, FriendsInv, FriendsTypeOK, RowsAreOthers, ButtonsAgree
<1>4. CASE cache # NoFriends
  <2>1. /\ userFriends' = cache /\ inStep' = same
        /\ rows' = Members(userFriends') /\ marked' = rows'
    BY <1>4, Zenon DEF ConfigureAndShowFriends, FillCache
  <2>2. Members(userFriends') \subseteq Users
    BY DEF Members
  <2>3. CacheInStep'
    BY <1>1, <2>1 DEF CacheInStep
  <2>4. QED BY <1>4, <1>7, <2>1, <2>2, <2>3
<1>5. QED BY <1>2, <1>3, <1>4, <1>7

(* UserView.configureUI for the account there is afterwards.               *)
LEMMA ConfigureKeepsInv ==
    ASSUME FriendsInv, NEW same \in BOOLEAN, ConfigureUI(same),
           user' \in Users \cup {None}, friendIds' \in Bags,
           name' \in Names \cup {Unnamed}, allUsers' = allUsers, fetchedAs' = fetchedAs,
           selectedFriends' \subseteq Users, tab' \in {"user", "other"},
           screen' \in {"home", "login", "combine", "invitation"},
           crashed' \in BOOLEAN, signIn' \in BOOLEAN, launch' \subseteq launch,
           same => inStep /\ SameAccount
    PROVE  FriendsInv'
<1>1. ConfigureAndShowFriends(userFriends, same) /\ friendsShown' = (user' # None)
  BY Zenon DEF ConfigureUI
<1>2. friendsShown' \in BOOLEAN /\ (friendsShown' => user' # None)
  BY <1>1, Zenon
<1>3. /\ userFriends \in Bags
      /\ allUsers = None => userFriends = NoFriends
      /\ allUsers # None => Members(userFriends) \subseteq allUsers
      /\ same => user' # None /\ allUsers # None /\ userFriends = Known(friendIds')
  BY DEF FriendsInv, FriendsTypeOK, RowsAreOthers, CacheInStep, SameAccount
<1>4. /\ userFriends' \in Bags /\ inStep' \in BOOLEAN
      /\ rows' \subseteq Users /\ marked' \subseteq rows'
      /\ CacheInStep'
      /\ allUsers = None => rows' = {} /\ userFriends' = NoFriends
      /\ allUsers # None => rows' \cup Members(userFriends') \subseteq allUsers
      /\ user' # None => rows' = Members(userFriends') /\ marked' = rows'
      /\ renamed' \in BOOLEAN
      /\ user' # None /\ ~renamed' => name' = fetchedAs'[user']
  BY <1>1, <1>3, ShowKeepsInv
<1>5. FriendsTypeOK'
  BY <1>2, <1>4 DEF FriendsInv, FriendsTypeOK
<1>6. ButtonsAgree' /\ RowsAreOthers'
  BY <1>2, <1>4 DEF FriendsInv, ButtonsAgree, RowsAreOthers, Members
<1>7. QED BY <1>4, <1>5, <1>6 DEF FriendsInv

(* Steps of the rows on the screen.                                        *)
LEMMA RowsKeepInv ==
    ASSUME FriendsInv,
           HandleSearchTextChanged \/ \E u \in Users : AddFriend(u) \/ RemoveFriend(u)
    PROVE  FriendsInv'
<1>1. /\ screen = "home" /\ friendsShown /\ user # None
      /\ UNCHANGED <<user, name, everybody, friendsShown, selectedFriends, tab, screen,
                     crashed, launch, signIn>>
      /\ allUsers' = allUsers /\ fetchedAs' = fetchedAs
      /\ userFriends \in Bags /\ friendIds \in Bags
  BY DEF FriendsInv, FriendsTypeOK, RowsAreOthers, FriendsOnScreen,
         HandleSearchTextChanged, AddFriend, RemoveFriend, OffersToAdd, OffersToRemove,
         account, everybody
<1>2. ASSUME NEW cache \in Bags, ConfigureAndShowFriends(cache, inStep),
             friendIds' \in Bags,
             allUsers = None => cache = NoFriends,
             allUsers # None => Members(cache) \subseteq allUsers,
             inStep => cache = Known(friendIds')
      PROVE  FriendsInv'
  <2>1. /\ userFriends' \in Bags /\ inStep' \in BOOLEAN
        /\ rows' \subseteq Users /\ marked' \subseteq rows'
        /\ CacheInStep'
        /\ allUsers = None => rows' = {} /\ userFriends' = NoFriends
        /\ allUsers # None => rows' \cup Members(userFriends') \subseteq allUsers
        /\ user' # None => rows' = Members(userFriends') /\ marked' = rows'
        /\ renamed' \in BOOLEAN
        /\ user' # None /\ ~renamed' => name' = fetchedAs'[user']
    <3>1. inStep \in BOOLEAN /\ user' \in Users \cup {None}
          /\ allUsers' = allUsers /\ fetchedAs' = fetchedAs
          /\ (inStep => user' # None /\ allUsers # None /\ cache = Known(friendIds'))
      BY <1>1, <1>2 DEF FriendsInv, FriendsTypeOK, CacheInStep
    <3>2. QED BY <1>2, <3>1, ShowKeepsInv
  <2>2. FriendsTypeOK'
    BY <1>1, <1>2, <2>1 DEF FriendsInv, FriendsTypeOK
  <2>3. ButtonsAgree' /\ RowsAreOthers'
    BY <1>1, <2>1 DEF FriendsInv, ButtonsAgree, RowsAreOthers, Members
  <2>4. QED BY <2>1, <2>2, <2>3 DEF FriendsInv
<1>3. CASE HandleSearchTextChanged
  <2>1. friendIds' = friendIds
    BY <1>3 DEF HandleSearchTextChanged, account
  <2>2. CASE ConfigureAndShowFriends(userFriends, inStep)
    <3>1. /\ allUsers = None => userFriends = NoFriends
          /\ allUsers # None => Members(userFriends) \subseteq allUsers
          /\ inStep => userFriends = Known(friendIds')
      BY <2>1 DEF FriendsInv, RowsAreOthers, CacheInStep
    <3>2. QED BY <1>1, <1>2, <2>1, <2>2, <3>1
  <2>3. CASE /\ rows' = {} /\ marked' = {} 
             /\ UNCHANGED <<userFriends, history>>
    BY <1>1, <2>1, <2>3
       DEF FriendsInv, FriendsTypeOK, CacheInStep, ButtonsAgree, RowsAreOthers, Members, Known,
           history
  <2>4. CASE /\ \E found \in Searches : SearchAndShowResults(found)
             /\ UNCHANGED <<userFriends, history>>
    <3>1. \/ UNCHANGED <<rows, marked>>
          \/ /\ allUsers # None
             /\ rows' \subseteq allUsers /\ marked' = rows' \cap Members(userFriends)
             /\ name = fetchedAs[user] => user \notin rows'
      BY <2>4 DEF SearchAndShowResults, Marks
    <3>2. Members(userFriends)' = Members(userFriends) /\ Known(friendIds)' = Known(friendIds)
      BY <1>1, <2>1, <2>4 DEF Members, Known
    <3>3. QED
      BY <1>1, <2>1, <2>4, <3>1, <3>2
         DEF FriendsInv, FriendsTypeOK, CacheInStep, ButtonsAgree, RowsAreOthers, history
  <2>5. QED BY <1>3, <2>2, <2>3, <2>4 DEF HandleSearchTextChanged
<1>4. ASSUME NEW u \in Users, AddFriend(u) \/ RemoveFriend(u)
      PROVE  FriendsInv'
  <2>1. u \in rows /\ allUsers # None /\ u \in allUsers
    BY <1>4 DEF AddFriend, RemoveFriend, OffersToAdd, OffersToRemove, FriendsInv,
                RowsAreOthers
  <2>2. PICK change \in {Plus(friendIds, u), Minus(friendIds, u)}, cache \in Bags :
          /\ friendIds' = change
          /\ ConfigureAndShowFriends(cache, inStep)
          /\ \/ change = Plus(friendIds, u) /\ cache = Plus(userFriends, u)
             \/ change = Minus(friendIds, u) /\ cache = Minus(userFriends, u)
    BY <1>1, <1>4, BagFacts DEF AddFriend, RemoveFriend, OffersToAdd, OffersToRemove
  <2>3. friendIds' \in Bags
    BY <1>1, <2>2, BagFacts
  <2>4. Members(cache) \subseteq allUsers
    <3>1. \A v \in Users \ {u} : cache[v] = userFriends[v]
      BY <1>1, <2>2 DEF Plus, Minus, Bags
    <3>2. Members(userFriends) \subseteq allUsers
      BY <2>1 DEF FriendsInv, RowsAreOthers
    <3>3. QED BY <2>1, <3>1, <3>2 DEF Members
  <2>5. inStep => cache = Known(friendIds')
    <3>1. inStep => userFriends = Known(friendIds)
      BY DEF FriendsInv, CacheInStep
    <3>2. /\ Known(Plus(friendIds, u)) = Plus(Known(friendIds), u)
          /\ Known(Minus(friendIds, u)) = Minus(Known(friendIds), u)
      BY <1>1, <2>1, KnownCommutes
    <3>3. QED BY <2>2, <3>1, <3>2
  <2>6. QED BY <1>2, <2>1, <2>2, <2>3, <2>4, <2>5
<1>5. QED BY <1>3, <1>4

(* Steps that leave list, cache and rows alone, or end the show of them.   *)
LEMMA OthersKeepInv ==
    ASSUME FriendsInv,
           \/ ShowOtherView \/ FetchAllUsers \/ SceneAnswer \/ SignInAnswer
           \/ UserPressedRegister \/ StartSignIn \/ SignInEnds \/ Logout
           \/ \E u \in Users : DidSelectRow(u)
    PROVE  FriendsInv'
<1>1. CASE Logout
  <2>1. /\ user' = None /\ name' = Unnamed
        /\ friendIds' = NoFriends /\ userFriends' = NoFriends
        /\ screen' = "login" /\ inStep' = FALSE
        /\ UNCHANGED <<allUsers, fetchedAs, rows, marked, friendsShown, selectedFriends, tab,
                       crashed, launch, signIn, renamed>>
    BY <1>1, Zenon DEF Logout, everybody
  <2>2. Members(NoFriends) = {}
    BY DEF Members, NoFriends
  <2>3. FriendsTypeOK'
    BY <2>1, NoFriendsIsBag DEF FriendsInv, FriendsTypeOK
  <2>4. CacheInStep' /\ ButtonsAgree'
    BY <2>1 DEF CacheInStep, ButtonsAgree
  <2>5. Members(userFriends)' = {}
    BY <2>1, <2>2 DEF Members
  <2>6. RowsAreOthers'
    BY <2>1, <2>5 DEF FriendsInv, RowsAreOthers
  <2>7. QED BY <2>3, <2>4, <2>6 DEF FriendsInv
<1>2. CASE SceneAnswer \/ SignInAnswer
  <2>1. inStep' \in BOOLEAN /\ (inStep' => inStep /\ SameAccount)
    BY <1>2, Zenon DEF SceneAnswer, SignInAnswer, Replaced
  <2>9. renamed' = (renamed \/ NamedOtherwise) /\ NamedOtherwise \in BOOLEAN
    BY <1>2, Zenon DEF SceneAnswer, SignInAnswer, Replaced, NamedOtherwise
  <2>10. renamed' \in BOOLEAN
         /\ (user' # None /\ ~renamed' => ~renamed /\ name' = fetchedAs[user'])
    BY <2>9 DEF NamedOtherwise, FriendsInv, FriendsTypeOK
  <2>2. /\ user' \in Users \cup {None} /\ friendIds' \in Bags
        /\ name' \in Names \cup {Unnamed}
        /\ user # None => user' # None
        /\ launch' \subseteq launch
        /\ UNCHANGED <<allUsers, fetchedAs, userFriends, rows, marked, friendsShown,
                       selectedFriends, tab, screen, crashed, signIn>>
    BY <1>2, FriendsAssumption
       DEF SceneAnswer, SignInAnswer, TakeUser, FriendsInv, FriendsTypeOK, account, everybody
  <2>3. Members(userFriends)' = Members(userFriends)
    BY <2>2 DEF Members
  <2>4. inStep' => Known(friendIds)' = Known(friendIds)
    BY <2>1, <2>2 DEF Known, SameAccount
  <2>5. FriendsTypeOK'
    BY <2>1, <2>2, <2>10 DEF FriendsInv, FriendsTypeOK
  <2>6. CacheInStep'
    BY <2>1, <2>2, <2>4 DEF FriendsInv, CacheInStep, SameAccount
  <2>7. ButtonsAgree' /\ RowsAreOthers'
    BY <2>1, <2>2, <2>3, <2>10 DEF FriendsInv, ButtonsAgree, RowsAreOthers, SameAccount
  <2>8. QED BY <2>5, <2>6, <2>7 DEF FriendsInv
<1>3. CASE FetchAllUsers
  <2>1. /\ allUsers = None /\ allUsers' \in (SUBSET Users) \cup {None}
        /\ fetchedAs' \in [Users -> Names \cup {Unnamed}]
        /\ "users" \notin launch' /\ launch' \subseteq launch
        /\ UNCHANGED <<user, name, friendIds, userFriends, rows, marked, friendsShown,
                       selectedFriends, tab, screen, crashed, signIn, inStep, renamed>>
    BY <1>3, FriendsAssumption
       DEF FetchAllUsers, FriendsInv, FriendsTypeOK, RowsAreOthers, account, everybody, history
  <2>2. rows = {} /\ userFriends = NoFriends /\ ~inStep
    BY <2>1 DEF FriendsInv, RowsAreOthers, CacheInStep
  <2>3. Members(userFriends)' = {} /\ Members(userFriends) = {}
    BY <2>1, <2>2 DEF Members, NoFriends
  <2>4. FriendsTypeOK'
    BY <2>1 DEF FriendsInv, FriendsTypeOK
  <2>5. CacheInStep' /\ ButtonsAgree' /\ RowsAreOthers'
    BY <2>1, <2>2, <2>3 DEF FriendsInv, CacheInStep, ButtonsAgree, RowsAreOthers
  <2>6. QED BY <2>4, <2>5 DEF FriendsInv
<1>4. CASE \/ ShowOtherView \/ UserPressedRegister \/ StartSignIn \/ SignInEnds
           \/ \E u \in Users : DidSelectRow(u)
  <2>1. /\ UNCHANGED <<user, name, friendIds, allUsers, fetchedAs, userFriends, rows, marked,
                       friendsShown, launch, inStep, renamed>>
        /\ screen' \in {screen, "login"}
        /\ selectedFriends' \subseteq Users /\ tab' \in {"user", "other"}
    BY <1>4
       DEF ShowOtherView, UserPressedRegister, StartSignIn, SignInEnds, DidSelectRow,
           FriendsInv, FriendsTypeOK, account, everybody, history
  <2>2. signIn' \in BOOLEAN /\ crashed' \in BOOLEAN
    BY <1>4, Zenon
       DEF ShowOtherView, UserPressedRegister, StartSignIn, SignInEnds, DidSelectRow,
           ReloadFriendsTable, FriendsInv, FriendsTypeOK
  <2>3. Members(userFriends)' = Members(userFriends) /\ Known(friendIds)' = Known(friendIds)
    BY <2>1 DEF Members, Known
  <2>4. FriendsTypeOK'
    BY <2>1, <2>2 DEF FriendsInv, FriendsTypeOK
  <2>5. CacheInStep' /\ ButtonsAgree' /\ RowsAreOthers'
    BY <2>1, <2>3 DEF FriendsInv, CacheInStep, ButtonsAgree, RowsAreOthers
  <2>6. QED BY <2>4, <2>5 DEF FriendsInv
<1>5. QED BY <1>1, <1>2, <1>3, <1>4

(* The combine screen fills the cache while FriendsView is covered.        *)
LEMMA CombineKeepsInv ==
    ASSUME FriendsInv, GoToCombineWatchlist
    PROVE  FriendsInv'
<1>1. /\ UNCHANGED <<user, name, friendIds, allUsers, fetchedAs, rows, marked, friendsShown,
                     selectedFriends, tab, launch, signIn>>
      /\ FillCache(userFriends, inStep) /\ screen' \in {"combine", "invitation"}
  BY DEF GoToCombineWatchlist, account, everybody
<1>7. renamed' \in BOOLEAN
  <2>1. renamed \in BOOLEAN /\ NamedOtherwise \in BOOLEAN
    BY DEF FriendsInv, FriendsTypeOK, NamedOtherwise
  <2>2. renamed' \in {NamedOtherwise, renamed \/ NamedOtherwise}
    BY <1>1, Zenon DEF FillCache
  <2>3. QED BY <2>1, <2>2
<1>2. crashed' \in BOOLEAN
  BY Zenon DEF GoToCombineWatchlist, ReloadFriendsTable, FriendsInv, FriendsTypeOK
<1>3. Known(friendIds)' = Known(friendIds)
  BY <1>1 DEF Known
<1>4. CASE userFriends = NoFriends /\ allUsers # None /\ user' # None
  <2>1. userFriends' = Known(friendIds') /\ inStep' = TRUE
    BY <1>1, <1>4, Zenon DEF FillCache
  <2>2. userFriends' \in Bags /\ Members(userFriends)' \subseteq allUsers
    BY <1>1, <2>1 DEF FriendsInv, FriendsTypeOK, Known, Bags, Members
  <2>3. FriendsTypeOK'
    BY <1>1, <1>2, <1>7, <2>1, <2>2 DEF FriendsInv, FriendsTypeOK
  <2>4. CacheInStep' /\ ButtonsAgree' /\ RowsAreOthers'
    BY <1>1, <1>3, <1>4, <2>1, <2>2
       DEF FriendsInv, CacheInStep, ButtonsAgree, RowsAreOthers
  <2>5. QED BY <2>3, <2>4 DEF FriendsInv
<1>5. CASE ~(userFriends = NoFriends /\ allUsers # None /\ user' # None)
  <2>1. userFriends' = userFriends /\ inStep' = inStep
    BY <1>1, <1>5, Zenon DEF FillCache
  <2>2. Members(userFriends)' = Members(userFriends)
    BY <2>1 DEF Members
  <2>3. FriendsTypeOK'
    BY <1>1, <1>2, <1>7, <2>1 DEF FriendsInv, FriendsTypeOK
  <2>4. CacheInStep' /\ ButtonsAgree' /\ RowsAreOthers'
    BY <1>1, <1>3, <2>1, <2>2
       DEF FriendsInv, CacheInStep, ButtonsAgree, RowsAreOthers
  <2>5. QED BY <2>3, <2>4 DEF FriendsInv
<1>6. QED BY <1>4, <1>5

(* Steps that configure the user's view.                                   *)
LEMMA ViewsKeepInv ==
    ASSUME FriendsInv,
           \/ ShowUserView \/ HandleDone \/ GoToRegister \/ AuthenticationComplete
           \/ UpdateUsername \/ ControllerAnswer
    PROVE  FriendsInv'
<1>1. CASE \/ ShowUserView \/ HandleDone \/ GoToRegister \/ AuthenticationComplete
           \/ UpdateUsername
  <2>1. /\ ConfigureUI(inStep)
        /\ UNCHANGED <<user, friendIds, allUsers, fetchedAs, crashed, launch, signIn>>
        /\ name' \in Names \cup {Unnamed}
        /\ selectedFriends' \subseteq Users /\ tab' \in {"user", "other"}
        /\ screen' \in {"home", "login", "combine", "invitation"}
    BY <1>1 DEF ShowUserView, HandleDone, GoToRegister, AuthenticationComplete,
                UpdateUsername, FriendsInv, FriendsTypeOK, account, everybody
  <2>2. /\ inStep \in BOOLEAN /\ user' \in Users \cup {None} /\ friendIds' \in Bags
        /\ crashed' \in BOOLEAN /\ signIn' \in BOOLEAN /\ launch' \subseteq launch
        /\ SameAccount /\ allUsers' = allUsers /\ fetchedAs' = fetchedAs
    BY <2>1 DEF FriendsInv, FriendsTypeOK, SameAccount
  <2>3. QED BY <2>1, <2>2, ConfigureKeepsInv
<1>2. CASE ControllerAnswer
  <2>1. /\ UNCHANGED <<allUsers, fetchedAs, selectedFriends, tab, screen, crashed, signIn>>
        /\ launch' \subseteq launch
        /\ user' \in Users \cup {None} /\ friendIds' \in Bags
        /\ name' \in Names \cup {Unnamed}
    BY <1>2, FriendsAssumption
       DEF ControllerAnswer, TakeUser, FriendsInv, FriendsTypeOK, account, everybody
  <2>2. /\ selectedFriends' \subseteq Users /\ tab' \in {"user", "other"}
        /\ screen' \in {"home", "login", "combine", "invitation"}
        /\ crashed' \in BOOLEAN /\ signIn' \in BOOLEAN
    BY <2>1 DEF FriendsInv, FriendsTypeOK
  <2>3. CASE ConfigureUI(inStep /\ SameAccount)
    <3>1. (inStep /\ SameAccount) \in BOOLEAN
      OBVIOUS
    <3>2. QED BY <2>1, <2>2, <2>3, <3>1, ConfigureKeepsInv
  <2>4. CASE UNCHANGED <<account, userFriends, rows, marked, friendsShown, history>>
    <3>4. UNCHANGED <<user, name, friendIds, userFriends, rows, marked, friendsShown, inStep,
                      renamed>>
      BY <2>4 DEF account, history
    <3>1. Members(userFriends)' = Members(userFriends) /\ Known(friendIds)' = Known(friendIds)
      BY <2>1, <3>4 DEF Members, Known
    <3>2. FriendsTypeOK'
      BY <2>1, <2>2, <3>4 DEF FriendsInv, FriendsTypeOK
    <3>3. CacheInStep' /\ ButtonsAgree' /\ RowsAreOthers'
      BY <2>1, <3>4, <3>1 DEF FriendsInv, CacheInStep, ButtonsAgree, RowsAreOthers
    <3>5. QED BY <3>2, <3>3 DEF FriendsInv
  <2>5. QED BY <1>2, <2>3, <2>4 DEF ControllerAnswer
<1>3. QED BY <1>1, <1>2

LEMMA FriendsNextInv ==
    ASSUME FriendsInv, [FriendsNext]_friendVars PROVE FriendsInv'
<1>1. CASE FriendsNext
  <2>1. CASE HandleSearchTextChanged \/ \E u \in Users : AddFriend(u) \/ RemoveFriend(u)
    BY <2>1, RowsKeepInv
  <2>2. CASE \/ ShowOtherView \/ FetchAllUsers \/ SceneAnswer \/ SignInAnswer
             \/ UserPressedRegister \/ StartSignIn \/ SignInEnds \/ Logout
             \/ \E u \in Users : DidSelectRow(u)
    BY <2>2, OthersKeepInv
  <2>3. CASE GoToCombineWatchlist
    BY <2>3, CombineKeepsInv
  <2>4. CASE \/ ShowUserView \/ HandleDone \/ GoToRegister \/ AuthenticationComplete
             \/ UpdateUsername \/ ControllerAnswer
    BY <2>4, ViewsKeepInv
  <2>5. QED BY <1>1, <2>1, <2>2, <2>3, <2>4 DEF FriendsNext
<1>2. CASE UNCHANGED friendVars
  <2>1. Members(userFriends)' = Members(userFriends) /\ Known(friendIds)' = Known(friendIds)
    BY <1>2 DEF Members, Known, friendVars, account, everybody
  <2>2. QED
    BY <1>2, <2>1
       DEF friendVars, account, everybody, history, FriendsInv, FriendsTypeOK, CacheInStep,
           ButtonsAgree, RowsAreOthers
<1>3. QED BY <1>1, <1>2

(* Cache, rows and buttons of the friends agree in every reachable state,  *)
(* for any users, lists and searches.                                      *)
THEOREM FriendsInvariant == FriendsSpec => []FriendsInv
<1>1. FriendsInv /\ [FriendsNext]_friendVars => FriendsInv'
  BY FriendsNextInv
<1>2. QED BY <1>1, FriendsInitInv, PTL DEF FriendsSpec

(* In step nobody is added twice, and users befriend themselves only if    *)
(* their name in memory was another than in the list of all users since    *)
(* the cache was filled (addFriendToUser, searchAndShowResults).           *)
THEOREM FriendsAddedOnce == FriendsSpec => AddsNewFriends
<1>1. ASSUME FriendsInv, NEW u \in Users, AddFriend(u), inStep
      PROVE  friendIds[u] = 0 /\ (u = user => renamed)
  <2>1. /\ screen = "home" /\ friendsShown /\ u \in rows \ marked
        /\ userFriends \in Bags /\ friendIds \in Bags
    BY <1>1 DEF AddFriend, OffersToAdd, FriendsOnScreen, FriendsInv, FriendsTypeOK
  <2>2. marked = rows \cap Members(userFriends) /\ (u = user => renamed) /\ u \in allUsers
    BY <1>1, <2>1 DEF FriendsInv, ButtonsAgree, RowsAreOthers, CacheInStep
  <2>3. userFriends[u] = 0
    BY <2>1, <2>2 DEF Members, Bags
  <2>4. userFriends[u] = friendIds[u]
    BY <1>1, <2>1, <2>2, KnownCommutes DEF FriendsInv, CacheInStep
  <2>5. QED BY <2>2, <2>3, <2>4
<1>2. FriendsInv => [ \A u \in Users : AddFriend(u) /\ inStep =>
                         friendIds[u] = 0 /\ (u = user => renamed) ]_friendVars
  BY <1>1
<1>3. QED BY <1>2, FriendsInvariant, PTL DEF AddsNewFriends

(* The combine screen only crashes with a cache out of step or a friend    *)
(* nobody knows (numberOfRowsInSection, cellForRowAt).                     *)
THEOREM CombineInRange == FriendsSpec => CombineStaysInRange
<1>1. ASSUME FriendsInv, FriendsInv', [FriendsNext]_friendVars, crashed', inStep',
             Members(friendIds') \subseteq allUsers', friendVars' # friendVars
      PROVE  FALSE
  <2>1. FriendsNext /\ ~crashed
    BY <1>1 DEF FriendsNext
  <2>2. ReloadFriendsTable /\ friendIds' = friendIds
    BY <1>1, <2>1
       DEF FriendsNext, HandleSearchTextChanged, AddFriend, RemoveFriend, DidSelectRow,
           ShowUserView, ShowOtherView, UpdateUsername, GoToCombineWatchlist, HandleDone,
           GoToRegister, FetchAllUsers, SceneAnswer, ControllerAnswer, Logout, UserPressedRegister,
           StartSignIn, SignInAnswer, SignInEnds, AuthenticationComplete, account
  <2>3. \E row \in 1..Count(friendIds) : row \notin 1..Count(userFriends')
    BY <1>1, <2>2, Zenon DEF ReloadFriendsTable
  <2>4. userFriends' = friendIds
    <3>1. friendIds' \in Bags /\ userFriends' = Known(friendIds)'
      BY <1>1 DEF FriendsInv, FriendsTypeOK, CacheInStep
    <3>2. Known(friendIds)' = friendIds'
      BY <1>1, <3>1 DEF Known, Bags, Members
    <3>3. QED BY <2>2, <3>1, <3>2
  <2>5. QED BY <2>3, <2>4
<1>2. FriendsInv /\ FriendsInv' /\ [FriendsNext]_friendVars =>
        [ crashed' /\ inStep' => ~(Members(friendIds') \subseteq allUsers') ]_friendVars
  BY <1>1
<1>3. QED BY <1>2, FriendsInvariant, PTL DEF CombineStaysInRange, FriendsSpec
=============================================================================

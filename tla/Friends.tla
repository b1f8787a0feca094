------------------------------ MODULE Friends ------------------------------
(***************************************************************************)
(* The friends of the user: FriendsView.swift, FriendCell.swift, the       *)
(* friends' table of CombineWatchlistController.swift, and                 *)
(* SceneDelegate.userFriends and allUsers.                                 *)
(*                                                                         *)
(* The document has the ids of the friends.  The screens show users, from  *)
(* the cache userFriends, which is looked up in the users fetched at       *)
(* launch whenever it is empty, and kept in step by hand otherwise.  The   *)
(* rows of one screen are counted from the ids and read from the cache.    *)
(*                                                                         *)
(* Lists are bags: how often each user is in them.  Names only matter for  *)
(* the search, which leaves out the user by name: in memory the user may   *)
(* have another name than among the users fetched at launch.               *)
(***************************************************************************)
EXTENDS Naturals, Functions

CONSTANTS
    Users,     \* ids of users
    None,      \* nil
    Names,     \* the valid usernames
    Unnamed,   \* the empty username of a new user
    NamesThen, \* the usernames all users may have when they are fetched
    Lists,     \* the friends that documents may have
    Searches   \* for each text of three letters or more the names it begins

Bags == [Users -> Nat]
NoFriends == [u \in Users |-> 0]

ASSUME FriendsAssumption ==
    /\ None \notin Users /\ \A known \in SUBSET Users : known # None
    /\ Lists \subseteq Bags
    /\ Searches \subseteq SUBSET Names
    /\ NamesThen \subseteq [Users -> Names \cup {Unnamed}]

VARIABLES
    user,            \* who SceneDelegate.user is
    name,            \* its username
    friendIds,       \* its friendIds
    allUsers,        \* the users fetched at launch, None before
    fetchedAs,       \* their usernames then
    userFriends,     \* SceneDelegate.userFriends, the cache
    rows,            \* usersToDisplay of FriendsView
    marked,          \* the rows whose button shows the image for removing
    friendsShown,    \* FriendsView shows friends, not the invitation
    selectedFriends, \* of the CombineWatchlistController
    tab,             \* the user's tab or another one
    screen,          \* what is presented over the tabs
    crashed,         \* an index was out of range
    launch,          \* fetches of the launch in flight
    signIn,          \* a sign-in is in flight
    inStep,          \* history: filled for this very account and list
    renamed          \* history: since then the user had in memory another name
                     \* than in allUsers

account == <<user, name, friendIds>>
everybody == <<allUsers, fetchedAs>>
history == <<inStep, renamed>>
friendVars == <<account, everybody, userFriends, rows, marked, friendsShown,
                selectedFriends, tab, screen, crashed, launch, signIn, history>>

Members(list) == {u \in Users : list[u] > 0}
Count(list) == SumFunction(list)
Plus(list, u) == [list EXCEPT ![u] = @ + 1]
Minus(list, u) == [list EXCEPT ![u] = IF @ > 0 THEN @ - 1 ELSE 0]
Known(list) == [u \in Users |-> IF u \in allUsers THEN list[u] ELSE 0]
SameAccount == user' = user /\ friendIds' = friendIds
NamedOtherwise == user' # None /\ name' # fetchedAs[user']

FriendsInit ==
    /\ user = None /\ name = Unnamed /\ friendIds = NoFriends
    /\ allUsers = None /\ fetchedAs = [u \in Users |-> Unnamed]
    /\ userFriends = NoFriends /\ rows = {} /\ marked = {} /\ friendsShown = FALSE
    /\ selectedFriends = {} /\ tab = "other" /\ crashed = FALSE
    /\ signIn = FALSE /\ inStep = FALSE /\ renamed = FALSE
    /\ \/ screen = "home" /\ launch = {"users", "scene", "controller"}
       \/ screen \in {"home", "login"} /\ launch = {"users"}

(* The beginning of configureAndShowFriends and configureAndDisplayFriends *)
(* for the account there is then.                                          *)
FillCache(cache, same) ==
    IF cache = NoFriends /\ allUsers # None /\ user' # None
      THEN userFriends' = Known(friendIds') /\ inStep' = TRUE /\ renamed' = NamedOtherwise
      ELSE userFriends' = cache /\ inStep' = same /\ renamed' = (renamed \/ NamedOtherwise)

ConfigureAndShowFriends(cache, same) ==
    /\ FillCache(cache, same)
    /\ IF cache = NoFriends /\ (allUsers = None \/ user' = None)
         THEN UNCHANGED <<rows, marked>>
         ELSE rows' = Members(userFriends') /\ marked' = rows'

(* UserView.configureUI, with a cache emptied by nobody.                   *)
ConfigureUI(same) ==
    /\ ConfigureAndShowFriends(userFriends, same)
    /\ friendsShown' = (user' # None)

(* cellForRowAt: the rows of found whose button shows the image for        *)
(* removing.                                                               *)
Marks(found) == found \cap Members(userFriends)

(* Mutant: the user is among the results.                                  *)
SearchAndShowMe(found) ==
    IF allUsers = None \/ user = None
      THEN UNCHANGED <<rows, marked>>
      ELSE /\ rows' = {u \in allUsers : fetchedAs[u] \in found}
           /\ marked' = Marks(rows')

(* searchAndShowResults: without whoever has the name of the user, who may *)
(* be listed under another one, or not the only one of that name.          *)
SearchAndShowResults(found) ==
    IF allUsers = None \/ user = None
      THEN UNCHANGED <<rows, marked>>
      ELSE /\ rows' = {u \in allUsers : fetchedAs[u] # name /\ fetchedAs[u] \in found}
           /\ marked' = Marks(rows')

FriendsOnScreen == screen = "home" /\ tab = "user" /\ friendsShown

(* handleSearchTextChanged: no text, a short one, or a search.             *)
HandleSearchTextChanged ==
    /\ FriendsOnScreen
    /\ UNCHANGED <<account, everybody, friendsShown, selectedFriends, tab, screen,
                   crashed, launch, signIn>>
    /\ \/ ConfigureAndShowFriends(userFriends, inStep)
       \/ /\ rows' = {} /\ marked' = {}
          /\ UNCHANGED <<userFriends, history>>
       \/ /\ \E found \in Searches : SearchAndShowResults(found)
          /\ UNCHANGED <<userFriends, history>>

(* toggleFriend: a button does what the image says that it shows.          *)
OffersToAdd(u) == FriendsOnScreen /\ u \in rows \ marked
OffersToRemove(u) == FriendsOnScreen /\ u \in rows \cap marked

(* addFriendToUser.  The image that is set afterwards is on a cell that is *)
(* loaded again anyway.                                                    *)
AddFriend(u) ==
    /\ OffersToAdd(u)
    /\ friendIds' = IF user = None THEN friendIds ELSE Plus(friendIds, u)
    /\ UNCHANGED <<user, name, everybody, friendsShown, selectedFriends, tab, screen,
                   crashed, launch, signIn>>
    /\ ConfigureAndShowFriends(Plus(userFriends, u), inStep)

(* Mutant: the document keeps the friend.                                  *)
RemoveFromCache(u) ==
    /\ OffersToRemove(u)
    /\ UNCHANGED <<account, everybody, friendsShown, selectedFriends, tab, screen,
                   crashed, launch, signIn>>
    /\ ConfigureAndShowFriends(Minus(userFriends, u), inStep)

(* removeFriendFromUser.                                                   *)
RemoveFriend(u) ==
    /\ OffersToRemove(u)
    /\ friendIds' = IF user = None THEN friendIds ELSE Minus(friendIds, u)
    /\ UNCHANGED <<user, name, everybody, friendsShown, selectedFriends, tab, screen,
                   crashed, launch, signIn>>
    /\ ConfigureAndShowFriends(Minus(userFriends, u), inStep)

(* showUserView; viewDidAppear when another full screen has been closed.   *)
ShowUserView ==
    /\ screen = "home"
    /\ tab' \in {tab, "user"}
    /\ UNCHANGED <<account, everybody, selectedFriends, screen, crashed, launch,
                   signIn>>
    /\ ConfigureUI(inStep)

ShowOtherView ==
    /\ screen = "home" /\ tab' = "other"
    /\ UNCHANGED <<account, everybody, userFriends, rows, marked, friendsShown,
                   selectedFriends, screen, crashed, launch, signIn, history>>

(* handleSelectUsername of the username screen, with a name that nobody    *)
(* has in the list, and viewDidAppear.                                     *)
UpdateUsername ==
    /\ screen = "home" /\ user # None
    /\ allUsers # None /\ name' \in Names \ {fetchedAs[u] : u \in allUsers}
    /\ UNCHANGED <<user, friendIds, everybody, selectedFriends, tab, screen, crashed,
                   launch, signIn>>
    /\ ConfigureUI(inStep)

-----------------------------------------------------------------------------
(* The table of CombineWatchlistController: rows for the ids, which are    *)
(* indices of the cache.                                                   *)
ReloadFriendsTable ==
    crashed' = \E row \in 1..Count(friendIds) : row \notin 1..Count(userFriends')

(* viewDidLoad.  Without a user there is only the invitation to register.  *)
GoToCombineWatchlist ==
    /\ screen = "home" /\ tab = "other"
    /\ UNCHANGED <<account, everybody, rows, marked, friendsShown, selectedFriends,
                   tab, launch, signIn>>
    /\ FillCache(userFriends, inStep)
    /\ IF user # None THEN screen' = "combine" /\ ReloadFriendsTable
                      ELSE screen' = "invitation" /\ UNCHANGED crashed

(* didSelectRowAt.  With fewer ids than friends the last ones have no row. *)
DidSelectRow(u) ==
    /\ screen = "combine" /\ u \in Members(userFriends)
    /\ selectedFriends' = IF u \in selectedFriends THEN selectedFriends \ {u}
                                                   ELSE selectedFriends \cup {u}
    /\ UNCHANGED <<account, everybody, userFriends, rows, marked, friendsShown, tab,
                   screen, launch, signIn, history>>
    /\ ReloadFriendsTable

(* Mutant: the friends are not shown anew.                                 *)
HandleDoneQuietly ==
    /\ screen \in {"combine", "invitation"} /\ screen' = "home"
    /\ selectedFriends' = {}
    /\ UNCHANGED <<account, everybody, userFriends, rows, marked, tab, crashed,
                   launch, signIn, history>>
    /\ friendsShown' = (user # None)

(* handleDone, and viewDidAppear of the controller below.                  *)
HandleDone ==
    /\ screen \in {"combine", "invitation"} /\ screen' = "home"
    /\ selectedFriends' = {}
    /\ UNCHANGED <<account, everybody, tab, crashed, launch, signIn>>
    /\ ConfigureUI(inStep)

(* goToRegister of the invitation.                                         *)
GoToRegister ==
    /\ screen = "invitation" /\ screen' = "login"
    /\ UNCHANGED <<account, everybody, selectedFriends, tab, crashed, launch, signIn>>
    /\ ConfigureUI(inStep)

-----------------------------------------------------------------------------
(* Answers and accounts, as far as friends go: UserSession says which.     *)

FetchAllUsers ==
    /\ "users" \in launch /\ launch' = launch \ {"users"}
    /\ \/ allUsers' \in SUBSET Users /\ fetchedAs' \in NamesThen
       \/ UNCHANGED everybody
    /\ UNCHANGED <<account, userFriends, rows, marked, friendsShown,
                   selectedFriends, tab, screen, crashed, signIn, history>>

(* A document: its name may be older or newer than the list of all users.  *)
TakeUser == user' \in Users /\ name' \in Names \cup {Unnamed} /\ friendIds' \in Lists
Replaced ==
    /\ inStep' = (inStep /\ SameAccount)
    /\ renamed' = (renamed \/ NamedOtherwise)

SceneAnswer ==
    /\ "scene" \in launch /\ launch' = launch \ {"scene"}
    /\ TakeUser \/ UNCHANGED account
    /\ Replaced
    /\ UNCHANGED <<everybody, userFriends, rows, marked, friendsShown, selectedFriends,
                   tab, screen, crashed, signIn>>

(* configureUser: a document, none, or an error.                           *)
ControllerAnswer ==
    /\ "controller" \in launch /\ launch' = launch \ {"controller"}
    /\ UNCHANGED <<everybody, selectedFriends, tab, screen, crashed, signIn>>
    /\ \/ /\ TakeUser \/ UNCHANGED account
          /\ ConfigureUI(inStep /\ SameAccount)
       \/ UNCHANGED <<account, userFriends, rows, marked, friendsShown, history>>

Logout ==
    /\ screen = "home" /\ tab = "user" /\ user # None
    /\ user' = None /\ name' = Unnamed /\ friendIds' = NoFriends
    /\ userFriends' = NoFriends
    /\ screen' = "login"
    /\ inStep' = FALSE /\ UNCHANGED renamed
    /\ UNCHANGED <<everybody, rows, marked, friendsShown, selectedFriends, tab, crashed,
                   launch, signIn>>

UserPressedRegister ==
    /\ screen = "home" /\ user = None
    /\ screen' = "login"
    /\ UNCHANGED <<account, everybody, userFriends, rows, marked, friendsShown,
                   selectedFriends, tab, crashed, launch, signIn, history>>

StartSignIn ==
    /\ screen = "login" /\ ~signIn /\ signIn' = TRUE
    /\ UNCHANGED <<account, everybody, userFriends, rows, marked, friendsShown,
                   selectedFriends, tab, screen, crashed, launch, history>>

(* setUser of any of the sign-ins, as soon as its answer comes.            *)
SignInAnswer ==
    /\ signIn /\ TakeUser
    /\ Replaced
    /\ UNCHANGED <<everybody, userFriends, rows, marked, friendsShown, selectedFriends,
                   tab, screen, crashed, launch, signIn>>

SignInEnds ==
    /\ signIn /\ signIn' = FALSE
    /\ UNCHANGED <<account, everybody, userFriends, rows, marked, friendsShown,
                   selectedFriends, tab, screen, crashed, launch, history>>

(* The login screen is gone, and viewDidAppear.  A sign-in that completes  *)
(* late over the combine screen does to it what HandleDone does.           *)
AuthenticationComplete ==
    /\ screen = "login" /\ screen' = "home"
    /\ UNCHANGED <<account, everybody, selectedFriends, tab, crashed, launch, signIn>>
    /\ ConfigureUI(inStep)

FriendsNext ==
    /\ ~crashed
    /\ \/ HandleSearchTextChanged
       \/ \E u \in Users : AddFriend(u) \/ RemoveFriend(u) \/ DidSelectRow(u)
       \/ ShowUserView \/ ShowOtherView \/ UpdateUsername
       \/ GoToCombineWatchlist \/ HandleDone \/ GoToRegister
       \/ FetchAllUsers \/ SceneAnswer \/ ControllerAnswer
       \/ Logout \/ UserPressedRegister
       \/ StartSignIn \/ SignInAnswer \/ SignInEnds \/ AuthenticationComplete

FriendsSpec == FriendsInit /\ [][FriendsNext]_friendVars

-----------------------------------------------------------------------------

FriendsTypeOK ==
    /\ user \in Users \cup {None} /\ name \in Names \cup {Unnamed} /\ friendIds \in Bags
    /\ allUsers \in (SUBSET Users) \cup {None}
    /\ fetchedAs \in [Users -> Names \cup {Unnamed}]
    /\ userFriends \in Bags
    /\ rows \subseteq Users /\ marked \subseteq rows
    /\ friendsShown \in BOOLEAN /\ selectedFriends \subseteq Users
    /\ tab \in {"user", "other"}
    /\ screen \in {"home", "login", "combine", "invitation"}
    /\ crashed \in BOOLEAN /\ signIn \in BOOLEAN /\ inStep \in BOOLEAN
    /\ renamed \in BOOLEAN
    /\ launch \in SUBSET {"users", "scene", "controller"}

(* Once filled for an account and its list, the cache stays the friends of *)
(* the list who are known, whatever is added, removed or shown on either   *)
(* screen, in any order (addFriendToUser, removeFriendFromUser).           *)
CacheInStep ==
    inStep => /\ user # None /\ allUsers # None
              /\ userFriends = Known(friendIds)

(* A row on the screen offers to remove whom the cache has and to add whom *)
(* it has not, after every change of the cache and of the account: rows    *)
(* are loaded whenever the screen may show them again (cellForRowAt,       *)
(* viewDidAppear).                                                         *)
ButtonsAgree ==
    screen = "home" /\ friendsShown => marked = rows \cap Members(userFriends)

(* Rows and cache are of known users, and shown only to a user, to whom    *)
(* they offer somebody else as a friend: unless, since the cache was       *)
(* filled, the user had in memory another name than in the list of all     *)
(* users, which is fetched once per launch (searchAndShowResults).         *)
RowsAreOthers ==
    /\ "users" \in launch => allUsers = None
    /\ allUsers = None => rows = {} /\ userFriends = NoFriends
    /\ allUsers # None => rows \cup Members(userFriends) \subseteq allUsers
    /\ screen = "home" /\ friendsShown =>
          /\ user # None
          /\ inStep /\ ~renamed => name = fetchedAs[user] /\ user \notin rows \ marked

(* The inductive invariant of the friends.                                 *)
FriendsInv == FriendsTypeOK /\ CacheInStep /\ ButtonsAgree /\ RowsAreOthers

(* In step, whoever is added was no friend yet, and only users who had     *)
(* another name in memory than in the list of all users befriend           *)
(* themselves.  Out of step a friend can be added a second time: with a    *)
(* search made when the cache was not filled yet, or after a late answer.  *)
AddsNewFriends ==
    [][ \A u \in Users : AddFriend(u) /\ inStep =>
            friendIds[u] = 0 /\ (u = user => renamed) ]_friendVars

(* The rows counted from the ids and read from the cache stay in range as  *)
(* long as the cache is in step and every friend is known                  *)
(* (CombineWatchlistController's numberOfRowsInSection and cellForRowAt).  *)
CombineStaysInRange ==
    [][ crashed' /\ inStep' => ~(Members(friendIds') \subseteq allUsers') ]_friendVars
=============================================================================

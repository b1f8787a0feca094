------------------------------ MODULE Navigation ------------------------------
(***************************************************************************)
(* What MovieskipController presents, and the username that some of those  *)
(* screens ask for: MovieskipController.swift with its delegates,          *)
(* UsernameController.swift, the sign-in callbacks as far as they close or *)
(* open screens, and the username in memory and in the users' documents.   *)
(*                                                                         *)
(* UIKit presents one screen at a time over MovieskipController, refuses   *)
(* the others without a word, and counts a screen until its dismissal has  *)
(* been animated.  Nobody presents again what was refused.  What a screen  *)
(* presents over itself (details over the combine screen, alerts over the  *)
(* login) only keeps the user there, and is left out.                      *)
(***************************************************************************)
EXTENDS FiniteSets, Naturals

CONSTANTS
    Accounts,       \* the uids of Firebase Auth
    Names,          \* the valid usernames
    Unnamed,        \* the empty username of a new user
    None,           \* Swift's nil
    MaxSignIns      \* bound: sign-ins in flight at once

Users == [uid : Accounts, name : Names \cup {Unnamed}]
Screens == {"screen", "combine"}   \* "screen": the filter or a movie's details
SignIns == [uid : Accounts, kind : {"email", "register", "social"},
            step : {"auth", "created", "read", "written", "refused", "reread"},
            shown : BOOLEAN]

ASSUME UnnamedAssumption == Unnamed \notin Names /\ None \notin Names \cup {Unnamed}
ASSUME AccountsAssumption == None \notin Accounts \cup Users

VARIABLES
    auth,           \* Auth.auth().currentUser
    registered,     \* the accounts Firebase Auth has
    names,          \* the username in each document; None: no document
    skippedLogin,   \* the flag of this name in UserDefaults
    user,           \* SceneDelegate.user: its account and its username
    allUsers,       \* SceneDelegate.allUsers: the names in use, or nil
    requests,       \* what the launch still waits for
    signIns,        \* the sign-ins in flight
    presented,      \* what MovieskipController presents
    form,           \* EmailAuthController is pushed on the login
    after,          \* what the completion of the dismissal will do
    loginDue,       \* presentLoginController has queued its block
    asked,          \* history: the account the username screen was opened for,
                    \* unless it was named elsewhere, before or since
    unasked,        \* history: a user without a name slipped through
    late,           \* history: who chose a name since allUsers was fetched
    overlap,        \* history: the login was left with a sign-in in flight
    stale           \* history: the account in use was named elsewhere, and is not
                    \* called so here

accountVars == <<auth, registered, names, skippedLogin>>
screenVars == <<presented, form, after>>
history == <<asked, unasked, late, overlap>>
navVars == <<accountVars, user, allUsers, requests, signIns, screenVars, loginDue,
             history, stale>>

Configure == <<"configure", None>>
FetchAllUsers == <<"allUsers", None>>
LaunchRequests == {Configure, FetchAllUsers}
                  \cup IF auth = None THEN {} ELSE {<<"scene", auth>>}

NavInit ==
    /\ auth = None
    /\ names \in {n \in [Accounts -> Names \cup {Unnamed, None}] :
                    \A p, q \in Accounts : n[p] = n[q] /\ n[p] \in Names => p = q}
    /\ registered = {a \in Accounts : names[a] # None}
    /\ skippedLogin = FALSE
    /\ user = None /\ allUsers = None
    /\ requests = LaunchRequests
    /\ signIns = {}
    /\ presented = "nothing" /\ form = FALSE /\ after = "none"
    /\ loginDue = FALSE
    /\ asked = None /\ unasked = FALSE /\ late = {} /\ overlap = FALSE
    /\ stale = FALSE

(* The process is killed and started again.                                *)
Relaunch ==
    /\ user' = None /\ allUsers' = None
    /\ requests' = LaunchRequests
    /\ signIns' = {}
    /\ presented' = "nothing" /\ form' = FALSE /\ after' = "none"
    /\ loginDue' = FALSE
    /\ asked' = None /\ unasked' = FALSE /\ late' = {} /\ overlap' = FALSE
    /\ UNCHANGED accountVars

-----------------------------------------------------------------------------
(* UIKit: present and dismiss.                                             *)

Present(s) == presented' = IF presented = "nothing" THEN s ELSE presented

(* dismiss of MovieskipController; its completion waits for the animation. *)
Close(then) ==
    /\ presented' = "closing" /\ after' = then
    /\ form' = FALSE

Nameless(u) == u # None /\ u.name = Unnamed
AskedFor(u) == IF names[u.uid] \in Names THEN None ELSE u.uid

(* presentUsernameSelectionView, if u has no name.                         *)
AskUsername(u) ==
    /\ IF Nameless(u) THEN Present("username") ELSE UNCHANGED presented
    /\ asked' = IF Nameless(u) /\ presented = "nothing" THEN AskedFor(u) ELSE asked
    /\ unasked' = (Nameless(u) /\ presented # "nothing")

AtHome == Configure \notin requests /\ presented = "nothing"

-----------------------------------------------------------------------------
(* The launch.                                                             *)

(* configureUser, called by viewDidLoad: the user may be there already, but*)
(* the view is in no window yet, and UIKit may refuse to present from it.  *)
ConfigureUser ==
    /\ Configure \in requests
    /\ \/ /\ user # None
          /\ requests' = requests \ {Configure}
          /\ \/ AskUsername(user)
             \/ /\ unasked' = Nameless(user)
                /\ UNCHANGED <<presented, asked>>
          /\ UNCHANGED loginDue
       \/ /\ user = None /\ auth # None
          /\ requests' = (requests \ {Configure}) \cup {<<"controller", auth>>}
          /\ UNCHANGED <<presented, asked, unasked, loginDue>>
       \/ /\ user = None /\ auth = None
          /\ requests' = requests \ {Configure}
          /\ loginDue' = ~skippedLogin
          /\ UNCHANGED <<presented, asked, unasked>>
    /\ UNCHANGED <<accountVars, user, allUsers, signIns, form, after, late,
                   overlap>>

Document(uid) == [uid |-> uid, name |-> names[uid]]

(* fetchAndSetUser: the document, or nothing of it.  It asks for no name.  *)
SceneAnswer(uid) ==
    /\ <<"scene", uid>> \in requests
    /\ requests' = requests \ {<<"scene", uid>>}
    /\ \/ /\ names[uid] # None
          /\ user' = Document(uid)
          /\ unasked' = Nameless(user')
       \/ UNCHANGED <<user, unasked>>
    /\ UNCHANGED <<accountVars, allUsers, signIns, screenVars, loginDue, asked, late,
                   overlap>>

(* The answer in configureUser: after an error there is an alert, and the  *)
(* user the other answer has set is not asked for a name.                  *)
ControllerAnswer(uid) ==
    /\ <<"controller", uid>> \in requests
    /\ requests' = requests \ {<<"controller", uid>>}
    /\ \/ /\ names[uid] # None
          /\ user' = Document(uid)
          /\ AskUsername(Document(uid))
       \/ /\ names[uid] = None
          /\ UNCHANGED <<user, presented, asked, unasked>>
       \/ /\ Present("alert")
          /\ unasked' = TRUE
          /\ UNCHANGED <<user, asked>>
    /\ UNCHANGED <<accountVars, allUsers, signIns, form, after, loginDue,
                   late, overlap>>

(* fetchAllUsers, once per launch; after an error the list stays nil.      *)
AllUsersAnswer ==
    /\ FetchAllUsers \in requests
    /\ requests' = requests \ {FetchAllUsers}
    /\ \/ allUsers' = {names[p] : p \in Accounts} \cap Names
       \/ UNCHANGED allUsers
    /\ UNCHANGED <<accountVars, user, signIns, screenVars, loginDue, history>>

-----------------------------------------------------------------------------
(* Presenting and closing at home.                                         *)

Show(s) ==
    /\ Present(s)
    /\ UNCHANGED <<accountVars, user, allUsers, requests, signIns, form,
                   after, loginDue, history>>

(* showMovieDetails, showFilter, goToCombineWatchlist, presentMovieDetails.*)
OpenScreen == AtHome /\ \E s \in Screens : Show(s)

(* swipeViewAlert, whenever a load fails.                                  *)
ShowAlert == Configure \notin requests /\ Show("alert")

(* The block of presentLoginController.                                    *)
LoginBlock ==
    /\ loginDue
    /\ Present("login")
    /\ loginDue' = FALSE
    /\ UNCHANGED <<accountVars, user, allUsers, requests, signIns, form,
                   after, history>>

(* handleDone, handleCancel, the dismissal by filterController, an alert's *)
(* OK; goToRegister of the combine screen.                                 *)
CloseScreen ==
    /\ \/ presented \in Screens \cup {"alert"} /\ Close("none")
       \/ presented = "combine" /\ user = None /\ Close("login")
    /\ UNCHANGED <<accountVars, user, allUsers, requests, signIns, loginDue, history>>

(* The dismissal has been animated, and its completion runs:               *)
(* authenticationComplete asks for a name, goToRegister queues the login.  *)
Dismissed ==
    /\ presented = "closing"
    /\ after' = "none"
    /\ IF after = "asks" /\ Nameless(user)
       THEN presented' = "username" /\ asked' = AskedFor(user) /\ unasked' = FALSE
       ELSE presented' = "nothing" /\ UNCHANGED <<asked, unasked>>
    /\ loginDue' = (loginDue \/ after = "login")
    /\ UNCHANGED <<accountVars, user, allUsers, requests, signIns, form,
                   late, overlap>>

(* userPressedRegister.                                                    *)
UserPressedRegister ==
    /\ AtHome /\ user = None
    /\ loginDue' = TRUE
    /\ UNCHANGED <<accountVars, user, allUsers, requests, signIns, screenVars, history>>

Logout ==
    /\ AtHome /\ user # None
    /\ auth' = None /\ user' = None
    /\ loginDue' = TRUE
    /\ UNCHANGED <<registered, names, skippedLogin, allUsers, requests, signIns,
                   screenVars, history>>

-----------------------------------------------------------------------------
(* Signing in.                                                             *)

AtLogin == presented = "login"

(* Mutant: a user without a name is not asked for one.                     *)
AuthenticationCompleteSilently(sis) ==
    /\ Close("none")
    /\ signIns' = {[s EXCEPT !.shown = FALSE] : s \in sis}
    /\ overlap' = (overlap \/ sis # {})
    /\ UNCHANGED unasked

(* authenticationComplete, the sign-ins sis going on: it dismisses whatever*)
(* is presented, the forms of the login with it.  UIKit does not say what  *)
(* becomes of the completion if nothing is presented, or is being dismissed*)
(* already; only the completion asks for a name.                           *)
AuthenticationComplete(sis) ==
    /\ \/ presented # "closing" /\ Close("asks") /\ UNCHANGED unasked
       \/ /\ presented \in {"nothing", "closing"}
          /\ unasked' = TRUE
          /\ UNCHANGED screenVars
    /\ signIns' = {[s EXCEPT !.shown = FALSE] : s \in sis}
    /\ overlap' = (overlap \/ sis # {})

(* handleSkipLogin.                                                        *)
HandleSkipLogin ==
    /\ AtLogin /\ ~form
    /\ skippedLogin' = TRUE
    /\ AuthenticationComplete(signIns)
    /\ UNCHANGED <<auth, registered, names, user, allUsers, requests, loginDue, asked,
                   late>>

(* showEmailAuth, and goToLoginController: the form goes, and its requests *)
(* will find nobody.                                                       *)
ToggleForm ==
    /\ AtLogin
    /\ form' = ~form
    /\ signIns' = {[s EXCEPT !.shown = FALSE] : s \in signIns}
    /\ UNCHANGED <<accountVars, user, allUsers, requests, presented, after,
                   loginDue, history>>

(* Mutant: Google restores its sign-in whatever screen is there.           *)
StartSignInAnywhere(a, k) ==
    /\ Cardinality(signIns) < MaxSignIns
    /\ LET new == [uid |-> a, kind |-> k, step |-> "auth", shown |-> form]
       IN  new \notin signIns /\ signIns' = signIns \cup {new}
    /\ UNCHANGED <<accountVars, user, allUsers, requests, screenVars, loginDue, history>>

(* The buttons of Google and Facebook, and the two forms.  While an account*)
(* is being created, nobody else signs in to it.                           *)
StartSignIn(a, k) ==
    /\ AtLogin /\ form = (k # "social")
    /\ Cardinality(signIns) < MaxSignIns
    /\ \A s \in signIns : s.uid = a => s.kind = "social" /\ k = "social"
    /\ LET new == [uid |-> a, kind |-> k, step |-> "auth", shown |-> form]
       IN  new \notin signIns /\ signIns' = signIns \cup {new}
    /\ UNCHANGED <<accountVars, user, allUsers, requests, screenVars, loginDue, history>>

Rest(s) == signIns \ {s}
GoOn(s, step) == signIns' = Rest(s) \cup {[s EXCEPT !.step = step]}

(* A request failed.  The user who was set before stays, and is not asked. *)
SignInFails(s) ==
    /\ s.step \in {"auth", "created", "read", "refused"}
    /\ signIns' = Rest(s)
    /\ unasked' = (unasked \/ s.step = "refused")
    /\ UNCHANGED <<accountVars, user, allUsers, requests, presented, form, after,
                   loginDue, asked, late, overlap>>

SignedIn(s) ==
    /\ s.step = "auth"
    /\ \/ s.kind = "email" /\ s.uid \in registered /\ UNCHANGED registered
       \/ s.kind = "social" /\ registered' = registered \cup {s.uid}
    /\ auth' = s.uid
    /\ GoOn(s, "read")
    /\ UNCHANGED <<names, skippedLogin, user, allUsers, requests, screenVars, loginDue,
                   history>>

(* createUser on the server, before its answer.                            *)
AccountCreated(s) ==
    /\ s.step = "auth" /\ s.kind = "register" /\ s.uid \notin registered
    /\ registered' = registered \cup {s.uid}
    /\ GoOn(s, "created")
    /\ UNCHANGED <<auth, names, skippedLogin, user, allUsers, requests, screenVars,
                   loginDue, history>>

(* handleUserLoggedIn of the form, as long as the form is there.           *)
EmailRead(s) ==
    /\ s.step = "read" /\ s.kind = "email"
    /\ \/ /\ names[s.uid] # None /\ s.shown
          /\ user' = Document(s.uid)
          /\ AuthenticationComplete(Rest(s))
       \/ /\ names[s.uid] = None \/ ~s.shown
          /\ signIns' = Rest(s)
          /\ UNCHANGED <<user, screenVars, unasked, overlap>>
    /\ UNCHANGED <<accountVars, allUsers, requests, loginDue, asked, late>>

(* A new user has no name, in memory and in the new document.              *)
NewUser(s) ==
    /\ user' = [uid |-> s.uid, name |-> Unnamed]
    /\ \/ names' = [names EXCEPT ![s.uid] = Unnamed] /\ GoOn(s, "written")
       \/ UNCHANGED names /\ GoOn(s, "refused")

(* registerUser, when createUser has answered.                             *)
Registered(s) ==
    /\ s.step = "created"
    /\ auth' = s.uid
    /\ NewUser(s)
    /\ UNCHANGED <<registered, skippedLogin, allUsers, requests, screenVars, loginDue,
                   history>>

(* handleRegister of the form: without the form nobody goes on.            *)
RegisterDone(s) ==
    /\ s.step = "written" /\ s.kind = "register"
    /\ \/ s.shown /\ AuthenticationComplete(Rest(s))
       \/ /\ ~s.shown
          /\ signIns' = Rest(s) /\ unasked' = TRUE
          /\ UNCHANGED <<screenVars, overlap>>
    /\ UNCHANGED <<accountVars, user, allUsers, requests, loginDue, asked, late>>

(* socialSignIn of LoginController reads the document of whoever is signed *)
(* in by now.                                                              *)
ReadAgain(s) ==
    \/ /\ auth # None
       /\ signIns' = Rest(s) \cup {[s EXCEPT !.uid = auth, !.step = "reread"]}
       /\ UNCHANGED unasked
    \/ auth = None /\ signIns' = Rest(s) /\ unasked' = TRUE

(* socialSignIn of AuthService: the document, or a new user.               *)
SocialRead(s) ==
    /\ s.step = "read" /\ s.kind = "social"
    /\ \/ /\ names[s.uid] # None
          /\ user' = Document(s.uid)
          /\ ReadAgain(s)
          /\ UNCHANGED names
       \/ names[s.uid] = None /\ NewUser(s) /\ UNCHANGED unasked
    /\ UNCHANGED <<auth, registered, skippedLogin, allUsers, requests, screenVars,
                   loginDue, asked, late, overlap>>

SocialWritten(s) ==
    /\ s.step = "written" /\ s.kind = "social"
    /\ ReadAgain(s)
    /\ UNCHANGED <<accountVars, user, allUsers, requests, screenVars, loginDue, asked,
                   late, overlap>>

(* handleUserLoggedIn of LoginController, which goes on after an error.    *)
SocialReread(s) ==
    /\ s.step = "reread"
    /\ \/ names[s.uid] # None /\ user' = Document(s.uid)
       \/ UNCHANGED user
    /\ AuthenticationComplete(Rest(s))
    /\ UNCHANGED <<accountVars, allUsers, requests, loginDue, asked, late>>

SignInAnswers ==
    \E s \in signIns :
       \/ SignInFails(s) \/ SignedIn(s) \/ EmailRead(s)
       \/ AccountCreated(s) \/ Registered(s) \/ RegisterDone(s)
       \/ SocialRead(s) \/ SocialWritten(s) \/ SocialReread(s)

-----------------------------------------------------------------------------
(* Usernames.                                                              *)

(* Mutant: without the list every name is free.                            *)
TakenIfListed(n) == allUsers # None /\ n \in allUsers

UsernameIsTaken(n) == allUsers = None \/ n \in allUsers

(* Mutant: the name is only written to the document.                       *)
UpdateUsernameInDocument(n) ==
    /\ IF user # None /\ names[user.uid] # None
       THEN names' = [names EXCEPT ![user.uid] = n]
       ELSE UNCHANGED names
    /\ UNCHANGED user

(* updateUsername: in memory, and in the document if there is one and the  *)
(* update is not refused, which nobody learns.                             *)
UpdateUsername(n) ==
    /\ user' = IF user = None THEN None ELSE [user EXCEPT !.name = n]
    /\ \/ /\ user # None /\ names[user.uid] # None
          /\ names' = [names EXCEPT ![user.uid] = n]
       \/ UNCHANGED names

(* handleSelectUsername with a valid name; a taken one leaves the screen.  *)
HandleSelectUsername(n) ==
    /\ presented = "username"
    /\ ~UsernameIsTaken(n)
    /\ UpdateUsername(n)
    /\ Close("none")
    /\ late' = IF user = None THEN late ELSE late \cup {user.uid}
    /\ UNCHANGED <<auth, registered, skippedLogin, allUsers, requests, signIns,
                   loginDue, asked, unasked, overlap>>

(* saveUserDataOnExit, or its write is refused.                            *)
SaveUserDataOnExit ==
    /\ \/ user # None /\ names' = [names EXCEPT ![user.uid] = user.name]
       \/ UNCHANGED names
    /\ skippedLogin' = FALSE
    /\ UNCHANGED <<auth, registered, user, allUsers, requests, signIns, screenVars,
                   loginDue, history>>

(* Somebody is named on another phone, which does not ask whether this one *)
(* uses the account too.                                                   *)
OtherChooses(p, n) ==
    /\ names[p] = Unnamed
    /\ names' = [names EXCEPT ![p] = n]
    /\ late' = IF allUsers = None THEN late ELSE late \cup {p}
    /\ asked' = IF asked = p THEN None ELSE asked
    /\ UNCHANGED <<auth, registered, skippedLogin, user, allUsers, requests, signIns,
                   screenVars, loginDue, unasked, overlap>>

Outdated == user # None /\ names[user.uid] \in Names /\ user.name # names[user.uid]

Here ==
    \/ Relaunch
    \/ ConfigureUser
    \/ \E a \in Accounts : SceneAnswer(a) \/ ControllerAnswer(a)
    \/ AllUsersAnswer
    \/ OpenScreen \/ ShowAlert \/ LoginBlock \/ CloseScreen \/ Dismissed
    \/ UserPressedRegister \/ Logout \/ HandleSkipLogin \/ ToggleForm
    \/ \E a \in Accounts, k \in {"email", "register", "social"} : StartSignIn(a, k)
    \/ SignInAnswers
    \/ \E n \in Names : HandleSelectUsername(n)
    \/ SaveUserDataOnExit

NavNext ==
    \/ Here /\ stale' = (stale /\ Outdated')
    \/ \E p \in Accounts, n \in Names :
          /\ OtherChooses(p, n)
          /\ stale' = (Outdated' /\ (stale \/ p = user.uid))

NavSpec == NavInit /\ [][NavNext]_navVars

-----------------------------------------------------------------------------

NavTypeOK ==
    /\ auth \in Accounts \cup {None} /\ registered \subseteq Accounts
    /\ names \in [Accounts -> Names \cup {Unnamed, None}]
    /\ skippedLogin \in BOOLEAN
    /\ user \in Users \cup {None}
    /\ allUsers \in {None} \cup SUBSET Names
    /\ requests \subseteq {Configure, FetchAllUsers}
                         \cup ({"scene", "controller"} \X Accounts)
    /\ signIns \subseteq SignIns
    /\ presented \in {"nothing", "closing", "login", "username", "alert"} \cup Screens
    /\ form \in BOOLEAN /\ (form => presented = "login")
    /\ after \in {"none", "asks", "login"} /\ (after # "none" => presented = "closing")
    /\ loginDue \in BOOLEAN
    /\ asked \in Accounts \cup {None} /\ late \subseteq Accounts
    /\ unasked \in BOOLEAN /\ overlap \in BOOLEAN /\ stale \in BOOLEAN

(* A user without a name is being asked for one, or the answer or the      *)
(* dismissal that asks is still to come; the only ways out are those where *)
(* unasked is set: UIKit refused the screen, an answer failed or was for   *)
(* nobody, or fetchAndSetUser alone set the user.  (presented is checked by*)
(* no caller of presentUsernameSelectionView.)                             *)
NamelessIsAsked ==
    Nameless(user) /\ presented # "username" =>
        \/ unasked \/ after = "asks"
        \/ \E s \in signIns : s.step \in {"written", "refused", "reread"}

(* A username that a document has is not lost, whatever answers arrive and *)
(* wherever the whole user is saved, unless another phone has named the    *)
(* account while it was in use here: saveUserDataOnExit then writes the    *)
(* older name of the memory, or none.  Otherwise a name is only replaced by*)
(* another, and only when the username screen was opened for somebody else *)
(* (handleSelectUsername names whoever is the user by then) or the account *)
(* was named elsewhere before it was answered.                             *)
NamesStay ==
    [][ \A a \in Accounts : names[a] \in Names /\ names'[a] # names[a] =>
            \/ names'[a] \in Names /\ asked # a
            \/ stale /\ user.uid = a ]_navVars

(* This phone gives its user a name that somebody else has only if that    *)
(* other one chose it after this phone had fetched all users, which it does*)
(* once per launch: usernameIsTaken asks nobody but that list.             *)
ClashesAreLate ==
    [][ \A a, p \in Accounts :
            /\ user # None /\ user.uid = a /\ user' # None /\ names'[a] = user'.name
            /\ names[a] \notin Names /\ names'[a] \in Names
            /\ a # p /\ names[p] = names'[a]
            => p \in late ]_navVars

(* A sign-in's answer closes no screen but the login, except after the     *)
(* login was left while a sign-in was in flight (skipped, or completed by  *)
(* another sign-in): authenticationComplete dismisses whatever is there.   *)
AnswersCloseLogin ==
    [][ presented \notin {"login", "nothing"} /\ presented' = "closing"
        /\ presented # "closing" /\ signIns' # signIns => overlap ]_navVars
=============================================================================

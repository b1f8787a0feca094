----------------------------- MODULE UserSession -----------------------------
(***************************************************************************)
(* Who is signed in, and where verdicts are kept: SceneDelegate.swift with *)
(* its user and localUser, the sign-in flows of AuthService.swift and the  *)
(* login screens, configureUser and logout of MovieskipController.swift,   *)
(* the user's Firestore document and the lists in UserDefaults.            *)
(*                                                                         *)
(* A verdict goes into memory.  Memory is written out only by the scene    *)
(* callbacks, and is overwritten by whatever answer arrives: two fetches   *)
(* of the document at launch, and the chain of requests of a sign-in.  The *)
(* app can be killed between any two steps.                                *)
(*                                                                         *)
(* The three lists of an owner are one set here, as removeAlreadySwiped    *)
(* sees them.  Firestore shows a device its own writes at once and keeps   *)
(* them over a restart, so a read is of the document when the answer comes *)
(* and a write takes effect, or is refused, when it is made.               *)
(***************************************************************************)
EXTENDS Naturals, MovieIds

CONSTANTS
    Accounts,       \* the uids of Firebase Auth
    SecondPhone,    \* the accounts that are used on a second phone as well
    Local           \* the owner of the verdicts given without an account

Owners == Accounts \cup {Local}
Copies == {None} \cup SUBSET Movies
Users == [uid : Accounts, seen : SUBSET Movies]
Fetches == [by : {"scene", "controller"}, uid : Accounts]
NoFlow == [kind |-> "none", step |-> "none", uid |-> None, shown |-> FALSE]
Flows == [kind : {"email", "register", "social"},
          step : {"auth", "created", "read", "written", "refused", "reread"},
          uid : Accounts, shown : BOOLEAN]

ASSUME SecondPhoneAssumption == SecondPhone \subseteq Accounts
ASSUME LocalAssumption == Local \notin Accounts
ASSUME NilAssumption ==
    None \notin Accounts \cup Users /\ \A seen \in SUBSET Movies : seen # None

VARIABLES
    auth,           \* Auth.auth().currentUser, which Firebase keeps
    registered,     \* the accounts Firebase Auth has
    docs,           \* the lists in each user's document; None: no document
    prefs,          \* the lists in UserDefaults
    skippedLogin,   \* the flag of this name in UserDefaults
    user,           \* SceneDelegate.user
    localUser,      \* SceneDelegate.localUser
    fetches,        \* the fetches of the launch in flight
    flow,           \* the sign-in in flight
    screen,         \* "login" while LoginController is presented
    other,          \* user on the second phone
    given           \* history: the verdicts given to each owner

sessionVars == <<auth, registered, docs, prefs, skippedLogin, user, localUser,
                 fetches, flow, screen, other, given>>
authVars == <<auth, registered>>
savedVars == <<docs, prefs, skippedLogin>>
memoryVars == <<user, localUser>>

(* SceneDelegate.init and configureUser: the document of the signed-in     *)
(* user is fetched twice; without one the lists come from UserDefaults and *)
(* the login is presented unless it was skipped.                           *)
LaunchFetches(a) == {f \in Fetches : f.uid = a}
LaunchLocal(a, p) == IF a = None THEN p ELSE None
LaunchScreen(a, skipped) == IF a = None /\ ~skipped THEN "login" ELSE "home"

(* The first launch on a phone: accounts may exist from an earlier phone.  *)
SessionInit ==
    /\ auth = None
    /\ docs \in [Accounts -> Copies]
    /\ registered = {a \in Accounts : docs[a] # None}
    /\ prefs = {} /\ skippedLogin = FALSE
    /\ user = None /\ localUser = LaunchLocal(auth, prefs)
    /\ fetches = LaunchFetches(auth)
    /\ flow = NoFlow
    /\ screen = LaunchScreen(auth, skippedLogin)
    /\ other = None
    /\ given = [o \in Owners |->
                  IF o = Local \/ docs[o] = None THEN {} ELSE docs[o]]

(* The process is killed and started again.                                *)
Relaunch ==
    /\ user' = None /\ localUser' = LaunchLocal(auth, prefs)
    /\ fetches' = LaunchFetches(auth)
    /\ flow' = NoFlow
    /\ screen' = LaunchScreen(auth, skippedLogin)
    /\ UNCHANGED <<authVars, savedVars, other, given>>

Give(o, m) == given' = [given EXCEPT ![o] = @ \cup {m}]

(* addToWatchlist / addToExcluded / addToSkipped: the user's lists before  *)
(* the local user's, and nobody's while neither is loaded.                 *)
Judge(m) ==
    /\ screen = "home"
    /\ \/ /\ user # None
          /\ user' = [user EXCEPT !.seen = @ \cup {m}]
          /\ Give(user.uid, m)
          /\ UNCHANGED localUser
       \/ /\ user = None /\ localUser # None
          /\ localUser' = localUser \cup {m}
          /\ Give(Local, m)
          /\ UNCHANGED user
    /\ UNCHANGED <<authVars, savedVars, fetches, flow, screen, other>>

(* Mutant: nothing is loaded, and nothing is written for it.               *)
WriteLocalAlways == prefs' = IF localUser = None THEN {} ELSE localUser

(* updateLocalUserDefaults.                                                *)
WriteLocal == prefs' = IF localUser = None THEN prefs ELSE localUser

(* saveUserDataOnExit, from any of the three scene callbacks.  setData has *)
(* no completion here: nobody learns that a write was refused.             *)
SaveUserDataOnExit ==
    /\ \/ user # None /\ docs' = [docs EXCEPT ![user.uid] = user.seen]
       \/ UNCHANGED docs
    /\ WriteLocal
    /\ skippedLogin' = FALSE
    /\ UNCHANGED <<authVars, memoryVars, fetches, flow, screen, other, given>>

-----------------------------------------------------------------------------
(* The two fetches of the launch.                                          *)

TakeDocument(uid) == user' = [uid |-> uid, seen |-> docs[uid]]

(* fetchAndSetUser: the document, or after an error the local user.        *)
SceneAnswer ==
    \E f \in fetches :
       /\ f.by = "scene"
       /\ fetches' = fetches \ {f}
       /\ \/ docs[f.uid] # None /\ TakeDocument(f.uid) /\ UNCHANGED localUser
          \/ docs[f.uid] = None /\ UNCHANGED memoryVars
          \/ localUser' = prefs /\ UNCHANGED user
       /\ UNCHANGED <<authVars, savedVars, flow, screen, other, given>>

(* The answer in configureUser: the document, or nothing but an alert.     *)
ControllerAnswer ==
    \E f \in fetches :
       /\ f.by = "controller"
       /\ fetches' = fetches \ {f}
       /\ \/ docs[f.uid] # None /\ TakeDocument(f.uid)
          \/ UNCHANGED user
       /\ UNCHANGED <<authVars, savedVars, localUser, flow, screen, other, given>>

-----------------------------------------------------------------------------
(* Leaving and entering the login screen without a request.                *)

(* logout: the verdicts in memory are not written first.                   *)
Logout ==
    /\ screen = "home" /\ user # None
    /\ auth' = None
    /\ user' = None
    /\ screen' = "login"
    /\ UNCHANGED <<registered, savedVars, localUser, fetches, flow, other, given>>

(* userPressedRegister, offered while there is no user.                    *)
UserPressedRegister ==
    /\ screen = "home" /\ user = None
    /\ screen' = "login"
    /\ UNCHANGED <<authVars, savedVars, memoryVars, fetches, flow, other, given>>

(* handleSkipLogin.                                                        *)
HandleSkipLogin ==
    /\ screen = "login" /\ ~flow.shown
    /\ skippedLogin' = TRUE
    /\ localUser' = prefs
    /\ screen' = "home"
    /\ UNCHANGED <<authVars, docs, prefs, user, fetches, flow, other, given>>

(* goToLoginController: the form goes, its request stays in flight.        *)
GoBack ==
    /\ flow.shown
    /\ flow' = [flow EXCEPT !.shown = FALSE]
    /\ UNCHANGED <<authVars, savedVars, memoryVars, fetches, screen, other, given>>

-----------------------------------------------------------------------------
(* Sign-in, one at a time: each answer is one step.                        *)

Start(k) ==
    /\ screen = "login" /\ flow = NoFlow
    /\ \E a \in Accounts :
          flow' = [kind |-> k, step |-> "auth", uid |-> a, shown |-> k # "social"]
    /\ UNCHANGED <<authVars, savedVars, memoryVars, fetches, screen, other, given>>

(* Mutant: the user is set before createUser has answered.                 *)
HandleRegisterEarly ==
    /\ screen = "login" /\ flow = NoFlow
    /\ \E a \in Accounts :
          /\ flow' = [kind |-> "register", step |-> "auth", uid |-> a, shown |-> TRUE]
          /\ user' = [uid |-> a, seen |-> {}]
    /\ UNCHANGED <<authVars, savedVars, localUser, fetches, screen, other, given>>

(* handleLogin and handleRegister of the two forms, and the buttons of     *)
(* Google and Facebook.                                                    *)
HandleLogin == Start("email")
HandleRegister == Start("register")
SignInSocial == Start("social")

StartSignIn == HandleLogin \/ HandleRegister \/ SignInSocial

At(kind, step) == flow.kind = kind /\ flow.step = step
GoTo(step) == flow' = [flow EXCEPT !.step = step]

(* Mutant: logUserIn returns after an error of signIn.                     *)
SignInFailsUnheard ==
    /\ flow.step \in {"created", "read", "refused"}
    /\ flow' = NoFlow
    /\ UNCHANGED <<authVars, savedVars, memoryVars, fetches, screen, other, given>>

(* Any request may fail: an alert, and the sign-in is over where it stands,*)
(* also when the account was created and only the answer was lost.         *)
SignInFails ==
    /\ flow.step \in {"auth", "created", "read", "refused"}
    /\ flow' = NoFlow
    /\ UNCHANGED <<authVars, savedVars, memoryVars, fetches, screen, other, given>>

(* authenticationComplete, as far as the login screen goes.                *)
AuthenticationComplete == screen' = "home" /\ flow' = NoFlow

(* Firebase Auth signs a known account in, or a new one by its provider.   *)
SignedIn ==
    /\ \/ At("email", "auth") /\ flow.uid \in registered /\ UNCHANGED registered
       \/ At("social", "auth") /\ registered' = registered \cup {flow.uid}
    /\ auth' = flow.uid
    /\ GoTo("read")
    /\ UNCHANGED <<savedVars, memoryVars, fetches, screen, other, given>>

(* handleUserLoggedIn and handleLogin: the form is held weakly, and an     *)
(* account without a document gets no answer at all.                       *)
EmailRead ==
    /\ At("email", "read")
    /\ \/ /\ docs[flow.uid] # None /\ flow.shown
          /\ TakeDocument(flow.uid)
          /\ AuthenticationComplete
       \/ /\ docs[flow.uid] = None \/ ~flow.shown
          /\ flow' = NoFlow
          /\ UNCHANGED <<user, screen>>
    /\ UNCHANGED <<authVars, savedVars, localUser, fetches, other, given>>

(* createUser on the server, before its answer is known here.              *)
AccountCreated ==
    /\ At("register", "auth")
    /\ flow.uid \notin registered
    /\ registered' = registered \cup {flow.uid}
    /\ GoTo("created")
    /\ UNCHANGED <<auth, savedVars, memoryVars, fetches, screen, other, given>>

(* Mutant: the verdicts in use, whoever gave them.                         *)
CurrentVerdicts ==
    IF user # None THEN user.seen
    ELSE IF localUser = None THEN {} ELSE localUser

LocalVerdicts == IF localUser = None THEN {} ELSE localUser

(* A new user with the lists of the local user, written to a new document, *)
(* or refused.                                                             *)
NewUser(uid) ==
    /\ user' = [uid |-> uid, seen |-> LocalVerdicts]
    /\ \/ docs' = [docs EXCEPT ![uid] = LocalVerdicts] /\ GoTo("written")
       \/ UNCHANGED docs /\ GoTo("refused")
    /\ UNCHANGED <<prefs, skippedLogin, localUser>>

(* registerUser, when createUser has answered.                             *)
Registered ==
    /\ At("register", "created")
    /\ auth' = flow.uid
    /\ NewUser(flow.uid)
    /\ UNCHANGED <<registered, fetches, screen, other, given>>

(* handleRegister, unless the form is gone.                                *)
RegisterDone ==
    /\ At("register", "written")
    /\ IF flow.shown THEN AuthenticationComplete ELSE flow' = NoFlow /\ UNCHANGED screen
    /\ UNCHANGED <<authVars, savedVars, memoryVars, fetches, other, given>>

(* socialSignIn of LoginController: the document of whoever is signed in   *)
(* by now is read again.                                                   *)
ReadAgain ==
    flow' = IF auth = None THEN NoFlow
            ELSE [flow EXCEPT !.step = "reread", !.uid = auth]

(* socialSignIn of AuthService: the document, or a new user.               *)
SocialRead ==
    /\ At("social", "read")
    /\ \/ /\ docs[flow.uid] # None
          /\ TakeDocument(flow.uid)
          /\ ReadAgain
          /\ UNCHANGED <<savedVars, localUser>>
       \/ docs[flow.uid] = None /\ NewUser(flow.uid)
    /\ UNCHANGED <<authVars, fetches, screen, other, given>>

SocialWritten ==
    /\ At("social", "written")
    /\ ReadAgain
    /\ UNCHANGED <<authVars, savedVars, memoryVars, fetches, screen, other, given>>

(* handleUserLoggedIn of LoginController goes on after an error as well.   *)
SocialReread ==
    /\ At("social", "reread")
    /\ \/ docs[flow.uid] # None /\ TakeDocument(flow.uid)
       \/ UNCHANGED user
    /\ AuthenticationComplete
    /\ UNCHANGED <<authVars, savedVars, localUser, fetches, other, given>>

SignInAnswers ==
    \/ SignInFails \/ SignedIn \/ EmailRead
    \/ AccountCreated \/ Registered \/ RegisterDone
    \/ SocialRead \/ SocialWritten \/ SocialReread

-----------------------------------------------------------------------------
(* The same app on a second phone, as far as its user goes.                *)

OtherLoads(a) ==
    /\ docs[a] # None
    /\ other' = [uid |-> a, seen |-> docs[a]]
    /\ UNCHANGED <<authVars, savedVars, memoryVars, fetches, flow, screen, given>>

OtherJudges(m) ==
    /\ other # None
    /\ other' = [other EXCEPT !.seen = @ \cup {m}]
    /\ Give(other.uid, m)
    /\ UNCHANGED <<authVars, savedVars, memoryVars, fetches, flow, screen>>

OtherSaves ==
    /\ other # None
    /\ docs' = [docs EXCEPT ![other.uid] = other.seen]
    /\ UNCHANGED <<authVars, prefs, skippedLogin, memoryVars, fetches, flow, screen,
                   other, given>>

SessionNext ==
    \/ Relaunch
    \/ \E m \in Movies : Judge(m)
    \/ SaveUserDataOnExit
    \/ SceneAnswer \/ ControllerAnswer
    \/ Logout \/ UserPressedRegister \/ HandleSkipLogin \/ GoBack
    \/ StartSignIn \/ SignInAnswers
    \/ \E a \in SecondPhone : OtherLoads(a)
    \/ \E m \in Movies : OtherJudges(m)
    \/ OtherSaves

SessionSpec == SessionInit /\ [][SessionNext]_sessionVars

-----------------------------------------------------------------------------

SessionTypeOK ==
    /\ auth \in Accounts \cup {None}
    /\ registered \in SUBSET Accounts
    /\ docs \in [Accounts -> Copies]
    /\ prefs \in SUBSET Movies /\ skippedLogin \in BOOLEAN
    /\ user \in Users \cup {None} /\ localUser \in Copies
    /\ fetches \in SUBSET Fetches
    /\ flow \in Flows \cup {NoFlow}
    /\ screen \in {"login", "home"}
    /\ other \in Users \cup {None}
    /\ given \in [Owners -> SUBSET Movies]

(* Firebase Auth has every account that is in use anywhere.                *)
AccountsKnown ==
    /\ \A a \in Accounts : docs[a] # None => a \in registered
    /\ \A u \in {user, other} : u # None => u.uid \in registered
    /\ auth # None => auth \in registered
    /\ \A f \in fetches : f.uid \in registered
    /\ flow.step \notin {"none", "auth"} => flow.uid \in registered

(* While createUser has not answered, its account is new: registerUser may *)
(* write a whole document because nobody else can have filed into it.      *)
NewAccountIsNew ==
    flow.step = "created" =>
        docs[flow.uid] = None /\ (user # None => user.uid # flow.uid)

OtherHasDocument == other # None => docs[other.uid] # None

(* The inductive invariant of the session.                                 *)
SessionInv ==
    /\ SessionTypeOK
    /\ AccountsKnown
    /\ NewAccountIsNew
    /\ OtherHasDocument

(* No verdict wanders to another owner, in memory or in a durable copy:    *)
(* with an account there is only what was given to it, on any phone, or to *)
(* a phone before its user had the account (registerUser and socialSignIn  *)
(* take the local lists over; setUser and the fetches replace the user as  *)
(* a whole).                                                               *)
VerdictsStayHome ==
    /\ prefs \subseteq given[Local]
    /\ localUser # None => localUser \subseteq given[Local]
    /\ \A a \in Accounts :
          docs[a] # None => docs[a] \subseteq given[a] \cup given[Local]
    /\ \A u \in {user, other} :
          u # None => u.seen \subseteq given[u.uid] \cup given[Local]

(* The session implements VerdictStore: the durable copies are the         *)
(* documents and UserDefaults, the open ones are user and localUser.       *)
Durable == [o \in Owners |-> IF o = Local THEN prefs ELSE docs[o]]
Open == [o \in Owners |->
            IF o = Local THEN localUser
            ELSE IF user # None /\ user.uid = o THEN user.seen ELSE None]

Store == INSTANCE VerdictStore WITH durable <- Durable, open <- Open

(* As long as one phone runs the app, verdicts are kept as VerdictStore    *)
(* says: whatever answers come, and wherever the app is killed, a copy in  *)
(* memory only ever replaces a durable copy that it grew from.  (Once the  *)
(* second phone has loaded a user, whole documents are written over each   *)
(* other: saveUserDataOnExit.)                                             *)
KeepsVerdicts ==
    /\ Store!StoreInit
    /\ [][ other' = None => Store!StoreNext ]_(Store!storeVars)

(* Answers of setData, its refusal among them.  The client keeps the       *)
(* completion for the user who wrote until the server has acknowledged:    *)
(* without a connection, or after a change of user, it may never come.     *)
AwaitsServer == flow.step \in {"written", "refused"}

(* signIn, createUser and getDocument are answered, by an error at last.   *)
SessionFairSpec == SessionSpec /\ WF_sessionVars(~AwaitsServer /\ SignInAnswers)

(* A sign-in ends, or comes to wait for the server to have written its new *)
(* user: socialSignIn and registerUser go on only then, and the login stays*)
(* until the user leaves it.  (One that has no user to write, or has done  *)
(* so, does end: it cannot come to wait before it has.)                    *)
SignInEnds == flow # NoFlow ~> flow = NoFlow \/ AwaitsServer

(* How many answers a sign-in may still wait for.                          *)
AnswersLeft ==
    CASE flow.step = "auth" -> 4
      [] flow.step \in {"created", "read"} -> 3
      [] flow.step \in {"written", "refused"} -> 2
      [] flow.step = "reread" -> 1
      [] OTHER -> 0

(* No sign-in goes back to a request it has made, whatever document it     *)
(* finds and whoever is signed in by then; other steps leave it, or end it *)
(* (LoginController.swift:136-161, AuthService.swift:15-110).              *)
SignInAdvances ==
    [][ /\ SignInAnswers => AnswersLeft' < AnswersLeft
        /\ flow # NoFlow => AnswersLeft' <= AnswersLeft ]_sessionVars

(* And each is at a step that its kind takes, so that there is a completion*)
(* which goes on from there, if it is called.                              *)
SignInIsAnswered ==
    flow # NoFlow =>
        \/ flow.step = "auth"
        \/ flow.kind = "email" /\ flow.step = "read"
        \/ flow.kind = "register" /\ flow.step \in {"created", "written", "refused"}
        \/ flow.kind = "social" /\ flow.step \in {"read", "written", "refused", "reread"}
=============================================================================

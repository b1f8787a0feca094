---------------------------- MODULE SessionProofs ----------------------------
(***************************************************************************)
(* The inductive invariant of the session, that no verdict wanders to      *)
(* another owner, that on one phone the session implements VerdictStore,   *)
(* so that nothing that was saved is ever lost there, and that a sign-in   *)
(* neither goes back nor waits for an answer nobody gives.                 *)
(***************************************************************************)
EXTENDS UserSession, TLAPS

(* A loaded user is the document it was read from.                         *)
LEMMA DocumentTaken ==
    ASSUME docs \in [Accounts -> Copies], NEW uid \in Accounts,
           docs[uid] # None, TakeDocument(uid)
    PROVE  /\ user' \in Users /\ user' # None
           /\ user'.uid = uid /\ user'.seen = docs[uid]
<1>1. docs[uid] \in SUBSET Movies
  BY DEF Copies
<1>2. user' = [uid |-> uid, seen |-> docs[uid]]
  BY DEF TakeDocument
<1>3. user' \in Users
  BY <1>1, <1>2 DEF Users
<1>4. user' # None
  BY <1>3, NilAssumption
<1>5. user'.uid = uid /\ user'.seen = docs[uid]
  BY <1>2
<1>6. QED BY <1>3, <1>4, <1>5

(* A new user has the local lists, and a document with them or none.       *)
LEMMA UserFounded ==
    ASSUME docs \in [Accounts -> Copies], localUser \in Copies,
           NEW uid \in Accounts, NewUser(uid)
    PROVE  /\ LocalVerdicts \in SUBSET Movies
           /\ user' \in Users /\ user' # None
           /\ user'.uid = uid /\ user'.seen = LocalVerdicts
           /\ docs' \in [Accounts -> Copies]
           /\ docs'[uid] \in {docs[uid], LocalVerdicts}
           /\ \A a \in Accounts : a # uid => docs'[a] = docs[a]
<1>1. LocalVerdicts \in SUBSET Movies
  BY DEF LocalVerdicts, Copies
<1>2. user' = [uid |-> uid, seen |-> LocalVerdicts]
  BY DEF NewUser
<1>3. user' \in Users
  BY <1>1, <1>2 DEF Users
<1>4. user' # None
  BY <1>3, NilAssumption
<1>5. user'.uid = uid /\ user'.seen = LocalVerdicts
  BY <1>2
<1>6. docs' \in {docs, [docs EXCEPT ![uid] = LocalVerdicts]}
  BY DEF NewUser
<1>7. /\ docs' \in [Accounts -> Copies]
      /\ docs'[uid] \in {docs[uid], LocalVerdicts}
      /\ \A a \in Accounts : a # uid => docs'[a] = docs[a]
  BY <1>1, <1>6 DEF Copies
<1>8. QED BY <1>1, <1>3, <1>4, <1>5, <1>7

(* A flow in flight is a record of its kind, and NoFlow is none of them.   *)
LEMMA FlowFields ==
    ASSUME flow \in Flows \cup {NoFlow}, flow.step # "none"
    PROVE  /\ flow \in Flows
           /\ flow.uid \in Accounts
BY DEF Flows, NoFlow

LEMMA SessionInvInit == SessionInit => SessionInv
<1> SUFFICES ASSUME SessionInit PROVE SessionInv
  OBVIOUS
<1>1. /\ auth = None /\ user = None /\ other = None
      /\ fetches = {} /\ localUser = {} /\ screen = "login"
  BY NilAssumption
  DEF SessionInit, LaunchFetches, LaunchLocal, LaunchScreen, Fetches
<1>2. given \in [Owners -> SUBSET Movies]
  <2>1. ASSUME NEW o \in Owners
        PROVE  (IF o = Local \/ docs[o] = None THEN {} ELSE docs[o]) \in SUBSET Movies
    BY DEF SessionInit, Owners, Copies
  <2>2. QED BY <2>1 DEF SessionInit
<1>3. SessionTypeOK
  BY <1>1, <1>2 DEF SessionInit, SessionTypeOK, Copies
<1>4. AccountsKnown
  BY <1>1 DEF SessionInit, AccountsKnown, NoFlow
<1>5. NewAccountIsNew /\ OtherHasDocument
  BY <1>1 DEF SessionInit, NewAccountIsNew, OtherHasDocument, NoFlow
<1>6. QED BY <1>3, <1>4, <1>5 DEF SessionInv

LEMMA RelaunchKeeps == SessionInv /\ Relaunch => SessionInv'
<1> SUFFICES ASSUME SessionInv, Relaunch PROVE SessionInv'
  OBVIOUS
<1> USE DEF SessionInv, Relaunch, authVars, savedVars
<1>1. SessionTypeOK'
  BY DEF SessionTypeOK, LaunchFetches, LaunchLocal, LaunchScreen, Copies
<1>2. AccountsKnown'
  <2>1. \A f \in fetches' : f.uid \in registered'
    BY NilAssumption DEF AccountsKnown, LaunchFetches, Fetches, SessionTypeOK
  <2>2. QED BY <2>1 DEF AccountsKnown, NoFlow
<1>3. NewAccountIsNew' /\ OtherHasDocument'
  BY DEF NewAccountIsNew, OtherHasDocument, NoFlow
<1>4. QED BY <1>1, <1>2, <1>3

(* The steps in which neither a user nor a document changes.               *)
LEMMA UsersStayKeeps ==
    ASSUME SessionInv, SessionTypeOK',
           UNCHANGED <<user, other, docs>>,
           registered \subseteq registered', fetches' \subseteq fetches,
           auth' = auth \/ auth' = None \/ auth' \in registered',
           flow'.step \notin {"none", "auth"} => flow'.uid \in registered',
           flow'.step = "created" =>
             \/ flow' = flow
             \/ flow'.uid \in Accounts /\ flow'.uid \notin registered
    PROVE  SessionInv'
<1> USE DEF SessionInv
<1>1. AccountsKnown'
  BY DEF AccountsKnown, SessionTypeOK
<1>2. NewAccountIsNew'
  <2>1. CASE flow' = flow
    BY <2>1 DEF NewAccountIsNew
  <2>2. CASE flow'.uid \in Accounts /\ flow'.uid \notin registered
    BY <2>2 DEF NewAccountIsNew, AccountsKnown
  <2>3. QED BY <2>1, <2>2 DEF NewAccountIsNew
<1>3. OtherHasDocument'
  BY DEF OtherHasDocument
<1>4. QED BY <1>1, <1>2, <1>3

(* The steps in which the user changes to one of a known account that is   *)
(* not the one being created, or to none, and documents are only written.  *)
LEMMA UserChangesKeeps ==
    ASSUME SessionInv, SessionTypeOK',
           user' # None => /\ user'.uid \in registered'
                           /\ flow'.step = "created" => user'.uid # flow'.uid,
           \A a \in Accounts :
              docs'[a] # None => docs[a] # None \/ a \in registered',
           \A a \in Accounts : docs[a] # None => docs'[a] # None,
           flow'.step = "created" =>
              flow' = flow /\ docs'[flow.uid] = docs[flow.uid],
           other' = other, registered' = registered, fetches' \subseteq fetches,
           auth' = auth \/ auth' = None \/ auth' \in registered',
           flow'.step \notin {"none", "auth"} => flow'.uid \in registered'
    PROVE  SessionInv'
<1> USE DEF SessionInv
<1>1. AccountsKnown'
  BY DEF AccountsKnown, SessionTypeOK
<1>2. NewAccountIsNew'
  BY DEF NewAccountIsNew
<1>3. OtherHasDocument'
  BY DEF OtherHasDocument, SessionTypeOK, Users
<1>4. QED BY <1>1, <1>2, <1>3

-----------------------------------------------------------------------------
(* Every action keeps the invariant.                                       *)

LEMMA SilentSteps ==
    SessionInv /\ (UserPressedRegister \/ HandleSkipLogin \/ SignInFails
                    \/ RegisterDone \/ GoBack) => SessionInv'
<1> USE DEF authVars, savedVars, memoryVars
<1> SUFFICES ASSUME SessionInv,
                    UserPressedRegister \/ HandleSkipLogin \/ SignInFails
                    \/ RegisterDone \/ GoBack
             PROVE  SessionInv'
  OBVIOUS
<1>1. \/ flow' \in {flow, NoFlow}
      \/ flow.shown /\ flow' = [flow EXCEPT !.shown = FALSE]
  BY DEF UserPressedRegister, HandleSkipLogin, SignInFails, RegisterDone,
         AuthenticationComplete, GoBack
<1>2. /\ flow' \in Flows \cup {NoFlow}
      /\ flow'.step \in {flow.step, "none"}
      /\ flow'.step # "none" => flow'.uid = flow.uid
  <2>1. CASE flow' = flow
    BY <2>1 DEF SessionInv, SessionTypeOK
  <2>2. CASE flow' = NoFlow
    BY <2>2 DEF NoFlow
  <2>3. CASE flow.shown /\ flow' = [flow EXCEPT !.shown = FALSE]
    <3>1. NoFlow.shown = FALSE
      BY DEF NoFlow
    <3>2. flow # NoFlow
      BY <2>3, <3>1, Zenon
    <3>3. flow \in Flows
      BY <3>2 DEF SessionInv, SessionTypeOK
    <3>4. flow' \in Flows /\ flow'.step = flow.step /\ flow'.uid = flow.uid
      BY <2>3, <3>3 DEF Flows
    <3>5. QED BY <3>4
  <2>4. QED BY <1>1, <2>1, <2>2, <2>3
<1>3. UNCHANGED <<auth, registered, docs, user, fetches, other>>
  BY DEF UserPressedRegister, HandleSkipLogin, SignInFails, RegisterDone,
         AuthenticationComplete, GoBack
<1>4. SessionTypeOK'
  BY <1>2, <1>3 DEF SessionInv, SessionTypeOK, Copies, UserPressedRegister,
     HandleSkipLogin, SignInFails, RegisterDone, AuthenticationComplete, GoBack
<1>5. AccountsKnown' /\ NewAccountIsNew' /\ OtherHasDocument'
  BY <1>2, <1>3 DEF SessionInv, AccountsKnown, NewAccountIsNew, OtherHasDocument
<1>6. QED BY <1>4, <1>5 DEF SessionInv

LEMMA StartSignInKeeps == SessionInv /\ StartSignIn => SessionInv'
<1> SUFFICES ASSUME SessionInv, StartSignIn PROVE SessionInv'
  OBVIOUS
<1> USE DEF authVars, savedVars, memoryVars
<1>1. PICK k \in {"email", "register", "social"} : Start(k)
  BY DEF StartSignIn, HandleLogin, HandleRegister, SignInSocial
<1>2. flow' \in Flows /\ flow'.step = "auth"
  BY <1>1 DEF Start, Flows
<1>3. SessionTypeOK'
  BY <1>1, <1>2 DEF SessionInv, SessionTypeOK, Start
<1>4. QED BY <1>1, <1>2, <1>3, UsersStayKeeps DEF Start

LEMMA SignedInKeeps == SessionInv /\ SignedIn => SessionInv'
<1> SUFFICES ASSUME SessionInv, SignedIn PROVE SessionInv'
  OBVIOUS
<1> USE DEF savedVars, memoryVars
<1>1. flow \in Flows /\ flow.uid \in Accounts
  BY FlowFields DEF SignedIn, At, SessionInv, SessionTypeOK
<1>2. flow' \in Flows /\ flow'.step = "read" /\ flow'.uid = flow.uid
  BY <1>1 DEF SignedIn, GoTo, Flows
<1>3. /\ registered' \in {registered, registered \cup {flow.uid}}
      /\ flow.uid \in registered'
  BY DEF SignedIn
<1>4. SessionTypeOK'
  BY <1>1, <1>2, <1>3 DEF SessionInv, SessionTypeOK, SignedIn
<1>5. QED BY <1>2, <1>3, <1>4, UsersStayKeeps DEF SignedIn

LEMMA AccountCreatedKeeps == SessionInv /\ AccountCreated => SessionInv'
<1> SUFFICES ASSUME SessionInv, AccountCreated PROVE SessionInv'
  OBVIOUS
<1> USE DEF savedVars, memoryVars
<1>1. flow \in Flows /\ flow.uid \in Accounts
  BY FlowFields DEF AccountCreated, At, SessionInv, SessionTypeOK
<1>2. flow' \in Flows /\ flow'.step = "created" /\ flow'.uid = flow.uid
  BY <1>1 DEF AccountCreated, GoTo, Flows
<1>3. registered' = registered \cup {flow.uid} /\ flow.uid \notin registered
  BY DEF AccountCreated
<1>4. SessionTypeOK'
  BY <1>1, <1>2, <1>3 DEF SessionInv, SessionTypeOK, AccountCreated
<1>5. QED BY <1>1, <1>2, <1>3, <1>4, UsersStayKeeps DEF AccountCreated

LEMMA SocialWrittenKeeps == SessionInv /\ SocialWritten => SessionInv'
<1> SUFFICES ASSUME SessionInv, SocialWritten PROVE SessionInv'
  OBVIOUS
<1> USE DEF authVars, savedVars, memoryVars
<1>1. flow \in Flows
  BY FlowFields DEF SocialWritten, At, SessionInv, SessionTypeOK
<1>2. \/ flow' = NoFlow
      \/ flow' \in Flows /\ flow'.step = "reread" /\ flow'.uid \in registered
  BY <1>1 DEF SocialWritten, ReadAgain, Flows, SessionInv, SessionTypeOK,
              AccountsKnown
<1>3. SessionTypeOK'
  BY <1>2 DEF SessionInv, SessionTypeOK, SocialWritten
<1>4. QED BY <1>2, <1>3, UsersStayKeeps DEF SocialWritten, NoFlow

(* A step that only takes the document of an account into the user.        *)
LEMMA TakeDocumentKeeps ==
    ASSUME SessionInv, NEW uid \in Accounts, docs[uid] # None, TakeDocument(uid),
           UNCHANGED <<authVars, savedVars, localUser, other, given>>,
           fetches' \subseteq fetches, screen' \in {"login", "home"},
           flow' \in Flows \cup {NoFlow},
           flow'.step = "created" => flow' = flow,
           flow'.step \notin {"none", "auth"} => flow'.uid \in registered
    PROVE  SessionInv'
<1> USE DEF authVars, savedVars
<1>1. /\ user' \in Users /\ user' # None
      /\ user'.uid = uid /\ user'.seen = docs[uid]
  BY DocumentTaken DEF SessionInv, SessionTypeOK
<1>2. SessionTypeOK'
  BY <1>1 DEF SessionInv, SessionTypeOK
<1>3. uid \in registered
  BY DEF SessionInv, AccountsKnown
<1>4. flow'.step = "created" => user'.uid # flow'.uid
  BY <1>1 DEF SessionInv, NewAccountIsNew
<1>5. QED BY <1>1, <1>2, <1>3, <1>4, UserChangesKeeps

(* A step that changes the local user, the lists of UserDefaults or the    *)
(* requests in flight only.                                                *)
LEMMA LocalStepKeeps ==
    ASSUME SessionInv, UNCHANGED <<authVars, docs, user, flow, other, given>>,
           localUser' \in Copies, prefs' \in SUBSET Movies,
           skippedLogin' \in BOOLEAN, screen' \in {"login", "home"},
           fetches' \subseteq fetches
    PROVE  SessionInv'
<1> USE DEF authVars
<1>1. SessionTypeOK'
  BY DEF SessionInv, SessionTypeOK
<1>2. flow'.step \notin {"none", "auth"} => flow'.uid \in registered'
  BY DEF SessionInv, AccountsKnown
<1>3. UNCHANGED <<user, other, docs>>
  OBVIOUS
<1>4. registered \subseteq registered' /\ fetches' \subseteq fetches
  OBVIOUS
<1>5. auth' = auth /\ flow' = flow
  OBVIOUS
<1>6. QED BY <1>1, <1>2, <1>3, <1>4, <1>5, UsersStayKeeps, Zenon

LEMMA AnswersKeep ==
    SessionInv /\ (SceneAnswer \/ ControllerAnswer) => SessionInv'
<1> SUFFICES ASSUME SessionInv, SceneAnswer \/ ControllerAnswer PROVE SessionInv'
  OBVIOUS
<1>1. PICK f \in fetches :
         /\ fetches' = fetches \ {f}
         /\ UNCHANGED <<authVars, savedVars, flow, screen, other, given>>
         /\ \/ docs[f.uid] # None /\ TakeDocument(f.uid) /\ UNCHANGED localUser
            \/ UNCHANGED memoryVars
            \/ localUser' = prefs /\ UNCHANGED user
  BY DEF SceneAnswer, ControllerAnswer, memoryVars
<1>2. f.uid \in Accounts
  BY DEF SessionInv, SessionTypeOK, Fetches
<1>3. CASE docs[f.uid] # None /\ TakeDocument(f.uid) /\ UNCHANGED localUser
  BY <1>1, <1>2, <1>3, TakeDocumentKeeps
  DEF SessionInv, SessionTypeOK, AccountsKnown
<1>4. CASE localUser' \in {localUser, prefs} /\ UNCHANGED user
  BY <1>1, <1>4, LocalStepKeeps DEF SessionInv, SessionTypeOK, Copies, savedVars
<1>5. QED BY <1>1, <1>3, <1>4 DEF memoryVars

LEMMA JudgeKeeps == ASSUME NEW m \in Movies PROVE SessionInv /\ Judge(m) => SessionInv'
<1> SUFFICES ASSUME SessionInv, Judge(m) PROVE SessionInv'
  OBVIOUS
<1> USE DEF authVars, savedVars
<1>1. given' \in [Owners -> SUBSET Movies]
  BY DEF Judge, Give, SessionInv, SessionTypeOK
<1>2. CASE user # None /\ user' = [user EXCEPT !.seen = @ \cup {m}] /\ UNCHANGED localUser
  <2>1. user \in Users
    BY <1>2 DEF SessionInv, SessionTypeOK
  <2>2. user' \in Users /\ user'.uid = user.uid
    BY <1>2, <2>1 DEF Users
  <2>3. SessionTypeOK'
    BY <1>1, <1>2, <2>2 DEF SessionInv, SessionTypeOK, Judge
  <2>4. user.uid \in registered /\ (flow.step = "created" => user.uid # flow.uid)
    BY <1>2 DEF SessionInv, AccountsKnown, NewAccountIsNew
  <2>5. flow.step \notin {"none", "auth"} => flow.uid \in registered
    BY DEF SessionInv, AccountsKnown
  <2>6. QED BY <2>2, <2>3, <2>4, <2>5, UserChangesKeeps DEF Judge
<1>3. CASE user = None /\ localUser # None /\ localUser' = localUser \cup {m}
           /\ UNCHANGED user
  <2>1. SessionTypeOK'
    BY <1>1, <1>3 DEF SessionInv, SessionTypeOK, Judge, Copies
  <2>2. flow'.step \notin {"none", "auth"} => flow'.uid \in registered'
    BY DEF SessionInv, AccountsKnown, Judge
  <2>3. UNCHANGED <<user, other, docs>>
    BY <1>3 DEF Judge
  <2>4. registered \subseteq registered' /\ fetches' \subseteq fetches
    BY DEF Judge
  <2>5. auth' = auth /\ flow' = flow
    BY DEF Judge
  <2>6. QED BY <2>1, <2>2, <2>3, <2>4, <2>5, UsersStayKeeps, Zenon
<1>4. QED BY <1>2, <1>3 DEF Judge

LEMMA SaveKeeps == SessionInv /\ SaveUserDataOnExit => SessionInv'
<1> SUFFICES ASSUME SessionInv, SaveUserDataOnExit PROVE SessionInv'
  OBVIOUS
<1> USE DEF authVars, memoryVars
<1>1. prefs' \in SUBSET Movies
  BY DEF SaveUserDataOnExit, WriteLocal, SessionInv, SessionTypeOK, Copies
<1>2. CASE user # None /\ docs' = [docs EXCEPT ![user.uid] = user.seen]
  <2>1. user \in Users
    BY <1>2 DEF SessionInv, SessionTypeOK
  <2>2. user.uid \in Accounts /\ user.seen \in SUBSET Movies
    BY <2>1 DEF Users
  <2>3. user.seen # None
    BY <2>2, NilAssumption
  <2>4. /\ docs' \in [Accounts -> Copies]
        /\ docs'[user.uid] = user.seen
        /\ \A a \in Accounts : a # user.uid => docs'[a] = docs[a]
    BY <1>2, <2>2 DEF SessionInv, SessionTypeOK, Copies
  <2>5. SessionTypeOK'
    BY <1>1, <2>4 DEF SessionInv, SessionTypeOK, SaveUserDataOnExit
  <2>6. user.uid \in registered /\ (flow.step = "created" => user.uid # flow.uid)
    BY <1>2 DEF SessionInv, AccountsKnown, NewAccountIsNew
  <2>7. flow.step \notin {"none", "auth"} => flow.uid \in registered
    BY DEF SessionInv, AccountsKnown
  <2>8. flow.step = "created" => docs'[flow.uid] = docs[flow.uid]
    <3>1. ASSUME flow.step = "created" PROVE flow.uid \in Accounts
      BY <3>1, FlowFields DEF SessionInv, SessionTypeOK
    <3>2. QED BY <2>4, <2>6, <3>1
  <2>9. QED BY <2>3, <2>4, <2>5, <2>6, <2>7, <2>8, UserChangesKeeps
               DEF SaveUserDataOnExit
<1>3. CASE UNCHANGED docs
  BY <1>1, <1>3, LocalStepKeeps
  DEF SaveUserDataOnExit, SessionInv, SessionTypeOK
<1>4. QED BY <1>2, <1>3 DEF SaveUserDataOnExit

LEMMA LogoutKeeps == SessionInv /\ Logout => SessionInv'
<1> SUFFICES ASSUME SessionInv, Logout PROVE SessionInv'
  OBVIOUS
<1> USE DEF savedVars
<1>1. SessionTypeOK'
  BY DEF Logout, SessionInv, SessionTypeOK
<1>2. flow.step \notin {"none", "auth"} => flow.uid \in registered
  BY DEF SessionInv, AccountsKnown
<1>3. QED BY <1>1, <1>2, UserChangesKeeps DEF Logout

LEMMA NewUserKeeps ==
    ASSUME SessionInv, NEW uid \in Accounts, uid \in registered, NewUser(uid),
           flow.uid = uid, flow.step # "none", auth' = uid \/ auth' = auth,
           UNCHANGED <<registered, fetches, screen, other, given>>
    PROVE  SessionInv'
<1>1. /\ user' \in Users /\ user' # None /\ user'.uid = uid
      /\ LocalVerdicts \in SUBSET Movies
      /\ docs' \in [Accounts -> Copies]
      /\ docs'[uid] \in {docs[uid], LocalVerdicts}
      /\ \A a \in Accounts : a # uid => docs'[a] = docs[a]
  BY UserFounded DEF SessionInv, SessionTypeOK
<1>2. LocalVerdicts # None
  BY <1>1, NilAssumption
<1>3. flow \in Flows
  BY FlowFields DEF SessionInv, SessionTypeOK
<1>4. /\ flow' \in Flows /\ flow'.uid = uid
      /\ flow'.step \in {"written", "refused"}
  BY <1>3 DEF NewUser, GoTo, Flows
<1>5. SessionTypeOK'
  BY <1>1, <1>4 DEF NewUser, SessionInv, SessionTypeOK
<1>6. QED BY <1>1, <1>2, <1>4, <1>5, UserChangesKeeps DEF NewUser

LEMMA RegisteredKeeps == SessionInv /\ Registered => SessionInv'
<1> SUFFICES ASSUME SessionInv, Registered PROVE SessionInv'
  OBVIOUS
<1>1. flow.uid \in Accounts /\ flow.uid \in registered /\ flow.step # "none"
  BY FlowFields DEF Registered, At, SessionInv, SessionTypeOK, AccountsKnown
<1>2. QED BY <1>1, NewUserKeeps DEF Registered

LEMMA SocialReadKeeps == SessionInv /\ SocialRead => SessionInv'
<1> SUFFICES ASSUME SessionInv, SocialRead PROVE SessionInv'
  OBVIOUS
<1>1. /\ flow \in Flows /\ flow.uid \in Accounts
      /\ flow.uid \in registered /\ flow.step # "none"
  BY FlowFields DEF SocialRead, At, SessionInv, SessionTypeOK, AccountsKnown
<1>2. CASE docs[flow.uid] # None /\ TakeDocument(flow.uid) /\ ReadAgain
           /\ UNCHANGED <<savedVars, localUser>>
  <2>1. \/ flow' = NoFlow
        \/ flow' \in Flows /\ flow'.step = "reread" /\ flow'.uid \in registered
    BY <1>1, <1>2 DEF ReadAgain, Flows, SessionInv, SessionTypeOK, AccountsKnown
  <2>2. QED
    BY <1>1, <1>2, <2>1, TakeDocumentKeeps
    DEF SocialRead, NoFlow, SessionInv, SessionTypeOK
<1>3. CASE NewUser(flow.uid)
  BY <1>1, <1>3, NewUserKeeps DEF SocialRead, authVars
<1>4. QED BY <1>2, <1>3 DEF SocialRead

LEMMA ReadKeeps == SessionInv /\ (EmailRead \/ SocialReread) => SessionInv'
<1> SUFFICES ASSUME SessionInv, EmailRead \/ SocialReread PROVE SessionInv'
  OBVIOUS
<1>1. flow.uid \in Accounts
  BY FlowFields DEF EmailRead, SocialReread, At, SessionInv, SessionTypeOK
<1>2. /\ flow' = NoFlow /\ screen' \in {screen, "home"}
      /\ UNCHANGED <<authVars, savedVars, localUser, fetches, other, given>>
      /\ (docs[flow.uid] # None /\ TakeDocument(flow.uid)) \/ UNCHANGED user
  BY DEF EmailRead, SocialReread, AuthenticationComplete
<1>3. flow' \in Flows \cup {NoFlow} /\ flow'.step = "none"
  BY <1>2 DEF NoFlow
<1>4. CASE docs[flow.uid] # None /\ TakeDocument(flow.uid)
  BY <1>1, <1>2, <1>3, <1>4, TakeDocumentKeeps DEF SessionInv, SessionTypeOK
<1>5. CASE UNCHANGED user
  <2>1. SessionTypeOK'
    BY <1>2, <1>3, <1>5 DEF SessionInv, SessionTypeOK, authVars, savedVars
  <2>2. QED BY <1>2, <1>3, <1>5, <2>1, UsersStayKeeps DEF authVars, savedVars
<1>6. QED BY <1>2, <1>4, <1>5

LEMMA OtherPhoneKeeps ==
    SessionInv /\ (\/ \E a \in Accounts : OtherLoads(a)
                   \/ \E m \in Movies : OtherJudges(m)
                   \/ OtherSaves) => SessionInv'
<1> SUFFICES ASSUME SessionInv,
                    \/ \E a \in Accounts : OtherLoads(a)
                    \/ \E m \in Movies : OtherJudges(m)
                    \/ OtherSaves
             PROVE  SessionInv'
  OBVIOUS
<1> USE DEF authVars, savedVars, memoryVars
<1>1. CASE \E a \in Accounts : OtherLoads(a)
  <2>1. PICK a \in Accounts : OtherLoads(a)
    BY <1>1
  <2>2. docs[a] \in SUBSET Movies
    BY <2>1 DEF OtherLoads, SessionInv, SessionTypeOK, Copies
  <2>3. other' \in Users /\ other'.uid = a
    BY <2>1, <2>2 DEF OtherLoads, Users
  <2>4. SessionTypeOK'
    BY <2>1, <2>3 DEF OtherLoads, SessionInv, SessionTypeOK
  <2>5. AccountsKnown' /\ NewAccountIsNew' /\ OtherHasDocument'
    BY <2>1, <2>3
    DEF OtherLoads, SessionInv, AccountsKnown, NewAccountIsNew, OtherHasDocument
  <2>6. QED BY <2>4, <2>5 DEF SessionInv
<1>2. CASE \E m \in Movies : OtherJudges(m)
  <2>1. PICK m \in Movies : OtherJudges(m)
    BY <1>2
  <2>2. other \in Users /\ other # None
    BY <2>1 DEF OtherJudges, SessionInv, SessionTypeOK
  <2>3. other' \in Users /\ other'.uid = other.uid
    BY <2>1, <2>2 DEF OtherJudges, Users
  <2>4. SessionTypeOK'
    BY <2>1, <2>3 DEF OtherJudges, Give, SessionInv, SessionTypeOK
  <2>5. AccountsKnown' /\ NewAccountIsNew' /\ OtherHasDocument'
    BY <2>1, <2>2, <2>3
    DEF OtherJudges, SessionInv, AccountsKnown, NewAccountIsNew, OtherHasDocument
  <2>6. QED BY <2>4, <2>5 DEF SessionInv
<1>3. CASE OtherSaves
  <2>1. other \in Users /\ other # None
    BY <1>3 DEF OtherSaves, SessionInv, SessionTypeOK
  <2>2. /\ other.uid \in Accounts /\ other.seen \in SUBSET Movies
        /\ other.seen # None
    BY <2>1, NilAssumption DEF Users
  <2>3. /\ docs' \in [Accounts -> Copies]
        /\ docs'[other.uid] = other.seen
        /\ \A a \in Accounts : a # other.uid => docs'[a] = docs[a]
    BY <1>3, <2>2 DEF OtherSaves, SessionInv, SessionTypeOK, Copies
  <2>4. SessionTypeOK'
    BY <1>3, <2>3 DEF OtherSaves, SessionInv, SessionTypeOK
  <2>5. AccountsKnown'
    BY <1>3, <2>1, <2>3 DEF OtherSaves, SessionInv, AccountsKnown
  <2>6. NewAccountIsNew'
    <3>1. ASSUME flow.step = "created" PROVE flow.uid \in Accounts
      BY <3>1, FlowFields DEF SessionInv, SessionTypeOK
    <3>2. flow.step = "created" => flow.uid # other.uid
      BY <2>1 DEF SessionInv, NewAccountIsNew, OtherHasDocument
    <3>3. QED
      BY <1>3, <2>3, <3>1, <3>2 DEF OtherSaves, SessionInv, NewAccountIsNew
  <2>7. OtherHasDocument'
    BY <1>3, <2>2, <2>3 DEF OtherSaves, SessionInv, OtherHasDocument
  <2>8. QED BY <2>4, <2>5, <2>6, <2>7 DEF SessionInv
<1>4. QED BY <1>1, <1>2, <1>3

LEMMA SessionInvNext == SessionInv /\ [SessionNext]_sessionVars => SessionInv'
<1> SUFFICES ASSUME SessionInv, [SessionNext]_sessionVars PROVE SessionInv'
  OBVIOUS
<1>1. CASE UNCHANGED sessionVars
  BY <1>1 DEF sessionVars, SessionInv, SessionTypeOK, AccountsKnown,
              NewAccountIsNew, OtherHasDocument
<1>2. CASE SignInAnswers
  BY <1>2, SilentSteps, SignedInKeeps, ReadKeeps, AccountCreatedKeeps,
     RegisteredKeeps, SocialReadKeeps, SocialWrittenKeeps DEF SignInAnswers
<1>3. CASE SessionNext /\ ~SignInAnswers
  BY SecondPhoneAssumption, <1>3,
     RelaunchKeeps, JudgeKeeps, SaveKeeps, AnswersKeep, LogoutKeeps,
     SilentSteps, StartSignInKeeps, OtherPhoneKeeps DEF SessionNext
<1>4. QED BY <1>1, <1>2, <1>3

(* Whatever answers come in whatever order, and wherever the app is        *)
(* killed: the session's variables stay well formed, every account in use  *)
(* is one Firebase Auth has, and an account being created is used nowhere. *)
THEOREM SessionInvariant == SessionSpec => []SessionInv
  BY SessionInvInit, SessionInvNext, PTL DEF SessionSpec

-----------------------------------------------------------------------------
(* No verdict wanders: in a step every copy is kept, taken from another    *)
(* copy of its owner or of the phone, or grows by a verdict that is given. *)

LEMMA HomeInit == SessionInit => VerdictsStayHome
<1> SUFFICES ASSUME SessionInit PROVE VerdictsStayHome
  OBVIOUS
<1>1. /\ user = None /\ other = None
      /\ prefs = {} /\ localUser = {}
  BY DEF SessionInit, LaunchLocal
<1>2. \A a \in Accounts : docs[a] # None => docs[a] = given[a]
  BY LocalAssumption DEF SessionInit, Owners
<1>3. QED BY <1>1, <1>2 DEF VerdictsStayHome

(* What the steps without a verdict do to the copies of the phone.         *)
PhoneStep ==
    /\ UNCHANGED <<given, other>>
    /\ prefs' = prefs \/ (localUser # None /\ prefs' = localUser)
    /\ localUser' \in {localUser, prefs, None}

LEMMA PhoneStaysHome ==
    ASSUME VerdictsStayHome, PhoneStep,
           \A a \in Accounts :
              docs'[a] # None => docs'[a] \subseteq given[a] \cup given[Local],
           user' # None => user'.seen \subseteq given[user'.uid] \cup given[Local]
    PROVE  VerdictsStayHome'
<1>1. prefs' \subseteq given'[Local]
  BY DEF VerdictsStayHome, PhoneStep
<1>2. localUser' # None => localUser' \subseteq given'[Local]
  BY DEF VerdictsStayHome, PhoneStep
<1>3. other' # None => other'.seen \subseteq given'[other'.uid] \cup given'[Local]
  BY DEF VerdictsStayHome, PhoneStep
<1>4. QED BY <1>1, <1>2, <1>3 DEF VerdictsStayHome, PhoneStep

LEMMA QuietStaysHome ==
    ASSUME VerdictsStayHome, PhoneStep, docs' = docs, user' \in {user, None}
    PROVE  VerdictsStayHome'
<1>1. user' # None => user'.seen \subseteq given[user'.uid] \cup given[Local]
  BY DEF VerdictsStayHome
<1>2. QED BY <1>1, PhoneStaysHome DEF VerdictsStayHome

LEMMA DocumentStaysHome ==
    ASSUME SessionInv, VerdictsStayHome, PhoneStep, docs' = docs,
           NEW uid \in Accounts, docs[uid] # None, TakeDocument(uid)
    PROVE  VerdictsStayHome'
<1>1. user'.uid = uid /\ user'.seen = docs[uid]
  BY DocumentTaken DEF SessionInv, SessionTypeOK
<1>2. QED BY <1>1, PhoneStaysHome DEF VerdictsStayHome

LEMMA NewUserStaysHome ==
    ASSUME SessionInv, VerdictsStayHome, PhoneStep,
           NEW uid \in Accounts, NewUser(uid)
    PROVE  VerdictsStayHome'
<1>1. /\ user'.uid = uid /\ user'.seen = LocalVerdicts
      /\ docs'[uid] \in {docs[uid], LocalVerdicts}
      /\ \A a \in Accounts : a # uid => docs'[a] = docs[a]
  BY UserFounded DEF SessionInv, SessionTypeOK
<1>2. LocalVerdicts \subseteq given[Local]
  BY DEF LocalVerdicts, VerdictsStayHome
<1>3. \A a \in Accounts :
         docs'[a] # None => docs'[a] \subseteq given[a] \cup given[Local]
  BY <1>1, <1>2 DEF VerdictsStayHome
<1>4. QED BY <1>1, <1>2, <1>3, PhoneStaysHome

LEMMA SaveStaysHome ==
    ASSUME SessionInv, VerdictsStayHome, PhoneStep, user' = user, user # None,
           docs' = [docs EXCEPT ![user.uid] = user.seen]
    PROVE  VerdictsStayHome'
<1>1. user.uid \in Accounts
  BY DEF SessionInv, SessionTypeOK, Users
<1>2. /\ docs'[user.uid] = user.seen
      /\ \A a \in Accounts : a # user.uid => docs'[a] = docs[a]
  BY <1>1 DEF SessionInv, SessionTypeOK
<1>3. user.seen \subseteq given[user.uid] \cup given[Local]
  BY DEF VerdictsStayHome
<1>4. \A a \in Accounts :
         docs'[a] # None => docs'[a] \subseteq given[a] \cup given[Local]
  BY <1>2, <1>3 DEF VerdictsStayHome
<1>5. QED BY <1>3, <1>4, PhoneStaysHome

(* The steps with a verdict.                                               *)
LEMMA HomeGiven ==
    ASSUME SessionInv, NEW o \in Owners, NEW m \in Movies, Give(o, m)
    PROVE  /\ m \in given'[o]
           /\ \A p \in Owners : given[p] \subseteq given'[p]
BY DEF SessionInv, SessionTypeOK, Give

LEMMA HomeNext ==
    SessionInv /\ VerdictsStayHome /\ [SessionNext]_sessionVars => VerdictsStayHome'
<1> SUFFICES ASSUME SessionInv, VerdictsStayHome, [SessionNext]_sessionVars
             PROVE  VerdictsStayHome'
  OBVIOUS
<1> USE DEF authVars, savedVars, memoryVars
<1>1. CASE UNCHANGED sessionVars
  BY <1>1, QuietStaysHome DEF sessionVars, PhoneStep
<1>2. CASE Relaunch
  BY <1>2, QuietStaysHome DEF Relaunch, LaunchLocal, PhoneStep
<1>3. ASSUME NEW m \in Movies, Judge(m) PROVE VerdictsStayHome'
  <2>1. CASE user # None /\ user' = [user EXCEPT !.seen = @ \cup {m}]
             /\ Give(user.uid, m) /\ UNCHANGED localUser
    <3>1. user \in Users
      BY <2>1 DEF SessionInv, SessionTypeOK
    <3>2. /\ user.uid \in Owners /\ user'.uid = user.uid
          /\ user'.seen = user.seen \cup {m}
      BY <2>1, <3>1 DEF Users, Owners
    <3>3. m \in given'[user.uid] /\ \A p \in Owners : given[p] \subseteq given'[p]
      BY <2>1, <3>2, HomeGiven
    <3>4. UNCHANGED <<prefs, docs, other>>
      BY <1>3 DEF Judge
    <3>5. other # None => other.uid \in Owners
      BY DEF SessionInv, SessionTypeOK, Users, Owners
    <3>6. QED
      BY <2>1, <3>2, <3>3, <3>4, <3>5 DEF VerdictsStayHome, Owners
  <2>2. CASE user = None /\ localUser # None /\ localUser' = localUser \cup {m}
             /\ Give(Local, m) /\ UNCHANGED user
    <3>1. m \in given'[Local] /\ \A p \in Owners : given[p] \subseteq given'[p]
      BY <2>2, HomeGiven DEF Owners
    <3>2. UNCHANGED <<prefs, docs, other>>
      BY <1>3 DEF Judge
    <3>3. other # None => other.uid \in Owners
      BY DEF SessionInv, SessionTypeOK, Users, Owners
    <3>4. QED BY <2>2, <3>1, <3>2, <3>3 DEF VerdictsStayHome, Owners
  <2>3. QED BY <1>3, <2>1, <2>2 DEF Judge
<1>4. CASE SaveUserDataOnExit
  <2>1. PhoneStep /\ UNCHANGED user
    BY <1>4 DEF SaveUserDataOnExit, WriteLocal, PhoneStep
  <2>2. CASE user # None /\ docs' = [docs EXCEPT ![user.uid] = user.seen]
    BY <2>1, <2>2, SaveStaysHome
  <2>3. CASE UNCHANGED docs
    BY <2>1, <2>3, QuietStaysHome
  <2>4. QED BY <1>4, <2>2, <2>3 DEF SaveUserDataOnExit
<1>5. CASE SceneAnswer \/ ControllerAnswer
  <2>1. PICK f \in fetches :
           \/ docs[f.uid] # None /\ TakeDocument(f.uid) /\ UNCHANGED localUser
           \/ localUser' \in {localUser, prefs} /\ UNCHANGED user
    BY <1>5 DEF SceneAnswer, ControllerAnswer
  <2>2. f.uid \in Accounts
    BY DEF SessionInv, SessionTypeOK, Fetches
  <2>3. UNCHANGED <<docs, prefs, given, other>>
    BY <1>5 DEF SceneAnswer, ControllerAnswer
  <2>4. PhoneStep
    BY <2>1, <2>3 DEF PhoneStep
  <2>5. QED BY <2>1, <2>2, <2>3, <2>4, DocumentStaysHome, QuietStaysHome
<1>6. CASE Logout \/ UserPressedRegister \/ HandleSkipLogin \/ GoBack \/ StartSignIn
  <2>1. PhoneStep /\ UNCHANGED docs /\ user' \in {user, None}
    BY <1>6 DEF Logout, UserPressedRegister, HandleSkipLogin, GoBack, StartSignIn,
           HandleLogin, HandleRegister, SignInSocial, Start,
                PhoneStep
  <2>2. QED BY <2>1, QuietStaysHome
<1>7. CASE SignInAnswers
  <2>1. flow.step # "none" => flow.uid \in Accounts
    BY FlowFields DEF SessionInv, SessionTypeOK
  <2>2. CASE SignInFails \/ SignedIn \/ AccountCreated \/ RegisterDone \/ SocialWritten
    <3>1. PhoneStep /\ UNCHANGED <<docs, user>>
      BY <2>2 DEF SignInFails, SignedIn, AccountCreated, RegisterDone, SocialWritten,
                  PhoneStep
    <3>2. QED BY <3>1, QuietStaysHome
  <2>3. CASE EmailRead \/ SocialReread
    <3>1. PhoneStep /\ UNCHANGED docs /\ flow.uid \in Accounts
      BY <2>1, <2>3 DEF EmailRead, SocialReread, At, PhoneStep
    <3>2. UNCHANGED user \/ (docs[flow.uid] # None /\ TakeDocument(flow.uid))
      BY <2>3 DEF EmailRead, SocialReread
    <3>3. QED BY <3>1, <3>2, QuietStaysHome, DocumentStaysHome
  <2>4. CASE Registered \/ SocialRead
    <3>1. flow.uid \in Accounts
      BY <2>1, <2>4 DEF Registered, SocialRead, At
    <3>2. CASE NewUser(flow.uid)
      <4>1. PhoneStep
        BY <2>4, <3>2 DEF Registered, SocialRead, NewUser, PhoneStep
      <4>2. QED BY <3>1, <3>2, <4>1, NewUserStaysHome
    <3>3. CASE /\ docs[flow.uid] # None /\ TakeDocument(flow.uid)
               /\ UNCHANGED <<savedVars, localUser, given, other>>
      <4>1. PhoneStep /\ UNCHANGED docs
        BY <3>3 DEF PhoneStep
      <4>2. QED BY <3>1, <3>3, <4>1, DocumentStaysHome
    <3>4. QED BY <2>4, <3>2, <3>3 DEF Registered, SocialRead
  <2>5. QED BY <1>7, <2>2, <2>3, <2>4 DEF SignInAnswers
<1>8. ASSUME NEW a \in Accounts, OtherLoads(a) PROVE VerdictsStayHome'
  BY <1>8 DEF OtherLoads, VerdictsStayHome
<1>9. ASSUME NEW m \in Movies, OtherJudges(m) PROVE VerdictsStayHome'
  <2>1. other \in Users
    BY <1>9 DEF OtherJudges, SessionInv, SessionTypeOK
  <2>2. /\ other.uid \in Owners /\ other'.uid = other.uid
        /\ other'.seen = other.seen \cup {m}
    BY <1>9, <2>1 DEF OtherJudges, Users, Owners
  <2>3. m \in given'[other.uid] /\ \A p \in Owners : given[p] \subseteq given'[p]
    BY <1>9, <2>2, HomeGiven DEF OtherJudges
  <2>4. UNCHANGED <<prefs, docs, user, localUser>>
    BY <1>9 DEF OtherJudges
  <2>5. user # None => user.uid \in Owners
    BY DEF SessionInv, SessionTypeOK, Users, Owners
  <2>6. other # None
    BY <1>9 DEF OtherJudges
  <2>7. QED BY <2>2, <2>3, <2>4, <2>5, <2>6 DEF VerdictsStayHome, Owners
<1>10. CASE OtherSaves
  <2>1. other.uid \in Accounts /\ other # None
    BY <1>10 DEF OtherSaves, SessionInv, SessionTypeOK, Users
  <2>2. /\ docs'[other.uid] = other.seen
        /\ \A a \in Accounts : a # other.uid => docs'[a] = docs[a]
    BY <1>10, <2>1 DEF OtherSaves, SessionInv, SessionTypeOK
  <2>3. UNCHANGED <<prefs, user, localUser, other, given>>
    BY <1>10 DEF OtherSaves
  <2>4. QED BY <2>1, <2>2, <2>3 DEF VerdictsStayHome
<1>11. QED
  BY SecondPhoneAssumption, <1>1, <1>2, <1>3, <1>4, <1>5,
     <1>6, <1>7, <1>8, <1>9, <1>10 DEF SessionNext

(* A verdict is filed with the owner it was given to and, once the owner   *)
(* of a phone has an account, with that account; never with another one.   *)
THEOREM SessionKeepsOwners == SessionSpec => []VerdictsStayHome
  BY SessionInvariant, HomeInit, HomeNext, PTL DEF SessionSpec

-----------------------------------------------------------------------------
(* As long as no second phone has a user the session implements           *)
(* VerdictStore.                                                           *)

OwnerStep(o) ==
    \/ Store!Keep(o) \/ Store!TakeVerdict(o) \/ Store!Load(o)
    \/ Store!Save(o) \/ Store!Close(o) \/ Store!Found(o)

LEMMA CopiesOf ==
    /\ Durable[Local] = prefs /\ Open[Local] = localUser
    /\ Durable'[Local] = prefs' /\ Open'[Local] = localUser'
    /\ \A a \in Accounts :
          /\ Durable[a] = docs[a] /\ Durable'[a] = docs'[a]
          /\ user = None \/ user.uid # a => Open[a] = None
          /\ user # None /\ user.uid = a => Open[a] = user.seen
          /\ user' = None \/ user'.uid # a => Open'[a] = None
          /\ user' # None /\ user'.uid = a => Open'[a] = user'.seen
BY LocalAssumption DEF Durable, Open, Owners

LEMMA CopiesTyped ==
    ASSUME SessionTypeOK
    PROVE  /\ Durable \in [Owners -> Copies]
           /\ Open \in [Owners -> Copies]
<1>1. user # None => user.seen \in SUBSET Movies
  BY DEF SessionTypeOK, Users
<1>2. QED BY <1>1 DEF SessionTypeOK, Durable, Open, Owners, Copies

LEMMA CopiesTypedNext ==
    ASSUME SessionTypeOK'
    PROVE  /\ Durable' \in [Owners -> Copies]
           /\ Open' \in [Owners -> Copies]
<1>1. user' # None => user'.seen \in SUBSET Movies
  BY DEF SessionTypeOK, Users
<1>2. QED BY <1>1 DEF SessionTypeOK, Durable, Open, Owners, Copies

LEMMA StoreStarts == SessionInit => Store!StoreInit
<1> SUFFICES ASSUME SessionInit PROVE Store!StoreInit
  OBVIOUS
<1>1. SessionTypeOK /\ user = None /\ localUser = prefs
  BY SessionInvInit DEF SessionInv, SessionInit, LaunchLocal
<1>2. \A o \in Owners : Open[o] \in {None, Durable[o]}
  BY <1>1 DEF Open, Durable
<1>3. QED BY <1>1, <1>2, CopiesTyped DEF Store!StoreInit, Store!Copies, Copies

(* The steps of the phone's own copies.                                    *)
LEMMA PhoneImplements ==
    ASSUME SessionInv,
           \/ localUser' \in {localUser, None, prefs} /\ prefs' = prefs
           \/ localUser' = localUser /\ localUser # None /\ prefs' = localUser
           \/ /\ localUser # None /\ prefs' = prefs
              /\ \E m \in Movies : localUser' = localUser \cup {m}
    PROVE  OwnerStep(Local)
<1>1. prefs # None
  BY NilAssumption DEF SessionInv, SessionTypeOK
<1>2. QED
  BY <1>1, CopiesOf
  DEF OwnerStep, Store!Keep, Store!TakeVerdict, Store!Load, Store!Save, Store!Close

(* The steps of the copies of the accounts, by what happens to the user.   *)
LEMMA QuietImplements ==
    ASSUME docs' = docs, user' \in {user, None}, NEW a \in Accounts
    PROVE  OwnerStep(a)
BY CopiesOf DEF OwnerStep, Store!Keep, Store!Close

LEMMA DocumentImplements ==
    ASSUME SessionInv, docs' = docs, NEW a \in Accounts,
           NEW uid \in Accounts, docs[uid] # None, TakeDocument(uid)
    PROVE  OwnerStep(a)
<1>1. user' # None /\ user'.uid = uid /\ user'.seen = docs[uid]
  BY DocumentTaken DEF SessionInv, SessionTypeOK
<1>2. CASE a = uid
  BY <1>1, <1>2, CopiesOf DEF OwnerStep, Store!Load
<1>3. CASE a # uid
  BY <1>1, <1>3, CopiesOf DEF OwnerStep, Store!Close
<1>4. QED BY <1>2, <1>3

LEMMA NewUserImplements ==
    ASSUME SessionInv, NEW a \in Accounts,
           NEW uid \in Accounts, docs[uid] = None, NewUser(uid)
    PROVE  OwnerStep(a)
<1>1. /\ user' # None /\ user'.uid = uid /\ user'.seen = LocalVerdicts
      /\ docs'[uid] \in {docs[uid], LocalVerdicts}
      /\ a # uid => docs'[a] = docs[a]
  BY UserFounded DEF SessionInv, SessionTypeOK
<1>2. CASE a = uid
  <2>1. a # Local
    BY LocalAssumption
  <2>2. Open'[a] = LocalVerdicts /\ Durable'[a] \in {None, LocalVerdicts}
    BY <1>1, <1>2, CopiesOf
  <2>3. LocalVerdicts = IF Open[Local] = None THEN {} ELSE Open[Local]
    BY CopiesOf DEF LocalVerdicts
  <2>4. Durable[a] = None
    BY <1>2, CopiesOf
  <2>5. QED BY <2>1, <2>2, <2>3, <2>4 DEF OwnerStep, Store!Found
<1>3. CASE a # uid
  BY <1>1, <1>3, CopiesOf DEF OwnerStep, Store!Close
<1>4. QED BY <1>2, <1>3

LEMMA SaveImplements ==
    ASSUME SessionInv, user' = user, user # None, NEW a \in Accounts,
           docs' = [docs EXCEPT ![user.uid] = user.seen]
    PROVE  OwnerStep(a)
<1>1. user.seen # None
  BY NilAssumption DEF SessionInv, SessionTypeOK, Users
<1>2. CASE a = user.uid
  BY <1>1, <1>2, CopiesOf DEF OwnerStep, Store!Save, SessionInv, SessionTypeOK
<1>3. CASE a # user.uid
  BY <1>3, CopiesOf DEF OwnerStep, Store!Keep, SessionInv, SessionTypeOK
<1>4. QED BY <1>2, <1>3

LEMMA JudgeImplements ==
    ASSUME SessionInv, NEW m \in Movies, docs' = docs, user # None,
           user' = [user EXCEPT !.seen = @ \cup {m}], NEW a \in Accounts
    PROVE  OwnerStep(a)
<1>1. user \in Users
  BY DEF SessionInv, SessionTypeOK
<1>2. /\ user'.uid = user.uid /\ user'.seen = user.seen \cup {m}
      /\ user' \in Users
  BY <1>1 DEF Users
<1>3. user' # None /\ user.seen # None
  BY <1>1, <1>2, NilAssumption DEF Users
<1>4. CASE a = user.uid
  BY <1>2, <1>3, <1>4, CopiesOf DEF OwnerStep, Store!TakeVerdict
<1>5. CASE a # user.uid
  BY <1>2, <1>5, CopiesOf DEF OwnerStep, Store!Keep
<1>6. QED BY <1>4, <1>5

(* A step of the second phone leaves it with a user.                       *)
OtherSteps ==
    \/ \E a \in Accounts : OtherLoads(a)
    \/ \E m \in Movies : OtherJudges(m)
    \/ OtherSaves

LEMMA OtherKnown == SessionInv /\ OtherSteps => other' # None
<1> SUFFICES ASSUME SessionInv, OtherSteps PROVE other' # None
  OBVIOUS
<1>1. ASSUME NEW a \in Accounts, OtherLoads(a) PROVE other' # None
  <2>1. docs[a] \in SUBSET Movies
    BY <1>1 DEF OtherLoads, SessionInv, SessionTypeOK, Copies
  <2>2. other' \in Users
    BY <1>1, <2>1 DEF OtherLoads, Users
  <2>3. QED BY <2>2, NilAssumption
<1>2. ASSUME NEW m \in Movies, OtherJudges(m) PROVE other' # None
  <2>1. other \in Users
    BY <1>2 DEF OtherJudges, SessionInv, SessionTypeOK
  <2>2. other' \in Users
    BY <1>2, <2>1 DEF OtherJudges, Users
  <2>3. QED BY <2>2, NilAssumption
<1>3. OtherSaves => other' # None
  BY DEF OtherSaves
<1>4. QED BY <1>1, <1>2, <1>3 DEF OtherSteps

LEMMA AloneBefore ==
    SessionInv /\ [SessionNext]_sessionVars /\ other' = None => other = None
<1> SUFFICES ASSUME SessionInv, SessionNext, other' = None, other # None PROVE FALSE
  BY DEF sessionVars
<1>1. ~OtherSteps
  BY OtherKnown
<1>2. SignInAnswers => UNCHANGED other
  BY DEF SignInAnswers, SignInFails, SignedIn, EmailRead, AccountCreated,
         Registered, RegisterDone, SocialRead, SocialWritten, SocialReread
<1>3. (\E m \in Movies : Judge(m)) => UNCHANGED other
  BY DEF Judge
<1>4. QED
  BY SecondPhoneAssumption, <1>1, <1>2, <1>3
  DEF SessionNext, OtherSteps, Relaunch, SaveUserDataOnExit, SceneAnswer,
      ControllerAnswer, Logout, UserPressedRegister, HandleSkipLogin, GoBack,
      StartSignIn, HandleLogin, HandleRegister, SignInSocial, Start

LEMMA OwnersStep ==
    ASSUME SessionInv, other' = None, SessionNext, NEW o \in Owners
    PROVE  OwnerStep(o)
<1> USE DEF authVars, savedVars, memoryVars
<1>1. o = Local \/ o \in Accounts
  BY DEF Owners
<1>2. CASE Relaunch
  <2>1. /\ UNCHANGED <<docs, prefs>> /\ user' = None
        /\ localUser' \in {localUser, None, prefs}
    BY <1>2 DEF Relaunch, LaunchLocal
  <2>2. QED BY <1>1, <2>1, PhoneImplements, QuietImplements
<1>3. ASSUME NEW m \in Movies, Judge(m) PROVE OwnerStep(o)
  <2>1. UNCHANGED <<docs, prefs>>
    BY <1>3 DEF Judge
  <2>2. CASE user # None /\ user' = [user EXCEPT !.seen = @ \cup {m}] /\ UNCHANGED localUser
    BY <1>1, <2>1, <2>2, PhoneImplements, JudgeImplements
  <2>3. CASE localUser # None /\ localUser' = localUser \cup {m} /\ UNCHANGED user
    BY <1>1, <2>1, <2>3, PhoneImplements, QuietImplements
  <2>4. QED BY <1>3, <2>2, <2>3 DEF Judge
<1>4. CASE SaveUserDataOnExit
  <2>1. /\ UNCHANGED <<user, localUser>>
        /\ prefs' = prefs \/ (localUser # None /\ prefs' = localUser)
    BY <1>4 DEF SaveUserDataOnExit, WriteLocal
  <2>2. OwnerStep(Local)
    BY <2>1, PhoneImplements
  <2>3. ASSUME o \in Accounts PROVE OwnerStep(o)
    <3>1. CASE user # None /\ docs' = [docs EXCEPT ![user.uid] = user.seen]
      BY <2>1, <2>3, <3>1, SaveImplements
    <3>2. CASE UNCHANGED docs
      BY <2>1, <2>3, <3>2, QuietImplements
    <3>3. QED BY <1>4, <3>1, <3>2 DEF SaveUserDataOnExit
  <2>4. QED BY <1>1, <2>2, <2>3
<1>5. CASE SceneAnswer \/ ControllerAnswer
  <2>1. PICK f \in fetches :
           \/ docs[f.uid] # None /\ TakeDocument(f.uid) /\ UNCHANGED localUser
           \/ localUser' \in {localUser, prefs} /\ UNCHANGED user
    BY <1>5 DEF SceneAnswer, ControllerAnswer
  <2>2. f.uid \in Accounts
    BY DEF SessionInv, SessionTypeOK, Fetches
  <2>3. UNCHANGED <<docs, prefs>>
    BY <1>5 DEF SceneAnswer, ControllerAnswer
  <2>4. OwnerStep(Local)
    BY <2>1, <2>3, PhoneImplements
  <2>5. ASSUME o \in Accounts PROVE OwnerStep(o)
    BY <2>1, <2>2, <2>3, <2>5, DocumentImplements, QuietImplements
  <2>6. QED BY <1>1, <2>4, <2>5
<1>6. CASE Logout \/ UserPressedRegister \/ HandleSkipLogin \/ GoBack \/ StartSignIn
  <2>1. /\ UNCHANGED <<docs, prefs>> /\ user' \in {user, None}
        /\ localUser' \in {localUser, None, prefs}
    BY <1>6 DEF Logout, UserPressedRegister, HandleSkipLogin, GoBack, StartSignIn,
           HandleLogin, HandleRegister, SignInSocial, Start
  <2>2. QED BY <1>1, <2>1, PhoneImplements, QuietImplements
<1>7. CASE SignInAnswers
  <2>1. flow.step # "none" => flow.uid \in Accounts
    BY FlowFields DEF SessionInv, SessionTypeOK
  <2>2. UNCHANGED <<prefs, localUser>>
    BY <1>7 DEF SignInAnswers, SignInFails, SignedIn, EmailRead, AccountCreated,
       Registered, RegisterDone, SocialRead, SocialWritten, SocialReread, NewUser
  <2>3. OwnerStep(Local)
    BY <2>2, PhoneImplements
  <2>4. ASSUME o \in Accounts PROVE OwnerStep(o)
    <3>1. CASE SignInFails \/ SignedIn \/ AccountCreated \/ RegisterDone \/ SocialWritten
      <4>1. UNCHANGED <<docs, user>>
        BY <3>1 DEF SignInFails, SignedIn, AccountCreated, RegisterDone, SocialWritten
      <4>2. QED BY <2>4, <4>1, QuietImplements
    <3>2. CASE EmailRead \/ SocialReread
      <4>1. UNCHANGED docs /\ flow.uid \in Accounts
        BY <2>1, <3>2 DEF EmailRead, SocialReread, At
      <4>2. UNCHANGED user \/ (docs[flow.uid] # None /\ TakeDocument(flow.uid))
        BY <3>2 DEF EmailRead, SocialReread
      <4>3. QED BY <2>4, <4>1, <4>2, QuietImplements, DocumentImplements
    <3>3. CASE Registered
      <4>1. flow.uid \in Accounts /\ docs[flow.uid] = None /\ NewUser(flow.uid)
        BY <2>1, <3>3 DEF Registered, At, SessionInv, NewAccountIsNew
      <4>2. QED BY <2>4, <4>1, NewUserImplements
    <3>4. CASE SocialRead
      <4>1. flow.uid \in Accounts
        BY <2>1, <3>4 DEF SocialRead, At
      <4>2. \/ docs[flow.uid] # None /\ TakeDocument(flow.uid) /\ UNCHANGED docs
            \/ docs[flow.uid] = None /\ NewUser(flow.uid)
        BY <3>4 DEF SocialRead
      <4>3. QED BY <2>4, <4>1, <4>2, DocumentImplements, NewUserImplements
    <3>5. QED BY <1>7, <3>1, <3>2, <3>3, <3>4 DEF SignInAnswers
  <2>5. QED BY <1>1, <2>3, <2>4
<1>8. CASE OtherSteps
  BY <1>8, OtherKnown
<1>9. QED
  BY SecondPhoneAssumption, <1>2, <1>3, <1>4, <1>5, <1>6, <1>7, <1>8
  DEF SessionNext, OtherSteps

LEMMA StoreSteps ==
    SessionInv /\ [SessionNext]_sessionVars =>
        [other' = None => Store!StoreNext]_(Store!storeVars)
<1> SUFFICES ASSUME SessionInv, [SessionNext]_sessionVars, other' = None
             PROVE  [Store!StoreNext]_(Store!storeVars)
  OBVIOUS
<1>1. CASE UNCHANGED sessionVars
  BY <1>1 DEF sessionVars, Store!storeVars, Durable, Open
<1>2. CASE SessionNext
  <2>1. SessionTypeOK'
    BY <1>2, SessionInvNext DEF SessionInv
  <2>2. /\ Durable' \in [Owners -> Copies]
        /\ Open' \in [Owners -> Copies]
    BY <2>1, CopiesTypedNext
  <2>3. \A o \in Owners : OwnerStep(o)
    BY <1>2, OwnersStep
  <2>4. QED BY <2>2, <2>3 DEF Store!StoreNext, Store!Copies, Copies, OwnerStep
<1>3. QED BY <1>1, <1>2

(* Until a second phone has a user, every answer, save, sign-in and restart*)
(* is a step the abstract store allows.                                    *)
THEOREM SessionKeepsVerdicts == SessionSpec => KeepsVerdicts
<1>1. SessionInit => Store!StoreInit
  BY StoreStarts
<1>2. SessionInv /\ [SessionNext]_sessionVars =>
        [other' = None => Store!StoreNext]_(Store!storeVars)
  BY StoreSteps
<1>3. QED
  BY <1>1, <1>2, SessionInvariant, PTL DEF SessionSpec, KeepsVerdicts

(* The store keeps what was saved: because an open copy always has grown   *)
(* from the durable copy, no save can take a verdict away.                 *)
OpenHasDurable ==
    /\ Durable \in [Owners -> Store!Copies]
    /\ Open \in [Owners -> Store!Copies]
    /\ \A o \in Owners :
          Open[o] # None /\ Durable[o] # None => Durable[o] \subseteq Open[o]

LEMMA OpenHasDurableInit == Store!StoreInit => OpenHasDurable
  BY DEF Store!StoreInit, OpenHasDurable, Store!Copies

LEMMA OpenHasDurableNext ==
    OpenHasDurable /\ [Store!StoreNext]_(Store!storeVars) => OpenHasDurable'
<1> SUFFICES ASSUME OpenHasDurable, [Store!StoreNext]_(Store!storeVars) PROVE OpenHasDurable'
  OBVIOUS
<1>1. CASE UNCHANGED (Store!storeVars)
  BY <1>1 DEF Store!storeVars, OpenHasDurable
<1>2. CASE Store!StoreNext
  <2>1. /\ Durable' \in [Owners -> Store!Copies]
        /\ Open' \in [Owners -> Store!Copies]
    BY <1>2 DEF Store!StoreNext
  <2>2. ASSUME NEW o \in Owners, Open'[o] # None, Durable'[o] # None
        PROVE  Durable'[o] \subseteq Open'[o]
    <3>1. \/ Store!Keep(o) \/ Store!TakeVerdict(o) \/ Store!Load(o)
          \/ Store!Save(o) \/ Store!Close(o) \/ Store!Found(o)
      BY <1>2 DEF Store!StoreNext
    <3>2. CASE Store!Keep(o)
      BY <2>2, <3>2 DEF Store!Keep, OpenHasDurable
    <3>3. CASE Store!TakeVerdict(o)
      BY <2>2, <3>3 DEF Store!TakeVerdict, OpenHasDurable
    <3>4. CASE Store!Load(o)
      BY <3>4 DEF Store!Load
    <3>5. CASE Store!Save(o)
      BY <3>5 DEF Store!Save
    <3>6. CASE Store!Close(o)
      BY <2>2, <3>6 DEF Store!Close
    <3>7. CASE Store!Found(o)
      BY <2>2, <3>7 DEF Store!Found
    <3>8. QED BY <3>1, <3>2, <3>3, <3>4, <3>5, <3>6, <3>7
  <2>3. QED BY <2>1, <2>2 DEF OpenHasDurable
<1>3. QED BY <1>1, <1>2

(* What a save writes contains what was saved before, for every owner and  *)
(* whatever the other owners do in the same step.                          *)
SavedKept ==
    \A o \in Owners : Durable[o] # None =>
        Durable'[o] # None /\ Durable[o] \subseteq Durable'[o]

LEMMA StepKeepsSaved == OpenHasDurable /\ [Store!StoreNext]_(Store!storeVars) => SavedKept
<1>1. ASSUME OpenHasDurable, [Store!StoreNext]_(Store!storeVars),
             NEW o \in Owners, Durable[o] # None
      PROVE  Durable'[o] # None /\ Durable[o] \subseteq Durable'[o]
  <2>1. CASE UNCHANGED (Store!storeVars)
    BY <1>1, <2>1 DEF Store!storeVars
  <2>2. CASE Store!StoreNext
    <3>1. \/ Store!Keep(o) \/ Store!TakeVerdict(o) \/ Store!Load(o)
          \/ Store!Save(o) \/ Store!Close(o) \/ Store!Found(o)
      BY <2>2 DEF Store!StoreNext
    <3>2. CASE Store!Save(o)
      BY <1>1, <3>2 DEF Store!Save, OpenHasDurable
    <3>3. CASE Store!Keep(o) \/ Store!TakeVerdict(o) \/ Store!Load(o) \/ Store!Close(o)
      BY <1>1, <3>3 DEF Store!Keep, Store!TakeVerdict, Store!Load, Store!Close
    <3>4. CASE Store!Found(o)
      BY <1>1, <3>4 DEF Store!Found
    <3>5. QED BY <3>1, <3>2, <3>3, <3>4
  <2>3. QED BY <1>1, <2>1, <2>2
<1>2. QED BY <1>1 DEF SavedKept

KeptAlone == other = None => OpenHasDurable

LEMMA KeptAloneInit == SessionInit => KeptAlone
  BY StoreStarts, OpenHasDurableInit DEF KeptAlone

LEMMA KeptAloneNext ==
    SessionInv /\ KeptAlone /\ [SessionNext]_sessionVars =>
        KeptAlone' /\ (other' = None => SavedKept)
<1> SUFFICES ASSUME SessionInv, KeptAlone, [SessionNext]_sessionVars, other' = None
             PROVE  OpenHasDurable' /\ SavedKept
  BY DEF KeptAlone
<1>1. [Store!StoreNext]_(Store!storeVars)
  BY StoreSteps
<1>2. other = None
  BY AloneBefore
<1>3. OpenHasDurable
  BY <1>2 DEF KeptAlone
<1>4. QED BY <1>1, <1>3, OpenHasDurableNext, StepKeepsSaved

(* Until a second phone has a user, a document or a list in UserDefaults   *)
(* never loses a verdict it once had: what StepKeepsSaved says of a store  *)
(* holds of the app.                                                       *)
THEOREM SavedVerdictsStay ==
    SessionSpec =>
        [][ other' = None => \A o \in Owners : Durable[o] # None =>
               Durable'[o] # None /\ Durable[o] \subseteq Durable'[o] ]_sessionVars
<1>1. SessionInv /\ KeptAlone /\ [SessionNext]_sessionVars =>
        /\ KeptAlone'
        /\ [other' = None => \A o \in Owners : Durable[o] # None =>
               Durable'[o] # None /\ Durable[o] \subseteq Durable'[o]]_sessionVars
  BY KeptAloneNext DEF SavedKept
<1>2. QED BY <1>1, SessionInvariant, KeptAloneInit, PTL DEF SessionSpec

-----------------------------------------------------------------------------
(* Where a sign-in stands: it never goes back, and never waits in vain.    *)

LEMMA LeftAt ==
    /\ flow.step = "auth" => AnswersLeft = 4
    /\ flow.step \in {"created", "read"} => AnswersLeft = 3
    /\ flow.step \in {"written", "refused"} => AnswersLeft = 2
    /\ flow.step = "reread" => AnswersLeft = 1
    /\ flow.step = "none" => AnswersLeft = 0
BY DEF AnswersLeft

LEMMA LeftAtNext ==
    /\ flow'.step \in {"created", "read"} => AnswersLeft' = 3
    /\ flow'.step \in {"written", "refused"} => AnswersLeft' = 2
    /\ flow'.step = "reread" => AnswersLeft' = 1
    /\ flow'.step = "none" => AnswersLeft' = 0
BY DEF AnswersLeft

(* An answer of Firebase ends the sign-in or takes it on to the next step  *)
(* of its kind.                                                            *)
LEMMA AnswerMoves ==
    ASSUME SessionInv, SignInAnswers
    PROVE  /\ flow \in Flows
           /\ \/ flow' = NoFlow
              \/ /\ flow'.kind = flow.kind
                 /\ \/ At("email", "auth") /\ flow'.step = "read"
                    \/ At("social", "auth") /\ flow'.step = "read"
                    \/ At("register", "auth") /\ flow'.step = "created"
                    \/ At("register", "created") /\ flow'.step \in {"written", "refused"}
                    \/ At("social", "read") /\ flow'.step \in {"written", "refused", "reread"}
                    \/ At("social", "written") /\ flow'.step = "reread"
<1>1. flow.step # "none"
  BY DEF SignInAnswers, SignInFails, SignedIn, EmailRead, AccountCreated, Registered,
         RegisterDone, SocialRead, SocialWritten, SocialReread, At
<1>2. flow \in Flows
  BY <1>1, FlowFields DEF SessionInv, SessionTypeOK
<1>3. ASSUME NEW s, GoTo(s) PROVE flow'.kind = flow.kind /\ flow'.step = s
  BY <1>2, <1>3 DEF GoTo, Flows
<1>4. ASSUME ReadAgain
      PROVE  flow' = NoFlow \/ (flow'.kind = flow.kind /\ flow'.step = "reread")
  BY <1>2, <1>4 DEF ReadAgain, Flows
<1>5. CASE SignInFails \/ EmailRead \/ RegisterDone \/ SocialReread
  BY <1>2, <1>5 DEF SignInFails, EmailRead, RegisterDone, SocialReread,
     AuthenticationComplete
<1>6. CASE SignedIn \/ AccountCreated \/ Registered
  BY <1>2, <1>3, <1>6 DEF SignedIn, AccountCreated, Registered, NewUser
<1>7. CASE SocialRead \/ SocialWritten
  BY <1>2, <1>3, <1>4, <1>7 DEF SocialRead, SocialWritten, NewUser
<1>8. QED BY <1>5, <1>6, <1>7 DEF SignInAnswers

LEMMA AnswerLowers ==
    ASSUME SessionInv, SignInAnswers
    PROVE  AnswersLeft' < AnswersLeft
<1>1. flow.step # "none"
  BY DEF SignInAnswers, SignInFails, SignedIn, EmailRead, AccountCreated, Registered,
         RegisterDone, SocialRead, SocialWritten, SocialReread, At
<1>2. NoFlow.step = "none"
  BY DEF NoFlow
<1>3. CASE flow' = NoFlow
  <2>1. AnswersLeft' = 0
    BY <1>2, <1>3, LeftAtNext
  <2>2. flow.step \in {"auth", "created", "read", "written", "refused", "reread"}
    BY <1>1, AnswerMoves DEF Flows
  <2>3. QED BY <2>1, <2>2, LeftAt
<1>4. QED BY <1>3, AnswerMoves, LeftAt, LeftAtNext DEF At

(* Every other step leaves the sign-in, ends it, or begins one.            *)
LEMMA OtherStepsLeave ==
    ASSUME SessionInv, [SessionNext]_sessionVars, ~ SignInAnswers
    PROVE  \/ flow' \in {flow, NoFlow}
           \/ flow \in Flows /\ flow' = [flow EXCEPT !.shown = FALSE]
           \/ flow = NoFlow /\ flow'.step = "auth"
<1> USE DEF authVars, savedVars, memoryVars, sessionVars
<1>1. CASE GoBack
  <2>1. NoFlow.shown = FALSE
    BY DEF NoFlow
  <2>2. flow # NoFlow
    BY <1>1, <2>1, Zenon DEF GoBack
  <2>3. QED BY <1>1, <2>2 DEF GoBack, SessionInv, SessionTypeOK
<1>2. CASE StartSignIn
  BY <1>2 DEF StartSignIn, HandleLogin, HandleRegister, SignInSocial, Start
<1>3. CASE ~ GoBack /\ ~ StartSignIn
  BY <1>3 DEF SessionNext, Relaunch, Judge, SaveUserDataOnExit, SceneAnswer,
     ControllerAnswer, Logout, UserPressedRegister, HandleSkipLogin, OtherLoads,
     OtherJudges, OtherSaves
<1>4. QED BY <1>1, <1>2, <1>3

LEMMA SignInStep ==
    SessionInv /\ [SessionNext]_sessionVars =>
        /\ SignInAnswers => AnswersLeft' < AnswersLeft
        /\ flow # NoFlow => AnswersLeft' <= AnswersLeft
<1> SUFFICES ASSUME SessionInv, [SessionNext]_sessionVars
             PROVE  /\ SignInAnswers => AnswersLeft' < AnswersLeft
                    /\ flow # NoFlow => AnswersLeft' <= AnswersLeft
  OBVIOUS
<1>1. AnswersLeft \in Nat
  BY DEF AnswersLeft
<1>2. AnswersLeft' \in Nat
  BY DEF AnswersLeft
<1>3. ASSUME ~ SignInAnswers, flow # NoFlow PROVE AnswersLeft' <= AnswersLeft
  <2>1. CASE flow' = NoFlow
    <3>1. AnswersLeft' = 0
      BY <2>1, LeftAtNext DEF NoFlow
    <3>2. QED BY <1>1, <3>1
  <2>2. CASE flow'.step = flow.step
    BY <1>1, <2>2 DEF AnswersLeft
  <2>3. flow' = NoFlow \/ flow'.step = flow.step
    BY <1>3, OtherStepsLeave DEF Flows
  <2>4. QED BY <2>1, <2>2, <2>3
<1>4. QED BY <1>1, <1>2, <1>3, AnswerLowers

(* A sign-in never makes a request a second time: each answer takes it on  *)
(* by at least one of the four it can wait for, and no other step takes it *)
(* back.                                                                   *)
THEOREM SignInsAdvance == SessionSpec => SignInAdvances
<1>1. SessionInv /\ [SessionNext]_sessionVars =>
        [ /\ SignInAnswers => AnswersLeft' < AnswersLeft
          /\ flow # NoFlow => AnswersLeft' <= AnswersLeft ]_sessionVars
  BY SignInStep
<1>2. QED BY <1>1, SessionInvariant, PTL DEF SessionSpec, SignInAdvances

LEMMA AnsweredStep ==
    SessionInv /\ SignInIsAnswered /\ [SessionNext]_sessionVars => SignInIsAnswered'
<1> SUFFICES ASSUME SessionInv, SignInIsAnswered, [SessionNext]_sessionVars
             PROVE  SignInIsAnswered'
  OBVIOUS
<1>1. CASE flow' = NoFlow
  BY <1>1 DEF SignInIsAnswered
<1>2. CASE SignInAnswers
  BY <1>1, <1>2, AnswerMoves DEF SignInIsAnswered, At
<1>3. CASE ~ SignInAnswers
  <2>1. CASE flow' = flow
    BY <2>1 DEF SignInIsAnswered
  <2>2. CASE flow \in Flows /\ flow' = [flow EXCEPT !.shown = FALSE]
    <3>1. flow'.kind = flow.kind /\ flow'.step = flow.step /\ flow.step # "none"
      BY <2>2 DEF Flows
    <3>2. flow # NoFlow
      BY <3>1 DEF NoFlow
    <3>3. QED BY <3>1, <3>2 DEF SignInIsAnswered
  <2>3. CASE flow'.step = "auth"
    BY <2>3 DEF SignInIsAnswered
  <2>4. QED BY <1>1, <1>3, <2>1, <2>2, <2>3, OtherStepsLeave
<1>4. QED BY <1>2, <1>3

(* A sign-in in flight always waits for an answer that its kind knows what *)
(* to do with.                                                             *)
THEOREM SignInsAreAnswered == SessionSpec => []SignInIsAnswered
<1>1. SessionInit => SignInIsAnswered
  BY DEF SessionInit, SignInIsAnswered
<1>2. QED BY <1>1, AnsweredStep, SessionInvariant, PTL DEF SessionSpec
=============================================================================

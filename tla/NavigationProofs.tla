--------------------------- MODULE NavigationProofs ---------------------------
(***************************************************************************)
(* For any number of accounts, names and sign-ins: a user without a name   *)
(* is asked for one, names stay and clash only with later ones, and the    *)
(* answers of sign-ins close only the login, each with the exceptions      *)
(* Navigation names.                                                       *)
(***************************************************************************)
EXTENDS Navigation, TLAPS

LEMMA NoneIsNobody ==
    /\ None \notin Accounts /\ None \notin Users
    /\ Unnamed \notin Names /\ None \notin Names \cup {Unnamed}
  BY AccountsAssumption, UnnamedAssumption

(* Typing, by the parts that go together.                                  *)
AccountsTyped ==
    /\ auth \in Accounts \cup {None} /\ registered \subseteq Accounts
    /\ names \in [Accounts -> Names \cup {Unnamed, None}]
    /\ skippedLogin \in BOOLEAN
    /\ user \in Users \cup {None}
    /\ allUsers \in {None} \cup SUBSET Names

RequestsTyped ==
    /\ requests \subseteq {Configure, FetchAllUsers}
                         \cup ({"scene", "controller"} \X Accounts)
    /\ signIns \subseteq SignIns

ScreensTyped ==
    /\ presented \in {"nothing", "closing", "login", "username", "alert"} \cup Screens
    /\ form \in BOOLEAN /\ (form => presented = "login")
    /\ after \in {"none", "asks", "login"} /\ (after # "none" => presented = "closing")
    /\ loginDue \in BOOLEAN

HistoryTyped ==
    /\ asked \in Accounts \cup {None} /\ late \subseteq Accounts
    /\ unasked \in BOOLEAN /\ overlap \in BOOLEAN

(* stale apart, which no action of this phone sets.                        *)
HereTyped == AccountsTyped /\ RequestsTyped /\ ScreensTyped /\ HistoryTyped

LEMMA TypeParts ==
    /\ NavTypeOK <=> HereTyped /\ stale \in BOOLEAN
    /\ NavTypeOK' <=> HereTyped' /\ stale' \in BOOLEAN
    /\ HereTyped <=> AccountsTyped /\ RequestsTyped /\ ScreensTyped /\ HistoryTyped
    /\ HereTyped' <=>
         AccountsTyped' /\ RequestsTyped' /\ ScreensTyped' /\ HistoryTyped'
  BY DEF NavTypeOK, HereTyped, AccountsTyped, RequestsTyped, ScreensTyped, HistoryTyped

LEMMA DocumentTyped ==
    ASSUME HereTyped, NEW uid \in Accounts, names[uid] # None
    PROVE  /\ Document(uid) \in Users /\ Document(uid) # None
           /\ Document(uid).uid = uid /\ Document(uid).name = names[uid]
<1>1. names[uid] \in Names \cup {Unnamed}
  BY DEF HereTyped, AccountsTyped
<1>2. Document(uid) \in Users
  BY <1>1 DEF Document, Users
<1>3. QED BY <1>2, NoneIsNobody DEF Document

LEMMA DocumentIsUser ==
    ASSUME NavTypeOK, NEW uid \in Accounts, names[uid] # None
    PROVE  /\ Document(uid) \in Users /\ Document(uid) # None
           /\ Document(uid).uid = uid /\ Document(uid).name = names[uid]
  BY TypeParts, DocumentTyped

LEMMA InitTyped == NavInit => NavTypeOK
<1> SUFFICES ASSUME NavInit PROVE NavTypeOK
  OBVIOUS
<1>1. AccountsTyped
  BY DEF NavInit, AccountsTyped
<1>2. RequestsTyped
  BY DEF NavInit, RequestsTyped, LaunchRequests
<1>3. ScreensTyped /\ HistoryTyped
  BY DEF NavInit, ScreensTyped, HistoryTyped, Screens
<1>4. stale \in BOOLEAN
  BY DEF NavInit
<1>5. QED BY <1>1, <1>2, <1>3, <1>4, TypeParts

(* A sign-in goes on as a sign-in, and forgets its form as one.            *)
LEMMA SignInGoesOn ==
    ASSUME NEW s \in SignIns
    PROVE  /\ \A t \in {"auth", "created", "read", "written", "refused", "reread"} :
                 [s EXCEPT !.step = t] \in SignIns
           /\ \A a \in Accounts : [s EXCEPT !.uid = a, !.step = "reread"] \in SignIns
           /\ [s EXCEPT !.shown = FALSE] \in SignIns
           /\ s.uid \in Accounts
  BY DEF SignIns

LEMMA CompleteTyped ==
    ASSUME ScreensTyped, NEW sis \in SUBSET SignIns, AuthenticationComplete(sis),
           unasked \in BOOLEAN, overlap \in BOOLEAN, loginDue' = loginDue
    PROVE  /\ ScreensTyped' /\ signIns' \subseteq SignIns
           /\ unasked' \in BOOLEAN /\ overlap' \in BOOLEAN
<1>1. ScreensTyped'
  <2>1. CASE Close("asks")
    BY <2>1 DEF Close, ScreensTyped
  <2>2. CASE UNCHANGED screenVars
    BY <2>2 DEF screenVars, ScreensTyped
  <2>3. QED BY <2>1, <2>2 DEF AuthenticationComplete
<1>2. signIns' \subseteq SignIns
  BY SignInGoesOn DEF AuthenticationComplete
<1>3. unasked' \in BOOLEAN /\ overlap' \in BOOLEAN
  BY DEF AuthenticationComplete
<1>4. QED BY <1>1, <1>2, <1>3

LEMMA AskTyped ==
    ASSUME ScreensTyped, HistoryTyped, NEW u \in Users \cup {None}, AskUsername(u),
           UNCHANGED <<form, after, loginDue, late, overlap>>
    PROVE  ScreensTyped' /\ HistoryTyped'
<1>1. ScreensTyped'
  BY DEF AskUsername, Present, ScreensTyped
<1>2. Nameless(u) => u.uid \in Accounts
  BY DEF Nameless, Users
<1>3. HistoryTyped'
  BY <1>2 DEF AskUsername, AskedFor, HistoryTyped
<1>4. QED BY <1>1, <1>3

LEMMA NewUserTyped ==
    ASSUME AccountsTyped, RequestsTyped, NEW s \in signIns, NewUser(s),
           UNCHANGED <<registered, skippedLogin, allUsers, requests>>,
           auth' \in {auth, s.uid}
    PROVE  AccountsTyped' /\ RequestsTyped'
<1>1. s \in SignIns /\ s.uid \in Accounts
  BY SignInGoesOn DEF RequestsTyped
<1>2. user' \in Users
  BY <1>1 DEF NewUser, Users
<1>3. names' \in [Accounts -> Names \cup {Unnamed, None}]
  BY <1>1 DEF NewUser, AccountsTyped
<1>4. signIns' \subseteq SignIns
  BY <1>1, SignInGoesOn DEF NewUser, GoOn, Rest, RequestsTyped
<1>5. QED BY <1>1, <1>2, <1>3, <1>4 DEF AccountsTyped, RequestsTyped

LEMMA ReadAgainTyped ==
    ASSUME AccountsTyped, signIns \subseteq SignIns, NEW s \in signIns, ReadAgain(s)
    PROVE  signIns' \subseteq SignIns /\ unasked' \in {unasked, TRUE}
<1>1. s \in SignIns
  OBVIOUS
<1>2. auth # None => [s EXCEPT !.uid = auth, !.step = "reread"] \in SignIns
  BY <1>1, SignInGoesOn DEF AccountsTyped
<1>3. QED BY <1>2 DEF ReadAgain, Rest

-----------------------------------------------------------------------------
(* Each action keeps the types.                                            *)

LEMMA LaunchTyped ==
    ASSUME HereTyped,
           \/ Relaunch \/ ConfigureUser \/ AllUsersAnswer
           \/ \E a \in Accounts : SceneAnswer(a) \/ ControllerAnswer(a)
    PROVE  HereTyped'
<1> USE TypeParts
<1>1. CASE Relaunch
  <2>1. AccountsTyped' /\ RequestsTyped'
    BY <1>1 DEF Relaunch, LaunchRequests, AccountsTyped, RequestsTyped, accountVars
  <2>2. ScreensTyped' /\ HistoryTyped'
    BY <1>1 DEF Relaunch, ScreensTyped, HistoryTyped, accountVars
  <2>3. QED BY <2>1, <2>2
<1>2. CASE ConfigureUser
  <2>1. AccountsTyped'
    BY <1>2 DEF ConfigureUser, AccountsTyped, accountVars
  <2>2. RequestsTyped'
    BY <1>2 DEF ConfigureUser, AccountsTyped, RequestsTyped
  <2>3. ScreensTyped' /\ HistoryTyped'
    <3>1. CASE AskUsername(user) /\ loginDue' = loginDue
      BY <1>2, <3>1, AskTyped DEF ConfigureUser, AccountsTyped
    <3>2. CASE UNCHANGED <<presented, asked>>
      <4>1. Nameless(user) \in BOOLEAN
        BY DEF Nameless
      <4>2. \/ unasked' = Nameless(user) \/ unasked' = unasked
            \/ unasked' = (Nameless(user) /\ presented # "nothing")
        BY <1>2, Zenon DEF ConfigureUser, AskUsername
      <4>3. loginDue' = ~skippedLogin \/ loginDue' = loginDue
        BY <1>2 DEF ConfigureUser
      <4>4. unasked' \in BOOLEAN
        BY <4>1, <4>2 DEF HistoryTyped
      <4>5. loginDue' \in BOOLEAN
        BY <4>3 DEF ScreensTyped
      <4>6. QED BY <1>2, <3>2, <4>4, <4>5 DEF ConfigureUser, ScreensTyped, HistoryTyped
    <3>3. QED BY <1>2, <3>1, <3>2 DEF ConfigureUser
  <2>4. QED BY <2>1, <2>2, <2>3
<1>3. CASE AllUsersAnswer
  <2>1. AccountsTyped' /\ RequestsTyped'
    BY <1>3 DEF AllUsersAnswer, AccountsTyped, RequestsTyped, accountVars
  <2>2. ScreensTyped' /\ HistoryTyped'
    BY <1>3 DEF AllUsersAnswer, ScreensTyped, HistoryTyped, screenVars, history
  <2>3. QED BY <2>1, <2>2
<1>4. ASSUME NEW a \in Accounts, SceneAnswer(a) PROVE HereTyped'
  <2>1. AccountsTyped' /\ RequestsTyped'
    BY <1>4, DocumentTyped DEF SceneAnswer, AccountsTyped, RequestsTyped, accountVars
  <2>2. unasked' \in BOOLEAN
    BY <1>4 DEF SceneAnswer, Nameless, HistoryTyped
  <2>3. ScreensTyped' /\ HistoryTyped'
    BY <1>4, <2>2 DEF SceneAnswer, ScreensTyped, HistoryTyped, screenVars
  <2>4. QED BY <2>1, <2>3
<1>5. ASSUME NEW a \in Accounts, ControllerAnswer(a) PROVE HereTyped'
  <2>1. AccountsTyped' /\ RequestsTyped'
    BY <1>5, DocumentTyped
    DEF ControllerAnswer, AccountsTyped, RequestsTyped, accountVars
  <2>2. ScreensTyped' /\ HistoryTyped'
    <3>1. CASE names[a] # None /\ AskUsername(Document(a))
      BY <1>5, <3>1, DocumentTyped, AskTyped DEF ControllerAnswer
    <3>2. CASE UNCHANGED <<presented, asked, unasked>>
      BY <1>5, <3>2 DEF ControllerAnswer, ScreensTyped, HistoryTyped
    <3>3. CASE Present("alert") /\ unasked' = TRUE /\ UNCHANGED asked
      BY <1>5, <3>3 DEF ControllerAnswer, Present, ScreensTyped, HistoryTyped
    <3>4. QED BY <1>5, <3>1, <3>2, <3>3 DEF ControllerAnswer
  <2>3. QED BY <2>1, <2>2
<1>6. QED BY <1>1, <1>2, <1>3, <1>4, <1>5

LEMMA ScreenStepTyped ==
    ASSUME HereTyped,
           \/ OpenScreen \/ ShowAlert \/ LoginBlock \/ CloseScreen \/ Dismissed
           \/ UserPressedRegister \/ Logout \/ ToggleForm
    PROVE  HereTyped'
<1> USE TypeParts
<1>1. AccountsTyped'
  BY DEF OpenScreen, ShowAlert, Show, LoginBlock, CloseScreen, Dismissed,
         UserPressedRegister, Logout, ToggleForm, AccountsTyped, accountVars
<1>2. RequestsTyped'
  <2>1. CASE ToggleForm
    BY <2>1, SignInGoesOn DEF ToggleForm, RequestsTyped
  <2>2. CASE ~ ToggleForm
    BY <2>2 DEF OpenScreen, ShowAlert, Show, LoginBlock, CloseScreen, Dismissed,
                UserPressedRegister, Logout, RequestsTyped
  <2>3. QED BY <2>1, <2>2
<1>3. ScreensTyped'
  <2>1. CASE OpenScreen \/ ShowAlert \/ LoginBlock
    <3>1. PICK s \in Screens \cup {"alert", "login"} : Present(s)
      BY <2>1 DEF OpenScreen, ShowAlert, Show, LoginBlock
    <3>2. /\ UNCHANGED <<form, after>>
          /\ loginDue' \in {FALSE, loginDue}
      BY <2>1 DEF OpenScreen, ShowAlert, Show, LoginBlock
    <3>3. QED BY <3>1, <3>2 DEF Present, ScreensTyped
  <2>2. CASE CloseScreen
    BY <2>2 DEF CloseScreen, Close, ScreensTyped
  <2>3. CASE Dismissed
    BY <2>3 DEF Dismissed, ScreensTyped
  <2>4. CASE UserPressedRegister \/ Logout
    <3>1. UNCHANGED <<presented, form, after>> /\ loginDue' = TRUE
      BY <2>4 DEF UserPressedRegister, Logout, screenVars
    <3>2. QED BY <3>1 DEF ScreensTyped
  <2>5. CASE ToggleForm
    BY <2>5 DEF ToggleForm, AtLogin, ScreensTyped
  <2>6. QED BY <2>1, <2>2, <2>3, <2>4, <2>5
<1>4. HistoryTyped'
  <2>1. CASE Dismissed
    <3>1. Nameless(user) => user.uid \in Accounts
      BY DEF Nameless, AccountsTyped, Users
    <3>2. QED BY <2>1, <3>1 DEF Dismissed, AskedFor, HistoryTyped
  <2>2. CASE ~ Dismissed
    BY <2>2 DEF OpenScreen, ShowAlert, Show, LoginBlock, CloseScreen,
                UserPressedRegister, Logout, ToggleForm, history, HistoryTyped
  <2>3. QED BY <2>1, <2>2
<1>5. QED BY <1>1, <1>2, <1>3, <1>4

LEMMA SignInTyped ==
    ASSUME HereTyped, SignInAnswers
    PROVE  HereTyped'
<1>1. PICK s \in signIns :
         \/ SignInFails(s) \/ SignedIn(s) \/ EmailRead(s)
         \/ AccountCreated(s) \/ Registered(s) \/ RegisterDone(s)
         \/ SocialRead(s) \/ SocialWritten(s) \/ SocialReread(s)
  BY DEF SignInAnswers
<1>2. s \in SignIns /\ s.uid \in Accounts /\ Rest(s) \in SUBSET SignIns
  BY SignInGoesOn, TypeParts DEF RequestsTyped, Rest
<1>3. AccountsTyped /\ RequestsTyped /\ ScreensTyped /\ HistoryTyped
  BY TypeParts
<1>4. CASE SignInFails(s)
  <2>1. AccountsTyped' /\ RequestsTyped'
    BY <1>2, <1>3, <1>4 DEF SignInFails, AccountsTyped, RequestsTyped, accountVars
  <2>2. ScreensTyped' /\ HistoryTyped'
    BY <1>3, <1>4 DEF SignInFails, ScreensTyped, HistoryTyped
  <2>3. QED BY <2>1, <2>2, TypeParts
<1>5. CASE SignedIn(s) \/ AccountCreated(s)
  <2>1. AccountsTyped'
    BY <1>2, <1>3, <1>5 DEF SignedIn, AccountCreated, AccountsTyped
  <2>2. RequestsTyped'
    BY <1>2, <1>3, <1>5, SignInGoesOn
    DEF SignedIn, AccountCreated, GoOn, Rest, RequestsTyped
  <2>3. ScreensTyped' /\ HistoryTyped'
    BY <1>3, <1>5 DEF SignedIn, AccountCreated, ScreensTyped, HistoryTyped,
                      screenVars, history
  <2>4. QED BY <2>1, <2>2, <2>3, TypeParts
<1>6. CASE EmailRead(s)
  <2>1. AccountsTyped'
    BY <1>2, <1>3, <1>6, DocumentTyped DEF EmailRead, AccountsTyped, accountVars
  <2>2. CASE AuthenticationComplete(Rest(s))
    BY <1>2, <1>3, <1>6, <2>1, <2>2, CompleteTyped, TypeParts
    DEF EmailRead, RequestsTyped, HistoryTyped
  <2>3. CASE signIns' = Rest(s) /\ UNCHANGED <<user, screenVars, unasked, overlap>>
    <3>1. RequestsTyped'
      BY <1>2, <1>3, <1>6, <2>3 DEF EmailRead, RequestsTyped
    <3>2. ScreensTyped' /\ HistoryTyped'
      BY <1>3, <1>6, <2>3 DEF EmailRead, ScreensTyped, HistoryTyped, screenVars
    <3>3. QED BY <2>1, <3>1, <3>2, TypeParts
  <2>4. QED BY <1>6, <2>2, <2>3 DEF EmailRead
<1>7. CASE Registered(s)
  <2>1. AccountsTyped' /\ RequestsTyped'
    BY <1>3, <1>7, NewUserTyped DEF Registered
  <2>2. ScreensTyped' /\ HistoryTyped'
    BY <1>3, <1>7 DEF Registered, ScreensTyped, HistoryTyped, screenVars, history
  <2>3. QED BY <2>1, <2>2, TypeParts
<1>8. CASE RegisterDone(s)
  <2>1. AccountsTyped'
    BY <1>3, <1>8 DEF RegisterDone, AccountsTyped, accountVars
  <2>2. CASE AuthenticationComplete(Rest(s))
    BY <1>2, <1>3, <1>8, <2>1, <2>2, CompleteTyped, TypeParts
    DEF RegisterDone, RequestsTyped, HistoryTyped
  <2>3. CASE signIns' = Rest(s) /\ unasked' = TRUE /\ UNCHANGED <<screenVars, overlap>>
    <3>1. RequestsTyped'
      BY <1>2, <1>3, <1>8, <2>3 DEF RegisterDone, RequestsTyped
    <3>2. ScreensTyped' /\ HistoryTyped'
      BY <1>3, <1>8, <2>3 DEF RegisterDone, ScreensTyped, HistoryTyped, screenVars
    <3>3. QED BY <2>1, <3>1, <3>2, TypeParts
  <2>4. QED BY <1>8, <2>2, <2>3 DEF RegisterDone
<1>9. CASE SocialRead(s)
  <2>1. ScreensTyped'
    BY <1>3, <1>9 DEF SocialRead, ScreensTyped, screenVars
  <2>2. CASE names[s.uid] # None /\ user' = Document(s.uid) /\ ReadAgain(s)
             /\ UNCHANGED names
    <3>1. AccountsTyped'
      BY <1>2, <1>3, <1>9, <2>2, DocumentTyped DEF SocialRead, AccountsTyped
    <3>2. signIns' \subseteq SignIns /\ unasked' \in {unasked, TRUE}
      BY <1>3, <2>2, ReadAgainTyped DEF RequestsTyped
    <3>3. RequestsTyped' /\ HistoryTyped'
      BY <1>3, <1>9, <3>2 DEF SocialRead, RequestsTyped, HistoryTyped
    <3>4. QED BY <2>1, <3>1, <3>3, TypeParts
  <2>3. CASE NewUser(s) /\ UNCHANGED unasked
    <3>1. AccountsTyped' /\ RequestsTyped'
      BY <1>3, <1>9, <2>3, NewUserTyped DEF SocialRead
    <3>2. HistoryTyped'
      BY <1>3, <1>9, <2>3 DEF SocialRead, HistoryTyped
    <3>3. QED BY <2>1, <3>1, <3>2, TypeParts
  <2>4. QED BY <1>9, <2>2, <2>3 DEF SocialRead
<1>10. CASE SocialWritten(s)
  <2>1. AccountsTyped' /\ ScreensTyped'
    BY <1>3, <1>10
    DEF SocialWritten, AccountsTyped, ScreensTyped, accountVars, screenVars
  <2>2. signIns' \subseteq SignIns /\ unasked' \in {unasked, TRUE}
    BY <1>3, <1>10, ReadAgainTyped DEF SocialWritten, RequestsTyped
  <2>3. RequestsTyped' /\ HistoryTyped'
    BY <1>3, <1>10, <2>2 DEF SocialWritten, RequestsTyped, HistoryTyped
  <2>4. QED BY <2>1, <2>3, TypeParts
<1>11. CASE SocialReread(s)
  <2>1. AccountsTyped'
    BY <1>2, <1>3, <1>11, DocumentTyped DEF SocialReread, AccountsTyped, accountVars
  <2>2. QED
    BY <1>2, <1>3, <1>11, <2>1, CompleteTyped, TypeParts
    DEF SocialReread, RequestsTyped, HistoryTyped
<1>12. QED BY <1>1, <1>4, <1>5, <1>6, <1>7, <1>8, <1>9, <1>10, <1>11

LEMMA RestTyped ==
    ASSUME HereTyped,
           \/ HandleSkipLogin \/ SaveUserDataOnExit
           \/ \E a \in Accounts, k \in {"email", "register", "social"} :
                 StartSignIn(a, k)
           \/ \E n \in Names : HandleSelectUsername(n)
           \/ \E p \in Accounts, n \in Names : OtherChooses(p, n)
    PROVE  HereTyped'
<1>1. AccountsTyped /\ RequestsTyped /\ ScreensTyped /\ HistoryTyped
  BY TypeParts
<1>2. CASE HandleSkipLogin
  <2>1. AccountsTyped'
    BY <1>1, <1>2 DEF HandleSkipLogin, AccountsTyped
  <2>2. QED
    BY <1>1, <1>2, <2>1, CompleteTyped, TypeParts
    DEF HandleSkipLogin, RequestsTyped, HistoryTyped
<1>3. CASE SaveUserDataOnExit
  <2>1. user # None => user.uid \in Accounts /\ user.name \in Names \cup {Unnamed}
    BY <1>1 DEF AccountsTyped, Users
  <2>2. AccountsTyped' /\ RequestsTyped'
    BY <1>1, <1>3, <2>1 DEF SaveUserDataOnExit, AccountsTyped, RequestsTyped
  <2>3. ScreensTyped' /\ HistoryTyped'
    BY <1>1, <1>3
    DEF SaveUserDataOnExit, ScreensTyped, HistoryTyped, screenVars, history
  <2>4. QED BY <2>2, <2>3, TypeParts
<1>4. ASSUME NEW a \in Accounts, NEW k \in {"email", "register", "social"},
             StartSignIn(a, k)
      PROVE  HereTyped'
  <2>1. form \in BOOLEAN
    BY <1>1 DEF ScreensTyped
  <2>2. [uid |-> a, kind |-> k, step |-> "auth", shown |-> form] \in SignIns
    BY <2>1 DEF SignIns
  <2>3. AccountsTyped' /\ RequestsTyped'
    BY <1>1, <1>4, <2>2 DEF StartSignIn, AccountsTyped, RequestsTyped, accountVars
  <2>4. ScreensTyped' /\ HistoryTyped'
    BY <1>1, <1>4 DEF StartSignIn, ScreensTyped, HistoryTyped, screenVars, history
  <2>5. QED BY <2>3, <2>4, TypeParts
<1>5. ASSUME NEW n \in Names, HandleSelectUsername(n) PROVE HereTyped'
  <2>1. user' \in Users \cup {None}
    BY <1>1, <1>5 DEF HandleSelectUsername, UpdateUsername, AccountsTyped, Users
  <2>2. user # None => user.uid \in Accounts
    BY <1>1 DEF AccountsTyped, Users
  <2>3. AccountsTyped' /\ RequestsTyped'
    BY <1>1, <1>5, <2>1, <2>2
    DEF HandleSelectUsername, UpdateUsername, AccountsTyped, RequestsTyped
  <2>4. ScreensTyped' /\ HistoryTyped'
    BY <1>1, <1>5, <2>2 DEF HandleSelectUsername, Close, ScreensTyped, HistoryTyped
  <2>5. QED BY <2>3, <2>4, TypeParts
<1>6. ASSUME NEW p \in Accounts, NEW n \in Names, OtherChooses(p, n) PROVE HereTyped'
  <2>1. AccountsTyped' /\ RequestsTyped'
    BY <1>1, <1>6 DEF OtherChooses, AccountsTyped, RequestsTyped
  <2>2. ScreensTyped' /\ HistoryTyped'
    BY <1>1, <1>6 DEF OtherChooses, ScreensTyped, HistoryTyped, screenVars
  <2>3. QED BY <2>1, <2>2, TypeParts
<1>7. QED BY <1>2, <1>3, <1>4, <1>5, <1>6

LEMMA StepTyped == NavTypeOK /\ [NavNext]_navVars => NavTypeOK'
<1> SUFFICES ASSUME NavTypeOK, [NavNext]_navVars PROVE NavTypeOK'
  OBVIOUS
<1>1. CASE NavNext
  <2>1. HereTyped'
    BY <1>1, TypeParts, LaunchTyped, ScreenStepTyped, SignInTyped, RestTyped
    DEF NavNext, Here
  <2>2. stale' \in BOOLEAN
    BY <1>1, Zenon DEF NavNext, Outdated
  <2>3. QED BY <2>1, <2>2, TypeParts
<1>2. CASE UNCHANGED navVars
  BY <1>2 DEF navVars, accountVars, screenVars, history, NavTypeOK
<1>3. QED BY <1>1, <1>2

(* Every variable keeps its type, whatever answers arrive in which order.  *)
THEOREM NavTypes == NavSpec => []NavTypeOK
<1>1. NavInit => NavTypeOK
  BY InitTyped
<1>2. NavTypeOK /\ [NavNext]_navVars => NavTypeOK'
  BY StepTyped
<1>3. QED BY <1>1, <1>2, PTL DEF NavSpec

-----------------------------------------------------------------------------
(* A user without a name is asked for one.                                 *)

AnswerAsks == \E s \in signIns : s.step \in {"written", "refused", "reread"}

(* authenticationComplete asks, or cannot ask.                             *)
LEMMA CompletionAsks ==
    ASSUME NEW sis, AuthenticationComplete(sis)
    PROVE  NamelessIsAsked'
  BY DEF AuthenticationComplete, Close, NamelessIsAsked

LEMMA NewUserIsAsked ==
    ASSUME RequestsTyped, NEW s \in signIns, NewUser(s)
    PROVE  NamelessIsAsked'
<1>1. PICK t \in {"written", "refused"} : GoOn(s, t)
  BY DEF NewUser
<1>2. [s EXCEPT !.step = t] \in signIns' /\ [s EXCEPT !.step = t].step = t
  BY <1>1 DEF GoOn, RequestsTyped, SignIns
<1>3. QED BY <1>2 DEF NamelessIsAsked

LEMMA ReadAgainAsks ==
    ASSUME AccountsTyped, RequestsTyped, NEW s \in signIns, ReadAgain(s)
    PROVE  NamelessIsAsked'
<1>1. CASE auth # None /\ [s EXCEPT !.uid = auth, !.step = "reread"] \in signIns'
  <2>1. [s EXCEPT !.uid = auth, !.step = "reread"].step = "reread"
    BY DEF RequestsTyped, SignIns
  <2>2. QED BY <1>1, <2>1 DEF NamelessIsAsked
<1>2. CASE unasked' = TRUE
  BY <1>2 DEF NamelessIsAsked
<1>3. QED BY <1>1, <1>2 DEF ReadAgain

(* presentUsernameSelectionView presents the screen, or is refused.        *)
LEMMA QuestionAsks ==
    ASSUME ScreensTyped, AskUsername(user')
    PROVE  NamelessIsAsked'
<1>1. CASE Nameless(user')
  BY <1>1 DEF AskUsername, Present, NamelessIsAsked
<1>2. CASE ~ Nameless(user')
  BY <1>2 DEF NamelessIsAsked
<1>3. QED BY <1>1, <1>2

(* A sign-in that asks goes on to ask, as long as it is not the one that   *)
(* answers.                                                                *)
LEMMA OthersStillAsk ==
    ASSUME RequestsTyped, NamelessIsAsked, NEW s \in signIns,
           s.step \in {"auth", "created", "read"}, Rest(s) \subseteq signIns',
           UNCHANGED <<user, presented, after>>, unasked => unasked'
    PROVE  NamelessIsAsked'
<1> SUFFICES ASSUME Nameless(user), presented # "username", ~unasked', after # "asks"
             PROVE  AnswerAsks'
  BY DEF NamelessIsAsked, AnswerAsks, Nameless
<1>1. PICK t \in signIns : t.step \in {"written", "refused", "reread"}
  BY DEF NamelessIsAsked
<1>2. t \in Rest(s)
  BY <1>1 DEF Rest
<1>3. QED BY <1>1, <1>2 DEF AnswerAsks

LEMMA AskedLaunch ==
    ASSUME NavTypeOK, NamelessIsAsked,
           \/ Relaunch \/ ConfigureUser \/ AllUsersAnswer
           \/ \E a \in Accounts : SceneAnswer(a) \/ ControllerAnswer(a)
    PROVE  NamelessIsAsked'
<1>1. CASE Relaunch
  BY <1>1 DEF Relaunch, NamelessIsAsked, Nameless
<1>2. CASE ConfigureUser
  <2>1. CASE user # None /\ AskUsername(user)
    BY <1>2, <2>1, QuestionAsks, TypeParts DEF ConfigureUser
  <2>2. CASE user # None /\ unasked' = Nameless(user)
    BY <1>2, <2>2 DEF ConfigureUser, NamelessIsAsked, Nameless
  <2>3. CASE user = None
    BY <1>2, <2>3 DEF ConfigureUser, NamelessIsAsked, Nameless
  <2>4. QED BY <1>2, <2>1, <2>2, <2>3 DEF ConfigureUser
<1>3. CASE AllUsersAnswer
  BY <1>3 DEF AllUsersAnswer, NamelessIsAsked, Nameless, screenVars, history
<1>4. ASSUME NEW a \in Accounts, SceneAnswer(a) PROVE NamelessIsAsked'
  <2>1. CASE unasked' = Nameless(user')
    BY <2>1 DEF NamelessIsAsked
  <2>2. CASE UNCHANGED <<user, unasked>>
    BY <1>4, <2>2 DEF SceneAnswer, NamelessIsAsked, Nameless, screenVars
  <2>3. QED BY <1>4, <2>1, <2>2 DEF SceneAnswer
<1>5. ASSUME NEW a \in Accounts, ControllerAnswer(a) PROVE NamelessIsAsked'
  <2>1. CASE user' = Document(a) /\ AskUsername(Document(a))
    <3>1. AskUsername(user')
      BY <2>1
    <3>2. QED BY <3>1, QuestionAsks, TypeParts
  <2>2. CASE UNCHANGED <<user, presented, asked, unasked>>
    BY <1>5, <2>2 DEF ControllerAnswer, NamelessIsAsked, Nameless
  <2>3. CASE unasked' = TRUE
    BY <2>3 DEF NamelessIsAsked
  <2>4. QED BY <1>5, <2>1, <2>2, <2>3 DEF ControllerAnswer
<1>6. QED BY <1>1, <1>2, <1>3, <1>4, <1>5

LEMMA AskedScreens ==
    ASSUME NavTypeOK, NamelessIsAsked,
           \/ OpenScreen \/ ShowAlert \/ LoginBlock \/ CloseScreen \/ Dismissed
           \/ UserPressedRegister \/ Logout \/ ToggleForm
    PROVE  NamelessIsAsked'
<1>1. CASE OpenScreen \/ ShowAlert \/ LoginBlock
  <2>1. /\ presented = "username" => presented' = "username"
        /\ UNCHANGED <<user, signIns, after, unasked>>
    BY <1>1 DEF OpenScreen, ShowAlert, Show, LoginBlock, Present, history
  <2>2. QED BY <2>1 DEF NamelessIsAsked, Nameless
<1>2. CASE CloseScreen
  <2>1. presented # "username" /\ after # "asks"
    BY <1>2, TypeParts DEF CloseScreen, Screens, ScreensTyped
  <2>2. UNCHANGED <<user, signIns, unasked>>
    BY <1>2 DEF CloseScreen, history
  <2>3. QED BY <2>1, <2>2 DEF NamelessIsAsked, Nameless
<1>3. CASE Dismissed
  BY <1>3 DEF Dismissed, NamelessIsAsked, Nameless
<1>4. CASE UserPressedRegister
  BY <1>4 DEF UserPressedRegister, NamelessIsAsked, Nameless, screenVars, history
<1>5. CASE Logout
  BY <1>5 DEF Logout, NamelessIsAsked, Nameless
<1>6. CASE ToggleForm
  <2>1. AnswerAsks => AnswerAsks'
    <3>1. SUFFICES ASSUME NEW s \in signIns,
                          s.step \in {"written", "refused", "reread"}
                   PROVE  AnswerAsks'
      BY DEF AnswerAsks
    <3>2. s \in SignIns
      BY TypeParts DEF RequestsTyped
    <3>3. [s EXCEPT !.shown = FALSE] \in signIns'
      BY <1>6 DEF ToggleForm
    <3>4. [s EXCEPT !.shown = FALSE].step = s.step
      BY <3>2 DEF SignIns
    <3>5. QED BY <3>1, <3>3, <3>4 DEF AnswerAsks
  <2>2. UNCHANGED <<user, presented, after, unasked>>
    BY <1>6 DEF ToggleForm, history
  <2>3. QED BY <2>1, <2>2 DEF NamelessIsAsked, AnswerAsks, Nameless
<1>7. QED BY <1>1, <1>2, <1>3, <1>4, <1>5, <1>6

LEMMA AskedSignIns ==
    ASSUME NavTypeOK, NamelessIsAsked, SignInAnswers
    PROVE  NamelessIsAsked'
<1>1. PICK s \in signIns :
         \/ SignInFails(s) \/ SignedIn(s) \/ EmailRead(s)
         \/ AccountCreated(s) \/ Registered(s) \/ RegisterDone(s)
         \/ SocialRead(s) \/ SocialWritten(s) \/ SocialReread(s)
  BY DEF SignInAnswers
<1>2. AccountsTyped /\ RequestsTyped /\ ScreensTyped /\ HistoryTyped
  BY TypeParts
<1>3. CASE SignInFails(s)
  <2>1. CASE s.step = "refused"
    BY <1>3, <2>1 DEF SignInFails, NamelessIsAsked
  <2>2. CASE s.step # "refused"
    BY <1>2, <1>3, <2>2, OthersStillAsk DEF SignInFails
  <2>3. QED BY <2>1, <2>2
<1>4. CASE SignedIn(s) \/ AccountCreated(s)
  <2>1. /\ s.step = "auth" /\ Rest(s) \subseteq signIns'
        /\ UNCHANGED <<user, presented, after, unasked>>
    BY <1>4 DEF SignedIn, AccountCreated, GoOn, screenVars, history
  <2>2. QED BY <1>2, <2>1, OthersStillAsk
<1>5. CASE EmailRead(s)
  <2>1. CASE AuthenticationComplete(Rest(s))
    BY <2>1, CompletionAsks
  <2>2. CASE signIns' = Rest(s) /\ UNCHANGED <<user, screenVars, unasked, overlap>>
    <3>1. s.step = "read" /\ UNCHANGED <<user, presented, after, unasked>>
      BY <1>5, <2>2 DEF EmailRead, screenVars
    <3>2. QED BY <1>2, <2>2, <3>1, OthersStillAsk
  <2>3. QED BY <1>5, <2>1, <2>2 DEF EmailRead
<1>6. CASE Registered(s)
  BY <1>2, <1>6, NewUserIsAsked DEF Registered
<1>7. CASE RegisterDone(s)
  BY <1>7, CompletionAsks DEF RegisterDone, NamelessIsAsked
<1>8. CASE SocialRead(s)
  BY <1>2, <1>8, NewUserIsAsked, ReadAgainAsks DEF SocialRead
<1>9. CASE SocialWritten(s)
  BY <1>2, <1>9, ReadAgainAsks DEF SocialWritten
<1>10. CASE SocialReread(s)
  BY <1>10, CompletionAsks DEF SocialReread
<1>11. QED BY <1>1, <1>3, <1>4, <1>5, <1>6, <1>7, <1>8, <1>9, <1>10

LEMMA AskedRest ==
    ASSUME NavTypeOK, NamelessIsAsked,
           \/ HandleSkipLogin \/ SaveUserDataOnExit
           \/ \E a \in Accounts, k \in {"email", "register", "social"} :
                 StartSignIn(a, k)
           \/ \E n \in Names : HandleSelectUsername(n)
           \/ \E p \in Accounts, n \in Names : OtherChooses(p, n)
    PROVE  NamelessIsAsked'
<1>1. CASE HandleSkipLogin
  BY <1>1, CompletionAsks DEF HandleSkipLogin
<1>2. CASE SaveUserDataOnExit
  BY <1>2 DEF SaveUserDataOnExit, NamelessIsAsked, Nameless, screenVars, history
<1>3. ASSUME NEW a \in Accounts, NEW k \in {"email", "register", "social"},
             StartSignIn(a, k)
      PROVE  NamelessIsAsked'
  <2>1. signIns \subseteq signIns' /\ UNCHANGED <<user, presented, after, unasked>>
    BY <1>3 DEF StartSignIn, screenVars, history
  <2>2. QED BY <2>1 DEF NamelessIsAsked, Nameless
<1>4. ASSUME NEW n \in Names, HandleSelectUsername(n) PROVE NamelessIsAsked'
  <2>1. user' = None \/ user'.name = n
    BY <1>4, TypeParts
    DEF HandleSelectUsername, UpdateUsername, AccountsTyped, Users
  <2>2. QED BY <2>1, NoneIsNobody DEF NamelessIsAsked, Nameless
<1>5. ASSUME NEW p \in Accounts, NEW n \in Names, OtherChooses(p, n)
      PROVE  NamelessIsAsked'
  BY <1>5 DEF OtherChooses, NamelessIsAsked, Nameless, screenVars
<1>6. QED BY <1>1, <1>2, <1>3, <1>4, <1>5

(* A user without a name is being asked, or is about to be, unless UIKit   *)
(* refused the question, an answer failed, or nobody was to ask it.        *)
THEOREM NamelessAsked == NavSpec => []NamelessIsAsked
<1>1. NavInit => NamelessIsAsked
  BY DEF NavInit, NamelessIsAsked, Nameless
<1>2. NavTypeOK /\ NamelessIsAsked /\ [NavNext]_navVars => NamelessIsAsked'
  <2> SUFFICES ASSUME NavTypeOK, NamelessIsAsked, [NavNext]_navVars
               PROVE  NamelessIsAsked'
    OBVIOUS
  <2>1. CASE NavNext
    BY <2>1, AskedLaunch, AskedScreens, AskedSignIns, AskedRest DEF NavNext, Here
  <2>2. CASE UNCHANGED navVars
    BY <2>2 DEF navVars, screenVars, history, NamelessIsAsked, Nameless
  <2>3. QED BY <2>1, <2>2
<1>3. QED BY <1>1, <1>2, NavTypes, PTL DEF NavSpec

-----------------------------------------------------------------------------
(* Sign-ins are in flight at the login, unless it was left with one.       *)

SignInsAtLogin == signIns # {} => AtLogin \/ overlap

(* What presents a screen leaves the login where it is.                    *)
LEMMA QuietAtLogin ==
    ASSUME SignInsAtLogin, signIns' \subseteq signIns \/ signIns # {},
           AtLogin => AtLogin', overlap => overlap'
    PROVE  SignInsAtLogin'
  BY DEF SignInsAtLogin

LEMMA CompleteAtLogin ==
    ASSUME NEW sis, AuthenticationComplete(sis)
    PROVE  SignInsAtLogin'
<1>1. signIns' # {} => sis # {}
  BY DEF AuthenticationComplete
<1>2. QED BY <1>1 DEF AuthenticationComplete, SignInsAtLogin

LEMMA AnswersAtLogin ==
    ASSUME SignInsAtLogin, SignInAnswers
    PROVE  SignInsAtLogin'
<1>1. PICK s \in signIns :
         \/ SignInFails(s) \/ SignedIn(s) \/ EmailRead(s)
         \/ AccountCreated(s) \/ Registered(s) \/ RegisterDone(s)
         \/ SocialRead(s) \/ SocialWritten(s) \/ SocialReread(s)
  BY DEF SignInAnswers
<1>2. CASE AuthenticationComplete(Rest(s))
  BY <1>2, CompleteAtLogin
<1>3. CASE UNCHANGED <<presented, overlap>>
  BY <1>1, <1>3 DEF SignInsAtLogin, AtLogin
<1>4. CASE SignInFails(s) \/ SignedIn(s) \/ AccountCreated(s) \/ Registered(s)
           \/ SocialRead(s) \/ SocialWritten(s)
  BY <1>3, <1>4 DEF SignInFails, SignedIn, AccountCreated, Registered, SocialRead,
                    SocialWritten, screenVars, history
<1>5. CASE EmailRead(s) \/ RegisterDone(s) \/ SocialReread(s)
  BY <1>2, <1>3, <1>5 DEF EmailRead, RegisterDone, SocialReread, screenVars
<1>6. QED BY <1>1, <1>4, <1>5

LEMMA AtLoginStep == SignInsAtLogin /\ [NavNext]_navVars => SignInsAtLogin'
<1> SUFFICES ASSUME SignInsAtLogin, [NavNext]_navVars PROVE SignInsAtLogin'
  OBVIOUS
<1>1. CASE Relaunch
  BY <1>1 DEF Relaunch, SignInsAtLogin
<1>2. CASE ConfigureUser
  BY <1>2, QuietAtLogin DEF ConfigureUser, AskUsername, Present, AtLogin
<1>3. CASE AllUsersAnswer
  BY <1>3, QuietAtLogin DEF AllUsersAnswer, AtLogin, screenVars, history
<1>4. ASSUME NEW a \in Accounts, SceneAnswer(a) PROVE SignInsAtLogin'
  BY <1>4, QuietAtLogin DEF SceneAnswer, AtLogin, screenVars
<1>5. ASSUME NEW a \in Accounts, ControllerAnswer(a) PROVE SignInsAtLogin'
  BY <1>5, QuietAtLogin DEF ControllerAnswer, AskUsername, Present, AtLogin
<1>6. CASE OpenScreen \/ ShowAlert \/ LoginBlock
  BY <1>6, QuietAtLogin
  DEF OpenScreen, ShowAlert, Show, LoginBlock, Present, AtLogin, history
<1>7. CASE CloseScreen \/ Dismissed
  BY <1>7, QuietAtLogin DEF CloseScreen, Dismissed, AtLogin, Screens, history
<1>8. CASE UserPressedRegister \/ Logout
  BY <1>8, QuietAtLogin DEF UserPressedRegister, Logout, AtLogin, screenVars, history
<1>9. CASE HandleSkipLogin
  BY <1>9, CompleteAtLogin DEF HandleSkipLogin
<1>10. CASE ToggleForm
  BY <1>10 DEF ToggleForm, SignInsAtLogin, AtLogin
<1>11. ASSUME NEW a \in Accounts, NEW k \in {"email", "register", "social"},
              StartSignIn(a, k)
       PROVE  SignInsAtLogin'
  BY <1>11 DEF StartSignIn, SignInsAtLogin, AtLogin, screenVars
<1>12. CASE SignInAnswers
  BY <1>12, AnswersAtLogin
<1>13. ASSUME NEW n \in Names, HandleSelectUsername(n) PROVE SignInsAtLogin'
  BY <1>13, QuietAtLogin DEF HandleSelectUsername, AtLogin
<1>14. CASE SaveUserDataOnExit
  BY <1>14, QuietAtLogin DEF SaveUserDataOnExit, AtLogin, screenVars, history
<1>15. ASSUME NEW p \in Accounts, NEW n \in Names, OtherChooses(p, n)
       PROVE  SignInsAtLogin'
  BY <1>15, QuietAtLogin DEF OtherChooses, AtLogin, screenVars
<1>16. CASE UNCHANGED navVars
  BY <1>16, QuietAtLogin DEF navVars, AtLogin, screenVars, history
<1>17. QED BY <1>1, <1>2, <1>3, <1>4, <1>5, <1>6, <1>7, <1>8, <1>9, <1>10, <1>11,
              <1>12, <1>13, <1>14, <1>15, <1>16 DEF NavNext, Here

(* authenticationComplete dismisses whatever is presented, but as long as  *)
(* the login was not left with a sign-in in flight that is the login.      *)
THEOREM AnswersCloseTheLogin == NavSpec => AnswersCloseLogin
<1>1. NavInit => SignInsAtLogin
  BY DEF NavInit, SignInsAtLogin
<1>2. SignInsAtLogin /\ [NavNext]_navVars =>
         [ presented \notin {"login", "nothing"} /\ presented' = "closing"
           /\ presented # "closing" /\ signIns' # signIns => overlap ]_navVars
  <2> SUFFICES ASSUME SignInsAtLogin, NavNext, ~AtLogin, presented # "closing",
                      presented' = "closing", signIns' # signIns, signIns = {}
               PROVE  FALSE
    BY DEF SignInsAtLogin, AtLogin
  <2>1. ~SignInAnswers /\ ~Relaunch
    BY DEF SignInAnswers, Relaunch
  <2>2. ~HandleSkipLogin /\ ~ToggleForm
    BY DEF HandleSkipLogin, ToggleForm
  <2>3. \A a \in Accounts, k \in {"email", "register", "social"} : ~StartSignIn(a, k)
    BY DEF StartSignIn
  <2>4. QED
    BY <2>1, <2>2, <2>3
    DEF NavNext, Here, ConfigureUser, AllUsersAnswer, SceneAnswer, ControllerAnswer,
        OpenScreen, ShowAlert, Show, LoginBlock, CloseScreen, Dismissed,
        UserPressedRegister, Logout, HandleSelectUsername, SaveUserDataOnExit,
        OtherChooses
<1>3. QED BY <1>1, <1>2, AtLoginStep, PTL DEF NavSpec, AnswersCloseLogin

-----------------------------------------------------------------------------
(* Clashes of names are with names chosen after the users were fetched.    *)

(* The users are fetched once.                                             *)
FetchedOnce == allUsers # None => FetchAllUsers \notin requests

(* A name that is not in the list was chosen after it.                     *)
ListedOrLate ==
    \A p \in Accounts : allUsers # None /\ names[p] \in Names =>
        names[p] \in allUsers \/ p \in late

(* The name in memory is the document's, or was chosen in this launch, and *)
(* then whoever has it as well chose it later than the list.               *)
NameInMemory ==
    user # None /\ user.name \in Names /\ names[user.uid] # user.name =>
        /\ user.uid \in late /\ allUsers # None
        /\ \A p \in Accounts \ {user.uid} : names[p] = user.name => p \in late

LateInv == FetchedOnce /\ ListedOrLate /\ NameInMemory

(* What changes neither the names nor the list, and at most reads a        *)
(* document.                                                               *)
Quiet ==
    /\ UNCHANGED <<names, allUsers, late>>
    /\ FetchAllUsers \in requests' => FetchAllUsers \in requests
    /\ \/ user' \in {user, None}
       \/ \E a \in Accounts : names[a] # None /\ user' = Document(a)

LEMMA QuietKeeps ==
    ASSUME NavTypeOK, LateInv, Quiet
    PROVE  LateInv'
<1>1. FetchedOnce'
  BY DEF LateInv, Quiet, FetchedOnce
<1>2. ListedOrLate'
  BY DEF LateInv, Quiet, ListedOrLate
<1>3. NameInMemory'
  <2>1. CASE user' \in {user, None}
    BY <2>1 DEF LateInv, Quiet, NameInMemory
  <2>2. ASSUME NEW a \in Accounts, names[a] # None, user' = Document(a)
        PROVE  NameInMemory'
    BY <2>2, DocumentIsUser DEF Quiet, NameInMemory
  <2>3. QED BY <2>1, <2>2 DEF Quiet
<1>4. QED BY <1>1, <1>2, <1>3 DEF LateInv

(* A new user's document has no name.                                      *)
NewDocument ==
    /\ UNCHANGED <<allUsers, late, requests>>
    /\ \E s \in signIns : NewUser(s)

LEMMA NewDocumentKeeps ==
    ASSUME NavTypeOK, LateInv, NewDocument
    PROVE  LateInv'
<1>1. PICK s \in signIns : NewUser(s)
  BY DEF NewDocument
<1>2. user' # None /\ user'.name = Unnamed
  <2>1. s.uid \in Accounts
    BY TypeParts, SignInGoesOn DEF RequestsTyped
  <2>2. user' = [uid |-> s.uid, name |-> Unnamed] /\ user' \in Users
    BY <1>1, <2>1 DEF NewUser, Users
  <2>3. QED BY <2>2, NoneIsNobody
<1>3. FetchedOnce' /\ NameInMemory'
  BY <1>2, NoneIsNobody DEF NewDocument, LateInv, FetchedOnce, NameInMemory
<1>4. \A p \in Accounts : names'[p] \in {names[p], Unnamed}
  BY <1>1 DEF NewUser, NavTypeOK
<1>5. ListedOrLate'
  BY <1>4, NoneIsNobody DEF NewDocument, LateInv, ListedOrLate
<1>6. QED BY <1>3, <1>5 DEF LateInv

(* Only these steps change a name or the list.                             *)
LEMMA SignInsAreQuiet ==
    ASSUME NavTypeOK, SignInAnswers
    PROVE  Quiet \/ NewDocument
<1>1. PICK s \in signIns :
         \/ SignInFails(s) \/ SignedIn(s) \/ EmailRead(s)
         \/ AccountCreated(s) \/ Registered(s) \/ RegisterDone(s)
         \/ SocialRead(s) \/ SocialWritten(s) \/ SocialReread(s)
  BY DEF SignInAnswers
<1>2. s.uid \in Accounts
  BY TypeParts, SignInGoesOn DEF RequestsTyped
<1>3. CASE SignInFails(s) \/ SignedIn(s) \/ AccountCreated(s) \/ RegisterDone(s)
           \/ SocialWritten(s)
  BY <1>3 DEF SignInFails, SignedIn, AccountCreated, RegisterDone, SocialWritten,
              Quiet, accountVars, history
<1>4. CASE Registered(s)
  BY <1>4 DEF Registered, NewDocument, history
<1>5. CASE SocialRead(s)
  BY <1>2, <1>5 DEF SocialRead, NewDocument, Quiet
<1>6. CASE EmailRead(s) \/ SocialReread(s)
  BY <1>2, <1>6 DEF EmailRead, SocialReread, Quiet, accountVars
<1>7. QED BY <1>1, <1>3, <1>4, <1>5, <1>6

LEMMA OnlyThese ==
    ASSUME NavTypeOK, NavNext
    PROVE  \/ Quiet \/ NewDocument \/ Relaunch \/ AllUsersAnswer
           \/ SaveUserDataOnExit
           \/ \E n \in Names : HandleSelectUsername(n)
           \/ \E p \in Accounts, n \in Names : OtherChooses(p, n)
<1>1. CASE ConfigureUser
  <2>1. FetchAllUsers # <<"controller", auth>>
    BY DEF FetchAllUsers
  <2>2. QED BY <1>1, <2>1 DEF ConfigureUser, Quiet, accountVars
<1>2. ASSUME NEW a \in Accounts, SceneAnswer(a) \/ ControllerAnswer(a) PROVE Quiet
  BY <1>2 DEF SceneAnswer, ControllerAnswer, Quiet, accountVars
<1>3. CASE OpenScreen \/ ShowAlert \/ LoginBlock \/ CloseScreen \/ Dismissed
           \/ UserPressedRegister
  BY <1>3 DEF OpenScreen, ShowAlert, Show, LoginBlock, CloseScreen, Dismissed,
              UserPressedRegister, Quiet, accountVars, history
<1>4. CASE Logout \/ HandleSkipLogin \/ ToggleForm
  BY <1>4 DEF Logout, HandleSkipLogin, ToggleForm, Quiet, accountVars, history
<1>5. ASSUME NEW a \in Accounts, NEW k \in {"email", "register", "social"},
             StartSignIn(a, k)
      PROVE  Quiet
  BY <1>5 DEF StartSignIn, Quiet, accountVars, history
<1>6. QED BY <1>1, <1>2, <1>3, <1>4, <1>5, SignInsAreQuiet DEF NavNext, Here

LEMMA SelectKeeps ==
    ASSUME NavTypeOK, LateInv, NEW n \in Names, HandleSelectUsername(n)
    PROVE  LateInv'
<1>1. allUsers # None /\ n \notin allUsers /\ UNCHANGED <<allUsers, requests>>
  BY DEF HandleSelectUsername, UsernameIsTaken
<1>2. FetchedOnce'
  BY <1>1 DEF LateInv, FetchedOnce
<1>3. CASE user = None
  <2>1. UNCHANGED <<names, late, user>>
    BY <1>3 DEF HandleSelectUsername, UpdateUsername
  <2>2. QED BY <1>1, <1>2, <2>1 DEF LateInv, ListedOrLate, NameInMemory
<1>4. CASE user # None
  <2>1. /\ user \in Users /\ user' \in Users /\ user' # None
        /\ user'.uid = user.uid /\ user'.name = n
    BY <1>4, NoneIsNobody
    DEF HandleSelectUsername, UpdateUsername, NavTypeOK, Users
  <2>2. late' = late \cup {user.uid}
    BY <1>4 DEF HandleSelectUsername
  <2>3. \A p \in Accounts \ {user.uid} : names'[p] = names[p]
    BY DEF HandleSelectUsername, UpdateUsername, NavTypeOK
  <2>4. ListedOrLate'
    BY <1>1, <2>2, <2>3 DEF LateInv, ListedOrLate
  <2>5. NameInMemory'
    BY <1>1, <2>1, <2>2, <2>3 DEF LateInv, ListedOrLate, NameInMemory
  <2>6. QED BY <1>2, <2>4, <2>5 DEF LateInv
<1>5. QED BY <1>3, <1>4

LEMMA LateStep ==
    ASSUME NavTypeOK, LateInv, [NavNext]_navVars
    PROVE  LateInv'
<1>1. CASE Relaunch
  BY <1>1 DEF Relaunch, LateInv, FetchedOnce, ListedOrLate, NameInMemory
<1>2. CASE AllUsersAnswer
  <2>1. CASE UNCHANGED allUsers
    BY <1>2, <2>1, QuietKeeps DEF AllUsersAnswer, Quiet, accountVars, history
  <2>2. CASE allUsers' = {names[p] : p \in Accounts} \cap Names
    <3>1. UNCHANGED <<names, user>> /\ allUsers = None /\ FetchAllUsers \notin requests'
      BY <1>2 DEF AllUsersAnswer, LateInv, FetchedOnce, accountVars
    <3>2. QED
      BY <2>2, <3>1 DEF LateInv, FetchedOnce, ListedOrLate, NameInMemory
  <2>3. QED BY <1>2, <2>1, <2>2 DEF AllUsersAnswer
<1>3. CASE SaveUserDataOnExit
  <2>1. UNCHANGED <<allUsers, requests, user, late>>
    BY <1>3 DEF SaveUserDataOnExit, history
  <2>2. CASE UNCHANGED names
    BY <2>1, <2>2, QuietKeeps DEF Quiet
  <2>3. CASE user # None /\ names' = [names EXCEPT ![user.uid] = user.name]
    <3>1. user.uid \in Accounts
      BY <2>3 DEF NavTypeOK, Users
    <3>2. /\ names'[user.uid] = user.name
          /\ \A p \in Accounts \ {user.uid} : names'[p] = names[p]
      BY <2>3, <3>1 DEF NavTypeOK
    <3>3. ListedOrLate'
      <4>1. SUFFICES ASSUME allUsers # None, names'[user.uid] \in Names
                     PROVE  names'[user.uid] \in allUsers \/ user.uid \in late
        BY <2>1, <3>2 DEF LateInv, ListedOrLate
      <4>2. QED BY <2>3, <3>1, <3>2, <4>1 DEF LateInv, ListedOrLate, NameInMemory
    <3>4. FetchedOnce' /\ NameInMemory'
      BY <2>1, <3>2 DEF LateInv, FetchedOnce, NameInMemory
    <3>5. QED BY <3>3, <3>4 DEF LateInv
  <2>4. QED BY <1>3, <2>2, <2>3 DEF SaveUserDataOnExit
<1>4. ASSUME NEW p \in Accounts, NEW n \in Names, OtherChooses(p, n) PROVE LateInv'
  <2>1. /\ UNCHANGED <<allUsers, requests, user>>
        /\ late' = IF allUsers = None THEN late ELSE late \cup {p}
        /\ names[p] = Unnamed
        /\ \A q \in Accounts \ {p} : names'[q] = names[q]
    BY <1>4 DEF OtherChooses, NavTypeOK
  <2>2. FetchedOnce' /\ ListedOrLate'
    BY <2>1 DEF LateInv, FetchedOnce, ListedOrLate
  <2>3. user # None => user.uid \in Accounts
    BY DEF NavTypeOK, Users
  <2>4. NameInMemory'
    BY <2>1, <2>3, NoneIsNobody DEF LateInv, NameInMemory
  <2>5. QED BY <2>2, <2>4 DEF LateInv
<1>5. CASE UNCHANGED navVars
  BY <1>5, QuietKeeps DEF navVars, accountVars, history, Quiet
<1>6. QED BY <1>1, <1>2, <1>3, <1>4, <1>5, QuietKeeps, NewDocumentKeeps, SelectKeeps,
             OnlyThese

(* usernameIsTaken looks only in the list of the launch; a name it lets    *)
(* through is somebody else's only if that one chose it after the list.    *)
THEOREM ClashesLate == NavSpec => ClashesAreLate
<1> DEFINE Clash == \A a, p \in Accounts :
              /\ user # None /\ user.uid = a /\ user' # None /\ names'[a] = user'.name
              /\ names[a] \notin Names /\ names'[a] \in Names
              /\ a # p /\ names[p] = names'[a]
              => p \in late
<1>1. NavInit => LateInv
  BY DEF NavInit, LateInv, FetchedOnce, ListedOrLate, NameInMemory
<1>2. NavTypeOK /\ LateInv /\ [NavNext]_navVars => [Clash]_navVars
  <2> SUFFICES ASSUME NavTypeOK, LateInv, NavNext,
                      NEW a \in Accounts, NEW p \in Accounts \ {a},
                      user # None, user.uid = a, names[a] \notin Names,
                      names'[a] \in Names, names[p] = names'[a],
                      user' # None, names'[a] = user'.name
               PROVE  p \in late
    OBVIOUS
  <2>1. names' # names
    OBVIOUS
  <2>2. ~Quiet /\ ~Relaunch /\ ~AllUsersAnswer
    BY <2>1 DEF Quiet, Relaunch, AllUsersAnswer, accountVars
  <2>3. ~NewDocument
    BY NoneIsNobody DEF NewDocument, NewUser, NavTypeOK
  <2>4. CASE SaveUserDataOnExit
    BY <2>4 DEF SaveUserDataOnExit, NavTypeOK, LateInv, NameInMemory
  <2>5. ASSUME NEW n \in Names, HandleSelectUsername(n) PROVE p \in late
    BY <2>5 DEF HandleSelectUsername, UsernameIsTaken, UpdateUsername, NavTypeOK,
                LateInv, ListedOrLate
  <2>6. ASSUME NEW q \in Accounts, NEW n \in Names, OtherChooses(q, n) PROVE p \in late
    BY <2>6 DEF OtherChooses, LateInv, NameInMemory
  <2>7. QED BY <2>2, <2>3, <2>4, <2>5, <2>6, OnlyThese
<1>3. NavTypeOK /\ LateInv /\ [NavNext]_navVars => LateInv'
  BY LateStep
<1>4. QED BY <1>1, <1>2, <1>3, NavTypes, PTL DEF NavSpec, ClashesAreLate, Clash

-----------------------------------------------------------------------------
(* A username stays until another is chosen.  First: a new document writes *)
(* over no name, because an account that is being created is nobody's yet. *)

(* Nothing on this phone knows the account, and it has no document.        *)
Unused(a) ==
    /\ names[a] = None /\ auth # a
    /\ user # None => user.uid # a
    /\ <<"scene", a>> \notin requests /\ <<"controller", a>> \notin requests

(* An account Firebase Auth does not have is at most being signed in to.   *)
AccountsBegin ==
    \A a \in Accounts \ registered :
        Unused(a) /\ \A s \in signIns : s.uid = a => s.step = "auth"

(* An account that has just been created is used by its registration alone.*)
NobodyElse ==
    \A s \in signIns : s.step = "created" =>
        /\ s.kind = "register" /\ s.uid \in registered /\ Unused(s.uid)
        /\ \A t \in signIns \ {s} : t.uid # s.uid

RegistersAlone ==
    \A s, t \in signIns :
        s.kind = "register" /\ s.step = "auth" /\ t # s /\ t.uid = s.uid => t.step # "auth"

AccountsInv == AccountsBegin /\ NobodyElse /\ RegistersAlone

LEMMA SignInParts ==
    ASSUME NEW s \in SignIns
    PROVE  /\ \A st : /\ [s EXCEPT !.step = st].uid = s.uid
                      /\ [s EXCEPT !.step = st].kind = s.kind
                      /\ [s EXCEPT !.step = st].step = st
           /\ \A a : /\ [s EXCEPT !.uid = a, !.step = "reread"].uid = a
                     /\ [s EXCEPT !.uid = a, !.step = "reread"].step = "reread"
           /\ [s EXCEPT !.shown = FALSE].uid = s.uid
           /\ [s EXCEPT !.shown = FALSE].kind = s.kind
           /\ [s EXCEPT !.shown = FALSE].step = s.step
  BY DEF SignIns

(* No sign-in begins or goes on; some may end, or lose their form.         *)
NoneGoesOn ==
    \E sis \in SUBSET signIns :
        signIns' = sis \/ signIns' = {[s EXCEPT !.shown = FALSE] : s \in sis}

StaysUnused == \A a \in Accounts : Unused(a) => Unused(a)'

LEMMA NothingBegins ==
    ASSUME NavTypeOK, AccountsInv, NoneGoesOn, StaysUnused, registered' = registered
    PROVE  AccountsInv'
<1>1. signIns \subseteq SignIns /\ \A s \in signIns : s.uid \in Accounts
  BY TypeParts, SignInGoesOn DEF RequestsTyped
<1>2. PICK sis \in SUBSET signIns :
         signIns' = sis \/ signIns' = {[s EXCEPT !.shown = FALSE] : s \in sis}
  BY DEF NoneGoesOn
<1>3. CASE signIns' = sis
  BY <1>1, <1>3 DEF AccountsInv, AccountsBegin, NobodyElse, RegistersAlone, StaysUnused
<1>4. CASE signIns' = {[s EXCEPT !.shown = FALSE] : s \in sis}
  <2>1. \A t \in signIns' : \E s \in signIns :
           /\ t = [s EXCEPT !.shown = FALSE]
           /\ t.uid = s.uid /\ t.kind = s.kind /\ t.step = s.step
    <3> SUFFICES ASSUME NEW t \in signIns'
                 PROVE  \E s \in signIns : /\ t = [s EXCEPT !.shown = FALSE]
                           /\ t.uid = s.uid /\ t.kind = s.kind /\ t.step = s.step
      OBVIOUS
    <3>1. PICK s \in sis : t = [s EXCEPT !.shown = FALSE]
      BY <1>4
    <3>2. s \in SignIns /\ s \in signIns
      BY <1>1
    <3>3. t.uid = s.uid /\ t.kind = s.kind /\ t.step = s.step
      BY <3>1, <3>2, SignInParts
    <3>4. QED BY <3>1, <3>2, <3>3
  <2>2. AccountsBegin'
    BY <1>1, <2>1 DEF AccountsInv, AccountsBegin, StaysUnused
  <2>3. NobodyElse'
    <3> SUFFICES ASSUME NEW t \in signIns', t.step = "created"
                 PROVE  /\ t.kind = "register" /\ t.uid \in registered' /\ Unused(t.uid)'
                        /\ \A q \in signIns' \ {t} : q.uid # t.uid
      BY DEF NobodyElse
    <3>1. PICK s \in signIns : /\ t = [s EXCEPT !.shown = FALSE]
                               /\ t.uid = s.uid /\ t.kind = s.kind /\ t.step = s.step
      BY <2>1
    <3>2. t.kind = "register" /\ t.uid \in registered' /\ Unused(t.uid)'
      BY <1>1, <3>1 DEF AccountsInv, NobodyElse, StaysUnused
    <3>3. ASSUME NEW q \in signIns' \ {t} PROVE q.uid # t.uid
      <4>1. PICK p \in signIns : q = [p EXCEPT !.shown = FALSE] /\ q.uid = p.uid
        BY <2>1
      <4>2. p # s
        BY <3>1, <4>1
      <4>3. QED BY <3>1, <4>1, <4>2 DEF AccountsInv, NobodyElse
    <3>4. QED BY <3>2, <3>3
  <2>4. RegistersAlone'
    <3> SUFFICES ASSUME NEW t \in signIns', NEW q \in signIns', t.kind = "register",
                        t.step = "auth", q # t, q.uid = t.uid
                 PROVE  q.step # "auth"
      BY DEF RegistersAlone
    <3>1. PICK s \in signIns : /\ t = [s EXCEPT !.shown = FALSE]
                               /\ t.uid = s.uid /\ t.kind = s.kind /\ t.step = s.step
      BY <2>1
    <3>2. PICK p \in signIns : /\ q = [p EXCEPT !.shown = FALSE]
                               /\ q.uid = p.uid /\ q.kind = p.kind /\ q.step = p.step
      BY <2>1
    <3>3. p # s
      BY <3>1, <3>2
    <3>4. QED BY <3>1, <3>2, <3>3 DEF AccountsInv, RegistersAlone
  <2>5. QED BY <2>2, <2>3, <2>4 DEF AccountsInv
<1>5. QED BY <1>2, <1>3, <1>4

(* The sign-in s goes on as t, with its own account or with the one signed *)
(* in.                                                                     *)
LEMMA OneGoesOn ==
    ASSUME NavTypeOK, AccountsInv, NEW s \in signIns, NEW t,
           signIns' = Rest(s) \cup {t}, t.step # "auth", t.uid \in {s.uid, auth},
           registered \subseteq registered', s.uid \in registered', t.uid \in registered',
           \A a \in Accounts \ {s.uid} : Unused(a) => Unused(a)',
           t.step = "created" =>
              /\ s.kind = "register" /\ s.step = "auth" /\ s.uid \notin registered
              /\ t.kind = "register" /\ t.uid = s.uid /\ Unused(s.uid)'
    PROVE  AccountsInv'
<1>1. \A q \in signIns : q.uid \in Accounts
  BY TypeParts, SignInGoesOn DEF RequestsTyped
<1>2. AccountsBegin'
  BY DEF AccountsInv, AccountsBegin, Rest
<1>3. ASSUME NEW q \in Rest(s), q.step = "created"
      PROVE  /\ q.kind = "register" /\ q.uid \in registered' /\ Unused(q.uid)'
             /\ \A p \in signIns' \ {q} : p.uid # q.uid
  <2>1. /\ q \in signIns /\ q # s /\ q.kind = "register" /\ q.uid \in registered
        /\ Unused(q.uid) /\ \A p \in signIns \ {q} : p.uid # q.uid
    BY <1>3 DEF AccountsInv, NobodyElse, Rest
  <2>2. t.uid # q.uid /\ s.uid # q.uid
    BY <2>1 DEF Unused
  <2>3. QED BY <1>1, <2>1, <2>2 DEF Rest
<1>4. ASSUME t.step = "created"
      PROVE  /\ t.kind = "register" /\ t.uid \in registered' /\ Unused(t.uid)'
             /\ \A p \in signIns' \ {t} : p.uid # t.uid
  <2>1. ASSUME NEW p \in Rest(s), p.uid = s.uid PROVE FALSE
    <3>1. p.step = "auth"
      BY <1>1, <1>4, <2>1 DEF AccountsInv, AccountsBegin, Rest
    <3>2. p.step # "auth"
      BY <1>4, <2>1 DEF AccountsInv, RegistersAlone, Rest
    <3>3. QED BY <3>1, <3>2
  <2>2. QED BY <1>4, <2>1
<1>5. NobodyElse'
  BY <1>3, <1>4 DEF NobodyElse
<1>6. RegistersAlone'
  BY DEF AccountsInv, RegistersAlone, Rest
<1>7. QED BY <1>2, <1>5, <1>6 DEF AccountsInv

LEMMA RequestsDiffer ==
    ASSUME NEW a, NEW b, a # b
    PROVE  /\ <<"scene", a>> # Configure /\ <<"controller", a>> # Configure
           /\ <<"scene", a>> # FetchAllUsers /\ <<"controller", a>> # FetchAllUsers
           /\ <<"scene", a>> # <<"scene", b>> /\ <<"controller", a>> # <<"controller", b>>
           /\ <<"scene", a>> # <<"controller", b>> /\ <<"controller", a>> # <<"scene", b>>
           /\ <<"scene", a>> # <<"controller", a>>
  BY DEF Configure, FetchAllUsers

(* An answer that sets the user to a document is not about an unused       *)
(* account.                                                                *)
LEMMA DocumentInUse ==
    ASSUME NavTypeOK, NEW uid \in Accounts, names[uid] # None, user' = Document(uid),
           UNCHANGED <<names, auth>>, requests' \subseteq requests
    PROVE  StaysUnused
  BY DocumentIsUser DEF StaysUnused, Unused

LEMMA UnusedUndisturbed ==
    ASSUME UNCHANGED names, auth' \in {auth, None}, user' \in {user, None},
           requests' \subseteq requests, NavTypeOK
    PROVE  StaysUnused
  BY NoneIsNobody DEF StaysUnused, Unused

LEMMA LaunchUnused ==
    ASSUME NavTypeOK,
           \/ Relaunch \/ ConfigureUser \/ AllUsersAnswer
           \/ \E a \in Accounts : SceneAnswer(a) \/ ControllerAnswer(a)
    PROVE  StaysUnused /\ NoneGoesOn /\ registered' = registered
<1>1. CASE Relaunch
  <2>1. \A a \in Accounts : auth # a =>
           <<"scene", a>> \notin LaunchRequests /\ <<"controller", a>> \notin LaunchRequests
    BY RequestsDiffer DEF LaunchRequests
  <2>2. StaysUnused
    BY <1>1, <2>1 DEF Relaunch, StaysUnused, Unused, accountVars
  <2>3. QED BY <1>1, <2>2 DEF Relaunch, NoneGoesOn, accountVars
<1>2. CASE ConfigureUser
  <2>1. requests' \subseteq requests \cup {<<"controller", auth>>}
    BY <1>2 DEF ConfigureUser
  <2>2. StaysUnused
    BY <1>2, <2>1, RequestsDiffer DEF ConfigureUser, StaysUnused, Unused, accountVars
  <2>3. QED BY <1>2, <2>2 DEF ConfigureUser, NoneGoesOn, accountVars
<1>3. CASE AllUsersAnswer
  <2>1. StaysUnused
    BY <1>3, UnusedUndisturbed DEF AllUsersAnswer, accountVars
  <2>2. QED BY <1>3, <2>1 DEF AllUsersAnswer, NoneGoesOn, accountVars
<1>4. ASSUME NEW a \in Accounts, SceneAnswer(a) \/ ControllerAnswer(a)
      PROVE  StaysUnused /\ NoneGoesOn /\ registered' = registered
  <2>1. /\ UNCHANGED <<names, auth, registered, signIns>> /\ requests' \subseteq requests
        /\ \/ names[a] # None /\ user' = Document(a)
           \/ user' = user
    BY <1>4 DEF SceneAnswer, ControllerAnswer, accountVars
  <2>2. StaysUnused
    BY <2>1, DocumentInUse, UnusedUndisturbed
  <2>3. QED BY <2>1, <2>2 DEF NoneGoesOn
<1>5. QED BY <1>1, <1>2, <1>3, <1>4

LEMMA ScreensUnused ==
    ASSUME NavTypeOK,
           \/ OpenScreen \/ ShowAlert \/ LoginBlock \/ CloseScreen \/ Dismissed
           \/ UserPressedRegister \/ Logout \/ ToggleForm \/ HandleSkipLogin
           \/ SaveUserDataOnExit
           \/ \E n \in Names : HandleSelectUsername(n)
           \/ \E p \in Accounts, n \in Names : OtherChooses(p, n)
    PROVE  StaysUnused /\ NoneGoesOn /\ registered' = registered
<1>1. CASE OpenScreen \/ ShowAlert \/ LoginBlock \/ CloseScreen \/ Dismissed
           \/ UserPressedRegister \/ Logout
  <2>1. /\ UNCHANGED <<names, registered, signIns, requests>>
        /\ auth' \in {auth, None} /\ user' \in {user, None}
    BY <1>1 DEF OpenScreen, ShowAlert, Show, LoginBlock, CloseScreen, Dismissed,
                UserPressedRegister, Logout, accountVars
  <2>2. QED BY <2>1, UnusedUndisturbed DEF NoneGoesOn
<1>2. CASE ToggleForm \/ HandleSkipLogin
  <2>1. /\ UNCHANGED <<names, registered, requests, auth, user>>
        /\ signIns' = {[s EXCEPT !.shown = FALSE] : s \in signIns}
    BY <1>2 DEF ToggleForm, HandleSkipLogin, AuthenticationComplete, accountVars
  <2>2. NoneGoesOn
    BY <2>1 DEF NoneGoesOn
  <2>3. QED BY <2>1, <2>2, UnusedUndisturbed
<1>3. CASE SaveUserDataOnExit
  <2>1. StaysUnused
    BY <1>3 DEF SaveUserDataOnExit, StaysUnused, Unused, NavTypeOK
  <2>2. QED BY <1>3, <2>1 DEF SaveUserDataOnExit, NoneGoesOn
<1>4. ASSUME NEW n \in Names, HandleSelectUsername(n)
      PROVE  StaysUnused /\ NoneGoesOn /\ registered' = registered
  <2>1. /\ user # None => user'.uid = user.uid /\ user.uid \in Accounts
        /\ user = None => user' = None
    BY <1>4 DEF HandleSelectUsername, UpdateUsername, NavTypeOK, Users
  <2>2. \A a \in Accounts : names[a] = None => names'[a] = None
    BY <1>4, <2>1 DEF HandleSelectUsername, UpdateUsername, NavTypeOK
  <2>3. StaysUnused
    BY <1>4, <2>1, <2>2 DEF HandleSelectUsername, StaysUnused, Unused
  <2>4. QED BY <1>4, <2>3 DEF HandleSelectUsername, NoneGoesOn
<1>5. ASSUME NEW p \in Accounts, NEW n \in Names, OtherChooses(p, n)
      PROVE  StaysUnused /\ NoneGoesOn /\ registered' = registered
  <2>1. StaysUnused
    BY <1>5, NoneIsNobody DEF OtherChooses, StaysUnused, Unused, NavTypeOK
  <2>2. QED BY <1>5, <2>1 DEF OtherChooses, NoneGoesOn
<1>6. QED BY <1>1, <1>2, <1>3, <1>4, <1>5

LEMMA StartKeepsAccounts ==
    ASSUME NavTypeOK, AccountsInv,
           NEW a \in Accounts, NEW k \in {"email", "register", "social"}, StartSignIn(a, k)
    PROVE  AccountsInv'
<1> DEFINE new == [uid |-> a, kind |-> k, step |-> "auth", shown |-> form]
<1>1. /\ signIns' = signIns \cup {new}
      /\ \A s \in signIns : s.uid = a => s.kind = "social" /\ k = "social"
      /\ UNCHANGED <<names, auth, user, requests, registered>>
  BY DEF StartSignIn, accountVars
<1>2. new.uid = a /\ new.kind = k /\ new.step = "auth"
  OBVIOUS
<1> HIDE DEF new
<1>3. \A b : Unused(b)' <=> Unused(b)
  BY <1>1 DEF Unused
<1>4. AccountsBegin'
  BY <1>1, <1>2, <1>3 DEF AccountsInv, AccountsBegin
<1>5. NobodyElse'
  BY <1>1, <1>2, <1>3 DEF AccountsInv, NobodyElse
<1>6. RegistersAlone'
  BY <1>1, <1>2 DEF AccountsInv, RegistersAlone
<1>7. QED BY <1>4, <1>5, <1>6 DEF AccountsInv

(* Whoever goes on past its first step signs in to a registered account.   *)
LEMMA PastAuth ==
    ASSUME NavTypeOK, AccountsInv, NEW s \in signIns, s.step # "auth"
    PROVE  s.uid \in registered
  BY TypeParts, SignInGoesOn DEF RequestsTyped, AccountsInv, AccountsBegin

LEMMA SignedInIsRegistered ==
    ASSUME NavTypeOK, AccountsInv, auth # None
    PROVE  auth \in registered
  BY DEF NavTypeOK, AccountsInv, AccountsBegin, Unused

LEMMA NewUserKeepsAccounts ==
    ASSUME NavTypeOK, AccountsInv, NEW s \in signIns, NewUser(s), s.step # "auth",
           auth' \in {auth, s.uid}, registered' = registered, requests' = requests
    PROVE  AccountsInv'
<1>1. s \in SignIns /\ s.uid \in Accounts /\ s.uid \in registered
  BY TypeParts, SignInGoesOn, PastAuth DEF RequestsTyped
<1>2. \A a \in Accounts \ {s.uid} : Unused(a) => Unused(a)'
  <2>1. user' # None => user'.uid = s.uid
    BY DEF NewUser
  <2>2. \A a \in Accounts \ {s.uid} : names'[a] = names[a]
    BY DEF NewUser, NavTypeOK
  <2>3. QED BY <2>1, <2>2 DEF Unused
<1>3. ASSUME NEW st \in {"written", "refused"}, GoOn(s, st) PROVE AccountsInv'
  <2> DEFINE t == [s EXCEPT !.step = st]
  <2>1. signIns' = Rest(s) \cup {t}
    BY <1>3 DEF GoOn
  <2>2. t.uid = s.uid /\ t.step = st
    BY <1>1, SignInParts
  <2> HIDE DEF t
  <2>3. QED BY <1>1, <1>2, <2>1, <2>2, OneGoesOn
<1>4. QED BY <1>3 DEF NewUser

LEMMA ReadAgainKeepsAccounts ==
    ASSUME NavTypeOK, AccountsInv, NEW s \in signIns, ReadAgain(s), s.step # "auth",
           StaysUnused, registered' = registered
    PROVE  AccountsInv'
<1>1. s \in SignIns /\ s.uid \in registered
  BY TypeParts, PastAuth DEF RequestsTyped
<1>2. CASE auth # None /\ signIns' = Rest(s) \cup {[s EXCEPT !.uid = auth, !.step = "reread"]}
  <2> DEFINE t == [s EXCEPT !.uid = auth, !.step = "reread"]
  <2>1. signIns' = Rest(s) \cup {t}
    BY <1>2
  <2>2. t.uid = auth /\ t.step = "reread"
    BY <1>1, SignInParts
  <2>3. auth \in registered
    BY <1>2, SignedInIsRegistered
  <2> HIDE DEF t
  <2>4. QED BY <1>1, <2>1, <2>2, <2>3, OneGoesOn DEF StaysUnused
<1>3. CASE signIns' = Rest(s)
  <2>1. NoneGoesOn
    BY <1>3 DEF NoneGoesOn, Rest
  <2>2. QED BY <2>1, NothingBegins
<1>4. QED BY <1>2, <1>3 DEF ReadAgain

LEMMA AnswerReads ==
    ASSUME NEW s,
           \/ SignInFails(s) \/ SignedIn(s) \/ AccountCreated(s) \/ EmailRead(s)
           \/ RegisterDone(s) \/ SocialWritten(s) \/ SocialReread(s)
    PROVE  /\ names' = names /\ requests' = requests
           /\ user' = user \/ (names[s.uid] # None /\ user' = Document(s.uid))
<1>1. CASE SignInFails(s) \/ RegisterDone(s) \/ SocialWritten(s)
  BY <1>1 DEF SignInFails, RegisterDone, SocialWritten, accountVars
<1>2. CASE SignedIn(s) \/ AccountCreated(s)
  BY <1>2 DEF SignedIn, AccountCreated
<1>3. CASE EmailRead(s)
  BY <1>3, Zenon DEF EmailRead, accountVars
<1>4. CASE SocialReread(s)
  BY <1>4, Zenon DEF SocialReread, accountVars
<1>5. QED BY <1>1, <1>2, <1>3, <1>4

LEMMA AnswersKeepAccounts ==
    ASSUME NavTypeOK, AccountsInv, SignInAnswers
    PROVE  AccountsInv'
<1>1. PICK s \in signIns :
         \/ SignInFails(s) \/ SignedIn(s) \/ EmailRead(s)
         \/ AccountCreated(s) \/ Registered(s) \/ RegisterDone(s)
         \/ SocialRead(s) \/ SocialWritten(s) \/ SocialReread(s)
  BY DEF SignInAnswers
<1>2. s \in SignIns /\ s.uid \in Accounts /\ Rest(s) \in SUBSET signIns
  BY SignInGoesOn, TypeParts DEF RequestsTyped, Rest
<1>3. CASE SignInFails(s) \/ EmailRead(s) \/ RegisterDone(s) \/ SocialReread(s)
  <2>1. /\ UNCHANGED <<names, auth, registered, requests>>
        /\ user' = user \/ (names[s.uid] # None /\ user' = Document(s.uid))
    <3>1. UNCHANGED <<auth, registered>>
      BY <1>3 DEF SignInFails, EmailRead, RegisterDone, SocialReread, accountVars
    <3>2. QED BY <1>3, <3>1, AnswerReads
  <2>2. signIns' = Rest(s) \/ signIns' = {[q EXCEPT !.shown = FALSE] : q \in Rest(s)}
    BY <1>3 DEF SignInFails, EmailRead, RegisterDone, SocialReread, AuthenticationComplete
  <2>3. NoneGoesOn
    BY <1>2, <2>2 DEF NoneGoesOn
  <2>4. StaysUnused
    BY <1>2, <2>1, DocumentInUse, UnusedUndisturbed
  <2>5. QED BY <2>1, <2>3, <2>4, NothingBegins
<1>4. CASE SignedIn(s)
  <2> DEFINE t == [s EXCEPT !.step = "read"]
  <2>1. /\ signIns' = Rest(s) \cup {t} /\ auth' = s.uid
        /\ UNCHANGED <<names, user, requests>>
        /\ registered \subseteq registered' /\ s.uid \in registered'
    BY <1>4 DEF SignedIn, GoOn
  <2>2. t.uid = s.uid /\ t.step = "read"
    BY <1>2, SignInParts
  <2> HIDE DEF t
  <2>3. \A a \in Accounts \ {s.uid} : Unused(a) => Unused(a)'
    BY <2>1 DEF Unused
  <2>4. QED BY <2>1, <2>2, <2>3, OneGoesOn
<1>5. CASE AccountCreated(s)
  <2> DEFINE t == [s EXCEPT !.step = "created"]
  <2>1. /\ signIns' = Rest(s) \cup {t}
        /\ UNCHANGED <<names, auth, user, requests>>
        /\ registered' = registered \cup {s.uid} /\ s.uid \notin registered
        /\ s.step = "auth" /\ s.kind = "register"
    BY <1>5 DEF AccountCreated, GoOn
  <2>2. t.uid = s.uid /\ t.step = "created" /\ t.kind = s.kind
    BY <1>2, SignInParts
  <2> HIDE DEF t
  <2>3. \A a : Unused(a) => Unused(a)'
    BY <2>1 DEF Unused
  <2>4. Unused(s.uid)'
    BY <1>2, <2>1, <2>3 DEF AccountsInv, AccountsBegin
  <2>5. QED BY <2>1, <2>2, <2>3, <2>4, OneGoesOn
<1>6. CASE Registered(s)
  BY <1>6, NewUserKeepsAccounts DEF Registered
<1>7. CASE SocialRead(s)
  <2>1. CASE NewUser(s)
    BY <1>7, <2>1, NewUserKeepsAccounts DEF SocialRead
  <2>2. CASE names[s.uid] # None /\ user' = Document(s.uid) /\ ReadAgain(s) /\ UNCHANGED names
    <3>1. StaysUnused
      BY <1>2, <1>7, <2>2, DocumentInUse DEF SocialRead
    <3>2. QED BY <1>7, <2>2, <3>1, ReadAgainKeepsAccounts DEF SocialRead
  <2>3. QED BY <1>7, <2>1, <2>2 DEF SocialRead
<1>8. CASE SocialWritten(s)
  <2>1. StaysUnused
    BY <1>8, UnusedUndisturbed DEF SocialWritten, accountVars
  <2>2. QED BY <1>8, <2>1, ReadAgainKeepsAccounts DEF SocialWritten, accountVars
<1>9. QED BY <1>1, <1>3, <1>4, <1>5, <1>6, <1>7, <1>8

LEMMA AccountsStep == NavTypeOK /\ AccountsInv /\ [NavNext]_navVars => AccountsInv'
<1> SUFFICES ASSUME NavTypeOK, AccountsInv, [NavNext]_navVars PROVE AccountsInv'
  OBVIOUS
<1>1. CASE UNCHANGED navVars
  <2>1. UNCHANGED <<names, auth, user, requests, signIns, registered>>
    BY <1>1 DEF navVars, accountVars
  <2>2. NoneGoesOn /\ StaysUnused
    BY <2>1, UnusedUndisturbed DEF NoneGoesOn
  <2>3. QED BY <2>1, <2>2, NothingBegins
<1>2. ASSUME NEW a \in Accounts, NEW k \in {"email", "register", "social"}, StartSignIn(a, k)
      PROVE  AccountsInv'
  BY <1>2, StartKeepsAccounts
<1>3. CASE SignInAnswers
  BY <1>3, AnswersKeepAccounts
<1>4. QED BY <1>1, <1>2, <1>3, LaunchUnused, ScreensUnused, NothingBegins DEF NavNext, Here

(* In memory a user whose document has a name has one, unless another phone*)
(* gave it to the document.                                                *)
NamedInMemory == user # None /\ names[user.uid] \in Names => user.name \in Names \/ stale
StaleStays == stale /\ Outdated' => stale'

(* Who the username screen is open for has no name yet; and once it was    *)
(* asked, the name in memory is the one in the document.                   *)
AskedHasNone ==
    asked # None =>
        /\ presented = "username" =>
              /\ names[asked] \notin Names
              /\ user # None /\ user.uid = asked => user.name = Unnamed
        /\ user # None /\ user.uid = asked /\ names[asked] \in Names =>
              user.name = names[asked]

(* The inductive invariant of NamesStay.                                   *)
NamesInv == AccountsInv /\ NamedInMemory /\ AskedHasNone

NobodyIsAsked == asked' = asked /\ (presented' = "username" => presented = "username")
UserIsAsked ==
    user' # None /\ user'.name = Unnamed /\ asked' = user'.uid /\ names'[asked'] \notin Names

(* A step that writes no name: it may read a document, and ask the user.   *)
Reads ==
    /\ names' = names
    /\ user' \in {user, None} \/ \E a \in Accounts : names[a] # None /\ user' = Document(a)
    /\ NobodyIsAsked \/ UserIsAsked \/ asked' = None

LEMMA ReadsKeepNames ==
    ASSUME NavTypeOK, StaleStays, NamedInMemory, AskedHasNone, Reads
    PROVE  NamedInMemory' /\ AskedHasNone'
<1>1. NamedInMemory'
  <2>1. CASE user' \in {user, None}
    BY <2>1 DEF NamedInMemory, Reads, StaleStays, Outdated
  <2>2. ASSUME NEW a \in Accounts, names[a] # None, user' = Document(a)
        PROVE  NamedInMemory'
    BY <2>2, DocumentIsUser DEF NamedInMemory, Reads
  <2>3. QED BY <2>1, <2>2 DEF Reads
<1>2. CASE NobodyIsAsked
  <2>1. CASE user' = user
    <3>1. names' = names /\ asked' = asked
      BY <1>2 DEF Reads, NobodyIsAsked
    <3>2. presented' = "username" => presented = "username"
      BY <1>2 DEF NobodyIsAsked
    <3>3. QED BY <1>1, <2>1, <3>1, <3>2 DEF AskedHasNone
  <2>2. CASE user' = None
    <3>1. names' = names /\ asked' = asked
      BY <1>2 DEF Reads, NobodyIsAsked
    <3>2. presented' = "username" => presented = "username"
      BY <1>2 DEF NobodyIsAsked
    <3>3. QED BY <1>1, <2>2, <3>1, <3>2 DEF AskedHasNone
  <2>3. ASSUME NEW a \in Accounts, names[a] # None, user' = Document(a)
        PROVE  AskedHasNone'
    <3>1. user'.uid = a /\ user'.name = names[a] /\ names[a] \in Names \cup {Unnamed}
      BY <2>3, DocumentIsUser DEF NavTypeOK
    <3>2. names' = names /\ asked' = asked
      BY <1>2 DEF Reads, NobodyIsAsked
    <3>3. presented' = "username" => presented = "username"
      BY <1>2 DEF NobodyIsAsked
    <3>4. QED BY <3>1, <3>2, <3>3 DEF AskedHasNone
  <2>4. QED BY <1>1, <2>1, <2>2, <2>3 DEF Reads
<1>3. CASE UserIsAsked
  <2>1. user' # None /\ user'.name = Unnamed /\ asked' = user'.uid
    BY <1>3 DEF UserIsAsked
  <2>2. names'[user'.uid] \notin Names
    BY <1>3, <2>1 DEF UserIsAsked
  <2>3. QED BY <1>1, <2>1, <2>2 DEF AskedHasNone
<1>4. CASE asked' = None
  BY <1>1, <1>4 DEF AskedHasNone
<1>5. QED BY <1>1, <1>2, <1>3, <1>4 DEF Reads

(* A new user is written where there was no document, and nobody is asked. *)
WritesNew == \E s \in signIns : NewUser(s) /\ names[s.uid] = None /\ NobodyIsAsked

LEMMA NewKeepsNames ==
    ASSUME NavTypeOK, StaleStays, NamedInMemory, AskedHasNone, WritesNew
    PROVE  NamedInMemory' /\ AskedHasNone'
<1>1. PICK s \in signIns : NewUser(s) /\ names[s.uid] = None /\ NobodyIsAsked
  BY DEF WritesNew
<1>2. s.uid \in Accounts
  BY TypeParts, SignInGoesOn DEF RequestsTyped
<1>3. /\ user'.uid = s.uid /\ user'.name = Unnamed
      /\ names'[s.uid] \in {None, Unnamed} /\ names'[s.uid] \notin Names
      /\ \A a \in Accounts \ {s.uid} : names'[a] = names[a]
  BY <1>1, <1>2, NoneIsNobody DEF NewUser, NavTypeOK
<1>4. asked # None => asked \in Accounts
  BY DEF NavTypeOK
<1>5. QED BY <1>1, <1>3, <1>4 DEF NamedInMemory, AskedHasNone, NobodyIsAsked

LEMMA SaveKeepsNames ==
    ASSUME NavTypeOK, StaleStays, NamedInMemory, AskedHasNone, SaveUserDataOnExit
    PROVE  NamedInMemory' /\ AskedHasNone'
<1>1. UNCHANGED <<user, asked, presented>>
  BY DEF SaveUserDataOnExit, screenVars, history
<1>2. CASE names' = names
  BY <1>1, <1>2 DEF NamedInMemory, AskedHasNone, StaleStays, Outdated
<1>3. CASE user # None /\ names' = [names EXCEPT ![user.uid] = user.name]
  <2>1. /\ names'[user.uid] = user.name
        /\ \A a \in Accounts \ {user.uid} : names'[a] = names[a]
    BY <1>3 DEF NavTypeOK, Users
  <2>2. asked # None => asked \in Accounts
    BY DEF NavTypeOK
  <2>3. NamedInMemory'
    BY <1>1, <2>1 DEF NamedInMemory
  <2>4. CASE asked = user.uid
    <3>1. names'[asked'] = user.name /\ user'.name = user.name
      BY <1>1, <2>1, <2>4
    <3>2. presented = "username" => user.name = Unnamed
      BY <1>3, <2>4, NoneIsNobody DEF AskedHasNone, NavTypeOK, Users
    <3>3. AskedHasNone'
      BY <1>1, <3>1, <3>2, NoneIsNobody DEF AskedHasNone
    <3>4. QED BY <2>3, <3>3
  <2>5. CASE asked # user.uid
    BY <1>1, <2>1, <2>2, <2>3, <2>5 DEF AskedHasNone
  <2>6. QED BY <2>3, <2>4, <2>5
<1>4. QED BY <1>2, <1>3 DEF SaveUserDataOnExit

LEMMA SelectKeepsNames ==
    ASSUME NavTypeOK, StaleStays, NamedInMemory, AskedHasNone,
           NEW n \in Names, HandleSelectUsername(n)
    PROVE  NamedInMemory' /\ AskedHasNone'
<1>1. presented = "username" /\ presented' # "username" /\ asked' = asked
  BY DEF HandleSelectUsername, Close
<1>2. CASE user = None
  BY <1>1, <1>2 DEF HandleSelectUsername, UpdateUsername, NamedInMemory, AskedHasNone
<1>3. CASE user # None
  <2>1. /\ user.uid \in Accounts /\ user'.uid = user.uid /\ user'.name = n
        /\ names'[user.uid] \in {n, names[user.uid]}
        /\ \A a \in Accounts \ {user.uid} : names'[a] = names[a]
    BY <1>3 DEF HandleSelectUsername, UpdateUsername, NavTypeOK, Users
  <2>2. asked # None => asked \in Accounts
    BY DEF NavTypeOK
  <2>3. QED BY <1>1, <2>1, <2>2 DEF NamedInMemory, AskedHasNone
<1>4. QED BY <1>2, <1>3

(* Another phone names an account; if it is the one in use here, stale says *)
(* so until the names agree again.                                         *)
NamedElsewhere ==
    \E p \in Accounts, n \in Names :
       /\ OtherChooses(p, n)
       /\ user # None /\ p = user.uid /\ Outdated' => stale'

LEMMA OtherKeepsNames ==
    ASSUME NavTypeOK, StaleStays, NamedInMemory, AskedHasNone, NamedElsewhere
    PROVE  NamedInMemory' /\ AskedHasNone'
<1> PICK p \in Accounts, n \in Names :
       /\ OtherChooses(p, n)
       /\ user # None /\ p = user.uid /\ Outdated' => stale'
  BY DEF NamedElsewhere
<1>1. /\ UNCHANGED <<user, presented>> /\ asked' \in {asked, None} /\ asked' # p
      /\ \A a \in Accounts \ {p} : names'[a] = names[a]
  BY NoneIsNobody DEF OtherChooses, NavTypeOK, screenVars
<1>2. user # None => user.uid \in Accounts
  BY DEF NavTypeOK, Users
<1>3. asked # None => asked \in Accounts
  BY DEF NavTypeOK
<1>4. NamedInMemory'
  BY <1>1, <1>2 DEF NamedInMemory, StaleStays, Outdated
<1>5. AskedHasNone'
  BY <1>1, <1>2, <1>3 DEF AskedHasNone
<1>6. QED BY <1>4, <1>5

LEMMA LaunchReads ==
    ASSUME NavTypeOK,
           \/ Relaunch \/ ConfigureUser \/ AllUsersAnswer
           \/ \E a \in Accounts : SceneAnswer(a) \/ ControllerAnswer(a)
    PROVE  Reads
<1>1. CASE Relaunch
  BY <1>1 DEF Relaunch, Reads, accountVars
<1>2. CASE ConfigureUser
  <2>1. names' = names /\ user' = user
    BY <1>2 DEF ConfigureUser, accountVars
  <2>2. NobodyIsAsked \/ UserIsAsked \/ asked' = None
    BY <1>2, <2>1
    DEF ConfigureUser, AskUsername, AskedFor, Nameless, Present, NobodyIsAsked, UserIsAsked
  <2>3. QED BY <2>1, <2>2 DEF Reads
<1>3. CASE AllUsersAnswer
  BY <1>3 DEF AllUsersAnswer, Reads, NobodyIsAsked, accountVars, screenVars, history
<1>4. ASSUME NEW a \in Accounts, SceneAnswer(a) PROVE Reads
  BY <1>4 DEF SceneAnswer, Reads, NobodyIsAsked, accountVars, screenVars
<1>5. ASSUME NEW a \in Accounts, ControllerAnswer(a) PROVE Reads
  <2>1. names' = names
    BY <1>5 DEF ControllerAnswer, accountVars
  <2>2. CASE names[a] # None /\ user' = Document(a) /\ AskUsername(Document(a))
    <3>1. NobodyIsAsked \/ UserIsAsked \/ asked' = None
      BY <2>1, <2>2 DEF AskUsername, AskedFor, Nameless, Present, NobodyIsAsked, UserIsAsked
    <3>2. QED BY <2>1, <2>2, <3>1 DEF Reads
  <2>3. CASE user' = user /\ asked' = asked /\ (presented' = presented \/ Present("alert"))
    BY <2>1, <2>3 DEF Reads, NobodyIsAsked, Present
  <2>4. QED BY <1>5, <2>2, <2>3 DEF ControllerAnswer
<1>6. QED BY <1>1, <1>2, <1>3, <1>4, <1>5

LEMMA ScreensRead ==
    ASSUME NavTypeOK,
           \/ OpenScreen \/ ShowAlert \/ LoginBlock \/ CloseScreen \/ Dismissed
           \/ UserPressedRegister \/ Logout \/ ToggleForm \/ HandleSkipLogin
           \/ \E a \in Accounts, k \in {"email", "register", "social"} :
                 StartSignIn(a, k)
    PROVE  Reads
<1>1. names' = names /\ user' \in {user, None}
  BY DEF OpenScreen, ShowAlert, Show, LoginBlock, CloseScreen, Dismissed,
         UserPressedRegister, Logout, ToggleForm, HandleSkipLogin, StartSignIn, accountVars
<1>2. CASE OpenScreen \/ ShowAlert \/ LoginBlock
  <2>1. asked' = asked /\ \E s \in Screens \cup {"alert", "login"} : Present(s)
    BY <1>2 DEF OpenScreen, ShowAlert, Show, LoginBlock, history
  <2>2. QED BY <1>1, <2>1 DEF Reads, NobodyIsAsked, Present, Screens
<1>3. CASE Dismissed
  <2>1. user' = user
    BY <1>3 DEF Dismissed
  <2>2. NobodyIsAsked \/ UserIsAsked \/ asked' = None
    BY <1>1, <1>3, <2>1 DEF Dismissed, AskedFor, Nameless, NobodyIsAsked, UserIsAsked
  <2>3. QED BY <1>1, <2>2 DEF Reads
<1>4. CASE CloseScreen \/ UserPressedRegister \/ Logout \/ ToggleForm
           \/ \E a \in Accounts, k \in {"email", "register", "social"} : StartSignIn(a, k)
  <2>1. asked' = asked /\ presented' \in {presented, "closing"}
    BY <1>4 DEF CloseScreen, Close, UserPressedRegister, Logout, ToggleForm, StartSignIn,
                screenVars, history
  <2>2. QED BY <1>1, <2>1 DEF Reads, NobodyIsAsked
<1>5. CASE HandleSkipLogin
  <2>1. asked' = asked /\ presented' \in {presented, "closing"}
    BY <1>5 DEF HandleSkipLogin, AuthenticationComplete, Close, screenVars
  <2>2. QED BY <1>1, <2>1 DEF Reads, NobodyIsAsked
<1>6. QED BY <1>2, <1>3, <1>4, <1>5

LEMMA AnswersReadOrWriteNew ==
    ASSUME NavTypeOK, AccountsInv, SignInAnswers
    PROVE  Reads \/ WritesNew
<1>1. PICK s \in signIns :
         \/ SignInFails(s) \/ SignedIn(s) \/ EmailRead(s)
         \/ AccountCreated(s) \/ Registered(s) \/ RegisterDone(s)
         \/ SocialRead(s) \/ SocialWritten(s) \/ SocialReread(s)
  BY DEF SignInAnswers
<1>2. s.uid \in Accounts
  BY TypeParts, SignInGoesOn DEF RequestsTyped
<1>3. NobodyIsAsked
  <2>1. CASE SignInFails(s) \/ SignedIn(s) \/ AccountCreated(s) \/ Registered(s)
             \/ SocialRead(s) \/ SocialWritten(s)
    BY <2>1 DEF SignInFails, SignedIn, AccountCreated, Registered, SocialRead,
                SocialWritten, NobodyIsAsked, screenVars, history
  <2>2. CASE EmailRead(s) \/ RegisterDone(s) \/ SocialReread(s)
    <3>1. asked' = asked /\ presented' \in {presented, "closing"}
      BY <2>2 DEF EmailRead, RegisterDone, SocialReread, AuthenticationComplete, Close,
                  screenVars
    <3>2. QED BY <3>1 DEF NobodyIsAsked
  <2>3. QED BY <1>1, <2>1, <2>2
<1>4. CASE Registered(s)
  <2>1. NewUser(s) /\ names[s.uid] = None
    BY <1>4 DEF Registered, AccountsInv, NobodyElse, Unused
  <2>2. QED BY <1>3, <2>1 DEF WritesNew
<1>5. CASE SocialRead(s) /\ NewUser(s) /\ names[s.uid] = None
  BY <1>3, <1>5 DEF WritesNew
<1>6. CASE SocialRead(s) /\ names[s.uid] # None /\ user' = Document(s.uid) /\ names' = names
  BY <1>2, <1>3, <1>6 DEF Reads
<1>7. CASE SignInFails(s) \/ SignedIn(s) \/ AccountCreated(s) \/ RegisterDone(s)
           \/ SocialWritten(s) \/ EmailRead(s) \/ SocialReread(s)
  BY <1>2, <1>3, <1>7, AnswerReads DEF Reads
<1>8. SocialRead(s) => \/ NewUser(s) /\ names[s.uid] = None
                       \/ names[s.uid] # None /\ user' = Document(s.uid) /\ names' = names
  BY DEF SocialRead
<1>9. QED BY <1>1, <1>4, <1>5, <1>6, <1>7, <1>8

LEMMA NamesSteps ==
    ASSUME NavTypeOK, AccountsInv, [NavNext]_navVars
    PROVE  \/ Reads \/ WritesNew \/ SaveUserDataOnExit
           \/ \E n \in Names : HandleSelectUsername(n)
           \/ NamedElsewhere
<1>1. CASE UNCHANGED navVars
  BY <1>1 DEF navVars, accountVars, screenVars, history, Reads, NobodyIsAsked
<1>2. CASE Here
  BY <1>2, LaunchReads, ScreensRead, AnswersReadOrWriteNew DEF Here
<1>3. ASSUME NEW p \in Accounts, NEW n \in Names, OtherChooses(p, n),
             stale' = (Outdated' /\ (stale \/ p = user.uid))
      PROVE  NamedElsewhere
  BY <1>3, Zenon DEF NamedElsewhere
<1>4. QED BY <1>1, <1>2, <1>3 DEF NavNext

LEMMA StaleStep ==
    ASSUME [NavNext]_navVars
    PROVE  StaleStays
<1>1. CASE UNCHANGED navVars
  BY <1>1 DEF navVars, StaleStays
<1>2. CASE NavNext
  BY <1>2, Zenon DEF NavNext, StaleStays
<1>3. QED BY <1>1, <1>2

(* A username is not lost, nor replaced behind the back of who was asked   *)
(* for it, whatever answers and saves come in between, unless another phone*)
(* named the account that is in use here.                                  *)
THEOREM NamesAreKept == NavSpec => NamesStay
<1> DEFINE Stay == \A a \in Accounts : names[a] \in Names /\ names'[a] # names[a] =>
                       \/ names'[a] \in Names /\ asked # a
                       \/ stale /\ user.uid = a
<1>1. NavInit => NamesInv
  <2> SUFFICES ASSUME NavInit PROVE NamesInv
    OBVIOUS
  <2>1. AccountsBegin
    <3>1. \A a \in Accounts \ registered : names[a] = None
      BY DEF NavInit
    <3>2. \A a \in Accounts :
             <<"scene", a>> \notin requests /\ <<"controller", a>> \notin requests
      BY DEF NavInit, LaunchRequests, Configure, FetchAllUsers
    <3>3. QED BY <3>1, <3>2, NoneIsNobody DEF NavInit, AccountsBegin, Unused
  <2>2. NobodyElse /\ RegistersAlone /\ NamedInMemory /\ AskedHasNone
    BY DEF NavInit, NobodyElse, RegistersAlone, NamedInMemory, AskedHasNone
  <2>3. QED BY <2>1, <2>2 DEF NamesInv, AccountsInv
<1>2. NavTypeOK /\ NamesInv /\ [NavNext]_navVars => NamesInv'
  <2> SUFFICES ASSUME NavTypeOK, NamesInv, [NavNext]_navVars PROVE NamesInv'
    OBVIOUS
  <2>1. AccountsInv'
    BY AccountsStep DEF NamesInv
  <2>2. NamedInMemory' /\ AskedHasNone'
    BY NamesSteps, StaleStep, ReadsKeepNames, NewKeepsNames, SaveKeepsNames,
       SelectKeepsNames, OtherKeepsNames DEF NamesInv
  <2>3. QED BY <2>1, <2>2 DEF NamesInv
<1>3. NavTypeOK /\ NamesInv /\ [NavNext]_navVars => [Stay]_navVars
  <2> SUFFICES ASSUME NavTypeOK, NamesInv, [NavNext]_navVars, NEW a \in Accounts,
                      names[a] \in Names, names'[a] # names[a]
               PROVE  \/ names'[a] \in Names /\ asked # a
                      \/ stale /\ user.uid = a
    OBVIOUS
  <2>1. CASE Reads
    BY <2>1 DEF Reads
  <2>2. CASE WritesNew
    BY <2>2, NoneIsNobody DEF WritesNew, NewUser, NavTypeOK
  <2>3. CASE SaveUserDataOnExit
    <3>1. user # None /\ a = user.uid /\ names'[a] = user.name
      BY <2>3 DEF SaveUserDataOnExit, NavTypeOK
    <3>2. QED BY <3>1, NoneIsNobody DEF NamesInv, NamedInMemory, AskedHasNone
  <2>4. ASSUME NEW n \in Names, HandleSelectUsername(n)
        PROVE  names'[a] \in Names /\ asked # a
    <3>1. names'[a] = n /\ presented = "username"
      BY <2>4 DEF HandleSelectUsername, UpdateUsername, NavTypeOK
    <3>2. QED BY <3>1, NoneIsNobody DEF NamesInv, AskedHasNone
  <2>5. CASE NamedElsewhere
    BY <2>5, NoneIsNobody DEF NamedElsewhere, OtherChooses, NavTypeOK
  <2>6. QED BY <2>1, <2>2, <2>3, <2>4, <2>5, NamesSteps DEF NamesInv
<1>4. QED BY <1>1, <1>2, <1>3, NavTypes, PTL DEF NavSpec, NamesStay, Stay
=============================================================================

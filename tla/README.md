# Movieskip: specifications, model checking and proofs

Movieskip is an iOS app. It shows one movie after another as a deck of cards;
a swipe to the left excludes the movie, a swipe to the right skips it, a star
puts it on the watchlist, and none of them is shown again. Signed-in users
keep their lists in a Firestore document, others in `UserDefaults`; friends
can compare watchlists. The code is `src/Movieskip/Movieskip/` (about 5,000
lines of Swift, no tests); paths below are relative to it, those of the Firestore
client to `src/Movieskip/Pods/FirebaseFirestore/Firestore/core/src/`. The app's
dependencies are vendored; the one its saves go through, the write path
of the Firestore client, is modelled too.

Everything the app itself does runs on the main thread. What makes it hard is not
threads but callbacks: a tap starts a two second animation, a load is a chain
of network requests, the user's document is fetched twice at launch, the
system calls the scene delegate whenever it likes, and all of them work on
shared variables without asking who else is under way.

## 1. Inventory

| component | state | operations | correct when |
|---|---|---|---|
| Swipe deck: `View/SwipeView`, `View/HomeView/CardView` | `cardViews`, `topCardView`, `swipeAnimationReady`, refill button, running animations | `handleSkip`, `handleExclude`, `handleAddWatchlist`, the pan, `updateCardView`, `configureCards`, `resetMovieData` | the card taken off is the one judged and was filed once; buttons come back; the refill button never covers cards |
| Movie loading: `SwipeView.fetchMovies`, `API/TmdbService`, `API/FilterService` | `FilterService.filter` (query, next page, total), its copy in `UserDefaults`, `moviesToDisplay`, requests in flight | `refillMovies`, `fetchMovies`, the response, `saveFilter`, `fetchFilter`, saving the filter, `authenticationComplete` | every page of a query is shown once; a load ends; its movies are new |
| Session: `Xcode-Default/SceneDelegate`, `API/AuthService`, `Controller/LoginController`, `Model/User`, `Model/LocalUser` | `user`, `localUser`, the Firestore document, `UserDefaults`, launch fetches | `fetchAndSetUser`, `addTo…`, `saveUserDataOnExit`, register, sign in, log out, skip | no verdict is lost or filed to another account |
| Watchlist: `View/WatchlistView`, its table and collection | `userWatchlist` (cache of details) | `fetchAndConfigureMovies`, `displayMovies`, the star | the cache shows the watchlist |
| Friends: `View/FriendsView`, `Controller/CombineWatchlistController`, `FriendCell` | `friendIds`, `userFriends` (cache), `allUsers` | search, add, remove, toggle, display | cache and document agree |
| Matching: `View/MatchingResultsView` | two result tables | `calculateMovieLists` | the tables are the matches of the chosen friends |
| Filter editor: `Controller/FilterController`, `View/FilterView`, `Model/Filter` | the edited copy of the filter | genres, sliders, save, cancel | what is saved is what was chosen |
| Usernames: `Controller/UsernameController` | `allUsers` of the launch, the name in memory and in the document | `handleSelectUsername`, `usernameIsTaken`, `updateUsername` | who has no name is asked for one; names are unique and stay |
| Controller and navigation: `Controller/MovieskipController`, `NavigationButtons` | what is presented, what a dismissal does when it is done | `configureUser`, alerts, presenting, dismissing, `authenticationComplete` | the user is told what happened; an answer closes only its own screen |
| Details, parsing, forms, utilities, app delegate | nothing shared | show, parse, lay out | – |
| Firestore client, write path: `core/`, `local/`, `remote/`, `auth/` of its sources | mutation queues on disk, callbacks, pipeline, write stream, token requests, the cached document | write, change of user, handshake, answer, refusal, idle timer, backoff, restart | writes arrive in order, under their author's token, and are reported once; what was acknowledged is read |
| Other pods | third party | – | – |

How they interact: `MovieskipController` owns the views and is their delegate.
`SwipeView` calls `TmdbService`, whose requests read and move the page of the
shared `FilterService.filter` and whose answers read the lists of the account
in `SceneDelegate`. The deck files verdicts into those lists. The controller
starts loads when the filter is saved or a login completes. `SceneDelegate`
saves lists and filter in three callbacks of the scene. Every alert goes
through `present` of the controller, which UIKit refuses while something else
is presented. Documents are written by `setData` and `updateData` from the main
thread; the Firestore client queues each write on disk on its worker queue, and sends it under a
token which FIRAuth hands over on the main queue.

The hazards of this code, each with its line and the properties that cover it,
are listed in `PROJECT.json`.

## 2. Modules

| module | what it is |
|---|---|
| `MovieIds` | the constants all share: movie ids and "nothing" |
| `Ranks` | how it is told that something comes to an end: numbers in order of weight that fall (`Lower`) |
| `MovieBags`, `MovieBagsProofs` | lists of movies as bags; what two lists of the same length have in common, proved |
| `SwipeDeck` | the deck, its two animations, the buttons, the filing of verdicts |
| `MovieFetch` | loading: the shared filter, requests in flight, saved filter, presented screen |
| `FetchPages` | history variables beside the actions of `MovieFetch`: which pages were requested |
| `SwipeScreen` | the composition of deck and loads under the controller and the scene delegate |
| `SwipeScreenProofs` | proofs about the screen and its parts: the types of `MovieFetch`, `OnePassPerLoad`; `PagesTypeOK`, `NoPageSkipped` and `NoPageRepeated`; the deck's inductive invariant and `OneVerdictPerCard`; the screen implements both parts; `LoadsAccountedFor`, `DeckIsFresh`, `CardsAreUndecided`, `EmptyScreenIsTold`; `LoadsAdvance` |
| `ScreenClaims` | what an alert tells the user, which does not hold |
| `VerdictStore` | abstract: each owner of verdicts has a durable and an open copy |
| `UserSession` | user, local user, document and `UserDefaults` under launches, sign-ins, saves and kills; it implements `VerdictStore` |
| `SessionProofs` | its inductive invariant, `VerdictsStayHome`, the refinement, what the store promises and what follows for the app, `SignInAdvances` and `SignInIsAnswered`, proved |
| `SessionClaims` | what an alert of the registration tells the user, which does not hold |
| `WatchlistCache` | the cache of movie details under overlapping loads, stars, launches and sign-ins |
| `Friends` | the ids of the document, the cache of users, the rows of two screens |
| `FriendsProofs` | its inductive invariant, `AddsNewFriends` and `CombineStaysInRange`, proved |
| `Matching` | the choice of friends, the visits to the results and the two tables |
| `MatchingProofs` | its inductive invariant, `ResultsOfChoice` and `WholeResults`, proved |
| `FilterEditor` | the edited copy of the filter, the table of genres, what is saved and asked for |
| `CopiesProofs` | proofs about the two screens that work on a copy of what is stored: the inductive invariant of `WatchlistCache`, `CacheIsWatchlist`, `ShowsWholeList`; that of `FilterEditor`, `EditorInv`, `SpanHoldsAYear`, `SavesWhatWasChanged` |
| `Navigation` | what the controller presents, refuses and dismisses, the sign-ins that do so, and usernames |
| `NavigationProofs` | its types, `NamelessIsAsked`, `AnswersCloseLogin`, `ClashesAreLate` and `NamesStay`, proved |
| `WriteLog` | abstract: pending writes per user, taken by the server in order, reported once |
| `FirestoreWrites` | the write path of the Firestore client, with FIRAuth and the server; it implements `WriteLog` |
| `FirestoreProofs` | its inductive invariant, `TakenFromItsAuthor`, `AcknowledgedIsRead`, `ToldTheTruth`, that it implements `WriteLog`, `NeverStuck` and `ComesToRest`, proved; that ranks do not fall for ever (`RanksEnd`) |
| `MC…` | values of the constants for TLC, one module per component |

### SwipeDeck

`cards` is `cardViews` with the last element on top, as in the view
hierarchy; `topCard` is `topCardView`, kept apart because the code keeps it
apart. `Tap` is `handleSkip`/`handleExclude`: it files the verdict, sets
`swipeAnimationReady` to false and starts the animation (`swipeFlight`);
`SwipeAnimationDone` is the completion, which takes off *whatever is on top*.
`PanRelease` is the end of a drag far enough; its completion `PanDone` files
the panned card and takes off the top one. `AddWatchlist` is the star, which is
not disabled by an animation. `Install` is the `didSet` of `movies`, which
rebuilds the deck and hides the refill button; `resetMovieData` is
`Install(<<>>)`. `SetAccount` stands for any assignment of `user` or
`localUser`. `Record` drops the verdict while there is neither, as `addTo…`
does.

Two history variables: `verdicts` counts the verdicts filed since the top card
last changed, and `disturbed` says that another actor stepped in while an
animation ran. The properties that say each card is filed once are stated of
undisturbed swipes; what goes wrong in the disturbed ones (a star or a response
during the two seconds makes the completion remove a card nobody judged) is
what the code does, and the model does it too.

Abstractions: one finger, and a pan only on the top card (the start of a pan
removes the animations of all cards, `CardView.swift:94-96`, so there is at
most one); the three lists are sets, because `removeAlreadySwiped` only asks
for membership, and `verdicts` notices what the sets hide.

### MovieFetch

`filter` is the one static `FilterService.filter`: which query (`id` stands
for genres, years and popularity), `page`, the next page to request, and
`totalPages`. A load is a chain of requests with the number of the load;
`Send` is `TmdbService.fetchMovies`, which builds the request from the shared
page and moves the page on before the answer is known. `Respond` is the whole
response: `totalPages` overwritten, swiped movies left out
(`Unseen`), the rest appended to `moviesToDisplay`, and either the end of the
load or its next request. The recursive call passes the filter captured when
the load started, and tests that captured value again: it never changes, so it
always passes, and the action has no such guard. `FetchMovies` is the first
call, with its test `page == totalPages`.

`modal` is what the controller presents; `Present` refuses a second one.
`draft` is the copy of `totalPages` the filter screen took when it was opened.
`SaveFilter` is one call of `saveFilter`, which a scene callback makes at any
moment; it takes back a page, in memory and in `UserDefaults`. `LoadFilter` is
`fetchFilterAndMovies`, which runs once per launch. TMDB is external: a
catalog of pages per query, and pages past the last one are empty until
`ServerMaxPage`, above which it answers with an error.

Left out: the default `?? 10` for an answer without `total_pages`; the URL
string; a response without movies and without error, which cannot happen.
In the runs the pages of one query have no movie in common (TMDB's order is
taken as stable during a session).

`LoadRank` is what the loads have before them: loads, saves and the launch filter still to
come (`LoadBudget`), requests in flight, pages up to the last one TMDB serves, and the requests in
flight for one of these. `LoadsAdvance` says that each step on a load lowers it: the recursive call has no
test that ends it, so what ends a load is the shared page, which other loads move on as well and a
save takes back.

### FetchPages

`asked` lists the pages requested since the filter was last set, `firstPage`
is the page it was set to, `rewound` says that a save took a page back since.
`GoOn`, `FirstPage` and `SavedPage` sort the actions of `MovieFetch` by what
they do to the page; together they are all its actions.

### SwipeScreen

`SwipeScreen` extends both parts and puts their actions together as the code
does: a refill resets the deck *and* starts a load, the answer that ends a
load installs the deck, saving the filter leaves the deck in place, a login
resets it when its screen is gone, or whatever screen is there by then: a login that was left with
sign-ins in flight (`signInsLeft`) is answered late, over a dialog, the filter screen or the deck itself, and
`AuthenticationComplete` asks for none of this. `UserSwipes` needs a screen that nothing
covers. `RefillMovies` needs the button to be visible. Answers leave out
what is in the lists of the account of that moment (`Recorded`).
`sceneFetch` and `userFetch` are the two fetches of the user's document at
launch, by `SceneDelegate.init` and by `configureUser`; each may replace the
account at any moment, or fail. The contents an account may have are a
constant here; `UserSession` says where they come from.

History: `overlaps` counts the loads the refill button does not guard; `old`
holds the movies in the lists ever since the last load began; `clean` says that
since a load was started on an empty screen no two actors got in each other's
way. `Stuck` is a screen with neither cards, button nor request: nothing but the
filter screen or a restart helps, and `EmptyScreenIsTold` asks that it only comes about
under a screen that explains it or that the user is busy with.

### VerdictStore

Seen from outside, keeping verdicts is a set per owner. Owners are the accounts and
the phone itself (`Local`), whose verdicts are given without an account.
`durable` is what survives the app, `open` what it works with. In one step each
owner's copies stay, take a verdict, are loaded, saved, closed, or founded: a new
account starts with the verdicts of the phone. `SavedStays` is what users
expect of it: a saved verdict stays saved.

### UserSession

| variable | in the code |
|---|---|
| `auth`, `registered` | `Auth.auth().currentUser`, and the accounts Firebase Auth has |
| `docs` | the documents of the collection `users` |
| `prefs`, `skippedLogin` | the lists and the flag in `UserDefaults` |
| `user`, `localUser` | the two variables of `SceneDelegate` |
| `fetches` | the launch fetches in flight: `fetchAndSetUser` of the scene delegate, `configureUser` of the controller |
| `flow` | the sign-in in flight: kind, request under way, account, whether its form is still shown |
| `screen` | whether `LoginController` is presented |
| `other` | `user` on a second phone |
| `given` | history: the verdicts given to each owner |

`Judge` files a verdict for the user, else for the local user, else for nobody.
`SaveUserDataOnExit` is any of the three scene callbacks: the whole document is
overwritten, possibly refused without notice; the local lists are overwritten when
a local user is loaded, and `skippedLogin` is set back to false
(`SceneDelegate.swift:170`), so that the next launch asks again. `Relaunch` is a kill at any moment and the next start:
what is in memory is gone, requests in flight are forgotten.

A sign-in is a chain of requests, one action per answer. By email (`SignedIn`,
`EmailRead`): the document is read, and an account without one, or a form that is gone,
ends in silence. Registration (`AccountCreated`, `Registered`, `RegisterDone`):
the account exists before its answer arrives, the user is set before the document is
written, the write may be refused. By Google or Facebook (`SignedIn`, `SocialRead`,
`SocialWritten`, `SocialReread`): the document or a new one, and then the document
of *whoever is signed in by then* once more. `SignInFails` is the failure of any
request, at every step. Meanwhile the user can skip the login, go back from the form, judge
movies, log out, and the launch fetches may arrive. `AnswersLeft` is how many answers a sign-in may
still wait for; `SignInAdvances` says that each takes it on, `SignInIsAnswered` that it
never waits at a step its kind has no completion for. Two of the steps, `written` and `refused`, wait for the
server to acknowledge a new user (`AwaitsServer`): the completion of `setData` comes with the
acknowledgement and not before (`core/sync_engine.cc:419`), so offline, or once another user is signed in, never.

Abstractions: the three lists of an owner are one set, because the code reads, writes,
copies and overwrites them together. One sign-in is in flight at a time, which is a bound: `Navigation` has
any number of them.
Firestore shows a device its own writes at once and, once its worker queue has stored them,
keeps them over a restart, so a read returns the document of the moment its answer comes,
and a write takes effect, or is refused, when it is made. Of the second phone, which uses the accounts of `SecondPhone`, only what it does to the
documents is modelled. Names, friends and pictures of a user belong to other components.

### WatchlistCache

`userWatchlist` is the cache of the scene delegate. `FetchAndConfigureMovies`
is the whole function: without an account nothing happens, a cache as long as
the watchlist is shown, anything else is emptied and loaded anew, one request
per id. `calls` has the requests of each load that are in flight and `wanted`
the length its completion captured. `DetailsAnswer` appends to the shared cache
and displays it when its length *equals* the captured one; what it appends is the movie asked for or,
for an HTTP error with a body in JSON, the movie of id 0 (`Unknown`), as in `Matching`. `DetailsFail` does
nothing else, as a request that fails otherwise has no completion. `AddWatchlist` is the star,
which goes to the account and to the cache. `screen`, `launch` and `signIn` are
what may change the account beside it: the answers of the launch, logout,
skipping, and a sign-in whose answer sets the user before the form is gone.

Lists are bags (`[Movies -> Nat]`, `MovieBags`): the code compares lengths and never
positions. History: `clean` says that one load has run for the account there
is, without a failure; `starred` that a movie was starred while it ran.

### Friends

`friendIds` is the list of the document, `allUsers` the users fetched at launch,
`userFriends` the cache, all bags or sets of ids. `FillCache` is the beginning
both screens have in common: they look the ids up only while the cache is
empty. `ConfigureAndShowFriends` shows the cache, or leaves the rows alone when
it has nothing to look up in. `OffersToAdd` and `OffersToRemove` are
`toggleFriend`: the button does what *its image* says, and `marked` are the rows
with the image for removing. `ReloadFriendsTable` is the table of the combine
screen, counted from `friendIds` and read from `userFriends`; an index out of
range sets `crashed`, and nothing follows. Answers and sign-ins change user and
list as in `UserSession`. History: `inStep` says that the cache was filled for
this very account and list.

Names only matter to the search. `fetchedAs` has those of the users fetched at launch, `name` the
one the user has in memory, from whichever document was read, or chosen on the username screen
(`UpdateUsername`). A text stands for the names it begins (`Searches`), and
`SearchAndShowResults` leaves out, as the code does, whoever has the *name* of the user in memory. A
user who was named since the list was fetched is in it under another name, so he finds himself, and
can become his own friend; the history variable `renamed` says that since the cache was filled the two
names have differed, and what the properties say of the user himself is said for `~renamed`.

### Matching

A visit to the results computes both lists of ids (`Matches`, the two loops of
`calculateMovieLists`) and requests the details of each movie; what has arrived
is collected per visit in `got`, because the code collects it in local variables,
and put into a table when there are as many as ids. Going back, choosing others
and looking again leaves the requests of earlier visits in flight; closing the
screen leaves them to a controller that is gone. A request without an answer in JSON has no
completion (`DetailsFail`); an HTTP error with one is a success like any other, since nothing
validates the response, and makes a movie of id 0, `Unknown`, which `DetailsAnswer` counts like
the movie that was asked for. The lists of the friends are
constants: they are those of the fetch at launch. History: `asked` (who and what
each visit was about), `failed` (the visits of which a request failed, told or not), `overlapped`.

### FilterEditor

`MovieFetch` has the query of a filter as one value; here is what it is made of:
genres, two years as the fractions a slider gives, in tenths, and the switch.
`ShowFilter` copies the filter, `HandleSave` replaces years that are too close
(`SavedYears`) and stores the copy. `AddGenreToFilter` is what the loop of that
name does to the list. `cells` are the rows on the screen with a checkmark:
`DidSelectRow` sets it from what the loop returns, `CellForRow` from the filter
when a row is scrolled onto the screen, for a cell that was used before (`spare`);
the heading keeps whatever the cell had. `Launch`, `FetchFilter`, `SaveFilter` are
what happens to the filter beside the screen. `FilterUrlString` is what the request asks
for. History: `changed` has the genres and controls the user has changed, a genre tapped
twice not among them; `stale` says that the saved filter was loaded while the screen was open.

Left out: the labels beside the sliders, which show the value before the last
change; the URL's text; the numbers of the genres, of which Adventure and
Fantasy share one; the minimum of the upper slider, which is a matter of
`MaxYears`; page and total, which are in `MovieFetch`.

### Navigation

`presented` is the one screen over `MovieskipController`: `Present` refuses a
second without a word, and "closing" is a screen whose dismissal is being animated,
which still counts. `after` is what the completion of that dismissal will do: ask for a username
(`authenticationComplete`) or present the login (`goToRegister`); `loginDue` is the block
`presentLoginController` has dispatched. Of an account the model has its registration, the username
in its document (`names`: a name, empty, or no document) and the user in memory; `allUsers` are
the names fetched once per launch.

`ConfigureUser`, `SceneAnswer`, `ControllerAnswer` and `AllUsersAnswer` are the launch: two
fetches of the same document, of which only the controller's asks for a name, and `viewDidLoad`,
from which UIKit may refuse to present, because the view is in no window yet. `signIns` is the
*set* of sign-ins in flight, each with its request and whether its form is still there;
their actions have the names of `UserSession`. `AuthenticationComplete` dismisses whatever is
presented; where nothing is, or a dismissal is under way already, UIKit promises nothing of the
completion, and the model does both. `HandleSelectUsername` checks the name against
`allUsers` (without them every name is taken), and `UpdateUsername` gives it to whoever is the
user *by then*, in memory and, if it is not refused, in the document. `OtherChooses` is
the same on another phone, for any account without a name, the one in use here among them: memory then
has no name, or gets another one, and the next save of the whole user writes that over the document
(`SaveUserDataOnExit`). The other phone only names; that a save of *its* memory does the same to a name chosen
here is not modelled.

History: `asked` is the account the username screen was opened for, unless it was named elsewhere
before or since; `stale` says that the account in use was named on another phone and is still called
otherwise in memory; `unasked` says that a user without a name slipped through, in one of the ways the
properties name; `late` has who chose a name since `allUsers` was fetched; `overlap` says that the
login was left with a sign-in in flight.

Left out: which texts are valid names; what a screen presents over itself; the four tabs,
which present nothing.

### FirestoreWrites and WriteLog

`WriteLog` is what the app may rely on: each user has a sequence of pending writes; the server
takes those of the active user in their order, again from the first after a lost connection;
the oldest is dropped when it was taken or refused, and the app is told at most once.
`ReportsAreTrue` is what it is told: saved only what was taken, and never both.

`FirestoreWrites` has one action per task of a queue:

| variable | in the code |
|---|---|
| `authUser`, `request` | FIRAuth's current user and the token request it has not answered |
| `mainQueue` | what FIRAuth has dispatched to the main queue: notifications and tokens |
| `notified` | `current_user` of `FirebaseCredentialsProvider`; the token counter is `fresh` of a request |
| `workerQueue` | the client's worker queue, first in first out: writes, changes of user, tokens |
| `user`, `callbacks` | `current_user_` and `mutation_callbacks_` of `SyncEngine` |
| `queues`, `nextId` | the rows of `LevelDbMutationQueue` and its `next_batch_id_` |
| `remote` | `RemoteStore`'s `write_pipeline_` and its `WriteStream`: state, handshake, idle timer, token, and what is on the wire both ways |
| `cache`, `snapshot` | the version of the document in the remote document cache, and one a watch snapshot brings |
| `log` | the server: what it has committed, by whom and under whose token |
| `made`, `switches`, `faults` | counters for the bounds |

`Fill` is `FillWritePipeline` with all it calls: batches after the last one of the pipeline, up to
`MaxPending`, sent at once if the handshake is done, an idle timer for an empty pipeline, a start for a
stopped stream. `StartIfNeeded` backs off after an error. `HandleCredentialChange` restarts
the network also when only the token is new. `NoticeUser` outdates every token asked for so
far, and `PassToken` asks again when it meets one. A close of the stream drops the
tokens on their way (`close_count_`). `HandshakeComplete` sends the whole pipeline;
`MutationResult` takes the front of it for the batch that was acknowledged; `StreamFails` keeps it,
`WriteError` rejects its front. `Relaunch` is a kill at any moment: what the worker queue
had not stored yet is lost, and so are the callbacks. Restarting at a change of user counts the
ids anew from the rows of the disk (`LoadNextBatchId`).

`Rank` is what the client, FIRAuth and the server have before them: what the user and the network may
still do (`Budget`), tasks, writes that are not settled, the answer that there is no token,
how far the client is from a stream with a handshake, and what is to be sent and read. `ComesToRest` says that every step
lowers it: token requests that are made again, streams that are started again and snapshots that are fetched again
are so for reasons that do not come back. `NeverStuck` says that while writes wait somebody has a
step to take.

What the model does because the code does, and a reader may not expect:

- `setData` survives a kill only once the worker queue has run it, and its completion waits for
  the server.
- A permanent error rejects the *oldest* write of the pipeline. The server may have refused a later
  one, while the answers to those before it were not read yet; a write that was committed may so be
  reported as refused, and a refused one is sent again (`remote/remote_store.cc:504`). That
  is why `WriteLog` lets any oldest write be refused.
- After a lost stream writes that were committed are committed once more.

Abstractions: a write replaces the one document of the model, and its contents are its number; all streams
the client closes are dead for the server at once; the server does not end a stream with
status OK while writes are pending (`HARD_ASSERT`, `remote/remote_store.cc:456`); an error of
the handshake, permanent or not, only backs off. Queries and listeners, limbo resolution,
transactions and the garbage collection are left out.

## 3. Runs

Every run finishes within four minutes with two workers.

| run | module, cfg | what it shows |
|---|---|---|
| `deck` | `MCSwipeDeck` | `DeckInv` (inductive invariant), `OneVerdictPerCard`, `ButtonsRecover` |
| `pages` | `MCFetchPages` | `NoPageSkipped`, `NoPageRepeated`, `OnePassPerLoad`, `LoadsAdvance`, `LoadsEnd` |
| `screen` | `MCSwipeScreen`, `Screen` | `LoadsAccountedFor`, `CardsAreUndecided`, `DeckIsFresh`, `EmptyScreenIsTold`; the screen implements `DeckSpec` and `FetchSpec` |
| `session` | `MCUserSession`, `Session` | `SessionInv` (inductive invariant), `VerdictsStayHome`, `SignInEnds` (a sign-in ends or waits for the server); the session implements `VerdictStore` until the second phone has a user (`KeepsVerdicts`) |
| `watchlist` | `MCWatchlistCache` | `WatchInv` (inductive invariant), `CacheIsWatchlist`, `ShowsWholeList` |
| `friends` | `MCFriends` | `FriendsInv` (inductive invariant), `AddsNewFriends`, `CombineStaysInRange` |
| `matching` | `MCMatching` | `MatchInv` (inductive invariant), `ResultsOfChoice`, `WholeResults` |
| `filter_editor` | `MCFilterEditor` | `EditorInv`, `SpanHoldsAYear`, `SavesWhatWasChanged` |
| `navigation` | `MCNavigation`, `Navigation` | `NamelessIsAsked`, `NamesStay`, `ClashesAreLate`, `AnswersCloseLogin` |
| `firestore` | `MCFirestoreWrites`, `Firestore` | `StreamInv` (ids, callbacks, pipeline and stream agree), `TakenFromItsAuthor`, `AcknowledgedIsRead`, `ComesToRest`, `Settles`; the client implements `WriteLog` (`LogSpec`) |
| `claim_…` | `MCSwipeScreen` or `MCUserSession`, `Claim*` | two sentences of the user interface that the code does not keep |

Deadlock is checked in `deck`, `matching`, `filter_editor`, `navigation` and the runs of the
session. In `friends` a crash is the end. In the others the bounds on loads,
saves, stars, writes and failures make the system end in a state in which it waits for its
user, so the check is off.

**Bounds.** *deck*: two movies, all decks up to three cards (with repetitions),
all contents of the lists. Three cards are the one taken off, the one under it
and the rest; the graph is finite without further bounds. *pages*: a query
with two pages and one with a single page, three movies of which one is on a page
of both queries; two loads are the fewest that overlap, and both may be in flight
with a save, a launch or a filter change between any two steps. TMDB refuses pages
above the second, so the chain of one query gets an empty page past its last one before it fails, and
that of the other fails right after it. `Enough = 1` (15 in the code) makes a load need both pages when the account has
seen the first; in *screen*, `Enough = 0` makes it end with one. *screen*: one query with one page of two movies, which
is the last TMDB serves (pages and queries in turn are the matter of *pages*), two loads, one kind of verdict of the buttons and pans (`Swipes`: which of
the two lists it goes to makes no difference to `Recorded`), and accounts that are
empty or have one movie. `MaxStarts` and `MaxSaves` bound loads and saves.
*session*: two accounts, which may be new or have a document at the start, and one movie: a
verdict is lost, kept or misfiled independently of the others, and two accounts are
what a confusion needs. Nothing is cut off: saves, kills and sign-ins are repeated
without limit. One of the accounts (`SecondPhone`) is used on a second phone as well, so that
both kinds are there. *watchlist*: two movies and
all watchlists of them, of which two are equally long and different, the case a comparison of
lengths cannot see; two loads (`MaxLoads`) overlap, one star (`MaxStars`), and any answer may be an error that counts as a movie; the run is symmetric in the movies (`Alike`). *friends*: three users, so that a user
can have two friends, and be or know somebody the fetch at launch has not seen; three names, which may be one
each, or shared by two, or missing when the list is fetched; texts that begin all names or one; nothing is cut off. *matching*: two friends who have and
exclude different ones of two movies, watchlists with one of them up to twice, two visits (`MaxVisits`) that
may overlap. *filter_editor*: two genres and the heading on a screen of two rows, so that one row is
always off the screen and cells are used again; years in one year, and one year apart. Nothing
is cut off. *navigation*: two accounts and two names, so that a name may be free, taken
before or after the launch, and a sign-in may replace the user who is being asked; one sign-in at
a time (`MaxSignIns`), which may be left and answer late; the run is symmetric in accounts and
names. *firestore*: three writes for a pipeline of two (`MaxPending`, ten in the code),
so that one waits on disk; two users (one of them may be the signed-out one) and two troubles
(`MaxTroubles`), each a change of user or token (`MaxSwitches`) or a lost stream, network, token or process (`MaxFaults`)
at any step, besides any number of idle timeouts and refusals. Two changes bring the first user back while its
old callbacks wait; one of each is a failure under a change of user; two failures are one while the first is being repaired.
The phone begins with the first user, as the two are alike.

**Fairness.** `DeckFairness`: UIKit runs the completion of every animation,
also of one whose view was removed. `FetchFairness`: every request is answered
or fails, because Alamofire calls its handler in either case, at the latest
after the timeout of `URLSession`; it is stated per load, since an answer to
one load must not count for another. In the session,
`SessionFairSpec` asks that signing in, creating an account and reading a document are answered at last, if
only by an error, as these need the network and say so when there is none. It does not ask it of
`setData`, whose completion waits for the server and for its user: `SignInEnds` says that a sign-in ends
*or comes to wait for that*, and nothing else makes it hang. `FirestoreFairness`: the queues run their tasks and the backoff timer goes
off, FIRAuth answers a token request, the server answers a handshake and a write; it is not
assumed that the connection lasts, that an idle timer goes off, or that a watch snapshot
comes. Failures and changes of user are bounded, so `Settles` says that writes are settled once
these stop. Nothing the user does is assumed to happen.

**The claims.** Each claim run checks one sentence the app tells its user,
and each is violated by a short run of the model that a user can follow on a phone:

- `NoMoreMoviesIsTrue`: "There are no more movies with this active filter" is
  shown when `page == totalPages`, but `page` is the *next* page: the last one
  was never requested (`SwipeView.swift:103`).
- `HomeHasLists`: "please try closing the app and starting again": an account
  without a document leaves every later launch with neither user nor local user, and
  verdicts are dropped (`MovieskipController.swift:65`).

The models also do the following, which the code does and no run is spent on:

- A load that finds too few movies asks on past the last page, since the
  recursive call tests a captured filter (`SwipeView.swift:123`); the page of a failed
  request is not given back (`TmdbService.swift:21`); a movie swiped during a load may be in
  the deck that load installs (`SwipeView.swift:118`).
- A load that fails leaves an empty screen without its refill button
  (`SwipeView.swift:131`); `EmptyScreenIsTold` says that its alert is shown, or that the user is
  looking at another screen, under which UIKit refused it.
- A sign-in that answers after the login was left dismisses whatever is presented
  (`MovieskipController.swift:214`). The username screen is refused while anything else is presented, and nobody
  presents it again (`MovieskipController.swift:127`); it names whoever is the user when the button is
  pressed (`AuthService.swift:122`), and two users who choose the same name after both launched get it
  (`UsernameController.swift:98`).
- A save replaces what another phone has written (`SceneDelegate.swift:175`),
  which is why `KeepsVerdicts` is about one phone. "Continue without login" reads the
  local user again, over verdicts not saved yet (`LoginController.swift:125`). Answers do
  not ask who is signed in by then: one after a logout brings the user back
  (`LoginController.swift:142`).
- A cache as long as the watchlist of another account is shown as its own
  (`WatchlistView.swift:76`); one failed answer, and the list is never
  displayed by its load (`WatchlistView.swift:83`). `clean` excludes both.
- A search made before the cache was filled offers friends to be added a second
  time (`FriendsView.swift:131`), and a cache that is not empty is never looked up
  again, also not for another account. A friend missing from `allUsers`, or a document that
  arrives after the cache was filled, makes the combine table read past its end
  (`CombineWatchlistController.swift:182`): the crash the model reaches, and the
  condition of `CombineStaysInRange`.
- An earlier visit to the results may overwrite the tables of a later one; a
  table without matches keeps the movies of the visit before; one failed request, and it
  is not filled (`MatchingResultsView.swift:90`); an error with a body in JSON fills it with an entry that is
  no movie (`TmdbService.swift:68`).
- A user who was named since the launch finds himself among the others, and may add himself
  (`FriendsView.swift:124`).
- A name chosen on another phone while the account is in use here is overwritten by the next save
  (`SceneDelegate.swift:175`); `NamesStay` allows this case only.
- A sign-in that has written its new user hangs until the server has it, under a login that is left only by
  skipping it (`AuthService.swift:102`).
- A launch that begins with the login screen never loads the saved filter, and
  the next save overwrites it (`SceneDelegate.swift:52`); a filter saved before the
  document arrives is replaced by the one in `UserDefaults`, one that arrives while the
  screen is open is lost with the next save (`FilterView.swift:14`). The lower year
  itself is not asked for (`Filter.swift:19`).

## 4. Proofs

TLAPS checks the following for every set of movies, catalog, number of loads
and saves and every content of accounts and `UserDefaults` that the named
assumptions on the constants allow.

- `DeckInvariant`: `DeckSpec => []DeckInv`. `OneVerdictPerCard` is not
  inductive: to know that the completion finds its own card on top, filed once,
  one needs that `topCard` is the last card (`TopIsLast`), that an animation that
  was not disturbed is the only one and is of the top card
  (`FlightIsTopCard`), that its verdict was counted (`VerdictsAccounted`) and is
  in the lists (`FlightIsFiled`), that the buttons are enabled exactly when no
  button animation runs (`ReadyIffNoFlight`), and that a deck with cards hides
  the refill button (`RefillOnlyWhenEmpty`). `DeckInv` is their conjunction
  with the types. The proof has one step per action; what `updateCardView`, filing and
  the sequence operators do is proved once in lemmas.
- `DeckFilesOnce`: `DeckSpec => OneVerdictPerCard`, from `DeckInv`.
- `FetchTypes`: `FetchSpec => []FetchTypeOK`. It holds as it stands; its content is
  that the page stays at least 1 through `saveFilter` and every interleaving.
- `PagesNotSkipped` and `PagesNotRepeated`, from the invariant `PagesInv`: the next page is never
  below 1, and unless a save intervened, the pages asked are exactly `firstPage`,
  `firstPage + 1`, … up to the one before `filter.page`, in this order.
- `ScreenRunsDeck` and `ScreenRunsFetch`: `Spec => DeckSpec` and
  `Spec => FetchSpec`. The refinement mapping is the identity on the
  variables each part has. They need `AnyDeck` (any list of movies may be
  installed; in the runs `Decks` is every list a load can build within the
  bounds), and the types of both parts as an invariant, to see that what a response
  installs is a list of movies.
- `ScreenLoads`: `Spec => []LoadsAccountedFor`, from the invariant with
  finiteness of the requests. Two lemmas carry it, one for steps that start no load and
  one for those that do.
- `ScreenShowsFresh`: `Spec => DeckIsFresh`, from the invariant that the movies
  gathered so far have none in common with `old`.
- `PagesTypes`, from `PagesInv` as well.
- `OnePass`: `FetchSpec => []OnePassPerLoad`, under `OncePerQuery`: TMDB lists a movie on one
  page of a query, and once. Without it the property is false, as the code appends whatever
  comes; the runs' catalogs are shown to satisfy it (`ASSUME OncePerQuery` in their modules). The
  inductive invariant (`PassInv`) says what the one load has gathered: only movies of the
  pages *before* the one in flight, of the query in flight, so that the next page brings none of them.
- `ScreenCardsUndecided`: `Spec => []CardsAreUndecided`, under `AnyDeck` and `OncePerQuery`. The
  invariant (`UndecidedInv`) joins four parts that are proved in one go: `clean` implies that the
  load is the only one (`pure`), so that `PassInv` gives a deck without repetitions; while it runs
  there are no cards and no animations, and what it has gathered is without a verdict
  (`QuietLoad`); afterwards the only card with a verdict is the one the animation of the buttons
  is taking off (`OnlyTopDecided`), and it is gone before the next one is judged.
- `ScreenTellsEmpty`: `Spec => EmptyScreenIsTold`. No strengthening is needed: the proof says for each
  step that may take the last card, the button or the last request away what else it shows.
- `SessionInvariant`: `SessionSpec => []SessionInv`. Types alone are not enough for the
  refinement: a registration writes a whole document, and this loses nothing
  only because the account is new (`NewAccountIsNew`: no document, and nobody
  works for it), which in turn needs that every account in use anywhere is known to
  Firebase Auth (`AccountsKnown`), which refuses to create it again.
- `SessionKeepsOwners`: `SessionSpec => []VerdictsStayHome`, for any number
  of accounts and with the second phone. With `SessionInv` it is inductive.
- `SessionKeepsVerdicts`: `SessionSpec => KeepsVerdicts`, the refinement of `VerdictStore`. The
  mapping (`Durable`, `Open`) makes the phone and each account an owner; each action is
  shown to be one step of the store *for every owner*, up to the first step after
  which the second phone has a user.
- `SavedVerdictsStay`: until then no document and no list in `UserDefaults`
  loses a verdict. The invariant of the store is that an open copy contains its durable copy
  (`OpenHasDurable`), its lemma `StepKeepsSaved`; the theorem carries it over the
  refinement.
- `WatchInvariant`: `WatchSpec => []WatchInv`, for every set of watchlists and number
  of loads and stars. The strengthening is `NothingLost`: movie by movie, what the
  cache has and what the load has under way make up the watchlist. Comparing lengths,
  as the code does, says nothing of which movies are there; the proof shows that each
  action of an undisturbed load keeps the equation, and that every other action ends
  `clean` or leaves both sides alone.
- `WatchlistKept`: `WatchSpec => []CacheIsWatchlist`, from `WatchInv`.
- `SameLength` (`MovieBagsProofs`): of two lists of which one has no movie more often than the other,
  the lengths are equal only if the lists are. It is what the code's comparisons of lengths rest
  on, and it holds for finite sets of movies only (`MoviesAssumption`). `Length` is
  `SumFunction` of the community modules, a recursive function on sets. An induction rule
  cannot be cited here, as it takes a predicate; `FromZeroOn` states it of a *set* of numbers
  (a set that has 0 and the successor of each member is `Nat`), and with it the partial sums are shown to
  exist, for sets of at most n arguments, and then compared.
- `WholeListShown`: `WatchSpec => ShowsWholeList`. The load waits for the length of the very
  watchlist it is for, as long as nothing was starred meanwhile (`LengthTold`); by `NothingLost` the
  cache has no movie more often than it; so by `SameLength` the comparison succeeds
  exactly when nothing is left to come.
- `FriendsInvariant`: `FriendsSpec => []FriendsInv`, for every set of users, document and
  search. `CacheInStep` needs that rows are known users (`RowsAreOthers`, which also says that as long as
  the names agree no row offers the user: the search leaves out his name, so that he is not in it) and that the
  buttons tell the truth (`ButtonsAgree`): a button that lies would add or remove on one
  side only.
- `FriendsAddedOnce` and `CombineInRange`: `AddsNewFriends` and
  `CombineStaysInRange`, from `FriendsInv`. For the second, a cache in step whose friends are all
  known has as many members as the list, so every row has its index.
- `MatchInvariant`: `MatchSpec => []MatchInv`, for every choice, watchlist and number
  of visits. `VisitsAccountedFor` ties requests and answers of each visit to what it
  asked for; `LastVisitShown` is what the tables owe to the last one.
- `ResultsAreMatches`: `MatchSpec => []ResultsOfChoice`, from `MatchInv`: what the two
  loops keep is what the definition of a match says.
- `ResultsAreWhole`: `MatchSpec => []WholeResults`, also for visits that overlap or of which requests
  fail, where `VisitsAccountedFor` says nothing. What is left there is `NothingExtra`: what has
  arrived and what is under way is, for every real movie, nowhere more than what the visit asked for. Then a
  list as long as the ids and without an `Unknown` entry has all of them, by `SameLength`; one with such an
  entry still has no movie too often.
- `FilterInvariant`: `EditorSpec => []FilterInv`, for every list of genres without repetitions, size of
  the screen and position of the sliders. The invariant adds to `EditorInv` that the years of the
  filters in use, though not of the edited copy, are more than a year apart (`YearsFarApart`), and
  that `changed` is the difference of the copy and the filter, field by field (`ChangesTracked`). From it
  `CheckmarksAreRight`, `AsksForWholeYears` and `SavingIsFaithful`: `EditorInv`,
  `SpanHoldsAYear` and `SavesWhatWasChanged`. That genres and controls have different names
  (`EditorAssumption`) is a matter of the history variable only.
- `NavTypes`: `NavSpec => []NavTypeOK`, for any accounts, names and sign-ins at once. Its
  content is that a form is only pushed while the login is presented, and a completion
  only waits while a screen is being dismissed.
- `NamelessAsked`: `NavSpec => []NamelessIsAsked`, inductive with the types. The proof says
  for every action that sets a user who is going to ask for the name, or sets `unasked`.
- `AnswersCloseTheLogin`: `NavSpec => AnswersCloseLogin`, from the invariant `SignInsAtLogin`: while
  sign-ins are in flight the login is presented, unless it was left with one.
- `ClashesLate`: `NavSpec => ClashesAreLate`, from `LateInv`. That `allUsers` is fetched once
  (`FetchedOnce`) and that every name in a document is listed or late (`ListedOrLate`) would
  not do: a name may come from memory with a save of the whole user, and so it is
  also needed that a name in memory was in its document or is late (`NameInMemory`).
- `NamesAreKept`: `NavSpec => NamesStay`, from `NamesInv`. A name in a document is
  written by a choice of a name, here or elsewhere, which writes another name; by a save of the whole user;
  and by a new document. A sign-in by Google or Facebook only makes one where it has just found
  none. A registration asks nobody, and overwrites nothing
  because the account that is being created is known to nobody else (`AccountsBegin`, `NobodyElse`,
  `RegistersAlone`: for any number of sign-ins at once this takes all three); a save keeps the
  name, because the user in memory has one whenever the document does (`NamedInMemory`), unless the account was
  named elsewhere while it was in use (`stale`); and the account
  the username screen was opened for has none until it is chosen, and the same one in memory then
  (`AskedHasNone`). That `stale` stays true until memory and document agree again is a lemma of its own
  (`StaleStep`), as is what naming elsewhere does to the invariant (`NamedElsewhere`).
- `StreamHoldsTogether`, `WritesUnderTheirAuthor`, `AcknowledgedStays`: the three invariants of
  `FirestoreWrites`, for any number of users, writes, changes of user and failures and any size of the
  pipeline, from one inductive invariant (`FirestoreInv`). To `StreamInv` it adds what
  the queues between FIRAuth, the main queue and the worker queue will bring: the last change of user in each
  is the one that is current at its end (`LastUser`); a token that is fresh when it is passed
  belongs to the user of that moment (`MainQueueAgrees`); every write and token of the worker queue finds
  the user it was made for (`WorkerQueueAgrees`); rows and open streams are their user's
  (`AuthorsAgree`). The invariant falls into parts that actions disturb separately (`StreamPart`,
  `QueuePart`, `RestPart`), each with a lemma per action. That a callback finds its write although the ids are
  counted anew at a change of user needs that the new next id is above every row of every user
  (`NextBatchId`).
- `ClientImplementsLog`: `FirestoreSpec => LogSpec`. The mapping takes the writes of the rows for the
  pending ones and the answers waiting in the stream for what the server has taken. That a write is
  accepted once, behind the older ones, needs that numbers grow from queue to queue: what is on disk or
  reported is below what waits in the worker queue, which grows in turn (`NumbersAgree`).
- `AppIsToldTheTruth`: `FirestoreSpec => []ToldTheTruth`. Reports are made when an answer is read, long after the
  server gave it, and for the front of the queue, whatever the answer names. The invariant (`AnswersAreTrue`)
  says that the answers in the stream name, in order, the writes of the first rows; with `NumbersAgree` no write
  is reported twice.

Liveness itself is out of the prover's reach, but what it rests on is not: that nothing goes
round in circles, and that nobody stands still. Both are safety properties, and proved:

- `ClientComesToRest`: `FirestoreSpec => ComesToRest`, one lemma per action, from `FirestoreInv`. Which part of
  `Rank` a step lowers is the point. An outdated token is asked for again, and the new request is not outdated until
  another change of user is noticed, which uses up a task. There is only one token under way at a time
  (`OneToken`); when it says that there is none, the stream backs off, which the lost token pays (`LostTokens`). A stream that was
  stopped or is idle is started again only by a task, a failure or a settled write, all of which weigh more.
- `NobodyIsStuck`: `FirestoreSpec => []NeverStuck`, from `FirestoreInv`: a user with writes has a stream that is not stopped, a
  stream that starts has its token on one of the queues or asked for, and an open one carries a greeting, a write or an answer.
- `RankCounts` and `RanksEnd`: the rank is seven natural numbers, and a sequence of ranks, of any length and kind, does not fall
  for ever (the lexicographic order of natural numbers is well founded). So an execution of the client, for any
  bounds, has finitely many steps, and by `NeverStuck` it does not end before the user's writes are settled unless a step that
  can be taken never is, which is what `FirestoreFairness` excludes.
- `LoadsGetOn` and `LoadsRankCounts`: `FetchSpec => LoadsAdvance`, and the rank is four natural numbers, which needs that the
  requests in flight are finitely many and the bounds are kept (`LoadsAreCounted`). An answer that goes on
  either moves the shared page nearer to the last one TMDB serves, or replaces a request below that page by one above, where the
  next answer is an error. By `ScreenRunsFetch` this holds on the swipe screen as well.
- `SignInsAdvance` and `SignInsAreAnswered`: `SignInAdvances` and `SignInIsAnswered`, from `SessionInv` and one lemma
  (`AnswerMoves`) that lists where each answer of each kind of sign-in leads.

The assumptions: those of the modules on their constants, which TLC evaluates in every run (the bounds
are natural numbers, `None` is none of the values, lists and catalogs are well formed, there are
finitely many movies), `OncePerQuery`, which TMDB has to keep, and `AnyDeck`. None of the proofs
bounds an actor: `MaxSignIns`, `MaxLoads`, `MaxVisits`, `MaxTroubles` and the like are any numbers.

Every invariant that was needed as a strengthening (`PassInv`, `UndecidedInv`, `NothingExtra`,
`LengthTold`, `FilterInv`, `NamesInv`, `FirestoreInv`, …) was checked by TLC on the instance of its run before it was
proved; they are not properties of the runs, which check what follows from them. So were the types
(`PagesTypeOK`, `NavTypeOK`) and `ToldTheTruth`, `NeverStuck`, `SignInAdvances` and `SignInIsAnswered`: now that they are
proved, the runs do not repeat them.

Only model-checked: the four liveness properties (`ButtonsRecover`, `LoadsEnd`, `SignInEnds`, `Settles`). For the last
three the argument above is proved but for its last step, from falling ranks and fairness to "eventually", which
needs `ENABLED` and an induction over executions; for the first, `DeckInv` says that the buttons are disabled only while an animation of
theirs runs (`ReadyIffNoFlight`). Every invariant, action property and refinement the runs check is a theorem.

## 5. Not modelled

- Layout, tables and cells, constants, the parsing of movies, the app delegate, the profile: no state
  that anything else depends on.
- The other pods (the rest of Firebase, gRPC, BoringSSL, abseil, leveldb, Alamofire, SwiftyJSON,
  SDWebImage, the sign-in kits). The app reaches them through a few calls, whose outcomes the
  models above take as external choices; they are most of the lines of the repository.
- `UserSession` composed with `SwipeScreen`, `WatchlistCache` and `Friends`: these take the account's
  contents from constants, which is more than `UserSession` can bring about, so what is shown of
  them holds in the composition; its state space is out of TLC's reach. Two sign-ins at once are in
  `Navigation` (its proofs hold for any number), but not in `UserSession`.
- The picture of a user, which is read from the key `image` and written to `profileImage`
  (`Model/User.swift:35`): it is lost, and nothing depends on it.

Proofs that would come next: the composition of `UserSession` and `SwipeScreen`, so that the
contents of the account, which `SwipeScreen` takes from constants, are those the session loads.

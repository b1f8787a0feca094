----------------------------- MODULE MovieFetch -----------------------------
(***************************************************************************)
(* Loading movies: fetchMovies of View/SwipeView.swift and                 *)
(* API/TmdbService.swift, the shared filter of API/FilterService.swift, and *)
(* what Controller/MovieskipController.swift does when the filter is saved *)
(* or a sign-in completes.                                                 *)
(*                                                                         *)
(* A load is a chain of requests: each response appends the movies not yet *)
(* swiped to moviesToDisplay and, while there are too few, requests the    *)
(* next page.  The page to request is kept in the one shared filter, which *)
(* the filter screen, the sign-in, the launch and the scene callbacks      *)
(* change while requests are in flight.                                    *)
(***************************************************************************)
EXTENDS Integers, Sequences, FiniteSets, SequencesExt, Ranks, MovieIds

CONSTANTS
    Filters,        \* genres, years and popularity: which discover query
    Catalog,        \* Catalog[f]: the pages TMDB has for f (external)
    ServerMaxPage,  \* TMDB answers no page above this one (external)
    Enough,         \* a load goes on until it has more movies than this
    DefaultFilter,  \* the query of FilterService.filter at launch
    DefaultTotal,   \* and its totalPages
    InitialDisk,    \* what UserDefaults may hold at launch
    MaxStarts,      \* bound: loads started
    MaxSaves        \* bound: calls of saveFilter

FilterValues == [id : Filters, page : Nat \ {0}, totalPages : Nat]

ASSUME CatalogAssumption == Catalog \in [Filters -> Seq(Seq(Movies))]
ASSUME FilterAssumption == /\ DefaultFilter \in Filters
                           /\ DefaultTotal \in Nat
                           /\ None \notin FilterValues
                           /\ InitialDisk \subseteq FilterValues \cup {None}
ASSUME BoundAssumption == /\ Enough \in Nat /\ ServerMaxPage \in Nat
                          /\ MaxStarts \in Nat /\ MaxSaves \in Nat

VARIABLES
    filter,             \* FilterService.filter; page is the next to request
    disk,               \* the filter in UserDefaults
    loaded,             \* configureUser has called fetchFilter
    draft,              \* totalPages of the copy the filter screen edits, or 0
    requests,           \* requests in flight, one per load
    moviesToDisplay,
    modal,              \* what the controller presents
    loginAsked,         \* presentLoginController is queued on the main queue
    signInsLeft,        \* the login was left, by skipping it or by a sign-in,
                        \* and there are sign-ins in flight still
    starts, saves,      \* for the bounds
    pure                \* history: one load alone filled moviesToDisplay

fetchVars == <<filter, disk, loaded, draft, requests, moviesToDisplay, modal,
               loginAsked, signInsLeft, starts, saves, pure>>
uiVars == <<loaded, draft, loginAsked, signInsLeft>>

Alerts == {"noMoreMovies", "tmdbFailed"}
Modals == Alerts \cup {"none", "filter", "login", "username", "other"}
Requests == [id : Nat, filter : Filters, page : Nat \ {0}]

LaunchFilter == [id |-> DefaultFilter, page |-> 1, totalPages |-> DefaultTotal]

(* Launch.  When the login was skipped before, the filter is loaded before *)
(* anything else; when it was not, the login screen is asked for.          *)
FetchInit ==
    /\ disk \in InitialDisk
    /\ loaded \in BOOLEAN
    /\ filter = IF loaded /\ disk # None THEN disk ELSE LaunchFilter
    /\ draft = 0
    /\ requests = {} /\ moviesToDisplay = <<>>
    /\ modal = "none" /\ loginAsked \in BOOLEAN /\ signInsLeft = FALSE
    /\ starts = 0 /\ saves = 0
    /\ pure = TRUE

(* present of UIKit: refused while something is presented already.         *)
Present(m, screen) == IF m = "none" THEN screen ELSE m

(* The answer of TMDB: its page, and nothing past the last page.           *)
PageOf(r) ==
    IF r.page <= Len(Catalog[r.filter]) THEN Catalog[r.filter][r.page] ELSE <<>>

(* Mutant: swiped movies are not removed.                                  *)
UnseenKeepsAll(page, swiped) == {page}

(* removeAlreadySwiped: the page without the movies in swiped, as a set    *)
(* with that one member; at lists the places that are kept, in order.      *)
Unseen(page, swiped) ==
    LET kept == {k \in DOMAIN page : page[k] \notin swiped}
        Ordered(at) == \A i, j \in DOMAIN at : i < j => at[i] < at[j]
    IN {[i \in DOMAIN at |-> page[at[i]]] : at \in {p \in SetToSeqs(kept) : Ordered(p)}}

(* Mutant: the page is moved on twice.                                     *)
SendAndSkip(others, i, f) ==
    /\ requests' = others \cup {[id |-> i, filter |-> f.id, page |-> f.page]}
    /\ filter' = [f EXCEPT !.page = @ + 2]

(* Mutant: the page is only moved on when it has been answered.            *)
SendAndStay(others, i, f) ==
    /\ requests' = others \cup {[id |-> i, filter |-> f.id, page |-> f.page]}
    /\ filter' = f

(* TmdbService.fetchMovies: requests the page of the shared filter f and   *)
(* moves the page on before the answer is known.                           *)
Send(others, i, f) ==
    /\ requests' = others \cup {[id |-> i, filter |-> f.id, page |-> f.page]}
    /\ filter' = [f EXCEPT !.page = @ + 1]

(* fetchMovies(filter:) of SwipeView called with the shared filter f.  The *)
(* page test is made on the page about to be asked.  m is presented after  *)
(* it, told instead when it shows its alert.                               *)
FetchMovies(f, m, told) ==
    \/ /\ f.page = f.totalPages
       /\ filter' = f
       /\ modal' = told
       /\ UNCHANGED requests
    \/ /\ f.page # f.totalPages
       /\ Send(requests, starts + 1, f)
       /\ modal' = m

BeginLoad(f, m, told) ==
    /\ starts < MaxStarts
    /\ starts' = starts + 1
    /\ FetchMovies(f, m, told)
    /\ pure' = (requests = {})

(* Mutant: the movies of the last load are kept.                           *)
StartLoadKeeping(f, m, told) ==
    BeginLoad(f, m, told) /\ UNCHANGED moviesToDisplay

(* A new load: moviesToDisplay is emptied, whatever is still in flight.    *)
StartLoad(f, m, told) == BeginLoad(f, m, told) /\ moviesToDisplay' = <<>>

(* refillMovies, the button over the empty deck.                           *)
Refill ==
    /\ modal = "none"
    /\ StartLoad(filter, "none", "noMoreMovies")
    /\ UNCHANGED <<uiVars, disk, saves>>

(* showFilter: FilterView copies the shared filter, totalPages included.   *)
OpenFilter ==
    /\ modal = "none"
    /\ modal' = "filter"
    /\ draft' = filter.totalPages
    /\ UNCHANGED <<filter, disk, loaded, requests, moviesToDisplay, loginAsked,
                   signInsLeft, starts, saves, pure>>

(* handleSave, then filterController(_:wantsToUpdateFilter:): the copy     *)
(* replaces the shared filter, and the load starts before the filter       *)
(* screen is dismissed, so that an alert would be refused.                 *)
ApplyFilter(q) ==
    /\ modal = "filter"
    /\ StartLoad([id |-> q, page |-> 1, totalPages |-> draft], "none", "none")
    /\ draft' = 0
    /\ UNCHANGED <<loaded, loginAsked, signInsLeft, disk, saves>>

(* authenticationComplete: what is presented is dismissed, which is the    *)
(* login screen unless that was left before (nothing then tests what is    *)
(* there, and the completion may run over an empty screen); the username   *)
(* screen is presented when the user has none yet, and the movies reloaded *)
(* from page 1 of the filter in use.  (Sign-ins that the bound on loads    *)
(* would stop are not left in flight.)                                     *)
SignIn(named) ==
    /\ modal = "login" \/ signInsLeft
    /\ LET next == IF named THEN "none" ELSE "username"
       IN StartLoad([filter EXCEPT !.page = 1], next, Present(next, "noMoreMovies"))
    /\ draft' = 0
    /\ signInsLeft' \in BOOLEAN /\ (signInsLeft' => starts' < MaxStarts)
    /\ UNCHANGED <<loaded, loginAsked, disk, saves>>

(* An OK button, Cancel of the filter screen, a username chosen.           *)
CloseModal ==
    /\ modal \in Modals \ {"none", "login"}
    /\ modal' = "none"
    /\ draft' = 0
    /\ UNCHANGED <<filter, loaded, loginAsked, signInsLeft, disk, requests,
                   moviesToDisplay, starts, saves, pure>>

(* logout and userPressedRegister ask for the login screen, which is       *)
(* presented in a later turn of the main queue.                            *)
AskLogin ==
    /\ modal = "none" /\ ~loginAsked
    /\ loginAsked' = TRUE
    /\ UNCHANGED <<filter, disk, loaded, draft, requests, moviesToDisplay,
                   modal, signInsLeft, starts, saves, pure>>

PresentLogin ==
    /\ loginAsked
    /\ loginAsked' = FALSE
    /\ modal' = Present(modal, "login")
    /\ UNCHANGED <<filter, disk, loaded, draft, requests, moviesToDisplay,
                   signInsLeft, starts, saves, pure>>

(* A successful response: totalPages of the shared filter is overwritten   *)
(* whichever query was answered; removeAlreadySwiped leaves out what is in *)
(* the lists now.  The recursive call tests the filter it captured at the  *)
(* start of the load once more, which still passes the test.               *)
Respond(r, swiped) ==
    LET known == [filter EXCEPT !.totalPages = Len(Catalog[r.filter])]
    IN /\ r.page <= ServerMaxPage
       /\ UNCHANGED <<disk, uiVars, modal, starts, saves, pure>>
       /\ \E fresh \in Unseen(PageOf(r), swiped) :
             moviesToDisplay' = moviesToDisplay \o fresh
       /\ \/ /\ Len(moviesToDisplay') > Enough
             /\ requests' = requests \ {r}
             /\ filter' = known
          \/ /\ Len(moviesToDisplay') <= Enough
             /\ Send(requests \ {r}, r.id, known)

FailKeeps == <<disk, uiVars, moviesToDisplay, starts, saves, pure>>
RewindAlways(f) == [f EXCEPT !.page = @ - 1]

(* Mutants: a failed request is sent again; a failed page is given back; a *)
(* failure is not told.                                                    *)
FailAndRetry(r) ==
    /\ modal' = Present(modal, "tmdbFailed")
    /\ UNCHANGED <<filter, requests, FailKeeps>>
FailAndGiveBack(r) ==
    /\ requests' = requests \ {r}
    /\ modal' = Present(modal, "tmdbFailed")
    /\ filter' = IF filter.page > 1 THEN RewindAlways(filter) ELSE filter
    /\ UNCHANGED FailKeeps
FailSilently(r) ==
    /\ requests' = requests \ {r}
    /\ UNCHANGED <<filter, modal, FailKeeps>>

(* No answer, or an error status: the load ends.                           *)
Fail(r) ==
    /\ requests' = requests \ {r}
    /\ modal' = Present(modal, "tmdbFailed")
    /\ UNCHANGED <<filter, FailKeeps>>

(* saveFilter, from each of the three scene callbacks, takes back a page.  *)
(* Its mutant is RewindAlways.                                             *)
Rewind(f) == IF f.page # 1 THEN [f EXCEPT !.page = @ - 1] ELSE f

SaveFilter ==
    /\ saves < MaxSaves
    /\ saves' = saves + 1
    /\ filter' = Rewind(filter)
    /\ disk' = filter'
    /\ pure' = (pure /\ (requests = {} \/ filter' = filter))
    /\ UNCHANGED <<uiVars, requests, moviesToDisplay, modal, starts>>

(* fetchFilterAndMovies, from configureUser: once per launch, beside the   *)
(* username screen when the user has no name yet.                          *)
LoadFilter(next) ==
    /\ ~loaded
    /\ loaded' = TRUE
    /\ filter' = IF disk = None THEN filter ELSE disk
    /\ pure' = (pure /\ (requests = {} \/ disk = None))
    /\ modal' = Present(modal, next)
    /\ UNCHANGED <<disk, draft, requests, moviesToDisplay, loginAsked, signInsLeft,
                   starts, saves>>

(* A movie's details, the combined watchlist, the alert of a failed fetch  *)
(* of the user: the controller presents them as well.                      *)
PresentOther ==
    /\ modal = "none"
    /\ modal' = "other"
    /\ UNCHANGED <<filter, disk, uiVars, requests, moviesToDisplay, starts,
                   saves, pure>>

Answer(r) == (\E swiped \in SUBSET Movies : Respond(r, swiped)) \/ Fail(r)

FetchNext ==
    \/ Refill
    \/ OpenFilter
    \/ \E q \in Filters : ApplyFilter(q)
    \/ \E named \in BOOLEAN : SignIn(named)
    \/ CloseModal
    \/ AskLogin
    \/ PresentLogin
    \/ \E r \in requests : Answer(r)
    \/ SaveFilter
    \/ \E next \in {"none", "username"} : LoadFilter(next)
    \/ PresentOther

FetchSpec == FetchInit /\ [][FetchNext]_fetchVars

-----------------------------------------------------------------------------

FetchTypeOK ==
    /\ filter \in FilterValues
    /\ disk \in FilterValues \cup {None}
    /\ loaded \in BOOLEAN /\ loginAsked \in BOOLEAN /\ signInsLeft \in BOOLEAN
    /\ draft \in Nat
    /\ requests \in SUBSET Requests
    /\ moviesToDisplay \in Seq(Movies)
    /\ modal \in Modals
    /\ starts \in Nat /\ saves \in Nat
    /\ pure \in BOOLEAN

(* TMDB lists a movie on one page of a query, and once (external).         *)
OncePerQuery ==
    \A f \in Filters : \A p, q \in DOMAIN Catalog[f] :
        \A i \in DOMAIN Catalog[f][p], j \in DOMAIN Catalog[f][q] :
            Catalog[f][p][i] = Catalog[f][q][j] => p = q /\ i = j

(* When TMDB does so, what one load shows is one pass over one query: no   *)
(* movie twice, none of another query, unless loads overlapped or the      *)
(* filter was moved under it (append(contentsOf:) does not look for        *)
(* duplicates).                                                            *)
MoviesOf(f) == UNION {ToSet(Catalog[f][p]) : p \in DOMAIN Catalog[f]}
OnePassPerLoad ==
    pure => /\ IsInjective(moviesToDisplay)
            /\ \E f \in Filters : ToSet(moviesToDisplay) \subseteq MoviesOf(f)

(* Every request is answered or fails (the timeout of URLSession).         *)
FetchFairness ==
    \A i \in 1..MaxStarts :
        WF_fetchVars(\E r \in requests : r.id = i /\ Answer(r))

(* A load always ends: enough movies, or a failure once the pages TMDB     *)
(* serves are used up, as every response callback is eventually run.       *)
LoadsEnd ==
    \A i \in 1..MaxStarts :
        (\E r \in requests : r.id = i) ~> (\A r \in requests : r.id # i)

(* What loads have before them: what the user and the scene may still do,  *)
(* the requests in flight, the pages up to the last one TMDB serves, and   *)
(* the requests for one of these.                                          *)
Served == {r \in requests : r.page <= ServerMaxPage}
PagesLeft == IF filter.page <= ServerMaxPage THEN ServerMaxPage + 1 - filter.page ELSE 0
LoadBudget == (MaxStarts - starts) + (MaxSaves - saves) + (IF loaded THEN 0 ELSE 1)
LoadRank == <<LoadBudget, Cardinality(requests), PagesLeft, Cardinality(Served)>>

(* No load goes round in circles: each answer is its last, or gets it      *)
(* nearer to the end of what TMDB serves, although the page it goes on     *)
(* with is shared with other loads and set back under it, and the test     *)
(* that should end it never does (SwipeView.swift:123).                    *)
LoadsAdvance ==
    [][ \/ Lower(LoadRank', LoadRank)
        \/ UNCHANGED <<LoadRank, requests, moviesToDisplay>> ]_fetchVars
=============================================================================

------------------------------ MODULE Matching ------------------------------
(***************************************************************************)
(* Combining watchlists: the choice of friends in                          *)
(* CombineWatchlistController.swift and the two tables of                  *)
(* MatchingResultsView.swift.                                              *)
(*                                                                         *)
(* Each visit to the results computes two lists of ids from the lists of   *)
(* the user and of the chosen friends and requests the details of each     *)
(* movie.  The answers of one computation are collected in variables of    *)
(* its own; a table gets them when they are as many as the ids.  The user  *)
(* may go back, choose others and look again before they are.              *)
(***************************************************************************)
EXTENDS MovieBags

CONSTANTS
    Friends,     \* the friends offered
    WatchlistOf, \* their watchlists, as of the fetch of all users
    ExcludedOf,  \* and what they excluded
    Watchlists,  \* the watchlists the user may have
    MaxVisits    \* bound: visits to the results

Tables == {"watchlist", "exclude"}
Visits == 1..MaxVisits

ASSUME MatchingAssumption ==
    /\ WatchlistOf \in [Friends -> SUBSET Movies]
    /\ ExcludedOf \in [Friends -> SUBSET Movies]
    /\ Watchlists \subseteq IdLists
    /\ MaxVisits \in Nat

VARIABLES
    watchlist,       \* the watchlist of SceneDelegate.user
    selectedFriends,
    screen,          \* the friends' table, the results, or neither
    visits,          \* computations begun since the screen was opened
    matched,         \* for each of them and each table the ids to show
    calls,           \* the movies whose details are in flight
    got,             \* the movies that have arrived
    movies,          \* the movies of watchlistResultsTable, excludeResultsTable
    asked,           \* history: for each visit the friends and the watchlist
    failed,          \* history: the visits of which a request failed, told or not
    overlapped       \* history: a visit began with requests in flight

matchVars == <<watchlist, selectedFriends, screen, visits, matched, calls, got, movies,
               asked, failed, overlapped>>

Keep(list, set) == [m \in Movies |-> IF m \in set THEN list[m] ELSE 0]
NoLists == [t \in Tables |-> NoMovies]
NoVisit == [friends |-> {}, list |-> NoMovies]
Quiet == \A v \in Visits : calls[v] = NoLists

(* The two loops of calculateMovieLists.                                   *)
Matches(list, friends) ==
    [t \in Tables |->
       IF t = "watchlist"
         THEN Keep(list, UNION {WatchlistOf[f] : f \in friends})
         ELSE Keep(list, Movies \ UNION {ExcludedOf[f] : f \in friends})]

(* viewDidLoad of a new CombineWatchlistController.                        *)
Fresh ==
    /\ selectedFriends' = {} /\ visits' = 0
    /\ matched' = [v \in Visits |-> NoLists] /\ calls' = [v \in Visits |-> NoLists]
    /\ got' = [v \in Visits |-> NoLists] /\ movies' = NoLists
    /\ asked' = [v \in Visits |-> NoVisit] /\ failed' = {} /\ overlapped' = FALSE

MatchInit ==
    /\ watchlist \in Watchlists
    /\ selectedFriends = {} /\ screen = "closed" /\ visits = 0
    /\ matched = [v \in Visits |-> NoLists] /\ calls = [v \in Visits |-> NoLists]
    /\ got = [v \in Visits |-> NoLists] /\ movies = NoLists
    /\ asked = [v \in Visits |-> NoVisit] /\ failed = {} /\ overlapped = FALSE

(* The answers still under way belong to the controller that is gone.      *)
GoToCombineWatchlist ==
    /\ screen = "closed" /\ screen' = "friends"
    /\ Fresh
    /\ UNCHANGED watchlist

HandleDone ==
    /\ screen # "closed" /\ screen' = "closed"
    /\ UNCHANGED <<watchlist, selectedFriends, visits, matched, calls, got, movies, asked,
                   failed, overlapped>>

(* A star, or a document that arrives late.                                *)
WatchlistChanges ==
    /\ watchlist' \in Watchlists
    /\ UNCHANGED <<selectedFriends, screen, visits, matched, calls, got, movies, asked,
                   failed, overlapped>>

DidSelectRow(f) ==
    /\ screen = "friends"
    /\ selectedFriends' = IF f \in selectedFriends THEN selectedFriends \ {f}
                                                   ELSE selectedFriends \cup {f}
    /\ UNCHANGED <<watchlist, screen, visits, matched, calls, got, movies, asked, failed,
                   overlapped>>

(* Mutant: the results are computed for the friends of the first visit.    *)
ShowFirstResults ==
    /\ screen = "friends" /\ screen' = "results"
    /\ visits < MaxVisits /\ visits' = visits + 1
    /\ LET friends == IF visits = 0 THEN selectedFriends ELSE asked[1].friends
       IN /\ matched' = [matched EXCEPT ![visits'] = Matches(watchlist, friends)]
          /\ calls' = [calls EXCEPT ![visits'] = Matches(watchlist, friends)]
    /\ asked' = [asked EXCEPT ![visits'] = [friends |-> selectedFriends, list |-> watchlist]]
    /\ overlapped' = (overlapped \/ ~Quiet)
    /\ UNCHANGED <<watchlist, selectedFriends, got, movies, failed>>

(* showMatchingResults sets friends, and so calculateMovieLists.           *)
ShowMatchingResults ==
    /\ screen = "friends" /\ screen' = "results"
    /\ visits < MaxVisits /\ visits' = visits + 1
    /\ matched' = [matched EXCEPT ![visits'] = Matches(watchlist, selectedFriends)]
    /\ calls' = [calls EXCEPT ![visits'] = Matches(watchlist, selectedFriends)]
    /\ asked' = [asked EXCEPT ![visits'] = [friends |-> selectedFriends, list |-> watchlist]]
    /\ overlapped' = (overlapped \/ ~Quiet)
    /\ UNCHANGED <<watchlist, selectedFriends, got, movies, failed>>

ShowFriendsView ==
    /\ screen = "results" /\ screen' = "friends"
    /\ UNCHANGED <<watchlist, selectedFriends, visits, matched, calls, got, movies, asked,
                   failed, overlapped>>

(* Mutant: the movies are shown as they come, one after the other.         *)
DetailsAnswerShown(v, t, m, movie) ==
    /\ calls[v][t][m] > 0
    /\ calls' = [calls EXCEPT ![v][t] = Minus(@, m)]
    /\ got' = [got EXCEPT ![v][t] = Plus(@, movie)]
    /\ movies' = [movies EXCEPT ![t] = got'[v][t]]
    /\ failed' = IF movie = m THEN failed ELSE failed \cup {v}
    /\ UNCHANGED <<watchlist, selectedFriends, screen, visits, matched, asked, overlapped>>

(* The completion of fetchMovieWithDetails for one of the two tables, with *)
(* the movie asked for or the one made of an error.                        *)
DetailsAnswer(v, t, m, movie) ==
    /\ calls[v][t][m] > 0
    /\ calls' = [calls EXCEPT ![v][t] = Minus(@, m)]
    /\ got' = [got EXCEPT ![v][t] = Plus(@, movie)]
    /\ movies' = IF Length(got'[v][t]) = Length(matched[v][t])
                   THEN [movies EXCEPT ![t] = got'[v][t]] ELSE movies
    /\ failed' = IF movie = m THEN failed ELSE failed \cup {v}
    /\ UNCHANGED <<watchlist, selectedFriends, screen, visits, matched, asked, overlapped>>

(* Without an answer in JSON there is no completion.                       *)
DetailsFail(v, t, m) ==
    /\ calls[v][t][m] > 0
    /\ calls' = [calls EXCEPT ![v][t] = Minus(@, m)]
    /\ failed' = failed \cup {v}
    /\ UNCHANGED <<watchlist, selectedFriends, screen, visits, matched, got, movies, asked,
                   overlapped>>

MatchNext ==
    \/ GoToCombineWatchlist \/ HandleDone
    \/ WatchlistChanges
    \/ \E f \in Friends : DidSelectRow(f)
    \/ ShowMatchingResults \/ ShowFriendsView
    \/ \E v \in Visits, t \in Tables, m \in Movies :
          \/ \E movie \in {m, Unknown} : DetailsAnswer(v, t, m, movie)
          \/ DetailsFail(v, t, m)

MatchSpec == MatchInit /\ [][MatchNext]_matchVars

-----------------------------------------------------------------------------

MatchTypeOK ==
    /\ watchlist \in Bags /\ selectedFriends \subseteq Friends
    /\ screen \in {"closed", "friends", "results"}
    /\ visits \in 0..MaxVisits
    /\ matched \in [Visits -> [Tables -> Bags]]
    /\ calls \in [Visits -> [Tables -> Bags]]
    /\ got \in [Visits -> [Tables -> Bags]]
    /\ movies \in [Tables -> Bags]
    /\ asked \in [Visits -> [friends : SUBSET Friends, list : Bags]]
    /\ failed \subseteq Visits /\ overlapped \in BOOLEAN

(* What each visit computed is what it asked for; of its movies none comes *)
(* twice, and none is lost between the requests and the collected movies   *)
(* unless one of its requests failed.                                      *)
VisitsAccountedFor ==
    /\ \A v \in Visits :
          IF v > visits THEN calls[v] = NoLists /\ got[v] = NoLists /\ v \notin failed
          ELSE /\ matched[v] = Matches(asked[v].list, asked[v].friends)
               /\ \A t \in Tables, m \in Movies :
                     /\ m # Unknown => got[v][t][m] + calls[v][t][m] <= matched[v][t][m]
                     /\ v \notin failed => got[v][t][m] + calls[v][t][m] = matched[v][t][m]
    /\ ~overlapped => \A v \in Visits : v < visits => calls[v] = NoLists

(* Of visits one after the other, the last one's movies are in the tables  *)
(* as soon as the last of them has arrived.                                *)
LastVisitShown ==
    ~overlapped /\ visits > 0 /\ visits \notin failed =>
        \A t \in Tables : calls[visits][t] = NoMovies =>
            movies[t] = matched[visits][t] \/ matched[visits][t] = NoMovies

(* The inductive invariant of the results.                                 *)
MatchInv == MatchTypeOK /\ VisitsAccountedFor /\ LastVisitShown

(* A movie of the watchlist is in the first table if a chosen friend has   *)
(* it, and in the second if none excluded it, as often as in the           *)
(* watchlist, once its answers are in (calculateMovieLists), whatever was  *)
(* chosen before: unless a request failed, the visits overlapped, or there *)
(* is no match at all, when the table keeps what it had.                   *)
ResultsOfChoice ==
    visits > 0 /\ Quiet /\ visits \notin failed /\ ~overlapped =>
        LET chosen == asked[visits].friends
            both == [m \in Movies |-> IF \E f \in chosen : m \in WatchlistOf[f]
                                       THEN asked[visits].list[m] ELSE 0]
            free == [m \in Movies |-> IF \A f \in chosen : m \notin ExcludedOf[f]
                                       THEN asked[visits].list[m] ELSE 0]
        IN /\ movies["watchlist"] = both \/ both = NoMovies
           /\ movies["exclude"] = free \/ free = NoMovies

(* A table is empty or has an entry for each movie that one of the visits  *)
(* asked for: never fewer, and never a movie of another visit, in any      *)
(* order of answers and failures, also when visits overlap.  A movie can   *)
(* only be missing for an entry without one, made of an error's JSON,      *)
(* which calculateMovieLists counts like a movie.                          *)
WholeResults ==
    \A t \in Tables : movies[t] = NoMovies \/
        \E v \in Visits :
           /\ v <= visits /\ Length(movies[t]) = Length(matched[v][t])
           /\ \A m \in Movies \ {Unknown} : movies[t][m] <= matched[v][t][m]
           /\ movies[t][Unknown] = 0 => movies[t] = matched[v][t]
=============================================================================

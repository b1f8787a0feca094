--------------------------- MODULE MatchingProofs ---------------------------
(***************************************************************************)
(* The inductive invariant of Matching, that the tables show what the last *)
(* of successive visits asked for, and that whatever they show is as long  *)
(* as what some visit asked for, and the whole of it but for errors.       *)
(***************************************************************************)
EXTENDS Matching, MovieBagsProofs, TLAPS

LEMMA NoListsTypes == NoMovies \in Bags /\ NoLists \in [Tables -> Bags]
  BY NoMoviesIsBag DEF NoLists

LEMMA MatchesType ==
    ASSUME NEW list \in Bags, NEW friends \in SUBSET Friends
    PROVE  Matches(list, friends) \in [Tables -> Bags]
  BY DEF Matches, Keep, Bags, Tables

(* A screen just opened.                                                   *)
LEMMA FreshInv ==
    ASSUME MaxVisits \in Nat, watchlist \in Bags, selectedFriends = {},
           screen \in {"closed", "friends", "results"}, visits = 0,
           matched = [v \in Visits |-> NoLists], calls = [v \in Visits |-> NoLists],
           got = [v \in Visits |-> NoLists], movies = NoLists,
           asked = [v \in Visits |-> NoVisit], failed = {}, overlapped = FALSE
    PROVE  MatchInv
<1>1. MatchTypeOK
  <2>1. NoVisit \in [friends : SUBSET Friends, list : Bags]
    BY NoListsTypes DEF NoVisit
  <2>2. /\ \A f \in {matched, calls, got} : f \in [Visits -> [Tables -> Bags]]
        /\ asked \in [Visits -> [friends : SUBSET Friends, list : Bags]]
    BY <2>1, NoListsTypes
  <2>3. overlapped \in BOOLEAN
    BY Zenon
  <2>4. QED BY <2>2, <2>3, NoListsTypes DEF MatchTypeOK
<1>2. VisitsAccountedFor
  <2>1. \A v \in Visits : v > visits /\ ~(v < visits)
    BY DEF Visits
  <2>2. QED BY <2>1 DEF VisitsAccountedFor
<1>3. LastVisitShown
  BY DEF LastVisitShown
<1>4. QED BY <1>1, <1>2, <1>3 DEF MatchInv

LEMMA MatchInitInv == MatchInit => MatchInv
  BY FreshInv, MatchingAssumption DEF MatchInit, IdLists

(* A new screen forgets the visits of the one before.                      *)
LEMMA OpenKeepsInv ==
    ASSUME MatchInv, GoToCombineWatchlist PROVE MatchInv'
<1>1. /\ watchlist' = watchlist /\ watchlist \in Bags
      /\ selectedFriends' = {} /\ screen' = "friends" /\ visits' = 0
      /\ matched' = [v \in Visits |-> NoLists] /\ calls' = [v \in Visits |-> NoLists]
      /\ got' = [v \in Visits |-> NoLists] /\ movies' = NoLists
      /\ asked' = [v \in Visits |-> NoVisit] /\ failed' = {} /\ overlapped' = FALSE
  BY Zenon DEF GoToCombineWatchlist, Fresh, MatchInv, MatchTypeOK
<1>2. MatchTypeOK'
  <2>1. NoVisit \in [friends : SUBSET Friends, list : Bags]
    BY NoListsTypes DEF NoVisit
  <2>2. /\ \A f \in {matched', calls', got'} : f \in [Visits -> [Tables -> Bags]]
        /\ asked' \in [Visits -> [friends : SUBSET Friends, list : Bags]]
    BY <1>1, <2>1, NoListsTypes
  <2>3. overlapped' \in BOOLEAN
    BY <1>1, Zenon
  <2>4. /\ watchlist' \in Bags /\ selectedFriends' \subseteq Friends
        /\ screen' \in {"closed", "friends", "results"} /\ visits' \in 0..MaxVisits
        /\ movies' \in [Tables -> Bags] /\ failed' \subseteq Visits
    BY <1>1, NoListsTypes, MatchingAssumption
  <2>5. QED BY <2>2, <2>3, <2>4 DEF MatchTypeOK
<1>3. VisitsAccountedFor'
  <2>1. \A v \in Visits : v > visits' /\ ~(v < visits')
    BY <1>1, MatchingAssumption DEF Visits
  <2>2. QED BY <1>1, <2>1 DEF VisitsAccountedFor
<1>4. LastVisitShown'
  BY <1>1 DEF LastVisitShown
<1>5. QED BY <1>2, <1>3, <1>4 DEF MatchInv

LEMMA VisitKeepsInv ==
    ASSUME MatchInv, ShowMatchingResults PROVE MatchInv'
<1> DEFINE new == visits + 1
           lists == Matches(watchlist, selectedFriends)
<1>1. /\ new \in Visits /\ new = visits + 1 /\ visits' = new /\ visits \in Nat /\ visits < new
      /\ matched' = [matched EXCEPT ![new] = lists]
      /\ calls' = [calls EXCEPT ![new] = lists]
      /\ asked' = [asked EXCEPT ![new] = [friends |-> selectedFriends, list |-> watchlist]]
      /\ screen' = "results"
      /\ UNCHANGED <<watchlist, selectedFriends, got, movies, failed>>
  BY MatchingAssumption DEF ShowMatchingResults, MatchInv, MatchTypeOK, Visits
<1>2. overlapped' \in BOOLEAN /\ (~overlapped' => ~overlapped /\ Quiet)
  BY Zenon DEF ShowMatchingResults, MatchInv, MatchTypeOK, Quiet
<1>3. lists \in [Tables -> Bags]
  BY MatchesType DEF MatchInv, MatchTypeOK
<1> HIDE DEF lists, new
<1>4. MatchTypeOK'
  BY <1>1, <1>2, <1>3 DEF MatchInv, MatchTypeOK, Visits
<1>5. VisitsAccountedFor'
  <2>1. ASSUME NEW v \in Visits, v > visits'
        PROVE  calls'[v] = NoLists /\ got'[v] = NoLists /\ v \notin failed'
    <3>1. v # new /\ v > visits
      BY <1>1, <2>1 DEF Visits
    <3>2. QED BY <1>1, <3>1 DEF MatchInv, MatchTypeOK, VisitsAccountedFor
  <2>2. ASSUME NEW v \in Visits, ~(v > visits')
        PROVE  /\ matched'[v] = Matches(asked'[v].list, asked'[v].friends)
               /\ \A t \in Tables, m \in Movies :
                     /\ m # Unknown => got'[v][t][m] + calls'[v][t][m] <= matched'[v][t][m]
                     /\ v \notin failed' => got'[v][t][m] + calls'[v][t][m] = matched'[v][t][m]
    <3>1. CASE v = new
      <4>1. asked'[v] = [friends |-> selectedFriends, list |-> watchlist]
            /\ matched'[v] = lists /\ calls'[v] = lists /\ got'[v] = got[v]
        BY <1>1, <3>1 DEF MatchInv, MatchTypeOK
      <4>2. got[v] = NoLists
        BY <1>1, <3>1 DEF MatchInv, VisitsAccountedFor
      <4>3. ASSUME NEW t \in Tables, NEW m \in Movies
            PROVE  NoLists[t][m] + lists[t][m] = lists[t][m] /\ lists[t][m] <= lists[t][m]
        BY <1>3 DEF NoLists, NoMovies, Bags
      <4>4. QED BY <4>1, <4>2, <4>3 DEF lists
    <3>2. CASE v # new
      <4>1. ~(v > visits)
        BY <1>1, <2>2, <3>2 DEF Visits
      <4>2. /\ matched'[v] = matched[v] /\ calls'[v] = calls[v]
            /\ got'[v] = got[v] /\ asked'[v] = asked[v]
        BY <1>1, <3>2 DEF MatchInv, MatchTypeOK
      <4>3. QED BY <1>1, <4>1, <4>2 DEF MatchInv, VisitsAccountedFor
    <3>3. QED BY <3>1, <3>2
  <2>3. ASSUME ~overlapped', NEW v \in Visits, v < visits' PROVE calls'[v] = NoLists
    <3>1. v # new
      BY <1>1, <2>3
    <3>2. calls[v] = NoLists
      BY <1>2, <2>3 DEF Quiet
    <3>3. QED BY <1>1, <3>1, <3>2 DEF MatchInv, MatchTypeOK
  <2>4. QED BY <2>1, <2>2, <2>3 DEF VisitsAccountedFor
<1>6. LastVisitShown'
  <2>1. ASSUME NEW t \in Tables, calls'[visits'][t] = NoMovies
        PROVE  matched'[visits'][t] = NoMovies
    BY <1>1, <2>1 DEF MatchInv, MatchTypeOK
  <2>2. QED BY <2>1 DEF LastVisitShown
<1>7. QED BY <1>4, <1>5, <1>6 DEF MatchInv

(* A request ends with its movie, with an entry made of an error, or with  *)
(* nothing.                                                                *)
CallEnds(v, t, m) ==
    (\E movie \in {m, Unknown} : DetailsAnswer(v, t, m, movie)) \/ DetailsFail(v, t, m)

(* What its end does to the bags of its visit and table.                   *)
LEMMA CallEndsBags ==
    ASSUME MatchInv, NEW v \in Visits, NEW t \in Tables, NEW m \in Movies,
           CallEnds(v, t, m)
    PROVE  /\ calls' \in [Visits -> [Tables -> Bags]]
           /\ got' \in [Visits -> [Tables -> Bags]]
           /\ movies' \in [Tables -> Bags]
           /\ calls[v][t][m] > 0 /\ ~(v > visits)
           /\ \A w \in Visits \ {v} : calls'[w] = calls[w] /\ got'[w] = got[w]
           /\ \A s \in Tables \ {t} : calls'[v][s] = calls[v][s] /\ got'[v][s] = got[v][s]
           /\ \A s \in Tables \ {t} : movies'[s] = movies[s]
           /\ calls'[v][t] = Minus(calls[v][t], m)
           /\ got'[v][t] \in {got[v][t], Plus(got[v][t], m), Plus(got[v][t], Unknown)}
           /\ UNCHANGED <<watchlist, selectedFriends, screen, visits, matched, asked,
                          overlapped>>
<1>1. /\ calls \in [Visits -> [Tables -> Bags]] /\ got \in [Visits -> [Tables -> Bags]]
      /\ movies \in [Tables -> Bags]
      /\ calls[v][t][m] > 0
      /\ calls' = [calls EXCEPT ![v][t] = Minus(@, m)]
      /\ UNCHANGED <<watchlist, selectedFriends, screen, visits, matched, asked, overlapped>>
  BY DEF CallEnds, DetailsAnswer, DetailsFail, MatchInv, MatchTypeOK
<1>2. calls[v][t] \in Bags /\ got[v][t] \in Bags
  BY <1>1
<1>3. /\ Minus(calls[v][t], m) \in Bags
      /\ Plus(got[v][t], m) \in Bags /\ Plus(got[v][t], Unknown) \in Bags
  BY <1>1, <1>2, PlusMinus, MoviesAssumption
<1>4. got' \in {got, [got EXCEPT ![v][t] = Plus(@, m)], [got EXCEPT ![v][t] = Plus(@, Unknown)]}
  BY DEF CallEnds, DetailsAnswer, DetailsFail
<1>5. /\ calls' \in [Visits -> [Tables -> Bags]] /\ got' \in [Visits -> [Tables -> Bags]]
      /\ got'[v][t] \in Bags
  <2>1. calls' \in [Visits -> [Tables -> Bags]]
    BY <1>1, <1>3
  <2>2. got' \in [Visits -> [Tables -> Bags]]
    <3>1. CASE got' = got
      BY <1>1, <3>1
    <3>2. CASE got' = [got EXCEPT ![v][t] = Plus(@, m)]
      BY <1>1, <1>3, <3>2
    <3>3. CASE got' = [got EXCEPT ![v][t] = Plus(@, Unknown)]
      BY <1>1, <1>3, <3>3
    <3>4. QED BY <1>4, <3>1, <3>2, <3>3
  <2>3. QED BY <2>1, <2>2
<1>6. movies' \in {movies, [movies EXCEPT ![t] = got'[v][t]]}
  BY DEF CallEnds, DetailsAnswer, DetailsFail
<1>7. movies' \in [Tables -> Bags] /\ \A s \in Tables \ {t} : movies'[s] = movies[s]
  BY <1>1, <1>5, <1>6
<1>8. ~(v > visits)
  <2>1. calls[v] # NoLists
    BY <1>1 DEF NoLists, NoMovies
  <2>2. QED BY <2>1 DEF MatchInv, VisitsAccountedFor
<1>9. /\ \A w \in Visits \ {v} : calls'[w] = calls[w] /\ got'[w] = got[w]
      /\ \A s \in Tables \ {t} : calls'[v][s] = calls[v][s] /\ got'[v][s] = got[v][s]
      /\ calls'[v][t] = Minus(calls[v][t], m)
      /\ got'[v][t] \in {got[v][t], Plus(got[v][t], m), Plus(got[v][t], Unknown)}
  BY <1>1, <1>4
<1>10. QED BY <1>1, <1>5, <1>7, <1>8, <1>9

LEMMA AnswersKeepInv ==
    ASSUME MatchInv, NEW v \in Visits, NEW t \in Tables, NEW m \in Movies,
           CallEnds(v, t, m)
    PROVE  MatchInv'
<1>1. /\ calls' \in [Visits -> [Tables -> Bags]]
      /\ got' \in [Visits -> [Tables -> Bags]]
      /\ movies' \in [Tables -> Bags]
      /\ calls[v][t][m] > 0 /\ ~(v > visits)
      /\ \A w \in Visits \ {v} : calls'[w] = calls[w] /\ got'[w] = got[w]
      /\ \A s \in Tables \ {t} : calls'[v][s] = calls[v][s] /\ got'[v][s] = got[v][s]
      /\ \A s \in Tables \ {t} : movies'[s] = movies[s]
      /\ calls'[v][t] = Minus(calls[v][t], m)
      /\ got'[v][t] \in {got[v][t], Plus(got[v][t], m), Plus(got[v][t], Unknown)}
      /\ UNCHANGED <<watchlist, selectedFriends, screen, visits, matched, asked, overlapped>>
  BY CallEndsBags
<1>2. /\ failed' \subseteq Visits /\ failed \subseteq failed'
      /\ failed' \subseteq failed \cup {v}
      /\ v \notin failed' =>
            /\ got' = [got EXCEPT ![v][t] = Plus(@, m)]
            /\ movies' = IF Length(got'[v][t]) = Length(matched[v][t])
                           THEN [movies EXCEPT ![t] = got'[v][t]] ELSE movies
  BY DEF CallEnds, DetailsAnswer, DetailsFail, MatchInv, MatchTypeOK
<1>3. MatchTypeOK'
  BY <1>1, <1>2 DEF MatchInv, MatchTypeOK
<1>4. ASSUME v \notin failed'
      PROVE  \A n \in Movies : got'[v][t][n] + calls'[v][t][n] = matched[v][t][n]
  <2>1. TAKE n \in Movies
  <2>2. got[v][t][n] + calls[v][t][n] = matched[v][t][n]
    BY <1>1, <1>2, <1>4 DEF MatchInv, VisitsAccountedFor
  <2>3. got'[v][t] = Plus(got[v][t], m) /\ got[v][t] \in Bags /\ calls[v][t] \in Bags
    BY <1>2, <1>4 DEF MatchInv, MatchTypeOK
  <2>4. got[v][t][n] \in Nat /\ calls[v][t][n] \in Nat
    BY <2>3 DEF Bags
  <2>5. CASE n = m
    <3>1. got'[v][t][n] = got[v][t][n] + 1 /\ calls'[v][t][n] = calls[v][t][n] - 1
      BY <1>1, <2>3, <2>5, PlusMinus
    <3>2. QED BY <2>2, <2>4, <3>1
  <2>6. CASE n # m
    <3>1. got'[v][t][n] = got[v][t][n] /\ calls'[v][t][n] = calls[v][t][n]
      BY <1>1, <2>3, <2>6, PlusMinus
    <3>2. QED BY <2>2, <3>1
  <2>7. QED BY <2>5, <2>6
<1>5. \A n \in Movies \ {Unknown} : got'[v][t][n] + calls'[v][t][n] <= matched[v][t][n]
  <2>1. TAKE n \in Movies \ {Unknown}
  <2>2. got[v][t][n] + calls[v][t][n] <= matched[v][t][n]
    BY <1>1 DEF MatchInv, VisitsAccountedFor
  <2>3. got[v][t] \in Bags /\ calls[v][t] \in Bags /\ matched[v][t] \in Bags
    BY DEF MatchInv, MatchTypeOK
  <2>4. got[v][t][n] \in Nat /\ calls[v][t][n] \in Nat /\ matched[v][t][n] \in Nat
    BY <2>3 DEF Bags
  <2>5. Plus(got[v][t], Unknown)[n] = got[v][t][n]
    BY <2>3, PlusMinus, MoviesAssumption
  <2>6. CASE n = m
    <3>1. /\ got'[v][t][n] \in {got[v][t][n], got[v][t][n] + 1}
          /\ calls'[v][t][n] = calls[v][t][n] - 1
      BY <1>1, <2>3, <2>5, <2>6, PlusMinus
    <3>2. QED BY <2>2, <2>4, <3>1
  <2>7. CASE n # m
    <3>1. got'[v][t][n] = got[v][t][n] /\ calls'[v][t][n] = calls[v][t][n]
      BY <1>1, <2>3, <2>5, <2>7, PlusMinus
    <3>2. QED BY <2>2, <3>1
  <2>8. QED BY <2>6, <2>7
<1>6. VisitsAccountedFor'
  <2>1. ASSUME NEW w \in Visits, w > visits
        PROVE  calls'[w] = NoLists /\ got'[w] = NoLists /\ w \notin failed'
    BY <1>1, <1>2, <2>1 DEF MatchInv, VisitsAccountedFor
  <2>2. ASSUME NEW w \in Visits, ~(w > visits)
        PROVE  matched[w] = Matches(asked[w].list, asked[w].friends)
    BY <2>2 DEF MatchInv, VisitsAccountedFor
  <2>3. ASSUME NEW w \in Visits, ~(w > visits), NEW s \in Tables, NEW n \in Movies
        PROVE  /\ n # Unknown => got'[w][s][n] + calls'[w][s][n] <= matched[w][s][n]
               /\ w \notin failed' => got'[w][s][n] + calls'[w][s][n] = matched[w][s][n]
    <3>1. CASE w = v /\ s = t
      BY <1>4, <1>5, <2>3, <3>1
    <3>2. CASE ~(w = v /\ s = t)
      <4>1. got'[w][s] = got[w][s] /\ calls'[w][s] = calls[w][s]
        BY <1>1, <3>2
      <4>2. w \in failed => w \in failed'
        BY <1>2
      <4>3. QED BY <2>3, <4>1, <4>2 DEF MatchInv, VisitsAccountedFor
    <3>3. QED BY <3>1, <3>2
  <2>4. ASSUME ~overlapped, NEW w \in Visits, w < visits PROVE calls'[w] = NoLists
    <3>1. calls[w] = NoLists
      BY <2>4 DEF MatchInv, VisitsAccountedFor
    <3>2. w # v
      BY <1>1, <3>1 DEF NoLists, NoMovies
    <3>3. QED BY <1>1, <3>1, <3>2
  <2>5. QED BY <1>1, <2>1, <2>2, <2>3, <2>4 DEF VisitsAccountedFor
<1>7. LastVisitShown'
  <2>1. SUFFICES ASSUME ~overlapped, visits > 0, visits \notin failed',
                        NEW s \in Tables, calls'[visits][s] = NoMovies
                 PROVE  movies'[s] = matched[visits][s] \/ matched[visits][s] = NoMovies
    BY <1>1 DEF LastVisitShown
  <2>2. visits = v /\ visits \notin failed
    <3>1. calls[v] # NoLists
      BY <1>1 DEF NoLists, NoMovies
    <3>2. visits \in Nat /\ v \in Nat
      BY DEF MatchInv, MatchTypeOK, Visits
    <3>3. ~(v < visits)
      BY <2>1, <3>1 DEF MatchInv, VisitsAccountedFor
    <3>4. ~(v > visits)
      BY <1>1
    <3>5. visits = v
      BY <3>2, <3>3, <3>4
    <3>6. QED BY <1>2, <2>1, <3>5
  <2>3. CASE s = t
    <3>1. got'[v][t] \in Bags /\ matched[v][t] \in Bags
      BY <1>1 DEF MatchInv, MatchTypeOK
    <3>2. \A n \in Movies : got'[v][t][n] = matched[v][t][n]
      <4>1. TAKE n \in Movies
      <4>2. got'[v][t][n] + calls'[v][t][n] = matched[v][t][n]
        BY <1>4, <2>1, <2>2
      <4>3. calls'[v][t][n] = 0 /\ got'[v][t][n] \in Nat
        BY <2>1, <2>2, <2>3, <3>1 DEF NoMovies, Bags
      <4>4. QED BY <4>2, <4>3
    <3>3. got'[v][t] = matched[v][t]
      BY <3>1, <3>2, SameBag
    <3>4. movies' = [movies EXCEPT ![t] = got'[v][t]]
      BY <1>2, <2>1, <2>2, <3>3
    <3>5. QED BY <2>2, <2>3, <3>3, <3>4 DEF MatchInv, MatchTypeOK
  <2>4. CASE s # t
    <3>1. calls[visits][s] = NoMovies /\ movies'[s] = movies[s]
      BY <1>1, <2>1, <2>2, <2>4
    <3>2. QED BY <2>1, <2>2, <3>1 DEF MatchInv, LastVisitShown
  <2>5. QED BY <2>3, <2>4
<1>8. QED BY <1>3, <1>6, <1>7 DEF MatchInv

(* Steps that leave visits and tables alone.                               *)
LEMMA OthersKeepInv ==
    ASSUME MatchInv,
           \/ HandleDone \/ WatchlistChanges \/ ShowFriendsView \/ UNCHANGED matchVars
           \/ \E f \in Friends : DidSelectRow(f)
    PROVE  MatchInv'
<1>1. /\ UNCHANGED <<visits, matched, calls, got, movies, asked, failed, overlapped>>
      /\ watchlist' \in Bags /\ selectedFriends' \subseteq Friends
      /\ screen' \in {"closed", "friends", "results"}
  BY MatchingAssumption
     DEF HandleDone, WatchlistChanges, ShowFriendsView, DidSelectRow, matchVars,
         MatchInv, MatchTypeOK, IdLists
<1>2. MatchTypeOK'
  BY <1>1 DEF MatchInv, MatchTypeOK
<1>3. VisitsAccountedFor' /\ LastVisitShown'
  BY <1>1 DEF MatchInv, VisitsAccountedFor, LastVisitShown
<1>4. QED BY <1>2, <1>3 DEF MatchInv

(* Visits are accounted for, and the last of successive ones is shown, for *)
(* any friends, lists and number of visits (calculateMovieLists).          *)
THEOREM MatchInvariant == MatchSpec => []MatchInv
<1>1. MatchInv /\ [MatchNext]_matchVars => MatchInv'
  <2>1. SUFFICES ASSUME MatchInv, [MatchNext]_matchVars PROVE MatchInv'
    OBVIOUS
  <2>2. CASE GoToCombineWatchlist
    BY <2>1, <2>2, OpenKeepsInv
  <2>3. CASE ShowMatchingResults
    BY <2>1, <2>3, VisitKeepsInv
  <2>4. CASE \E v \in Visits, t \in Tables, m \in Movies : CallEnds(v, t, m)
    BY <2>1, <2>4, AnswersKeepInv
  <2>5. CASE \/ HandleDone \/ WatchlistChanges \/ ShowFriendsView \/ UNCHANGED matchVars
             \/ \E f \in Friends : DidSelectRow(f)
    BY <2>1, <2>5, OthersKeepInv
  <2>6. QED BY <2>1, <2>2, <2>3, <2>4, <2>5 DEF MatchNext, CallEnds
<1>2. QED BY <1>1, MatchInitInv, PTL DEF MatchSpec

(* The tables show what the definition of a match says of the friends      *)
(* chosen last (calculateMovieLists).                                      *)
THEOREM ResultsAreMatches == MatchSpec => []ResultsOfChoice
<1>1. MatchInv => ResultsOfChoice
  <2>1. SUFFICES ASSUME MatchInv, visits > 0, Quiet, visits \notin failed, ~overlapped
                 PROVE  ResultsOfChoice
    BY DEF ResultsOfChoice
  <2> DEFINE chosen == asked[visits].friends
             both == [m \in Movies |-> IF \E f \in chosen : m \in WatchlistOf[f]
                                       THEN asked[visits].list[m] ELSE 0]
             free == [m \in Movies |-> IF \A f \in chosen : m \notin ExcludedOf[f]
                                       THEN asked[visits].list[m] ELSE 0]
  <2>2. visits \in Visits /\ ~(visits > visits)
    BY <2>1, MatchingAssumption DEF MatchInv, MatchTypeOK, Visits
  <2>3. matched[visits] = Matches(asked[visits].list, chosen)
    BY <2>1, <2>2 DEF MatchInv, VisitsAccountedFor
  <2>4. /\ matched[visits]["watchlist"] = both
        /\ matched[visits]["exclude"] = free
    BY <2>3 DEF Matches, Keep, Tables
  <2>5. \A t \in Tables : calls[visits][t] = NoMovies
    BY <2>1, <2>2 DEF Quiet, NoLists
  <2>6. \A t \in Tables : movies[t] = matched[visits][t] \/ matched[visits][t] = NoMovies
    BY <2>1, <2>5 DEF MatchInv, LastVisitShown
  <2>7. QED BY <2>4, <2>6 DEF ResultsOfChoice, Tables
<1>2. QED BY <1>1, MatchInvariant, PTL

-----------------------------------------------------------------------------
(* Whole results.  The code compares lengths only: a list as long as the   *)
(* list of ids has all of its movies if it has no entry made of an error,  *)
(* as no visit asked for anything beyond its ids, also a visit of which    *)
(* requests failed or that another one overlapped.                         *)
ResultOf(v, t, list) ==
    /\ Length(list) = Length(matched[v][t])
    /\ \A m \in Movies \ {Unknown} : list[m] <= matched[v][t][m]
    /\ list[Unknown] = 0 => list = matched[v][t]

LEMMA OpenKeepsWhole ==
    ASSUME GoToCombineWatchlist PROVE WholeResults'
  BY Zenon DEF GoToCombineWatchlist, Fresh, NoLists, WholeResults

LEMMA VisitKeepsWhole ==
    ASSUME MatchInv, WholeResults, ShowMatchingResults PROVE WholeResults'
<1>1. /\ visits' = visits + 1 /\ visits \in Nat /\ movies' = movies
      /\ matched' = [matched EXCEPT ![visits'] = Matches(watchlist, selectedFriends)]
  BY MatchingAssumption DEF ShowMatchingResults, MatchInv, MatchTypeOK, Visits
<1>2. ASSUME NEW v \in Visits, v <= visits
      PROVE  v <= visits' /\ matched'[v] = matched[v]
  BY <1>1, <1>2 DEF MatchInv, MatchTypeOK, Visits
<1>3. QED BY <1>1, <1>2 DEF WholeResults

(* When a completion finds as many movies as ids, none can be missing      *)
(* unless an error was counted, as none is there too often.                *)
LEMMA AnswersKeepWhole ==
    ASSUME MatchInv, WholeResults, NEW v \in Visits, NEW t \in Tables, NEW m \in Movies,
           CallEnds(v, t, m)
    PROVE  WholeResults'
<1>1. /\ ~(v > visits)
      /\ \A s \in Tables \ {t} : movies'[s] = movies[s]
      /\ visits' = visits /\ matched' = matched
  BY CallEndsBags
<1>2. /\ matched[v][t] \in Bags /\ movies \in [Tables -> Bags]
      /\ v \in Nat /\ visits \in Nat
  BY DEF MatchInv, MatchTypeOK, Visits
<1>3. MatchInv'
  BY AnswersKeepInv
<1>4. got'[v][t] \in Bags /\ calls'[v][t] \in Bags
  BY <1>3 DEF MatchInv, MatchTypeOK
<1>5. \/ movies' = movies
      \/ /\ Length(got'[v][t]) = Length(matched[v][t])
         /\ movies' = [movies EXCEPT ![t] = got'[v][t]]
  BY Zenon DEF CallEnds, DetailsAnswer, DetailsFail
<1>6. \A n \in Movies \ {Unknown} : got'[v][t][n] <= matched[v][t][n]
  <2>1. TAKE n \in Movies \ {Unknown}
  <2>2. got'[v][t][n] + calls'[v][t][n] <= matched[v][t][n]
    BY <1>1, <1>3 DEF MatchInv, VisitsAccountedFor
  <2>3. /\ got'[v][t][n] \in Nat /\ calls'[v][t][n] \in Nat /\ matched[v][t][n] \in Nat
    BY <1>2, <1>4 DEF Bags
  <2>4. QED BY <2>2, <2>3
<1>7. ASSUME Length(got'[v][t]) = Length(matched[v][t])
      PROVE  ResultOf(v, t, got'[v][t])
  <2>1. ASSUME got'[v][t][Unknown] = 0 PROVE got'[v][t] = matched[v][t]
    <3>1. matched[v][t][Unknown] \in Nat
      BY <1>2, MoviesAssumption DEF Bags
    <3>2. \A n \in Movies : got'[v][t][n] <= matched[v][t][n]
      BY <1>6, <2>1, <3>1
    <3>3. QED BY <1>2, <1>4, <1>7, <3>2, SameLength
  <2>2. QED BY <1>6, <1>7, <2>1 DEF ResultOf
<1>8. SUFFICES ASSUME NEW s \in Tables, movies'[s] # NoMovies
               PROVE  \E w \in Visits : w <= visits /\ ResultOf(w, s, movies'[s])
  BY <1>1 DEF WholeResults, ResultOf
<1>9. CASE movies'[s] = movies[s]
  BY <1>8, <1>9 DEF WholeResults, ResultOf
<1>10. CASE movies'[s] # movies[s]
  <2>1. s = t /\ Length(got'[v][t]) = Length(matched[v][t]) /\ movies'[s] = got'[v][t]
    BY <1>1, <1>2, <1>5, <1>10
  <2>2. v <= visits
    BY <1>1, <1>2
  <2>3. QED BY <1>7, <2>1, <2>2
<1>11. QED BY <1>9, <1>10

(* A table shows nothing or as many entries as one visit has ids, of which *)
(* no movie is missing but for entries made of errors, for any friends,    *)
(* lists and number of visits, in any order of answers and failures        *)
(* (fetchMovieWithDetails, calculateMovieLists).                           *)
THEOREM ResultsAreWhole == MatchSpec => []WholeResults
<1>1. MatchInit => WholeResults
  BY Zenon DEF MatchInit, WholeResults, NoLists
<1>2. MatchInv /\ WholeResults /\ [MatchNext]_matchVars => WholeResults'
  <2>1. SUFFICES ASSUME MatchInv, WholeResults, [MatchNext]_matchVars PROVE WholeResults'
    OBVIOUS
  <2>2. CASE GoToCombineWatchlist
    BY <2>2, OpenKeepsWhole
  <2>3. CASE ShowMatchingResults
    BY <2>1, <2>3, VisitKeepsWhole
  <2>4. CASE \E v \in Visits, t \in Tables, m \in Movies : CallEnds(v, t, m)
    BY <2>1, <2>4, AnswersKeepWhole
  <2>5. CASE \/ HandleDone \/ WatchlistChanges \/ ShowFriendsView \/ UNCHANGED matchVars
             \/ \E f \in Friends : DidSelectRow(f)
    <3>1. UNCHANGED <<visits, matched, movies>>
      BY <2>5 DEF HandleDone, WatchlistChanges, ShowFriendsView, DidSelectRow, matchVars
    <3>2. QED BY <2>1, <3>1 DEF WholeResults
  <2>6. QED BY <2>1, <2>2, <2>3, <2>4, <2>5 DEF MatchNext, CallEnds
<1>3. QED BY <1>1, <1>2, MatchInvariant, PTL DEF MatchSpec
=============================================================================

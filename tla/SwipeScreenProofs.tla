------------------------- MODULE SwipeScreenProofs -------------------------
(***************************************************************************)
(* Proofs about the loads of movies and the screen that starts them.       *)
(* First the loads alone and the pages they request, for every catalog,    *)
(* every number of loads and saves, and every saved filter; then the deck, *)
(* for every set of movies, every deck a response may install and every    *)
(* content of the lists of an account; then the swipe screen: it runs the  *)
(* deck and the loads as their own specifications allow, accounts for      *)
(* every load in flight, and never shows a movie that was swiped before    *)
(* the load.  Last, that no load goes round in circles.                    *)
(***************************************************************************)
EXTENDS SwipeScreen, FetchPages, TLAPS, FiniteSetTheorems

(* What removeAlreadySwiped returns is a list of movies of the page, none  *)
(* of them swiped, none twice that the page does not have twice.           *)
LEMMA UnseenType ==
    ASSUME NEW page \in Seq(Movies), NEW swiped, NEW s \in Unseen(page, swiped)
    PROVE  /\ s \in Seq(Movies) /\ ToSet(s) \subseteq ToSet(page) \ swiped
           /\ IsInjective(page) => IsInjective(s)
<1> DEFINE kept == {k \in DOMAIN page : page[k] \notin swiped}
           n == Cardinality(kept)
<1>1. DOMAIN page = 1..Len(page) /\ Len(page) \in Nat /\ page \in [DOMAIN page -> Movies]
  OBVIOUS
<1>2. n \in Nat
  <2>1. IsFiniteSet(1..Len(page))
    BY <1>1, FS_Interval
  <2>2. kept \subseteq 1..Len(page)
    BY <1>1
  <2>3. QED BY <2>1, <2>2, FS_Subset, FS_CardinalityType
<1>3. PICK at \in SetToSeqs(kept) : s = [i \in DOMAIN at |-> page[at[i]]]
  BY DEF Unseen
<1>4. at \in [1..n -> kept] /\ \A i, j \in 1..n : i # j => at[i] # at[j]
  BY DEF SetToSeqs
<1> HIDE DEF n
<1>5. DOMAIN at = 1..n /\ \A i \in 1..n : at[i] \in DOMAIN page /\ page[at[i]] \notin swiped
  BY <1>4
<1>6. s = [i \in 1..n |-> page[at[i]]]
  BY <1>3, <1>5
<1>7. s \in [1..n -> Movies]
  BY <1>1, <1>5, <1>6
<1>8. ToSet(s) \subseteq ToSet(page) \ swiped
  BY <1>5, <1>6 DEF ToSet
<1>9. ASSUME IsInjective(page) PROVE IsInjective(s)
  BY <1>4, <1>5, <1>6, <1>9 DEF IsInjective
<1>10. QED BY <1>2, <1>7, <1>8, <1>9

LEMMA PageType ==
    ASSUME NEW r \in Requests
    PROVE  PageOf(r) \in Seq(Movies) /\ Len(Catalog[r.filter]) \in Nat
<1>1. Catalog[r.filter] \in Seq(Seq(Movies)) /\ r.page \in Nat \ {0}
  BY CatalogAssumption DEF Requests
<1>2. Len(Catalog[r.filter]) \in Nat
  BY <1>1
<1>3. r.page <= Len(Catalog[r.filter]) => Catalog[r.filter][r.page] \in Seq(Movies)
  BY <1>1, <1>2
<1>4. <<>> \in Seq(Movies)
  OBVIOUS
<1>5. QED BY <1>2, <1>3, <1>4 DEF PageOf

(* A request is sent for the page of the shared filter, which moves on.    *)
LEMMA SendType ==
    ASSUME NEW others \in SUBSET Requests, NEW i \in Nat, NEW f \in FilterValues,
           Send(others, i, f)
    PROVE  /\ requests' \in SUBSET Requests
           /\ filter' \in FilterValues
           /\ filter'.page = f.page + 1
BY DEF Send, Requests, FilterValues

(* Starting a load moves the page on by one, or is refused and leaves it.  *)
LEMMA StartLoadType ==
    ASSUME FetchTypeOK, NEW f \in FilterValues, NEW m \in Modals, NEW told \in Modals,
           StartLoad(f, m, told)
    PROVE  /\ requests' \in SUBSET Requests
           /\ filter' \in FilterValues
           /\ filter'.page \in {f.page, f.page + 1}
           /\ moviesToDisplay' \in Seq(Movies)
           /\ modal' \in Modals
           /\ starts' \in Nat
           /\ pure' \in BOOLEAN
<1>1. starts' \in Nat /\ FetchMovies(f, m, told) /\ moviesToDisplay' = <<>>
  BY DEF StartLoad, BeginLoad, FetchTypeOK
<1>2. pure' \in BOOLEAN
  BY Zenon DEF StartLoad, BeginLoad
<1>3. modal' \in Modals
  BY <1>1 DEF FetchMovies
<1>4. CASE filter' = f /\ UNCHANGED requests
  BY <1>1, <1>2, <1>3, <1>4 DEF FetchTypeOK
<1>5. CASE Send(requests, starts + 1, f)
  <2>1. requests \in SUBSET Requests /\ starts + 1 \in Nat
    BY DEF FetchTypeOK
  <2>2. requests' \in SUBSET Requests /\ filter' \in FilterValues
          /\ filter'.page = f.page + 1
    BY <1>5, <2>1, SendType
  <2>3. QED BY <1>1, <1>2, <1>3, <2>2
<1>6. QED BY <1>1, <1>4, <1>5 DEF FetchMovies

(* An answer moves the page on by one, or leaves it.                       *)
LEMMA AnswerType ==
    ASSUME FetchTypeOK, NEW r \in requests, Answer(r)
    PROVE  FetchTypeOK' /\ filter'.page \in {filter.page, filter.page + 1}
<1> USE DEF FetchTypeOK
<1>1. r \in Requests /\ requests \ {r} \in SUBSET Requests
  OBVIOUS
<1>2. ASSUME NEW swiped, Respond(r, swiped)
      PROVE  FetchTypeOK' /\ filter'.page \in {filter.page, filter.page + 1}
  <2> DEFINE known == [filter EXCEPT !.totalPages = Len(Catalog[r.filter])]
  <2>1. known \in FilterValues /\ known.page = filter.page
    BY <1>1, PageType DEF FilterValues
  <2>2. PICK fresh \in Unseen(PageOf(r), swiped) :
          moviesToDisplay' = moviesToDisplay \o fresh
    BY <1>2 DEF Respond
  <2>3. moviesToDisplay' \in Seq(Movies)
    <3>1. fresh \in Seq(Movies)
      BY <1>1, <2>2, PageType, UnseenType
    <3>2. QED BY <2>2, <3>1
  <2>4. UNCHANGED <<disk, uiVars, modal, starts, saves, pure>>
    BY <1>2 DEF Respond
  <2>5. CASE requests' = requests \ {r} /\ filter' = known
    BY <1>1, <2>1, <2>3, <2>4, <2>5 DEF uiVars
  <2>6. CASE Send(requests \ {r}, r.id, known)
    <3>1. r.id \in Nat
      BY <1>1 DEF Requests
    <3>2. requests' \in SUBSET Requests /\ filter' \in FilterValues
            /\ filter'.page = known.page + 1
      BY <1>1, <2>1, <2>6, <3>1, SendType
    <3>3. QED BY <2>1, <2>3, <2>4, <3>2 DEF uiVars
  <2>7. QED BY <1>2, <2>5, <2>6 DEF Respond
<1>3. ASSUME Fail(r)
      PROVE  FetchTypeOK' /\ filter'.page \in {filter.page, filter.page + 1}
  <2>1. modal' \in Modals
    BY <1>3 DEF Fail, Present, Modals, Alerts
  <2>2. QED BY <1>3, <2>1 DEF Fail, FailKeeps, uiVars
<1>4. QED BY <1>2, <1>3 DEF Answer

-----------------------------------------------------------------------------

LEMMA FetchInitType == FetchInit => FetchTypeOK
<1> SUFFICES ASSUME FetchInit PROVE FetchTypeOK
  OBVIOUS
<1>1. LaunchFilter \in FilterValues
  BY FilterAssumption DEF LaunchFilter, FilterValues
<1>2. disk \in FilterValues \cup {None} /\ filter \in FilterValues
  BY <1>1, FilterAssumption DEF FetchInit
<1>3. loaded \in BOOLEAN /\ loginAsked \in BOOLEAN /\ pure \in BOOLEAN
  BY Zenon DEF FetchInit
<1>4. modal \in Modals /\ requests \in SUBSET Requests /\ moviesToDisplay \in Seq(Movies)
  BY DEF FetchInit, Modals
<1>5. QED BY <1>2, <1>3, <1>4 DEF FetchInit, FetchTypeOK

(* A step that starts no load and gets no answer moves the page only by    *)
(* saving the filter, or by loading the one that was saved.                *)
LEMMA OtherType ==
    ASSUME FetchTypeOK,
           \/ OpenFilter \/ CloseModal \/ AskLogin \/ PresentLogin
           \/ PresentOther \/ SaveFilter
           \/ \E next \in {"none", "username"} : LoadFilter(next)
    PROVE  /\ FetchTypeOK'
           /\ \/ filter' = filter
              \/ filter'.page = filter.page - 1 /\ saves' # saves
              \/ disk # None /\ \E next \in {"none", "username"} : LoadFilter(next)
<1> USE DEF FetchTypeOK
<1>1. CASE OpenFilter
  <2>1. draft' \in Nat /\ modal' \in Modals
    BY <1>1 DEF OpenFilter, FilterValues, Modals
  <2>2. QED BY <1>1, <2>1 DEF OpenFilter
<1>2. CASE CloseModal
  BY <1>2 DEF CloseModal, Modals
<1>3. CASE AskLogin
  BY <1>3 DEF AskLogin
<1>4. CASE PresentLogin
  BY <1>4 DEF PresentLogin, Present, Modals
<1>5. CASE PresentOther
  BY <1>5 DEF PresentOther, uiVars, Modals
<1>6. CASE SaveFilter
  <2>1. Rewind(filter) \in FilterValues
    BY DEF Rewind, FilterValues
  <2>2. Rewind(filter) = filter \/ Rewind(filter).page = filter.page - 1
    BY DEF Rewind, FilterValues
  <2>3. pure' \in BOOLEAN
    BY <1>6, Zenon DEF SaveFilter
  <2>4. saves' \in Nat /\ saves' # saves
    BY <1>6 DEF SaveFilter
  <2>5. QED BY <1>6, <2>1, <2>2, <2>3, <2>4 DEF SaveFilter, uiVars
<1>7. ASSUME NEW next \in {"none", "username"}, LoadFilter(next)
      PROVE  FetchTypeOK' /\ (filter' = filter \/ disk # None)
  <2>1. pure' \in BOOLEAN
    BY <1>7, Zenon DEF LoadFilter
  <2>2. modal' \in Modals
    BY <1>7 DEF LoadFilter, Present, Modals
  <2>3. filter' \in FilterValues
    BY <1>7 DEF LoadFilter
  <2>4. loaded' \in BOOLEAN /\ (filter' = filter \/ disk # None)
    BY <1>7 DEF LoadFilter
  <2>5. QED BY <1>7, <2>1, <2>2, <2>3, <2>4 DEF LoadFilter
<1>8. QED BY <1>1, <1>2, <1>3, <1>4, <1>5, <1>6, <1>7

(* Refill, saving the filter and signing in: each starts a load from the   *)
(* page of the filter it uses, the last two from page 1.                   *)
LEMMA RefillType ==
    ASSUME FetchTypeOK, Refill
    PROVE  FetchTypeOK' /\ filter'.page \in {filter.page, filter.page + 1}
<1>1. "none" \in Modals /\ "noMoreMovies" \in Modals /\ filter \in FilterValues
  BY DEF Modals, Alerts, FetchTypeOK
<1>2. StartLoad(filter, "none", "noMoreMovies")
  BY DEF Refill
<1>3. QED BY <1>1, <1>2, StartLoadType DEF Refill, FetchTypeOK, uiVars

LEMMA ApplyFilterType ==
    ASSUME FetchTypeOK, NEW q \in Filters, ApplyFilter(q)
    PROVE  FetchTypeOK' /\ filter'.page \in {1, 2}
<1> DEFINE f == [id |-> q, page |-> 1, totalPages |-> draft]
<1>1. "none" \in Modals /\ f \in FilterValues /\ f.page = 1
  BY DEF Modals, FetchTypeOK, FilterValues
<1>2. StartLoad(f, "none", "none")
  BY DEF ApplyFilter
<1> HIDE DEF f
<1>3. /\ requests' \in SUBSET Requests
      /\ filter' \in FilterValues
      /\ filter'.page \in {f.page, f.page + 1}
      /\ moviesToDisplay' \in Seq(Movies)
      /\ modal' \in Modals
      /\ starts' \in Nat
      /\ pure' \in BOOLEAN
  BY <1>1, <1>2, StartLoadType
<1>4. QED BY <1>1, <1>3 DEF ApplyFilter, FetchTypeOK

LEMMA SignInType ==
    ASSUME FetchTypeOK, NEW named \in BOOLEAN, SignIn(named)
    PROVE  FetchTypeOK' /\ filter'.page \in {1, 2}
<1> DEFINE f == [filter EXCEPT !.page = 1]
           next == IF named THEN "none" ELSE "username"
           told == Present(next, "noMoreMovies")
<1>1. f \in FilterValues /\ f.page = 1
  BY DEF FetchTypeOK, FilterValues
<1>2. next \in Modals /\ told \in Modals
  BY DEF Modals, Alerts, Present
<1>3. StartLoad(f, next, told)
  BY DEF SignIn
<1> HIDE DEF f, next, told
<1>4. /\ requests' \in SUBSET Requests
      /\ filter' \in FilterValues
      /\ filter'.page \in {f.page, f.page + 1}
      /\ moviesToDisplay' \in Seq(Movies)
      /\ modal' \in Modals
      /\ starts' \in Nat
      /\ pure' \in BOOLEAN
  BY <1>1, <1>2, <1>3, StartLoadType
<1>5. signInsLeft' \in BOOLEAN
  BY DEF SignIn
<1>6. QED BY <1>1, <1>4, <1>5 DEF SignIn, FetchTypeOK

-----------------------------------------------------------------------------

LEMMA FetchStepType == FetchTypeOK /\ [FetchNext]_fetchVars => FetchTypeOK'
<1> SUFFICES ASSUME FetchTypeOK, [FetchNext]_fetchVars PROVE FetchTypeOK'
  OBVIOUS
<1>1. CASE Refill
  BY <1>1, RefillType
<1>2. CASE \E q \in Filters : ApplyFilter(q)
  BY <1>2, ApplyFilterType
<1>3. CASE \E named \in BOOLEAN : SignIn(named)
  BY <1>3, SignInType
<1>4. CASE \E r \in requests : Answer(r)
  BY <1>4, AnswerType
<1>5. CASE \/ OpenFilter \/ CloseModal \/ AskLogin \/ PresentLogin
           \/ PresentOther \/ SaveFilter
           \/ \E next \in {"none", "username"} : LoadFilter(next)
  BY <1>5, OtherType
<1>6. CASE UNCHANGED fetchVars
  BY <1>6 DEF fetchVars, FetchTypeOK
<1>7. QED BY <1>1, <1>2, <1>3, <1>4, <1>5, <1>6 DEF FetchNext

(* The shared filter, the saved one and the requests stay well formed: in  *)
(* particular the page number, which saveFilter takes back and fetchMovies *)
(* moves on, never falls below the first page.                             *)
THEOREM FetchTypes == FetchSpec => []FetchTypeOK
<1>1. FetchInit => FetchTypeOK
  BY FetchInitType
<1>2. FetchTypeOK /\ [FetchNext]_fetchVars => FetchTypeOK'
  BY FetchStepType
<1>3. QED BY <1>1, <1>2, PTL DEF FetchSpec

-----------------------------------------------------------------------------
(* One pass over one query.                                                *)

LEMMA ConcatType ==
    ASSUME NEW s \in Seq(Movies), NEW t \in Seq(Movies)
    PROVE  /\ ToSet(s \o t) \subseteq ToSet(s) \cup ToSet(t)
           /\ IsInjective(s) /\ IsInjective(t) /\ ToSet(s) \cap ToSet(t) = {} =>
                IsInjective(s \o t)
<1> DEFINE m == Len(s)
           n == Len(t)
           r == s \o t
<1>1. /\ DOMAIN r = 1..(m + n) /\ DOMAIN s = 1..m /\ DOMAIN t = 1..n
      /\ m \in Nat /\ n \in Nat
      /\ \A i \in 1..(m + n) : r[i] = IF i <= m THEN s[i] ELSE t[i - m]
  OBVIOUS
<1> HIDE DEF m, n, r
<1>2. ASSUME NEW i \in 1..(m + n)
      PROVE  \/ i \in 1..m /\ r[i] = s[i] /\ r[i] \in ToSet(s)
             \/ ~(i \in 1..m) /\ i - m \in 1..n /\ r[i] = t[i - m] /\ r[i] \in ToSet(t)
  <2>1. CASE i <= m
    <3>1. i \in 1..m /\ r[i] = s[i]
      BY <1>1, <2>1
    <3>2. QED BY <3>1, <1>1 DEF ToSet
  <2>2. CASE ~(i <= m)
    <3>1. ~(i \in 1..m) /\ i - m \in 1..n /\ r[i] = t[i - m]
      BY <1>1, <2>2
    <3>2. QED BY <3>1, <1>1 DEF ToSet
  <2>3. QED BY <2>1, <2>2
<1>3. ToSet(r) \subseteq ToSet(s) \cup ToSet(t)
  BY <1>1, <1>2 DEF ToSet
<1>4. ASSUME IsInjective(s), IsInjective(t), ToSet(s) \cap ToSet(t) = {}
      PROVE  IsInjective(r)
  <2>1. SUFFICES ASSUME NEW i \in 1..(m + n), NEW j \in 1..(m + n), r[i] = r[j]
                 PROVE  i = j
    BY <1>1 DEF IsInjective
  <2>2. CASE i \in 1..m /\ j \in 1..m
    <3>1. s[i] = s[j]
      BY <1>2, <2>1, <2>2
    <3>2. QED BY <3>1, <2>2, <1>1, <1>4 DEF IsInjective
  <2>3. CASE ~(i \in 1..m) /\ ~(j \in 1..m)
    <3>1. i - m \in 1..n /\ j - m \in 1..n /\ t[i - m] = t[j - m]
      BY <1>2, <2>1, <2>3
    <3>2. i - m = j - m
      BY <3>1, <1>1, <1>4 DEF IsInjective
    <3>3. QED BY <3>2, <1>1
  <2>4. CASE (i \in 1..m) # (j \in 1..m)
    BY <1>2, <1>4, <2>1, <2>4
  <2>5. QED BY <2>2, <2>3, <2>4
<1>5. QED BY <1>3, <1>4 DEF r

(* The movies on the pages of a query before page n.                       *)
Before(f, n) == UNION {ToSet(Catalog[f][p]) : p \in {q \in DOMAIN Catalog[f] : q < n}}

(* The inductive invariant: while one load alone fills the list, the list  *)
(* has the pages of its query that came before the one in flight.          *)
PassInv ==
    pure =>
      /\ IsInjective(moviesToDisplay)
      /\ \E f \in Filters : ToSet(moviesToDisplay) \subseteq MoviesOf(f)
      /\ \A r \in requests :
            /\ requests = {r} /\ r.filter = filter.id /\ r.page + 1 = filter.page
            /\ ToSet(moviesToDisplay) \subseteq Before(r.filter, r.page)

(* A page has no movie twice and none of an earlier page.                  *)
LEMMA PageIsNew ==
    ASSUME OncePerQuery, NEW r \in Requests
    PROVE  /\ IsInjective(PageOf(r))
           /\ Before(r.filter, r.page) \cap ToSet(PageOf(r)) = {}
           /\ Before(r.filter, r.page) \cup ToSet(PageOf(r)) \subseteq
                Before(r.filter, r.page + 1)
           /\ Before(r.filter, r.page + 1) \subseteq MoviesOf(r.filter)
<1> DEFINE pages == Catalog[r.filter]
<1>1. /\ r.filter \in Filters /\ r.page \in Nat \ {0}
      /\ pages \in Seq(Seq(Movies)) /\ DOMAIN pages = 1..Len(pages) /\ Len(pages) \in Nat
  BY CatalogAssumption DEF Requests
<1>2. \A p, q \in DOMAIN pages : \A i \in DOMAIN pages[p], j \in DOMAIN pages[q] :
        pages[p][i] = pages[q][j] => p = q /\ i = j
  BY <1>1 DEF OncePerQuery
<1>3. \A p \in DOMAIN pages : p < r.page => p < r.page + 1 /\ p # r.page
  BY <1>1
<1>4. Before(r.filter, r.page + 1) \subseteq MoviesOf(r.filter)
  BY DEF Before, MoviesOf
<1>5. Before(r.filter, r.page) \subseteq Before(r.filter, r.page + 1)
  BY <1>3 DEF Before
<1>6. CASE r.page <= Len(pages)
  <2>1. r.page \in DOMAIN pages /\ PageOf(r) = pages[r.page] /\ r.page < r.page + 1
    BY <1>1, <1>6 DEF PageOf
  <2>2. IsInjective(PageOf(r))
    BY <1>2, <2>1 DEF IsInjective
  <2>3. ToSet(PageOf(r)) \subseteq Before(r.filter, r.page + 1)
    BY <2>1 DEF Before
  <2>4. ASSUME NEW x \in Before(r.filter, r.page), x \in ToSet(PageOf(r)) PROVE FALSE
    <3>1. PICK p \in DOMAIN pages : p # r.page /\ x \in ToSet(pages[p])
      BY <1>3, <2>4 DEF Before
    <3>2. PICK i \in DOMAIN pages[p] : x = pages[p][i]
      BY <3>1 DEF ToSet
    <3>3. PICK j \in DOMAIN pages[r.page] : x = pages[r.page][j]
      BY <2>1, <2>4 DEF ToSet
    <3>4. QED BY <1>2, <2>1, <3>1, <3>2, <3>3
  <2>5. QED BY <1>4, <1>5, <2>2, <2>3, <2>4
<1>7. CASE ~(r.page <= Len(pages))
  <2>1. PageOf(r) = <<>>
    BY <1>7 DEF PageOf
  <2>2. IsInjective(PageOf(r)) /\ ToSet(PageOf(r)) = {}
    BY <2>1 DEF IsInjective, ToSet
  <2>3. QED BY <1>4, <1>5, <2>2
<1>8. QED BY <1>6, <1>7

LEMMA EmptyPass == IsInjective(<<>>) /\ ToSet(<<>>) = {} /\ \E f \in Filters : TRUE
BY FilterAssumption DEF IsInjective, ToSet

LEMMA StartLoadPass ==
    ASSUME FetchTypeOK, NEW f \in FilterValues, NEW m, NEW told, StartLoad(f, m, told)
    PROVE  PassInv'
<1>1. SUFFICES ASSUME pure' PROVE PassInv'
  BY DEF PassInv
<1>2. requests = {} /\ moviesToDisplay' = <<>>
  BY <1>1 DEF StartLoad, BeginLoad
<1>3. \/ UNCHANGED requests
      \/ Send(requests, starts + 1, f)
  BY DEF StartLoad, BeginLoad, FetchMovies
<1>4. ASSUME NEW r \in requests'
      PROVE  requests' = {r} /\ r.filter = filter'.id /\ r.page + 1 = filter'.page
  <2>1. /\ requests' = {[id |-> starts + 1, filter |-> f.id, page |-> f.page]}
        /\ filter' = [f EXCEPT !.page = @ + 1]
    BY <1>2, <1>3, <1>4 DEF Send
  <2>2. QED BY <2>1, <1>4 DEF FilterValues
<1>5. QED BY <1>2, <1>4, EmptyPass DEF PassInv

LEMMA ResponsePass ==
    ASSUME OncePerQuery, FetchTypeOK, PassInv, NEW r \in requests, NEW swiped,
           Respond(r, swiped)
    PROVE  PassInv'
<1>1. SUFFICES ASSUME pure' PROVE PassInv'
  BY DEF PassInv
<1>2. r \in Requests /\ r.filter \in Filters /\ filter \in FilterValues /\ moviesToDisplay \in Seq(Movies)
  BY DEF FetchTypeOK, Requests
<1>3. /\ IsInjective(moviesToDisplay) /\ requests = {r} /\ r.filter = filter.id
      /\ r.page + 1 = filter.page /\ ToSet(moviesToDisplay) \subseteq Before(r.filter, r.page)
  BY <1>1 DEF Respond, PassInv
<1>4. PICK fresh \in Unseen(PageOf(r), swiped) : moviesToDisplay' = moviesToDisplay \o fresh
  BY DEF Respond
<1>5. /\ fresh \in Seq(Movies) /\ ToSet(fresh) \subseteq ToSet(PageOf(r))
      /\ IsInjective(fresh)
  BY <1>2, <1>4, PageType, PageIsNew, UnseenType
<1>6. /\ IsInjective(moviesToDisplay')
      /\ ToSet(moviesToDisplay') \subseteq Before(r.filter, r.page + 1)
  <2>1. ToSet(moviesToDisplay) \cap ToSet(fresh) = {}
    BY <1>2, <1>3, <1>5, PageIsNew
  <2>2. /\ ToSet(moviesToDisplay') \subseteq ToSet(moviesToDisplay) \cup ToSet(fresh)
        /\ IsInjective(moviesToDisplay')
    BY <1>2, <1>3, <1>4, <1>5, <2>1, ConcatType
  <2>3. QED BY <1>2, <1>3, <1>5, <2>2, PageIsNew
<1>7. \E f \in Filters : ToSet(moviesToDisplay') \subseteq MoviesOf(f)
  BY <1>2, <1>6, PageIsNew
<1>8. ASSUME NEW q \in requests'
      PROVE  /\ requests' = {q} /\ q.filter = filter'.id /\ q.page + 1 = filter'.page
             /\ ToSet(moviesToDisplay') \subseteq Before(q.filter, q.page)
  <2> DEFINE known == [filter EXCEPT !.totalPages = Len(Catalog[r.filter])]
  <2>1. requests \ {r} = {}
    BY <1>3
  <2>2. Send(requests \ {r}, r.id, known)
    BY <1>8, <2>1 DEF Respond
  <2>3. known.id = filter.id /\ known.page = filter.page /\ known.page \in Nat \ {0}
    BY <1>2 DEF FilterValues
  <2>4. filter'.id = known.id /\ filter'.page = known.page + 1
    BY <1>2, <2>2 DEF Send, FilterValues
  <2>5. requests' = {[id |-> r.id, filter |-> known.id, page |-> known.page]}
    BY <2>1, <2>2 DEF Send
  <2> HIDE DEF known
  <2>6. requests' = {q} /\ q.filter = known.id /\ q.page = known.page
    BY <1>8, <2>5
  <2>7. q.page = r.page + 1 /\ q.filter = r.filter
    BY <1>3, <2>3, <2>6
  <2>8. QED BY <1>6, <2>3, <2>4, <2>6, <2>7
<1>9. QED BY <1>6, <1>7, <1>8 DEF PassInv

LEMMA PassStep ==
    ASSUME OncePerQuery, FetchTypeOK, PassInv, [FetchNext]_fetchVars
    PROVE  PassInv'
<1>1. CASE Refill
  BY <1>1, StartLoadPass DEF Refill, FetchTypeOK
<1>2. ASSUME NEW q \in Filters, ApplyFilter(q) PROVE PassInv'
  <2>1. [id |-> q, page |-> 1, totalPages |-> draft] \in FilterValues
    BY DEF FetchTypeOK, FilterValues
  <2>2. QED BY <1>2, <2>1, StartLoadPass DEF ApplyFilter
<1>3. ASSUME NEW named \in BOOLEAN, SignIn(named) PROVE PassInv'
  <2>1. [filter EXCEPT !.page = 1] \in FilterValues
    BY DEF FetchTypeOK, FilterValues
  <2>2. QED BY <1>3, <2>1, StartLoadPass DEF SignIn
<1>4. ASSUME NEW r \in requests, Answer(r) PROVE PassInv'
  <2>1. CASE Fail(r)
    <3>1. requests' = requests \ {r} /\ UNCHANGED <<pure, filter, moviesToDisplay>>
      BY <2>1 DEF Fail, FailKeeps
    <3>2. pure => requests' = {}
      BY <3>1 DEF PassInv
    <3>3. QED BY <3>1, <3>2 DEF PassInv
  <2>2. QED BY <1>4, <2>1, ResponsePass DEF Answer
<1>5. CASE SaveFilter \/ \E next \in {"none", "username"} : LoadFilter(next)
  <2>1. /\ UNCHANGED <<requests, moviesToDisplay>>
        /\ pure' => pure /\ (requests = {} \/ filter' = filter)
    BY <1>5 DEF SaveFilter, LoadFilter
  <2>2. QED BY <2>1 DEF PassInv
<1>6. CASE UNCHANGED <<pure, filter, requests, moviesToDisplay>>
  BY <1>6 DEF PassInv
<1>7. OpenFilter \/ CloseModal \/ AskLogin \/ PresentLogin \/ PresentOther \/ UNCHANGED fetchVars
        => UNCHANGED <<pure, filter, requests, moviesToDisplay>>
  BY DEF OpenFilter, CloseModal, AskLogin, PresentLogin, PresentOther, fetchVars
<1>8. QED BY <1>1, <1>2, <1>3, <1>4, <1>5, <1>6, <1>7 DEF FetchNext

LEMMA PassInit == FetchInit => PassInv
BY EmptyPass DEF FetchInit, PassInv

(* For every catalog that lists a movie once per query, what one load      *)
(* shows is one pass over one query: every page once, in whatever order    *)
(* the answers, saves, failures and launches come (fetchMovies).           *)
THEOREM OnePass == ASSUME OncePerQuery PROVE FetchSpec => []OnePassPerLoad
<1>1. PassInv => OnePassPerLoad
  BY DEF PassInv, OnePassPerLoad
<1>2. FetchTypeOK /\ PassInv /\ [FetchNext]_fetchVars => PassInv'
  BY PassStep
<1>3. QED BY <1>1, <1>2, PassInit, FetchTypes, PTL DEF FetchSpec

-----------------------------------------------------------------------------

(* The inductive invariant of the pages: everything from the first page to *)
(* the one before the next was asked, and, unless a save intervened, in    *)
(* this order and once.                                                    *)
InOrder ==
    ~rewound => /\ filter.page = firstPage + Len(asked)
                /\ \A i \in 1..Len(asked) : asked[i] = firstPage + i - 1
PagesInv == PagesTypeOK /\ AskedBefore /\ InOrder

LEMMA AppendType ==
    ASSUME NEW s \in Seq(Nat \ {0}), NEW p \in Nat \ {0}
    PROVE  /\ Append(s, p) \in Seq(Nat \ {0})
           /\ Len(Append(s, p)) = Len(s) + 1
           /\ \A i \in 1..Len(s) : Append(s, p)[i] = s[i]
           /\ Append(s, p)[Len(s) + 1] = p
           /\ ToSet(s) \cup {p} \subseteq ToSet(Append(s, p))
<1>1. /\ Append(s, p) \in Seq(Nat \ {0})
      /\ Len(Append(s, p)) = Len(s) + 1 /\ Len(s) \in Nat
      /\ \A i \in 1..Len(s) : Append(s, p)[i] = s[i]
      /\ Append(s, p)[Len(s) + 1] = p
  OBVIOUS
<1>2. /\ DOMAIN s = 1..Len(s)
      /\ DOMAIN Append(s, p) = 1..(Len(s) + 1)
  BY <1>1
<1>3. QED BY <1>1, <1>2 DEF ToSet

(* A step that goes on with the filter there is.                           *)
LEMMA GoOnInv == ASSUME PagesInv, GoOn PROVE PagesInv'
<1> USE DEF PagesInv, PagesTypeOK
<1>1. /\ FetchTypeOK'
      /\ \/ filter'.page \in {filter.page, filter.page + 1}
         \/ filter'.page = filter.page - 1 /\ saves' # saves
  <2>1. CASE Refill
    BY <2>1, RefillType
  <2>2. CASE \E r \in requests : Answer(r)
    BY <2>2, AnswerType
  <2>3. CASE OpenFilter \/ CloseModal \/ AskLogin \/ PresentLogin \/ PresentOther \/ SaveFilter
    <3>1. /\ FetchTypeOK'
          /\ \/ filter' = filter
             \/ filter'.page = filter.page - 1 /\ saves' # saves
             \/ \E next \in {"none", "username"} : LoadFilter(next)
      BY <2>3, OtherType
    <3>2. (\E next \in {"none", "username"} : LoadFilter(next)) => filter' = filter
      BY <2>3 DEF LoadFilter, OpenFilter, CloseModal, AskLogin, PresentLogin,
         PresentOther, SaveFilter, uiVars
    <3>3. QED BY <3>1, <3>2
  <2>4. CASE disk = None /\ LaunchLoad
    BY <2>4, OtherType DEF LaunchLoad, LoadFilter
  <2>5. QED BY <2>1, <2>2, <2>3, <2>4 DEF GoOn
<1>2. filter.page \in Nat \ {0} /\ filter'.page \in Nat \ {0} /\ firstPage \in Nat \ {0}
  BY <1>1 DEF FetchTypeOK, FilterValues
<1>3. /\ asked' = IF filter'.page > filter.page THEN Append(asked, filter.page) ELSE asked
      /\ firstPage' = firstPage
  BY DEF GoOn
<1>4. asked' \in Seq(Nat \ {0})
  BY <1>2, <1>3, AppendType
<1>5. rewound' \in BOOLEAN /\ (rewound => rewound')
  BY Zenon DEF GoOn
<1>6. CASE filter'.page = filter.page + 1
  <2>1. asked' = Append(asked, filter.page)
    BY <1>2, <1>3, <1>6
  <2>2. AskedBefore'
    BY <1>2, <1>3, <1>6, <2>1, AppendType DEF AskedBefore
  <2>3. InOrder'
    <3>1. SUFFICES ASSUME ~rewound'
                   PROVE  /\ filter'.page = firstPage' + Len(asked')
                          /\ \A i \in 1..Len(asked') : asked'[i] = firstPage' + i - 1
      BY DEF InOrder
    <3>2. /\ filter.page = firstPage + Len(asked)
          /\ \A i \in 1..Len(asked) : asked[i] = firstPage + i - 1
          /\ Len(asked) \in Nat
      BY <1>5, <3>1 DEF InOrder
    <3>3. /\ Len(asked') = Len(asked) + 1
          /\ \A i \in 1..Len(asked) : asked'[i] = asked[i]
          /\ asked'[Len(asked) + 1] = filter.page
      BY <1>2, <2>1, AppendType
    <3>4. ASSUME NEW i \in 1..Len(asked') PROVE asked'[i] = firstPage' + i - 1
      <4>1. CASE i \in 1..Len(asked)
        BY <1>3, <3>2, <3>3, <4>1
      <4>2. CASE i = Len(asked) + 1
        BY <1>2, <1>3, <3>2, <3>3, <4>2
      <4>3. QED BY <3>2, <3>3, <4>1, <4>2
    <3>5. QED BY <1>2, <1>3, <1>6, <3>2, <3>3, <3>4
  <2>4. QED BY <1>1, <1>2, <1>3, <1>4, <1>5, <2>2, <2>3
<1>7. CASE filter'.page = filter.page
  <2>1. asked' = asked
    BY <1>2, <1>3, <1>7
  <2>2. AskedBefore' /\ InOrder'
    BY <1>2, <1>3, <1>5, <1>7, <2>1 DEF AskedBefore, InOrder
  <2>3. QED BY <1>1, <1>2, <1>3, <1>4, <1>5, <2>2
<1>8. CASE filter'.page = filter.page - 1 /\ saves' # saves
  <2>1. asked' = asked
    BY <1>2, <1>3, <1>8
  <2>2. rewound'
    <3>1. filter' # filter
      BY <1>2, <1>8
    <3>2. QED BY <1>8, <3>1, Zenon DEF GoOn
  <2>3. AskedBefore' /\ InOrder'
    BY <1>2, <1>3, <1>8, <2>1, <2>2 DEF AskedBefore, InOrder
  <2>4. QED BY <1>1, <1>2, <1>3, <1>4, <1>5, <2>3
<1>9. QED BY <1>1, <1>6, <1>7, <1>8

(* A step that sets the page: to 1 by the filter screen and the sign-in,   *)
(* to the saved one by the launch.                                         *)
LEMMA FirstPageInv == ASSUME PagesInv, FirstPage PROVE PagesInv'
<1> USE DEF PagesInv, PagesTypeOK
<1>1. FetchTypeOK' /\ filter'.page \in {1, 2}
  BY ApplyFilterType, SignInType DEF FirstPage
<1>2. /\ asked' = IF filter'.page > 1 THEN <<1>> ELSE <<>>
      /\ firstPage' = 1 /\ rewound' = FALSE
  BY DEF FirstPage
<1>3. asked' \in Seq(Nat \ {0}) /\ firstPage' \in Nat \ {0} /\ rewound' \in BOOLEAN
  <2>1. <<1>> \in Seq(Nat \ {0}) /\ <<>> \in Seq(Nat \ {0})
    OBVIOUS
  <2>2. asked' = <<1>> \/ asked' = <<>>
    BY <1>2
  <2>3. asked' \in Seq(Nat \ {0})
    BY <2>1, <2>2
  <2>4. rewound' \in BOOLEAN
    BY Zenon DEF FirstPage
  <2>5. QED BY <1>2, <2>3, <2>4
<1>4. CASE filter'.page = 1
  <2>1. asked' = <<>> /\ Len(asked') = 0
    BY <1>2, <1>4
  <2>2. AskedBefore'
    BY <1>2, <1>4 DEF AskedBefore
  <2>3. InOrder'
    BY <1>2, <1>4, <2>1 DEF InOrder
  <2>4. QED BY <1>1, <1>3, <2>2, <2>3
<1>5. CASE filter'.page = 2
  <2>1. asked' = <<1>> /\ 1 \in ToSet(asked')
    BY <1>2, <1>5 DEF ToSet
  <2>2. AskedBefore'
    BY <1>2, <1>5, <2>1 DEF AskedBefore
  <2>3. InOrder'
    <3>1. Len(asked') = 1 /\ asked'[1] = 1
      BY <2>1
    <3>2. QED BY <1>2, <1>5, <3>1 DEF InOrder
  <2>4. QED BY <1>1, <1>3, <2>2, <2>3
<1>6. QED BY <1>1, <1>4, <1>5

LEMMA SavedPageInv == ASSUME PagesInv, SavedPage PROVE PagesInv'
<1> USE DEF PagesInv, PagesTypeOK
<1>1. FetchTypeOK'
  BY OtherType DEF SavedPage, LaunchLoad
<1>2. filter'.page \in Nat \ {0}
  BY <1>1 DEF FetchTypeOK, FilterValues
<1>3. asked' = <<>> /\ firstPage' = filter'.page /\ rewound' = FALSE
  BY DEF SavedPage
<1>4. asked' \in Seq(Nat \ {0}) /\ Len(asked') = 0
  BY <1>3
<1>5. AskedBefore'
  BY <1>2, <1>3 DEF AskedBefore
<1>6. InOrder'
  BY <1>2, <1>3, <1>4 DEF InOrder
<1>7. QED BY <1>1, <1>2, <1>3, <1>4, <1>5, <1>6

LEMMA PagesInitInv == PagesInit => PagesInv
<1> SUFFICES ASSUME PagesInit PROVE PagesInv
  OBVIOUS
<1>1. FetchTypeOK
  BY FetchInitType DEF PagesInit
<1>2. filter.page \in Nat \ {0}
  BY <1>1 DEF FetchTypeOK, FilterValues
<1>3. asked \in Seq(Nat \ {0}) /\ Len(asked) = 0 /\ firstPage = filter.page /\ rewound = FALSE
  BY DEF PagesInit
<1>4. AskedBefore
  BY <1>2, <1>3 DEF AskedBefore
<1>5. InOrder
  BY <1>2, <1>3 DEF InOrder
<1>6. QED BY <1>1, <1>2, <1>3, <1>4, <1>5 DEF PagesInv, PagesTypeOK

LEMMA PagesStepInv == PagesInv /\ [PagesNext]_allVars => PagesInv'
<1> SUFFICES ASSUME PagesInv, [PagesNext]_allVars PROVE PagesInv'
  OBVIOUS
<1>1. CASE GoOn
  BY <1>1, GoOnInv
<1>2. CASE FirstPage
  BY <1>2, FirstPageInv
<1>3. CASE SavedPage
  BY <1>3, SavedPageInv
<1>4. CASE UNCHANGED allVars
  BY <1>4 DEF allVars, fetchVars, pageVars, PagesInv, PagesTypeOK, FetchTypeOK,
     AskedBefore, InOrder
<1>5. QED BY <1>1, <1>2, <1>3, <1>4 DEF PagesNext

LEMMA PagesInvariant == PagesSpec => []PagesInv
<1>1. PagesInit => PagesInv
  BY PagesInitInv
<1>2. PagesInv /\ [PagesNext]_allVars => PagesInv'
  BY PagesStepInv
<1>3. QED BY <1>1, <1>2, PTL DEF PagesSpec

(* For every catalog, the shared page number, what was asked of it and the *)
(* loads keep their types (FetchPages).                                    *)
THEOREM PagesTypes == PagesSpec => []PagesTypeOK
<1>1. PagesInv => PagesTypeOK
  BY DEF PagesInv
<1>2. QED BY <1>1, PagesInvariant, PTL

(* No page of a query is passed over, nor one below 1 asked for, however   *)
(* many loads share the page number of FilterService.filter and however    *)
(* their responses, failures and the saves of the scene callbacks          *)
(* interleave.                                                             *)
THEOREM PagesNotSkipped == PagesSpec => []NoPageSkipped
<1>1. PagesInv => NoPageSkipped
  BY DEF PagesInv, PagesTypeOK, FetchTypeOK, FilterValues, NoPageSkipped
<1>2. QED BY <1>1, PagesInvariant, PTL

(* No page is requested twice, by one load or by two that overlap, as long *)
(* as no save takes a page back: fetchMovies moves the shared page on in   *)
(* the same step that builds the request.                                  *)
THEOREM PagesNotRepeated == PagesSpec => []NoPageRepeated
<1>1. PagesInv => NoPageRepeated
  <2> SUFFICES ASSUME PagesInv, ~rewound PROVE IsInjective(asked)
    BY DEF NoPageRepeated
  <2>1. /\ DOMAIN asked = 1..Len(asked) /\ Len(asked) \in Nat /\ firstPage \in Nat
        /\ \A i \in 1..Len(asked) : asked[i] = firstPage + i - 1
    BY DEF PagesInv, PagesTypeOK, InOrder
  <2>2. QED BY <2>1 DEF IsInjective
<1>2. QED BY <1>1, PagesInvariant, PTL

-----------------------------------------------------------------------------

(* What the deck does to sequences: the top of a deck is a movie of it, and *)
(* taking off the last card leaves a deck.                                 *)
LEMMA TopType ==
    ASSUME NEW s \in Seq(Movies)
    PROVE  /\ Top(s) \in Movies \cup {None}
           /\ Top(s) = None <=> s = <<>>
<1>1. CASE s = <<>>
  BY <1>1 DEF Top
<1>2. CASE s # <<>>
  <2>1. Len(s) \in Nat \ {0} /\ s[Len(s)] \in Movies
    BY <1>2
  <2>2. QED BY <1>2, <2>1, NoneAssumption DEF Top, Last
<1>3. QED BY <1>1, <1>2

LEMMA FrontType ==
    ASSUME NEW s \in Seq(Movies), s # <<>>
    PROVE  Front(s) \in Seq(Movies)
BY DEF Front

(* Filing a verdict keeps the lists well formed and is seen by Recorded.   *)
LEMMA RecordType ==
    ASSUME lists \in [Lists -> SUBSET Movies],
           NEW l \in Lists, NEW m \in Movies, Record(l, m)
    PROVE  /\ lists' \in [Lists -> SUBSET Movies]
           /\ hasAccount => m \in Recorded'
           /\ Recorded \subseteq Recorded'
<1>1. lists' \in [Lists -> SUBSET Movies]
  BY DEF Record
<1>2. hasAccount => m \in lists'[l]
  BY DEF Record
<1>3. \A k \in Lists : lists[k] \subseteq lists'[k]
  BY DEF Record
<1>4. QED BY <1>1, <1>2, <1>3 DEF Recorded

(* updateCardView keeps the deck, its top and the refill button in step.   *)
LEMMA UpdateCardViewType ==
    ASSUME DeckInv, UpdateCardView
    PROVE  /\ cards' \in Seq(Movies)
           /\ topCard' \in Movies \cup {None}
           /\ refillHidden' \in BOOLEAN
           /\ verdicts' = 0
           /\ TopIsLast'
           /\ RefillOnlyWhenEmpty'
<1>1. cards \in Seq(Movies) /\ refillHidden \in BOOLEAN /\ (~refillHidden => cards = <<>>)
  BY DEF DeckInv, DeckTypeOK, RefillOnlyWhenEmpty
<1>2. cards' \in Seq(Movies)
  BY <1>1, FrontType DEF UpdateCardView, RemoveTop
<1>3. topCard' \in Movies \cup {None}
  BY <1>2, TopType DEF UpdateCardView, RemoveTop
<1>4. TopIsLast'
  BY DEF UpdateCardView, RemoveTop, TopIsLast, Top
<1>5. RefillOnlyWhenEmpty'
  BY <1>1 DEF UpdateCardView, RemoveTop, RefillOnlyWhenEmpty
<1>6. QED BY <1>1, <1>2, <1>3, <1>4, <1>5 DEF UpdateCardView, RemoveTop

-----------------------------------------------------------------------------

LEMMA DeckInitInv == DeckInit => DeckInv
<1> SUFFICES ASSUME DeckInit PROVE DeckInv
  OBVIOUS
<1>1. lists \in [Lists -> SUBSET Movies]
  BY AccountAssumption DEF DeckInit, NoLists
<1>2. DeckTypeOK
  <2>1. cards \in Seq(Movies) /\ verdicts \in Nat
    BY DEF DeckInit
  <2>2. ready \in BOOLEAN /\ refillHidden \in BOOLEAN /\ disturbed \in BOOLEAN
    BY Zenon DEF DeckInit
  <2>3. hasAccount \in BOOLEAN
    BY Zenon DEF DeckInit
  <2>4. QED BY <1>1, <2>1, <2>2, <2>3 DEF DeckInit, DeckTypeOK
<1>3. QED
  BY <1>2 DEF DeckInit, DeckInv, TopIsLast, Top, ReadyIffNoFlight,
     RefillOnlyWhenEmpty, FlightIsTopCard, VerdictsAccounted, FlightIsFiled, DisturbedOnlyInFlight

LEMMA DeckStepInv == DeckInv /\ [DeckNext]_deckVars => DeckInv'
<1> SUFFICES ASSUME DeckInv, [DeckNext]_deckVars PROVE DeckInv'
  OBVIOUS
<1> USE DEF DeckInv
<1>1. ASSUME NEW ms \in Decks, Install(ms) PROVE DeckInv'
  <2>1. ms \in Seq(Movies)
    BY DecksAssumption
  <2>2. DeckTypeOK'
    BY <1>1, <2>1, TopType DEF Install, Rebuild, DeckTypeOK, InFlight
  <2>3. TopIsLast' /\ ReadyIffNoFlight' /\ RefillOnlyWhenEmpty'
    BY <1>1 DEF Install, Rebuild, TopIsLast, Top, ReadyIffNoFlight, RefillOnlyWhenEmpty
  <2>4. FlightIsTopCard' /\ VerdictsAccounted' /\ FlightIsFiled' /\ DisturbedOnlyInFlight'
    BY <1>1 DEF Install, Rebuild, InFlight, FlightIsTopCard, VerdictsAccounted,
       FlightIsFiled, DisturbedOnlyInFlight
  <2>5. QED BY <2>2, <2>3, <2>4
<1>2. ASSUME NEW l \in Swipes, Tap(l) PROVE DeckInv'
  <2>1. topCard \in Movies /\ l \in Lists /\ swipeFlight = None
    BY <1>2, SwipesAssumption DEF Tap, SwipeTop, DeckTypeOK, Lists, ReadyIffNoFlight
  <2>2. lists' \in [Lists -> SUBSET Movies] /\ (hasAccount => topCard \in Recorded')
    BY <1>2, <2>1, RecordType DEF Tap, SwipeTop, DeckTypeOK
  <2>3. DeckTypeOK'
    <3>1. verdicts' \in Nat
      BY <1>2 DEF Tap, SwipeTop, DeckTypeOK, Filed
    <3>2. disturbed' \in BOOLEAN /\ ready' \in BOOLEAN
      BY <1>2, Zenon DEF Tap, SwipeTop
    <3>3. QED BY <1>2, <2>1, <2>2, <3>1, <3>2 DEF Tap, SwipeTop, DeckTypeOK
  <2>4. TopIsLast' /\ ReadyIffNoFlight' /\ RefillOnlyWhenEmpty'
    BY <1>2, <2>1, NoneAssumption
    DEF Tap, SwipeTop, TopIsLast, Top, ReadyIffNoFlight, RefillOnlyWhenEmpty
  <2>5. FlightIsTopCard' /\ FlightIsFiled' /\ DisturbedOnlyInFlight'
    BY <1>2, <2>2 DEF Tap, SwipeTop, FlightIsTopCard, FlightIsFiled, DisturbedOnlyInFlight, InFlight
  <2>6. VerdictsAccounted'
    <3>1. SUFFICES ASSUME panFlight = None
                   PROVE  verdicts' = IF hasAccount' /\ swipeFlight' # None THEN 1 ELSE 0
      BY <1>2 DEF Tap, SwipeTop, VerdictsAccounted
    <3>2. verdicts = 0
      BY <2>1, <3>1 DEF VerdictsAccounted, DisturbedOnlyInFlight, InFlight
    <3>3. QED
      BY <1>2, <2>1, <3>2, NoneAssumption DEF Tap, SwipeTop, Filed
  <2>7. QED BY <2>3, <2>4, <2>5, <2>6
<1>3. ASSUME SwipeAnimationDone PROVE DeckInv'
  <2>1. UpdateCardView
    BY <1>3 DEF SwipeAnimationDone, TakeOffSwiped
  <2>2. DeckTypeOK'
    BY <1>3, <2>1, UpdateCardViewType DEF SwipeAnimationDone, TakeOffSwiped, DeckTypeOK
  <2>3. TopIsLast' /\ RefillOnlyWhenEmpty' /\ verdicts' = 0
    BY <2>1, UpdateCardViewType
  <2>4. ReadyIffNoFlight' /\ FlightIsFiled' /\ VerdictsAccounted' /\ DisturbedOnlyInFlight'
    BY <1>3, <2>3 DEF SwipeAnimationDone, TakeOffSwiped, ReadyIffNoFlight, FlightIsFiled,
       VerdictsAccounted, DisturbedOnlyInFlight, InFlight
  <2>5. FlightIsTopCard'
    BY <1>3 DEF SwipeAnimationDone, TakeOffSwiped, FlightIsTopCard
  <2>6. QED BY <2>2, <2>3, <2>4, <2>5
<1>4. ASSUME NEW l \in Swipes, PanRelease(l) PROVE DeckInv'
  <2>1. topCard \in Movies /\ [movie |-> topCard, list |-> l] \in Pans
    BY <1>4, SwipesAssumption DEF PanRelease, DeckTypeOK, Pans
  <2>2. DeckTypeOK'
    BY <1>4, <2>1 DEF PanRelease, DeckTypeOK, InFlight
  <2>3. TopIsLast' /\ ReadyIffNoFlight' /\ RefillOnlyWhenEmpty'
    BY <1>4 DEF PanRelease, TopIsLast, Top, ReadyIffNoFlight, RefillOnlyWhenEmpty
  <2>4. FlightIsTopCard' /\ FlightIsFiled' /\ DisturbedOnlyInFlight'
    <3>1. panFlight'.movie = topCard /\ panFlight' # None
      BY <1>4, <2>1, NoneAssumption DEF PanRelease
    <3>2. QED
      BY <1>4, <3>1 DEF PanRelease, FlightIsTopCard, FlightIsFiled,
         DisturbedOnlyInFlight, InFlight, Recorded
  <2>5. VerdictsAccounted'
    BY <1>4 DEF PanRelease, VerdictsAccounted, DisturbedOnlyInFlight, InFlight
  <2>6. QED BY <2>2, <2>3, <2>4, <2>5
<1>5. ASSUME PanDone PROVE DeckInv'
  <2>1. UpdateCardView /\ Record(panFlight.list, panFlight.movie)
    BY <1>5 DEF PanDone
  <2>2. panFlight.list \in Lists /\ panFlight.movie \in Movies
    BY <1>5 DEF PanDone, DeckTypeOK, Pans, Lists
  <2>3. lists' \in [Lists -> SUBSET Movies]
    BY <2>1, <2>2, RecordType DEF DeckTypeOK
  <2>4. DeckTypeOK'
    BY <1>5, <2>1, <2>3, UpdateCardViewType DEF PanDone, DeckTypeOK
  <2>5. TopIsLast' /\ RefillOnlyWhenEmpty' /\ verdicts' = 0
    BY <2>1, UpdateCardViewType
  <2>6. ReadyIffNoFlight' /\ DisturbedOnlyInFlight'
    BY <1>5 DEF PanDone, ReadyIffNoFlight, DisturbedOnlyInFlight, InFlight
  <2>7. FlightIsTopCard' /\ FlightIsFiled' /\ VerdictsAccounted'
    BY <1>5, <2>5 DEF PanDone, FlightIsTopCard, FlightIsFiled, VerdictsAccounted
  <2>8. QED BY <2>4, <2>5, <2>6, <2>7
<1>6. ASSUME AddWatchlist PROVE DeckInv'
  <2>1. UpdateCardView /\ Record("watchlist", topCard) /\ topCard \in Movies
    BY <1>6 DEF AddWatchlist, StarTop, DeckTypeOK
  <2>2. lists' \in [Lists -> SUBSET Movies]
    BY <2>1, RecordType DEF DeckTypeOK, Lists
  <2>3. DeckTypeOK'
    BY <1>6, <2>1, <2>2, UpdateCardViewType DEF AddWatchlist, StarTop, DeckTypeOK, InFlight
  <2>4. TopIsLast' /\ RefillOnlyWhenEmpty' /\ verdicts' = 0
    BY <2>1, UpdateCardViewType
  <2>5. ReadyIffNoFlight' /\ DisturbedOnlyInFlight'
    BY <1>6 DEF AddWatchlist, StarTop, ReadyIffNoFlight, DisturbedOnlyInFlight, InFlight
  <2>6. FlightIsTopCard' /\ FlightIsFiled' /\ VerdictsAccounted'
    BY <1>6, <2>4 DEF AddWatchlist, StarTop, FlightIsTopCard, FlightIsFiled, VerdictsAccounted, InFlight
  <2>7. QED BY <2>3, <2>4, <2>5, <2>6
<1>7. ASSUME AccountChanges PROVE DeckInv'
  <2>1. PICK has \in BOOLEAN, l \in [Lists -> SUBSET Movies] : SetAccount(has, l)
    BY <1>7, AccountAssumption DEF AccountChanges, NoLists
  <2>2. DeckTypeOK'
    BY <2>1 DEF SetAccount, DeckTypeOK, InFlight
  <2>3. TopIsLast' /\ ReadyIffNoFlight' /\ RefillOnlyWhenEmpty'
    BY <2>1 DEF SetAccount, TopIsLast, Top, ReadyIffNoFlight, RefillOnlyWhenEmpty
  <2>4. FlightIsTopCard' /\ FlightIsFiled' /\ VerdictsAccounted' /\ DisturbedOnlyInFlight'
    BY <2>1 DEF SetAccount, FlightIsTopCard, FlightIsFiled, VerdictsAccounted,
       DisturbedOnlyInFlight, InFlight
  <2>5. QED BY <2>2, <2>3, <2>4
<1>8. CASE UNCHANGED deckVars
  BY <1>8 DEF deckVars, DeckTypeOK, TopIsLast, Top, ReadyIffNoFlight,
     RefillOnlyWhenEmpty, FlightIsTopCard, VerdictsAccounted, FlightIsFiled,
     DisturbedOnlyInFlight, InFlight, Recorded
<1>9. QED
  BY <1>1, <1>2, <1>3, <1>4, <1>5, <1>6, <1>7, <1>8 DEF DeckNext

-----------------------------------------------------------------------------

(* The deck, its top card, the enabled buttons and the refill button agree *)
(* after every sequence of taps, pans, stars, responses and completions of *)
(* SwipeView and CardView, and the verdicts of undisturbed swipes are all  *)
(* accounted for.                                                          *)
THEOREM DeckInvariant == DeckSpec => []DeckInv
<1>1. DeckInit => DeckInv
  BY DeckInitInv
<1>2. DeckInv /\ [DeckNext]_deckVars => DeckInv'
  BY DeckStepInv
<1>3. QED BY <1>1, <1>2, PTL DEF DeckSpec

(* No swipe is lost and none is counted twice: handleSkip, handleExclude,  *)
(* the pan and handleAddWatchlist each file the card they take off exactly *)
(* once, unless another actor stepped in while its animation ran.          *)
THEOREM DeckFilesOnce == DeckSpec => OneVerdictPerCard
<1>1. DeckInv /\ [DeckNext]_deckVars =>
        [ ~disturbed /\ ~disturbed' /\ hasAccount /\ cards # <<>> =>
          /\ SwipeAnimationDone => verdicts = 1 /\ topCard \in Recorded
          /\ PanDone \/ AddWatchlist => verdicts = 0 /\ topCard \in Recorded'
        ]_deckVars
  <2> SUFFICES ASSUME DeckInv, ~disturbed, ~disturbed', hasAccount, cards # <<>>
               PROVE  /\ SwipeAnimationDone => verdicts = 1 /\ topCard \in Recorded
                      /\ PanDone \/ AddWatchlist => verdicts = 0 /\ topCard \in Recorded'
    OBVIOUS
  <2>1. ASSUME SwipeAnimationDone PROVE verdicts = 1 /\ topCard \in Recorded
    BY <2>1 DEF SwipeAnimationDone, TakeOffSwiped, DeckInv, FlightIsTopCard, VerdictsAccounted, FlightIsFiled
  <2>2. ASSUME PanDone PROVE verdicts = 0 /\ topCard \in Recorded'
    <3>1. panFlight.movie = topCard /\ swipeFlight = None
      BY <2>2 DEF PanDone, DeckInv, FlightIsTopCard
    <3>2. panFlight.list \in Lists /\ panFlight.movie \in Movies
      BY <2>2 DEF PanDone, DeckInv, DeckTypeOK, Pans, Lists
    <3>3. topCard \in Recorded'
      BY <2>2, <3>1, <3>2, RecordType DEF PanDone, DeckInv, DeckTypeOK
    <3>4. QED BY <3>1, <3>3 DEF DeckInv, VerdictsAccounted
  <2>3. ASSUME AddWatchlist PROVE verdicts = 0 /\ topCard \in Recorded'
    <3>1. ~InFlight /\ topCard \in Movies
      BY <2>3 DEF AddWatchlist, StarTop, DeckInv, DeckTypeOK
    <3>2. topCard \in Recorded'
      BY <2>3, <3>1, RecordType DEF AddWatchlist, StarTop, DeckInv, DeckTypeOK, Lists
    <3>3. QED BY <3>1, <3>2 DEF DeckInv, VerdictsAccounted, InFlight
  <2>4. QED BY <2>1, <2>2, <2>3
<1>2. QED BY <1>1, DeckInvariant, PTL DEF DeckSpec, OneVerdictPerCard

-----------------------------------------------------------------------------
(* The screen.                                                             *)

(* Any list of movies may be installed.                                    *)
AnyDeck == Seq(Movies) \subseteq Decks

PartsInv == DeckInv /\ FetchTypeOK

LEMMA RecordedMovies == ASSUME DeckInv PROVE Recorded \in SUBSET Movies
BY DEF DeckInv, DeckTypeOK, Recorded

(* An answer whose movies are installed is a list of movies.               *)
LEMMA ResponseType ==
    ASSUME PartsInv, NEW r \in requests, Respond(r, Recorded)
    PROVE  Answer(r) /\ moviesToDisplay' \in Seq(Movies)
<1>1. Answer(r)
  BY RecordedMovies DEF PartsInv, Answer
<1>2. QED BY <1>1, AnswerType DEF PartsInv, FetchTypeOK

(* Every step of the screen is a step of the deck or leaves it alone, and  *)
(* a step of the loading or leaves that alone.                             *)
LEMMA ScreenStepParts ==
    ASSUME AnyDeck, PartsInv, [Next]_screenVars
    PROVE  [DeckNext]_deckVars /\ [FetchNext]_fetchVars
<1> USE DEF SameDeck, SameFetch
<1>0. <<>> \in Decks
  <2>1. <<>> \in Seq(Movies)
    OBVIOUS
  <2>2. QED BY <2>1 DEF AnyDeck
<1>1. CASE UserSwipes
  BY <1>1 DEF UserSwipes, DeckNext
<1>2. CASE AnimationEnds
  BY <1>2 DEF AnimationEnds, DeckNext
<1>3. CASE RefillMovies
  BY <1>0, <1>3 DEF RefillMovies, DeckNext, FetchNext
<1>4. CASE SaveNewFilter
  BY <1>4 DEF SaveNewFilter, FetchNext
<1>5. CASE Authenticated
  BY <1>5 DEF Authenticated, DeckNext
<1>6. CASE AuthenticationComplete
  BY <1>0, <1>6 DEF AuthenticationComplete, SignedIn, DeckNext, FetchNext
<1>7. CASE LogoutOrRegister
  BY <1>7 DEF LogoutOrRegister, DeckNext, FetchNext
<1>8. CASE Response
  <2>1. PICK r \in requests : Respond(r, Recorded)
    BY <1>8 DEF Response
  <2>2. Answer(r) /\ moviesToDisplay' \in Decks
    BY <2>1, ResponseType DEF AnyDeck
  <2>3. Install(moviesToDisplay') \/ UNCHANGED deckVars
    BY <1>8 DEF Response
  <2>4. [DeckNext]_deckVars
    BY <2>2, <2>3 DEF DeckNext
  <2>5. FetchNext
    BY <2>2 DEF FetchNext
  <2>6. QED BY <2>4, <2>5
<1>9. CASE Failure
  BY <1>9 DEF Failure, Answer, FetchNext
<1>10. CASE ScreenOnly
  BY <1>10 DEF ScreenOnly, FetchNext
<1>11. CASE SceneUserFetched
  BY <1>11 DEF SceneUserFetched, AccountChanges, DeckNext
<1>12. CASE UserFetched
  BY <1>12 DEF UserFetched, AccountChanges, DeckNext, FetchNext
<1>13. CASE UNCHANGED screenVars
  BY <1>13 DEF screenVars
<1>14. QED
  BY <1>1, <1>2, <1>3, <1>4, <1>5, <1>6, <1>7, <1>8, <1>9, <1>10, <1>11, <1>12, <1>13
  DEF Next

LEMMA PartsInvariant == ASSUME AnyDeck PROVE Spec => []PartsInv
<1>1. Init => PartsInv
  BY DeckInitInv, FetchInitType DEF Init, PartsInv
<1>2. PartsInv /\ [Next]_screenVars => PartsInv'
  BY ScreenStepParts, DeckStepInv, FetchStepType DEF PartsInv
<1>3. QED BY <1>1, <1>2, PTL DEF Spec

(* The screen implements the specification of the deck: whatever the       *)
(* loads, the controller and the launch do to it, they do by its actions,  *)
(* so that all that is proved of SwipeDeck holds on the screen.            *)
THEOREM ScreenRunsDeck == ASSUME AnyDeck PROVE Spec => DeckSpec
<1>1. Init => DeckInit
  BY DEF Init
<1>2. PartsInv /\ [Next]_screenVars => [DeckNext]_deckVars
  BY ScreenStepParts
<1>3. QED BY <1>1, <1>2, PartsInvariant, PTL DEF Spec, DeckSpec

(* The screen implements the specification of the loads: what it starts,   *)
(* answers and drops, and the swiped movies it leaves out of an answer,    *)
(* are among those MovieFetch allows.                                      *)
THEOREM ScreenRunsFetch == ASSUME AnyDeck PROVE Spec => FetchSpec
<1>1. Init => FetchInit
  BY DEF Init
<1>2. PartsInv /\ [Next]_screenVars => [FetchNext]_fetchVars
  BY ScreenStepParts
<1>3. QED BY <1>1, <1>2, PartsInvariant, PTL DEF Spec, FetchSpec

-----------------------------------------------------------------------------

(* The loads in flight: LoadsAccountedFor, with what counting them needs.  *)
LoadsInv == IsFiniteSet(requests) /\ overlaps \in Nat /\ LoadsAccountedFor

LEMMA RequestsCount ==
    ASSUME IsFiniteSet(requests)
    PROVE  /\ Cardinality(requests) \in Nat
           /\ \A x : /\ IsFiniteSet(requests \cup {x}) /\ IsFiniteSet(requests \ {x})
                     /\ Cardinality(requests \cup {x}) <= Cardinality(requests) + 1
                     /\ x \in requests =>
                          Cardinality(requests \ {x}) = Cardinality(requests) - 1
<1>1. Cardinality(requests) \in Nat
  BY FS_CardinalityType
<1>2. \A x : /\ IsFiniteSet(requests \cup {x})
             /\ Cardinality(requests \cup {x}) <= Cardinality(requests) + 1
  BY <1>1, FS_AddElement
<1>3. \A x : /\ IsFiniteSet(requests \ {x})
             /\ x \in requests => Cardinality(requests \ {x}) = Cardinality(requests) - 1
  BY FS_RemoveElement
<1>4. QED BY <1>1, <1>2, <1>3

(* A load adds at most one request.                                        *)
LEMMA StartLoadCount ==
    ASSUME IsFiniteSet(requests), NEW f, NEW m, NEW told, StartLoad(f, m, told)
    PROVE  /\ IsFiniteSet(requests') /\ Cardinality(requests') \in Nat
           /\ Cardinality(requests') <= Cardinality(requests) + 1
<1>1. \/ UNCHANGED requests
      \/ \E x : requests' = requests \cup {x}
  BY DEF StartLoad, BeginLoad, FetchMovies, Send
<1>2. CASE UNCHANGED requests
  BY <1>2, RequestsCount
<1>3. ASSUME NEW x, requests' = requests \cup {x}
      PROVE  /\ IsFiniteSet(requests') /\ Cardinality(requests') \in Nat
             /\ Cardinality(requests') <= Cardinality(requests) + 1
  <2>1. IsFiniteSet(requests') /\ Cardinality(requests') <= Cardinality(requests) + 1
    BY <1>3, RequestsCount
  <2>2. Cardinality(requests') \in Nat
    BY <2>1, FS_CardinalityType
  <2>3. QED BY <2>1, <2>2
<1>4. QED BY <1>1, <1>2, <1>3

(* An answer leaves no more requests than there were, and one less when it *)
(* ends its load.                                                          *)
LEMMA AnswerCount ==
    ASSUME PartsInv, IsFiniteSet(requests), NEW r \in requests,
           Respond(r, Recorded) \/ Fail(r)
    PROVE  /\ IsFiniteSet(requests')
           /\ Cardinality(requests') <= Cardinality(requests)
           /\ Respond(r, Recorded) /\ Len(moviesToDisplay') > Enough =>
                Cardinality(requests') <= Cardinality(requests) - 1
<1> DEFINE others == requests \ {r}
<1>1. /\ IsFiniteSet(others) /\ Cardinality(requests) \in Nat
      /\ Cardinality(others) = Cardinality(requests) - 1
  BY RequestsCount
<1>2. CASE requests' = others
  BY <1>1, <1>2
<1>3. ASSUME Respond(r, Recorded), requests' # others
      PROVE  ~(Len(moviesToDisplay') > Enough) /\ \E x : requests' = others \cup {x}
  <2>1. Len(moviesToDisplay') \in Nat /\ Enough \in Nat
    BY <1>3, ResponseType, BoundAssumption
  <2>2. PICK known : Len(moviesToDisplay') <= Enough /\ Send(others, r.id, known)
    BY <1>3 DEF Respond
  <2>3. requests' = others \cup {[id |-> r.id, filter |-> known.id, page |-> known.page]}
    BY <2>2 DEF Send
  <2>4. ~(Len(moviesToDisplay') > Enough)
    BY <2>1, <2>2
  <2>5. QED BY <2>3, <2>4
<1>4. CASE Respond(r, Recorded) /\ requests' # others
  <2>1. PICK x : requests' = others \cup {x}
    BY <1>3, <1>4
  <2>2. /\ IsFiniteSet(others \cup {x})
        /\ Cardinality(others \cup {x}) <= Cardinality(others) + 1
    <3>1. Cardinality(others) \in Nat
      BY <1>1, FS_CardinalityType
    <3>2. IsFiniteSet(others)
      BY <1>1
    <3> HIDE DEF others
    <3>3. /\ IsFiniteSet(others \cup {x})
          /\ Cardinality(others \cup {x}) =
               IF x \in others THEN Cardinality(others) ELSE Cardinality(others) + 1
      BY <3>2, FS_AddElement
    <3>4. QED BY <3>1, <3>3
  <2>3. IsFiniteSet(requests') /\ Cardinality(requests') <= Cardinality(requests)
    <3>1. Cardinality(requests') \in Nat
      BY <2>1, <2>2, FS_CardinalityType
    <3>2. QED BY <1>1, <2>1, <2>2, <3>1
  <2>4. QED BY <1>3, <1>4, <2>3
<1>5. Fail(r) => requests' = others
  BY DEF Fail
<1>6. QED BY <1>2, <1>4, <1>5

LEMMA EmptyCount == requests = {} => Cardinality(requests) = 0
BY FS_EmptySet

(* Taking cards off shows the refill button only with the last of them.    *)
LEMMA RemoveTopCovers ==
    ASSUME UpdateCardView \/ UNCHANGED <<cards, refillHidden>>,
           cards' # <<>> \/ ~refillHidden'
    PROVE  cards # <<>> \/ ~refillHidden
BY DEF UpdateCardView, RemoveTop

(* What a step owes the count: the requests it leaves, against those there *)
(* were, and whether it uncovers the refill button or lays out cards.      *)
LEMMA QuietStepLoads ==
    ASSUME LoadsInv, KeepOverlaps,
           IsFiniteSet(requests'), Cardinality(requests') <= Cardinality(requests),
           cards' # <<>> \/ ~refillHidden' =>
             \/ cards # <<>> \/ ~refillHidden
             \/ Cardinality(requests') <= Cardinality(requests) - 1
    PROVE  LoadsInv'
<1>1. Cardinality(requests') \in Nat /\ Cardinality(requests) \in Nat
  BY FS_CardinalityType DEF LoadsInv
<1>2. CASE requests' = {}
  <2>1. overlaps' = 0 /\ Cardinality(requests') = 0
    BY <1>2, FS_EmptySet DEF KeepOverlaps
  <2>2. QED BY <2>1 DEF LoadsInv, LoadsAccountedFor
<1>3. CASE requests' # {}
  BY <1>1, <1>3 DEF KeepOverlaps, LoadsInv, LoadsAccountedFor
<1>4. QED BY <1>2, <1>3

LEMMA LoadStepLoads ==
    ASSUME LoadsInv, NEW n \in {0, 1}, NewRound(n),
           IsFiniteSet(requests'), Cardinality(requests') <= Cardinality(requests) + 1,
           n = 0 => ~refillHidden,
           \/ cards' = <<>> /\ refillHidden'
           \/ n = 1 /\ UNCHANGED <<cards, refillHidden>>
    PROVE  LoadsInv'
<1>1. Cardinality(requests') \in Nat /\ Cardinality(requests) \in Nat
  BY FS_CardinalityType DEF LoadsInv
<1>2. overlaps \in Nat
  BY DEF LoadsInv
<1>3. CASE requests' = {}
  <2>1. overlaps' = 0 /\ Cardinality(requests') = 0
    BY <1>3, FS_EmptySet DEF NewRound
  <2>2. QED BY <2>1 DEF LoadsInv, LoadsAccountedFor
<1>4. CASE requests' # {}
  <2>1. overlaps' = overlaps + n
    BY <1>4 DEF NewRound
  <2>2. QED BY <1>1, <1>2, <2>1 DEF LoadsInv, LoadsAccountedFor
<1>5. QED BY <1>3, <1>4

LEMMA LoadsStepInv ==
    ASSUME PartsInv, LoadsInv, [Next]_screenVars
    PROVE  LoadsInv'
<1>0. IsFiniteSet(requests) /\ Cardinality(requests) \in Nat
  BY FS_CardinalityType DEF LoadsInv
<1>1. CASE UserSwipes
  <2>1. UNCHANGED requests /\ KeepOverlaps
    BY <1>1 DEF UserSwipes, SameFetch, fetchVars, KeepRound
  <2>2. UpdateCardView \/ UNCHANGED <<cards, refillHidden>>
    BY <1>1 DEF UserSwipes, Tap, SwipeTop, PanRelease, AddWatchlist
  <2>3. QED BY <1>0, <2>1, <2>2, RemoveTopCovers, QuietStepLoads
<1>2. CASE AnimationEnds
  <2>1. UNCHANGED requests /\ KeepOverlaps
    BY <1>2 DEF AnimationEnds, SameFetch, fetchVars, KeepRound
  <2>2. UpdateCardView
    BY <1>2 DEF AnimationEnds, SwipeAnimationDone, TakeOffSwiped, PanDone
  <2>3. QED BY <1>0, <2>1, <2>2, RemoveTopCovers, QuietStepLoads
<1>3. CASE RefillMovies
  <2>1. /\ IsFiniteSet(requests')
        /\ Cardinality(requests') <= Cardinality(requests) + 1
    BY <1>0, <1>3, StartLoadCount DEF RefillMovies, Refill
  <2>2. cards' = <<>> /\ refillHidden'
    BY <1>3 DEF RefillMovies, Install, Rebuild
  <2>3. ~refillHidden /\ NewRound(0)
    BY <1>3 DEF RefillMovies
  <2>4. QED BY <2>1, <2>2, <2>3, LoadStepLoads
<1>4. CASE SaveNewFilter
  <2>1. /\ IsFiniteSet(requests')
        /\ Cardinality(requests') <= Cardinality(requests) + 1
    BY <1>0, <1>4, StartLoadCount DEF SaveNewFilter, ApplyFilter
  <2>2. UNCHANGED <<cards, refillHidden>> /\ NewRound(1)
    BY <1>4 DEF SaveNewFilter, SameDeck, deckVars
  <2>3. QED BY <2>1, <2>2, LoadStepLoads
<1>5. CASE AuthenticationComplete
  <2>1. PICK named \in BOOLEAN : SignIn(named)
    BY <1>5 DEF AuthenticationComplete, SignedIn
  <2>2. /\ IsFiniteSet(requests')
        /\ Cardinality(requests') <= Cardinality(requests) + 1
    BY <1>0, <2>1, StartLoadCount DEF SignIn
  <2>3. cards' = <<>> /\ refillHidden' /\ NewRound(1)
    BY <1>5 DEF AuthenticationComplete, Install, Rebuild
  <2>4. QED BY <2>2, <2>3, LoadStepLoads
<1>6. CASE Response
  <2>1. PICK r \in requests : Respond(r, Recorded)
    BY <1>6 DEF Response
  <2>2. /\ IsFiniteSet(requests')
        /\ Cardinality(requests') <= Cardinality(requests)
        /\ Len(moviesToDisplay') > Enough =>
             Cardinality(requests') <= Cardinality(requests) - 1
    BY <1>0, <2>1, AnswerCount
  <2>3. Len(moviesToDisplay') > Enough \/ UNCHANGED <<cards, refillHidden>>
    BY <1>6 DEF Response, SameDeck, deckVars
  <2>4. KeepOverlaps
    BY <1>6 DEF Response, KeepRound
  <2>5. QED BY <2>2, <2>3, <2>4, QuietStepLoads
<1>7. CASE Failure
  <2>1. PICK r \in requests : Fail(r)
    BY <1>7 DEF Failure
  <2>2. IsFiniteSet(requests') /\ Cardinality(requests') <= Cardinality(requests)
    BY <1>0, <2>1, AnswerCount
  <2>3. UNCHANGED <<cards, refillHidden>> /\ KeepOverlaps
    BY <1>7 DEF Failure, SameDeck, deckVars, KeepRound
  <2>4. QED BY <2>2, <2>3, QuietStepLoads
<1>8. CASE \/ Authenticated \/ LogoutOrRegister \/ ScreenOnly
           \/ SceneUserFetched \/ UserFetched
  <2>1. UNCHANGED requests
    BY <1>8 DEF Authenticated, LogoutOrRegister, ScreenOnly, SceneUserFetched,
       UserFetched, SameFetch, fetchVars, AskLogin, OpenFilter, CloseModal,
       PresentLogin, PresentOther, SaveFilter, LoadFilter
  <2>2. UNCHANGED <<cards, refillHidden>>
    BY <1>8 DEF Authenticated, LogoutOrRegister, ScreenOnly, SceneUserFetched,
       UserFetched, SameDeck, deckVars, AccountChanges, SetAccount
  <2>3. KeepOverlaps
    BY <1>8 DEF Authenticated, LogoutOrRegister, ScreenOnly, SceneUserFetched,
       UserFetched, KeepRound, NewAccount
  <2>4. QED BY <1>0, <2>1, <2>2, <2>3, QuietStepLoads
<1>9. CASE UNCHANGED screenVars
  BY <1>9 DEF screenVars, deckVars, fetchVars, LoadsInv, LoadsAccountedFor
<1>10. QED
  BY <1>1, <1>2, <1>3, <1>4, <1>5, <1>6, <1>7, <1>8, <1>9 DEF Next

(* No load is in flight without its cause: at most one from the refill     *)
(* button, which is hidden until that load ended, and one for each saved   *)
(* filter and sign-in.  So no response replaces cards the user is swiping  *)
(* unless one of those two started a load of its own.                      *)
THEOREM ScreenLoads == ASSUME AnyDeck PROVE Spec => []LoadsAccountedFor
<1>1. Init => LoadsInv
  BY FS_EmptySet DEF Init, FetchInit, LoadsInv, LoadsAccountedFor
<1>2. PartsInv /\ LoadsInv /\ [Next]_screenVars => LoadsInv'
  BY LoadsStepInv
<1>3. LoadsInv => LoadsAccountedFor
  BY DEF LoadsInv
<1>4. QED BY <1>1, <1>2, <1>3, PartsInvariant, PTL DEF Spec

-----------------------------------------------------------------------------

(* What was in the lists when the load began, and still is, is not among   *)
(* the movies of the load.                                                 *)
FreshInv == old \subseteq Recorded /\ ToSet(moviesToDisplay) \cap old = {}

(* An answer adds nothing that is in the lists.                            *)
LEMMA ResponseFresh ==
    ASSUME PartsInv, FreshInv, NEW r \in requests, Respond(r, Recorded)
    PROVE  ToSet(moviesToDisplay') \cap old = {}
<1>1. PICK fresh \in Unseen(PageOf(r), Recorded) :
        moviesToDisplay' = moviesToDisplay \o fresh
  BY DEF Respond
<1>2. PageOf(r) \in Seq(Movies)
  BY PageType DEF PartsInv, FetchTypeOK
<1>3. fresh \in Seq(Movies) /\ ToSet(fresh) \cap Recorded = {}
  BY <1>1, <1>2, UnseenType
<1>4. moviesToDisplay \in Seq(Movies)
  BY DEF PartsInv, FetchTypeOK
<1>5. ToSet(moviesToDisplay') \subseteq ToSet(moviesToDisplay) \cup ToSet(fresh)
  BY <1>1, <1>3, <1>4, ConcatType
<1>6. QED BY <1>3, <1>5 DEF FreshInv

(* Steps of the screen and what they show: a response, or nothing at all.  *)
LEMMA ScreenStepShows ==
    ASSUME [Next]_screenVars
    PROVE  /\ \/ moviesToDisplay' = moviesToDisplay /\ old' = old \cap Recorded'
              \/ UNCHANGED screenVars
              \/ moviesToDisplay' = <<>> /\ old' = Recorded /\ UNCHANGED lists
              \/ /\ \E r \in requests : Respond(r, Recorded)
                 /\ old' = old \cap Recorded' /\ UNCHANGED lists
           /\ cards' # cards /\ requests' # requests =>
                \/ cards' = <<>>
                \/ cards' = moviesToDisplay' /\ \E r \in requests : Respond(r, Recorded)
<1>1. CASE UserSwipes \/ AnimationEnds
  BY <1>1 DEF UserSwipes, AnimationEnds, SameFetch, fetchVars, KeepRound
<1>2. CASE RefillMovies
  BY <1>2 DEF RefillMovies, Refill, StartLoad, Install, Rebuild, NewRound
<1>3. CASE SaveNewFilter
  BY <1>3 DEF SaveNewFilter, ApplyFilter, StartLoad, SameDeck, deckVars, NewRound
<1>4. CASE AuthenticationComplete
  BY <1>4 DEF AuthenticationComplete, SignedIn, SignIn, StartLoad, Install, Rebuild, NewRound
<1>5. CASE Response
  <2>1. UNCHANGED lists /\ (cards' # cards => cards' = moviesToDisplay')
    BY <1>5 DEF Response, SameDeck, deckVars, Install, Rebuild
  <2>2. QED BY <1>5, <2>1 DEF Response, KeepRound
<1>6. CASE Failure \/ Authenticated \/ LogoutOrRegister \/ ScreenOnly
             \/ SceneUserFetched \/ UserFetched
  <2>1. UNCHANGED <<cards, moviesToDisplay>>
    BY <1>6 DEF Failure, Authenticated, LogoutOrRegister, ScreenOnly, SceneUserFetched,
       UserFetched, SameFetch, fetchVars, Fail, FailKeeps, AskLogin, OpenFilter, CloseModal,
       PresentLogin, PresentOther, SaveFilter, LoadFilter, SameDeck, deckVars,
       AccountChanges, SetAccount
  <2>2. old' = old \cap Recorded'
    BY <1>6 DEF Failure, Authenticated, LogoutOrRegister, ScreenOnly, SceneUserFetched,
       UserFetched, KeepRound, NewAccount
  <2>3. QED BY <2>1, <2>2
<1>7. CASE UNCHANGED screenVars
  BY <1>7 DEF screenVars, deckVars, fetchVars
<1>8. QED BY <1>1, <1>2, <1>3, <1>4, <1>5, <1>6, <1>7 DEF Next

LEMMA FreshStepInv ==
    ASSUME PartsInv, FreshInv, [Next]_screenVars
    PROVE  FreshInv'
<1>1. CASE moviesToDisplay' = moviesToDisplay /\ old' = old \cap Recorded'
  BY <1>1 DEF FreshInv
<1>2. CASE moviesToDisplay' = <<>> /\ old' = Recorded /\ UNCHANGED lists
  BY <1>2 DEF FreshInv, ToSet, Recorded
<1>3. CASE /\ \E r \in requests : Respond(r, Recorded)
           /\ old' = old \cap Recorded'
  BY <1>3, ResponseFresh DEF FreshInv
<1>4. CASE UNCHANGED screenVars
  BY <1>4 DEF screenVars, deckVars, fetchVars, FreshInv, Recorded
<1>5. QED BY <1>1, <1>2, <1>3, <1>4, ScreenStepShows

(* A movie that was in the lists when the load began is not in the deck it *)
(* builds, whatever loads overlap, accounts change and cards are swiped in *)
(* between: removeAlreadySwiped is applied to every page of every load.    *)
THEOREM ScreenShowsFresh == ASSUME AnyDeck PROVE Spec => DeckIsFresh
<1>1. Init => FreshInv
  BY DEF Init, FetchInit, FreshInv, ToSet
<1>2. PartsInv /\ FreshInv /\ [Next]_screenVars => FreshInv'
  BY FreshStepInv
<1>3. PartsInv /\ FreshInv /\ [Next]_screenVars =>
        [cards' # cards /\ requests' # requests => ToSet(cards') \cap old' = {}]_screenVars
  <2> SUFFICES ASSUME PartsInv, FreshInv, [Next]_screenVars,
                      cards' # cards, requests' # requests
               PROVE  ToSet(cards') \cap old' = {}
    OBVIOUS
  <2>1. CASE cards' = <<>>
    BY <2>1 DEF ToSet
  <2>2. CASE cards' = moviesToDisplay'
    BY <2>2, FreshStepInv DEF FreshInv
  <2>3. QED BY <2>1, <2>2, ScreenStepShows
<1>4. QED BY <1>1, <1>2, <1>3, PartsInvariant, PTL DEF Spec, DeckIsFresh

-----------------------------------------------------------------------------

(* The cards are undecided.  While every actor keeps out of the others'    *)
(* way, a load runs over an empty screen and collects movies without a     *)
(* verdict; once it has installed them, the only card with a verdict is    *)
(* the one the button animation is taking off.                             *)
NoneDecided(ms) == \A i \in DOMAIN ms : ms[i] \notin Recorded
OnlyTopDecided ==
    \A i \in DOMAIN cards : cards[i] \in Recorded => i = Len(cards) /\ swipeFlight = cards[i]
QuietLoad ==
    requests # {} =>
        cards = <<>> /\ ~InFlight /\ ToSet(moviesToDisplay) \cap Recorded = {}
UndecidedInv ==
    clean => pure /\ ~disturbed /\ IsInjective(cards) /\ OnlyTopDecided /\ QuietLoad

LEMMA NoCards ==
    ASSUME cards = <<>> PROVE IsInjective(cards) /\ OnlyTopDecided
BY DEF IsInjective, OnlyTopDecided

LEMMA FrontElements ==
    ASSUME NEW s \in Seq(Movies), s # <<>>
    PROVE  /\ Len(s) \in Nat \ {0} /\ Top(s) = s[Len(s)] /\ DOMAIN s = 1..Len(s)
           /\ DOMAIN Front(s) = 1..(Len(s) - 1)
           /\ \A i \in 1..(Len(s) - 1) : Front(s)[i] = s[i]
<1>1. Len(s) \in Nat \ {0} /\ DOMAIN s = 1..Len(s) /\ \A i \in 1..Len(s) : s[i] \in Movies
  OBVIOUS
<1>2. Front(s) = [i \in 1..(Len(s) - 1) |-> s[i]]
  BY <1>1 DEF Front
<1>3. QED BY <1>1, <1>2 DEF Top, Last

LEMMA RecordAdds ==
    ASSUME lists \in [Lists -> SUBSET Movies], NEW l \in Lists, NEW m, Record(l, m)
    PROVE  Recorded' \subseteq Recorded \cup {m}
<1>1. \A k \in Lists : lists'[k] \subseteq lists[k] \cup {m}
  BY DEF Record
<1>2. QED BY <1>1 DEF Recorded

(* Taking the top card off when at most that card has a verdict.           *)
LEMMA CardOff ==
    ASSUME DeckInv, IsInjective(cards), UpdateCardView,
           \A i \in DOMAIN cards : cards[i] \in Recorded => i = Len(cards),
           Recorded' \subseteq Recorded \cup {topCard}
    PROVE  IsInjective(cards') /\ OnlyTopDecided'
<1>1. cards \in Seq(Movies) /\ topCard = Top(cards)
  BY DEF DeckInv, DeckTypeOK, TopIsLast
<1>2. CASE cards = <<>>
  <2>1. cards' = <<>>
    BY <1>2 DEF UpdateCardView, RemoveTop
  <2>2. QED BY <2>1 DEF IsInjective, OnlyTopDecided
<1>3. CASE cards # <<>>
  <2> DEFINE n == Len(cards)
  <2>1. cards' = Front(cards)
    BY <1>3 DEF UpdateCardView, RemoveTop
  <2>2. /\ n \in Nat \ {0} /\ topCard = cards[n] /\ DOMAIN cards = 1..n
        /\ DOMAIN cards' = 1..(n - 1) /\ \A i \in 1..(n - 1) : cards'[i] = cards[i]
    BY <1>1, <1>3, <2>1, FrontElements
  <2>3. \A i \in 1..(n - 1) : i \in 1..n /\ i # n /\ n \in 1..n
    <3> HIDE DEF n
    <3>1. n \in Nat \ {0}
      BY <2>2
    <3>2. QED BY <3>1
  <2>4. \A i, j \in 1..n : cards[i] = cards[j] => i = j
    BY <2>2 DEF IsInjective
  <2>5. \A i \in 1..n : cards[i] \in Recorded => i = n
    BY <2>2
  <2> HIDE DEF n
  <2>6. IsInjective(cards')
    BY <2>2, <2>3, <2>4 DEF IsInjective
  <2>7. \A i \in 1..(n - 1) : cards'[i] \notin Recorded'
    <3>1. SUFFICES ASSUME NEW i \in 1..(n - 1) PROVE cards[i] \notin Recorded \cup {cards[n]}
      BY <2>2
    <3>2. QED BY <2>3, <2>4, <2>5
  <2>8. QED BY <2>2, <2>6, <2>7 DEF OnlyTopDecided
<1>4. QED BY <1>2, <1>3

(* Swipes and the ends of their animations, which find no load running.    *)
LEMMA SwipeUndecided ==
    ASSUME DeckInv, UndecidedInv, clean, ~disturbed',
           \/ \E l \in Swipes : Tap(l) \/ PanRelease(l)
           \/ AddWatchlist \/ SwipeAnimationDone \/ PanDone
    PROVE  requests = {} /\ IsInjective(cards') /\ OnlyTopDecided'
<1>1. /\ ~disturbed /\ IsInjective(cards) /\ OnlyTopDecided /\ QuietLoad
      /\ cards \in Seq(Movies) /\ topCard = Top(cards)
      /\ lists \in [Lists -> SUBSET Movies]
      /\ Swipes \subseteq Lists /\ {"watchlist"} \subseteq Lists
      /\ panFlight # None => panFlight.list \in Lists
  <2>1. Swipes \subseteq Lists
    BY SwipesAssumption DEF Lists
  <2>2. panFlight # None => panFlight.list \in Lists
    BY DEF DeckInv, DeckTypeOK, Pans, Lists
  <2>3. QED BY <2>1, <2>2 DEF UndecidedInv, DeckInv, DeckTypeOK, TopIsLast, Lists
<1>2. requests = {}
  <2>1. topCard # None \/ InFlight
    BY DEF Tap, SwipeTop, PanRelease, AddWatchlist, StarTop, SwipeAnimationDone,
       TakeOffSwiped, PanDone, InFlight
  <2>2. CASE requests # {}
    <3>1. cards = <<>> /\ ~InFlight
      BY <1>1, <2>2 DEF QuietLoad
    <3>2. QED BY <1>1, <2>1, <3>1, TopType
  <2>3. QED BY <2>2
<1>3. \A i \in DOMAIN cards : cards[i] \in Recorded => i = Len(cards)
  BY <1>1 DEF OnlyTopDecided
<1>4. swipeFlight = None => NoneDecided(cards)
  <2>1. \A i \in DOMAIN cards : cards[i] # None
    BY <1>1, NoneAssumption
  <2>2. QED BY <1>1, <2>1 DEF OnlyTopDecided, NoneDecided
<1>5. ASSUME NEW l \in Swipes, Tap(l) PROVE IsInjective(cards') /\ OnlyTopDecided'
  <2>1. /\ cards' = cards /\ swipeFlight' = topCard /\ topCard # None
        /\ Record(l, topCard) /\ swipeFlight = None
    BY <1>5 DEF Tap, SwipeTop, DeckInv, ReadyIffNoFlight
  <2>2. cards # <<>>
    BY <1>1, <2>1, TopType
  <2>3. topCard = cards[Len(cards)] /\ Len(cards) \in DOMAIN cards
    BY <1>1, <2>2, FrontElements
  <2>4. Recorded' \subseteq Recorded \cup {topCard}
    BY <1>1, <2>1, RecordAdds
  <2>5. \A i \in DOMAIN cards : cards[i] = topCard => i = Len(cards)
    BY <1>1, <2>3 DEF IsInjective
  <2>6. \A i \in DOMAIN cards : cards[i] \in Recorded' => cards[i] = topCard
    BY <1>4, <2>1, <2>4 DEF NoneDecided
  <2>7. QED BY <1>1, <2>1, <2>5, <2>6 DEF OnlyTopDecided
<1>6. ASSUME NEW l \in Swipes, PanRelease(l) PROVE IsInjective(cards') /\ OnlyTopDecided'
  BY <1>1, <1>6 DEF PanRelease, OnlyTopDecided, Recorded
<1>7. CASE AddWatchlist
  <2>1. Record("watchlist", topCard) /\ UpdateCardView
    BY <1>7 DEF AddWatchlist, StarTop
  <2>2. Recorded' \subseteq Recorded \cup {topCard}
    BY <1>1, <2>1, RecordAdds
  <2>3. QED BY <1>1, <1>2, <1>3, <2>1, <2>2, CardOff
<1>8. CASE SwipeAnimationDone
  <2>1. UpdateCardView /\ UNCHANGED lists
    BY <1>8 DEF SwipeAnimationDone, TakeOffSwiped
  <2>2. Recorded' = Recorded
    BY <2>1 DEF Recorded
  <2>3. QED BY <1>1, <1>2, <1>3, <2>1, <2>2, CardOff
<1>9. CASE PanDone
  <2>1. Record(panFlight.list, panFlight.movie) /\ UpdateCardView /\ panFlight # None
    BY <1>9 DEF PanDone
  <2>2. panFlight.movie = topCard
    BY <1>1, <2>1 DEF DeckInv, FlightIsTopCard
  <2>3. Recorded' \subseteq Recorded \cup {topCard}
    BY <1>1, <2>1, <2>2, RecordAdds
  <2>4. QED BY <1>1, <1>2, <1>3, <2>1, <2>3, CardOff
<1>10. QED BY <1>2, <1>5, <1>6, <1>7, <1>8, <1>9

(* A response, alone in flight: what it installs has no movie twice and    *)
(* none with a verdict.                                                    *)
LEMMA ResponseUndecided ==
    ASSUME OncePerQuery, PartsInv, PassInv, PassInv', UndecidedInv, clean, pure',
           ~disturbed', Response
    PROVE  IsInjective(cards') /\ OnlyTopDecided' /\ QuietLoad'
<1>1. PICK r \in requests : Respond(r, Recorded)
  BY DEF Response
<1>2. /\ cards = <<>> /\ ~InFlight /\ pure
      /\ ToSet(moviesToDisplay) \cap Recorded = {} /\ requests = {r}
  BY <1>1 DEF UndecidedInv, QuietLoad, PassInv
<1>3. ToSet(moviesToDisplay') \cap Recorded = {}
  <2>1. PICK fresh \in Unseen(PageOf(r), Recorded) :
          moviesToDisplay' = moviesToDisplay \o fresh
    BY <1>1 DEF Respond
  <2>2. PageOf(r) \in Seq(Movies) /\ moviesToDisplay \in Seq(Movies)
    BY PageType DEF PartsInv, FetchTypeOK
  <2>3. fresh \in Seq(Movies) /\ ToSet(fresh) \cap Recorded = {}
    BY <2>1, <2>2, UnseenType
  <2>4. ToSet(moviesToDisplay') \subseteq ToSet(moviesToDisplay) \cup ToSet(fresh)
    BY <2>1, <2>2, <2>3, ConcatType
  <2>5. QED BY <1>2, <2>3, <2>4
<1>4. UNCHANGED <<lists, swipeFlight, panFlight>>
  BY DEF Response, Install, Rebuild, SameDeck, deckVars
<1>5. Recorded' = Recorded /\ InFlight' = InFlight
  BY <1>4 DEF Recorded, InFlight
<1>6. Len(moviesToDisplay') \in Nat /\ Enough \in Nat
  BY <1>1, ResponseType, BoundAssumption
<1>7. CASE Len(moviesToDisplay') > Enough
  <2>1. cards' = moviesToDisplay'
    BY <1>7 DEF Response, Install, Rebuild
  <2>2. requests' = {}
    BY <1>1, <1>2, <1>6, <1>7 DEF Respond
  <2>3. IsInjective(cards')
    BY <2>1 DEF PassInv
  <2>4. \A i \in DOMAIN cards' : cards'[i] \notin Recorded'
    BY <1>3, <1>5, <2>1 DEF ToSet
  <2>5. QED BY <2>2, <2>3, <2>4 DEF OnlyTopDecided, QuietLoad
<1>8. CASE ~(Len(moviesToDisplay') > Enough)
  <2>1. cards' = <<>>
    BY <1>2, <1>8 DEF Response, SameDeck, deckVars
  <2>2. IsInjective(cards') /\ OnlyTopDecided'
    BY <2>1 DEF IsInjective, OnlyTopDecided
  <2>3. QED BY <1>2, <1>3, <1>5, <2>1, <2>2 DEF QuietLoad
<1>9. QED BY <1>7, <1>8

LEMMA LoadUndecided ==
    ASSUME DeckInv, NEW n, NewRound(n), UNCHANGED <<swipeFlight, panFlight>>,
           NEW f, NEW m, NEW told, StartLoad(f, m, told),
           disturbed' \in {disturbed, InFlight}
    PROVE  UndecidedInv'
<1>1. SUFFICES ASSUME clean' PROVE UndecidedInv'
  BY DEF UndecidedInv
<1>2. requests = {} /\ cards' = <<>> /\ ~InFlight
  BY <1>1 DEF NewRound
<1>3. pure' /\ moviesToDisplay' = <<>>
  BY <1>2 DEF StartLoad, BeginLoad
<1>4. ~disturbed' /\ ~InFlight'
  BY <1>2 DEF DeckInv, DisturbedOnlyInFlight, InFlight
<1>5. IsInjective(cards') /\ OnlyTopDecided'
  BY <1>2 DEF IsInjective, OnlyTopDecided
<1>6. ToSet(moviesToDisplay') = {}
  BY <1>3 DEF ToSet
<1>7. QED BY <1>2, <1>3, <1>4, <1>5, <1>6 DEF UndecidedInv, QuietLoad

LEMMA AccountUndecided ==
    ASSUME UndecidedInv, NewAccount, AccountChanges, UNCHANGED requests,
           pure' = (pure /\ (requests = {} \/ disk = None))
    PROVE  UndecidedInv'
<1>1. SUFFICES ASSUME clean' PROVE UndecidedInv'
  BY DEF UndecidedInv
<1>2. clean /\ requests = {} /\ cards = <<>> /\ ~InFlight
  BY <1>1 DEF NewAccount
<1>3. cards' = cards /\ disturbed' = InFlight
  BY DEF AccountChanges, SetAccount
<1>4. IsInjective(cards') /\ OnlyTopDecided'
  BY <1>2, <1>3 DEF IsInjective, OnlyTopDecided
<1>5. QED BY <1>2, <1>3, <1>4 DEF UndecidedInv, QuietLoad

LEMMA UndecidedStep ==
    ASSUME OncePerQuery, PartsInv, PassInv, PassInv', UndecidedInv, [Next]_screenVars
    PROVE  UndecidedInv'
<1>1. CASE UserSwipes \/ AnimationEnds
  <2>1. SUFFICES ASSUME clean' PROVE UndecidedInv'
    BY DEF UndecidedInv
  <2>2. UNCHANGED <<requests, pure>> /\ clean /\ ~disturbed'
    BY <1>1, <2>1 DEF UserSwipes, AnimationEnds, SameFetch, fetchVars, KeepRound
  <2>3. requests = {} /\ IsInjective(cards') /\ OnlyTopDecided'
    BY <1>1, <2>2, SwipeUndecided DEF UserSwipes, AnimationEnds, PartsInv
  <2>4. QED BY <2>2, <2>3 DEF UndecidedInv, QuietLoad
<1>2. CASE RefillMovies
  BY <1>2, LoadUndecided DEF RefillMovies, Refill, Install, Rebuild, PartsInv
<1>3. CASE SaveNewFilter
  BY <1>3, LoadUndecided DEF SaveNewFilter, ApplyFilter, SameDeck, deckVars, PartsInv
<1>4. CASE AuthenticationComplete
  BY <1>4, LoadUndecided
  DEF AuthenticationComplete, SignedIn, SignIn, Install, Rebuild, PartsInv
<1>5. CASE Response
  <2>1. SUFFICES ASSUME clean' PROVE UndecidedInv'
    BY DEF UndecidedInv
  <2>2. clean /\ ~disturbed' /\ pure'
    BY <1>5, <2>1 DEF Response, KeepRound
  <2>3. QED BY <1>5, <2>2, ResponseUndecided DEF UndecidedInv
<1>6. CASE Failure
  <2>1. PICK r \in requests : Fail(r)
    BY <1>6 DEF Failure
  <2>2. /\ UNCHANGED <<cards, lists, swipeFlight, panFlight, disturbed, pure>>
        /\ requests' \subseteq requests /\ moviesToDisplay' = moviesToDisplay
        /\ clean' => clean
    BY <1>6, <2>1 DEF Failure, Fail, FailKeeps, SameDeck, deckVars, KeepRound
  <2>3. QED BY <2>2 DEF UndecidedInv, OnlyTopDecided, QuietLoad, InFlight, Recorded
<1>7. CASE Authenticated
  BY <1>7, AccountUndecided DEF Authenticated, SameFetch, fetchVars, UndecidedInv, NewAccount
<1>8. CASE AccountChanges /\ NewAccount /\ AskLogin
  BY <1>8, AccountUndecided DEF AskLogin, UndecidedInv, NewAccount
<1>9. CASE AccountChanges /\ NewAccount /\ SameFetch
  BY <1>9, AccountUndecided DEF SameFetch, fetchVars, UndecidedInv, NewAccount
<1>10. CASE AccountChanges /\ NewAccount /\ \E next \in {"none", "username"} : LoadFilter(next)
  BY <1>10, AccountUndecided DEF LoadFilter
<1>11. CASE /\ KeepRound /\ SameDeck
            /\ \/ AskLogin \/ OpenFilter \/ CloseModal \/ PresentLogin
               \/ PresentOther \/ SaveFilter \/ SameFetch
  <2>1. /\ UNCHANGED <<cards, lists, swipeFlight, panFlight, disturbed, requests, moviesToDisplay>>
        /\ clean' => clean /\ pure'
    BY <1>11 DEF SameDeck, deckVars, KeepRound, AskLogin, OpenFilter, CloseModal,
       PresentLogin, PresentOther, SaveFilter, SameFetch, fetchVars
  <2>2. QED BY <2>1 DEF UndecidedInv, OnlyTopDecided, QuietLoad, InFlight, Recorded
<1>12. CASE LogoutOrRegister
  BY <1>8, <1>11, <1>12 DEF LogoutOrRegister
<1>13. CASE ScreenOnly
  BY <1>11, <1>13 DEF ScreenOnly
<1>14. CASE SceneUserFetched
  BY <1>9, <1>11, <1>14 DEF SceneUserFetched, AccountChanges
<1>15. CASE UserFetched
  BY <1>10, <1>11, <1>15 DEF UserFetched, AccountChanges
<1>16. CASE UNCHANGED screenVars
  BY <1>16 DEF screenVars, deckVars, fetchVars, UndecidedInv, OnlyTopDecided, QuietLoad,
     InFlight, Recorded
<1>17. QED
  BY <1>1, <1>2, <1>3, <1>4, <1>5, <1>6, <1>7, <1>12, <1>13, <1>14, <1>15, <1>16 DEF Next

(* For every set of movies and every catalog that lists a movie once per   *)
(* query: as long as loads do not overlap, no save takes a page back and   *)
(* the account does not change under a deck, every card still to be swiped *)
(* is of a movie without a verdict, and of one movie only, so that each    *)
(* verdict counts once.  It needs the deck, the loads, the animations and  *)
(* the lists together.                                                     *)
THEOREM ScreenCardsUndecided ==
    ASSUME AnyDeck, OncePerQuery PROVE Spec => []CardsAreUndecided
<1>1. Init => UndecidedInv /\ PassInv
  <2> SUFFICES ASSUME Init PROVE UndecidedInv /\ PassInv
    OBVIOUS
  <2>1. PassInv /\ cards = <<>> /\ requests = {} /\ pure /\ ~disturbed
    BY PassInit DEF Init, DeckInit, FetchInit
  <2>2. QED BY <2>1, NoCards DEF UndecidedInv, QuietLoad
<1>2. PartsInv /\ PassInv /\ [Next]_screenVars => PassInv'
  BY ScreenStepParts, PassStep DEF PartsInv
<1>3. PartsInv /\ PassInv /\ UndecidedInv /\ [Next]_screenVars => UndecidedInv'
  BY <1>2, UndecidedStep
<1>4. UndecidedInv => CardsAreUndecided
  BY DEF UndecidedInv, OnlyTopDecided, CardsAreUndecided
<1>5. QED BY <1>1, <1>2, <1>3, <1>4, PartsInvariant, PTL DEF Spec

-----------------------------------------------------------------------------

(* A load that is started either has a request in flight or shows what it  *)
(* was to show when it is refused.                                         *)
LEMMA LoadSentOrTold ==
    ASSUME NEW f, NEW m, NEW told, StartLoad(f, m, told)
    PROVE  requests' # {} \/ (UNCHANGED requests /\ modal' = told)
BY DEF StartLoad, BeginLoad, FetchMovies, Send

(* An empty screen with neither its refill button nor a request in flight  *)
(* is never reached under the user's eyes: the step that leaves it shows   *)
(* an alert, or another screen is on top (configureCards, fetchMovies).    *)
THEOREM ScreenTellsEmpty == ASSUME AnyDeck PROVE Spec => EmptyScreenIsTold
<1>1. PartsInv /\ [Next]_screenVars => [~Stuck /\ Stuck' => modal' # "none"]_screenVars
  <2> SUFFICES ASSUME PartsInv, [Next]_screenVars, ~Stuck, Stuck'
               PROVE  modal' # "none"
    OBVIOUS
  <2>1. cards' = <<>> /\ refillHidden' /\ requests' = {}
    BY DEF Stuck
  <2>2. UNCHANGED requests => cards # <<>> \/ ~refillHidden
    BY <2>1 DEF Stuck
  <2>3. CASE UserSwipes \/ AnimationEnds
    <3>1. UNCHANGED requests /\ (UpdateCardView \/ UNCHANGED <<cards, refillHidden>>)
      BY <2>3 DEF UserSwipes, AnimationEnds, SameFetch, fetchVars, Tap, SwipeTop, PanRelease,
         AddWatchlist, SwipeAnimationDone, TakeOffSwiped, PanDone
    <3>2. cards # <<>> /\ UpdateCardView
      BY <2>1, <2>2, <3>1 DEF UpdateCardView
    <3>3. QED BY <2>1, <3>2 DEF UpdateCardView
  <2>4. CASE RefillMovies
    <3>1. modal' = "noMoreMovies"
      BY <2>1, <2>4, LoadSentOrTold DEF RefillMovies, Refill
    <3>2. QED BY <3>1
  <2>5. CASE SaveNewFilter
    <3>1. UNCHANGED <<requests, cards, refillHidden>>
      BY <2>1, <2>5, LoadSentOrTold DEF SaveNewFilter, ApplyFilter, SameDeck, deckVars
    <3>2. QED BY <2>1, <2>2, <3>1
  <2>6. CASE AuthenticationComplete
    <3>1. PICK named \in BOOLEAN : SignIn(named)
      BY <2>6 DEF AuthenticationComplete, SignedIn
    <3>2. modal' = Present(IF named THEN "none" ELSE "username", "noMoreMovies")
      BY <2>1, <3>1, LoadSentOrTold DEF SignIn
    <3>3. QED BY <3>2 DEF Present
  <2>7. CASE Response
    <3>1. PICK r \in requests : Respond(r, Recorded)
      BY <2>7 DEF Response
    <3>2. Len(moviesToDisplay') > Enough
      BY <2>1, <3>1 DEF Respond, Send
    <3>3. cards' = moviesToDisplay'
      BY <2>7, <3>2 DEF Response, Install, Rebuild
    <3>4. Enough \in Nat /\ Len(<<>>) = 0
      BY BoundAssumption
    <3>5. QED BY <2>1, <3>2, <3>3, <3>4
  <2>8. CASE Failure
    BY <2>8 DEF Failure, Fail, Present
  <2>9. CASE \/ Authenticated \/ LogoutOrRegister \/ ScreenOnly \/ SceneUserFetched
             \/ UserFetched \/ UNCHANGED screenVars
    <3>1. UNCHANGED requests
      BY <2>9 DEF Authenticated, LogoutOrRegister, ScreenOnly, SceneUserFetched,
         UserFetched, SameFetch, screenVars, fetchVars, AskLogin, OpenFilter, CloseModal,
         PresentLogin, PresentOther, SaveFilter, LoadFilter
    <3>2. UNCHANGED <<cards, refillHidden>>
      BY <2>9 DEF Authenticated, LogoutOrRegister, ScreenOnly, SceneUserFetched,
         UserFetched, SameDeck, screenVars, deckVars, AccountChanges, SetAccount
    <3>3. QED BY <2>1, <2>2, <3>1, <3>2
  <2>10. QED
    BY <2>3, <2>4, <2>5, <2>6, <2>7, <2>8, <2>9 DEF Next
<1>2. QED BY <1>1, PartsInvariant, PTL DEF Spec, EmptyScreenIsTold

-----------------------------------------------------------------------------
(* No load goes round in circles: each step on it lowers LoadRank.         *)

(* What the counts in LoadRank need.                                       *)
LoadsAreCounted ==
    /\ FetchTypeOK
    /\ IsFiniteSet(requests)
    /\ starts <= MaxStarts /\ saves <= MaxSaves

LEMMA RankParts ==
    ASSUME LoadsAreCounted
    PROVE  /\ LoadBudget \in Nat /\ PagesLeft \in Nat
           /\ Cardinality(requests) \in Nat
           /\ IsFiniteSet(Served) /\ Cardinality(Served) \in Nat
<1>1. LoadBudget \in Nat
  BY BoundAssumption DEF LoadsAreCounted, FetchTypeOK, LoadBudget
<1>2. PagesLeft \in Nat
  BY BoundAssumption DEF LoadsAreCounted, FetchTypeOK, FilterValues, PagesLeft
<1>3. Served \subseteq requests
  BY DEF Served
<1>4. QED BY <1>1, <1>2, <1>3, FS_Subset, FS_CardinalityType DEF LoadsAreCounted

LEMMA LoadRankFalls ==
    ASSUME \/ LoadBudget' < LoadBudget
           \/ /\ LoadBudget' = LoadBudget
              /\ Cardinality(requests') < Cardinality(requests)
           \/ /\ LoadBudget' = LoadBudget
              /\ Cardinality(requests') = Cardinality(requests)
              /\ PagesLeft' < PagesLeft
           \/ /\ LoadBudget' = LoadBudget
              /\ Cardinality(requests') = Cardinality(requests)
              /\ PagesLeft' = PagesLeft
              /\ Cardinality(Served') < Cardinality(Served)
    PROVE  Lower(LoadRank', LoadRank)
<1>1. /\ Len(LoadRank) = 4
      /\ LoadRank[1] = LoadBudget /\ LoadRank[2] = Cardinality(requests)
      /\ LoadRank[3] = PagesLeft /\ LoadRank[4] = Cardinality(Served)
  BY DEF LoadRank
<1>2. /\ LoadRank'[1] = LoadBudget' /\ LoadRank'[2] = Cardinality(requests')
      /\ LoadRank'[3] = PagesLeft' /\ LoadRank'[4] = Cardinality(Served')
  BY DEF LoadRank
<1>3. \E i \in 1..4 : LoadRank'[i] < LoadRank[i]
                      /\ \A j \in 1..(i - 1) : LoadRank'[j] = LoadRank[j]
  <2>1. CASE LoadRank'[1] < LoadRank[1]
    BY <2>1
  <2>2. CASE LoadRank'[1] = LoadRank[1] /\ LoadRank'[2] < LoadRank[2]
    <3>1. \A j \in 1..(2 - 1) : LoadRank'[j] = LoadRank[j]
      BY <2>2
    <3>2. QED BY <2>2, <3>1
  <2>3. CASE LoadRank'[1] = LoadRank[1] /\ LoadRank'[2] = LoadRank[2]
             /\ LoadRank'[3] < LoadRank[3]
    <3>1. \A j \in 1..(3 - 1) : LoadRank'[j] = LoadRank[j]
      BY <2>3
    <3>2. QED BY <2>3, <3>1
  <2>4. CASE LoadRank'[1] = LoadRank[1] /\ LoadRank'[2] = LoadRank[2]
             /\ LoadRank'[3] = LoadRank[3] /\ LoadRank'[4] < LoadRank[4]
    <3>1. \A j \in 1..(4 - 1) : LoadRank'[j] = LoadRank[j]
      BY <2>4
    <3>2. QED BY <2>4, <3>1
  <2>5. QED BY <1>1, <1>2, <2>1, <2>2, <2>3, <2>4
<1>4. QED BY <1>1, <1>3 DEF Lower

(* What the user and the scene do uses up the budget.                      *)
LEMMA BudgetSpent ==
    ASSUME LoadsAreCounted,
           \/ Refill \/ \E q \in Filters : ApplyFilter(q)
           \/ \E named \in BOOLEAN : SignIn(named)
           \/ SaveFilter \/ \E next \in {"none", "username"} : LoadFilter(next)
    PROVE  LoadBudget' < LoadBudget /\ starts' <= MaxStarts /\ saves' <= MaxSaves
<1>1. /\ starts \in Nat /\ saves \in Nat /\ MaxStarts \in Nat /\ MaxSaves \in Nat
      /\ loaded \in BOOLEAN /\ starts <= MaxStarts /\ saves <= MaxSaves
  BY BoundAssumption DEF LoadsAreCounted, FetchTypeOK
<1>2. \/ starts < MaxStarts /\ starts' = starts + 1 /\ UNCHANGED <<saves, loaded>>
      \/ saves < MaxSaves /\ saves' = saves + 1 /\ UNCHANGED <<starts, loaded>>
      \/ ~ loaded /\ loaded' = TRUE /\ UNCHANGED <<starts, saves>>
  BY DEF Refill, ApplyFilter, SignIn, StartLoad, BeginLoad, SaveFilter, LoadFilter, uiVars
<1>3. QED BY <1>1, <1>2 DEF LoadBudget

(* The other steps of the user have nothing to do with the loads.          *)
LEMMA LoadsUntouched ==
    ASSUME OpenFilter \/ CloseModal \/ AskLogin \/ PresentLogin \/ PresentOther
    PROVE  /\ UNCHANGED <<filter, requests, moviesToDisplay, starts, saves, loaded>>
           /\ UNCHANGED LoadRank
<1>1. UNCHANGED <<filter, requests, moviesToDisplay, starts, saves, loaded>>
  BY DEF OpenFilter, CloseModal, AskLogin, PresentLogin, PresentOther, uiVars
<1>2. QED BY <1>1 DEF LoadRank, LoadBudget, PagesLeft, Served

(* A request goes, and one for the page of the filter takes its place.     *)
LEMMA NextPageLowers ==
    ASSUME LoadsAreCounted, NEW r \in requests, r.page <= ServerMaxPage,
           NEW x \in Requests, x.page = filter.page,
           requests' = (requests \ {r}) \cup {x},
           filter'.page = filter.page + 1,
           UNCHANGED <<starts, saves, loaded>>
    PROVE  Lower(LoadRank', LoadRank)
<1> DEFINE others == requests \ {r}
<1>1. /\ IsFiniteSet(others) /\ Cardinality(others) \in Nat
      /\ Cardinality(requests) \in Nat /\ Cardinality(others) = Cardinality(requests) - 1
  BY RequestsCount, FS_CardinalityType DEF LoadsAreCounted
<1>2. requests' = others \cup {x}
  OBVIOUS
<1>3. UNCHANGED LoadBudget
  BY DEF LoadBudget
<1>4. /\ filter.page \in Nat /\ ServerMaxPage \in Nat
  BY BoundAssumption DEF LoadsAreCounted, FetchTypeOK, FilterValues
<1>5. CASE x \in others
  <2>1. requests' = others
    BY <1>2, <1>5
  <2>2. QED BY <1>1, <1>3, <2>1, LoadRankFalls
<1>6. CASE x \notin others
  <2> HIDE DEF others
  <2>1. Cardinality(requests') = Cardinality(others) + 1
    BY <1>1, <1>2, <1>6, FS_AddElement
  <2>2. Cardinality(requests') = Cardinality(requests)
    BY <1>1, <2>1
  <2>3. CASE filter.page <= ServerMaxPage
    <3>1. PagesLeft' < PagesLeft
      BY <1>4, <2>3 DEF PagesLeft
    <3>2. QED BY <1>3, <2>2, <3>1, LoadRankFalls
  <2>4. CASE ~ (filter.page <= ServerMaxPage)
    <3>1. PagesLeft' = PagesLeft
      BY <1>4, <2>4 DEF PagesLeft
    <3>2. r \in Served /\ Served' = Served \ {r}
      BY <1>2, <2>4 DEF Served, others
    <3>3. Cardinality(Served') = Cardinality(Served) - 1 /\ Cardinality(Served) \in Nat
      BY <3>2, RankParts, FS_RemoveElement
    <3>4. QED BY <1>3, <2>2, <3>1, <3>3, LoadRankFalls
  <2>5. QED BY <2>3, <2>4
<1>7. QED BY <1>5, <1>6

(* An answer ends its load, or goes on to a later page.                    *)
LEMMA AnswerLowers ==
    ASSUME LoadsAreCounted, NEW r \in requests, Answer(r)
    PROVE  /\ Lower(LoadRank', LoadRank) /\ IsFiniteSet(requests')
           /\ UNCHANGED <<starts, saves>>
<1>1. r \in Requests /\ filter \in FilterValues
  BY DEF LoadsAreCounted, FetchTypeOK
<1>2. UNCHANGED <<starts, saves, loaded>>
  BY DEF Answer, Respond, Fail, FailKeeps, uiVars
<1>3. \/ requests' = requests \ {r}
      \/ /\ r.page <= ServerMaxPage
         /\ Send(requests \ {r}, r.id,
                 [filter EXCEPT !.totalPages = Len(Catalog[r.filter])])
  BY DEF Answer, Respond, Fail
<1>4. CASE requests' = requests \ {r}
  <2>1. /\ IsFiniteSet(requests') /\ Cardinality(requests) \in Nat
        /\ Cardinality(requests') = Cardinality(requests) - 1
    BY <1>4, RequestsCount DEF LoadsAreCounted
  <2>2. LoadBudget' = LoadBudget
    BY <1>2 DEF LoadBudget
  <2>3. QED BY <1>2, <2>1, <2>2, LoadRankFalls
<1>5. CASE /\ r.page <= ServerMaxPage
           /\ Send(requests \ {r}, r.id,
                   [filter EXCEPT !.totalPages = Len(Catalog[r.filter])])
  <2> DEFINE x == [id |-> r.id, filter |-> filter.id, page |-> filter.page]
  <2>1. x \in Requests /\ x.page = filter.page
    BY <1>1 DEF Requests, FilterValues
  <2>2. requests' = (requests \ {r}) \cup {x} /\ filter'.page = filter.page + 1
    BY <1>1, <1>5 DEF Send, FilterValues
  <2>3. IsFiniteSet(requests')
    <3>1. IsFiniteSet(requests \ {r})
      BY RequestsCount DEF LoadsAreCounted
    <3>2. QED BY <2>2, <3>1, FS_AddElement
  <2> HIDE DEF x
  <2>4. QED BY <1>2, <1>5, <2>1, <2>2, <2>3, NextPageLowers
<1>6. QED BY <1>3, <1>4, <1>5

LEMMA CountedStep ==
    LoadsAreCounted /\ [FetchNext]_fetchVars =>
        /\ LoadsAreCounted'
        /\ \/ Lower(LoadRank', LoadRank)
           \/ UNCHANGED <<LoadRank, requests, moviesToDisplay>>
<1> SUFFICES ASSUME LoadsAreCounted, [FetchNext]_fetchVars
             PROVE  /\ IsFiniteSet(requests')
                    /\ starts' <= MaxStarts /\ saves' <= MaxSaves
                    /\ \/ Lower(LoadRank', LoadRank)
                       \/ UNCHANGED <<LoadRank, requests, moviesToDisplay>>
  BY FetchStepType DEF LoadsAreCounted
<1>1. CASE \/ Refill \/ \E q \in Filters : ApplyFilter(q)
           \/ \E named \in BOOLEAN : SignIn(named)
           \/ SaveFilter \/ \E next \in {"none", "username"} : LoadFilter(next)
  <2>1. IsFiniteSet(requests')
    <3>1. (\E f, m, told : StartLoad(f, m, told)) \/ UNCHANGED requests
      BY <1>1 DEF Refill, ApplyFilter, SignIn, SaveFilter, LoadFilter
    <3>2. QED BY <3>1, StartLoadCount DEF LoadsAreCounted
  <2>2. QED BY <1>1, <2>1, BudgetSpent, LoadRankFalls
<1>2. CASE OpenFilter \/ CloseModal \/ AskLogin \/ PresentLogin \/ PresentOther
  BY <1>2, LoadsUntouched DEF LoadsAreCounted
<1>3. CASE \E r \in requests : Answer(r)
  BY <1>3, AnswerLowers DEF LoadsAreCounted
<1>4. CASE UNCHANGED fetchVars
  <2>1. UNCHANGED <<filter, requests, moviesToDisplay, starts, saves, loaded>>
    BY <1>4 DEF fetchVars
  <2>2. UNCHANGED LoadRank
    BY <2>1 DEF LoadRank, LoadBudget, PagesLeft, Served
  <2>3. QED BY <2>1, <2>2 DEF LoadsAreCounted
<1>5. QED BY <1>1, <1>2, <1>3, <1>4 DEF FetchNext

LEMMA LoadsCounted == FetchSpec => []LoadsAreCounted
<1>1. FetchInit => LoadsAreCounted
  BY FetchInitType, FS_EmptySet, BoundAssumption DEF FetchInit, LoadsAreCounted
<1>2. LoadsAreCounted /\ [FetchNext]_fetchVars => LoadsAreCounted'
  BY CountedStep
<1>3. QED BY <1>1, <1>2, PTL DEF FetchSpec

(* No load goes round in circles, for every catalog, every last page and   *)
(* whatever the user and the scene callbacks do to the shared page under   *)
(* it: each answer ends a load or brings it nearer to its end.             *)
THEOREM LoadsGetOn == FetchSpec => LoadsAdvance
<1>1. LoadsAreCounted /\ [FetchNext]_fetchVars =>
        [ \/ Lower(LoadRank', LoadRank)
          \/ UNCHANGED <<LoadRank, requests, moviesToDisplay>> ]_fetchVars
  BY CountedStep
<1>2. QED BY <1>1, LoadsCounted, PTL DEF FetchSpec, LoadsAdvance

(* What is left of the loads is always counted by four numbers, so that    *)
(* answers alone cannot go on forever: RanksEnd of FirestoreProofs.        *)
THEOREM LoadsRankCounts == FetchSpec => [](LoadRank \in [1..4 -> Nat])
<1>1. ASSUME LoadsAreCounted PROVE LoadRank \in [1..4 -> Nat]
  <2>1. LoadRank = <<LoadBudget, Cardinality(requests), PagesLeft, Cardinality(Served)>>
    BY DEF LoadRank
  <2>2. QED BY <1>1, <2>1, RankParts
<1>2. LoadsAreCounted => LoadRank \in [1..4 -> Nat]
  BY <1>1
<1>3. QED BY <1>2, LoadsCounted, PTL
=============================================================================

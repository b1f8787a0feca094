--------------------------- MODULE MovieBagsProofs ---------------------------
(***************************************************************************)
(* Facts about lists of movies: what adding and taking away a movie does,  *)
(* and that of two lists of the same length neither has more of a movie if *)
(* the other has not.                                                      *)
(***************************************************************************)
EXTENDS MovieBags, FiniteSetTheorems, TLAPS

LEMMA NoMoviesIsBag == NoMovies \in Bags
  BY DEF NoMovies, Bags

LEMMA PlusMinus ==
    ASSUME NEW list \in Bags, NEW m \in Movies
    PROVE  /\ Plus(list, m) \in Bags
           /\ Plus(list, m)[m] = list[m] + 1
           /\ \A n \in Movies \ {m} : Plus(list, m)[n] = list[n]
           /\ list[m] > 0 =>
                /\ Minus(list, m) \in Bags
                /\ Minus(list, m)[m] = list[m] - 1
                /\ \A n \in Movies \ {m} : Minus(list, m)[n] = list[n]
  BY DEF Bags, Plus, Minus

LEMMA SameBag ==
    ASSUME NEW list \in Bags, NEW other \in Bags, \A m \in Movies : list[m] = other[m]
    PROVE  list = other
  BY DEF Bags

-----------------------------------------------------------------------------
(* Induction, stated of a set of numbers.                                  *)
LEMMA FromZeroOn ==
    ASSUME NEW I \in SUBSET Nat, 0 \in I, \A n \in I : n + 1 \in I
    PROVE  I = Nat
<1> DEFINE R == {ss \in Nat \X Nat : ss[1] < ss[2]}
           Missing == Nat \ I
<1>1. IsWellFoundedOn(R, Nat)
  BY NatLessThanWellFounded DEF OpToRel
<1>2. \A m, k \in Nat : <<k, m>> \notin R => ~(k < m)
  OBVIOUS
<1>3. SUFFICES ASSUME Missing # {} PROVE FALSE
  OBVIOUS
<1>4. Missing \in SUBSET Nat
  OBVIOUS
<1> HIDE DEF R, Missing
<1>5. PICK m \in Missing : \A k \in Missing : <<k, m>> \notin R
  BY <1>1, <1>3, <1>4, WFMin
<1>6. m \in Nat /\ m \notin I /\ \A k \in Nat : k < m => k \in I
  BY <1>2, <1>5 DEF Missing
<1>7. m # 0 /\ m - 1 \in Nat /\ m - 1 < m
  BY <1>6
<1>8. m - 1 \in I
  BY <1>6, <1>7
<1>9. (m - 1) + 1 \in I
  BY <1>8
<1>10. QED BY <1>6, <1>7, <1>9

-----------------------------------------------------------------------------
(* Sums over finite sets.  SumFunction adds up the values of a function by *)
(* a recursive function on the sets of arguments, which takes away one     *)
(* argument after the other; that there is such a function is proved by    *)
(* induction on the size of the sets.                                      *)

One(s) == CHOOSE x \in s : TRUE
Rest(s) == s \ {One(s)}
SumsOver(f, sets, it) ==
    it = [s \in sets |-> IF s = {} THEN 0 ELSE f[One(s)] + it[Rest(s)]]
PartialSums(f) == CHOOSE it : SumsOver(f, SUBSET DOMAIN f, it)

LEMMA SumUnfolds ==
    ASSUME NEW f PROVE SumFunction(f) = PartialSums(f)[DOMAIN f]
  BY DEF SumFunction, SumFunctionOnSet, FoldFunctionOnSet, MapThenFoldSet, PartialSums,
         SumsOver, Rest, One

LEMMA RestIsSmaller ==
    ASSUME NEW s, IsFiniteSet(s), s # {}
    PROVE  /\ One(s) \in s /\ Rest(s) \subseteq s /\ s = Rest(s) \cup {One(s)}
           /\ IsFiniteSet(Rest(s))
           /\ Cardinality(s) \in Nat /\ Cardinality(Rest(s)) \in Nat
           /\ Cardinality(s) = Cardinality(Rest(s)) + 1
<1>1. One(s) \in s
  BY DEF One
<1>2. IsFiniteSet(Rest(s)) /\ Cardinality(Rest(s)) = Cardinality(s) - 1
  BY <1>1, FS_RemoveElement DEF Rest
<1>3. Cardinality(s) \in Nat /\ Cardinality(Rest(s)) \in Nat
  BY <1>2, FS_CardinalityType
<1>4. Rest(s) \subseteq s /\ s = Rest(s) \cup {One(s)}
  BY <1>1 DEF Rest
<1>5. QED BY <1>1, <1>2, <1>3, <1>4

(* The partial sums of a function on a finite set exist.                   *)
LEMMA PartialSumsExist ==
    ASSUME NEW f, IsFiniteSet(DOMAIN f)
    PROVE  SumsOver(f, SUBSET DOMAIN f, PartialSums(f))
<1> DEFINE Small(n) == {s \in SUBSET DOMAIN f : Cardinality(s) <= n}
           I == {n \in Nat : \E it : SumsOver(f, Small(n), it)}
<1>1. \A s \in SUBSET DOMAIN f : IsFiniteSet(s) /\ Cardinality(s) \in Nat
  BY FS_Subset, FS_CardinalityType
<1>2. 0 \in I
  <2> DEFINE it == [s \in Small(0) |-> 0]
  <2>1. \A s \in Small(0) : s = {}
    BY <1>1, FS_EmptySet
  <2>2. it = [s \in Small(0) |-> IF s = {} THEN 0 ELSE f[One(s)] + it[Rest(s)]]
    BY <2>1
  <2>3. QED BY <2>2 DEF SumsOver
<1>3. ASSUME NEW n \in I PROVE n + 1 \in I
  <2>1. PICK it : SumsOver(f, Small(n), it)
    OBVIOUS
  <2> DEFINE next == [s \in Small(n + 1) |->
                        IF s = {} THEN 0 ELSE f[One(s)] + it[Rest(s)]]
  <2>2. \A s \in Small(n) : it[s] = IF s = {} THEN 0 ELSE f[One(s)] + it[Rest(s)]
    BY <2>1 DEF SumsOver
  <2>3. \A s \in Small(n + 1) : s # {} => Rest(s) \in Small(n)
    BY <1>1, RestIsSmaller
  <2>4. \A s \in Small(n) : s \in Small(n + 1) /\ next[s] = it[s]
    BY <1>1, <2>2
  <2>5. \A s \in Small(n + 1) :
           next[s] = IF s = {} THEN 0 ELSE f[One(s)] + next[Rest(s)]
    BY <2>3, <2>4
  <2>6. next = [s \in Small(n + 1) |-> IF s = {} THEN 0 ELSE f[One(s)] + next[Rest(s)]]
    BY <2>5
  <2>7. SumsOver(f, Small(n + 1), next)
    BY <2>6 DEF SumsOver
  <2> HIDE DEF Small, next
  <2>8. QED BY <2>7
<1>4. I = Nat
  <2> HIDE DEF Small
  <2>1. I \in SUBSET Nat
    OBVIOUS
  <2> HIDE DEF I
  <2>2. QED BY <1>2, <1>3, <2>1, FromZeroOn
<1>5. Small(Cardinality(DOMAIN f)) = SUBSET DOMAIN f
  BY <1>1, FS_Subset
<1>6. \E it : SumsOver(f, SUBSET DOMAIN f, it)
  <2>1. Cardinality(DOMAIN f) \in I
    BY <1>1, <1>4
  <2> HIDE DEF Small
  <2>2. \E it : SumsOver(f, Small(Cardinality(DOMAIN f)), it)
    BY <2>1
  <2>3. QED BY <1>5, <2>2
<1>7. QED BY <1>6 DEF PartialSums

(* Of two functions of which one is nowhere above the other the sums are   *)
(* equal only if the functions are.                                        *)
LEMMA SmallerSum ==
    ASSUME NEW S, IsFiniteSet(S), NEW f \in [S -> Nat], NEW g \in [S -> Nat],
           \A x \in S : f[x] <= g[x],
           SumFunction(f) = SumFunction(g)
    PROVE  f = g
<1> DEFINE F == PartialSums(f)
           G == PartialSums(g)
           Below(s) == /\ F[s] \in Nat /\ G[s] \in Nat /\ F[s] <= G[s]
                       /\ F[s] = G[s] => \A x \in s : f[x] = g[x]
           I == {n \in Nat : \A s \in SUBSET S : Cardinality(s) = n => Below(s)}
<1>1. /\ \A s \in SUBSET S : F[s] = IF s = {} THEN 0 ELSE f[One(s)] + F[Rest(s)]
      /\ \A s \in SUBSET S : G[s] = IF s = {} THEN 0 ELSE g[One(s)] + G[Rest(s)]
  <2>1. DOMAIN f = S /\ DOMAIN g = S
    OBVIOUS
  <2>2. SumsOver(f, SUBSET S, F) /\ SumsOver(g, SUBSET S, G)
    BY <2>1, PartialSumsExist
  <2> HIDE DEF F, G
  <2>3. QED BY <2>2 DEF SumsOver
<1>2. \A s \in SUBSET S : IsFiniteSet(s) /\ Cardinality(s) \in Nat
  BY FS_Subset, FS_CardinalityType
<1> HIDE DEF F, G
<1>3. 0 \in I
  <2>1. \A s \in SUBSET S : Cardinality(s) = 0 => s = {}
    BY <1>2, FS_EmptySet
  <2>2. F[{}] = 0 /\ G[{}] = 0
    BY <1>1
  <2>4. Below({})
    BY <2>2
  <2>5. QED BY <2>1, <2>4
<1>4. ASSUME NEW n \in I PROVE n + 1 \in I
  <2>1. SUFFICES ASSUME NEW s \in SUBSET S, Cardinality(s) = n + 1 PROVE Below(s)
    OBVIOUS
  <2>0. n + 1 # 0
    OBVIOUS
  <2>2. s # {}
    BY <2>1, <2>0, FS_EmptySet
  <2>3. /\ One(s) \in S /\ Rest(s) \in SUBSET S /\ s = Rest(s) \cup {One(s)}
        /\ Cardinality(Rest(s)) = n
    BY <1>2, <2>1, <2>2, RestIsSmaller
  <2>4. Below(Rest(s))
    BY <2>3
  <2>5. /\ F[s] = f[One(s)] + F[Rest(s)] /\ G[s] = g[One(s)] + G[Rest(s)]
        /\ f[One(s)] \in Nat /\ g[One(s)] \in Nat /\ f[One(s)] <= g[One(s)]
    BY <1>1, <2>2, <2>3
  <2>6. /\ F[s] \in Nat /\ G[s] \in Nat /\ F[s] <= G[s]
        /\ F[s] = G[s] => f[One(s)] = g[One(s)] /\ F[Rest(s)] = G[Rest(s)]
    BY <2>4, <2>5
  <2>7. QED BY <2>3, <2>4, <2>6
<1>5. I = Nat
  <2>1. I \in SUBSET Nat
    OBVIOUS
  <2> HIDE DEF I
  <2>2. QED BY <1>3, <1>4, <2>1, FromZeroOn
<1>6. Below(S)
  <2>1. S \in SUBSET S /\ Cardinality(S) \in I
    BY <1>2, <1>5
  <2>2. QED BY <2>1
<1>7. F[S] = G[S]
  <2>1. DOMAIN f = S /\ DOMAIN g = S
    OBVIOUS
  <2>2. QED BY <2>1, SumUnfolds DEF F, G
<1>8. QED BY <1>6, <1>7

(* A list that has no movie more often than another, and is as long, is    *)
(* the same list.                                                          *)
LEMMA SameLength ==
    ASSUME NEW list \in Bags, NEW other \in Bags, \A m \in Movies : list[m] <= other[m]
    PROVE  Length(list) = Length(other) <=> list = other
  BY MoviesAssumption, SmallerSum DEF Bags, Length
=============================================================================

---------------------------- MODULE RecallProofs ----------------------------
(***************************************************************************)
(* Theorems of RecallPipeline, for any index, queries and similarities.    *)
(*                                                                         *)
(* The first half is about the operators of RecallRanking: sorting is a    *)
(* bijection that descends, the merge of a search adds records that are    *)
(* new, the merge loop of assembleGroups is an assembly (by induction on   *)
(* the turns it has left), and the answer is the best of its hits.         *)
(***************************************************************************)
EXTENDS RecallPipeline, FiniteSetTheorems, FunctionTheorems, WellFoundedInduction, TLAPS

-----------------------------------------------------------------------------
(* Numbers and sets. *)

\* Induction over the natural numbers, for a set.
LEMMA SetInduction ==
    ASSUME NEW T, 0 \in T, \A n \in Nat : n \in T => n + 1 \in T
    PROVE  \A n \in Nat : n \in T
<1> DEFINE R == OpToRel(<, Nat)
           U == Nat \ T
<1>1. IsWellFoundedOn(R, Nat)
  BY NatLessThanWellFounded
<1>2. SUFFICES ASSUME U # {} PROVE FALSE
  OBVIOUS
<1>3. ASSUME NEW x \in Nat, NEW y \in Nat, x < y PROVE <<x, y>> \in R
  BY <1>3 DEF OpToRel
<1> HIDE DEF R
<1>4. PICK x \in U : \A y \in U : <<y, x>> \notin R
  <2>1. U \subseteq Nat
    OBVIOUS
  <2> HIDE DEF U
  <2> QED
    BY <1>1, <1>2, <2>1, WFMin
<1>5. x \in Nat /\ x \notin T
  OBVIOUS
<1>6. x # 0
  BY <1>5
<1>7. x - 1 \in Nat /\ x - 1 < x /\ (x - 1) + 1 = x
  BY <1>5, <1>6
<1>8. x - 1 \notin U
  BY <1>3, <1>4, <1>5, <1>7
<1>9. x - 1 \in T
  BY <1>7, <1>8
<1> QED
  BY <1>5, <1>7, <1>9

LEMMA BijectionFacts ==
    ASSUME NEW S, NEW T, NEW f \in Bijection(S, T)
    PROVE  /\ DOMAIN f = S
           /\ \A x \in S : f[x] \in T
           /\ \A x, y \in S : f[x] = f[y] => x = y
           /\ \A t \in T : \E x \in S : f[x] = t
BY DEF Bijection, Injection, Surjection, IsInjective

LEMMA PlacesAreFinite ==
    ASSUME NEW n \in Nat, NEW S \in SUBSET (1 .. n)
    PROVE  IsFiniteSet(S) /\ Cardinality(S) \in Nat /\ Cardinality(S) <= n
<1>1. IsFiniteSet(1 .. n) /\ Cardinality(1 .. n) = n
  BY FS_Interval
<1>2. IsFiniteSet(S) /\ Cardinality(S) <= n
  BY <1>1, FS_Subset
<1> QED
  BY <1>2, FS_CardinalityType

-----------------------------------------------------------------------------
(* Sorting. *)

\* What goes before a place.
Before(key, i) == {j \in DOMAIN key : key[j] > key[i] \/ (key[j] = key[i] /\ j < i)}

\* Places are passed once each, greatest keys first and equal keys in their order.
Descends(order, key) ==
    \A p, q \in DOMAIN order :
        p < q => \/ key[order[p]] > key[order[q]]
                 \/ (key[order[p]] = key[order[q]] /\ order[p] < order[q])

LEMMA OrderFacts ==
    ASSUME NEW n \in Nat, NEW S \in SUBSET (1 .. n), NEW key \in [S -> Int]
    PROVE  /\ Order(key) \in Bijection(1 .. Cardinality(S), S)
           /\ Descends(Order(key), key)
<1> DEFINE size == Cardinality(S)
           rank(i) == Cardinality(Before(key, i))
           f == [i \in S |-> rank(i) + 1]
           order == Order(key)
<1>1. IsFiniteSet(S) /\ size \in Nat /\ S \subseteq Int
  BY PlacesAreFinite
<1>2. ASSUME NEW i \in S
      PROVE  /\ Before(key, i) \in SUBSET S /\ IsFiniteSet(Before(key, i))
             /\ rank(i) \in Nat /\ rank(i) < size
  <2>1. Before(key, i) \in SUBSET S /\ Before(key, i) # S
    <3>1. i \in Int /\ key[i] \in Int
      BY <1>1
    <3>2. i \notin Before(key, i)
      BY <3>1 DEF Before
    <3> QED
      BY <3>2 DEF Before
  <2> QED
    BY <1>1, <2>1, FS_Subset, FS_CardinalityType
<1>3. ASSUME NEW i \in S, NEW j \in S, key[j] > key[i] \/ (key[j] = key[i] /\ j < i)
      PROVE  rank(j) < rank(i)
  <2>1. ASSUME NEW h \in S, h \in Before(key, j) PROVE h \in Before(key, i)
    <3>1. /\ h \in Int /\ i \in Int /\ j \in Int
          /\ key[h] \in Int /\ key[i] \in Int /\ key[j] \in Int
      BY <1>1
    <3>2. key[h] > key[j] \/ (key[h] = key[j] /\ h < j)
      BY <2>1 DEF Before
    <3>3. key[h] > key[i] \/ (key[h] = key[i] /\ h < i)
      BY <1>3, <3>1, <3>2
    <3> QED
      BY <3>3 DEF Before
  <2>2. Before(key, j) \in SUBSET Before(key, i)
    BY <1>2, <2>1
  <2>3. j \in Before(key, i)
    BY <1>3 DEF Before
  <2>4. j \notin Before(key, j)
    <3>1. j \in Int /\ key[j] \in Int
      BY <1>1
    <3> QED
      BY <3>1 DEF Before
  <2> QED
    BY <1>2, <2>2, <2>3, <2>4, FS_Subset
<1>4. ASSUME NEW i \in S, NEW j \in S, i # j
      PROVE  \/ (key[j] > key[i] \/ (key[j] = key[i] /\ j < i))
             \/ (key[i] > key[j] \/ (key[i] = key[j] /\ i < j))
  <2>1. i \in Int /\ j \in Int /\ key[i] \in Int /\ key[j] \in Int
    BY <1>1
  <2> QED
    BY <1>4, <2>1
<1>5. order = [p \in 1 .. size |-> CHOOSE i \in S : rank(i) = p - 1]
  <2>1. Order(key) = [p \in 1 .. Cardinality(DOMAIN key) |->
                         CHOOSE i \in DOMAIN key : Cardinality(Before(key, i)) = p - 1]
    BY DEF Order, Before
  <2>2. DOMAIN key = S
    OBVIOUS
  <2> QED
    BY ONLY <2>1, <2>2, Zenon
<1> HIDE DEF size, rank, order
<1>6. f \in [S -> 1 .. size]
  BY <1>1, <1>2
<1>7. ASSUME NEW i \in S, NEW j \in S, f[i] = f[j] PROVE i = j
  <2>1. rank(i) = rank(j)
    BY <1>2, <1>7
  <2> QED
    BY <1>2, <1>3, <1>4, <2>1
<1>8. \A i \in S : f[i] = rank(i) + 1
  OBVIOUS
<1> HIDE DEF f
<1>9. f \in Injection(S, 1 .. size)
  BY <1>6, <1>7, Fun_IsInj
<1>10. f \in Surjection(S, 1 .. size)
  <2>1. IsFiniteSet(1 .. size) /\ Cardinality(1 .. size) = size
    BY <1>1, FS_Interval
  <2> QED
    BY <1>9, <2>1, FS_Injection DEF size
<1>11. ASSUME NEW p \in 1 .. size PROVE order[p] \in S /\ rank(order[p]) = p - 1
  <2>1. PICK i \in S : f[i] = p
    BY <1>10 DEF Surjection
  <2>2. rank(i) = p - 1
    BY <1>2, <1>8, <2>1
  <2> QED
    BY <1>5, <2>2
<1>12. order \in [1 .. size -> S] /\ DOMAIN order = 1 .. size
  BY <1>5, <1>11
<1>13. \A p, q \in 1 .. size : order[p] = order[q] => p = q
  <2>1. ASSUME NEW p \in 1 .. size, NEW q \in 1 .. size, order[p] = order[q] PROVE p = q
    <3>1. p - 1 = q - 1
      BY <1>11, <2>1
    <3> QED
      BY <1>1, <3>1
  <2> QED
    BY <2>1
<1>14. \A i \in S : \E p \in 1 .. size : order[p] = i
  <2>1. ASSUME NEW i \in S PROVE order[rank(i) + 1] = i
    <3>1. rank(i) + 1 \in 1 .. size /\ (rank(i) + 1) - 1 = rank(i)
      BY <1>1, <1>2
    <3>2. order[rank(i) + 1] \in S /\ rank(order[rank(i) + 1]) = rank(i)
      BY <1>11, <3>1
    <3>3. f[order[rank(i) + 1]] = f[i]
      BY <1>8, <3>2
    <3> QED
      BY <1>7, <3>2, <3>3
  <2>2. ASSUME NEW i \in S PROVE rank(i) + 1 \in 1 .. size
    BY <1>1, <1>2
  <2> QED
    BY <2>1, <2>2
<1>15. order \in Bijection(1 .. size, S)
  BY <1>12, <1>13, <1>14, Fun_IsBij
<1>16. Descends(order, key)
  <2>1. ASSUME NEW p \in 1 .. size, NEW q \in 1 .. size, p < q
        PROVE  \/ key[order[p]] > key[order[q]]
               \/ (key[order[p]] = key[order[q]] /\ order[p] < order[q])
    <3>1. /\ order[p] \in S /\ order[q] \in S
          /\ rank(order[p]) = p - 1 /\ rank(order[q]) = q - 1
      BY <1>11
    <3>2. p \in Nat /\ q \in Nat
      BY <1>1
    <3>3. ~(rank(order[q]) < rank(order[p])) /\ order[p] # order[q]
      BY <2>1, <3>1, <3>2
    <3> QED
      BY <1>3, <1>4, <3>1, <3>3
  <2> QED
    BY <1>12, <2>1 DEF Descends
<1> QED
  BY <1>15, <1>16 DEF size, order

\* What a sorted sequence has at each place, and where each place went.
Arranges(out, s, S, order) ==
    /\ DOMAIN out = 1 .. Len(out) /\ Len(out) \in Nat /\ out = [p \in DOMAIN out |-> out[p]]
    /\ Len(out) = Cardinality(S)
    /\ \A p \in DOMAIN out : order[p] \in S /\ out[p] = s[order[p]]
    /\ \A p, q \in DOMAIN out : order[p] = order[q] => p = q
    /\ \A i \in S : \E p \in DOMAIN out : order[p] = i

\* The same with its keys.
Sorts(out, s, S, order, key) ==
    /\ Arranges(out, s, S, order)
    /\ \A p, q \in DOMAIN out :
          p < q => \/ key[order[p]] > key[order[q]]
                   \/ (key[order[p]] = key[order[q]] /\ order[p] < order[q])

LEMMA SortedFacts ==
    ASSUME NEW n \in Nat, NEW S \in SUBSET (1 .. n), NEW key \in [S -> Int], NEW s
    PROVE  Sorts(Sorted(s, key), s, S, Order(key), key)
<1> DEFINE places == 1 .. Cardinality(S)
           order == Order(key)
           out == [p \in places |-> s[order[p]]]
<1>1. Cardinality(S) \in Nat
  BY PlacesAreFinite
<1>2. order \in Bijection(places, S) /\ Descends(order, key)
  BY OrderFacts
<1>3. /\ DOMAIN order = places
      /\ \A p \in places : order[p] \in S
      /\ \A p, q \in places : order[p] = order[q] => p = q
      /\ \A i \in S : \E p \in places : order[p] = i
  <2> HIDE DEF order, places
  <2> QED
    BY <1>2, BijectionFacts
<1>4. Sorted(s, key) = out
  BY <1>3 DEF Sorted
<1>5. DOMAIN out = 1 .. Len(out) /\ Len(out) = Cardinality(S)
  BY <1>1
<1>6. /\ DOMAIN out = places /\ out = [p \in DOMAIN out |-> out[p]]
      /\ \A p \in places : out[p] = s[order[p]]
  OBVIOUS
<1> HIDE DEF out, order, places
<1>7. Arranges(out, s, S, order)
  BY <1>1, <1>3, <1>5, <1>6 DEF Arranges
<1> QED
  BY <1>2, <1>3, <1>4, <1>6, <1>7 DEF Sorts, Descends, order

\* Some places of a sequence keep their order.
LEMMA KeptFacts ==
    ASSUME NEW n \in Nat, NEW S \in SUBSET (1 .. n), NEW s
    PROVE  \E order : Arranges(Kept(s, S), s, S, order)
<1> DEFINE key == [i \in S |-> 0]
<1>1. key \in [S -> Int] /\ Kept(s, S) = Sorted(s, key)
  BY DEF Kept
<1> HIDE DEF key
<1> QED
  BY <1>1, SortedFacts DEF Sorts

\* What is sorted is of the same kind.
LEMMA PlacesOfSeq ==
    ASSUME NEW T, NEW s \in Seq(T)
    PROVE  Len(s) \in Nat /\ DOMAIN s = 1 .. Len(s) /\ \A i \in DOMAIN s : s[i] \in T
OBVIOUS

LEMMA ArrangedIsSeq ==
    ASSUME NEW T, NEW out, NEW s, NEW S, NEW order, Arranges(out, s, S, order),
           \A i \in S : s[i] \in T
    PROVE  out \in Seq(T)
<1>1. \A p \in 1 .. Len(out) : out[p] \in T
  BY DEF Arranges
<1>2. Len(out) \in Nat /\ out = [p \in 1 .. Len(out) |-> out[p]]
  BY DEF Arranges
<1> QED
  BY <1>1, <1>2

LEMMA ArrangedRange ==
    ASSUME NEW out, NEW s, NEW S, NEW order, Arranges(out, s, S, order)
    PROVE  Range(out) = {s[i] : i \in S}
BY DEF Arranges, Range

-----------------------------------------------------------------------------
(* The answer. *)

LEMMA LesserOfTwo ==
    ASSUME NEW a \in Nat, NEW b \in Nat
    PROVE  /\ Min({a, b}) \in Nat /\ Min({a, b}) <= a /\ Min({a, b}) <= b
           /\ Min({a, b}) = a \/ Min({a, b}) = b
<1>1. \E x \in {a, b} : \A y \in {a, b} : x <= y
  OBVIOUS
<1>2. /\ Min({a, b}) \in {a, b}
      /\ \A y \in {a, b} : Min({a, b}) <= y
  BY <1>1 DEF Min
<1> QED
  BY <1>2

LEMMA AdjustedIsInt ==
    ASSUME NEW h \in Hit
    PROVE  AdjustedScore(h) \in Int
<1> DEFINE x == 7 * h.score + 3 * Age[h.row.id]
<1>1. h.score \in Int /\ h.row.id \in Ids /\ h.row.status \in Statuses
  BY DEF Hit, Row
<1>2. Age[h.row.id] \in Int
  BY <1>1, RankingAssumption
<1>3. x \in Int
  BY <1>1, <1>2
<1>4. Multiplier(h.row.status) \in {10, 9, 5, 3}
  BY <1>1 DEF Statuses, Multiplier
<1> HIDE DEF x
<1>5. x * 10 \in Int /\ x * 9 \in Int /\ x * 5 \in Int /\ x * 3 \in Int
  BY <1>3
<1>6. AdjustedScore(h) = x * Multiplier(h.row.status)
  BY DEF AdjustedScore, x
<1> QED
  BY <1>4, <1>5, <1>6

\* Hits of different records.
Distinct(hits) == \A i, j \in DOMAIN hits : hits[i].row.id = hits[j].row.id => i = j

\* As many hits as places, if their records differ.
LEMMA DistinctPlaces ==
    ASSUME NEW hits \in Seq(Hit), Distinct(hits), NEW S \in SUBSET DOMAIN hits
    PROVE  IsFiniteSet({hits[i] : i \in S}) /\ Cardinality({hits[i] : i \in S}) = Cardinality(S)
<1> DEFINE f == [i \in S |-> hits[i]]
           T == {hits[i] : i \in S}
<1>1. IsFiniteSet(S)
  BY PlacesOfSeq, PlacesAreFinite
<1>2. f \in [S -> T]
  OBVIOUS
<1>3. \A i, j \in S : f[i] = f[j] => i = j
  BY DEF Distinct
<1>4. \A t \in T : \E i \in S : f[i] = t
  OBVIOUS
<1> HIDE DEF f, T
<1>5. f \in Bijection(S, T)
  BY <1>2, <1>3, <1>4, Fun_IsBij
<1>6. ExistsBijection(S, T)
  BY <1>5 DEF ExistsBijection
<1> QED
  BY <1>1, <1>6, FS_Bijection DEF T

LEMMA RankedFacts ==
    ASSUME NEW hits \in Seq(Hit), Distinct(hits), NEW k \in Nat
    PROVE  /\ Ranked(hits, k) \in Seq(Hit)
           /\ Distinct(Ranked(hits, k))
           /\ IsBest(hits, k, Ranked(hits, k))
<1> DEFINE n == Len(hits)
           S == {i \in DOMAIN hits : Passes(hits[i])}
           m == Cardinality(S)
           key == [i \in S |-> AdjustedScore(hits[i])]
           order == Order(key)
           c == Min({k, m})
           sorted == Sorted(hits, key)
           out == Ranked(hits, k)
           wanted == {h \in Range(hits) : Passes(h)}
<1>1. n \in Nat /\ S \in SUBSET (1 .. n) /\ \A i \in S : hits[i] \in Hit
  BY PlacesOfSeq
<1>2. key \in [S -> Int]
  <2>1. \A i \in S : AdjustedScore(hits[i]) \in Int
    BY <1>1, AdjustedIsInt
  <2> QED
    BY <2>1
<1>3. \A i \in S : key[i] = AdjustedScore(hits[i])
  OBVIOUS
<1>4. out = SubSeq(Sorted(hits, key), 1, Min({k, Len(Sorted(hits, key))}))
  BY DEF Ranked
<1>5. wanted = {hits[i] : i \in S}
  BY DEF Range
<1>6. Cardinality(wanted) = m
  BY <1>5, DistinctPlaces
<1> HIDE DEF key, S, n
<1>7. m \in Nat
  BY <1>1, PlacesAreFinite
<1>8. /\ DOMAIN sorted = 1 .. m /\ Len(sorted) = m
      /\ \A p \in 1 .. m : order[p] \in S /\ sorted[p] = hits[order[p]]
      /\ \A p, q \in 1 .. m : order[p] = order[q] => p = q
      /\ \A i \in S : \E p \in 1 .. m : order[p] = i
      /\ \A p, q \in 1 .. m : p < q => \/ key[order[p]] > key[order[q]]
                                       \/ key[order[p]] = key[order[q]]
  <2>1. Sorts(sorted, hits, S, order, key)
    BY <1>1, <1>2, SortedFacts
  <2> HIDE DEF sorted, order
  <2>2. DOMAIN sorted = 1 .. m /\ Len(sorted) = m
    BY <2>1 DEF Sorts, Arranges
  <2> HIDE DEF m
  <2> QED
    BY <2>1, <2>2 DEF Sorts, Arranges
<1>9. out = SubSeq(sorted, 1, c)
  BY <1>4, <1>8
<1> HIDE DEF m, out, wanted, sorted, order
<1>10. c \in Nat /\ c <= m
  BY <1>7, LesserOfTwo
<1> HIDE DEF c
<1>11. /\ DOMAIN out = 1 .. c /\ Len(out) = c /\ out = [p \in 1 .. c |-> out[p]]
       /\ \A p \in 1 .. c : p \in 1 .. m /\ out[p] = hits[order[p]]
  <2>1. SubSeq(sorted, 1, c) = [p \in 1 .. c |-> sorted[p]]
    BY <1>10
  <2> QED
    BY <1>7, <1>8, <1>9, <1>10, <2>1
<1>13. \A p \in 1 .. c : out[p] \in Hit
  BY <1>1, <1>8, <1>11
<1>14. out \in Seq(Hit)
  BY <1>10, <1>11, <1>13
<1>15. Distinct(out)
  <2>1. S \subseteq DOMAIN hits
    BY DEF S
  <2>2. ASSUME NEW p \in 1 .. c, NEW q \in 1 .. c, out[p].row.id = out[q].row.id PROVE p = q
    <3>1. order[p] = order[q]
      BY <1>8, <1>11, <2>1, <2>2 DEF Distinct
    <3> QED
      BY <1>8, <1>11, <3>1
  <2> QED
    BY <1>11, <2>2 DEF Distinct
<1>16. Range(out) \subseteq wanted
  BY <1>5, <1>8, <1>11 DEF Range
<1>17. ASSUME NEW p \in 1 .. m, NEW q \in 1 .. m, p < q
       PROVE  AdjustedScore(hits[order[p]]) >= AdjustedScore(hits[order[q]])
  <2>1. key[order[p]] \in Int /\ key[order[q]] \in Int
    BY <1>2, <1>8
  <2>2. key[order[p]] >= key[order[q]]
    BY <1>8, <1>17, <2>1
  <2> QED
    BY <1>3, <1>8, <2>2
<1>18. \A i, j \in DOMAIN out : i < j => AdjustedScore(out[i]) >= AdjustedScore(out[j])
  BY <1>11, <1>17
<1>19. ASSUME NEW h \in wanted \ Range(out), NEW i \in DOMAIN out
       PROVE  AdjustedScore(out[i]) >= AdjustedScore(h)
  <2>1. PICK q \in 1 .. m : h = hits[order[q]]
    BY <1>5, <1>8
  <2>2. ~(q \in 1 .. c)
    BY <1>11, <2>1 DEF Range
  <2>3. i \in 1 .. m /\ i < q
    BY <1>7, <1>10, <1>11, <2>2
  <2> QED
    BY <1>11, <1>17, <2>1, <2>3
<1>20. IsBest(hits, k, out)
  BY <1>6, <1>11, <1>16, <1>18, <1>19 DEF IsBest, wanted, c
<1> QED
  BY <1>14, <1>15, <1>20 DEF out

-----------------------------------------------------------------------------
(* Merging and grouping. *)

\* Hits that are arranged stay what they are and different.
LEMMA ArrangedHits ==
    ASSUME NEW hits \in Seq(Hit), NEW out, NEW S \in SUBSET DOMAIN hits, NEW order,
           Arranges(out, hits, S, order)
    PROVE  /\ out \in Seq(Hit)
           /\ Range(out) \subseteq Range(hits)
           /\ Distinct(hits) => Distinct(out)
<1>1. \A i \in S : hits[i] \in Hit /\ hits[i] \in Range(hits) /\ i \in DOMAIN hits
  BY PlacesOfSeq DEF Range
<1>2. out \in Seq(Hit)
  BY <1>1, ArrangedIsSeq
<1>3. Range(out) \subseteq Range(hits)
  BY <1>1, ArrangedRange
<1>4. ASSUME Distinct(hits) PROVE Distinct(out)
  <2>1. ASSUME NEW p \in DOMAIN out, NEW q \in DOMAIN out, out[p].row.id = out[q].row.id
        PROVE  p = q
    <3>1. order[p] \in DOMAIN hits /\ order[q] \in DOMAIN hits
      BY <1>1 DEF Arranges
    <3>2. hits[order[p]].row.id = hits[order[q]].row.id
      BY <2>1 DEF Arranges
    <3>3. order[p] = order[q]
      BY <1>4, <3>1, <3>2 DEF Distinct
    <3> QED
      BY <3>3 DEF Arranges
  <2> QED
    BY <2>1 DEF Distinct
<1> QED
  BY <1>2, <1>3, <1>4

LEMMA ByScoreFacts ==
    ASSUME NEW hits \in Seq(Hit), Distinct(hits)
    PROVE  /\ ByScore(hits) \in Seq(Hit) /\ Distinct(ByScore(hits))
           /\ Range(ByScore(hits)) \subseteq Range(hits)
<1> DEFINE n == Len(hits)
           S == DOMAIN hits
           key == [i \in S |-> hits[i].score]
<1>1. n \in Nat /\ S \in SUBSET (1 .. n)
  BY PlacesOfSeq
<1>2. key \in [S -> Int]
  <2>1. \A i \in S : hits[i] \in Hit
    BY PlacesOfSeq
  <2>2. \A i \in S : hits[i].score \in Int
    BY <2>1 DEF Hit
  <2> HIDE DEF S
  <2> QED
    BY <2>2
<1>3. ByScore(hits) = Sorted(hits, key)
  BY DEF ByScore
<1>4. Arranges(ByScore(hits), hits, S, Order(key))
  <2> HIDE DEF key, S, n
  <2> QED
    BY <1>1, <1>2, <1>3, SortedFacts DEF Sorts
<1> QED
  BY <1>4, ArrangedHits

LEMMA KeptHits ==
    ASSUME NEW hits \in Seq(Hit), NEW S \in SUBSET DOMAIN hits
    PROVE  \E order : Arranges(Kept(hits, S), hits, S, order)
BY PlacesOfSeq, KeptFacts

LEMMA MembersFacts ==
    ASSUME NEW hits \in Seq(Hit), NEW g
    PROVE  Members(hits, g) \in Seq(Hit) /\ Range(Members(hits, g)) \subseteq Range(hits)
<1> DEFINE S == PlacesOf(hits, g)
<1>1. S \in SUBSET DOMAIN hits
  BY DEF PlacesOf
<1>2. PICK order : Arranges(Kept(hits, S), hits, S, order)
  BY <1>1, KeptHits
<1> QED
  BY <1>1, <1>2, ArrangedHits DEF Members

\* A group that was found has a member.
LEMMA GroupHasMember ==
    ASSUME NEW hits \in Seq(Hit), NEW g \in GroupsOf(hits)
    PROVE  /\ g \in Groups
           /\ PlacesOf(hits, g) # {}
           /\ Head(Members(hits, g)) \in Hit
<1> DEFINE S == PlacesOf(hits, g)
           members == Members(hits, g)
<1>1. PICK i \in DOMAIN hits : hits[i].row.group = g
  BY DEF GroupsOf, Range
<1>2. g \in Groups
  <2>1. hits[i] \in Hit /\ g # NoGroup
    BY PlacesOfSeq DEF GroupsOf
  <2> QED
    BY <1>1, <2>1 DEF Hit, Row
<1>3. S \in SUBSET DOMAIN hits /\ i \in S
  BY <1>1 DEF PlacesOf
<1>4. PICK order : Arranges(members, hits, S, order)
  BY <1>3, KeptHits DEF Members
<1>5. members \in Seq(Hit)
  BY MembersFacts
<1> HIDE DEF S, members
<1>6. members # <<>>
  <2>1. PICK p \in DOMAIN members : order[p] = i
    BY <1>3, <1>4 DEF Arranges
  <2> QED
    BY <2>1
<1>7. Head(members) \in Hit
  BY <1>5, <1>6
<1> QED
  BY <1>2, <1>3, <1>7 DEF S, members

LEMMA GroupsAreFinite ==
    ASSUME NEW hits \in Seq(Hit)
    PROVE  IsFiniteSet(GroupsOf(hits))
<1> DEFINE S == DOMAIN hits
           T == {h.row.group : h \in Range(hits)}
           f == [i \in S |-> hits[i].row.group]
<1>1. IsFiniteSet(S)
  BY PlacesOfSeq, PlacesAreFinite
<1>2. f \in [S -> T] /\ \A t \in T : \E i \in S : f[i] = t
  BY DEF Range
<1>3. GroupsOf(hits) \in SUBSET T
  BY DEF GroupsOf
<1> HIDE DEF S, T, f
<1>4. f \in Surjection(S, T)
  BY <1>2, Fun_IsSurj
<1>5. IsFiniteSet(T)
  BY <1>1, <1>4, FS_Surjection
<1> QED
  BY <1>3, <1>5, FS_Subset

\* An order of groups names each of them once.
LEMMA GroupOrderFacts ==
    ASSUME NEW hits \in Seq(Hit), NEW groups \in SUBSET GroupsOf(hits),
           NEW order \in GroupOrders(hits, groups)
    PROVE  /\ order \in Seq(groups) /\ Len(order) \in Nat /\ DOMAIN order = 1 .. Len(order)
           /\ \A x, y \in DOMAIN order : order[x] = order[y] => x = y
           /\ \A g \in groups : \E x \in DOMAIN order : order[x] = g
           /\ \A x, y \in DOMAIN order : x < y => Best(hits, order[x]) >= Best(hits, order[y])
<1> DEFINE n == Cardinality(groups)
           places == 1 .. n
<1>1. IsFiniteSet(groups) /\ n \in Nat
  BY GroupsAreFinite, FS_Subset, FS_CardinalityType
<1>2. /\ order \in [places -> groups]
      /\ \A x, y \in places : x # y => order[x] # order[y]
      /\ \A x, y \in DOMAIN order : x < y => Best(hits, order[x]) >= Best(hits, order[y])
  BY DEF GroupOrders, SetToSeqs
<1>3. order \in Seq(groups) /\ Len(order) = n
  BY <1>1, <1>2
<1>4. IsFiniteSet(places) /\ Cardinality(places) = n
  BY <1>1, FS_Interval
<1>5. \A x, y \in places : order[x] = order[y] => x = y
  BY <1>2
<1>6. DOMAIN order = places
  BY <1>2
<1>7. DOMAIN order = 1 .. Len(order)
  BY <1>3, <1>6
<1> HIDE DEF places, n
<1>8. order \in Injection(places, groups)
  BY <1>2, <1>5, Fun_IsInj
<1>9. order \in Surjection(places, groups)
  BY <1>1, <1>4, <1>8, FS_Injection DEF n
<1>10. \A g \in groups : \E x \in places : order[x] = g
  BY <1>9 DEF Surjection
<1> QED
  BY <1>1, <1>2, <1>3, <1>5, <1>6, <1>7, <1>10

\* Of the hits of one more search those are added that are of other records than every
\* hit before them.
LEMMA MergedFacts ==
    ASSUME NEW hits \in Seq(Hit), Distinct(hits), NEW more \in Seq(Hit)
    PROVE  /\ Merged(hits, more) \in Seq(Hit) /\ Distinct(Merged(hits, more))
           /\ Range(Merged(hits, more)) \subseteq Range(hits) \union Range(more)
<1> DEFINE S == {i \in DOMAIN more :
                    /\ \A h \in Range(hits) : h.row.id # more[i].row.id
                    /\ \A j \in 1 .. i - 1 : more[j].row.id # more[i].row.id}
           new == Kept(more, S)
           out == hits \o new
           n == Len(hits)
<1>1. S \in SUBSET DOMAIN more /\ Merged(hits, more) = out
  BY DEF Merged
<1>2. PICK order : Arranges(new, more, S, order)
  BY <1>1, KeptHits
<1>3. /\ \A i \in S : \A h \in Range(hits) : h.row.id # more[i].row.id
      /\ \A i, j \in S : i < j => more[i].row.id # more[j].row.id
  BY PlacesOfSeq
<1>4. S \in SUBSET Int
  BY PlacesOfSeq
<1> HIDE DEF S, new
<1>5. new \in Seq(Hit) /\ Range(new) \subseteq Range(more)
  BY <1>1, <1>2, ArrangedHits
<1>6. n \in Nat /\ Len(new) \in Nat /\ DOMAIN hits = 1 .. n /\ DOMAIN new = 1 .. Len(new)
  BY <1>5, PlacesOfSeq
<1>7. /\ out \in Seq(Hit) /\ Len(out) = n + Len(new) /\ DOMAIN out = 1 .. n + Len(new)
      /\ \A p \in 1 .. n + Len(new) : out[p] = IF p <= n THEN hits[p] ELSE new[p - n]
  BY <1>5, <1>6
<1> HIDE DEF out, n
<1>8. \A p \in DOMAIN new : order[p] \in S /\ new[p] = more[order[p]]
  BY <1>2 DEF Arranges
<1>9. ASSUME NEW p \in DOMAIN out
      PROVE  \/ p \in DOMAIN hits /\ out[p] = hits[p]
             \/ p - n \in DOMAIN new /\ ~(p <= n) /\ out[p] = new[p - n]
  BY <1>6, <1>7
<1>10. \A p \in DOMAIN new : \A h \in Range(hits) : h.row.id # new[p].row.id
  BY <1>3, <1>8
<1>11. ASSUME NEW p \in DOMAIN new, NEW q \in DOMAIN new, new[p].row.id = new[q].row.id
       PROVE  p = q
  <2>1. order[p] \in Int /\ order[q] \in Int
    BY <1>4, <1>8
  <2>2. ~(order[p] < order[q]) /\ ~(order[q] < order[p])
    BY <1>3, <1>8, <1>11
  <2>3. order[p] = order[q]
    BY <2>1, <2>2
  <2> QED
    BY <1>2, <2>3 DEF Arranges
<1>12. ASSUME NEW p \in DOMAIN out, NEW q \in DOMAIN out, out[p].row.id = out[q].row.id
       PROVE  p = q
  <2>1. CASE p \in DOMAIN hits /\ out[p] = hits[p] /\ q \in DOMAIN hits /\ out[q] = hits[q]
    BY <1>12, <2>1 DEF Distinct
  <2>2. CASE /\ p - n \in DOMAIN new /\ out[p] = new[p - n]
             /\ q - n \in DOMAIN new /\ out[q] = new[q - n]
    <3>1. p - n = q - n
      BY <1>11, <1>12, <2>2
    <3>2. p \in Int /\ q \in Int
      BY <1>6, <1>7
    <3> QED
      BY <1>6, <3>1, <3>2
  <2>3. \A r \in DOMAIN hits : hits[r] \in Range(hits)
    BY DEF Range
  <2> QED
    BY <1>9, <1>10, <1>12, <2>1, <2>2, <2>3
<1>13. Range(out) \subseteq Range(hits) \union Range(more)
  <2>1. \A r \in DOMAIN hits : hits[r] \in Range(hits)
    BY DEF Range
  <2>2. \A r \in DOMAIN new : new[r] \in Range(more)
    BY <1>5 DEF Range
  <2> QED
    BY <1>9, <2>1, <2>2 DEF Range
<1> QED
  BY <1>1, <1>7, <1>12, <1>13 DEF Distinct

-----------------------------------------------------------------------------
(* The merge loop. *)

LEMMA BestFacts ==
    ASSUME NEW hits \in Seq(Hit), NEW g
    PROVE  Best(hits, g) \in Int /\ Best(hits, g) >= 0
<1> DEFINE S == PlacesOf(hits, g)
           scores == {0} \union {hits[i].score : i \in S}
           key == [i \in S |-> hits[i].score]
           sorted == Sorted(hits, key)
           n == Len(hits)
<1>1. n \in Nat /\ S \in SUBSET (1 .. n) /\ \A i \in S : hits[i].score \in Int
  <2>1. n \in Nat /\ S \in SUBSET (1 .. n) /\ \A i \in S : hits[i] \in Hit
    BY PlacesOfSeq DEF PlacesOf
  <2> HIDE DEF S, n
  <2> QED
    BY <2>1 DEF Hit
<1>2. scores \subseteq Int /\ 0 \in scores
  BY <1>1
<1>3. \E x \in scores : \A y \in scores : x >= y
  <2>1. CASE S = {}
    BY <2>1
  <2>2. CASE S # {}
    <3>1. key \in [S -> Int]
      BY <1>1
    <3> HIDE DEF S, n, scores
    <3>2. Sorts(sorted, hits, S, Order(key), key)
      <4> HIDE DEF key
      <4> QED
        BY <1>1, <3>1, SortedFacts
    <3> HIDE DEF sorted
    <3> DEFINE order == Order(key)
    <3> HIDE DEF order
    <3>3. /\ DOMAIN sorted = 1 .. Len(sorted) /\ Len(sorted) \in Nat
          /\ \A p \in DOMAIN sorted : order[p] \in S
          /\ \A i \in S : \E p \in DOMAIN sorted : order[p] = i
          /\ \A p, q \in DOMAIN sorted :
                p < q => key[order[p]] > key[order[q]] \/ key[order[p]] = key[order[q]]
      BY <3>2 DEF Sorts, Arranges, order
    <3>4. 1 \in DOMAIN sorted
      BY <2>2, <3>3
    <3> DEFINE m == order[1]
    <3>5. m \in S /\ \A p \in DOMAIN sorted : p = 1 \/ 1 < p
      BY <3>3, <3>4
    <3>6. \A i \in S : hits[m].score >= hits[i].score
      <4>1. ASSUME NEW i \in S PROVE key[m] >= key[i]
        <5>1. PICK p \in DOMAIN sorted : order[p] = i
          BY <3>3
        <5>2. key[m] \in Int /\ key[i] \in Int
          BY <3>1, <3>5
        <5>3. CASE p = 1
          BY <5>1, <5>2, <5>3
        <5>4. CASE 1 < p
          <6>1. key[order[1]] > key[order[p]] \/ key[order[1]] = key[order[p]]
            BY <3>3, <3>4, <5>4
          <6> QED
            BY <5>1, <5>2, <6>1
        <5> QED
          BY <3>5, <5>3, <5>4
      <4>2. \A i \in S : key[i] = hits[i].score
        OBVIOUS
      <4> QED
        BY <3>5, <4>1, <4>2
    <3> HIDE DEF m
    <3>7. hits[m].score \in Int /\ hits[m].score \in scores
      BY <1>1, <3>5 DEF scores
    <3>8. CASE hits[m].score >= 0
      BY <1>1, <3>6, <3>7, <3>8 DEF scores
    <3>9. CASE ~(hits[m].score >= 0)
      <4>1. \A i \in S : 0 >= hits[i].score
        BY <1>1, <3>6, <3>7, <3>9
      <4> QED
        BY <1>2, <4>1 DEF scores
    <3> QED
      BY <3>8, <3>9
  <2> QED
    BY <2>1, <2>2
<1>4. Best(hits, g) = CHOOSE x \in scores : \A y \in scores : x >= y
  BY DEF Best, Max
<1> HIDE DEF scores
<1>5. Best(hits, g) \in scores /\ \A y \in scores : Best(hits, g) >= y
  BY <1>3, <1>4
<1> QED
  BY <1>2, <1>5

\* What IsAssembly says of the order of hits.
Ordered(hits, out) ==
    \A i, j \in DOMAIN out :
        i < j =>
           /\ Standing(hits, out[i]) >= Standing(hits, out[j])
           /\ out[i].row.group = out[j].row.group /\ out[i].row.group # NoGroup =>
                 /\ out[i].row.seq <= out[j].row.seq
                 /\ \A k \in i .. j : out[k].row.group = out[i].row.group

\* Nothing of the second part stands higher or belongs to a group of the first.
LEMMA OrderedConcat ==
    ASSUME NEW hits, NEW a \in Seq(Hit), NEW b \in Seq(Hit), Ordered(hits, a), Ordered(hits, b),
           \A x \in Range(a), y \in Range(b) :
              /\ Standing(hits, x) >= Standing(hits, y)
              /\ x.row.group = NoGroup \/ x.row.group # y.row.group
    PROVE  Ordered(hits, a \o b)
<1> DEFINE out == a \o b
           m == Len(a)
           n == Len(b)
<1>1. /\ m \in Nat /\ n \in Nat /\ DOMAIN a = 1 .. m /\ DOMAIN b = 1 .. n
      /\ DOMAIN out = 1 .. m + n
      /\ \A i \in 1 .. m : out[i] = a[i]
      /\ \A i \in 1 .. m + n : ~(i <= m) => i - m \in 1 .. n /\ out[i] = b[i - m]
  OBVIOUS
<1> HIDE DEF out, m, n
<1>2. /\ \A i \in 1 .. m : a[i] \in Range(a)
      /\ \A i \in 1 .. n : b[i] \in Range(b)
  BY <1>1 DEF Range
<1> SUFFICES ASSUME NEW i \in 1 .. m + n, NEW j \in 1 .. m + n, i < j
             PROVE  /\ Standing(hits, out[i]) >= Standing(hits, out[j])
                    /\ out[i].row.group = out[j].row.group /\ out[i].row.group # NoGroup =>
                          /\ out[i].row.seq <= out[j].row.seq
                          /\ \A k \in i .. j : out[k].row.group = out[i].row.group
  BY <1>1 DEF Ordered, out
<1>3. i \in Int /\ j \in Int
  BY <1>1
<1>4. CASE j <= m
  <2>1. i \in 1 .. m /\ j \in 1 .. m /\ \A k \in i .. j : k \in 1 .. m
    BY <1>1, <1>3, <1>4
  <2>2. out[i] = a[i] /\ out[j] = a[j] /\ \A k \in i .. j : out[k] = a[k]
    BY <1>1, <2>1
  <2> QED
    BY <1>1, <2>1, <2>2 DEF Ordered
<1>5. CASE i <= m /\ ~(j <= m)
  <2>1. out[i] \in Range(a) /\ out[j] \in Range(b)
    <3>1. i \in 1 .. m
      BY <1>1, <1>3, <1>5
    <3>2. j - m \in 1 .. n /\ out[j] = b[j - m]
      BY <1>1, <1>5
    <3> QED
      BY <1>1, <1>2, <3>1, <3>2
  <2> QED
    BY <2>1
<1>6. CASE ~(i <= m)
  <2>1. ~(j <= m) /\ \A k \in i .. j : k \in 1 .. m + n /\ ~(k <= m)
    BY <1>1, <1>3, <1>6
  <2>2. /\ i - m \in 1 .. n /\ out[i] = b[i - m]
        /\ j - m \in 1 .. n /\ out[j] = b[j - m] /\ i - m < j - m
    BY <1>1, <1>3, <1>6, <2>1
  <2>3. \A k \in i .. j : k - m \in (i - m) .. (j - m) /\ out[k] = b[k - m]
    BY <1>1, <1>3, <2>1
  <2>4. /\ Standing(hits, b[i - m]) >= Standing(hits, b[j - m])
        /\ b[i - m].row.group = b[j - m].row.group /\ b[i - m].row.group # NoGroup =>
              /\ b[i - m].row.seq <= b[j - m].row.seq
              /\ \A k \in (i - m) .. (j - m) : b[k].row.group = b[i - m].row.group
    BY <1>1, <2>2 DEF Ordered
  <2> QED
    BY <2>2, <2>3, <2>4
<1> QED
  BY <1>3, <1>4, <1>5, <1>6

\* Standalone hits, where they are in hits.
StandPlaces(hits) == Order([i \in PlacesOf(hits, NoGroup) |-> hits[i].score])

LEMMA StandaloneFacts ==
    ASSUME NEW hits \in Seq(Hit)
    PROVE  /\ Standalone(hits) \in Seq(Hit)
           /\ Arranges(Standalone(hits), hits, PlacesOf(hits, NoGroup), StandPlaces(hits))
           /\ \A x, y \in DOMAIN Standalone(hits) :
                 x < y => Standalone(hits)[x].score >= Standalone(hits)[y].score
<1> DEFINE S == PlacesOf(hits, NoGroup)
           key == [i \in S |-> hits[i].score]
           order == Order(key)
           out == Standalone(hits)
           n == Len(hits)
<1>1. n \in Nat /\ S \in SUBSET (1 .. n) /\ S \in SUBSET DOMAIN hits
  BY PlacesOfSeq DEF PlacesOf
<1>2. \A i \in S : hits[i].score \in Int
  <2>1. \A i \in S : hits[i] \in Hit
    BY <1>1, PlacesOfSeq
  <2> HIDE DEF S
  <2> QED
    BY <2>1 DEF Hit
<1>3. key \in [S -> Int] /\ out = Sorted(hits, key) /\ \A i \in S : key[i] = hits[i].score
  BY <1>2 DEF Standalone
<1>4. order = StandPlaces(hits)
  BY DEF StandPlaces
<1> HIDE DEF S, key, n
<1>5. Sorts(out, hits, S, order, key)
  BY <1>1, <1>3, SortedFacts
<1>6. Arranges(out, hits, S, order)
  BY <1>5 DEF Sorts
<1>7. out \in Seq(Hit)
  BY <1>1, <1>6, ArrangedHits
<1>8. ASSUME NEW x \in DOMAIN out, NEW y \in DOMAIN out, x < y
      PROVE  out[x].score >= out[y].score
  <2>1. /\ order[x] \in S /\ out[x] = hits[order[x]]
        /\ order[y] \in S /\ out[y] = hits[order[y]]
    BY <1>6 DEF Arranges
  <2>2. key[order[x]] > key[order[y]] \/ key[order[x]] = key[order[y]]
    BY <1>5, <1>8 DEF Sorts
  <2> QED
    BY <1>2, <1>3, <2>1, <2>2
<1> QED
  BY <1>4, <1>6, <1>7, <1>8 DEF S

\* What the merge loop is called with.  A score of -1.0 would count as the end of a list.
Mergeable(hits, groups, alone) ==
    /\ hits \in Seq(Hit)
    /\ \A i \in DOMAIN hits : hits[i].score > 0 - Scale
    /\ groups \in GroupOrders(hits, GroupsOf(hits))
    /\ alone = Standalone(hits)

LEMMA ListsFacts ==
    ASSUME NEW hits, NEW groups, NEW alone, Mergeable(hits, groups, alone)
    PROVE  /\ Len(groups) \in Nat /\ DOMAIN groups = 1 .. Len(groups)
           /\ Len(alone) \in Nat /\ DOMAIN alone = 1 .. Len(alone)
           /\ \A gi \in 1 .. Len(groups) + 1 : GroupScore(hits, groups, gi) \in Int
           /\ \A gi \in 1 .. Len(groups) : GroupScore(hits, groups, gi) >= 0
           /\ \A si \in 1 .. Len(alone) + 1 : StandScore(alone, si) \in Int
           /\ \A si \in 1 .. Len(alone) : StandScore(alone, si) > 0 - Scale
<1> USE DEF Mergeable
<1>1. Len(groups) \in Nat /\ DOMAIN groups = 1 .. Len(groups)
  BY GroupOrderFacts
<1>2. alone \in Seq(Hit) /\ Len(alone) \in Nat /\ DOMAIN alone = 1 .. Len(alone)
  BY StandaloneFacts, PlacesOfSeq
<1>3. Scale \in Nat \ {0}
  BY RankingAssumption
<1>4. \A x : Best(hits, x) \in Int /\ Best(hits, x) >= 0
  BY BestFacts
<1>5. \A si \in 1 .. Len(alone) : alone[si].score \in Int /\ alone[si].score > 0 - Scale
  <2> DEFINE order == StandPlaces(hits)
  <2>1. ASSUME NEW si \in 1 .. Len(alone)
        PROVE  alone[si] \in Hit /\ order[si] \in DOMAIN hits /\ alone[si] = hits[order[si]]
    <3>1. Arranges(alone, hits, PlacesOf(hits, NoGroup), order)
      BY StandaloneFacts
    <3> HIDE DEF order
    <3>2. order[si] \in PlacesOf(hits, NoGroup) /\ alone[si] = hits[order[si]]
      BY <3>1 DEF Arranges
    <3> QED
      BY <1>2, <3>2 DEF PlacesOf
  <2> HIDE DEF order
  <2> QED
    BY <2>1 DEF Hit
<1>6. ASSUME NEW gi \in 1 .. Len(groups) + 1 PROVE GroupScore(hits, groups, gi) \in Int
  BY <1>3, <1>4 DEF GroupScore
<1>7. ASSUME NEW gi \in 1 .. Len(groups) PROVE GroupScore(hits, groups, gi) >= 0
  BY <1>1, <1>4 DEF GroupScore
<1>8. ASSUME NEW si \in 1 .. Len(alone) + 1 PROVE StandScore(alone, si) \in Int
  <2>1. si > Len(alone) \/ si \in 1 .. Len(alone)
    BY <1>2
  <2> QED
    BY <1>3, <1>5, <2>1 DEF StandScore
<1>9. ASSUME NEW si \in 1 .. Len(alone) PROVE StandScore(alone, si) > 0 - Scale
  BY <1>2, <1>5 DEF StandScore
<1> QED
  BY <1>1, <1>2, <1>6, <1>7, <1>8, <1>9

\* A turn takes from a list that is not exhausted.
LEMMA TurnInBounds ==
    ASSUME NEW hits, NEW groups, NEW alone, Mergeable(hits, groups, alone),
           NEW gi \in 1 .. Len(groups) + 1, NEW si \in 1 .. Len(alone) + 1,
           ~(gi > Len(groups) /\ si > Len(alone))
    PROVE  IF GroupScore(hits, groups, gi) >= StandScore(alone, si)
           THEN gi \in 1 .. Len(groups) ELSE si \in 1 .. Len(alone)
<1> DEFINE g == GroupScore(hits, groups, gi)
           s == StandScore(alone, si)
<1>1. /\ Len(groups) \in Nat /\ Len(alone) \in Nat /\ g \in Int /\ s \in Int
      /\ gi \in 1 .. Len(groups) => g >= 0
      /\ si \in 1 .. Len(alone) => s > 0 - Scale
  BY ListsFacts
<1>2. /\ ~(gi \in 1 .. Len(groups)) => g = 0 - Scale
      /\ ~(si \in 1 .. Len(alone)) => s = 0 - Scale
  BY <1>1 DEF GroupScore, StandScore
<1>3. Scale \in Nat \ {0}
  BY RankingAssumption
<1>4. gi \in 1 .. Len(groups) \/ si \in 1 .. Len(alone)
  BY <1>1
<1> HIDE DEF g, s
<1> QED
  BY <1>1, <1>2, <1>3, <1>4 DEF g, s

LoopFrom(hits, groups, alone, gi, si, rest) ==
    IF gi > Len(groups) /\ si > Len(alone) THEN <<>>
    ELSE Turn(hits, groups, alone, <<gi, si>>, rest)

\* Every turn is what the loop makes of the turns after it.
Loops(hits, groups, alone, f) ==
    f = [at \in (1 .. Len(groups) + 1) \X (1 .. Len(alone) + 1) |->
            LoopFrom(hits, groups, alone, at[1], at[2], f)]

LEMMA InterleavedIs ==
    ASSUME NEW hits, NEW groups, NEW alone
    PROVE  LET rest == CHOOSE f : Loops(hits, groups, alone, f)
           IN  Interleaved(hits, groups, alone) = rest[<<1, 1>>]
BY DEF Interleaved, Loops, LoopFrom, Turn

LEMMA TurnUses ==
    ASSUME NEW hits, NEW groups, NEW alone, NEW gi, NEW si, NEW f, NEW h,
           IF GroupScore(hits, groups, gi) >= StandScore(alone, si)
           THEN f[<<gi + 1, si>>] = h[<<gi + 1, si>>]
           ELSE f[<<gi, si + 1>>] = h[<<gi, si + 1>>]
    PROVE  LoopFrom(hits, groups, alone, gi, si, f) = LoopFrom(hits, groups, alone, gi, si, h)
BY DEF LoopFrom, Turn

\* The loop ends, by induction on the turns that are left.
LEMMA LoopEnds ==
    ASSUME NEW hits, NEW groups, NEW alone, Mergeable(hits, groups, alone)
    PROVE  \E f : Loops(hits, groups, alone, f)
<1> DEFINE G == Len(groups)
           A == Len(alone)
           D == (1 .. G + 1) \X (1 .. A + 1)
           left(gi, si) == (G + 1 - gi) + (A + 1 - si)
           loop(gi, si, f) == LoopFrom(hits, groups, alone, gi, si, f)
           fits(f, n) == /\ f = [at \in D |-> f[at]]
                         /\ \A gi \in 1 .. G + 1, si \in 1 .. A + 1 :
                               left(gi, si) <= n => f[<<gi, si>>] = loop(gi, si, f)
           T == {n \in Nat : \E f : fits(f, n)}
<1>1. G \in Nat /\ A \in Nat
  BY ListsFacts
<1>2. 0 \in T
  <2> DEFINE f == [at \in D |-> <<>>]
  <2>1. f = [at \in D |-> f[at]]
    OBVIOUS
  <2>2. ASSUME NEW gi \in 1 .. G + 1, NEW si \in 1 .. A + 1, left(gi, si) <= 0
        PROVE  f[<<gi, si>>] = loop(gi, si, f)
    <3>1. gi > G /\ si > A
      BY <1>1, <2>2
    <3>2. f[<<gi, si>>] = <<>>
      OBVIOUS
    <3> QED
      BY <3>1, <3>2 DEF LoopFrom
  <2> HIDE DEF f
  <2>3. fits(f, 0)
    BY <2>1, <2>2
  <2> HIDE DEF fits
  <2> QED
    BY <2>3
<1>3. ASSUME NEW n \in Nat, n \in T PROVE n + 1 \in T
  <2>1. PICK f : fits(f, n)
    BY <1>3
  <2> DEFINE h == [at \in D |-> IF left(at[1], at[2]) <= n THEN f[at] ELSE loop(at[1], at[2], f)]
  <2>2. h = [at \in D |-> h[at]]
    OBVIOUS
  <2>3. ASSUME NEW gi \in 1 .. G + 1, NEW si \in 1 .. A + 1
        PROVE  h[<<gi, si>>] = IF left(gi, si) <= n THEN f[<<gi, si>>] ELSE loop(gi, si, f)
    OBVIOUS
  <2> HIDE DEF h, loop
  <2>4. ASSUME NEW gi \in 1 .. G + 1, NEW si \in 1 .. A + 1, left(gi, si) <= n + 1
        PROVE  h[<<gi, si>>] = loop(gi, si, h)
    <3>1. h[<<gi, si>>] = loop(gi, si, f)
      <4>1. left(gi, si) <= n => f[<<gi, si>>] = loop(gi, si, f)
        BY <2>1
      <4> QED
        BY <2>3, <4>1
    <3>2. CASE gi > G /\ si > A
      BY <3>1, <3>2 DEF loop, LoopFrom
    <3>3. CASE ~(gi > G /\ si > A)
      <4>1. IF GroupScore(hits, groups, gi) >= StandScore(alone, si)
            THEN gi \in 1 .. G ELSE si \in 1 .. A
        BY <3>3, TurnInBounds
      <4>2. gi \in 1 .. G => h[<<gi + 1, si>>] = f[<<gi + 1, si>>]
        <5>1. ASSUME gi \in 1 .. G PROVE gi + 1 \in 1 .. G + 1 /\ left(gi + 1, si) <= n
          BY <1>1, <2>4, <5>1
        <5> QED
          BY <2>3, <5>1
      <4>3. si \in 1 .. A => h[<<gi, si + 1>>] = f[<<gi, si + 1>>]
        <5>1. ASSUME si \in 1 .. A PROVE si + 1 \in 1 .. A + 1 /\ left(gi, si + 1) <= n
          BY <1>1, <2>4, <5>1
        <5> QED
          BY <2>3, <5>1
      <4>4. loop(gi, si, h) = loop(gi, si, f)
        BY <4>1, <4>2, <4>3, TurnUses DEF loop
      <4> QED
        BY <3>1, <4>4
    <3> QED
      BY <3>2, <3>3
  <2>5. fits(h, n + 1)
    BY <2>2, <2>4
  <2> HIDE DEF fits
  <2> QED
    BY <2>5
<1>4. \A n \in Nat : n \in T
  <2> HIDE DEF T
  <2> QED
    BY <1>2, <1>3, SetInduction
<1>5. PICK f : fits(f, G + A)
  <2>1. G + A \in Nat
    BY <1>1
  <2> HIDE DEF G, A, fits
  <2>2. G + A \in T
    <3> HIDE DEF T
    <3> QED
      BY <1>4, <2>1
  <2> QED
    BY <2>2
<1>6. \A gi \in 1 .. G + 1, si \in 1 .. A + 1 : f[<<gi, si>>] = loop(gi, si, f)
  <2>1. \A gi \in 1 .. G + 1, si \in 1 .. A + 1 : left(gi, si) <= G + A
    BY <1>1
  <2> QED
    BY <1>5, <2>1
<1>7. f = [at \in D |-> f[at]]
  BY <1>5
<1> HIDE DEF loop
<1>8. \A at \in D : f[at] = loop(at[1], at[2], f)
  BY <1>6
<1>9. f = [at \in D |-> loop(at[1], at[2], f)]
  <2> HIDE DEF D
  <2> QED
    BY <1>7, <1>8
<1>10. Loops(hits, groups, alone, f)
  BY <1>9 DEF loop, Loops
<1> QED
  BY <1>10

\* What the loop computes, turn by turn.
LEMMA LoopIs ==
    ASSUME NEW hits, NEW groups, NEW alone, Mergeable(hits, groups, alone)
    PROVE  \E rest :
              /\ Interleaved(hits, groups, alone) = rest[<<1, 1>>]
              /\ \A gi \in 1 .. Len(groups) + 1, si \in 1 .. Len(alone) + 1 :
                    rest[<<gi, si>>] = LoopFrom(hits, groups, alone, gi, si, rest)
<1> DEFINE D == (1 .. Len(groups) + 1) \X (1 .. Len(alone) + 1)
           rest == CHOOSE f : Loops(hits, groups, alone, f)
<1>1. Interleaved(hits, groups, alone) = rest[<<1, 1>>]
  BY InterleavedIs
<1>2. Loops(hits, groups, alone, rest)
  BY LoopEnds
<1> HIDE DEF rest
<1>3. \A at \in D : rest[at] = LoopFrom(hits, groups, alone, at[1], at[2], rest)
  BY <1>2 DEF Loops
<1>4. ASSUME NEW gi \in 1 .. Len(groups) + 1, NEW si \in 1 .. Len(alone) + 1
      PROVE  rest[<<gi, si>>] = LoopFrom(hits, groups, alone, gi, si, rest)
  <2>1. <<gi, si>> \in D /\ <<gi, si>>[1] = gi /\ <<gi, si>>[2] = si
    OBVIOUS
  <2> HIDE DEF D
  <2> QED
    BY <1>3, <2>1
<1> QED
  BY <1>1, <1>4

\* The places that are not appended yet when the loop is at a group and a standalone hit.
LeftFrom(hits, groups, gi, si) ==
    {i \in DOMAIN hits : \E x \in gi .. Len(groups) : hits[i].row.group = groups[x]}
      \union {StandPlaces(hits)[y] : y \in si .. Len(Standalone(hits))}

\* The hits of some places, once each and in order.
Assembled(hits, places, out) ==
    /\ out \in Seq(Hit)
    /\ Len(out) = Cardinality(places)
    /\ Range(out) = {hits[i] : i \in places}
    /\ Ordered(hits, out)

\* The hits of two parts put together.
LEMMA ConcatRange ==
    ASSUME NEW a \in Seq(Hit), NEW b \in Seq(Hit)
    PROVE  Range(a \o b) = Range(a) \union Range(b)
<1> DEFINE m == Len(a)
           n == Len(b)
           out == a \o b
<1>1. m \in Nat /\ n \in Nat /\ DOMAIN a = 1 .. m /\ DOMAIN b = 1 .. n /\ DOMAIN out = 1 .. m + n
  OBVIOUS
<1>2. \A i \in 1 .. m : out[i] = a[i]
  OBVIOUS
<1>3. \A i \in 1 .. m + n : ~(i <= m) => out[i] = b[i - m]
  OBVIOUS
<1> HIDE DEF out, m, n
<1>4. ASSUME NEW i \in DOMAIN out PROVE out[i] \in Range(a) \union Range(b)
  <2>1. CASE i <= m
    <3>1. i \in DOMAIN a /\ out[i] = a[i]
      BY <1>1, <1>2, <2>1
    <3> QED
      BY <3>1 DEF Range
  <2>2. CASE ~(i <= m)
    <3>1. i - m \in DOMAIN b /\ out[i] = b[i - m]
      BY <1>1, <1>3, <2>2
    <3> QED
      BY <3>1 DEF Range
  <2> QED
    BY <2>1, <2>2
<1>5. ASSUME NEW i \in DOMAIN a PROVE a[i] \in Range(out)
  <2>1. i \in DOMAIN out /\ out[i] = a[i]
    BY <1>1, <1>2
  <2> QED
    BY <2>1 DEF Range
<1>6. ASSUME NEW i \in DOMAIN b PROVE b[i] \in Range(out)
  <2>1. m + i \in DOMAIN out /\ ~(m + i <= m) /\ (m + i) - m = i
    BY <1>1
  <2>2. out[m + i] = b[i]
    BY <1>1, <1>3, <2>1
  <2> QED
    BY <2>1, <2>2 DEF Range
<1> QED
  BY <1>4, <1>5, <1>6 DEF Range, out

LEMMA AssembledJoin ==
    ASSUME NEW hits \in Seq(Hit), NEW A \in SUBSET DOMAIN hits, NEW B \in SUBSET DOMAIN hits,
           NEW a, NEW b, Assembled(hits, A, a), Assembled(hits, B, b),
           A \cap B = {},
           \A i \in A, j \in B :
              /\ Standing(hits, hits[i]) >= Standing(hits, hits[j])
              /\ hits[i].row.group = NoGroup \/ hits[i].row.group # hits[j].row.group
    PROVE  Assembled(hits, A \union B, a \o b)
<1>1. /\ IsFiniteSet(A) /\ IsFiniteSet(B)
      /\ Cardinality(A) \in Nat /\ Cardinality(B) \in Nat
  BY PlacesOfSeq, PlacesAreFinite
<1>2. Cardinality(A \union B) = Cardinality(A) + Cardinality(B)
  <2>1. A \cap B = {} /\ Cardinality({}) = 0
    BY FS_EmptySet
  <2>2. Cardinality(A \union B) = Cardinality(A) + Cardinality(B) - Cardinality(A \cap B)
    BY <1>1, FS_Union
  <2>3. Cardinality(A \cap B) = 0
    BY ONLY <2>1
  <2> QED
    BY <1>1, <2>2, <2>3
<1>3. /\ a \in Seq(Hit) /\ b \in Seq(Hit)
      /\ Len(a) = Cardinality(A) /\ Len(b) = Cardinality(B)
      /\ Range(a) = {hits[i] : i \in A} /\ Range(b) = {hits[i] : i \in B}
  BY DEF Assembled
<1>4. a \o b \in Seq(Hit) /\ Len(a \o b) = Cardinality(A) + Cardinality(B)
  <2>1. a \o b \in Seq(Hit) /\ Len(a \o b) = Len(a) + Len(b)
    BY <1>3
  <2> QED
    BY <1>3, <2>1
<1>5. Range(a \o b) = Range(a) \union Range(b)
  BY <1>3, ConcatRange
<1>6. Range(a \o b) = {hits[i] : i \in A \union B}
  BY <1>3, <1>5
<1>7. Ordered(hits, a \o b)
  <2>1. \A x \in Range(a), y \in Range(b) :
           /\ Standing(hits, x) >= Standing(hits, y)
           /\ x.row.group = NoGroup \/ x.row.group # y.row.group
    BY DEF Assembled
  <2> QED
    BY <1>3, <2>1, OrderedConcat DEF Assembled
<1> QED
  BY <1>2, <1>4, <1>6, <1>7 DEF Assembled

\* The phases of a group, appended together.
LEMMA PhasesFacts ==
    ASSUME NEW hits \in Seq(Hit), NEW g \in GroupsOf(hits)
    PROVE  Assembled(hits, PlacesOf(hits, g), Phases(hits, g))
<1> DEFINE S == PlacesOf(hits, g)
           key == [i \in S |-> 0 - hits[i].row.seq]
           order == Order(key)
           out == Phases(hits, g)
           n == Len(hits)
<1>1. n \in Nat /\ S \in SUBSET (1 .. n) /\ S \in SUBSET DOMAIN hits
  BY PlacesOfSeq DEF PlacesOf
<1>2. \A i \in S : hits[i].row.seq \in Int /\ hits[i].row.group = g
  <2>1. \A i \in S : hits[i] \in Hit /\ hits[i].row.group = g
    BY <1>1, PlacesOfSeq DEF PlacesOf
  <2> HIDE DEF S
  <2> QED
    BY <2>1 DEF Hit, Row
<1>3. /\ key \in [S -> Int] /\ out = Sorted(hits, key)
      /\ \A i \in S : key[i] = 0 - hits[i].row.seq
  BY <1>2 DEF Phases
<1> HIDE DEF S, key, n, order
<1>4. Sorts(out, hits, S, order, key)
  BY <1>1, <1>3, SortedFacts DEF order
<1>5. Arranges(out, hits, S, order)
  BY <1>4 DEF Sorts
<1>6. out \in Seq(Hit) /\ Range(out) = {hits[i] : i \in S}
  <2>1. out \in Seq(Hit)
    BY <1>1, <1>5, ArrangedHits
  <2>2. Range(out) = {hits[i] : i \in S}
    BY <1>5, ArrangedRange
  <2> QED
    BY <2>1, <2>2
<1>7. \A p \in DOMAIN out : order[p] \in S /\ out[p] = hits[order[p]] /\ out[p].row.group = g
  BY <1>2, <1>5 DEF Arranges
<1>8. Ordered(hits, out)
  <2>1. Best(hits, g) \in Int
    BY BestFacts
  <2>2. g # NoGroup
    BY DEF GroupsOf
  <2>3. \A p \in DOMAIN out : Standing(hits, out[p]) = Best(hits, g)
    BY <1>7, <2>2 DEF Standing
  <2>4. ASSUME NEW p \in DOMAIN out, NEW q \in DOMAIN out, p < q
        PROVE  out[p].row.seq <= out[q].row.seq
    <3> DEFINE i == order[p]
               j == order[q]
    <3>1. i \in S /\ j \in S /\ out[p] = hits[i] /\ out[q] = hits[j]
      BY <1>7
    <3>2. key[i] > key[j] \/ key[i] = key[j]
      BY <1>4, <2>4 DEF Sorts
    <3>3. /\ key[i] = 0 - hits[i].row.seq /\ key[j] = 0 - hits[j].row.seq
          /\ hits[i].row.seq \in Int /\ hits[j].row.seq \in Int
      BY <1>2, <1>3, <3>1
    <3> HIDE DEF i, j
    <3>4. hits[i].row.seq <= hits[j].row.seq
      BY <3>2, <3>3
    <3> QED
      BY <3>1, <3>4
  <2>5. ASSUME NEW p \in DOMAIN out, NEW q \in DOMAIN out, NEW r \in p .. q
        PROVE  r \in DOMAIN out
    BY <1>5 DEF Arranges
  <2> QED
    BY <1>7, <2>1, <2>3, <2>4, <2>5 DEF Ordered
<1> QED
  BY <1>5, <1>6, <1>8 DEF Assembled, Arranges, S

LEMMA OneIsAssembled ==
    ASSUME NEW hits \in Seq(Hit), NEW i \in DOMAIN hits
    PROVE  Assembled(hits, {i}, <<hits[i]>>)
<1>1. hits[i] \in Hit
  BY PlacesOfSeq
<1>2. Cardinality({i}) = 1
  BY FS_Singleton
<1>3. Ordered(hits, <<hits[i]>>)
  BY DEF Ordered
<1> QED
  BY <1>1, <1>2, <1>3 DEF Assembled, Range

\* Before the loop nothing is appended, after it everything is.
LEMMA LeftAtEnds ==
    ASSUME NEW hits, NEW groups, NEW alone, Mergeable(hits, groups, alone)
    PROVE  /\ LeftFrom(hits, groups, 1, 1) = DOMAIN hits
           /\ LeftFrom(hits, groups, Len(groups) + 1, Len(alone) + 1) = {}
<1> DEFINE stand == StandPlaces(hits)
           S == PlacesOf(hits, NoGroup)
<1>1. /\ hits \in Seq(Hit) /\ alone = Standalone(hits)
      /\ groups \in GroupOrders(hits, GroupsOf(hits))
  BY DEF Mergeable
<1>2. /\ Len(groups) \in Nat /\ DOMAIN groups = 1 .. Len(groups)
      /\ Len(alone) \in Nat /\ DOMAIN alone = 1 .. Len(alone)
  BY ListsFacts
<1>3. Arranges(alone, hits, S, stand)
  BY <1>1, StandaloneFacts
<1>4. \A g \in GroupsOf(hits) : \E x \in DOMAIN groups : groups[x] = g
  BY <1>1, GroupOrderFacts
<1> HIDE DEF stand, S
<1>5. ASSUME NEW i \in DOMAIN hits PROVE i \in LeftFrom(hits, groups, 1, 1)
  <2>1. CASE hits[i].row.group = NoGroup
    <3>1. i \in S
      BY <2>1 DEF S, PlacesOf
    <3>2. \E y \in DOMAIN alone : stand[y] = i
      BY <1>3, <3>1 DEF Arranges
    <3> QED
      BY <1>1, <1>2, <3>2 DEF LeftFrom, stand
  <2>2. CASE hits[i].row.group # NoGroup
    <3>1. hits[i].row.group \in GroupsOf(hits)
      BY <2>2 DEF GroupsOf, Range
    <3> QED
      BY <1>2, <1>4, <3>1 DEF LeftFrom
  <2> QED
    BY <2>1, <2>2
<1>6. \A y \in DOMAIN alone : stand[y] \in DOMAIN hits
  BY <1>3 DEF Arranges, S, PlacesOf
<1>7. LeftFrom(hits, groups, 1, 1) \subseteq DOMAIN hits
  BY <1>1, <1>2, <1>6 DEF LeftFrom, stand
<1>8. LeftFrom(hits, groups, Len(groups) + 1, Len(alone) + 1) = {}
  BY <1>1, <1>2 DEF LeftFrom
<1> QED
  BY <1>5, <1>7, <1>8

\* What is left when the loop is at a group and a standalone hit, by what it is.
LEMMA LeftFacts ==
    ASSUME NEW hits, NEW groups, NEW alone, Mergeable(hits, groups, alone),
           NEW gi \in 1 .. Len(groups) + 1, NEW si \in 1 .. Len(alone) + 1,
           NEW i \in LeftFrom(hits, groups, gi, si)
    PROVE  /\ i \in DOMAIN hits
           /\ \/ /\ hits[i].row.group # NoGroup
                 /\ Standing(hits, hits[i]) = Best(hits, hits[i].row.group)
                 /\ \E x \in gi .. Len(groups) : hits[i].row.group = groups[x]
              \/ /\ hits[i].row.group = NoGroup
                 /\ Standing(hits, hits[i]) = hits[i].score
                 /\ \E y \in si .. Len(alone) :
                       StandPlaces(hits)[y] = i /\ alone[y] = hits[i]
<1> DEFINE stand == StandPlaces(hits)
           S == PlacesOf(hits, NoGroup)
<1>1. /\ hits \in Seq(Hit) /\ alone = Standalone(hits)
      /\ groups \in GroupOrders(hits, GroupsOf(hits))
  BY DEF Mergeable
<1>2. /\ Len(groups) \in Nat /\ DOMAIN groups = 1 .. Len(groups)
      /\ Len(alone) \in Nat /\ DOMAIN alone = 1 .. Len(alone)
  BY ListsFacts
<1>3. Arranges(alone, hits, S, stand)
  BY <1>1, StandaloneFacts
<1>4. \A x \in DOMAIN groups : groups[x] \in GroupsOf(hits)
  BY <1>1, GroupOrderFacts
<1>5. NoGroup \notin GroupsOf(hits)
  BY DEF GroupsOf
<1>6. CASE i \in DOMAIN hits /\ \E x \in gi .. Len(groups) : hits[i].row.group = groups[x]
  <2>1. PICK x \in gi .. Len(groups) : hits[i].row.group = groups[x]
    BY <1>6
  <2>2. x \in DOMAIN groups
    BY <1>2
  <2>3. hits[i].row.group # NoGroup
    BY <1>4, <1>5, <2>1, <2>2
  <2> QED
    BY <1>6, <2>3 DEF Standing
<1> HIDE DEF stand, S
<1>7. CASE \E y \in si .. Len(alone) : i = stand[y]
  <2>1. PICK y \in si .. Len(alone) : i = stand[y]
    BY <1>7
  <2>2. y \in DOMAIN alone
    BY <1>2
  <2>3. i \in S /\ alone[y] = hits[i]
    BY <1>3, <2>1, <2>2 DEF Arranges
  <2>4. i \in DOMAIN hits /\ hits[i].row.group = NoGroup
    BY <2>3 DEF S, PlacesOf
  <2> QED
    BY <2>1, <2>3, <2>4 DEF Standing, stand
<1>8. \/ i \in DOMAIN hits /\ \E x \in gi .. Len(groups) : hits[i].row.group = groups[x]
      \/ \E y \in si .. Len(alone) : i = stand[y]
  BY <1>1 DEF LeftFrom, stand
<1> QED
  BY <1>6, <1>7, <1>8

\* A turn that takes a group: it stands at least as high as all that is left.
LEMMA GroupTurn ==
    ASSUME NEW hits, NEW groups, NEW alone, Mergeable(hits, groups, alone),
           NEW gi \in 1 .. Len(groups), NEW si \in 1 .. Len(alone) + 1,
           GroupScore(hits, groups, gi) >= StandScore(alone, si)
    PROVE  LET A == PlacesOf(hits, groups[gi])
               B == LeftFrom(hits, groups, gi + 1, si)
           IN  /\ groups[gi] \in GroupsOf(hits)
               /\ LeftFrom(hits, groups, gi, si) = A \union B
               /\ A \in SUBSET DOMAIN hits /\ B \in SUBSET DOMAIN hits /\ A \cap B = {}
               /\ \A i \in A, j \in B :
                     /\ Standing(hits, hits[i]) >= Standing(hits, hits[j])
                     /\ hits[i].row.group = NoGroup \/ hits[i].row.group # hits[j].row.group
<1> DEFINE g == groups[gi]
           A == PlacesOf(hits, g)
           B == LeftFrom(hits, groups, gi + 1, si)
<1>1. /\ hits \in Seq(Hit) /\ alone = Standalone(hits)
      /\ groups \in GroupOrders(hits, GroupsOf(hits))
  BY DEF Mergeable
<1>2. /\ Len(groups) \in Nat /\ DOMAIN groups = 1 .. Len(groups)
      /\ Len(alone) \in Nat /\ DOMAIN alone = 1 .. Len(alone)
  BY ListsFacts
<1>3. /\ \A x \in DOMAIN groups : groups[x] \in GroupsOf(hits)
      /\ \A x, y \in DOMAIN groups : groups[x] = groups[y] => x = y
      /\ \A x, y \in DOMAIN groups : x < y => Best(hits, groups[x]) >= Best(hits, groups[y])
  BY <1>1, GroupOrderFacts
<1>4. NoGroup \notin GroupsOf(hits)
  BY DEF GroupsOf
<1>5. gi \in DOMAIN groups /\ g \in GroupsOf(hits)
  BY <1>2, <1>3
<1>6. gi + 1 \in 1 .. Len(groups) + 1 /\ ~(gi > Len(groups))
  BY <1>2
<1>7. Best(hits, g) >= StandScore(alone, si) /\ Best(hits, g) \in Int
  BY <1>1, <1>6, BestFacts DEF GroupScore
<1>8. A \in SUBSET DOMAIN hits
  BY DEF PlacesOf
<1>9. ASSUME NEW j \in B
      PROVE  /\ j \in DOMAIN hits /\ hits[j].row.group # g
             /\ Best(hits, g) >= Standing(hits, hits[j])
  <2>1. /\ j \in DOMAIN hits
        /\ \/ /\ hits[j].row.group # NoGroup
              /\ Standing(hits, hits[j]) = Best(hits, hits[j].row.group)
              /\ \E x \in gi + 1 .. Len(groups) : hits[j].row.group = groups[x]
           \/ /\ hits[j].row.group = NoGroup
              /\ Standing(hits, hits[j]) = hits[j].score
              /\ \E y \in si .. Len(alone) :
                    StandPlaces(hits)[y] = j /\ alone[y] = hits[j]
    BY <1>6, LeftFacts
  <2>2. ASSUME NEW x \in gi + 1 .. Len(groups), hits[j].row.group = groups[x],
               Standing(hits, hits[j]) = Best(hits, hits[j].row.group)
        PROVE  hits[j].row.group # g /\ Best(hits, g) >= Standing(hits, hits[j])
    <3>1. x \in DOMAIN groups /\ gi < x /\ x # gi
      BY <1>2
    <3> QED
      BY <1>3, <1>5, <2>2, <3>1
  <2>3. ASSUME NEW y \in si .. Len(alone), alone[y] = hits[j], hits[j].row.group = NoGroup,
               Standing(hits, hits[j]) = hits[j].score
        PROVE  hits[j].row.group # g /\ Best(hits, g) >= Standing(hits, hits[j])
    <3>1. y \in DOMAIN alone /\ si \in DOMAIN alone /\ ~(si > Len(alone)) /\ (si = y \/ si < y)
      BY <1>2
    <3>2. alone[y].score \in Int /\ alone[si].score \in Int
      <4>1. alone[y] \in Hit /\ alone[si] \in Hit
        BY <1>1, <3>1, StandaloneFacts, PlacesOfSeq
      <4> QED
        BY <4>1 DEF Hit
    <3>3. alone[si].score >= alone[y].score
      BY <1>1, <3>1, <3>2, StandaloneFacts
    <3>4. StandScore(alone, si) = alone[si].score
      BY <3>1 DEF StandScore
    <3> QED
      BY <1>4, <1>5, <1>7, <2>3, <3>2, <3>3, <3>4
  <2> QED
    BY <2>1, <2>2, <2>3
<1>10. \A i \in A : hits[i].row.group = g /\ Standing(hits, hits[i]) = Best(hits, g)
  BY <1>4, <1>5 DEF PlacesOf, Standing
<1>11. LeftFrom(hits, groups, gi, si) = A \union B
  <2>1. \A x : x \in gi .. Len(groups) <=> x = gi \/ x \in gi + 1 .. Len(groups)
    BY <1>2
  <2> QED
    BY <2>1 DEF LeftFrom, PlacesOf
<1> HIDE DEF A, B
<1>12. A \cap B = {} /\ B \in SUBSET DOMAIN hits
  BY <1>9, <1>10
<1>13. \A i \in A, j \in B :
          /\ Standing(hits, hits[i]) >= Standing(hits, hits[j])
          /\ hits[i].row.group = NoGroup \/ hits[i].row.group # hits[j].row.group
  BY <1>9, <1>10
<1> QED
  BY <1>5, <1>8, <1>11, <1>12, <1>13 DEF A, B

\* A turn that takes a standalone hit: it stands higher than all groups that are left.
LEMMA AloneTurn ==
    ASSUME NEW hits, NEW groups, NEW alone, Mergeable(hits, groups, alone),
           NEW gi \in 1 .. Len(groups) + 1, NEW si \in 1 .. Len(alone),
           ~(GroupScore(hits, groups, gi) >= StandScore(alone, si))
    PROVE  LET a == StandPlaces(hits)[si]
               B == LeftFrom(hits, groups, gi, si + 1)
           IN  /\ a \in DOMAIN hits /\ alone[si] = hits[a]
               /\ LeftFrom(hits, groups, gi, si) = {a} \union B
               /\ B \in SUBSET DOMAIN hits /\ {a} \cap B = {}
               /\ hits[a].row.group = NoGroup
               /\ \A j \in B : Standing(hits, hits[a]) >= Standing(hits, hits[j])
<1> DEFINE stand == StandPlaces(hits)
           a == stand[si]
           B == LeftFrom(hits, groups, gi, si + 1)
           S == PlacesOf(hits, NoGroup)
<1>1. /\ hits \in Seq(Hit) /\ alone = Standalone(hits)
      /\ groups \in GroupOrders(hits, GroupsOf(hits))
  BY DEF Mergeable
<1>2. /\ Len(groups) \in Nat /\ DOMAIN groups = 1 .. Len(groups)
      /\ Len(alone) \in Nat /\ DOMAIN alone = 1 .. Len(alone)
  BY ListsFacts
<1>3. \A x, y \in DOMAIN groups : x < y => Best(hits, groups[x]) >= Best(hits, groups[y])
  BY <1>1, GroupOrderFacts
<1>4. Arranges(alone, hits, S, stand)
  BY <1>1, StandaloneFacts
<1> HIDE DEF stand
<1>5. /\ si \in DOMAIN alone /\ si + 1 \in 1 .. Len(alone) + 1 /\ ~(si > Len(alone))
      /\ a \in S /\ alone[si] = hits[a]
  BY <1>2, <1>4 DEF Arranges
<1>6. a \in DOMAIN hits /\ hits[a].row.group = NoGroup /\ Standing(hits, hits[a]) = hits[a].score
  BY <1>5 DEF PlacesOf, Standing
<1>7. \A y \in DOMAIN alone : alone[y].score \in Int
  <2>1. \A y \in DOMAIN alone : alone[y] \in Hit
    BY <1>1, StandaloneFacts, PlacesOfSeq
  <2> QED
    BY <2>1 DEF Hit
<1>8. /\ GroupScore(hits, groups, gi) \in Int /\ hits[a].score \in Int
      /\ GroupScore(hits, groups, gi) < hits[a].score
  <2>1. StandScore(alone, si) = hits[a].score
    BY <1>5 DEF StandScore
  <2>2. hits[a].score \in Int
    BY <1>5, <1>7
  <2> QED
    BY <2>1, <2>2, ListsFacts
<1>9. ASSUME NEW j \in B
      PROVE  j \in DOMAIN hits /\ j # a /\ hits[a].score >= Standing(hits, hits[j])
  <2>1. /\ j \in DOMAIN hits
        /\ \/ /\ hits[j].row.group # NoGroup
              /\ Standing(hits, hits[j]) = Best(hits, hits[j].row.group)
              /\ \E x \in gi .. Len(groups) : hits[j].row.group = groups[x]
           \/ /\ hits[j].row.group = NoGroup
              /\ Standing(hits, hits[j]) = hits[j].score
              /\ \E y \in si + 1 .. Len(alone) : stand[y] = j /\ alone[y] = hits[j]
    BY <1>5, LeftFacts DEF stand
  <2>2. ASSUME NEW x \in gi .. Len(groups), hits[j].row.group = groups[x],
               hits[j].row.group # NoGroup,
               Standing(hits, hits[j]) = Best(hits, hits[j].row.group)
        PROVE  j # a /\ hits[a].score >= Standing(hits, hits[j])
    <3>1. x \in DOMAIN groups /\ gi \in DOMAIN groups /\ (gi = x \/ gi < x) /\ ~(gi > Len(groups))
      BY <1>2
    <3>2. GroupScore(hits, groups, gi) = Best(hits, groups[gi])
      BY <3>1 DEF GroupScore
    <3>3. Best(hits, groups[x]) \in Int
      BY <1>1, BestFacts
    <3>4. Best(hits, groups[gi]) >= Best(hits, groups[x])
      BY <1>3, <3>1, <3>3
    <3> QED
      BY <1>6, <1>8, <2>2, <3>2, <3>3, <3>4
  <2>3. ASSUME NEW y \in si + 1 .. Len(alone), stand[y] = j, alone[y] = hits[j],
               Standing(hits, hits[j]) = hits[j].score
        PROVE  j # a /\ hits[a].score >= Standing(hits, hits[j])
    <3>1. y \in DOMAIN alone /\ si < y /\ y # si
      BY <1>2
    <3>2. j # a
      BY <1>4, <1>5, <2>3, <3>1 DEF Arranges
    <3>3. alone[si].score >= alone[y].score
      BY <1>1, <1>5, <3>1, StandaloneFacts
    <3> QED
      BY <1>5, <2>3, <3>2, <3>3
  <2> QED
    BY <2>1, <2>2, <2>3
<1>10. LeftFrom(hits, groups, gi, si) = {a} \union B
  <2>1. \A y : y \in si .. Len(alone) <=> y = si \/ y \in si + 1 .. Len(alone)
    BY <1>2
  <2> QED
    BY <1>1, <2>1 DEF LeftFrom, stand
<1> HIDE DEF B, a
<1>11. {a} \cap B = {} /\ B \in SUBSET DOMAIN hits
  BY <1>9
<1> QED
  BY <1>5, <1>6, <1>9, <1>10, <1>11 DEF B, a, stand

LEMMA TurnAssembles ==
    ASSUME NEW hits, NEW groups, NEW alone, Mergeable(hits, groups, alone),
           NEW gi \in 1 .. Len(groups) + 1, NEW si \in 1 .. Len(alone) + 1, NEW rest,
           ~(gi > Len(groups) /\ si > Len(alone)),
           gi \in 1 .. Len(groups) =>
              Assembled(hits, LeftFrom(hits, groups, gi + 1, si), rest[<<gi + 1, si>>]),
           si \in 1 .. Len(alone) =>
              Assembled(hits, LeftFrom(hits, groups, gi, si + 1), rest[<<gi, si + 1>>])
    PROVE  Assembled(hits, LeftFrom(hits, groups, gi, si),
                     LoopFrom(hits, groups, alone, gi, si, rest))
<1>1. hits \in Seq(Hit)
  BY DEF Mergeable
<1>2. CASE GroupScore(hits, groups, gi) >= StandScore(alone, si)
  <2> DEFINE A == PlacesOf(hits, groups[gi])
             B == LeftFrom(hits, groups, gi + 1, si)
             b == rest[<<gi + 1, si>>]
  <2>1. gi \in 1 .. Len(groups)
    BY <1>2, TurnInBounds
  <2>2. /\ groups[gi] \in GroupsOf(hits)
        /\ LeftFrom(hits, groups, gi, si) = A \union B
        /\ A \in SUBSET DOMAIN hits /\ B \in SUBSET DOMAIN hits /\ A \cap B = {}
        /\ \A i \in A, j \in B :
              /\ Standing(hits, hits[i]) >= Standing(hits, hits[j])
              /\ hits[i].row.group = NoGroup \/ hits[i].row.group # hits[j].row.group
    BY <1>2, <2>1, GroupTurn
  <2>3. Assembled(hits, A, Phases(hits, groups[gi])) /\ Assembled(hits, B, b)
    BY <1>1, <2>1, <2>2, PhasesFacts
  <2>4. LoopFrom(hits, groups, alone, gi, si, rest) = Phases(hits, groups[gi]) \o b
    BY <1>2 DEF LoopFrom, Turn
  <2> HIDE DEF A, B, b
  <2>5. Assembled(hits, A \union B, Phases(hits, groups[gi]) \o b)
    BY <1>1, <2>2, <2>3, AssembledJoin
  <2> QED
    BY <2>2, <2>4, <2>5
<1>3. CASE ~(GroupScore(hits, groups, gi) >= StandScore(alone, si))
  <2> DEFINE a == StandPlaces(hits)[si]
             B == LeftFrom(hits, groups, gi, si + 1)
             b == rest[<<gi, si + 1>>]
  <2>1. si \in 1 .. Len(alone)
    BY <1>3, TurnInBounds
  <2>2. /\ a \in DOMAIN hits /\ alone[si] = hits[a]
        /\ LeftFrom(hits, groups, gi, si) = {a} \union B
        /\ B \in SUBSET DOMAIN hits /\ {a} \cap B = {}
        /\ hits[a].row.group = NoGroup
        /\ \A j \in B : Standing(hits, hits[a]) >= Standing(hits, hits[j])
    BY <1>3, <2>1, AloneTurn
  <2>3. Assembled(hits, {a}, <<hits[a]>>) /\ Assembled(hits, B, b)
    BY <1>1, <2>1, <2>2, OneIsAssembled
  <2>4. LoopFrom(hits, groups, alone, gi, si, rest) = <<hits[a]>> \o b
    BY <1>3, <2>2 DEF LoopFrom, Turn
  <2> HIDE DEF a, B, b
  <2>5. Assembled(hits, {a} \union B, <<hits[a]>> \o b)
    BY <1>1, <2>2, <2>3, AssembledJoin
  <2> QED
    BY <2>2, <2>4, <2>5
<1> QED
  BY <1>2, <1>3

LEMMA NothingIsAssembled ==
    ASSUME NEW hits
    PROVE  Assembled(hits, {}, <<>>)
BY FS_EmptySet DEF Assembled, Ordered, Range

\* The loop appends what is left, by induction on the turns that are left.
LEMMA LoopAssembles ==
    ASSUME NEW hits, NEW groups, NEW alone, Mergeable(hits, groups, alone), NEW rest,
           \A gi \in 1 .. Len(groups) + 1, si \in 1 .. Len(alone) + 1 :
              rest[<<gi, si>>] = LoopFrom(hits, groups, alone, gi, si, rest)
    PROVE  Assembled(hits, DOMAIN hits, rest[<<1, 1>>])
<1> DEFINE G == Len(groups)
           A == Len(alone)
           left(gi, si) == (G + 1 - gi) + (A + 1 - si)
           good(gi, si) == Assembled(hits, LeftFrom(hits, groups, gi, si), rest[<<gi, si>>])
           T == {n \in Nat : \A gi \in 1 .. G + 1, si \in 1 .. A + 1 :
                                left(gi, si) <= n => good(gi, si)}
<1>1. G \in Nat /\ A \in Nat
  BY ListsFacts
<1>2. good(G + 1, A + 1)
  <2>1. G + 1 \in 1 .. G + 1 /\ A + 1 \in 1 .. A + 1 /\ G + 1 > G /\ A + 1 > A
    BY <1>1
  <2>2. rest[<<G + 1, A + 1>>] = <<>>
    BY <2>1 DEF LoopFrom
  <2>3. LeftFrom(hits, groups, G + 1, A + 1) = {}
    BY LeftAtEnds
  <2> QED
    BY <2>2, <2>3, NothingIsAssembled
<1> HIDE DEF good
<1>3. 0 \in T
  <2>1. ASSUME NEW gi \in 1 .. G + 1, NEW si \in 1 .. A + 1, left(gi, si) <= 0
        PROVE  gi = G + 1 /\ si = A + 1
    BY <1>1, <2>1
  <2> QED
    BY <1>2, <2>1
<1>4. ASSUME NEW n \in Nat, n \in T PROVE n + 1 \in T
  <2>1. ASSUME NEW gi \in 1 .. G + 1, NEW si \in 1 .. A + 1, left(gi, si) <= n + 1
        PROVE  good(gi, si)
    <3>1. CASE gi > G /\ si > A
      <4>1. gi = G + 1 /\ si = A + 1
        BY <1>1, <3>1
      <4> QED
        BY <1>2, <4>1
    <3>2. CASE ~(gi > G /\ si > A)
      <4>1. gi \in 1 .. G => good(gi + 1, si)
        <5>1. ASSUME gi \in 1 .. G PROVE gi + 1 \in 1 .. G + 1 /\ left(gi + 1, si) <= n
          BY <1>1, <2>1, <5>1
        <5> QED
          BY <1>4, <5>1
      <4>2. si \in 1 .. A => good(gi, si + 1)
        <5>1. ASSUME si \in 1 .. A PROVE si + 1 \in 1 .. A + 1 /\ left(gi, si + 1) <= n
          BY <1>1, <2>1, <5>1
        <5> QED
          BY <1>4, <5>1
      <4>3. Assembled(hits, LeftFrom(hits, groups, gi, si),
                      LoopFrom(hits, groups, alone, gi, si, rest))
        BY <3>2, <4>1, <4>2, TurnAssembles DEF good
      <4> QED
        BY <4>3 DEF good
    <3> QED
      BY <3>1, <3>2
  <2> QED
    BY <2>1
<1>5. G + A \in T
  <2>1. G + A \in Nat
    BY <1>1
  <2> HIDE DEF T
  <2> QED
    BY <1>3, <1>4, <2>1, SetInduction
<1>6. good(1, 1)
  <2>1. 1 \in 1 .. G + 1 /\ 1 \in 1 .. A + 1 /\ left(1, 1) <= G + A
    BY <1>1
  <2> QED
    BY <1>5, <2>1
<1>7. LeftFrom(hits, groups, 1, 1) = DOMAIN hits
  BY LeftAtEnds
<1> QED
  BY <1>6, <1>7 DEF good

\* assembleGroups loses no hit, doubles none and puts each where it belongs.
LEMMA AssembliesFacts ==
    ASSUME NEW hits \in Seq(Hit), \A i \in DOMAIN hits : hits[i].score > 0 - Scale,
           NEW out \in Assemblies(hits)
    PROVE  /\ out \in Seq(Hit)
           /\ IsAssembly(hits, out)
           /\ Distinct(hits) => Distinct(out)
<1>1. PICK groups \in GroupOrders(hits, GroupsOf(hits)) :
              out = Interleaved(hits, groups, Standalone(hits))
  BY DEF Assemblies
<1> DEFINE alone == Standalone(hits)
           S == DOMAIN hits
           T == DOMAIN out
<1>2. Mergeable(hits, groups, alone)
  BY DEF Mergeable
<1> HIDE DEF alone
<1>3. PICK rest :
         /\ Interleaved(hits, groups, alone) = rest[<<1, 1>>]
         /\ \A gi \in 1 .. Len(groups) + 1, si \in 1 .. Len(alone) + 1 :
               rest[<<gi, si>>] = LoopFrom(hits, groups, alone, gi, si, rest)
  BY <1>2, LoopIs
<1>4. Assembled(hits, S, out)
  BY <1>1, <1>2, <1>3, LoopAssembles DEF alone
<1>5. Len(hits) \in Nat /\ S = 1 .. Len(hits) /\ IsFiniteSet(S) /\ Cardinality(S) = Len(hits)
  BY PlacesOfSeq, FS_Interval
<1>6. out \in Seq(Hit) /\ Len(out) = Len(hits) /\ T = 1 .. Len(out)
  BY <1>4, <1>5, PlacesOfSeq DEF Assembled
<1>7. Range(out) = Range(hits)
  BY <1>4 DEF Assembled, Range
<1>8. IsAssembly(hits, out)
  BY <1>4, <1>6, <1>7 DEF Assembled, Ordered, IsAssembly
<1>9. ASSUME Distinct(hits) PROVE Distinct(out)
  <2> DEFINE f == [p \in T |-> CHOOSE i \in S : hits[i] = out[p]]
  <2>1. ASSUME NEW p \in T PROVE f[p] \in S /\ hits[f[p]] = out[p]
    <3>1. out[p] \in Range(hits)
      BY <1>7 DEF Range
    <3> QED
      BY <3>1 DEF Range
  <2>2. ASSUME NEW i \in S PROVE \E p \in T : f[p] = i
    <3>1. hits[i] \in Range(out)
      BY <1>7 DEF Range
    <3>2. PICK p \in T : out[p] = hits[i]
      BY <3>1 DEF Range
    <3>3. f[p] = i
      BY <1>9, <2>1, <3>2 DEF Distinct
    <3> QED
      BY <3>3
  <2>3. f \in [T -> S]
    BY <2>1
  <2> HIDE DEF f
  <2>4. f \in Surjection(T, S)
    BY <2>2, <2>3, Fun_IsSurj
  <2>5. T = S
    BY <1>5, <1>6
  <2>6. f \in Injection(T, S)
    BY <1>5, <2>4, <2>5, FS_Surjection
  <2>7. \A p, q \in T : f[p] = f[q] => p = q
    BY <2>6 DEF Injection, IsInjective
  <2>8. ASSUME NEW p \in T, NEW q \in T, out[p].row.id = out[q].row.id PROVE p = q
    <3>1. f[p] = f[q]
      BY <1>9, <2>1, <2>8 DEF Distinct
    <3> QED
      BY <2>7, <3>1
  <2> QED
    BY <2>8 DEF Distinct
<1> QED
  BY <1>6, <1>8, <1>9

-----------------------------------------------------------------------------
(* What a search brings. *)

Likely(score) == score \in (1 - Scale) .. Scale

\* An entry is of a row, with its similarity to a query.
OfRow(e, rows) ==
    e.pos \in DOMAIN rows /\ \E q \in Queries : e.score = Sim[q][rows[e.pos].id]

\* A hit is a row, with its similarity to a query.
OfIndex(h, rows) ==
    h.row \in Range(rows) /\ \E q \in Queries : h.score = Sim[q][h.row.id]

LEMMA SelectedFacts ==
    ASSUME NEW rows \in Seq(Row), NEW query \in Queries, NEW k \in Nat,
           NEW newestFirst \in BOOLEAN,
           NEW best, best = Best_k(rows, query, k, newestFirst)
    PROVE  /\ best \in Seq(Entry)
           /\ \A i \in DOMAIN best : OfRow(best[i], rows) /\ Likely(best[i].score)
<1> DEFINE n == Len(rows)
           At(p) == IF newestFirst THEN n + 1 - p ELSE p
           Like(p) == Sim[query][rows[p].id]
           places == 1 .. n
           key == [p \in places |-> Like(At(p))]
           order == Order(key)
           m == Min({k, n})
<1>1. n \in Nat /\ \A p \in places : rows[p] \in Row
  BY PlacesOfSeq
<1>2. \A p \in places : At(p) \in places /\ At(p) \in Nat \ {0}
  BY <1>1
<1>3. \A p \in places : Like(p) \in (1 - Scale) .. Scale
  <2>1. \A p \in places : rows[p].id \in Ids
    BY <1>1 DEF Row
  <2>2. Sim[query] \in [Ids -> (1 - Scale) .. Scale]
    BY PipelineAssumption
  <2> HIDE DEF places
  <2> QED
    BY <2>1, <2>2
<1>4. best = [i \in 1 .. m |-> [pos |-> At(order[i]), score |-> Like(At(order[i]))]]
  BY DEF Best_k
<1>5. m \in Nat /\ m <= n
  BY <1>1, LesserOfTwo
<1>6. Scale \in Nat
  BY RankingAssumption
<1>7. key \in [places -> Int]
  <2>1. \A p \in places : Like(At(p)) \in Int
    BY <1>2, <1>3, <1>6
  <2> HIDE DEF Like, At, places
  <2> QED
    BY <2>1
<1>8. Cardinality(places) = n
  <2> HIDE DEF n
  <2> QED
    BY <1>1, FS_Interval
<1> HIDE DEF key, m
<1>9. order \in Bijection(places, places)
  BY <1>1, <1>7, <1>8, OrderFacts
<1> HIDE DEF order
<1>10. \A i \in places : order[i] \in places
  <2> HIDE DEF places
  <2> QED
    BY <1>9, BijectionFacts
<1> HIDE DEF Like, At
<1>11. ASSUME NEW i \in 1 .. m
       PROVE  LET at == At(order[i])
              IN  /\ best[i] = [pos |-> at, score |-> Like(at)]
                  /\ at \in DOMAIN rows /\ at \in Nat \ {0} /\ Likely(Like(at))
  <2>1. i \in places
    BY <1>1, <1>5
  <2>2. At(order[i]) \in places /\ At(order[i]) \in Nat \ {0}
    BY <1>2, <1>10, <2>1
  <2>3. Likely(Like(At(order[i])))
    BY <1>3, <2>2 DEF Likely
  <2>4. DOMAIN rows = places
    BY PlacesOfSeq
  <2> QED
    BY <1>4, <2>2, <2>3, <2>4
<1>12. \A i \in 1 .. m : best[i] \in Entry /\ OfRow(best[i], rows) /\ Likely(best[i].score)
  <2>1. ASSUME NEW i \in 1 .. m
        PROVE  best[i] \in Entry /\ OfRow(best[i], rows) /\ Likely(best[i].score)
    <3> DEFINE at == At(order[i])
    <3>1. /\ best[i] = [pos |-> at, score |-> Like(at)]
          /\ at \in DOMAIN rows /\ at \in Nat \ {0} /\ Likely(Like(at))
      BY <1>11
    <3>2. Like(at) = Sim[query][rows[at].id] /\ Like(at) \in Int
      BY <1>6, <3>1 DEF Like, Likely
    <3> HIDE DEF at
    <3>3. best[i].pos = at /\ best[i].score = Like(at) /\ best[i] \in Entry
      BY <3>1, <3>2 DEF Entry
    <3> QED
      BY <3>1, <3>2, <3>3 DEF OfRow
  <2> QED
    BY <2>1
<1>13. best \in Seq(Entry) /\ DOMAIN best = 1 .. m
  BY <1>4, <1>5, <1>12
<1> QED
  BY <1>12, <1>13

LEMMA ResolvedFacts ==
    ASSUME NEW selected \in Seq(Entry), NEW rows \in Seq(Row), NEW readable,
           \A i \in DOMAIN selected : selected[i].pos \in DOMAIN rows,
           NEW hits, hits = ResolvedHits(selected, rows, readable)
    PROVE  /\ hits \in Seq(Hit)
           /\ \A h \in Range(hits) : \E e \in Range(selected) :
                 h.row = rows[e.pos] /\ h.score = e.score
<1> DEFINE S == Read(selected, rows, readable)
           kept == Kept(selected, S)
<1>1. S \in SUBSET DOMAIN selected
  BY DEF Read
<1>2. PICK order : Arranges(kept, selected, S, order)
  <2> HIDE DEF S
  <2> QED
    BY <1>1, PlacesOfSeq, KeptFacts
<1>3. hits = [i \in DOMAIN kept |-> [row |-> rows[kept[i].pos], score |-> kept[i].score]]
  BY DEF ResolvedHits
<1> HIDE DEF S, kept
<1>4. ASSUME NEW i \in DOMAIN kept
      PROVE  /\ kept[i] \in Range(selected) /\ kept[i].pos \in DOMAIN rows
             /\ kept[i].score \in Int
  <2>1. order[i] \in DOMAIN selected /\ kept[i] = selected[order[i]]
    BY <1>1, <1>2 DEF Arranges
  <2>2. selected[order[i]] \in Entry
    BY <2>1, PlacesOfSeq
  <2> QED
    BY <2>1, <2>2 DEF Entry, Range
<1>5. \A i \in DOMAIN kept : hits[i].row = rows[kept[i].pos] /\ hits[i].score = kept[i].score
  BY <1>3
<1>6. \A i \in DOMAIN kept : hits[i] \in Hit
  <2>1. \A i \in DOMAIN kept : rows[kept[i].pos] \in Row
    BY <1>4, PlacesOfSeq
  <2> QED
    BY <1>3, <1>4, <2>1 DEF Hit
<1>7. DOMAIN kept = 1 .. Len(kept) /\ Len(kept) \in Nat
  BY <1>2 DEF Arranges
<1>8. hits \in Seq(Hit) /\ DOMAIN hits = DOMAIN kept
  BY <1>3, <1>6, <1>7
<1>9. ASSUME NEW h \in Range(hits)
      PROVE  \E e \in Range(selected) : h.row = rows[e.pos] /\ h.score = e.score
  <2>1. PICK i \in DOMAIN kept : h = hits[i]
    BY <1>8, <1>9 DEF Range
  <2> QED
    BY <1>4, <1>5, <2>1
<1> QED
  BY <1>8, <1>9

-----------------------------------------------------------------------------
(* The inductive invariant. *)

\* What holds of each recall: a search is under way in the states that have one, scores
\* never look like the end of a list, records differ, the answer is the best of what was
\* found, and while the gate stays active entries and hits are of the index in use.
CallInv(c) ==
    /\ pc[c] = "idle" => found[c] = <<>>
    /\ pc[c] \in {"score", "decrypt", "metadata"} => todo[c] # <<>>
    /\ \A e \in Range(entries[c]) : Likely(e.score)
    /\ \A h \in Range(found[c]) : Likely(h.score)
    /\ Distinct(found[c]) /\ Distinct(answer[c].hits)
    /\ answer[c].status = "ok" => pc[c] = "done" /\ IsBest(found[c], TopK, answer[c].hits)
    /\ quiet[c] /\ pc[c] \notin {"idle", "done"} =>
          /\ gate = "active"
          /\ pc[c] \in {"score", "decrypt", "metadata"} => client[c] = wired
          /\ pc[c] \in {"decrypt", "metadata"} =>
                \A e \in Range(entries[c]) : OfRow(e, index[wired])
          /\ \A h \in Range(found[c]) : OfIndex(h, index[wired])

Inv == TypeOK /\ \A c \in Recalls : CallInv(c)

\* A call is as good as it was if nothing of it changes, nor what it works on.
LEMMA Untouched ==
    ASSUME NEW c \in Recalls, CallInv(c),
           pc'[c] = pc[c], todo'[c] = todo[c], client'[c] = client[c],
           entries'[c] = entries[c], found'[c] = found[c], answer'[c] = answer[c],
           quiet'[c] = quiet[c], gate' = gate, wired' = wired, index' = index
    PROVE  CallInv(c)'
BY DEF CallInv

LEMMA UsedFacts ==
    /\ \A i \in DOMAIN Used : Used[i] \in Queries
    /\ [i \in DOMAIN Used |-> [query |-> Used[i], k |-> TopK, group |-> NotAsked]] \in Seq(Search)
<1> DEFINE m == Min({3, Len(Expansions)})
<1>1. Expansions \in Seq(Range(Expansions)) /\ Len(Expansions) \in Nat
  BY PipelineAssumption
<1>2. m \in Nat /\ m <= Len(Expansions)
  BY <1>1, LesserOfTwo
<1>3. Used = SubSeq(Expansions, 1, m)
  BY DEF Used
<1> HIDE DEF m
<1>4. Used \in Seq(Range(Expansions))
  BY <1>1, <1>2, <1>3
<1>5. \A i \in DOMAIN Used : Used[i] \in Queries
  BY <1>4, PlacesOfSeq DEF Queries
<1>6. TopK \in Nat
  BY PipelineAssumption
<1>7. \A i \in DOMAIN Used :
         [query |-> Used[i], k |-> TopK, group |-> NotAsked] \in Search
  BY <1>5, <1>6 DEF Search
<1>8. DOMAIN Used = 1 .. Len(Used) /\ Len(Used) \in Nat
  BY <1>4, PlacesOfSeq
<1> HIDE DEF Used
<1> QED
  BY <1>5, <1>7, <1>8

LEMMA InitInv == Init => Inv
<1> SUFFICES ASSUME Init PROVE Inv
  OBVIOUS
<1> USE DEF Init
<1>1. wired \in Gens /\ 1 \in Gens
  BY PipelineAssumption DEF Gens
<1>2. TypeOK
  <2>1. index \in Seq(Seq(Row)) /\ DOMAIN index = Gens
    BY PipelineAssumption DEF Gens
  <2>2. todo \in [Recalls -> Seq(Search)] /\ entries \in [Recalls -> Seq(Entry)]
    OBVIOUS
  <2>3. /\ found \in [Recalls -> Seq(Hit)]
        /\ answer \in [Recalls -> [status : {"none", "ok", "error", "topk_limit"},
                                   hits : Seq(Hit)]]
    BY DEF NoAnswer
  <2> QED
    BY <1>1, <2>1, <2>2, <2>3 DEF TypeOK, PCs
<1>3. ASSUME NEW c \in Recalls PROVE CallInv(c)
  <2>1. /\ pc[c] = "idle" /\ found[c] = <<>> /\ entries[c] = <<>>
        /\ answer[c].status = "none" /\ answer[c].hits = <<>>
    BY DEF NoAnswer
  <2>2. Range(<<>>) = {} /\ Distinct(<<>>)
    BY DEF Range, Distinct
  <2> QED
    BY <2>1, <2>2 DEF CallInv
<1> QED
  BY <1>2, <1>3 DEF Inv

\* A step of a recall touches no other one and nothing they share.
Own(c) ==
    /\ gate' = gate /\ wired' = wired /\ index' = index
    /\ \A d \in Recalls \ {c} :
          /\ pc'[d] = pc[d] /\ todo'[d] = todo[d] /\ client'[d] = client[d]
          /\ entries'[d] = entries[d] /\ found'[d] = found[d] /\ answer'[d] = answer[d]
          /\ quiet'[d] = quiet[d]

LEMMA OwnStep ==
    ASSUME Inv, NEW c \in Recalls, Own(c), TypeOK', CallInv(c)'
    PROVE  Inv'
<1>1. ASSUME NEW d \in Recalls \ {c} PROVE CallInv(d)'
  BY Untouched DEF Own, Inv
<1> QED
  BY <1>1 DEF Inv

LEMMA NothingSearched == Range(<<>>) = {} /\ Distinct(<<>>)
BY DEF Range, Distinct

LEMMA BeginInv ==
    ASSUME Inv, NEW c \in Recalls, Begin(c)
    PROVE  Inv'
<1> USE DEF Begin, Goto, boot, others
<1>1. TypeOK'
  BY UsedFacts DEF Inv, TypeOK, PCs
<1>2. Own(c)
  BY DEF Inv, TypeOK, Own
<1>3. CallInv(c)'
  <2>1. pc'[c] = "embed" /\ found[c] = <<>>
    BY DEF Inv, TypeOK, CallInv
  <2> QED
    BY <2>1, NothingSearched DEF Inv, CallInv
<1> QED
  BY <1>1, <1>2, <1>3, OwnStep

Outcomes == {"none", "ok", "error", "topk_limit"}

LEMMA ReplyFacts ==
    ASSUME TypeOK, NEW c \in Recalls, NEW status \in Outcomes, NEW hits \in Seq(Hit),
           Reply(c, status, hits)
    PROVE  /\ pc' \in [Recalls -> PCs]
           /\ answer' \in [Recalls -> [status : Outcomes, hits : Seq(Hit)]]
           /\ pc'[c] = "done" /\ answer'[c].status = status /\ answer'[c].hits = hits
           /\ \A d \in Recalls \ {c} : pc'[d] = pc[d] /\ answer'[d] = answer[d]
<1> DEFINE a == [status |-> status, hits |-> hits]
           A == [status : Outcomes, hits : Seq(Hit)]
<1>1. a \in A /\ a.status = status /\ a.hits = hits
  OBVIOUS
<1>2. answer \in [Recalls -> A] /\ answer' = [answer EXCEPT ![c] = a]
  BY DEF TypeOK, Outcomes, Reply
<1> HIDE DEF a, A
<1>3. answer' \in [Recalls -> A] /\ answer'[c] = a
  BY <1>1, <1>2
<1>4. \A d \in Recalls \ {c} : answer'[d] = answer[d]
  BY <1>2
<1>5. /\ pc' \in [Recalls -> PCs] /\ pc'[c] = "done"
      /\ \A d \in Recalls \ {c} : pc'[d] = pc[d]
  BY DEF Reply, Goto, TypeOK, PCs
<1> QED
  BY <1>1, <1>3, <1>4, <1>5 DEF A

LEMMA NextSearchFacts ==
    ASSUME TypeOK, NEW c \in Recalls, todo[c] # <<>>, NextSearch(c)
    PROVE  /\ pc' \in [Recalls -> PCs]
           /\ todo' \in [Recalls -> Seq(Search)]
           /\ entries' \in [Recalls -> Seq(Entry)]
           /\ pc'[c] = "search" /\ entries'[c] = <<>>
           /\ \A d \in Recalls \ {c} :
                 pc'[d] = pc[d] /\ todo'[d] = todo[d] /\ entries'[d] = entries[d]
<1> USE DEF NextSearch, Goto, TypeOK
<1>1. Tail(todo[c]) \in Seq(Search)
  OBVIOUS
<1>2. <<>> \in Seq(Entry)
  OBVIOUS
<1> QED
  BY <1>1, <1>2 DEF PCs

LEMMA EmbedInv ==
    ASSUME Inv, NEW c \in Recalls, EmbedExpansions(c) \/ EmbedFails(c)
    PROVE  Inv'
<1> USE DEF EmbedExpansions, EmbedFails, boot, others
<1>1. CASE EmbedExpansions(c)
  <2>1. TypeOK'
    BY <1>1 DEF Inv, TypeOK, PCs, Goto
  <2>2. Own(c)
    BY <1>1 DEF Inv, TypeOK, Own, Goto
  <2>3. CallInv(c)'
    BY <1>1 DEF Inv, TypeOK, CallInv, Goto
  <2> QED
    BY <2>1, <2>2, <2>3, OwnStep
<1>2. CASE EmbedFails(c)
  <2>1. TypeOK
    BY DEF Inv
  <2>2. <<>> \in Seq(Hit) /\ "error" \in Outcomes
    BY DEF Outcomes
  <2>3. Reply(c, "error", <<>>)
    BY <1>2
  <2>4. /\ pc' \in [Recalls -> PCs]
        /\ answer' \in [Recalls -> [status : Outcomes, hits : Seq(Hit)]]
        /\ pc'[c] = "done" /\ answer'[c].status = "error" /\ answer'[c].hits = <<>>
        /\ \A d \in Recalls \ {c} : pc'[d] = pc[d] /\ answer'[d] = answer[d]
    BY <2>1, <2>2, <2>3, ReplyFacts
  <2>5. TypeOK'
    BY <1>2, <2>1, <2>4 DEF TypeOK, Outcomes
  <2>6. Own(c)
    BY <1>2, <2>4 DEF Own
  <2>7. CallInv(c)'
    BY <1>2, <2>4, NothingSearched DEF Inv, CallInv
  <2> QED
    BY <2>5, <2>6, <2>7, OwnStep
<1> QED
  BY <1>1, <1>2

LEMMA StartSearchInv ==
    ASSUME Inv, NEW c \in Recalls, StartSearch(c)
    PROVE  Inv'
<1> USE DEF StartSearch, Goto, boot, others
<1>1. TypeOK'
  BY DEF Inv, TypeOK, PCs
<1>2. Own(c)
  BY DEF Inv, TypeOK, Own
<1>3. CallInv(c)'
  <2>1. pc[c] = "search" /\ pc'[c] = "score" /\ client'[c] = wired
    BY DEF Inv, TypeOK
  <2> QED
    BY <2>1 DEF Inv, CallInv
<1> QED
  BY <1>1, <1>2, <1>3, OwnStep

\* The running search is one of the recall's.
LEMMA HeadFacts ==
    ASSUME TypeOK, NEW c \in Recalls, todo[c] # <<>>
    PROVE  /\ Head(todo[c]) \in Search
           /\ Head(todo[c]).query \in Queries /\ Head(todo[c]).k \in Nat
<1>1. Head(todo[c]) \in Search
  BY DEF TypeOK
<1> QED
  BY <1>1 DEF Search

\* A search that is over leaves the recall as it was.
LEMMA SearchOverInv ==
    ASSUME Inv, NEW c \in Recalls, pc[c] \in {"score", "decrypt", "metadata"}, NextSearch(c),
           UNCHANGED <<boot, others, stage, client, found, answer, quiet>>
    PROVE  Inv'
<1>1. TypeOK /\ CallInv(c) /\ todo[c] # <<>>
  BY DEF Inv, CallInv
<1>2. /\ pc' \in [Recalls -> PCs]
      /\ todo' \in [Recalls -> Seq(Search)]
      /\ entries' \in [Recalls -> Seq(Entry)]
      /\ pc'[c] = "search" /\ entries'[c] = <<>>
      /\ \A d \in Recalls \ {c} :
            pc'[d] = pc[d] /\ todo'[d] = todo[d] /\ entries'[d] = entries[d]
  BY <1>1, NextSearchFacts
<1>3. TypeOK'
  BY <1>1, <1>2 DEF TypeOK, boot, others
<1>4. Own(c)
  BY <1>2 DEF Own, boot, others
<1>5. CallInv(c)'
  BY <1>1, <1>2, NothingSearched DEF CallInv, boot, others
<1> QED
  BY <1>3, <1>4, <1>5, OwnStep

LEMMA ScoreInv ==
    ASSUME Inv, NEW c \in Recalls, Score(c)
    PROVE  Inv'
<1> DEFINE search == Head(todo[c])
           rows == index[client[c]]
<1>1. TypeOK /\ CallInv(c) /\ todo[c] # <<>> /\ pc[c] = "score"
  BY DEF Inv, CallInv, Score
<1>2. PICK newestFirst \in BOOLEAN :
         LET best == Best_k(rows, search.query, search.k, newestFirst)
         IN  IF best = <<>> THEN NextSearch(c)
             ELSE /\ entries' = [entries EXCEPT ![c] = best]
                  /\ Goto(c, "decrypt")
                  /\ UNCHANGED todo
  BY DEF Score
<1>3. search.query \in Queries /\ search.k \in Nat
  BY <1>1, HeadFacts
<1>4. rows \in Seq(Row)
  BY <1>1 DEF TypeOK
<1> DEFINE best == Best_k(rows, search.query, search.k, newestFirst)
<1>5. /\ best \in Seq(Entry)
      /\ \A i \in DOMAIN best : OfRow(best[i], rows) /\ Likely(best[i].score)
  BY <1>3, <1>4, SelectedFacts
<1>6. CASE best = <<>>
  BY <1>1, <1>2, <1>6, SearchOverInv DEF Score
<1>7. CASE best # <<>>
  <2>1. entries' = [entries EXCEPT ![c] = best] /\ Goto(c, "decrypt") /\ UNCHANGED todo
    BY <1>2, <1>7
  <2>2. UNCHANGED <<boot, others, stage, client, found, answer, quiet>>
    BY DEF Score
  <2> HIDE DEF best
  <2>3. TypeOK'
    BY <1>1, <1>5, <2>1, <2>2 DEF TypeOK, Goto, PCs, boot, others
  <2>4. Own(c)
    BY <1>1, <2>1, <2>2 DEF Own, TypeOK, Goto, boot, others
  <2>5. pc'[c] = "decrypt" /\ entries'[c] = best
    BY <1>1, <2>1 DEF TypeOK, Goto
  <2>6. \A e \in Range(best) : OfRow(e, rows) /\ Likely(e.score)
    BY <1>5 DEF Range
  <2>7. CallInv(c)'
    BY <1>1, <2>1, <2>2, <2>5, <2>6 DEF CallInv, boot, others
  <2> QED
    BY <2>3, <2>4, <2>7, OwnStep
<1> QED
  BY <1>6, <1>7

LEMMA DecryptInv ==
    ASSUME Inv, NEW c \in Recalls, DecryptScores(c) \/ TopKExceeded(c)
    PROVE  Inv'
<1>1. CASE DecryptScores(c)
  <2> USE <1>1 DEF DecryptScores, Goto, boot, others
  <2>1. TypeOK'
    BY DEF Inv, TypeOK, PCs
  <2>2. Own(c)
    BY DEF Inv, TypeOK, Own
  <2>3. pc[c] = "decrypt" /\ pc'[c] = "metadata"
    BY DEF Inv, TypeOK
  <2>4. CallInv(c)'
    BY <2>3 DEF Inv, CallInv
  <2> QED
    BY <2>1, <2>2, <2>4, OwnStep
<1>2. CASE TopKExceeded(c) /\ stage[c] = "groups"
  <2>1. /\ pc[c] = "decrypt" /\ NextSearch(c)
        /\ UNCHANGED <<boot, others, stage, client, found, answer, quiet>>
    BY <1>2 DEF TopKExceeded
  <2> QED
    BY <2>1, SearchOverInv
<1>3. CASE TopKExceeded(c) /\ stage[c] # "groups"
  <2>1. TypeOK /\ CallInv(c)
    BY DEF Inv
  <2>2. /\ pc[c] = "decrypt" /\ Reply(c, "topk_limit", <<>>)
        /\ UNCHANGED <<boot, others, stage, client, found, quiet>>
        /\ UNCHANGED <<todo, entries>>
    BY <1>3 DEF TopKExceeded
  <2>3. <<>> \in Seq(Hit) /\ "topk_limit" \in Outcomes
    BY DEF Outcomes
  <2>4. /\ pc' \in [Recalls -> PCs]
        /\ answer' \in [Recalls -> [status : Outcomes, hits : Seq(Hit)]]
        /\ pc'[c] = "done" /\ answer'[c].status = "topk_limit" /\ answer'[c].hits = <<>>
        /\ \A d \in Recalls \ {c} : pc'[d] = pc[d] /\ answer'[d] = answer[d]
    BY <2>1, <2>2, <2>3, ReplyFacts
  <2>5. TypeOK'
    BY <2>1, <2>2, <2>4 DEF TypeOK, Outcomes, boot, others
  <2>6. Own(c)
    BY <2>2, <2>4 DEF Own, boot, others
  <2>7. CallInv(c)'
    BY <2>1, <2>2, <2>4, NothingSearched DEF CallInv
  <2> QED
    BY <2>5, <2>6, <2>7, OwnStep
<1> QED
  BY <1>1, <1>2, <1>3

\* Resolve adds hits with the scores of entries, of rows in the index in use.
LEMMA ResolveInv ==
    ASSUME Inv, NEW c \in Recalls, Resolve(c)
    PROVE  Inv'
<1> DEFINE rows == index[wired]
           group == Head(todo[c]).group
           places == {e.pos : e \in Range(entries[c])}
<1>1. TypeOK /\ CallInv(c) /\ pc[c] = "metadata" /\ todo[c] # <<>>
  BY DEF Inv, CallInv, Resolve
<1>2. /\ places \subseteq DOMAIN rows
      /\ \E readable \in SUBSET {p \in places : rows[p].form = "sealed"} :
            LET hits == ResolvedHits(entries[c], rows, readable)
                more == IF group = NotAsked THEN hits ELSE Members(hits, group)
            IN  found' = [found EXCEPT ![c] = Merged(@, more)]
  BY DEF Resolve
<1>3. NextSearch(c) /\ UNCHANGED <<boot, others, stage, client, answer, quiet>>
  BY DEF Resolve
<1>4. rows \in Seq(Row) /\ entries[c] \in Seq(Entry) /\ found[c] \in Seq(Hit)
  BY <1>1 DEF TypeOK
<1>5. \A i \in DOMAIN entries[c] : entries[c][i].pos \in DOMAIN rows
  <2>1. \A i \in DOMAIN entries[c] : entries[c][i].pos \in places
    BY DEF Range
  <2> HIDE DEF places, rows
  <2> QED
    BY <1>2, <2>1
<1>6. PICK readable :
         LET hits == ResolvedHits(entries[c], rows, readable)
             more == IF group = NotAsked THEN hits ELSE Members(hits, group)
         IN  found' = [found EXCEPT ![c] = Merged(@, more)]
  BY <1>2
<1> DEFINE hits == ResolvedHits(entries[c], rows, readable)
           more == IF group = NotAsked THEN hits ELSE Members(hits, group)
           out == Merged(found[c], more)
<1>7. /\ hits \in Seq(Hit)
      /\ \A h \in Range(hits) : \E e \in Range(entries[c]) :
            h.row = rows[e.pos] /\ h.score = e.score
  <2> HIDE DEF rows, places
  <2> QED
    BY <1>4, <1>5, ResolvedFacts
<1>8. found' = [found EXCEPT ![c] = out]
  BY <1>6
<1> HIDE DEF hits
<1>9. more \in Seq(Hit) /\ Range(more) \subseteq Range(hits)
  BY <1>7, MembersFacts
<1>10. Distinct(found[c])
  BY <1>1 DEF CallInv
<1> HIDE DEF more, group
<1>11. out \in Seq(Hit) /\ Distinct(out) /\ Range(out) \subseteq Range(found[c]) \union Range(more)
  BY <1>4, <1>9, <1>10, MergedFacts
<1> HIDE DEF out
<1>12. /\ found' \in [Recalls -> Seq(Hit)] /\ found'[c] = out
       /\ \A d \in Recalls \ {c} : found'[d] = found[d]
  BY <1>1, <1>8, <1>11 DEF TypeOK
<1>13. /\ pc' \in [Recalls -> PCs]
       /\ todo' \in [Recalls -> Seq(Search)]
       /\ entries' \in [Recalls -> Seq(Entry)]
       /\ pc'[c] = "search" /\ entries'[c] = <<>>
       /\ \A d \in Recalls \ {c} :
             pc'[d] = pc[d] /\ todo'[d] = todo[d] /\ entries'[d] = entries[d]
  BY <1>1, <1>3, NextSearchFacts
<1>14. TypeOK'
  BY <1>1, <1>3, <1>12, <1>13 DEF TypeOK, boot, others
<1>15. Own(c)
  BY <1>3, <1>12, <1>13 DEF Own, boot, others
<1>16. ASSUME NEW h \in Range(out)
       PROVE  \/ h \in Range(found[c])
              \/ \E e \in Range(entries[c]) : h.row = rows[e.pos] /\ h.score = e.score
  BY <1>7, <1>9, <1>11
<1>17. \A h \in Range(out) : Likely(h.score)
  BY <1>1, <1>16 DEF CallInv
<1>18. ASSUME quiet[c] PROVE gate = "active" /\ \A h \in Range(out) : OfIndex(h, rows)
  <2>1. /\ gate = "active"
        /\ \A e \in Range(entries[c]) : OfRow(e, rows)
        /\ \A h \in Range(found[c]) : OfIndex(h, rows)
    BY <1>1, <1>18 DEF CallInv
  <2> HIDE DEF rows
  <2>2. ASSUME NEW h \in Range(out), NEW e \in Range(entries[c]),
               h.row = rows[e.pos], h.score = e.score
        PROVE  OfIndex(h, rows)
    <3>1. OfRow(e, rows)
      BY <2>1
    <3> QED
      BY <2>2, <3>1 DEF OfIndex, OfRow, Range
  <2> QED
    BY <1>16, <2>1, <2>2
<1>19. CallInv(c)'
  BY <1>1, <1>3, <1>11, <1>12, <1>13, <1>17, <1>18, NothingSearched DEF CallInv, boot, others
<1> QED
  BY <1>14, <1>15, <1>19, OwnStep

LEMMA AskOriginalInv ==
    ASSUME Inv, NEW c \in Recalls, AskOriginal(c)
    PROVE  Inv'
<1> DEFINE search == [query |-> Original, k |-> TopK, group |-> NotAsked]
<1>1. TypeOK /\ CallInv(c) /\ pc[c] = "search"
  BY DEF Inv, AskOriginal, SearchesDone
<1>2. /\ stage' = [stage EXCEPT ![c] = "original"]
      /\ todo' = todo \/ todo' = [todo EXCEPT ![c] = <<search>>]
      /\ UNCHANGED <<boot, others, pc, client, entries, found, answer, quiet>>
  BY DEF AskOriginal
<1>3. search \in Search
  <2>1. Original \in Queries /\ TopK \in Nat
    BY PipelineAssumption DEF Queries
  <2> QED
    BY <2>1 DEF Search
<1> HIDE DEF search
<1>4. <<search>> \in Seq(Search)
  BY <1>3
<1>5. todo' \in [Recalls -> Seq(Search)] /\ \A d \in Recalls \ {c} : todo'[d] = todo[d]
  BY <1>1, <1>2, <1>4 DEF TypeOK
<1>6. TypeOK'
  BY <1>1, <1>2, <1>5 DEF TypeOK, boot, others
<1>7. Own(c)
  BY <1>2, <1>5 DEF Own, boot, others
<1>8. CallInv(c)'
  BY <1>1, <1>2 DEF CallInv, boot, others
<1> QED
  BY <1>6, <1>7, <1>8, OwnStep

\* The searches for the rest of groups ask for groups that were found.
LEMMA GroupSearches ==
    ASSUME NEW hits \in Seq(Hit), NEW order \in GroupOrders(hits, Incomplete(hits)),
           NEW searches,
           searches = [i \in 1 .. Min({2, Len(order)}) |->
                          [query |-> order[i], group |-> order[i],
                           k |-> Head(Members(hits, order[i])).row.total]]
    PROVE  searches \in Seq(Search)
<1> DEFINE m == Min({2, Len(order)})
           total(i) == Head(Members(hits, order[i])).row.total
<1>1. Incomplete(hits) \in SUBSET GroupsOf(hits)
  BY DEF Incomplete
<1>2. /\ order \in Seq(Incomplete(hits)) /\ Len(order) \in Nat
      /\ DOMAIN order = 1 .. Len(order)
  BY <1>1, GroupOrderFacts
<1>3. m \in Nat /\ m <= Len(order)
  BY <1>2, LesserOfTwo
<1>4. ASSUME NEW i \in 1 .. m PROVE order[i] \in Groups /\ order[i] \in Queries /\ total(i) \in Nat
  <2>1. order[i] \in GroupsOf(hits)
    <3>1. i \in DOMAIN order
      BY <1>2, <1>3
    <3> QED
      BY <1>1, <1>2, <3>1
  <2>2. order[i] \in Groups /\ Head(Members(hits, order[i])) \in Hit
    BY <2>1, GroupHasMember
  <2> QED
    BY <2>2 DEF Hit, Row, Queries
<1> DEFINE search(i) == [query |-> order[i], group |-> order[i], k |-> total(i)]
<1>5. searches = [i \in 1 .. m |-> search(i)]
  OBVIOUS
<1> HIDE DEF m, total
<1>6. \A i \in 1 .. m : search(i) \in Search
  BY <1>4 DEF Search
<1> HIDE DEF search
<1> QED
  BY ONLY <1>3, <1>5, <1>6

LEMMA ExpandInv ==
    ASSUME Inv, NEW c \in Recalls, ExpandGroups(c)
    PROVE  Inv'
<1> DEFINE hits == ByScore(found[c])
           searches(order) ==
               [i \in 1 .. Min({2, Len(order)}) |->
                   [query |-> order[i], group |-> order[i],
                    k |-> Head(Members(hits, order[i])).row.total]]
<1>1. TypeOK /\ CallInv(c) /\ pc[c] = "search"
  BY DEF Inv, ExpandGroups, SearchesDone
<1>2. /\ stage' = [stage EXCEPT ![c] = "groups"]
      /\ found' = [found EXCEPT ![c] = hits]
      /\ UNCHANGED <<boot, others, pc, client, entries, answer, quiet>>
  BY DEF ExpandGroups
<1>3. PICK order \in GroupOrders(hits, Incomplete(hits)) :
              todo' = [todo EXCEPT ![c] = searches(order)]
  BY DEF ExpandGroups
<1>4. found[c] \in Seq(Hit) /\ Distinct(found[c])
  BY <1>1 DEF TypeOK, CallInv
<1>5. hits \in Seq(Hit) /\ Distinct(hits) /\ Range(hits) \subseteq Range(found[c])
  BY <1>4, ByScoreFacts
<1>6. searches(order) \in Seq(Search)
  <2> HIDE DEF hits
  <2> QED
    BY <1>5, GroupSearches
<1> HIDE DEF hits, searches
<1>7. todo' \in [Recalls -> Seq(Search)] /\ \A d \in Recalls \ {c} : todo'[d] = todo[d]
  BY <1>1, <1>3, <1>6 DEF TypeOK
<1>8. /\ found' \in [Recalls -> Seq(Hit)] /\ found'[c] = hits
      /\ \A d \in Recalls \ {c} : found'[d] = found[d]
  BY <1>1, <1>2, <1>5 DEF TypeOK
<1>9. TypeOK'
  BY <1>1, <1>2, <1>7, <1>8 DEF TypeOK, boot, others
<1>10. Own(c)
  BY <1>2, <1>7, <1>8 DEF Own, boot, others
<1>11. CallInv(c)'
  BY <1>1, <1>2, <1>5, <1>8 DEF CallInv, boot, others
<1> QED
  BY <1>9, <1>10, <1>11, OwnStep

\* A score that is likely is greater than the -1.0 of an exhausted list.
LEMMA LikelyScores ==
    ASSUME NEW hits \in Seq(Hit), \A h \in Range(hits) : Likely(h.score)
    PROVE  \A i \in DOMAIN hits : hits[i].score > 0 - Scale
<1>1. \A i \in DOMAIN hits : Likely(hits[i].score)
  BY DEF Range
<1>2. Scale \in Int
  BY RankingAssumption
<1> QED
  BY <1>1, <1>2 DEF Likely

LEMMA AssembledFound ==
    ASSUME Inv, NEW c \in Recalls, AssembleGroups(c)
    PROVE  /\ found' \in [Recalls -> Seq(Hit)]
           /\ IsAssembly(found[c], found'[c]) /\ Distinct(found'[c])
           /\ \A d \in Recalls \ {c} : found'[d] = found[d]
<1>1. TypeOK /\ CallInv(c)
  BY DEF Inv
<1>2. PICK out \in Assemblies(found[c]) : found' = [found EXCEPT ![c] = out]
  BY DEF AssembleGroups
<1>3. /\ found[c] \in Seq(Hit) /\ Distinct(found[c])
      /\ \A i \in DOMAIN found[c] : found[c][i].score > 0 - Scale
  <2>1. found[c] \in Seq(Hit) /\ Distinct(found[c]) /\ \A h \in Range(found[c]) : Likely(h.score)
    BY <1>1 DEF TypeOK, CallInv
  <2> QED
    BY <2>1, LikelyScores
<1>4. out \in Seq(Hit) /\ IsAssembly(found[c], out) /\ Distinct(out)
  BY <1>3, AssembliesFacts
<1>5. found' \in [Recalls -> Seq(Hit)] /\ found'[c] = out
  BY <1>1, <1>2, <1>4 DEF TypeOK
<1>6. \A d \in Recalls \ {c} : found'[d] = found[d]
  BY <1>1, <1>2 DEF TypeOK
<1> QED
  BY <1>4, <1>5, <1>6

LEMMA AssembleInv ==
    ASSUME Inv, NEW c \in Recalls, AssembleGroups(c)
    PROVE  Inv'
<1>1. TypeOK /\ CallInv(c) /\ pc[c] = "search"
  BY DEF Inv, AssembleGroups, SearchesDone
<1>2. /\ found' \in [Recalls -> Seq(Hit)]
      /\ IsAssembly(found[c], found'[c]) /\ Distinct(found'[c])
      /\ \A d \in Recalls \ {c} : found'[d] = found[d]
  BY AssembledFound
<1>3. Goto(c, "rank") /\ UNCHANGED <<boot, others, stage, todo, client, entries, answer, quiet>>
  BY DEF AssembleGroups
<1>4. /\ pc' \in [Recalls -> PCs] /\ pc'[c] = "rank"
      /\ \A d \in Recalls \ {c} : pc'[d] = pc[d]
  BY <1>1, <1>3 DEF TypeOK, Goto, PCs
<1>5. TypeOK'
  BY <1>1, <1>2, <1>3, <1>4 DEF TypeOK, boot, others
<1>6. Own(c)
  BY <1>2, <1>3, <1>4 DEF Own, boot, others
<1>7. Range(found'[c]) = Range(found[c])
  BY <1>2 DEF IsAssembly
<1>8. CallInv(c)'
  BY <1>1, <1>2, <1>3, <1>4, <1>7 DEF CallInv, boot, others
<1> QED
  BY <1>5, <1>6, <1>8, OwnStep

LEMMA RankInv ==
    ASSUME Inv, NEW c \in Recalls, Rank(c)
    PROVE  Inv'
<1> DEFINE hits == Ranked(found[c], TopK)
<1>1. TypeOK /\ CallInv(c)
  BY DEF Inv
<1>2. /\ Reply(c, "ok", hits)
      /\ UNCHANGED <<boot, others, stage, todo, client, entries, found, quiet>>
  BY DEF Rank
<1>3. TopK \in Nat /\ found[c] \in Seq(Hit) /\ Distinct(found[c])
  BY <1>1, PipelineAssumption DEF TypeOK, CallInv
<1>4. hits \in Seq(Hit) /\ Distinct(hits) /\ IsBest(found[c], TopK, hits)
  BY <1>3, RankedFacts
<1> HIDE DEF hits
<1>5. /\ pc' \in [Recalls -> PCs]
      /\ answer' \in [Recalls -> [status : Outcomes, hits : Seq(Hit)]]
      /\ pc'[c] = "done" /\ answer'[c].status = "ok" /\ answer'[c].hits = hits
      /\ \A d \in Recalls \ {c} : pc'[d] = pc[d] /\ answer'[d] = answer[d]
  <2>1. "ok" \in Outcomes
    BY DEF Outcomes
  <2> QED
    BY <1>1, <1>2, <1>4, <2>1, ReplyFacts
<1>6. TypeOK'
  BY <1>1, <1>2, <1>5 DEF TypeOK, Outcomes, boot, others
<1>7. Own(c)
  BY <1>2, <1>5 DEF Own, boot, others
<1>8. CallInv(c)'
  BY <1>1, <1>2, <1>4, <1>5 DEF CallInv
<1> QED
  BY <1>6, <1>7, <1>8, OwnStep

\* A boot loop only works while the gate is not active: it ends what is quiet.
LEMMA GateInv ==
    ASSUME Inv, Retrigger \/ InjectEnvector \/ BootEnds
    PROVE  Inv'
<1> USE DEF Retrigger, InjectEnvector, BootEnds, others
<1>1. TypeOK
  BY DEF Inv
<1>2. UNCHANGED <<index, roleTopK, infoHeld, pc, stage, todo, client, entries, found, answer>>
  OBVIOUS
<1>3. TypeOK'
  <2>1. gate' \in {"booting", "active", "dormant"} /\ wired' \in Gens
    BY <1>1 DEF TypeOK
  <2>2. quiet' \in [Recalls -> BOOLEAN]
    <3>1. CASE Retrigger
      <4>1. quiet' = [c \in Recalls |-> pc[c] \in {"idle", "done"}]
        BY <3>1
      <4>2. \A c \in Recalls : (pc[c] \in {"idle", "done"}) \in BOOLEAN
        OBVIOUS
      <4> QED
        BY ONLY <4>1, <4>2, Zenon
    <3>2. CASE InjectEnvector \/ BootEnds
      BY <1>1, <3>2 DEF TypeOK
    <3> QED
      BY <3>1, <3>2
  <2> QED
    BY <1>1, <1>2, <2>1, <2>2 DEF TypeOK
<1>4. ASSUME NEW c \in Recalls PROVE CallInv(c)'
  <2>1. CallInv(c)
    BY DEF Inv
  <2>2. quiet'[c] => pc[c] \in {"idle", "done"}
    BY <2>1 DEF CallInv
  <2> QED
    BY <1>2, <2>1, <2>2 DEF CallInv
<1> QED
  BY <1>3, <1>4 DEF Inv

\* Rows that are appended change no position.
LEMMA RowStoredInv ==
    ASSUME Inv, RowStored
    PROVE  Inv'
<1>1. TypeOK
  BY DEF Inv
<1>2. PICK r \in Coming : index' = [index EXCEPT ![wired] = Append(@, r)]
  BY DEF RowStored
<1>3. UNCHANGED <<boot, roleTopK, infoHeld, pc, stage, todo, client, entries, found, answer,
                  quiet>>
  BY DEF RowStored
<1> DEFINE rows == index[wired]
           longer == Append(rows, r)
<1>4. rows \in Seq(Row) /\ r \in Row
  BY <1>1, <1>2, PipelineAssumption DEF TypeOK
<1>5. /\ longer \in Seq(Row) /\ DOMAIN rows \subseteq DOMAIN longer
      /\ \A i \in DOMAIN rows : longer[i] = rows[i]
  BY <1>4
<1> HIDE DEF longer
<1>6. index' \in Seq(Seq(Row)) /\ DOMAIN index' = Gens /\ index'[wired] = longer
  <2>1. index \in [Gens -> Seq(Row)] /\ wired \in Gens
    BY <1>1 DEF TypeOK
  <2>2. index' \in [Gens -> Seq(Row)] /\ index'[wired] = longer
    BY <1>2, <1>5, <2>1 DEF longer
  <2>3. Gens = 1 .. Len(Indexes) /\ Len(Indexes) \in Nat
    BY PipelineAssumption DEF Gens
  <2> QED
    BY <2>2, <2>3
<1>7. TypeOK'
  BY <1>1, <1>3, <1>6 DEF TypeOK, boot
<1> HIDE DEF rows
<1>8. /\ \A e : OfRow(e, rows) => OfRow(e, longer)
      /\ \A h : OfIndex(h, rows) => OfIndex(h, longer)
  BY <1>5 DEF OfRow, OfIndex, Range
<1>9. ASSUME NEW c \in Recalls PROVE CallInv(c)'
  <2>1. CallInv(c)
    BY DEF Inv
  <2> QED
    BY <1>3, <1>6, <1>8, <2>1 DEF CallInv, boot, rows
<1> QED
  BY <1>7, <1>9 DEF Inv

\* The embedder's mutex decides when a recall goes on, not what it finds.
LEMMA MutexInv ==
    ASSUME Inv, OtherAsksInfo \/ OtherHasInfo
    PROVE  Inv'
<1>1. /\ UNCHANGED <<boot, index, roleTopK, pc, stage, todo, client, entries, found, answer,
                     quiet>>
      /\ infoHeld' \in BOOLEAN
  BY DEF OtherAsksInfo, OtherHasInfo
<1>2. TypeOK'
  BY <1>1 DEF Inv, TypeOK, boot
<1>3. ASSUME NEW c \in Recalls PROVE CallInv(c)'
  BY <1>1 DEF Inv, CallInv, boot
<1> QED
  BY <1>2, <1>3 DEF Inv

LEMMA NextInv == Inv /\ [Next]_vars => Inv'
<1> SUFFICES ASSUME Inv, [Next]_vars PROVE Inv'
  OBVIOUS
<1>1. CASE UNCHANGED vars
  BY <1>1 DEF Inv, TypeOK, CallInv, vars, boot, others
<1>2. ASSUME NEW c \in Recalls, Begin(c) PROVE Inv'
  BY <1>2, BeginInv
<1>3. ASSUME NEW c \in Recalls, EmbedExpansions(c) \/ EmbedFails(c) PROVE Inv'
  BY <1>3, EmbedInv
<1>4. ASSUME NEW c \in Recalls, StartSearch(c) PROVE Inv'
  BY <1>4, StartSearchInv
<1>5. ASSUME NEW c \in Recalls, Score(c) PROVE Inv'
  BY <1>5, ScoreInv
<1>6. ASSUME NEW c \in Recalls, DecryptScores(c) \/ TopKExceeded(c) PROVE Inv'
  BY <1>6, DecryptInv
<1>7. ASSUME NEW c \in Recalls, Resolve(c) PROVE Inv'
  BY <1>7, ResolveInv
<1>8. ASSUME NEW c \in Recalls, SearchFails(c) PROVE Inv'
  BY <1>8, SearchOverInv DEF SearchFails
<1>9. ASSUME NEW c \in Recalls, AskOriginal(c) PROVE Inv'
  BY <1>9, AskOriginalInv
<1>10. ASSUME NEW c \in Recalls, ExpandGroups(c) PROVE Inv'
  BY <1>10, ExpandInv
<1>11. ASSUME NEW c \in Recalls, AssembleGroups(c) PROVE Inv'
  BY <1>11, AssembleInv
<1>12. ASSUME NEW c \in Recalls, Rank(c) PROVE Inv'
  BY <1>12, RankInv
<1>13. ASSUME Retrigger \/ InjectEnvector \/ BootEnds PROVE Inv'
  BY <1>13, GateInv
<1>14. ASSUME RowStored PROVE Inv'
  BY <1>14, RowStoredInv
<1>15. ASSUME OtherAsksInfo \/ OtherHasInfo PROVE Inv'
  BY <1>15, MutexInv
<1> QED
  BY <1>1, <1>2, <1>3, <1>4, <1>5, <1>6, <1>7, <1>8, <1>9, <1>10, <1>11, <1>12, <1>13, <1>14,
     <1>15 DEF Next, RecallContinues

LEMMA InvHolds == Spec => []Inv
BY InitInv, NextInv, PTL DEF Spec

-----------------------------------------------------------------------------
(* Theorems. *)

\* Positions, scores, hits and answers are what their types say, for any index and any
\* answers of the services (runSearch, recall.go).
THEOREM PipelineTypeCorrect == Spec => []TypeOK
<1>1. Inv => TypeOK
  BY DEF Inv
<1> QED
  BY <1>1, InvHolds, PTL

\* No record is answered twice: every merge drops what was found before, and neither
\* sorting, assembling nor ranking copies a hit (mergeHits, assembleGroups).
THEOREM EachRecordOnce == Spec => []RecordsAnsweredOnce
<1>1. Inv => RecordsAnsweredOnce
  BY DEF Inv, CallInv, Distinct, RecordsAnsweredOnce
<1> QED
  BY <1>1, InvHolds, PTL

\* What a recall answers is the best of all it found (ApplyRecencyWeighting and the cut).
THEOREM BestOfAllFound == Spec => []BestAreAnswered
<1>1. Inv => BestAreAnswered
  BY DEF Inv, CallInv, BestAreAnswered
<1> QED
  BY <1>1, InvHolds, PTL

\* A hit has the score of its own record, and the record is in the index in use if no
\* boot loop ran since the recall began (searchSingle, resolveMetadata).
THEOREM HitsOwnTheirScores == Spec => []ScoresAreGenuine
<1>1. ASSUME Inv PROVE ScoresAreGenuine
  <2> SUFFICES ASSUME NEW c \in Recalls, pc[c] # "done", quiet[c], NEW h \in Range(found[c])
               PROVE  OfIndex(h, index[wired])
    BY DEF ScoresAreGenuine, OfIndex
  <2>1. CallInv(c)
    BY <1>1 DEF Inv
  <2>2. pc[c] # "idle"
    <3>1. pc[c] = "idle" => Range(found[c]) = {}
      BY <2>1, NothingSearched DEF CallInv
    <3> QED
      BY <3>1
  <2> QED
    BY <2>1, <2>2 DEF CallInv
<1> QED
  BY <1>1, InvHolds, PTL

\* Only assembleGroups takes a recall from its searches to the ranking.
LEMMA OnlyAssemblesRank ==
    ASSUME Inv, [Next]_vars, NEW c \in Recalls, pc[c] = "search", pc'[c] = "rank"
    PROVE  AssembleGroups(c)
<1>1. pc \in [Recalls -> PCs]
  BY DEF Inv, TypeOK
<1>2. ASSUME UNCHANGED pc PROVE FALSE
  BY <1>2
<1>3. ASSUME NEW d \in Recalls, NEW to, to # "rank", Goto(d, to) PROVE FALSE
  BY <1>1, <1>3 DEF Goto
<1>4. /\ ~UNCHANGED vars /\ ~Retrigger /\ ~InjectEnvector /\ ~BootEnds /\ ~RowStored
      /\ ~OtherAsksInfo /\ ~OtherHasInfo
  BY <1>2 DEF vars, Retrigger, InjectEnvector, BootEnds, RowStored, OtherAsksInfo, OtherHasInfo
<1>5. ASSUME NEW d \in Recalls PROVE ~NextSearch(d) /\ ~Reply(d, "ok", Ranked(found[d], TopK))
  BY <1>3 DEF NextSearch, Reply
<1>6. ASSUME NEW d \in Recalls PROVE ~Reply(d, "error", <<>>) /\ ~Reply(d, "topk_limit", <<>>)
  BY <1>3 DEF Reply
<1>7. ASSUME NEW d \in Recalls PROVE ~Begin(d) /\ ~EmbedExpansions(d) /\ ~EmbedFails(d)
  BY <1>3, <1>6 DEF Begin, EmbedExpansions, EmbedFails
<1>8. ASSUME NEW d \in Recalls
      PROVE  ~StartSearch(d) /\ ~DecryptScores(d) /\ ~TopKExceeded(d)
  BY <1>3, <1>5, <1>6 DEF StartSearch, DecryptScores, TopKExceeded
<1>9. ASSUME NEW d \in Recalls PROVE ~Score(d)
  <2>1. Score(d) => NextSearch(d) \/ Goto(d, "decrypt")
    BY DEF Score
  <2> QED
    BY <1>3, <1>5, <2>1
<1>10. ASSUME NEW d \in Recalls PROVE ~Resolve(d) /\ ~SearchFails(d) /\ ~Rank(d)
  BY <1>5 DEF Resolve, SearchFails, Rank
<1>11. ASSUME NEW d \in Recalls PROVE ~AskOriginal(d) /\ ~ExpandGroups(d)
  BY <1>2 DEF AskOriginal, ExpandGroups
<1>12. PICK d \in Recalls : AssembleGroups(d)
  BY <1>4, <1>7, <1>8, <1>9, <1>10, <1>11 DEF Next, RecallContinues
<1>13. d = c
  BY <1>1, <1>12 DEF AssembleGroups, Goto
<1> QED
  BY <1>12, <1>13

\* The merge loop places every hit by its group or its score, loses none and doubles none,
\* for any number of hits and groups (assembleGroups).
THEOREM MergeLoopIsSound == Spec => AssembliesAreSound
<1> DEFINE sound == \A c \in Recalls :
               pc[c] = "search" /\ pc'[c] = "rank" => IsAssembly(found[c], found'[c])
<1>1. Inv /\ [Next]_vars => [sound]_vars
  BY OnlyAssemblesRank, AssembledFound
<1>2. Spec => [][Next]_vars
  BY DEF Spec
<1>3. Spec => [][sound]_vars
  BY <1>1, <1>2, InvHolds, PTL
<1> QED
  BY <1>3 DEF AssembliesAreSound
=============================================================================

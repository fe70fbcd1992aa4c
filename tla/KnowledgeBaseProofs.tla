------------------------- MODULE KnowledgeBaseProofs -------------------------
(***************************************************************************)
(* Proofs about KnowledgeBase: what the indexing graph leaves in the two   *)
(* stores, and that the Reranker ranks as reciprocal rank fusion should,   *)
(* whatever the files, their lengths and the lists found.                  *)
(***************************************************************************)
EXTENDS KnowledgeBase, FiniteSetTheorems, TLAPS

Inv == TypeOK /\ IndexInv /\ QueryInv

-----------------------------------------------------------------------------
(* Fractions.                                                              *)

(* A product grows with its factors.                                       *)
LEMMA ProductsGrow ==
    ASSUME NEW a \in Nat \ {0}, NEW b \in Nat, NEW c \in Nat, b < c
    PROVE  a * b < a * c
  OBVIOUS

(* 1/a + 1/b > 1/c when a < c.                                             *)
LEMMA SumBeatsLater ==
    ASSUME NEW a \in Nat \ {0}, NEW b \in Nat \ {0}, NEW c \in Nat \ {0}, a < c
    PROVE  a * b < (a + b) * c
<1>1. a * b < c * b
  BY ProductsGrow
<1>2. (a + b) * c = a * c + c * b /\ a * c \in Nat /\ a * b \in Nat /\ c * b \in Nat
  OBVIOUS
<1>3. QED
  BY <1>1, <1>2

(* 1/a + 1/b > 1/c when no denominator is twice another: found by both     *)
(* searches beats found by one.                                            *)
LEMMA SumBeatsOne ==
    ASSUME NEW a \in Nat \ {0}, NEW b \in Nat \ {0}, NEW c \in Nat \ {0},
           a < 2 * c, b < 2 * c
    PROVE  a * b < (a + b) * c
<1>1. a * b < 2 * c * b
  BY ProductsGrow
<1>2. a * b < 2 * c * a
  BY ProductsGrow
<1>3. (a + b) * c = c * a + c * b /\ c * a \in Nat /\ a * b \in Nat /\ c * b \in Nat
  OBVIOUS
<1>4. 2 * c * b = 2 * (c * b) /\ 2 * c * a = 2 * (c * a)
  OBVIOUS
<1>5. QED
  BY <1>1, <1>2, <1>3, <1>4

(* 1/a + 1/b > 1/c + 1/d when a < c and b < d.                             *)
LEMMA SumsCompare ==
    ASSUME NEW a \in Nat \ {0}, NEW b \in Nat \ {0}, NEW c \in Nat \ {0}, NEW d \in Nat \ {0},
           a < c, b < d
    PROVE  (c + d) * (a * b) < (a + b) * (c * d)
<1>1. a * c * b < a * c * d
  BY ProductsGrow, a * c \in Nat \ {0}
<1>2. b * d * a < b * d * c
  BY ProductsGrow, b * d \in Nat \ {0}
<1>3. (c + d) * (a * b) = a * c * b + b * d * a
  OBVIOUS
<1>4. (a + b) * (c * d) = a * c * d + b * d * c
  OBVIOUS
<1>5. a * c * b \in Nat /\ a * c * d \in Nat /\ b * d * a \in Nat /\ b * d * c \in Nat
  OBVIOUS
<1>6. QED
  BY <1>1, <1>2, <1>3, <1>4, <1>5

-----------------------------------------------------------------------------
(* Scores.                                                                 *)

Lists == [Stores -> Hits]

HitsOf(lists) == ToSet(lists["milvus"]) \cup ToSet(lists["es"])

(* A list of hits: it is a sequence of at most TopK chunks, the place of   *)
(* a hit is the rank of its id, and the share of that id is its reciprocal.*)
LEMMA HitList ==
    ASSUME NEW list \in Hits
    PROVE  /\ \E n \in 0..TopK : list \in [1..n -> Chunks]
           /\ \A x, y \in DOMAIN list : list[x].id = list[y].id => x = y
           /\ \A x \in DOMAIN list : In(list, list[x].id) /\ RankIn(list, list[x].id) = x
           /\ IsFiniteSet(ToSet(list)) /\ ToSet(list) \subseteq Chunks
<1>0. TopK \in Nat \ {0}
  BY KnowledgeAssumption
<1>1. PICK n \in 0..TopK : list \in [1..n -> Chunks]
  BY <1>0 DEF Hits
<1>2. \A x, y \in DOMAIN list : list[x].id = list[y].id => x = y
  BY DEF Hits
<1>3. \A x \in DOMAIN list : In(list, list[x].id) /\ RankIn(list, list[x].id) = x
  BY <1>2 DEF In, RankIn
<1>4. 1 \in Int /\ n \in Int
  BY <1>0
<1>5. IsFiniteSet(1..n)
  BY <1>4, FS_Interval
<1>6. list \in Surjection(1..n, ToSet(list))
  BY <1>1 DEF Surjection, ToSet
<1>7. IsFiniteSet(ToSet(list))
  BY <1>5, <1>6, FS_Surjection
<1>8. ToSet(list) \subseteq Chunks
  BY <1>1 DEF ToSet
<1>9. QED
  BY <1>1, <1>2, <1>3, <1>7, <1>8

(* The rank of an id that is found is a place in the list.                 *)
LEMMA RankIsPlace ==
    ASSUME NEW list \in Hits, NEW i, In(list, i)
    PROVE  /\ RankIn(list, i) \in 1..TopK
           /\ RankIn(list, i) \in DOMAIN list
           /\ list[RankIn(list, i)].id = i
           /\ list[RankIn(list, i)] \in ToSet(list)
           /\ Share(list, i) = <<1, K + RankIn(list, i)>>
<1>0. TopK \in Nat \ {0}
  BY KnowledgeAssumption
<1>1. PICK n \in 0..TopK : list \in [1..n -> Chunks]
  BY HitList
<1>2. PICK x \in DOMAIN list : list[x].id = i
  BY DEF In
<1>3. RankIn(list, i) = x
  BY <1>2, HitList
<1>4. x \in 1..TopK
  BY <1>0, <1>1, <1>2
<1>5. QED
  BY <1>2, <1>3, <1>4 DEF ToSet, Share

(* An id that outranks another has the higher score.  With a TopK of K + 2 *)
(* or more this would be false: two last places would weigh as much as one *)
(* first place.                                                            *)
LEMMA OutrankingScores ==
    ASSUME NEW lists \in Lists, NEW i, NEW j, TopK <= K + 1,
           Outranks(lists, i, j), \E s \in Stores : In(lists[s], j)
    PROVE  ~AtLeast(Score(lists, j), Score(lists, i))
<1> DEFINE m == lists["milvus"]
           e == lists["es"]
<1>0. TopK \in Nat \ {0} /\ TopK <= 61 /\ K = 60
  BY KnowledgeAssumption DEF K
<1>1. m \in Hits /\ e \in Hits
  BY DEF Lists, Stores
<1>2. \A x : In(m, x) => /\ K + RankIn(m, x) \in 61..121
                         /\ Share(m, x) = <<1, K + RankIn(m, x)>>
                         /\ RankIn(m, x) \in Nat
  BY <1>0, <1>1, RankIsPlace
<1>3. \A x : In(e, x) => /\ K + RankIn(e, x) \in 61..121
                         /\ Share(e, x) = <<1, K + RankIn(e, x)>>
                         /\ RankIn(e, x) \in Nat
  BY <1>0, <1>1, RankIsPlace
<1>4. \A x : ~In(m, x) => Share(m, x) = <<0, 1>>
  BY DEF Share
<1>5. \A x : ~In(e, x) => Share(e, x) = <<0, 1>>
  BY DEF Share
<1>6. \A x : /\ In(m, x) /\ In(e, x) =>
                  Score(lists, x) = <<(K + RankIn(m, x)) + (K + RankIn(e, x)),
                                      (K + RankIn(m, x)) * (K + RankIn(e, x))>>
             /\ In(m, x) /\ ~In(e, x) => Score(lists, x) = <<1, K + RankIn(m, x)>>
             /\ ~In(m, x) /\ In(e, x) => Score(lists, x) = <<1, K + RankIn(e, x)>>
  <2> TAKE x
  <2>1. CASE In(m, x) /\ In(e, x)
    BY <2>1, <1>2, <1>3 DEF Score, Plus
  <2>2. CASE In(m, x) /\ ~In(e, x)
    BY <2>2, <1>2, <1>5 DEF Score, Plus
  <2>3. CASE ~In(m, x) /\ In(e, x)
    BY <2>3, <1>3, <1>4 DEF Score, Plus
  <2>4. QED
    BY <2>1, <2>2, <2>3
<1>7. In(m, j) \/ In(e, j)
  BY DEF Stores
<1>8. CASE In(m, i) /\ In(e, i) /\ ~(In(m, j) /\ In(e, j))
  <2> DEFINE a == K + RankIn(m, i)
             b == K + RankIn(e, i)
             c == IF In(m, j) THEN K + RankIn(m, j) ELSE K + RankIn(e, j)
  <2>1. a \in 61..121 /\ b \in 61..121 /\ c \in 61..121
    BY <1>2, <1>3, <1>7, <1>8
  <2>2. Score(lists, i) = <<a + b, a * b>> /\ Score(lists, j) = <<1, c>>
    BY <1>6, <1>7, <1>8
  <2> HIDE DEF a, b, c
  <2>3. a * b < (a + b) * c /\ a * b \in Nat /\ (a + b) * c \in Nat
    BY <2>1, SumBeatsOne
  <2>4. QED
    BY <2>1, <2>2, <2>3 DEF AtLeast
<1>9. CASE ~(In(m, i) /\ In(e, i) /\ ~(In(m, j) /\ In(e, j)))
  <2>1. /\ In(m, j) => In(m, i) /\ RankIn(m, i) < RankIn(m, j)
        /\ In(e, j) => In(e, i) /\ RankIn(e, i) < RankIn(e, j)
    BY <1>9 DEF Outranks, Stores
  <2>2. CASE In(m, j) /\ In(e, j)
    <3> DEFINE a == K + RankIn(m, i)
               b == K + RankIn(e, i)
               c == K + RankIn(m, j)
               d == K + RankIn(e, j)
    <3>1. /\ a \in 61..121 /\ b \in 61..121 /\ c \in 61..121 /\ d \in 61..121
          /\ a < c /\ b < d
      BY <1>0, <1>2, <1>3, <2>1, <2>2
    <3>2. Score(lists, i) = <<a + b, a * b>> /\ Score(lists, j) = <<c + d, c * d>>
      BY <1>6, <2>1, <2>2
    <3> HIDE DEF a, b, c, d
    <3>3. (c + d) * (a * b) < (a + b) * (c * d)
      <4>1. /\ a \in Nat \ {0} /\ b \in Nat \ {0} /\ c \in Nat \ {0} /\ d \in Nat \ {0}
            /\ a < c /\ b < d
        BY <3>1
      <4>2. QED
        BY ONLY <4>1, SumsCompare, Zenon
    <3>4. /\ a * b \in Nat /\ c * d \in Nat /\ a + b \in Nat /\ c + d \in Nat
      BY <3>1
    <3>5. (c + d) * (a * b) \in Nat /\ (a + b) * (c * d) \in Nat
      BY <3>4
    <3>6. QED
      BY <3>2, <3>3, <3>5 DEF AtLeast
  <2>3. CASE ~(In(m, j) /\ In(e, j))
    <3> DEFINE a == IF In(m, j) THEN K + RankIn(m, i) ELSE K + RankIn(e, i)
               c == IF In(m, j) THEN K + RankIn(m, j) ELSE K + RankIn(e, j)
    <3>1. a \in 61..121 /\ c \in 61..121 /\ a < c
      BY <1>0, <1>2, <1>3, <1>7, <2>1, <2>3
    <3>2. Score(lists, i) = <<1, a>> /\ Score(lists, j) = <<1, c>>
      BY <1>6, <1>7, <1>9, <2>1, <2>3
    <3> HIDE DEF a, c
    <3>3. QED
      BY <3>1, <3>2 DEF AtLeast
  <2>4. QED
    BY <2>2, <2>3
<1>10. QED
  BY <1>8, <1>9

-----------------------------------------------------------------------------
(* What the Reranker returns.                                              *)

(* Of the hits one is kept for each id.                                    *)
LEMMA KeptOnce ==
    ASSUME NEW lists \in Lists, NEW kept \in Kept(lists)
    PROVE  /\ kept \subseteq HitsOf(lists) /\ kept \subseteq Chunks
           /\ IsFiniteSet(kept)
           /\ \A h \in HitsOf(lists) : \E k \in kept : k.id = h.id
           /\ \A h, k \in kept : h.id = k.id => h = k
<1>1. lists["milvus"] \in Hits /\ lists["es"] \in Hits
  BY DEF Lists, Stores
<1>2. IsFiniteSet(HitsOf(lists)) /\ HitsOf(lists) \subseteq Chunks
  BY <1>1, HitList, FS_Union DEF HitsOf
<1>3. /\ kept \in SUBSET HitsOf(lists)
      /\ \A i \in {h.id : h \in HitsOf(lists)} : Cardinality({h \in kept : h.id = i}) = 1
  BY DEF Kept, HitsOf
<1>4. IsFiniteSet(kept)
  BY <1>2, <1>3, FS_Subset
<1>5. \A i \in {h.id : h \in HitsOf(lists)} : \E k : {h \in kept : h.id = i} = {k}
  <2> TAKE i \in {h.id : h \in HitsOf(lists)}
  <2>1. IsFiniteSet({h \in kept : h.id = i})
    BY <1>4, FS_Subset
  <2>2. Cardinality({h \in kept : h.id = i}) = 1
    BY <1>3
  <2>3. QED
    BY <2>1, <2>2, FS_Singleton
<1>6. \A h \in HitsOf(lists) : \E k \in kept : k.id = h.id
  <2> TAKE g \in HitsOf(lists)
  <2>1. PICK k : {h \in kept : h.id = g.id} = {k}
    BY <1>5
  <2>2. QED
    BY <2>1
<1>7. \A h, k \in kept : h.id = k.id => h = k
  <2> SUFFICES ASSUME NEW h \in kept, NEW k \in kept, h.id = k.id PROVE h = k
    OBVIOUS
  <2>1. PICK x : {g \in kept : g.id = h.id} = {x}
    BY <1>3, <1>5
  <2>2. QED
    BY <2>1
<1>8. QED
  BY <1>2, <1>3, <1>4, <1>6, <1>7

(* A ranking of c hits, and its first m.                                   *)
Ranking(lists, list, c) ==
    /\ c \in Nat /\ list \in [1..c -> Chunks]
    /\ \A x \in 1..c : list[x] \in HitsOf(lists)
    /\ \A h \in HitsOf(lists) : \E x \in 1..c : list[x].id = h.id
    /\ \A x, y \in 1..c : list[x].id = list[y].id => x = y
    /\ \A x, y \in 1..c : x < y => AtLeast(Score(lists, list[x].id), Score(lists, list[y].id))

Beginning(result, list, c) ==
    LET m == IF c > TopK THEN TopK ELSE c
    IN  result \in [1..m -> Chunks] /\ \A x \in 1..m : result[x] = list[x]

(* A fusion is the beginning of a ranking of all hits.                     *)
LEMMA FusionIsRanking ==
    ASSUME NEW lists \in Lists, NEW result \in Fusions(lists)
    PROVE  \E list, c : Ranking(lists, list, c) /\ Beginning(result, list, c)
<1>0. TopK \in Nat \ {0}
  BY KnowledgeAssumption
<1>1. PICK kept \in Kept(lists) : \E list \in Sorted(lists, kept) : result = CutTo(list, TopK)
  BY DEF Fusions
<1>2. PICK list \in Sorted(lists, kept) : result = CutTo(list, TopK)
  BY <1>1
<1> DEFINE c == Cardinality(kept)
<1>3. /\ kept \subseteq HitsOf(lists) /\ kept \subseteq Chunks
      /\ IsFiniteSet(kept)
      /\ \A h \in HitsOf(lists) : \E k \in kept : k.id = h.id
      /\ \A h, k \in kept : h.id = k.id => h = k
  BY KeptOnce
<1>4. c \in Nat
  BY <1>3, FS_CardinalityType
<1>5. /\ list \in [1..c -> kept]
      /\ \A x, y \in 1..c : x # y => list[x] # list[y]
  BY DEF Sorted, SetToSeqs
<1>6. \A x, y \in 1..c : x < y => AtLeast(Score(lists, list[x].id), Score(lists, list[y].id))
  BY <1>5 DEF Sorted
<1>7. list \in Injection(1..c, kept)
  BY <1>5 DEF Injection, IsInjective
<1>8. Cardinality(1..c) = c
  <2>1. 1 \in Int /\ c \in Int
    BY <1>4
  <2>2. IsFiniteSet(1..c) /\ Cardinality(1..c) = IF 1 > c THEN 0 ELSE c - 1 + 1
    BY <2>1, FS_Interval
  <2>3. QED
    BY <1>4, <2>2
<1>9. list \in Surjection(1..c, kept)
  BY <1>3, <1>7, <1>8, FS_Injection
<1>10. \A k \in kept : \E x \in 1..c : list[x] = k
  BY <1>9 DEF Surjection
<1> HIDE DEF c
<1>11. Ranking(lists, list, c)
  <2>1. list \in [1..c -> Chunks] /\ \A x \in 1..c : list[x] \in HitsOf(lists)
    BY <1>3, <1>5
  <2>2. \A h \in HitsOf(lists) : \E x \in 1..c : list[x].id = h.id
    <3> TAKE h \in HitsOf(lists)
    <3>1. PICK k \in kept : k.id = h.id
      BY <1>3
    <3>2. PICK x \in 1..c : list[x] = k
      BY <1>10
    <3>3. QED
      BY <3>1, <3>2
  <2>3. \A x, y \in 1..c : list[x].id = list[y].id => x = y
    BY <1>3, <1>5
  <2>4. QED
    BY <1>4, <1>6, <2>1, <2>2, <2>3 DEF Ranking
<1>12. Beginning(result, list, c)
  <2>1. list \in Seq(Chunks) /\ Len(list) = c
    BY <1>4, <1>11 DEF Ranking
  <2>2. CASE c > TopK
    <3>1. result = SubSeq(list, 1, TopK)
      BY <1>2, <2>1, <2>2 DEF CutTo
    <3>2. result = [x \in 1..TopK |-> list[x]]
      BY <1>0, <2>1, <2>2, <3>1
    <3>3. QED
      BY <1>0, <1>11, <2>2, <3>2 DEF Beginning, Ranking
  <2>3. CASE ~(c > TopK)
    BY <1>2, <1>11, <2>1, <2>3 DEF CutTo, Beginning, Ranking
  <2>4. QED
    BY <2>2, <2>3
<1>13. QED
  BY <1>11, <1>12

(* So it is a list of hits itself.                                         *)
LEMMA FusionIsHits ==
    ASSUME NEW lists \in Lists, NEW result \in Fusions(lists)
    PROVE  result \in Hits
<1>0. TopK \in Nat \ {0}
  BY KnowledgeAssumption
<1>1. PICK list, c : Ranking(lists, list, c) /\ Beginning(result, list, c)
  BY FusionIsRanking
<1> DEFINE m == IF c > TopK THEN TopK ELSE c
<1>2. /\ c \in Nat /\ m \in 0..TopK /\ m <= c /\ result \in [1..m -> Chunks]
      /\ \A x \in 1..m : result[x] = list[x] /\ x \in 1..c
  BY <1>0, <1>1 DEF Ranking, Beginning
<1>3. \A x, y \in 1..m : result[x].id = result[y].id => x = y
  BY <1>1, <1>2 DEF Ranking
<1> HIDE DEF m
<1>4. QED
  BY <1>2, <1>3 DEF Hits

(* An increasing map of an interval to itself changes nothing: 1..x go to  *)
(* different places in 1..g[x], and x..n to different ones in g[x]..n.     *)
LEMMA IncreasingIsIdentity ==
    ASSUME NEW n \in Nat, NEW g \in [1..n -> 1..n],
           \A x, y \in 1..n : x < y => g[x] < g[y]
    PROVE  \A x \in 1..n : g[x] = x
<1>1. ASSUME NEW a \in 1..n, NEW b \in 1..n, NEW c \in 1..n, NEW d \in 1..n, a <= b, c <= d,
             \A x \in a..b : g[x] \in c..d
      PROVE  b - a <= d - c
  <2> DEFINE part == [x \in a..b |-> g[x]]
  <2>1. \A x \in a..b : x \in 1..n
    OBVIOUS
  <2>2. \A x, y \in a..b : g[x] = g[y] => x = y
    BY <2>1
  <2>3. part \in Injection(a..b, c..d)
    BY <1>1, <2>2 DEF Injection, IsInjective
  <2>4. a \in Int /\ b \in Int /\ c \in Int /\ d \in Int
    OBVIOUS
  <2>5. /\ IsFiniteSet(a..b) /\ Cardinality(a..b) = IF a > b THEN 0 ELSE b - a + 1
        /\ IsFiniteSet(c..d) /\ Cardinality(c..d) = IF c > d THEN 0 ELSE d - c + 1
    BY <2>4, FS_Interval
  <2>6. Cardinality(a..b) <= Cardinality(c..d)
    BY <2>3, <2>5, FS_Injection
  <2>7. QED
    BY <1>1, <2>4, <2>5, <2>6
<1>2. SUFFICES ASSUME NEW x \in 1..n PROVE g[x] = x
  OBVIOUS
<1>3. /\ g[x] \in 1..n /\ 1 \in 1..n /\ n \in 1..n
      /\ 1 <= x /\ 1 <= g[x] /\ x <= n /\ g[x] <= n
  OBVIOUS
<1>4. \A y \in 1..x : g[y] \in 1..g[x]
  <2> TAKE y \in 1..x
  <2>1. y \in 1..n /\ (y < x \/ y = x)
    OBVIOUS
  <2>2. QED
    BY <1>3, <2>1
<1>5. x - 1 <= g[x] - 1
  BY ONLY <1>1, <1>3, <1>4, x \in 1..n, Zenon
<1>6. \A y \in x..n : g[y] \in g[x]..n
  <2> TAKE y \in x..n
  <2>1. y \in 1..n /\ (x < y \/ y = x)
    OBVIOUS
  <2>2. QED
    BY <1>3, <2>1
<1>7. n - x <= n - g[x]
  BY ONLY <1>1, <1>3, <1>6, x \in 1..n, Zenon
<1>8. QED
  BY <1>3, <1>5, <1>7

(* With nothing found in Milvus the answer is what Elasticsearch found, in *)
(* its order.                                                              *)
LEMMA FusionOfOne ==
    ASSUME NEW lists \in Lists, lists["milvus"] = <<>>, NEW result \in Fusions(lists)
    PROVE  result = lists["es"]
<1> DEFINE e == lists["es"]
<1>0. TopK \in Nat \ {0} /\ K = 60
  BY KnowledgeAssumption DEF K
<1>1. e \in Hits
  BY DEF Lists, Stores
<1>2. PICK n \in 0..TopK : e \in [1..n -> Chunks]
  BY <1>1, HitList
<1>3. \A x, y \in 1..n : e[x].id = e[y].id => x = y
  BY <1>1, <1>2, HitList
<1>4. HitsOf(lists) = {e[x] : x \in 1..n}
  BY <1>2 DEF HitsOf, ToSet
<1>5. PICK list, c : Ranking(lists, list, c) /\ Beginning(result, list, c)
  BY FusionIsRanking
<1>6. /\ c \in Nat /\ list \in [1..c -> Chunks]
      /\ \A x \in 1..c : list[x] \in HitsOf(lists)
      /\ \A x, y \in 1..c : list[x].id = list[y].id => x = y
  BY <1>5 DEF Ranking
<1> HIDE DEF e
<1> DEFINE g == [x \in 1..c |-> CHOOSE y \in 1..n : e[y] = list[x]]
<1>7. \A x \in 1..c : g[x] \in 1..n /\ e[g[x]] = list[x]
  BY <1>4, <1>6
<1>8. \A h \in 1..n : \E x \in 1..c : g[x] = h
  <2> TAKE h \in 1..n
  <2>1. PICK x \in 1..c : list[x].id = e[h].id
    BY <1>4, <1>5 DEF Ranking
  <2>2. QED
    BY <1>3, <1>7, <2>1
<1>9. \A x, y \in 1..c : g[x] = g[y] => x = y
  BY <1>6, <1>7
<1>10. g \in [1..c -> 1..n]
  BY <1>7
<1> HIDE DEF g
<1>11. c = n
  <2>1. g \in Bijection(1..c, 1..n)
    BY <1>8, <1>9, <1>10 DEF Bijection, Injection, Surjection, IsInjective
  <2>2. 1 \in Int /\ c \in Int /\ n \in Int
    BY <1>0, <1>6
  <2>3. /\ IsFiniteSet(1..c) /\ Cardinality(1..c) = IF 1 > c THEN 0 ELSE c - 1 + 1
        /\ IsFiniteSet(1..n) /\ Cardinality(1..n) = IF 1 > n THEN 0 ELSE n - 1 + 1
    BY <2>2, FS_Interval
  <2>4. Cardinality(1..n) = Cardinality(1..c)
    BY <2>1, <2>3, FS_Bijection DEF ExistsBijection
  <2>5. QED
    BY <1>0, <1>6, <2>3, <2>4
<1>12. \A x \in 1..n : Score(lists, list[x].id) = <<1, K + g[x]>>
  <2> TAKE x \in 1..n
  <2>1. g[x] \in 1..n /\ e[g[x]] = list[x]
    BY <1>7, <1>11
  <2>2. In(e, list[x].id) /\ RankIn(e, list[x].id) = g[x]
    BY <1>1, <1>2, <2>1, HitList
  <2>3. Share(e, list[x].id) = <<1, K + g[x]>>
    BY <2>2 DEF Share
  <2>4. Share(lists["milvus"], list[x].id) = <<0, 1>>
    BY DEF Share, In
  <2>5. QED
    BY <1>0, <2>1, <2>3, <2>4 DEF Score, Plus, e
<1>13. \A x, y \in 1..n : x < y => g[x] < g[y]
  <2> SUFFICES ASSUME NEW x \in 1..n, NEW y \in 1..n, x < y PROVE g[x] < g[y]
    OBVIOUS
  <2>1. AtLeast(Score(lists, list[x].id), Score(lists, list[y].id))
    BY <1>5, <1>11 DEF Ranking
  <2>2. g[x] \in 1..n /\ g[y] \in 1..n /\ g[x] # g[y]
    BY <1>7, <1>9, <1>11
  <2>3. AtLeast(<<1, K + g[x]>>, <<1, K + g[y]>>)
    BY <1>12, <2>1
  <2>4. QED
    BY <1>0, <2>2, <2>3 DEF AtLeast
<1>14. \A x \in 1..n : g[x] = x
  <2>1. n \in Nat /\ g \in [1..n -> 1..n]
    BY <1>0, <1>10, <1>11
  <2>2. QED
    BY ONLY <1>13, <2>1, IncreasingIsIdentity, Zenon
<1>15. \A x \in 1..n : list[x] = e[x]
  BY <1>7, <1>11, <1>14
<1>16. ~(c > TopK)
  BY <1>0, <1>11
<1>17. result \in [1..n -> Chunks] /\ \A x \in 1..n : result[x] = list[x]
  BY <1>5, <1>11, <1>16 DEF Beginning
<1>18. result = e
  BY <1>2, <1>15, <1>17
<1>19. QED
  BY <1>18 DEF e

-----------------------------------------------------------------------------
(* What the variables hold.                                                *)

Runs    == [at : {"new", "running", "indexed", "failed"},
            branch : [Stores -> {"none", "running", "ok", "failed"}]]
Asked   == [at : {"new", "search", "answered", "failed"}, graph : Graphs,
            ended : SUBSET Stores, found : [Stores -> Hits], result : Hits]

LEMMA TypeParts ==
    TypeOK <=> /\ restarts \in 0..MaxRestarts
               /\ boot \in BootStages /\ collection \in Collections
               /\ seeker \in [Graphs -> {"none", "empty", "live"}]
               /\ es \in [Ids -> Files \cup {None}]
               /\ milvus \subseteq Chunks
               /\ index \in [Files -> Runs]
               /\ written \in [Files -> Nat] /\ \A f \in Files : written[f] <= Length[f]
               /\ dropped \subseteq Files
               /\ query \in [Queries -> Asked]
  BY Zenon DEF TypeOK, Runs, Asked

LEMMA NothingFound == <<>> \in Hits /\ NoQuery \in Asked
<1>1. TopK \in Nat
  BY KnowledgeAssumption
<1>2. <<>> \in [1..0 -> Chunks]
  OBVIOUS
<1>3. <<>> \in Hits
  BY <1>1, <1>2 DEF Hits
<1>4. [s \in Stores |-> <<>>] \in [Stores -> Hits]
  BY <1>3
<1>5. NoQuery \in Asked
  BY <1>3, <1>4 DEF NoQuery, Asked, Graphs
<1>6. QED
  BY <1>3, <1>5

(* The chunks of a file are numbered below its length.                     *)
LEMMA ChunkIds ==
    ASSUME NEW f \in Files
    PROVE  /\ Length[f] \in Nat \ {0}
           /\ \A n \in Nat : n < Length[f] => n \in Ids
           /\ \A chunk \in ChunksOf(f) : /\ chunk.id \in Ids /\ chunk.id \in Nat
                                         /\ chunk.id < Length[f] /\ chunk.file = f
           /\ ChunksOf(f) \subseteq Chunks
<1>1. Length[f] \in Nat \ {0}
  BY KnowledgeAssumption
<1>2. ASSUME NEW n \in Nat, n < Length[f] PROVE n \in Ids
  <2>1. n + 1 \in 1..Length[f] /\ (n + 1) - 1 = n
    BY <1>1, <1>2
  <2>2. n + 1 \in UNION {1..Length[g] : g \in Files}
    BY <2>1
  <2>3. QED
    BY <2>1, <2>2 DEF Ids
<1>3. \A chunk \in ChunksOf(f) : /\ chunk.id \in Nat /\ chunk.id < Length[f]
                                 /\ chunk.file = f
  BY <1>1 DEF ChunksOf
<1>4. ChunksOf(f) \subseteq Chunks
  BY DEF Chunks
<1>5. QED
  BY <1>1, <1>2, <1>3, <1>4

LEMMA IdsAreNumbers == \A i \in Ids : i \in Nat
  BY KnowledgeAssumption DEF Ids

(* Every chunk belongs to a file.                                          *)
LEMMA ChunkFiles == \A chunk \in Chunks : chunk.file \in Files
  BY ChunkIds DEF Chunks

LEMMA StartupTypes ==
    ASSUME TypeOK, NEW lost, StartupStep(lost) \/ StartAgain(lost)
    PROVE  boot' \in BootStages /\ collection' \in Collections
  BY DEF TypeOK, BootStages, Collections, StartupStep, StartAgain, Probe, CheckIndexer,
         OpenIndexer, OpenRetriever, Keep, Drop

(* A change of a run of the indexing graph: of its own state or of one     *)
(* branch.                                                                 *)
LEMMA IndexSteps ==
    ASSUME index \in [Files -> Runs], NEW f \in Files
    PROVE  /\ \A state \in {"new", "running", "indexed", "failed"} :
                IndexTo(f, state) =>
                  /\ index' \in [Files -> Runs]
                  /\ index'[f].at = state
                  /\ index'[f].branch = index[f].branch
                  /\ \A g \in Files \ {f} : index'[g] = index[g]
           /\ \A s \in Stores, state \in {"none", "running", "ok", "failed"} :
                BranchTo(f, s, state) =>
                  /\ index' \in [Files -> Runs]
                  /\ index'[f].at = index[f].at
                  /\ index'[f].branch[s] = state
                  /\ \A t \in Stores \ {s} : index'[f].branch[t] = index[f].branch[t]
                  /\ \A g \in Files \ {f} : index'[g] = index[g]
<1>1. ASSUME NEW state \in {"new", "running", "indexed", "failed"}, IndexTo(f, state)
      PROVE  /\ index' \in [Files -> Runs]
             /\ index'[f].at = state
             /\ index'[f].branch = index[f].branch
             /\ \A g \in Files \ {f} : index'[g] = index[g]
  BY <1>1 DEF IndexTo, Runs
<1>2. ASSUME NEW s \in Stores, NEW state \in {"none", "running", "ok", "failed"},
             BranchTo(f, s, state)
      PROVE  /\ index' \in [Files -> Runs]
             /\ index'[f].at = index[f].at
             /\ index'[f].branch[s] = state
             /\ \A t \in Stores \ {s} : index'[f].branch[t] = index[f].branch[t]
             /\ \A g \in Files \ {f} : index'[g] = index[g]
  BY <1>2 DEF BranchTo, Runs
<1>3. QED
  BY <1>1, <1>2

LEMMA InitTypes == Init => TypeOK
<1> SUFFICES ASSUME Init PROVE TypeOK
  OBVIOUS
<1>1. restarts \in 0..MaxRestarts /\ dropped \subseteq Files /\ milvus \subseteq Chunks
  BY KnowledgeAssumption DEF Init
<1>2. boot \in BootStages /\ collection \in Collections
  BY DEF Init, StartupInit, BootStages, Collections
<1>3. seeker \in [Graphs -> {"none", "empty", "live"}] /\ es \in [Ids -> Files \cup {None}]
  BY DEF Init
<1>4. index \in [Files -> Runs]
  BY DEF Init, Runs, NoRun
<1>5. written \in [Files -> Nat] /\ \A f \in Files : written[f] <= Length[f]
  BY KnowledgeAssumption DEF Init
<1>6. query \in [Queries -> Asked]
  BY NothingFound DEF Init
<1>7. QED
  BY <1>1, <1>2, <1>3, <1>4, <1>5, <1>6, TypeParts

(* Every step keeps what the variables hold.                               *)
LEMMA StepTypes ==
    ASSUME TypeOK, [Next]_vars
    PROVE  TypeOK'
<1> USE TypeParts
<1>0. /\ MaxRestarts \in Nat
      /\ restarts \in 0..MaxRestarts
      /\ boot \in BootStages /\ collection \in Collections
      /\ seeker \in [Graphs -> {"none", "empty", "live"}]
      /\ es \in [Ids -> Files \cup {None}]
      /\ milvus \subseteq Chunks
      /\ index \in [Files -> Runs]
      /\ written \in [Files -> Nat] /\ \A f \in Files : written[f] <= Length[f]
      /\ dropped \subseteq Files
      /\ query \in [Queries -> Asked]
  BY KnowledgeAssumption
<1>1. CASE Boot
  <2>1. PICK lost \in BOOLEAN :
          /\ StartupStep(lost)
          /\ milvus' = IF lost THEN {} ELSE milvus
          /\ dropped' = IF lost THEN dropped \cup {chunk.file : chunk \in milvus} ELSE dropped
    BY <1>1 DEF Boot
  <2>2. boot' \in BootStages /\ collection' \in Collections
    BY <2>1, StartupTypes
  <2>3. milvus' \subseteq Chunks /\ dropped' \subseteq Files
    BY <1>0, <2>1, ChunkFiles
  <2>4. seeker' \in [Graphs -> {"none", "empty", "live"}]
    BY <1>0, <1>1 DEF Boot
  <2>5. UNCHANGED <<restarts, es, index, written, query>>
    BY <1>1 DEF Boot
  <2>6. QED
    BY <1>0, <2>2, <2>3, <2>4, <2>5 DEF TypeOK, Runs, Asked
<1>2. CASE Restart
  <2>1. PICK lost \in BOOLEAN :
          /\ StartAgain(lost)
          /\ milvus' = IF lost THEN {} ELSE milvus
          /\ dropped' = IF lost THEN dropped \cup {chunk.file : chunk \in milvus} ELSE dropped
    BY <1>2 DEF Restart
  <2>2. boot' \in BootStages /\ collection' \in Collections
    BY <2>1, StartupTypes
  <2>3. milvus' \subseteq Chunks /\ dropped' \subseteq Files
    BY <1>0, <2>1, ChunkFiles
  <2>4. seeker' \in [Graphs -> {"none", "empty", "live"}] /\ restarts' \in 0..MaxRestarts
    BY <1>0, <1>2 DEF Restart
  <2>5. index' \in [Files -> Runs]
    BY <1>0, <1>2 DEF Restart, Runs, NoRun
  <2>6. query' \in [Queries -> Asked]
    BY <1>2, NothingFound DEF Restart
  <2>7. UNCHANGED <<es, written>>
    BY <1>2 DEF Restart
  <2>8. QED
    BY <1>0, <2>2, <2>3, <2>4, <2>5, <2>6, <2>7 DEF TypeOK, Runs, Asked
<1>3. ASSUME NEW f \in Files, StartIndexing(f) PROVE TypeOK'
  <2>1. index' \in [Files -> Runs]
    BY <1>0, <1>3 DEF StartIndexing, Runs
  <2>2. UNCHANGED <<process, es, milvus, written, query>>
    BY <1>3 DEF StartIndexing
  <2>3. QED
    BY <1>0, <2>1, <2>2 DEF TypeOK, Runs, Asked, process
<1>4. ASSUME NEW f \in Files, WriteEs(f) PROVE TypeOK'
  <2>1. es' \in [Ids -> Files \cup {None}]
    BY <1>0, <1>4 DEF WriteEs
  <2>2. written' \in [Files -> Nat] /\ \A g \in Files : written'[g] <= Length[g]
    BY <1>0, <1>4, ChunkIds DEF WriteEs
  <2>3. UNCHANGED <<process, milvus, index, query>>
    BY <1>4 DEF WriteEs
  <2>4. QED
    BY <1>0, <2>1, <2>2, <2>3 DEF TypeOK, Runs, Asked, process
<1>5. ASSUME NEW f \in Files, EndEs(f) PROVE TypeOK'
  <2>1. index' \in [Files -> Runs]
    BY <1>0, <1>5, IndexSteps DEF EndEs, Stores
  <2>2. UNCHANGED <<process, es, milvus, written, query>>
    BY <1>5 DEF EndEs
  <2>3. QED
    BY <1>0, <2>1, <2>2 DEF TypeOK, Runs, Asked, process
<1>6. ASSUME NEW f \in Files, InsertMilvus(f) PROVE TypeOK'
  <2>1. index' \in [Files -> Runs]
    BY <1>0, <1>6, IndexSteps DEF InsertMilvus, Stores
  <2>2. milvus' \subseteq Chunks
    BY <1>0, <1>6, ChunkIds DEF InsertMilvus
  <2>3. UNCHANGED <<process, es, written, query>>
    BY <1>6 DEF InsertMilvus
  <2>4. QED
    BY <1>0, <2>1, <2>2, <2>3 DEF TypeOK, Runs, Asked, process
<1>7. ASSUME NEW f \in Files, InvokeReturns(f) PROVE TypeOK'
  <2>1. index' \in [Files -> Runs]
    BY <1>0, <1>7, IndexSteps DEF InvokeReturns
  <2>2. UNCHANGED <<process, es, milvus, written, query>>
    BY <1>7 DEF InvokeReturns
  <2>3. QED
    BY <1>0, <2>1, <2>2 DEF TypeOK, Runs, Asked, process
<1>8. ASSUME UNCHANGED <<process, es, milvus, index, written>>, query' \in [Queries -> Asked]
      PROVE  TypeOK'
  BY <1>0, <1>8 DEF TypeOK, Runs, Asked, process
<1>9. ASSUME NEW q \in Queries, StartQuery(q) PROVE TypeOK'
  <2>1. PICK g \in Graphs :
          query' = [query EXCEPT ![q].at = "search", ![q].graph = g]
    BY <1>9 DEF StartQuery
  <2>2. query' \in [Queries -> Asked]
    BY <1>0, <2>1 DEF Asked
  <2>3. QED
    BY <1>8, <1>9, <2>2 DEF StartQuery
<1>10. ASSUME NEW q \in Queries, NEW s \in Stores, NEW list \in Hits, Found(q, s, list)
       PROVE  query' \in [Queries -> Asked]
  BY <1>0, <1>10 DEF Found, Asked
<1>11. ASSUME NEW q \in Queries, query' = [query EXCEPT ![q].at = "failed"]
       PROVE  query' \in [Queries -> Asked]
  BY <1>0, <1>11 DEF Asked
<1>12. ASSUME NEW q \in Queries, SearchMilvus(q) PROVE TypeOK'
  <2>1. \/ \E list \in Hits : Found(q, "milvus", list)
        \/ query' = [query EXCEPT ![q].at = "failed"]
    BY <1>12, NothingFound DEF SearchMilvus
  <2>2. query' \in [Queries -> Asked]
    BY <1>10, <1>11, <2>1 DEF Stores
  <2>3. QED
    BY <1>8, <1>12, <2>2 DEF SearchMilvus
<1>13. ASSUME NEW q \in Queries, SearchEs(q) PROVE TypeOK'
  <2>1. \/ \E list \in Hits : Found(q, "es", list)
        \/ query' = [query EXCEPT ![q].at = "failed"]
    BY <1>13 DEF SearchEs
  <2>2. query' \in [Queries -> Asked]
    BY <1>10, <1>11, <2>1 DEF Stores
  <2>3. QED
    BY <1>8, <1>13, <2>2 DEF SearchEs
<1>14. ASSUME NEW q \in Queries, Rerank(q) PROVE TypeOK'
  <2>1. query[q] \in Asked
    BY <1>0
  <2>2. query[q].found \in Lists
    BY <2>1 DEF Asked, Lists
  <2>3. PICK list \in Fusions(query[q].found) :
          query' = [query EXCEPT ![q].at = "answered", ![q].result = list]
    BY <1>14 DEF Rerank
  <2>4. list \in Hits
    BY <2>2, FusionIsHits
  <2>5. query' \in [Queries -> Asked]
    BY <1>0, <2>3, <2>4 DEF Asked
  <2>6. QED
    BY <1>8, <1>14, <2>5 DEF Rerank
<1>15. CASE UNCHANGED vars
  BY <1>15 DEF TypeOK, vars, process
<1>16. QED
  BY <1>1, <1>2, <1>3, <1>4, <1>5, <1>6, <1>7, <1>9, <1>12, <1>13, <1>14, <1>15
  DEF Next, Finished

-----------------------------------------------------------------------------
(* The indexing graph.                                                     *)

(* A start-up that loses the chunks of Milvus remembers their files.       *)
LEMMA MilvusRemembers ==
    ASSUME NEW f \in Files, InMilvus(f),
           \/ milvus' = milvus /\ dropped' = dropped
           \/ dropped' = dropped \cup {chunk.file : chunk \in milvus}
           \/ milvus \subseteq milvus' /\ dropped' = dropped
    PROVE  InMilvus(f)'
<1>1. CASE dropped' = dropped \cup {chunk.file : chunk \in milvus} /\ f \notin dropped
  <2>1. ChunksOf(f) \subseteq milvus
    BY <1>1 DEF InMilvus
  <2>2. 1 \in 1..Length[f]
    BY ChunkIds
  <2>3. [id |-> 1 - 1, file |-> f] \in ChunksOf(f)
    BY <2>2 DEF ChunksOf
  <2>4. f \in dropped'
    BY <1>1, <2>1, <2>3
  <2>5. QED
    BY <2>4 DEF InMilvus
<1>2. CASE ~(dropped' = dropped \cup {chunk.file : chunk \in milvus} /\ f \notin dropped)
  BY <1>2 DEF InMilvus
<1>3. QED
  BY <1>1, <1>2

(* What the invariant says of a file.                                      *)
EsDone(f)     == index[f].branch["es"] = "ok" \/ index[f].at = "indexed"
MilvusDone(f) == index[f].branch["milvus"] = "ok" \/ index[f].at = "indexed"

LEMMA IndexParts ==
    IndexInv <=> /\ \A i \in Ids : es[i] # None => i < written[es[i]]
                 /\ \A f \in Files, i \in Ids : i < written[f] => es[i] # None
                 /\ \A f \in Files : EsDone(f) => written[f] = Length[f]
                 /\ \A f \in Files : MilvusDone(f) => InMilvus(f)
  BY DEF IndexInv, EsDone, MilvusDone

(* A step that writes nothing to Elasticsearch keeps it when each file     *)
(* that it calls done was done, or is whole.                               *)
LEMMA IndexFrame ==
    ASSUME IndexInv, es' = es, written' = written,
           \A f \in Files : EsDone(f)' => EsDone(f) \/ written[f] = Length[f],
           \A f \in Files : MilvusDone(f)' => MilvusDone(f) \/ InMilvus(f)',
           \A f \in Files : InMilvus(f) => InMilvus(f)'
    PROVE  IndexInv'
<1>1. \A f \in Files : EsDone(f)' => written[f] = Length[f]
  BY IndexParts
<1>2. \A f \in Files : MilvusDone(f)' => InMilvus(f)'
  BY IndexParts
<1>3. /\ \A i \in Ids : es[i] # None => i < written[es[i]]
      /\ \A f \in Files, i \in Ids : i < written[f] => es[i] # None
  BY IndexParts
<1>4. QED
  BY <1>1, <1>2, <1>3 DEF IndexInv, EsDone, MilvusDone

LEMMA InitIndex == Init => IndexInv
  BY IdsAreNumbers, KnowledgeAssumption DEF Init, IndexInv, NoRun, Stores

LEMMA StepIndex ==
    ASSUME TypeOK, IndexInv, [Next]_vars
    PROVE  IndexInv'
<1>0. /\ es \in [Ids -> Files \cup {None}]
      /\ index \in [Files -> Runs]
      /\ written \in [Files -> Nat] /\ \A f \in Files : written[f] <= Length[f]
  BY TypeParts
<1>1. ASSUME index' = index, es' = es, written' = written,
             \A f \in Files : InMilvus(f) => InMilvus(f)'
      PROVE  IndexInv'
  BY <1>1, IndexFrame DEF EsDone, MilvusDone
<1>2. CASE Boot
  <2>1. UNCHANGED <<es, index, written>>
    BY <1>2 DEF Boot
  <2>2. \/ milvus' = milvus /\ dropped' = dropped
        \/ dropped' = dropped \cup {chunk.file : chunk \in milvus}
    BY <1>2 DEF Boot
  <2>3. QED
    BY <1>1, <2>1, <2>2, MilvusRemembers
<1>3. CASE Restart
  <2>1. UNCHANGED <<es, written>>
    BY <1>3 DEF Restart
  <2>2. \/ milvus' = milvus /\ dropped' = dropped
        \/ dropped' = dropped \cup {chunk.file : chunk \in milvus}
    BY <1>3 DEF Restart
  <2>3. \A f \in Files :
          index'[f] = IF index[f].at = "new" THEN index[f]
                      ELSE [at |-> IF index[f].at = "running" THEN "failed" ELSE index[f].at,
                            branch |-> NoRun]
    BY <1>3 DEF Restart
  <2>4. ASSUME NEW f \in Files
        PROVE  (EsDone(f)' => EsDone(f)) /\ (MilvusDone(f)' => MilvusDone(f))
    <3>1. CASE index[f].at = "new"
      BY <2>3, <3>1 DEF EsDone, MilvusDone
    <3>2. CASE index[f].at # "new"
      <4>1. /\ index'[f].at = IF index[f].at = "running" THEN "failed" ELSE index[f].at
            /\ index'[f].branch = NoRun
        <5> DEFINE at == IF index[f].at = "running" THEN "failed" ELSE index[f].at
        <5>1. index'[f] = [at |-> at, branch |-> NoRun]
          BY <2>3, <3>2
        <5> HIDE DEF at
        <5>2. index'[f].at = at /\ index'[f].branch = NoRun
          BY <5>1
        <5>3. QED
          BY <5>2 DEF at
      <4>2. index'[f].branch["es"] # "ok" /\ index'[f].branch["milvus"] # "ok"
        BY <4>1 DEF NoRun, Stores
      <4>3. QED
        BY <4>1, <4>2 DEF EsDone, MilvusDone
    <3>3. QED
      BY <3>1, <3>2
  <2>5. \A f \in Files : InMilvus(f) => InMilvus(f)'
    BY <2>2, MilvusRemembers
  <2>6. QED
    BY <2>1, <2>4, <2>5, IndexFrame
<1>4. ASSUME NEW f \in Files, StartIndexing(f) PROVE IndexInv'
  <2>1. UNCHANGED <<es, written, milvus, dropped>>
    BY <1>4 DEF StartIndexing, process
  <2>2. index'[f] = [at |-> "running", branch |-> [s \in Stores |-> "running"]]
    BY <1>0, <1>4 DEF StartIndexing
  <2>3. \A g \in Files \ {f} : index'[g] = index[g]
    BY <1>0, <1>4 DEF StartIndexing
  <2>4. \A g \in Files : (EsDone(g)' => EsDone(g)) /\ (MilvusDone(g)' => MilvusDone(g))
    BY <2>2, <2>3 DEF EsDone, MilvusDone, Stores
  <2>5. QED
    BY <2>1, <2>4, IndexFrame, MilvusRemembers
<1>5. ASSUME NEW f \in Files, WriteEs(f) PROVE IndexInv'
  <2> DEFINE w == written[f]
  <2>1. w \in Nat /\ w < Length[f] /\ w \in Ids
    BY <1>0, <1>5, ChunkIds DEF WriteEs
  <2>2. /\ es'[w] = f /\ \A i \in Ids \ {w} : es'[i] = es[i]
        /\ written'[f] = w + 1 /\ \A g \in Files \ {f} : written'[g] = written[g]
    BY <1>0, <1>5, <2>1 DEF WriteEs
  <2>3. UNCHANGED <<milvus, index, dropped>> /\ index[f].branch["es"] = "running"
    BY <1>5 DEF WriteEs, process
  <2>4. None \notin Files
    BY KnowledgeAssumption
  <2> HIDE DEF w
  <2>5. \A i \in Ids : es'[i] # None => i < written'[es'[i]]
    <3> SUFFICES ASSUME NEW i \in Ids, es'[i] # None PROVE i < written'[es'[i]]
      OBVIOUS
    <3>1. CASE i = w
      BY <2>1, <2>2, <3>1
    <3>2. CASE i # w
      <4>1. es'[i] = es[i] /\ es[i] \in Files /\ i < written[es[i]] /\ i \in Nat
        BY <1>0, <2>2, <3>2, IndexParts, IdsAreNumbers
      <4>2. written[es[i]] \in Nat /\ written'[es[i]] \in {written[es[i]], written[es[i]] + 1}
        BY <1>0, <2>2, <4>1 DEF w
      <4>3. QED
        BY <4>1, <4>2
    <3>3. QED
      BY <3>1, <3>2
  <2>6. \A g \in Files, i \in Ids : i < written'[g] => es'[i] # None
    <3> SUFFICES ASSUME NEW g \in Files, NEW i \in Ids, i < written'[g], i # w
                 PROVE  es'[i] # None
      BY <2>2, <2>4
    <3>1. i \in Nat
      BY IdsAreNumbers
    <3>2. i < written[g]
      BY <2>1, <2>2, <3>1 DEF w
    <3>3. QED
      BY <2>2, <3>2, IndexParts
  <2>7. \A g \in Files : EsDone(g)' => written'[g] = Length[g]
    <3> SUFFICES ASSUME NEW g \in Files, EsDone(g)' PROVE written'[g] = Length[g]
      OBVIOUS
    <3>1. EsDone(g)
      BY <2>3 DEF EsDone
    <3>2. written[g] = Length[g]
      BY <3>1, IndexParts
    <3>3. QED
      BY <2>1, <2>2, <3>2 DEF w
  <2>8. \A g \in Files : MilvusDone(g)' => InMilvus(g)'
    BY <2>3, IndexParts DEF MilvusDone, InMilvus
  <2>9. QED
    BY <2>5, <2>6, <2>7, <2>8 DEF IndexInv, EsDone, MilvusDone
<1>6. ASSUME NEW f \in Files, EndEs(f) PROVE IndexInv'
  <2>1. UNCHANGED <<es, written, milvus, dropped>>
    BY <1>6 DEF EndEs, process
  <2>2. PICK state \in {"ok", "failed"} :
          BranchTo(f, "es", state) /\ (state = "ok" => written[f] = Length[f])
    BY <1>6 DEF EndEs
  <2>3. /\ index'[f].at = index[f].at /\ index'[f].branch["es"] = state
        /\ index'[f].branch["milvus"] = index[f].branch["milvus"]
        /\ \A g \in Files \ {f} : index'[g] = index[g]
    BY <1>0, <2>2, IndexSteps DEF Stores
  <2>4. \A g \in Files : EsDone(g)' => EsDone(g) \/ written[g] = Length[g]
    BY <2>2, <2>3 DEF EsDone
  <2>5. \A g \in Files : MilvusDone(g)' => MilvusDone(g)
    BY <2>3 DEF MilvusDone
  <2>6. QED
    BY <2>1, <2>4, <2>5, IndexFrame, MilvusRemembers
<1>7. ASSUME NEW f \in Files, InsertMilvus(f) PROVE IndexInv'
  <2>1. UNCHANGED <<es, written, dropped>>
    BY <1>7 DEF InsertMilvus, process
  <2>2. PICK state \in {"ok", "failed"} :
          /\ BranchTo(f, "milvus", state)
          /\ milvus \subseteq milvus'
          /\ state = "ok" => ChunksOf(f) \subseteq milvus'
    BY <1>7 DEF InsertMilvus
  <2>3. /\ index'[f].at = index[f].at /\ index'[f].branch["milvus"] = state
        /\ index'[f].branch["es"] = index[f].branch["es"]
        /\ \A g \in Files \ {f} : index'[g] = index[g]
    BY <1>0, <2>2, IndexSteps DEF Stores
  <2>4. \A g \in Files : EsDone(g)' => EsDone(g)
    BY <2>3 DEF EsDone
  <2>5. \A g \in Files : MilvusDone(g)' => MilvusDone(g) \/ InMilvus(g)'
    BY <2>2, <2>3 DEF MilvusDone, InMilvus
  <2>6. QED
    BY <2>1, <2>2, <2>4, <2>5, IndexFrame, MilvusRemembers
<1>8. ASSUME NEW f \in Files, InvokeReturns(f) PROVE IndexInv'
  <2>1. UNCHANGED <<es, written, milvus, dropped>>
    BY <1>8 DEF InvokeReturns, process
  <2>2. PICK state \in {"indexed", "failed"} :
          IndexTo(f, state) /\ (state = "indexed" => \A s \in Stores : index[f].branch[s] = "ok")
    BY <1>8 DEF InvokeReturns
  <2>3. /\ index'[f].at = state /\ index'[f].branch = index[f].branch
        /\ \A g \in Files \ {f} : index'[g] = index[g]
    BY <1>0, <2>2, IndexSteps
  <2>4. \A g \in Files : EsDone(g)' => EsDone(g)
    BY <2>2, <2>3 DEF EsDone, Stores
  <2>5. \A g \in Files : MilvusDone(g)' => MilvusDone(g)
    BY <2>2, <2>3 DEF MilvusDone, Stores
  <2>6. QED
    BY <2>1, <2>4, <2>5, IndexFrame, MilvusRemembers
<1>9. ASSUME NEW q \in Queries,
             StartQuery(q) \/ SearchMilvus(q) \/ SearchEs(q) \/ Rerank(q)
      PROVE  IndexInv'
  <2>1. UNCHANGED <<es, index, written, milvus, dropped>>
    BY <1>9 DEF StartQuery, SearchMilvus, SearchEs, Rerank, process
  <2>2. QED
    BY <1>1, <2>1, MilvusRemembers
<1>10. CASE UNCHANGED vars
  <2>1. UNCHANGED <<es, index, written, milvus, dropped>>
    BY <1>10 DEF vars, process
  <2>2. QED
    BY <1>1, <2>1, MilvusRemembers
<1>11. QED
  BY <1>2, <1>3, <1>4, <1>5, <1>6, <1>7, <1>8, <1>9, <1>10 DEF Next, Finished

-----------------------------------------------------------------------------
(* The retriever graph.                                                    *)

(* What the invariant says of a query.                                     *)
Consistent(q) ==
    /\ query[q].at # "new" => boot = "ready"
    /\ query[q].at = "new" => query[q] = NoQuery
    /\ seeker[query[q].graph] = "empty" =>
         /\ query[q].at = "failed" => "es" \notin query[q].ended
         /\ "milvus" \in query[q].ended => query[q].found["milvus"] = <<>>
    /\ query[q].at = "answered" =>
         query[q].ended = Stores /\ query[q].result \in Fusions(query[q].found)

LEMMA QueryParts == QueryInv <=> \A q \in Queries : Consistent(q)
  BY DEF QueryInv, Consistent

LEMMA NewIsConsistent ==
    ASSUME NEW q \in Queries, query[q] = NoQuery
    PROVE  Consistent(q)
  BY DEF Consistent, NoQuery

LEMMA InitQuery == Init => QueryInv
  BY NewIsConsistent, QueryParts DEF Init

(* A step of the graph changes its own query and no retriever.             *)
LEMMA QueryFrame ==
    ASSUME QueryInv, NEW q \in Queries, UNCHANGED <<boot, seeker>>,
           Consistent(q)', \A p \in Queries \ {q} : query'[p] = query[p]
    PROVE  QueryInv'
<1>1. \A p \in Queries : Consistent(p)'
  <2> TAKE p \in Queries
  <2>1. CASE p # q
    <3>1. Consistent(p) /\ query'[p] = query[p] /\ boot' = boot /\ seeker' = seeker
      BY <2>1, QueryParts
    <3>2. QED
      BY <3>1 DEF Consistent
  <2>2. QED
    BY <2>1
<1>2. QED
  BY <1>1 DEF QueryInv, Consistent

LEMMA StepQuery ==
    ASSUME TypeOK, QueryInv, [Next]_vars
    PROVE  QueryInv'
<1>0. query \in [Queries -> Asked] /\ \A q \in Queries : query[q] \in Asked
  BY TypeParts
<1>1. CASE UNCHANGED <<boot, seeker, query>>
  BY <1>1 DEF QueryInv
<1>2. CASE \A q \in Queries : query'[q] = NoQuery
  <2>1. ASSUME NEW q \in Queries PROVE Consistent(q)'
    <3>1. query'[q] = NoQuery
      BY <1>2
    <3>2. NoQuery.at = "new" /\ NoQuery.ended = {}
      BY DEF NoQuery
    <3>3. QED
      BY <3>1, <3>2 DEF Consistent
  <2>2. QED
    BY <2>1 DEF QueryInv, Consistent
<1>3. CASE Boot
  <2>1. \A q \in Queries : query'[q] = NoQuery
    BY <1>3, QueryParts DEF Boot, Consistent
  <2>2. QED
    BY <1>2, <2>1
<1>4. CASE Restart
  BY <1>2, <1>4 DEF Restart
<1>5. ASSUME NEW f \in Files,
             StartIndexing(f) \/ WriteEs(f) \/ EndEs(f) \/ InsertMilvus(f) \/ InvokeReturns(f)
      PROVE  QueryInv'
  <2>1. UNCHANGED <<boot, seeker, query>>
    BY <1>5 DEF StartIndexing, WriteEs, EndEs, InsertMilvus, InvokeReturns, process
  <2>2. QED
    BY <1>1, <2>1
<1>6. ASSUME NEW q \in Queries, StartQuery(q) PROVE QueryInv'
  <2>1. UNCHANGED <<boot, seeker>> /\ boot = "ready" /\ query[q] = NoQuery
    BY <1>6, QueryParts DEF StartQuery, process, Consistent
  <2>2. PICK g \in Graphs :
          query' = [query EXCEPT ![q].at = "search", ![q].graph = g]
    BY <1>6 DEF StartQuery
  <2>3. /\ query'[q].at = "search" /\ query'[q].ended = {}
        /\ \A p \in Queries \ {q} : query'[p] = query[p]
    BY <1>0, <2>1, <2>2 DEF NoQuery
  <2>4. Consistent(q)'
    BY <2>1, <2>3 DEF Consistent
  <2>5. QED
    BY <2>1, <2>3, <2>4, QueryFrame
<1>7. ASSUME NEW q \in Queries, NEW s \in Stores, query[q].at = "search",
             query' = [query EXCEPT ![q].at = "failed"]
      PROVE  /\ query'[q].at = "failed" /\ query'[q].graph = query[q].graph
             /\ query'[q].ended = query[q].ended /\ query'[q].found = query[q].found
             /\ \A p \in Queries \ {q} : query'[p] = query[p]
  BY <1>0, <1>7 DEF Asked
<1>8. ASSUME NEW q \in Queries, NEW s \in Stores, NEW list, Found(q, s, list)
      PROVE  /\ query'[q].at = query[q].at /\ query'[q].graph = query[q].graph
             /\ query'[q].ended = query[q].ended \cup {s} /\ query'[q].found[s] = list
             /\ \A t \in Stores \ {s} : query'[q].found[t] = query[q].found[t]
             /\ \A p \in Queries \ {q} : query'[p] = query[p]
  BY <1>0, <1>8 DEF Asked, Found
<1>9. ASSUME NEW q \in Queries, SearchMilvus(q) PROVE QueryInv'
  <2>1. UNCHANGED <<boot, seeker>> /\ Consistent(q) /\ query[q].at = "search"
    BY <1>9, QueryParts DEF SearchMilvus, process
  <2>2. CASE seeker[query[q].graph] = "empty"
    <3>1. Found(q, "milvus", <<>>)
      BY <1>9, <2>2 DEF SearchMilvus
    <3>2. Consistent(q)' /\ \A p \in Queries \ {q} : query'[p] = query[p]
      BY <1>8, <2>1, <3>1 DEF Consistent, Stores
    <3>3. QED
      BY <2>1, <3>2, QueryFrame
  <2>3. CASE seeker[query[q].graph] # "empty" /\ query' = [query EXCEPT ![q].at = "failed"]
    <3>1. Consistent(q)' /\ \A p \in Queries \ {q} : query'[p] = query[p]
      BY <1>7, <2>1, <2>3 DEF Consistent, Stores
    <3>2. QED
      BY <2>1, <3>1, QueryFrame
  <2>4. CASE seeker[query[q].graph] # "empty" /\ \E list \in Hits : Found(q, "milvus", list)
    <3>1. Consistent(q)' /\ \A p \in Queries \ {q} : query'[p] = query[p]
      BY <1>8, <2>1, <2>4 DEF Consistent, Stores
    <3>2. QED
      BY <2>1, <3>1, QueryFrame
  <2>5. QED
    BY <1>9, <2>2, <2>3, <2>4 DEF SearchMilvus
<1>10. ASSUME NEW q \in Queries, SearchEs(q) PROVE QueryInv'
  <2>1. /\ UNCHANGED <<boot, seeker>> /\ Consistent(q) /\ query[q].at = "search"
        /\ "es" \notin query[q].ended
    BY <1>10, QueryParts DEF SearchEs, process
  <2>2. CASE query' = [query EXCEPT ![q].at = "failed"]
    <3>1. Consistent(q)' /\ \A p \in Queries \ {q} : query'[p] = query[p]
      BY <1>7, <2>1, <2>2 DEF Consistent, Stores
    <3>2. QED
      BY <2>1, <3>1, QueryFrame
  <2>3. CASE \E list \in Hits : Found(q, "es", list)
    <3>1. Consistent(q)' /\ \A p \in Queries \ {q} : query'[p] = query[p]
      BY <1>8, <2>1, <2>3 DEF Consistent, Stores
    <3>2. QED
      BY <2>1, <3>1, QueryFrame
  <2>4. QED
    BY <1>10, <2>2, <2>3 DEF SearchEs
<1>11. ASSUME NEW q \in Queries, Rerank(q) PROVE QueryInv'
  <2>1. /\ UNCHANGED <<boot, seeker>> /\ Consistent(q) /\ query[q].at = "search"
        /\ query[q].ended = Stores
    BY <1>11, QueryParts DEF Rerank, process
  <2>2. PICK list \in Fusions(query[q].found) :
          query' = [query EXCEPT ![q].at = "answered", ![q].result = list]
    BY <1>11 DEF Rerank
  <2>3. /\ query'[q].at = "answered" /\ query'[q].graph = query[q].graph
        /\ query'[q].ended = Stores /\ query'[q].found = query[q].found
        /\ query'[q].result = list
        /\ \A p \in Queries \ {q} : query'[p] = query[p]
    BY <1>0, <2>1, <2>2 DEF Asked
  <2>4. list \in Fusions(query'[q].found)
    BY <2>3
  <2>5. Fusions(query[q].found)' = Fusions(query'[q].found)
    BY DEF Fusions, Sorted, Kept, Score, Share, In, RankIn, AtLeast, Plus, CutTo
  <2>6. Consistent(q)'
    BY <2>1, <2>3, <2>4, <2>5 DEF Consistent
  <2>7. QED
    BY <2>1, <2>3, <2>6, QueryFrame
<1>12. CASE UNCHANGED vars
  BY <1>1, <1>12 DEF vars, process
<1>13. QED
  BY <1>3, <1>4, <1>5, <1>6, <1>9, <1>10, <1>11, <1>12 DEF Next, Finished

-----------------------------------------------------------------------------
(* Theorems.                                                               *)

(* The inductive invariant.                                                *)
THEOREM KnowledgeCorrect == Spec => []Inv
<1>1. Init => Inv
  BY InitTypes, InitIndex, InitQuery DEF Inv
<1>2. Inv /\ [Next]_vars => Inv'
  BY StepTypes, StepIndex, StepQuery DEF Inv
<1>3. QED
  BY <1>1, <1>2, PTL DEF Spec

(* Every variable keeps its type: in particular no list of results is      *)
(* longer than TopK or names an id twice (Reranker, algorithm/rrf.go).     *)
THEOREM TypeCorrect == Spec => []TypeOK
<1>1. Inv => TypeOK
  BY DEF Inv
<1>2. QED
  BY <1>1, KnowledgeCorrect, PTL

(* The chunks of an indexed file are where the indexers put them, unless   *)
(* a file with chunks of the same number, or a start-up, replaced them.    *)
THEOREM IndexedStays == Spec => []IndexedOrReplaced
<1>1. Inv => IndexedOrReplaced
  <2> SUFFICES ASSUME Inv, NEW f \in Files, index[f].at = "indexed"
               PROVE  /\ \A chunk \in ChunksOf(f) :
                           /\ es[chunk.id] # None
                           /\ es[chunk.id] # f => written[es[chunk.id]] > chunk.id
                      /\ f \in dropped \/ ChunksOf(f) \subseteq milvus
    BY DEF IndexedOrReplaced
  <2>1. /\ es \in [Ids -> Files \cup {None}] /\ written \in [Files -> Nat]
        /\ written[f] = Length[f] /\ InMilvus(f)
    BY TypeParts DEF Inv, IndexInv
  <2>2. ASSUME NEW chunk \in ChunksOf(f)
        PROVE  es[chunk.id] # None /\ chunk.id < written[es[chunk.id]]
    <3>1. chunk.id \in Ids /\ chunk.id < written[f]
      BY <2>1, ChunkIds
    <3>2. QED
      BY <3>1 DEF Inv, IndexInv
  <2>3. \A chunk \in ChunksOf(f) : /\ chunk.id \in Nat
                                   /\ es[chunk.id] # None => written[es[chunk.id]] \in Nat
    BY <2>1, ChunkIds
  <2>4. QED
    BY <2>1, <2>2, <2>3 DEF InMilvus
<1>2. QED
  BY <1>1, KnowledgeCorrect, PTL

(* The fused list respects the order that reciprocal rank fusion is for.   *)
(* An id found last by both searches then still outweighs one found first  *)
(* by one: that needs TopK <= K + 1, and with K + 2 there is a tie.        *)
THEOREM FusionIsFair ==
    ASSUME TopK <= K + 1
    PROVE  Spec => []FusionRanks
<1>1. Inv => FusionRanks
  <2> SUFFICES ASSUME Inv, NEW q \in Queries, query[q].at = "answered"
               PROVE  LET lists == query[q].found
                          ids   == {query[q].result[n].id : n \in DOMAIN query[q].result}
                          all   == {h.id : h \in UNION {ToSet(lists[s]) : s \in Stores}}
                      IN  /\ Cardinality(ids) =
                               IF Cardinality(all) > TopK THEN TopK ELSE Cardinality(all)
                          /\ \A i \in all, j \in ids : i # j /\ Outranks(lists, i, j) =>
                               /\ i \in ids
                               /\ RankIn(query[q].result, i) < RankIn(query[q].result, j)
    BY DEF FusionRanks
  <2> DEFINE lists  == query[q].found
             result == query[q].result
             ids    == {result[n].id : n \in DOMAIN result}
             all    == {h.id : h \in UNION {ToSet(lists[s]) : s \in Stores}}
  <2>0. TopK \in Nat \ {0}
    BY KnowledgeAssumption
  <2>1. lists \in Lists /\ result \in Fusions(lists)
    BY TypeParts DEF Inv, QueryInv, Asked, Lists
  <2>2. result \in Hits
    BY <2>1, FusionIsHits
  <2> HIDE DEF lists, result
  <2>3. PICK list, c : Ranking(lists, list, c) /\ Beginning(result, list, c)
    BY <2>1, FusionIsRanking
  <2> DEFINE m == IF c > TopK THEN TopK ELSE c
  <2>4. /\ c \in Nat /\ m \in Nat /\ m <= c
        /\ DOMAIN result = 1..m /\ \A x \in 1..m : result[x] = list[x] /\ x \in 1..c
    BY <2>0, <2>3 DEF Ranking, Beginning
  <2>5. all = {h.id : h \in HitsOf(lists)}
    BY DEF HitsOf, Stores
  <2>6. all = {list[x].id : x \in 1..c}
    <3>1. \A x \in 1..c : list[x].id \in all
      BY <2>3, <2>5 DEF Ranking
    <3>2. \A h \in HitsOf(lists) : \E x \in 1..c : list[x].id = h.id
      BY <2>3 DEF Ranking
    <3>3. \A i \in all : \E x \in 1..c : list[x].id = i
      BY <2>5, <3>2
    <3> HIDE DEF all
    <3>4. QED
      BY <3>1, <3>3
  <2>7. ids = {list[x].id : x \in 1..m}
    BY <2>4
  <2>8. \A x, y \in 1..c : list[x].id = list[y].id => x = y
    BY <2>3 DEF Ranking
  <2> HIDE DEF m, ids, all
  <2>9. ASSUME NEW n \in Nat, n <= c
        PROVE  Cardinality({list[x].id : x \in 1..n}) = n
    <3> DEFINE names == [x \in 1..n |-> list[x].id]
    <3>1. \A x \in 1..n : x \in 1..c
      BY <2>4, <2>9
    <3>2. names \in Bijection(1..n, {list[x].id : x \in 1..n})
      BY <2>8, <3>1 DEF Bijection, Injection, Surjection, IsInjective
    <3>3. 1 \in Int /\ n \in Int
      OBVIOUS
    <3>4. IsFiniteSet(1..n) /\ Cardinality(1..n) = IF 1 > n THEN 0 ELSE n - 1 + 1
      BY <3>3, FS_Interval
    <3>5. Cardinality({list[x].id : x \in 1..n}) = Cardinality(1..n)
      BY <3>2, <3>4, FS_Bijection DEF ExistsBijection
    <3>6. QED
      BY <3>4, <3>5
  <2>10. Cardinality(ids) = m /\ Cardinality(all) = c
    BY <2>4, <2>6, <2>7, <2>9
  <2>11. ASSUME NEW i \in all, NEW j \in ids, Outranks(lists, i, j)
         PROVE  i \in ids /\ RankIn(result, i) < RankIn(result, j)
    <3>1. PICK a \in 1..c : list[a].id = i
      BY <2>6
    <3>2. PICK b \in 1..m : list[b].id = j
      BY <2>7
    <3>3. b \in 1..c /\ list[b] \in HitsOf(lists)
      BY <2>3, <2>4 DEF Ranking
    <3>4. \E s \in Stores : In(lists[s], j)
      <4>1. PICK s \in Stores : list[b] \in ToSet(lists[s])
        BY <3>3 DEF HitsOf, Stores
      <4>2. QED
        BY <3>2, <4>1 DEF ToSet, In
    <3>5. ~AtLeast(Score(lists, j), Score(lists, i))
      BY <2>1, <2>11, <3>4, OutrankingScores
    <3>6. ~(b < a)
      BY <2>3, <3>1, <3>2, <3>3, <3>5 DEF Ranking
    <3>7. i # j
      <4>1. ASSUME i = j PROVE FALSE
        <5>1. Outranks(lists, j, j) /\ \E s \in Stores : In(lists[s], j)
          BY <2>11, <3>4, <4>1
        <5>2. \A s \in Stores : In(lists[s], j) => RankIn(lists[s], j) \in Nat
          BY <2>1, RankIsPlace DEF Lists
        <5>3. QED
          BY <5>1, <5>2 DEF Outranks
      <4>2. QED
        BY <4>1
    <3>8. a < b /\ a \in 1..m
      BY <2>4, <3>1, <3>2, <3>3, <3>6, <3>7
    <3>9. /\ a \in DOMAIN result /\ result[a].id = i
          /\ b \in DOMAIN result /\ result[b].id = j
      BY <2>4, <3>1, <3>2, <3>8
    <3>10. RankIn(result, i) = a /\ RankIn(result, j) = b
      BY <2>2, <3>9, HitList
    <3>11. i \in ids
      BY <2>7, <3>1, <3>8
    <3>12. QED
      BY <3>8, <3>10, <3>11
  <2>12. QED
    BY <2>10, <2>11 DEF ids, all, lists, result, m
<1>2. QED
  BY <1>1, KnowledgeCorrect, PTL

(* A process whose retriever has no collection answers what Elasticsearch  *)
(* found, in its order, and fails on no account of Milvus.                 *)
THEOREM AnswersFromEs == Spec => []AnswersWithoutMilvus
<1>1. Inv => AnswersWithoutMilvus
  <2> SUFFICES ASSUME Inv, NEW q \in Queries, seeker[query[q].graph] = "empty"
               PROVE  /\ query[q].at = "failed" => "es" \notin query[q].ended
                      /\ query[q].at = "answered" => query[q].result = query[q].found["es"]
    BY DEF AnswersWithoutMilvus
  <2>1. Consistent(q) /\ query[q].found \in Lists
    BY TypeParts, QueryParts DEF Inv, Asked, Lists
  <2>2. CASE query[q].at = "answered"
    <3>1. /\ query[q].found["milvus"] = <<>>
          /\ query[q].result \in Fusions(query[q].found)
      BY <2>1, <2>2 DEF Consistent, Stores
    <3>2. QED
      BY <2>1, <2>2, <3>1, FusionOfOne
  <2>3. QED
    BY <2>1, <2>2 DEF Consistent
<1>2. QED
  BY <1>1, KnowledgeCorrect, PTL

=============================================================================

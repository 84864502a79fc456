----------------------- MODULE EvidenceSearch_proofs -----------------------
(* Proofs about EvidenceSearch, for any finite repository, any answers of    *)
(* its indexes, any access filter, reranker and budget: type correctness,    *)
(* the distances of the traversal, the merge, the order of the selection,    *)
(* the fallback of the reranker, and what a plan may rely on.                *)
EXTENDS EvidenceSearch, FiniteSetTheorems, WellFoundedInduction, TLAPS

(***************************************************************************)
(* Numbers and orders                                                      *)
(***************************************************************************)

\* What a quotient is.
LEMMA Quotient ==
    ASSUME NEW a \in Nat, NEW s \in Nat \ {0}
    PROVE  /\ a \div s \in Nat
           /\ s * (a \div s) <= a /\ a < s * (a \div s) + s
  OBVIOUS

\* A product grows with its factor.
LEMMA ProductGrows ==
    ASSUME NEW s \in Nat, NEW a \in Nat, NEW b \in Nat, a <= b
    PROVE  a * s <= b * s /\ s * a <= s * b /\ a * s \in Nat
  OBVIOUS

\* So a quotient grows with what is divided.
LEMMA QuotientGrows ==
    ASSUME NEW a \in Nat, NEW b \in Nat, NEW s \in Nat \ {0}, a <= b
    PROVE  a \div s <= b \div s
<1> DEFINE p == a \div s
           q == b \div s
<1>1. p \in Nat /\ q \in Nat /\ s * p <= a /\ b < s * q + s
  BY Quotient
<1> HIDE DEF p, q
<1>2. ASSUME q + 1 <= p PROVE FALSE
  <2>1. s * (q + 1) <= s * p
    BY <1>1, <1>2, ProductGrows
  <2>2. s * (q + 1) = s * q + s
    BY <1>1
  <2>3. s * q \in Nat /\ s * p \in Nat
    BY <1>1
  <2> QED
    BY <1>1, <2>1, <2>2, <2>3
<1>3. p <= q
  BY <1>1, <1>2
<1> QED
  BY <1>3 DEF p, q

\* A score between the least and the best is stretched to 0..u.
LEMMA Stretched ==
    ASSUME NEW s \in Nat \ {0}, NEW u \in Nat, NEW x \in 0..s
    PROVE  (x * u + s \div 2) \div s \in 0..u
<1> DEFINE h == s \div 2
           a == x * u + h
           q == a \div s
<1>1. h \in Nat /\ h < s
  OBVIOUS
<1>2. x * u \in Nat /\ x * u <= s * u /\ s * u \in Nat
  BY ProductGrows
<1> HIDE DEF h
<1>3. a \in Nat /\ a < s * u + s
  BY <1>1, <1>2
<1> HIDE DEF a
<1>4. q \in Nat /\ s * q <= a
  BY <1>3, Quotient
<1> HIDE DEF q
<1>5. ASSUME u + 1 <= q PROVE FALSE
  <2>1. s * (u + 1) <= s * q
    BY <1>4, <1>5, ProductGrows
  <2>2. s * (u + 1) = s * u + s
    OBVIOUS
  <2>3. s * q \in Nat
    BY <1>4
  <2> QED
    BY <1>2, <1>3, <1>4, <2>1, <2>2, <2>3
<1>6. q \in 0..u
  BY <1>4, <1>5
<1> QED
  BY <1>6 DEF q, a, h

(***************************************************************************)
(* Strict orders of finite sets, given by their pairs                      *)
(***************************************************************************)

StrictOrder(R, S) ==
    /\ \A x \in S : <<x, x>> \notin R
    /\ \A x, y, z \in S : <<x, y>> \in R /\ <<y, z>> \in R => <<x, z>> \in R

Total(R, S) == \A x, y \in S : x = y \/ <<x, y>> \in R \/ <<y, x>> \in R

Ahead(R, S, x) == {y \in S : <<y, x>> \in R}
Position(R, S, x) == Cardinality(Ahead(R, S, x))

\* Who comes later has more ahead.
LEMMA PositionsGrow ==
    ASSUME NEW S, IsFiniteSet(S), NEW R, StrictOrder(R, S)
    PROVE  /\ \A x \in S : Position(R, S, x) \in 0..(Cardinality(S) - 1)
           /\ \A x, y \in S : <<x, y>> \in R => Position(R, S, x) < Position(R, S, y)
<1> DEFINE n == Cardinality(S)
<1>1. n \in Nat
  BY FS_CardinalityType
<1>2. ASSUME NEW x \in S
      PROVE  IsFiniteSet(Ahead(R, S, x)) /\ Cardinality(Ahead(R, S, x)) \in Nat
  <2>1. Ahead(R, S, x) \in SUBSET S
    BY DEF Ahead
  <2> QED
    BY <2>1, FS_Subset, FS_CardinalityType
<1>3. ASSUME NEW x \in S PROVE Position(R, S, x) \in 0..(n - 1)
  <2>1. Ahead(R, S, x) \in SUBSET S /\ x \notin Ahead(R, S, x)
    BY DEF Ahead, StrictOrder
  <2>2. Cardinality(Ahead(R, S, x)) <= n /\ Cardinality(Ahead(R, S, x)) # n
    BY <2>1, FS_Subset
  <2> QED
    BY <1>1, <1>2, <2>2 DEF Position
<1>4. ASSUME NEW x \in S, NEW y \in S, <<x, y>> \in R
      PROVE  Position(R, S, x) < Position(R, S, y)
  <2>1. Ahead(R, S, x) \in SUBSET Ahead(R, S, y)
    BY <1>4 DEF Ahead, StrictOrder
  <2>2. x \in Ahead(R, S, y) /\ x \notin Ahead(R, S, x)
    BY <1>4 DEF Ahead, StrictOrder
  <2>3. /\ Cardinality(Ahead(R, S, x)) <= Cardinality(Ahead(R, S, y))
        /\ Cardinality(Ahead(R, S, x)) # Cardinality(Ahead(R, S, y))
    BY <1>2, <2>1, <2>2, FS_Subset
  <2> QED
    BY <1>2, <2>3 DEF Position
<1> QED
  BY <1>3, <1>4

\* One of them has none ahead.
LEMMA SomeoneIsFirst ==
    ASSUME NEW S, IsFiniteSet(S), S # {}, NEW R, StrictOrder(R, S)
    PROVE  \E x \in S : \A y \in S : <<y, x>> \notin R
<1> DEFINE P == {Position(R, S, x) : x \in S}
<1>1. P \subseteq Nat /\ P # {}
  BY PositionsGrow
<1>2. PICK l \in P : \A t \in P : ~ (t < l)
  <2> HIDE DEF P
  <2>1. \E l \in P : \A t \in P : ~ (<<t, l>> \in OpToRel(<, Nat))
    BY <1>1, NatLessThanWellFounded, WFMin
  <2> QED
    BY <1>1, <2>1 DEF OpToRel
<1>3. PICK x \in S : l = Position(R, S, x)
  OBVIOUS
<1>4. \A y \in S : ~ (Position(R, S, y) < Position(R, S, x))
  BY <1>2, <1>3
<1> QED
  BY <1>4, PositionsGrow

\* In a total order there is one for each position.
LEMMA PositionsAreOnce ==
    ASSUME NEW S, IsFiniteSet(S), NEW R, StrictOrder(R, S), Total(R, S)
    PROVE  /\ \A x, y \in S : Position(R, S, x) = Position(R, S, y) => x = y
           /\ \A k \in 0..(Cardinality(S) - 1) : \E x \in S : Position(R, S, x) = k
<1> DEFINE n == Cardinality(S)
           f == [x \in S |-> Position(R, S, x)]
<1>1. n \in Nat
  BY FS_CardinalityType
<1>2. \A x \in S : Position(R, S, x) \in 0..(n - 1)
  BY PositionsGrow
<1>3. ASSUME NEW x \in S, NEW y \in S, Position(R, S, x) = Position(R, S, y) PROVE x = y
  <2>1. ~(<<x, y>> \in R) /\ ~(<<y, x>> \in R)
    BY <1>2, <1>3, PositionsGrow
  <2> QED
    BY <2>1 DEF Total
<1>4. f \in Injection(S, 0..(n - 1))
  BY <1>2, <1>3 DEF Injection, IsInjective
<1>5. IsFiniteSet(0..(n - 1)) /\ Cardinality(0..(n - 1)) = n
  BY <1>1, FS_Interval
<1>6. f \in Surjection(S, 0..(n - 1))
  <2> HIDE DEF f
  <2> QED
    BY <1>4, <1>5, FS_Injection
<1>7. \A k \in 0..(n - 1) : \E x \in S : Position(R, S, x) = k
  BY <1>6 DEF Surjection
<1> QED
  BY <1>3, <1>7

\* So the first k are k, or all there are.
LEMMA FirstsAreMany ==
    ASSUME NEW S, IsFiniteSet(S), NEW R, StrictOrder(R, S), Total(R, S), NEW k \in Nat
    PROVE  Cardinality({x \in S : Position(R, S, x) < k}) = Least(k, Cardinality(S))
<1> DEFINE n == Cardinality(S)
           T == {x \in S : Position(R, S, x) < k}
           m == Least(k, n)
           f == [x \in T |-> Position(R, S, x)]
<1>1. n \in Nat /\ m \in Nat /\ m <= n /\ m <= k /\ (m = k \/ m = n)
  BY FS_CardinalityType DEF Least
<1>2. \A x \in S : Position(R, S, x) \in 0..(n - 1)
  BY PositionsGrow
<1> HIDE DEF m
<1>3. f \in Injection(T, 0..(m - 1))
  <2>1. ASSUME NEW x \in T PROVE Position(R, S, x) \in 0..(m - 1)
    BY <1>1, <1>2
  <2> QED
    BY <2>1, PositionsAreOnce DEF Injection, IsInjective
<1>4. IsFiniteSet(0..(m - 1)) /\ Cardinality(0..(m - 1)) = m
  <2>1. m \in Nat /\ m - 1 \in Int
    BY <1>1
  <2>2. Cardinality(0..(m - 1)) = IF 0 > m - 1 THEN 0 ELSE (m - 1) - 0 + 1
    BY <2>1, FS_Interval
  <2> QED
    BY <2>1, <2>2, FS_Interval
<1>5. f \in Surjection(T, 0..(m - 1))
  <2>1. ASSUME NEW i \in 0..(m - 1) PROVE \E x \in T : f[x] = i
    <3>1. i \in 0..(n - 1) /\ i < k
      BY <1>1
    <3>2. PICK x \in S : Position(R, S, x) = i
      BY <3>1, PositionsAreOnce
    <3> QED
      BY <3>1, <3>2
  <2>2. f \in [T -> 0..(m - 1)]
    BY <1>3 DEF Injection
  <2> HIDE DEF f
  <2> QED
    BY <2>1, <2>2 DEF Surjection
<1>6. Cardinality(T) = m
  <2> HIDE DEF f, T
  <2> QED
    BY <1>3, <1>4, <1>5, FS_Injection
<1> QED
  BY <1>6 DEF m

\* The numbers of a finite set have a highest and a lowest.
LEMMA Bounds ==
    ASSUME NEW S, IsFiniteSet(S), S # {}, S \subseteq Int
    PROVE  /\ HighestOf(S) \in S /\ \A m \in S : m <= HighestOf(S)
           /\ LowestOf(S) \in S /\ \A m \in S : LowestOf(S) <= m
<1> DEFINE Above == {p \in S \X S : p[1] > p[2]}
           Below == {p \in S \X S : p[1] < p[2]}
<1>1. StrictOrder(Above, S)
  BY DEF StrictOrder
<1>2. StrictOrder(Below, S)
  BY DEF StrictOrder
<1>3. \E x \in S : \A y \in S : y <= x
  <2>1. PICK x \in S : \A y \in S : <<y, x>> \notin Above
    <3> HIDE DEF Above
    <3> QED
      BY <1>1, SomeoneIsFirst
  <2>2. ASSUME NEW y \in S PROVE y <= x
    <3>1. y \in Int /\ x \in Int
      OBVIOUS
    <3>2. <<y, x>> \in S \X S /\ <<y, x>>[1] = y /\ <<y, x>>[2] = x
      OBVIOUS
    <3>3. ~(y > x)
      BY <2>1, <3>2
    <3> QED
      BY <3>1, <3>3
  <2> QED
    BY <2>2
<1>4. \E x \in S : \A y \in S : x <= y
  <2>1. PICK x \in S : \A y \in S : <<y, x>> \notin Below
    <3> HIDE DEF Below
    <3> QED
      BY <1>2, SomeoneIsFirst
  <2>2. ASSUME NEW y \in S PROVE x <= y
    <3>1. y \in Int /\ x \in Int
      OBVIOUS
    <3>2. <<y, x>> \in S \X S /\ <<y, x>>[1] = y /\ <<y, x>>[2] = x
      OBVIOUS
    <3>3. ~(y < x)
      BY <2>1, <3>2
    <3> QED
      BY <3>1, <3>3
  <2> QED
    BY <2>2
<1> QED
  BY <1>3, <1>4 DEF HighestOf, LowestOf

(***************************************************************************)
(* The hits that are merged                                                *)
(***************************************************************************)

HitsOf(S) == S \subseteq Hit

\* A score of one search, stretched.
Stretch(x, low, span) ==
    IF span = 0 THEN IF x > 0 THEN Unit ELSE 0 ELSE ((x - low) * Unit + span \div 2) \div span

LEMMA StretchGrows ==
    ASSUME NEW low \in Int, NEW span \in Nat, NEW x \in low..(low + span),
           NEW y \in low..(low + span), x <= y
    PROVE  /\ Stretch(x, low, span) \in 0..Unit
           /\ Stretch(x, low, span) <= Stretch(y, low, span)
<1>1. Unit \in Nat \ {0}
  BY ScoresAssumption
<1>2. CASE span = 0
  BY <1>1, <1>2 DEF Stretch
<1>3. CASE span # 0
  <2> DEFINE a == x - low
             b == y - low
             u == Unit
             half == span \div 2
             au == a * u
             bu == b * u
  <2>1. a \in 0..span /\ b \in 0..span /\ a <= b /\ a \in Nat /\ b \in Nat /\ u \in Nat
        /\ span \in Nat \ {0} /\ half \in Nat
    BY <1>1, <1>3
  <2>2. Stretch(x, low, span) = (a * u + half) \div span
    BY <1>3 DEF Stretch
  <2>3. Stretch(y, low, span) = (b * u + half) \div span
    BY <1>3 DEF Stretch
  <2>4. (a * u + span \div 2) \div span \in 0..u
    <3> HIDE DEF a, b, u, half
    <3> QED
      BY <2>1, Stretched
  <2>5. a * u <= b * u /\ a * u \in Nat /\ b * u \in Nat
    <3> HIDE DEF a, b, u, half
    <3> QED
      BY <2>1, ProductGrows
  <2>6. (a * u + half) \div span <= (b * u + half) \div span
    <3> HIDE DEF a, b, u, half
    <3> DEFINE p == a * u
               q == b * u
    <3>1. p <= q /\ p \in Nat /\ q \in Nat
      BY <2>5
    <3> HIDE DEF p, q
    <3>2. p + half \in Nat /\ q + half \in Nat /\ p + half <= q + half
      BY <2>1, <3>1
    <3>3. (p + half) \div span <= (q + half) \div span
      BY <2>1, <3>2, QuotientGrows
    <3> QED
      BY <3>3 DEF p, q
  <2> HIDE DEF a, b
  <2> QED
    BY <2>2, <2>3, <2>4, <2>6
<1> QED
  BY <1>2, <1>3

\* h is g but for its normalised score.
AsFound(h, g) == h = [g EXCEPT !.normal = h.normal]

\* Normalisation keeps each hit, and the order of the scores of one mode.
LEMMA NormalisedHits ==
    ASSUME NEW found, IsFiniteSet(found), HitsOf(found)
    PROVE  /\ HitsOf(Normalised(found)) /\ IsFiniteSet(Normalised(found))
           /\ \A h \in Normalised(found) : \E g \in found : AsFound(h, g)
           /\ \A g \in found : \E h \in Normalised(found) : AsFound(h, g)
           /\ \A a, b \in Normalised(found) : a.score <= b.score => a.normal <= b.normal
<1> DEFINE all == {h.score : h \in found}
           low == LowestOf(all)
           span == HighestOf(all) - low
           f == [h \in found |-> [h EXCEPT !.normal = Stretch(h.score, low, span)]]
           T == {f[h] : h \in found}
<1>1. Normalised(found) = T
  BY DEF Normalised, Stretch
<1>2. IsFiniteSet(T)
  <2>1. f \in Surjection(found, T)
    BY DEF Surjection
  <2> HIDE DEF f, T
  <2> QED
    BY <2>1, FS_Surjection
<1>3. CASE found = {}
  <2>1. T = {}
    BY <1>3
  <2> HIDE DEF T
  <2> QED
    BY <1>1, <1>2, <1>3, <2>1 DEF HitsOf
<1>4. CASE found # {}
  <2>1. IsFiniteSet(all)
    <3> DEFINE s == [h \in found |-> h.score]
    <3>1. s \in Surjection(found, all)
      BY DEF Surjection
    <3> HIDE DEF s, all
    <3> QED
      BY <3>1, FS_Surjection
  <2>2. all \subseteq Int /\ all # {}
    BY <1>4 DEF HitsOf, Hit
  <2>3. /\ low \in Int /\ HighestOf(all) \in Int
        /\ \A m \in all : low <= m /\ m <= HighestOf(all)
        /\ low <= HighestOf(all)
    <3> HIDE DEF all
    <3> QED
      BY <2>1, <2>2, Bounds
  <2>4. span \in Nat /\ \A h \in found : h.score \in low..(low + span)
    <3>1. \A h \in found : h.score \in all /\ h.score \in Int
      BY <2>2
    <3> HIDE DEF all
    <3>2. span \in Nat /\ low + span = HighestOf(all)
      BY <2>3
    <3> HIDE DEF span, low
    <3> QED
      BY <2>3, <3>1, <3>2
  <2> HIDE DEF span, low
  <2>5. ASSUME NEW h \in found
        PROVE  /\ Stretch(h.score, low, span) \in 0..Unit
               /\ f[h] \in Hit /\ AsFound(f[h], h)
               /\ f[h].normal = Stretch(h.score, low, span) /\ f[h].score = h.score
    <3>1. Stretch(h.score, low, span) \in 0..Unit
      <4>1. h.score <= h.score
        BY <2>2, <2>4
      <4> QED
        BY <2>3, <2>4, <4>1, StretchGrows
    <3>2. h \in Hit
      BY DEF HitsOf
    <3> QED
      BY <3>1, <3>2 DEF Hit, AsFound
  <2>6. ASSUME NEW a \in found, NEW b \in found, f[a].score <= f[b].score
        PROVE  f[a].normal <= f[b].normal
    <3>1. a.score <= b.score
      BY <2>5, <2>6
    <3>2. Stretch(a.score, low, span) <= Stretch(b.score, low, span)
      BY <2>3, <2>4, <3>1, StretchGrows
    <3> QED
      BY <2>5, <3>2
  <2> HIDE DEF f
  <2>7. HitsOf(T)
    BY <2>5 DEF HitsOf
  <2>8. /\ \A h \in T : \E g \in found : AsFound(h, g)
        /\ \A g \in found : \E h \in T : AsFound(h, g)
    BY <2>5
  <2>9. \A a, b \in T : a.score <= b.score => a.normal <= b.normal
    BY <2>6
  <2> HIDE DEF T
  <2> QED
    BY <1>1, <1>2, <2>7, <2>8, <2>9
<1> QED
  BY <1>3, <1>4

\* The hits of a search, or of two, that are in the cut.
Cut(found) == UNION {TopOf({h \in found : h.mode = m}, plan.topK) : m \in Modes}

ChunksOf(S) == {h.chunk : h \in S}

\* In one mode a higher score has no lower normalised score.
Alike(S) == \A a, b \in S : a.mode = b.mode /\ a.score <= b.score => a.normal <= b.normal

\* What a merge begins with: the hits in the cut that are let through.
LEMMA MergeBegins ==
    ASSUME NEW found, IsFiniteSet(found), HitsOf(found), BeginMerge(found)
    PROVE  /\ HitsOf(given') /\ IsFiniteSet(given') /\ pending' = given' /\ Alike(given')
           /\ \A h \in given' : \E g \in found : AsFound(h, g)
           /\ hits' = hits \cup ChunksOf(Cut(found))
           /\ ChunksOf(given') = ChunksOf(Cut(found)) \cap visible
           /\ merged' = Nothing /\ modesOf' = [c \in Chunks |-> {}] /\ results' = results
<1> DEFINE by(m) == TopOf({h \in found : h.mode = m}, plan.topK)
           granted(m) == ThroughFilter(by(m))
           all == UNION {Normalised(granted(m)) : m \in Modes}
<1>1. /\ given' = all /\ pending' = all
      /\ hits' = hits \cup {h.chunk : h \in UNION {by(m) : m \in Modes}}
      /\ merged' = Nothing /\ modesOf' = [c \in Chunks |-> {}] /\ results' = results
  BY DEF BeginMerge
<1>2. \A m : by(m) \subseteq found /\ \A h \in by(m) : h.mode = m
  BY DEF TopOf
<1>3. Cut(found) = UNION {by(m) : m \in Modes}
  BY DEF Cut
<1>4. \A m : granted(m) = {h \in by(m) : h.chunk \in visible}
  BY DEF ThroughFilter
<1> HIDE DEF by, granted
<1>5. ASSUME NEW m \in Modes
      PROVE  /\ IsFiniteSet(granted(m)) /\ HitsOf(granted(m)) /\ granted(m) \subseteq found
             /\ \A h \in granted(m) : h.mode = m
  <2>1. granted(m) \in SUBSET found
    BY <1>2, <1>4
  <2> QED
    BY <1>2, <1>4, <2>1, FS_Subset DEF HitsOf
<1>6. ASSUME NEW m \in Modes
      PROVE  /\ HitsOf(Normalised(granted(m))) /\ IsFiniteSet(Normalised(granted(m)))
             /\ \A h \in Normalised(granted(m)) : \E g \in granted(m) : AsFound(h, g)
             /\ \A g \in granted(m) : \E h \in Normalised(granted(m)) : AsFound(h, g)
             /\ \A a, b \in Normalised(granted(m)) : a.score <= b.score => a.normal <= b.normal
  <2> DEFINE g == granted(m)
  <2>1. IsFiniteSet(g) /\ HitsOf(g)
    BY <1>5
  <2> HIDE DEF g
  <2>2. /\ HitsOf(Normalised(g)) /\ IsFiniteSet(Normalised(g))
        /\ \A h \in Normalised(g) : \E x \in g : AsFound(h, x)
        /\ \A x \in g : \E h \in Normalised(g) : AsFound(h, x)
        /\ \A a, b \in Normalised(g) : a.score <= b.score => a.normal <= b.normal
    BY <2>1, NormalisedHits
  <2> QED
    BY <2>2 DEF g
<1>7. \A h, g : g \in Hit /\ AsFound(h, g) => h.mode = g.mode /\ h.chunk = g.chunk
  BY DEF AsFound, Hit
<1>8. ASSUME NEW m \in Modes, NEW h \in Normalised(granted(m))
      PROVE  h.mode = m /\ \E g \in granted(m) : AsFound(h, g) /\ h.chunk = g.chunk
  BY <1>5, <1>6, <1>7 DEF HitsOf
<1>9. HitsOf(all)
  BY <1>6 DEF HitsOf
<1>10. IsFiniteSet(all)
  <2>1. all = Normalised(granted("graph")) \cup Normalised(granted("keyword"))
              \cup Normalised(granted("vector"))
    BY DEF Modes
  <2>2. "graph" \in Modes /\ "keyword" \in Modes /\ "vector" \in Modes
    BY DEF Modes
  <2>3. IsFiniteSet(Normalised(granted("graph"))) /\ IsFiniteSet(Normalised(granted("keyword")))
        /\ IsFiniteSet(Normalised(granted("vector")))
    BY <1>6, <2>2
  <2> HIDE DEF all
  <2> QED
    BY <2>1, <2>3, FS_Union
<1>11. Alike(all)
  <2>1. ASSUME NEW m \in Modes, NEW n \in Modes, NEW a \in Normalised(granted(m)),
               NEW b \in Normalised(granted(n)), a.mode = b.mode, a.score <= b.score
        PROVE  a.normal <= b.normal
    <3>1. m = n
      BY <1>8, <2>1
    <3> QED
      BY <1>6, <2>1, <3>1
  <2> QED
    BY <2>1 DEF Alike
<1>12. \A h \in all : \E g \in found : AsFound(h, g)
  BY <1>5, <1>6
<1>13. ChunksOf(all) = ChunksOf(Cut(found)) \cap visible
  <2>1. ASSUME NEW m \in Modes, NEW h \in Normalised(granted(m))
        PROVE  h.chunk \in ChunksOf(Cut(found)) \cap visible
    BY <1>3, <1>4, <1>8 DEF ChunksOf
  <2>2. ASSUME NEW m \in Modes, NEW g \in by(m), g.chunk \in visible
        PROVE  g.chunk \in ChunksOf(all)
    <3>1. g \in granted(m) /\ g \in Hit
      BY <1>4, <1>5, <2>2 DEF HitsOf
    <3>2. PICK h \in Normalised(granted(m)) : AsFound(h, g)
      BY <1>6, <3>1
    <3>3. h.chunk = g.chunk /\ h \in all
      BY <1>7, <3>1, <3>2
    <3> HIDE DEF all
    <3> QED
      BY <3>3 DEF ChunksOf
  <2>3. ChunksOf(all) \subseteq ChunksOf(Cut(found)) \cap visible
    BY <2>1 DEF ChunksOf
  <2> HIDE DEF all
  <2>4. \A g \in Cut(found) : g.chunk \in visible => g.chunk \in ChunksOf(all)
    BY <1>3, <2>2
  <2> QED
    BY <2>3, <2>4 DEF ChunksOf
<1> HIDE DEF all
<1> QED
  BY <1>1, <1>3, <1>9, <1>10, <1>11, <1>12, <1>13 DEF by, ChunksOf

\* The searches find finitely many hits.
LEMMA TextHitsFound ==
    ASSUME NEW mode \in {"keyword", "vector"}, NEW score \in [Chunks -> Int \cup {NoHit}]
    PROVE  /\ HitsOf(TextHits(mode, score)) /\ IsFiniteSet(TextHits(mode, score))
           /\ \A h \in TextHits(mode, score) : h.mode = mode
           /\ \A a, b \in TextHits(mode, score) : a.chunk = b.chunk => a = b
<1> DEFINE C == {c \in Chunks : score[c] # NoHit}
           hit(c) == [mode |-> mode, chunk |-> c, relations |-> {}, score |-> score[c],
                      normal |-> 0]
           f == [c \in C |-> hit(c)]
           T == TextHits(mode, score)
<1>1. T = {hit(c) : c \in C}
  BY DEF TextHits
<1>2. IsFiniteSet(C)
  <2>1. C \in SUBSET Chunks
    OBVIOUS
  <2> QED
    BY <2>1, FS_Subset, GraphAssumption
<1>3. IsFiniteSet(T)
  <2>1. f \in Surjection(C, T)
    BY <1>1 DEF Surjection
  <2> HIDE DEF C, f, T
  <2> QED
    BY <1>2, <2>1, FS_Surjection
<1>4. HitsOf(T)
  <2>1. ASSUME NEW c \in C PROVE hit(c) \in Hit
    <3>1. score[c] \in Int /\ 0 \in 0..Unit /\ mode \in Modes
      BY ScoresAssumption, NoHitAssumption DEF Modes
    <3> QED
      BY <3>1 DEF Hit
  <2> HIDE DEF hit
  <2> QED
    BY <1>1, <2>1 DEF HitsOf
<1>5. /\ \A h \in T : h.mode = mode
      /\ \A a, b \in T : a.chunk = b.chunk => a = b
  BY <1>1
<1> HIDE DEF T
<1> QED
  BY <1>3, <1>4, <1>5 DEF T

LEMMA GraphHitsFound ==
    ASSUME DOMAIN distance \subseteq Relations, \A r \in DOMAIN distance : distance[r] \in Nat
    PROVE  /\ HitsOf(GraphHits) /\ IsFiniteSet(GraphHits)
           /\ \A h \in GraphHits : h.mode = "graph" /\ \E r \in Relations : h.relations = {r}
           /\ \A a, b \in GraphHits : a.chunk = b.chunk /\ a.relations = b.relations => a = b
<1> DEFINE P == {p \in (DOMAIN distance) \X Chunks : p[2] \in Evidence[p[1]]}
           hit(p) == [mode |-> "graph", chunk |-> p[2], relations |-> {p[1]}, normal |-> 0,
                      score |-> Confidence[p[1]]
                                + (IF Ends(p[1]) \cap plan.seeds # {} THEN 2 ELSE 0)
                                - distance[p[1]]]
           f == [p \in P |-> hit(p)]
<1>0. \A r \in Relations : Confidence[r] \in Int
  <2>1. Confidence \in [Relations -> Nat]
    BY GraphAssumption
  <2> QED
    BY <2>1
<1>1. GraphHits = {hit(p) : p \in P}
  BY DEF GraphHits
<1>2. IsFiniteSet(P)
  <2>1. P \in SUBSET (Relations \X Chunks)
    OBVIOUS
  <2>2. IsFiniteSet(Relations \X Chunks)
    BY GraphAssumption, FS_Product
  <2> HIDE DEF P
  <2> QED
    BY <2>1, <2>2, FS_Subset
<1>3. IsFiniteSet(GraphHits)
  <2>1. f \in Surjection(P, GraphHits)
    BY <1>1 DEF Surjection
  <2> HIDE DEF P, f
  <2> QED
    BY <1>2, <2>1, FS_Surjection
<1>4. HitsOf(GraphHits)
  <2>1. ASSUME NEW p \in P PROVE hit(p) \in Hit
    <3>1. p[1] \in Relations /\ p[2] \in Chunks /\ distance[p[1]] \in Int
      OBVIOUS
    <3>2. Confidence[p[1]] \in Int
      BY <3>1, <1>0
    <3>3. 0 \in 0..Unit /\ "graph" \in Modes
      BY ScoresAssumption DEF Modes
    <3> QED
      BY <3>1, <3>2, <3>3 DEF Hit
  <2> HIDE DEF hit
  <2> QED
    BY <1>1, <2>1 DEF HitsOf
<1>5. \A h \in GraphHits : h.mode = "graph" /\ \E r \in Relations : h.relations = {r}
  BY <1>1
<1>6. ASSUME NEW p \in P, NEW q \in P, hit(p).chunk = hit(q).chunk,
             hit(p).relations = hit(q).relations
      PROVE  hit(p) = hit(q)
  <2>1. p[2] = q[2] /\ p[1] = q[1]
    BY <1>6
  <2> QED
    BY <2>1
<1> HIDE DEF hit, P
<1>7. \A a, b \in GraphHits : a.chunk = b.chunk /\ a.relations = b.relations => a = b
  BY <1>1, <1>6
<1> QED
  BY <1>3, <1>4, <1>5, <1>7

(***************************************************************************)
(* Type correctness                                                        *)
(***************************************************************************)

\* Nothing is selected before the selection; there are finitely many hits.
ListsInv ==
    /\ chosen \in Seq(Scored) /\ deferred \in Seq(Scored)
    /\ (phase \notin {"select", "done"}) => chosen = <<>> /\ deferred = <<>>
    /\ IsFiniteSet(given) /\ pending \subseteq given
    /\ \A c \in DOMAIN merged : merged[c].chunk = c

SearchInv == TypeOK /\ ListsInv

LEMMA SearchInit == Init => SearchInv
<1> SUFFICES ASSUME Init PROVE SearchInv
  OBVIOUS
<1>1. plan \in Plans /\ visible \in SUBSET Chunks
  BY DEF Init
<1>2. phase \in {"traverse", "graph", "text"}
  BY DEF Init
<1>3. plan.seeds \in SUBSET Entities
  BY <1>1, GraphAssumption DEF Plans
<1>4. depth \in Nat /\ frontier \in SUBSET Entities /\ visited \in SUBSET Entities
  BY <1>3 DEF Init
<1>5. distance = Nothing /\ merged = Nothing /\ DOMAIN Nothing = {}
  BY DEF Init, Nothing
<1>6. /\ given = {} /\ pending = {} /\ results = {} /\ hits = {} /\ scored = {}
      /\ modesOf \in [Chunks -> SUBSET Modes] /\ failed \in BOOLEAN
  BY DEF Init
<1>7. chosen = <<>> /\ deferred = <<>>
  BY DEF Init
<1>8. InSequence(chosen) = {} /\ InSequence(deferred) = {}
  BY <1>7 DEF InSequence
<1>9. TypeOK
  BY <1>1, <1>2, <1>4, <1>5, <1>6, <1>8 DEF TypeOK, Hits
<1>10. ListsInv
  <2>1. IsFiniteSet(given)
    BY <1>6, FS_EmptySet
  <2> QED
    BY <1>5, <1>6, <1>7, <2>1 DEF ListsInv
<1> QED
  BY <1>9, <1>10 DEF SearchInv

\* The parts of the type invariant.
LEMMA PlanParts ==
    ASSUME plan \in Plans
    PROVE  /\ plan.seeds \in SUBSET Entities /\ plan.relations \in SUBSET Relations
           /\ plan.depth \in Int /\ plan.topK \in Nat /\ plan.quota \in Int
           /\ plan.modes \in SelectedModes
  BY GraphAssumption, BudgetAssumption DEF Plans

LEMMA EndsParts ==
    \A r \in Relations : Ends(r) \subseteq Entities /\ Ends(r) # {}
<1>1. From \in [Relations -> Entities] /\ To \in [Relations -> Entities]
  BY GraphAssumption
<1> QED
  BY <1>1 DEF Ends

LEMMA HitParts ==
    \A h \in Hit : /\ h.mode \in Modes /\ h.chunk \in Chunks /\ h.relations \in SUBSET Relations
                   /\ h.score \in Int /\ h.normal \in 0..Unit /\ h.normal \in Nat
<1>1. Unit \in Nat
  BY ScoresAssumption
<1> QED
  BY <1>1 DEF Hit

LEMMA ChunkParts ==
    \A c \in Chunks : c \in Nat /\ Trust[c] \in Nat
<1>1. Chunks \subseteq Nat /\ Trust \in [Chunks -> Nat]
  BY GraphAssumption, ScoresAssumption
<1> QED
  BY <1>1

LEMMA TraverseStep == SearchInv /\ TraverseRound => SearchInv'
<1> SUFFICES ASSUME SearchInv, TraverseRound PROVE SearchInv'
  OBVIOUS
<1> USE DEF SearchInv
<1>1. Touched \subseteq Relations
  BY PlanParts DEF TypeOK, Touched, RelationsOf
<1>2. Reached \subseteq Entities
  BY <1>1, EndsParts DEF Reached
<1>3. /\ DOMAIN (distance') \subseteq Relations
      /\ \A r \in DOMAIN (distance') : distance'[r] \in Nat
  BY <1>1 DEF TraverseRound, Distances, TypeOK
<1>4. /\ depth' \in Nat /\ frontier' \in SUBSET Entities /\ visited' \in SUBSET Entities
  BY <1>2 DEF TraverseRound, TypeOK
<1>5. phase = "traverse" /\ phase' \in {"graph", "traverse"}
  BY DEF TraverseRound
<1>6. /\ UNCHANGED <<plan, visible, given, pending, merged, modesOf, hits, results>>
      /\ UNCHANGED <<scored, failed, chosen, deferred>>
  BY DEF TraverseRound, merging, ranking
<1>7. TypeOK'
  BY <1>3, <1>4, <1>5, <1>6 DEF TypeOK, Hits, InSequence
<1>8. ListsInv'
  BY <1>5, <1>6 DEF ListsInv
<1> QED
  BY <1>7, <1>8

\* A merge that begins.
LEMMA SearchStep ==
    ASSUME SearchInv, NEW found, IsFiniteSet(found), HitsOf(found), BeginMerge(found),
           phase' \in {"merge graph", "merge text"}, phase \in {"graph", "text"},
           UNCHANGED <<plan, visible, search, ranking>>
    PROVE  SearchInv'
<1> USE DEF SearchInv
<1>1. /\ HitsOf(given') /\ IsFiniteSet(given') /\ pending' = given'
      /\ hits' = hits \cup ChunksOf(Cut(found))
      /\ merged' = Nothing /\ modesOf' = [c \in Chunks |-> {}] /\ results' = results
  BY MergeBegins
<1>2. Cut(found) \subseteq found
  BY DEF Cut, TopOf
<1>3. hits' \in SUBSET Chunks
  BY <1>1, <1>2, HitParts DEF ChunksOf, TypeOK, HitsOf
<1>4. DOMAIN Nothing = {}
  BY DEF Nothing
<1>5. UNCHANGED <<depth, frontier, visited, distance, scored, failed, chosen, deferred>>
  BY DEF search, ranking
<1>6. modesOf' \in [Chunks -> SUBSET Modes]
  BY <1>1
<1>7. Hits(given') /\ Hits(pending') /\ Hits(results')
  BY <1>1 DEF Hits, HitsOf, TypeOK
<1>8. TypeOK'
  BY <1>1, <1>3, <1>4, <1>5, <1>6, <1>7 DEF TypeOK, Hits, InSequence
<1>9. ListsInv'
  BY <1>1, <1>4, <1>5 DEF ListsInv
<1> QED
  BY <1>8, <1>9

\* What the graph, or the text indexes, find.
LEMMA TextFound ==
    ASSUME NEW keyword \in KeywordAnswers,
           NEW vector \in (IF "hybrid" \in plan.modes THEN VectorAnswers ELSE {NoAnswer})
    PROVE  LET K == TextHits("keyword", keyword)
               V == TextHits("vector", vector)
           IN  /\ IsFiniteSet(K \cup V) /\ HitsOf(K \cup V)
               /\ K = {h \in K \cup V : h.mode = "keyword"}
               /\ V = {h \in K \cup V : h.mode = "vector"}
               /\ {} = {h \in K \cup V : h.mode = "graph"}
               /\ IsFiniteSet(K) /\ HitsOf(K) /\ IsFiniteSet(V) /\ HitsOf(V)
               /\ \A a, b \in K : a.chunk = b.chunk => a = b
               /\ \A a, b \in V : a.chunk = b.chunk => a = b
<1> DEFINE K == TextHits("keyword", keyword)
           V == TextHits("vector", vector)
<1>1. keyword \in [Chunks -> Int \cup {NoHit}]
  <2>1. keyword \in [Chunks -> (Nat \ {0}) \cup {NoHit}]
    BY ScoresAssumption
  <2> QED
    BY <2>1
<1>2. vector \in [Chunks -> Int \cup {NoHit}]
  <2>1. CASE vector \in VectorAnswers
    BY <2>1, ScoresAssumption
  <2>2. CASE vector = NoAnswer
    BY <2>2 DEF NoAnswer
  <2> QED
    BY <2>1, <2>2
<1>3. /\ HitsOf(K) /\ IsFiniteSet(K) /\ \A h \in K : h.mode = "keyword"
      /\ \A a, b \in K : a.chunk = b.chunk => a = b
  BY <1>1, TextHitsFound
<1>4. /\ HitsOf(V) /\ IsFiniteSet(V) /\ \A h \in V : h.mode = "vector"
      /\ \A a, b \in V : a.chunk = b.chunk => a = b
  BY <1>2, TextHitsFound
<1> HIDE DEF K, V
<1>5. IsFiniteSet(K \cup V)
  BY <1>3, <1>4, FS_Union
<1>6. HitsOf(K \cup V)
  BY <1>3, <1>4 DEF HitsOf
<1> QED
  BY <1>3, <1>4, <1>5, <1>6 DEF K, V

LEMMA GraphFound ==
    ASSUME TypeOK
    PROVE  /\ IsFiniteSet(GraphHits) /\ HitsOf(GraphHits)
           /\ GraphHits = {h \in GraphHits : h.mode = "graph"}
           /\ {} = {h \in GraphHits : h.mode = "keyword"}
           /\ {} = {h \in GraphHits : h.mode = "vector"}
           /\ \A h \in GraphHits : \E r \in Relations : h.relations = {r}
           /\ \A a, b \in GraphHits : a.chunk = b.chunk /\ a.relations = b.relations => a = b
<1>1. DOMAIN distance \subseteq Relations /\ \A r \in DOMAIN distance : distance[r] \in Nat
  BY DEF TypeOK
<1>2. /\ HitsOf(GraphHits) /\ IsFiniteSet(GraphHits)
      /\ \A h \in GraphHits : h.mode = "graph" /\ \E r \in Relations : h.relations = {r}
      /\ \A a, b \in GraphHits : a.chunk = b.chunk /\ a.relations = b.relations => a = b
  BY <1>1, GraphHitsFound
<1> QED
  BY <1>2

LEMMA SearchSteps == SearchInv /\ (GraphSearch \/ TextSearch) => SearchInv'
<1> SUFFICES ASSUME SearchInv, GraphSearch \/ TextSearch PROVE SearchInv'
  OBVIOUS
<1>1. CASE GraphSearch
  <2>1. IsFiniteSet(GraphHits) /\ HitsOf(GraphHits)
    BY GraphFound DEF SearchInv
  <2> QED
    BY <1>1, <2>1, SearchStep DEF GraphSearch
<1>2. CASE TextSearch
  <2>1. PICK keyword \in KeywordAnswers,
             vector \in (IF "hybrid" \in plan.modes THEN VectorAnswers ELSE {NoAnswer}) :
             BeginMerge(TextHits("keyword", keyword) \cup TextHits("vector", vector))
    BY <1>2 DEF TextSearch
  <2> DEFINE found == TextHits("keyword", keyword) \cup TextHits("vector", vector)
  <2>2. IsFiniteSet(found) /\ HitsOf(found)
    BY TextFound
  <2>3. BeginMerge(found)
    BY <2>1
  <2> HIDE DEF found
  <2> QED
    BY <1>2, <2>2, <2>3, SearchStep DEF TextSearch
<1> QED
  BY <1>1, <1>2

LEMMA MergeOneStep == SearchInv /\ MergeOne => SearchInv'
<1> SUFFICES ASSUME SearchInv, MergeOne PROVE SearchInv'
  OBVIOUS
<1> USE DEF SearchInv
<1>1. PICK h \in pending :
          /\ merged' = [c \in DOMAIN merged \cup {h.chunk} |->
                           IF c # h.chunk THEN merged[c]
                           ELSE IF c \in DOMAIN merged THEN KeepBetter(merged[c], h) ELSE h]
          /\ modesOf' = [modesOf EXCEPT ![h.chunk] = @ \cup {h.mode}]
          /\ pending' = pending \ {h}
  BY DEF MergeOne
<1>2. /\ UNCHANGED <<plan, visible, phase, given, hits, results>>
      /\ UNCHANGED <<depth, frontier, visited, distance, scored, failed, chosen, deferred>>
  BY DEF MergeOne, search, ranking
<1>3. h \in Hit
  BY DEF TypeOK, Hits
<1>4. ASSUME NEW g \in Hit, g.chunk = h.chunk
      PROVE  KeepBetter(g, h) \in Hit /\ KeepBetter(g, h).chunk = h.chunk
  <2>1. /\ g.relations \cup h.relations \in SUBSET Relations
        /\ h.relations \cup g.relations \in SUBSET Relations
    BY <1>3, HitParts
  <2>2. Most(g.score, h.score) \in Int
    BY <1>3, HitParts DEF Most
  <2>3. CASE h.normal > g.normal
    BY <1>3, <1>4, <2>1, <2>3 DEF KeepBetter, Hit
  <2>4. CASE ~(h.normal > g.normal)
    BY <1>3, <1>4, <2>1, <2>2, <2>4 DEF KeepBetter, Hit
  <2> QED
    BY <2>3, <2>4
<1>5. DOMAIN (merged') \subseteq Chunks
  BY <1>1, <1>3, HitParts DEF TypeOK
<1>6. ASSUME NEW c \in DOMAIN (merged') PROVE merged'[c] \in Hit /\ merged'[c].chunk = c
  <2>1. CASE c # h.chunk
    BY <1>1, <2>1 DEF TypeOK, ListsInv
  <2>2. CASE c = h.chunk /\ c \in DOMAIN merged
    <3>1. merged'[c] = KeepBetter(merged[c], h)
      BY <1>1, <2>2
    <3>2. merged[c] \in Hit /\ merged[c].chunk = h.chunk
      BY <2>2 DEF TypeOK, ListsInv
    <3> QED
      BY <1>4, <2>2, <3>1, <3>2
  <2>3. CASE c = h.chunk /\ c \notin DOMAIN merged
    BY <1>1, <1>3, <2>3
  <2> QED
    BY <2>1, <2>2, <2>3
<1>7. modesOf' \in [Chunks -> SUBSET Modes]
  BY <1>1, <1>3, HitParts DEF TypeOK
<1>8. Hits(pending') /\ pending' \subseteq given'
  BY <1>1, <1>2 DEF TypeOK, Hits, ListsInv
<1>9. TypeOK'
  BY <1>2, <1>5, <1>6, <1>7, <1>8 DEF TypeOK, Hits, InSequence
<1>10. ListsInv'
  BY <1>2, <1>6, <1>8 DEF ListsInv
<1> QED
  BY <1>9, <1>10

LEMMA EndMergeStep == SearchInv /\ EndMerge => SearchInv'
<1> SUFFICES ASSUME SearchInv, EndMerge PROVE SearchInv'
  OBVIOUS
<1> USE DEF SearchInv
<1>1. /\ phase \in {"merge graph", "merge text"} /\ phase' \in {"text", "score"}
      /\ results' = BestMerged(plan.topK)
      /\ UNCHANGED <<plan, visible, given, pending, merged, modesOf, hits>>
      /\ UNCHANGED <<depth, frontier, visited, distance, scored, failed, chosen, deferred>>
  BY DEF EndMerge, search, ranking
<1>2. Hits(results')
  BY <1>1 DEF BestMerged, MergedHits, TypeOK, Hits
<1>3. TypeOK'
  BY <1>1, <1>2 DEF TypeOK, Hits, InSequence
<1>4. ListsInv'
  BY <1>1 DEF ListsInv
<1> QED
  BY <1>3, <1>4

\* Scores are natural numbers.
LEMMA WeightedParts ==
    ASSUME NEW h \in Hit, NEW relevance \in Relevances
    PROVE  Weighted(h, relevance) \in Scored
<1>1. relevance \in 0..Unit /\ Unit \in Nat
  BY ScoresAssumption
<1>2. relevance \in Nat
  BY <1>1
<1>3. h.normal \in Nat /\ Trust[h.chunk] \in Nat
  BY HitParts, ChunkParts
<1>4. 55 * relevance + 25 * h.normal + Trust[h.chunk] \in Nat
  BY <1>2, <1>3
<1> QED
  BY <1>4 DEF Weighted, Scored

LEMMA FallbackParts ==
    ASSUME NEW hs, HitsOf(hs)
    PROVE  FallbackScores(hs) \subseteq Scored
<1>1. ASSUME NEW h \in hs PROVE [hit |-> h, score |-> 100 * h.normal] \in Scored
  <2>1. h \in Hit /\ h.normal \in Nat
    BY HitParts DEF HitsOf
  <2>2. 100 * h.normal \in Nat
    BY <2>1
  <2> QED
    BY <2>1, <2>2 DEF Scored
<1> QED
  BY <1>1 DEF FallbackScores

LEMMA ScoringSteps ==
    SearchInv /\ (ScoreOne \/ RerankerRaises \/ EndScoring \/ EndSelection) => SearchInv'
<1> SUFFICES ASSUME SearchInv, ScoreOne \/ RerankerRaises \/ EndScoring \/ EndSelection
             PROVE  SearchInv'
  OBVIOUS
<1> USE DEF SearchInv
<1>1. /\ phase \in {"score", "select"} /\ phase' \in {"score", "select", "done"}
      /\ phase' = "score" => phase = "score"
      /\ UNCHANGED <<plan, visible, given, pending, merged, modesOf, hits, results>>
      /\ UNCHANGED <<depth, frontier, visited, distance, chosen, deferred>>
      /\ phase # "score" => UNCHANGED scored
      /\ UNCHANGED failed \/ failed' = TRUE
  BY DEF ScoreOne, RerankerRaises, EndScoring, EndSelection, search, merging, ranking
<1>2. \A s \in scored' : s \in Scored
  <2>1. CASE ScoreOne
    <3>1. PICK h \in Unscored, relevance \in Relevances :
               scored' = scored \cup {Weighted(h, relevance)}
      BY <2>1 DEF ScoreOne
    <3>2. h \in Hit
      BY <3>1 DEF Unscored, TypeOK, Hits
    <3> QED
      BY <3>1, <3>2, WeightedParts DEF TypeOK
  <2>2. CASE RerankerRaises
    BY <2>2, FallbackParts DEF RerankerRaises, TypeOK, Hits, HitsOf
  <2>3. CASE EndScoring \/ EndSelection
    BY <2>3 DEF EndScoring, EndSelection, ranking, TypeOK
  <2> QED
    BY <2>1, <2>2, <2>3
<1>3. InSequence(chosen) \subseteq scored' /\ InSequence(deferred) \subseteq scored'
  <2>1. CASE phase = "score"
    BY <2>1 DEF ListsInv, InSequence
  <2>2. CASE phase # "score"
    BY <1>1, <2>2 DEF TypeOK
  <2> QED
    BY <2>1, <2>2
<1>4. phase' \notin {"select", "done"} => chosen' = <<>> /\ deferred' = <<>>
  BY <1>1 DEF ListsInv
<1>5. TypeOK'
  <2>1. failed' \in BOOLEAN
    BY <1>1 DEF TypeOK
  <2>2. InSequence(chosen)' = InSequence(chosen) /\ InSequence(deferred)' = InSequence(deferred)
    BY <1>1 DEF InSequence
  <2>3. phase' \in {"traverse", "graph", "text", "merge graph", "merge text", "score", "select",
                    "done"}
    BY <1>1
  <2> QED
    BY <1>1, <1>2, <1>3, <2>1, <2>2, <2>3 DEF TypeOK, Hits
<1>6. ListsInv'
  BY <1>1, <1>4 DEF ListsInv
<1> QED
  BY <1>5, <1>6

\* A list that grows.
LEMMA Grown ==
    ASSUME NEW T, NEW q \in Seq(T), NEW s \in T
    PROVE  /\ Append(q, s) \in Seq(T) /\ Len(Append(q, s)) = Len(q) + 1
           /\ \A i \in 1..Len(q) : Append(q, s)[i] = q[i]
           /\ Append(q, s)[Len(q) + 1] = s
           /\ InSequence(Append(q, s)) = InSequence(q) \cup {s}
<1>1. /\ Append(q, s) \in Seq(T) /\ Len(Append(q, s)) = Len(q) + 1
      /\ \A i \in 1..Len(q) : Append(q, s)[i] = q[i]
      /\ Append(q, s)[Len(q) + 1] = s
  OBVIOUS
<1>2. DOMAIN q = 1..Len(q) /\ DOMAIN Append(q, s) = 1..(Len(q) + 1) /\ Len(q) \in Nat
  BY <1>1
<1>3. InSequence(Append(q, s)) = InSequence(q) \cup {s}
  <2>1. 1..(Len(q) + 1) = (1..Len(q)) \cup {Len(q) + 1}
    BY <1>2
  <2> DEFINE a == Append(q, s)
  <2> HIDE DEF a
  <2> QED
    BY <1>1, <1>2, <2>1 DEF InSequence, a
<1> QED
  BY <1>1, <1>3

LEMMA SelectStep == SearchInv /\ SelectOne => SearchInv'
<1> SUFFICES ASSUME SearchInv, SelectOne PROVE SearchInv'
  OBVIOUS
<1> USE DEF SearchInv
<1>1. PICK s \in Remaining :
          \/ deferred' = Append(deferred, s) /\ UNCHANGED chosen
          \/ chosen' = Append(chosen, s) /\ UNCHANGED deferred
  BY DEF SelectOne
<1>2. /\ phase = "select"
      /\ UNCHANGED <<plan, visible, phase, given, pending, merged, modesOf, hits, results>>
      /\ UNCHANGED <<depth, frontier, visited, distance, scored, failed>>
  BY DEF SelectOne, search, merging
<1>3. s \in scored /\ s \in Scored /\ chosen \in Seq(Scored) /\ deferred \in Seq(Scored)
  BY DEF Remaining, TypeOK, ListsInv
<1>4. /\ chosen' \in Seq(Scored) /\ deferred' \in Seq(Scored)
      /\ InSequence(chosen') \subseteq scored /\ InSequence(deferred') \subseteq scored
  <2>1. InSequence(chosen) \subseteq scored /\ InSequence(deferred) \subseteq scored
    BY DEF TypeOK
  <2>2. ASSUME NEW q \in Seq(Scored), InSequence(q) \subseteq scored
        PROVE  Append(q, s) \in Seq(Scored) /\ InSequence(Append(q, s)) \subseteq scored
    BY <1>3, <2>2, Grown
  <2>3. CASE chosen' = Append(chosen, s) /\ UNCHANGED deferred
    BY <1>3, <2>1, <2>2, <2>3 DEF InSequence
  <2>4. CASE deferred' = Append(deferred, s) /\ UNCHANGED chosen
    BY <1>3, <2>1, <2>2, <2>4 DEF InSequence
  <2> QED
    BY <1>1, <2>3, <2>4
<1>5. TypeOK'
  <2>1. InSequence(chosen)' = InSequence(chosen') /\ InSequence(deferred)' = InSequence(deferred')
    BY DEF InSequence
  <2> QED
    BY <1>2, <1>4, <2>1 DEF TypeOK, Hits
<1>6. ListsInv'
  BY <1>2, <1>4 DEF ListsInv
<1> QED
  BY <1>5, <1>6

LEMMA SearchNext == SearchInv /\ [Next]_vars => SearchInv'
<1> SUFFICES ASSUME SearchInv, [Next]_vars PROVE SearchInv'
  OBVIOUS
<1>1. CASE TraverseRound
  BY <1>1, TraverseStep
<1>2. CASE GraphSearch \/ TextSearch
  BY <1>2, SearchSteps
<1>3. CASE MergeOne
  BY <1>3, MergeOneStep
<1>4. CASE EndMerge
  BY <1>4, EndMergeStep
<1>5. CASE ScoreOne \/ RerankerRaises \/ EndScoring \/ EndSelection
  BY <1>5, ScoringSteps
<1>6. CASE SelectOne
  BY <1>6, SelectStep
<1>7. CASE Done \/ UNCHANGED vars
  <2>1. UNCHANGED vars
    BY <1>7 DEF Done
  <2> QED
    BY <2>1 DEF vars, search, merging, ranking, SearchInv, TypeOK, ListsInv, Hits, InSequence
<1> QED
  BY <1>1, <1>2, <1>3, <1>4, <1>5, <1>6, <1>7 DEF Next

LEMMA SearchSound == Spec => []SearchInv
  BY SearchInit, SearchNext, PTL DEF Spec

\* Every variable of a search keeps its type: no score leaves the unit interval,
\* whatever the scores of a mode and whether or not they are alike.
THEOREM SearchTypeCorrect == Spec => []TypeOK
<1>1. SearchInv => TypeOK
  BY DEF SearchInv
<1> QED
  BY <1>1, SearchSound, PTL

(***************************************************************************)
(* The order of the selection                                              *)
(***************************************************************************)

InOrder(q) == \A i, j \in 1..Len(q) : i < j => ~ RankedBefore(q[j], q[i])
NoneAheadOf(q) == \A s \in Remaining, i \in 1..Len(q) : ~ RankedBefore(s, q[i])
Source(s) == SourceOf[s.hit.chunk]

\* Both lists are in the order of the ranking, and so are the two together for
\* one source. Only what is over its quota is deferred.
OrderInv ==
    /\ InOrder(chosen) /\ InOrder(deferred)
    /\ NoneAheadOf(chosen) /\ NoneAheadOf(deferred)
    /\ \A i \in 1..Len(chosen), j \in 1..Len(deferred) :
          Source(chosen[i]) = Source(deferred[j]) => ~ RankedBefore(deferred[j], chosen[i])
    /\ \A j \in 1..Len(deferred) :
          plan.quota > 0 /\ Cardinality(OfSource(chosen, Source(deferred[j]))) >= plan.quota
    /\ plan.quota > 0 =>
          \A i \in 1..Len(chosen) : Cardinality(OfSource(chosen, Source(chosen[i]))) <= plan.quota

\* The places of a source.
LEMMA PlacesOf ==
    ASSUME NEW q \in Seq(Scored), NEW src
    PROVE  /\ OfSource(q, src) = {i \in 1..Len(q) : Source(q[i]) = src}
           /\ IsFiniteSet(OfSource(q, src)) /\ Cardinality(OfSource(q, src)) \in Nat
<1>1. DOMAIN q = 1..Len(q) /\ Len(q) \in Nat
  OBVIOUS
<1>2. OfSource(q, src) = {i \in 1..Len(q) : Source(q[i]) = src}
  BY <1>1 DEF OfSource, Source
<1>3. OfSource(q, src) \in SUBSET (1..Len(q)) /\ IsFiniteSet(1..Len(q))
  BY <1>1, <1>2, FS_Interval
<1> QED
  BY <1>2, <1>3, FS_Subset, FS_CardinalityType

\* The empty selection is in order.
LEMMA OrderBegins ==
    ASSUME chosen = <<>>, deferred = <<>>
    PROVE  OrderInv
<1>1. Len(chosen) = 0 /\ Len(deferred) = 0 /\ 1..0 = {}
  OBVIOUS
<1> QED
  BY <1>1 DEF OrderInv, InOrder, NoneAheadOf

LEMMA OrderNext ==
    SearchInv /\ SearchInv' /\ OrderInv /\ [Next]_vars => OrderInv'
<1> SUFFICES ASSUME SearchInv, SearchInv', OrderInv, [Next]_vars PROVE OrderInv'
  OBVIOUS
<1>1. CASE phase' \notin {"select", "done"}
  <2>1. chosen' = <<>> /\ deferred' = <<>>
    BY <1>1 DEF SearchInv, ListsInv
  <2>2. Len(chosen)' = 0 /\ Len(deferred)' = 0 /\ 1..0 = {}
    BY <2>1
  <2> QED
    BY <2>2 DEF OrderInv, InOrder, NoneAheadOf
<1>2. CASE SelectOne
  <2>1. PICK s \in Remaining :
            /\ \A other \in Remaining : ~ RankedBefore(other, s)
            /\ IF OverQuota(SourceOf[s.hit.chunk])
                  THEN deferred' = Append(deferred, s) /\ UNCHANGED chosen
                  ELSE chosen' = Append(chosen, s) /\ UNCHANGED deferred
    BY <1>2 DEF SelectOne
  <2>2. plan' = plan /\ scored' = scored
    BY <1>2 DEF SelectOne
  <2>3. s \in Scored /\ chosen \in Seq(Scored) /\ deferred \in Seq(Scored)
        /\ Len(chosen) \in Nat /\ Len(deferred) \in Nat
    <3>1. s \in scored /\ chosen \in Seq(Scored) /\ deferred \in Seq(Scored)
      BY DEF Remaining, SearchInv, TypeOK, ListsInv
    <3>2. s \in Scored
      BY <3>1 DEF SearchInv, TypeOK
    <3> QED
      BY <3>1, <3>2
  <2> DEFINE n == Len(chosen)
             d == Len(deferred)
  <2>4. ASSUME NEW q \in Seq(Scored), InOrder(q), NoneAheadOf(q)
        PROVE  InOrder(Append(q, s))
    <3>1. /\ Len(Append(q, s)) = Len(q) + 1 /\ Len(q) \in Nat
          /\ \A i \in 1..Len(q) : Append(q, s)[i] = q[i]
          /\ Append(q, s)[Len(q) + 1] = s
      BY <2>3, <2>4, Grown
    <3> DEFINE a == Append(q, s)
    <3> HIDE DEF a
    <3>2. ASSUME NEW i \in 1..Len(a), NEW j \in 1..Len(a), i < j PROVE ~ RankedBefore(a[j], a[i])
      <4>1. i \in 1..Len(q) /\ a[i] = q[i]
        BY <3>1, <3>2 DEF a
      <4>2. CASE j \in 1..Len(q)
        BY <2>4, <3>1, <3>2, <4>1, <4>2 DEF a, InOrder
      <4>3. CASE j = Len(q) + 1
        BY <2>4, <3>1, <4>1, <4>3 DEF a, NoneAheadOf
      <4> QED
        BY <3>1, <4>2, <4>3 DEF a
    <3> QED
      BY <3>2 DEF InOrder, a
  <2>5. Remaining' \subseteq Remaining /\ s \notin Remaining'
    <3>1. CASE deferred' = Append(deferred, s) /\ UNCHANGED chosen
      <4>1. /\ InSequence(deferred)' = InSequence(deferred) \cup {s}
            /\ InSequence(chosen)' = InSequence(chosen)
        <5>1. InSequence(Append(deferred, s)) = InSequence(deferred) \cup {s}
          BY <2>3, Grown
        <5> QED
          BY <3>1, <5>1 DEF InSequence
      <4> QED
        BY <2>2, <4>1 DEF Remaining
    <3>2. CASE chosen' = Append(chosen, s) /\ UNCHANGED deferred
      <4>1. /\ InSequence(chosen)' = InSequence(chosen) \cup {s}
            /\ InSequence(deferred)' = InSequence(deferred)
        <5>1. InSequence(Append(chosen, s)) = InSequence(chosen) \cup {s}
          BY <2>3, Grown
        <5> QED
          BY <3>2, <5>1 DEF InSequence
      <4> QED
        BY <2>2, <4>1 DEF Remaining
    <3> QED
      BY <2>1, <3>1, <3>2
  <2>6. ASSUME NEW q \in Seq(Scored), NoneAheadOf(q), NEW r \in Remaining',
               NEW i \in 1..Len(Append(q, s))
        PROVE  ~ RankedBefore(r, Append(q, s)[i])
    <3>1. /\ Len(Append(q, s)) = Len(q) + 1 /\ Len(q) \in Nat
          /\ \A k \in 1..Len(q) : Append(q, s)[k] = q[k]
          /\ Append(q, s)[Len(q) + 1] = s
      BY <2>3, <2>6, Grown
    <3>2. i \in 1..Len(q) \/ i = Len(q) + 1
      BY <3>1
    <3>3. r \in Remaining
      BY <2>5
    <3>4. CASE i \in 1..Len(q)
      BY <2>6, <3>1, <3>3, <3>4 DEF NoneAheadOf
    <3>5. CASE i = Len(q) + 1
      BY <2>1, <3>1, <3>3, <3>5
    <3> QED
      BY <3>2, <3>4, <3>5
  <2>7. ASSUME NEW q \in Seq(Scored), NoneAheadOf(q), NEW r \in Remaining', NEW i \in 1..Len(q)
        PROVE  ~ RankedBefore(r, q[i])
    BY <2>5, <2>7 DEF NoneAheadOf
  <2>8. CASE OverQuota(Source(s))
    <3>1. deferred' = Append(deferred, s) /\ chosen' = chosen
      BY <2>1, <2>8 DEF Source
    <3>2. /\ Len(deferred') = d + 1 /\ \A i \in 1..d : deferred'[i] = deferred[i]
          /\ deferred'[d + 1] = s
      BY <2>3, <3>1, Grown
    <3>3. InOrder(chosen') /\ InOrder(deferred')
      BY <2>3, <2>4, <3>1 DEF OrderInv
    <3>4. NoneAheadOf(chosen)' /\ NoneAheadOf(deferred)'
      <4>1. \A r \in Remaining', i \in 1..Len(Append(deferred, s)) :
               ~ RankedBefore(r, Append(deferred, s)[i])
        BY <2>3, <2>6 DEF OrderInv
      <4>2. \A r \in Remaining', i \in 1..Len(chosen) : ~ RankedBefore(r, chosen[i])
        BY <2>3, <2>7 DEF OrderInv
      <4> QED
        BY <3>1, <4>1, <4>2 DEF NoneAheadOf, RankedBefore
    <3>6. ASSUME NEW j \in 1..(d + 1)
          PROVE  /\ plan.quota > 0
                 /\ Cardinality(OfSource(chosen, Source(deferred'[j]))) >= plan.quota
                 /\ \A i \in 1..n : Source(chosen[i]) = Source(deferred'[j])
                                    => ~ RankedBefore(deferred'[j], chosen[i])
      <4>1. CASE j \in 1..d
        BY <3>2, <4>1 DEF OrderInv
      <4>2. CASE j = d + 1
        BY <2>8, <3>2, <4>2 DEF OrderInv, NoneAheadOf, OverQuota
      <4> QED
        BY <2>3, <4>1, <4>2
    <3>7. \A j \in 1..Len(deferred') :
             /\ plan'.quota > 0
             /\ Cardinality(OfSource(chosen', Source(deferred'[j]))) >= plan'.quota
      BY <2>2, <3>1, <3>2, <3>6
    <3>8. plan'.quota > 0 =>
             \A i \in 1..Len(chosen') :
                Cardinality(OfSource(chosen', Source(chosen'[i]))) <= plan'.quota
      BY <2>2, <3>1 DEF OrderInv
    <3>9. \A i \in 1..Len(chosen'), j \in 1..Len(deferred') :
             Source(chosen'[i]) = Source(deferred'[j]) => ~ RankedBefore(deferred'[j], chosen'[i])
      BY <3>1, <3>2, <3>6
    <3> QED
      BY <3>3, <3>4, <3>7, <3>8, <3>9 DEF OrderInv, InOrder, OfSource, RankedBefore, Source
  <2>9. CASE ~ OverQuota(Source(s))
    <3>1. chosen' = Append(chosen, s) /\ deferred' = deferred
      BY <2>1, <2>9 DEF Source
    <3>2. /\ chosen' \in Seq(Scored)
          /\ Len(chosen') = n + 1 /\ \A i \in 1..n : chosen'[i] = chosen[i]
          /\ chosen'[n + 1] = s
      BY <2>3, <3>1, Grown
    <3>3. InOrder(chosen') /\ InOrder(deferred')
      BY <2>3, <2>4, <3>1 DEF OrderInv
    <3>4. NoneAheadOf(chosen)' /\ NoneAheadOf(deferred)'
      <4>1. \A r \in Remaining', i \in 1..Len(Append(chosen, s)) :
               ~ RankedBefore(r, Append(chosen, s)[i])
        BY <2>3, <2>6 DEF OrderInv
      <4>2. \A r \in Remaining', i \in 1..Len(deferred) : ~ RankedBefore(r, deferred[i])
        BY <2>3, <2>7 DEF OrderInv
      <4> QED
        BY <3>1, <4>1, <4>2 DEF NoneAheadOf, RankedBefore
    <3>5. ASSUME NEW src
          PROVE  /\ OfSource(chosen, src) \subseteq OfSource(chosen', src)
                 /\ IsFiniteSet(OfSource(chosen', src))
                 /\ Cardinality(OfSource(chosen, src)) \in Nat
                 /\ Cardinality(OfSource(chosen', src)) \in Nat
                 /\ Cardinality(OfSource(chosen, src)) <= Cardinality(OfSource(chosen', src))
                 /\ Source(s) # src => OfSource(chosen', src) = OfSource(chosen, src)
                 /\ Source(s) = src =>
                       Cardinality(OfSource(chosen', src)) = Cardinality(OfSource(chosen, src)) + 1
      <4>1. /\ OfSource(chosen, src) = {i \in 1..n : Source(chosen[i]) = src}
            /\ IsFiniteSet(OfSource(chosen, src)) /\ Cardinality(OfSource(chosen, src)) \in Nat
        BY <2>3, PlacesOf
      <4>2. /\ OfSource(chosen', src) = {i \in 1..(n + 1) : Source(chosen'[i]) = src}
            /\ IsFiniteSet(OfSource(chosen', src)) /\ Cardinality(OfSource(chosen', src)) \in Nat
        BY <3>2, PlacesOf
      <4>3. 1..(n + 1) = (1..n) \cup {n + 1} /\ n + 1 \notin 1..n
        BY <2>3
      <4>4. OfSource(chosen', src) =
               OfSource(chosen, src) \cup (IF Source(s) = src THEN {n + 1} ELSE {})
        BY <3>2, <4>1, <4>2, <4>3
      <4> DEFINE before == OfSource(chosen, src)
                 after == OfSource(chosen', src)
      <4> HIDE DEF before, after
      <4>5. n + 1 \notin OfSource(chosen, src)
        BY <4>1, <4>3
      <4>6. CASE Source(s) = src
        <5>1. Cardinality(OfSource(chosen, src) \cup {n + 1}) =
                 Cardinality(OfSource(chosen, src)) + 1
          BY <4>1, <4>5, FS_AddElement
        <5>2. after = before \cup {n + 1}
          BY <4>4, <4>6 DEF before, after
        <5>3. Cardinality(after) = Cardinality(before) + 1 /\ before \subseteq after
          BY <5>1, <5>2 DEF before
        <5>4. IsFiniteSet(after) /\ Cardinality(after) \in Nat /\ Cardinality(before) \in Nat
          BY <4>1, <4>2 DEF before, after
        <5>5. Cardinality(before) <= Cardinality(after)
          BY <5>3, <5>4
        <5> QED
          BY <4>6, <5>3, <5>4, <5>5 DEF before, after
      <4>7. CASE Source(s) # src
        <5>1. after = before
          BY <4>4, <4>7 DEF before, after
        <5>2. IsFiniteSet(after) /\ Cardinality(after) \in Nat
          BY <4>2 DEF after
        <5> QED
          BY <4>7, <5>1, <5>2 DEF before, after
      <4> QED
        BY <4>6, <4>7
    <3>6. \A src : plan.quota > 0 /\ Cardinality(OfSource(chosen, src)) >= plan.quota =>
              plan'.quota > 0 /\ Cardinality(OfSource(chosen', src)) >= plan'.quota
      <4>1. plan.quota \in Int
        BY PlanParts DEF SearchInv, TypeOK
      <4> QED
        BY <2>2, <3>5, <4>1
    <3>7. \A j \in 1..Len(deferred') :
             /\ plan'.quota > 0
             /\ Cardinality(OfSource(chosen', Source(deferred'[j]))) >= plan'.quota
      BY <3>1, <3>6 DEF OrderInv
    <3>8. ASSUME plan.quota > 0, NEW i \in 1..(n + 1)
          PROVE  Cardinality(OfSource(chosen', Source(chosen'[i]))) <= plan.quota
      <4>1. plan.quota \in Int
        BY PlanParts DEF SearchInv, TypeOK
      <4>2. CASE Source(chosen'[i]) = Source(s)
        <5>1. ~(Cardinality(OfSource(chosen, Source(s))) >= plan.quota)
          BY <2>9, <3>8 DEF OverQuota
        <5> QED
          BY <3>5, <4>1, <4>2, <5>1
      <4>3. CASE Source(chosen'[i]) # Source(s)
        <5>1. i \in 1..n /\ chosen'[i] = chosen[i]
          BY <2>3, <3>2, <4>3
        <5> QED
          BY <3>5, <3>8, <4>3, <5>1 DEF OrderInv
      <4> QED
        BY <4>2, <4>3
    <3>9. ASSUME NEW i \in 1..(n + 1), NEW j \in 1..d, Source(chosen'[i]) = Source(deferred[j])
          PROVE  ~ RankedBefore(deferred[j], chosen'[i])
      <4>1. OverQuota(Source(deferred[j]))
        BY DEF OrderInv, OverQuota
      <4>2. i \in 1..n /\ chosen'[i] = chosen[i]
        <5>1. i # n + 1
          BY <2>9, <3>2, <3>9, <4>1
        <5> QED
          BY <2>3, <3>2, <5>1
      <4> QED
        BY <3>9, <4>2 DEF OrderInv
    <3>10. \A i \in 1..Len(chosen'), j \in 1..Len(deferred') :
             Source(chosen'[i]) = Source(deferred'[j]) => ~ RankedBefore(deferred'[j], chosen'[i])
      BY <3>1, <3>2, <3>9
    <3>11. plan'.quota > 0 =>
             \A i \in 1..Len(chosen') :
                Cardinality(OfSource(chosen', Source(chosen'[i]))) <= plan'.quota
      BY <2>2, <3>2, <3>8
    <3> QED
      BY <3>3, <3>4, <3>7, <3>10, <3>11 DEF OrderInv, InOrder, OfSource, RankedBefore, Source
  <2> QED
    BY <2>8, <2>9
<1>3. CASE phase' \in {"select", "done"} /\ phase \notin {"select", "done"}
  <2>1. chosen = <<>> /\ deferred = <<>>
    BY <1>3 DEF SearchInv, ListsInv
  <2>2. UNCHANGED <<chosen, deferred>>
    BY <1>3 DEF Next, TraverseRound, GraphSearch, TextSearch, MergeOne, EndMerge, ScoreOne,
                RerankerRaises, EndScoring, SelectOne, EndSelection, Done, vars, ranking, search,
                merging
  <2>3. Len(chosen)' = 0 /\ Len(deferred)' = 0 /\ 1..0 = {}
    BY <2>1, <2>2
  <2> QED
    BY <2>3 DEF OrderInv, InOrder, NoneAheadOf
<1>4. CASE ~SelectOne /\ phase \in {"select", "done"}
  <2>1. UNCHANGED <<plan, scored, chosen, deferred>>
    BY <1>4 DEF Next, TraverseRound, GraphSearch, TextSearch, MergeOne, EndMerge, ScoreOne,
                RerankerRaises, EndScoring, EndSelection, Done, vars, ranking, search, merging
  <2>2. InOrder(chosen)' /\ InOrder(deferred)'
    BY <2>1 DEF OrderInv, InOrder, RankedBefore
  <2>3. Remaining' = Remaining
    BY <2>1 DEF Remaining, InSequence
  <2>4. NoneAheadOf(chosen)' /\ NoneAheadOf(deferred)'
    BY <2>1, <2>3 DEF OrderInv, NoneAheadOf, RankedBefore
  <2>5. (\A i \in 1..Len(chosen), j \in 1..Len(deferred) :
           Source(chosen[i]) = Source(deferred[j]) => ~ RankedBefore(deferred[j], chosen[i]))'
    BY <2>1 DEF OrderInv, RankedBefore, Source
  <2>6. (/\ \A j \in 1..Len(deferred) :
              plan.quota > 0 /\ Cardinality(OfSource(chosen, Source(deferred[j]))) >= plan.quota
         /\ plan.quota > 0 =>
              \A i \in 1..Len(chosen) :
                 Cardinality(OfSource(chosen, Source(chosen[i]))) <= plan.quota)'
    BY <2>1 DEF OrderInv, OfSource, Source
  <2> QED
    BY <2>2, <2>4, <2>5, <2>6 DEF OrderInv
<1> QED
  BY <1>1, <1>2, <1>3, <1>4

LEMMA OrderSound == Spec => [](SearchInv /\ OrderInv)
<1>1. Init => SearchInv /\ OrderInv
  BY SearchInit, OrderBegins DEF Init
<1>2. (SearchInv /\ OrderInv) /\ [Next]_vars => (SearchInv /\ OrderInv)'
  <2>1. SearchInv /\ [Next]_vars => SearchInv'
    BY SearchNext
  <2>2. SearchInv /\ SearchInv' /\ OrderInv /\ [Next]_vars => OrderInv'
    BY OrderNext
  <2> QED
    BY <2>1, <2>2
<1> QED
  BY <1>1, <1>2, PTL DEF Spec

\* The two lists, one after the other, and what is returned of them.
Whole == chosen \o deferred

LEMMA SelectionParts ==
    ASSUME SearchInv
    PROVE  /\ Len(chosen) \in Nat /\ Len(deferred) \in Nat
           /\ Len(Whole) = Len(chosen) + Len(deferred)
           /\ \A i \in 1..Len(Whole) :
                 Whole[i] = IF i <= Len(chosen) THEN chosen[i] ELSE deferred[i - Len(chosen)]
           /\ Len(Selection) = Least(plan.topK, Len(Whole))
           /\ Len(Selection) \in Nat /\ Len(Selection) <= Len(Whole)
           /\ DOMAIN Selection = 1..Len(Selection)
           /\ \A i \in 1..Len(Selection) : Selection[i] = Whole[i]
           /\ plan.topK \in Nat /\ plan.quota \in Int
<1>1. chosen \in Seq(Scored) /\ deferred \in Seq(Scored)
  BY DEF SearchInv, ListsInv
<1>2. plan.topK \in Nat /\ plan.quota \in Int
  BY PlanParts DEF SearchInv, TypeOK
<1>3. /\ Whole \in Seq(Scored) /\ Len(Whole) = Len(chosen) + Len(deferred)
      /\ \A i \in 1..Len(Whole) :
            Whole[i] = IF i <= Len(chosen) THEN chosen[i] ELSE deferred[i - Len(chosen)]
      /\ Len(chosen) \in Nat /\ Len(deferred) \in Nat /\ Len(Whole) \in Nat
  BY <1>1 DEF Whole
<1> DEFINE n == Least(plan.topK, Len(Whole))
<1>4. n \in 0..Len(Whole) /\ n \in Nat
  BY <1>2, <1>3 DEF Least
<1>5. Selection = SubSeq(Whole, 1, n)
  BY DEF Selection, Whole
<1> HIDE DEF n
<1>6. /\ Len(Selection) = n /\ DOMAIN Selection = 1..n
      /\ \A i \in 1..n : Selection[i] = Whole[i]
  BY <1>3, <1>4, <1>5
<1> QED
  BY <1>2, <1>3, <1>4, <1>6 DEF n

LEMMA SurplusComesLast ==
    ASSUME SearchInv, OrderInv
    PROVE  LET source(i) == SourceOf[Selection[i].hit.chunk]
               surplus(i) == plan.quota > 0
                             /\ Cardinality({k \in 1..i : source(k) = source(i)}) > plan.quota
           IN  \A i, j \in DOMAIN Selection : i < j =>
                   /\ surplus(i) => surplus(j)
                   /\ source(i) = source(j) => ~ RankedBefore(Selection[j], Selection[i])
<1> DEFINE source(i) == SourceOf[Selection[i].hit.chunk]
           mine(i) == {k \in 1..i : source(k) = source(i)}
           surplus(i) == plan.quota > 0 /\ Cardinality(mine(i)) > plan.quota
           n == Len(chosen)
<1>1. /\ n \in Nat /\ Len(deferred) \in Nat /\ Len(Selection) \in Nat
      /\ Len(Selection) <= n + Len(deferred)
      /\ DOMAIN Selection = 1..Len(Selection) /\ plan.quota \in Int
  BY SelectionParts
<1>2. \A i \in 1..Len(Selection) :
         Selection[i] = IF i <= n THEN chosen[i] ELSE deferred[i - n]
  BY SelectionParts
<1>3. chosen \in Seq(Scored) /\ deferred \in Seq(Scored)
  BY DEF SearchInv, ListsInv
<1>4. ASSUME NEW i \in 1..Len(Selection), i <= n, plan.quota > 0 PROVE ~ surplus(i)
  <2>1. ASSUME NEW k \in mine(i)
        PROVE  k \in 1..n /\ SourceOf[chosen[k].hit.chunk] = SourceOf[chosen[i].hit.chunk]
    BY <1>1, <1>2, <1>4
  <2> DEFINE places == OfSource(chosen, Source(chosen[i]))
  <2>2. /\ places = {k \in 1..n : Source(chosen[k]) = Source(chosen[i])}
        /\ IsFiniteSet(places) /\ Cardinality(places) \in Nat
    BY <1>3, PlacesOf
  <2>3. mine(i) \in SUBSET places
    BY <2>1, <2>2 DEF Source
  <2>4. Cardinality(places) <= plan.quota
    BY <1>1, <1>4 DEF OrderInv
  <2> HIDE DEF mine, places
  <2>5. Cardinality(mine(i)) <= Cardinality(places) /\ Cardinality(mine(i)) \in Nat
    BY <2>2, <2>3, FS_Subset, FS_CardinalityType
  <2> QED
    BY <1>1, <2>2, <2>4, <2>5
<1>5. ASSUME NEW i \in 1..Len(Selection), i > n, plan.quota > 0 PROVE surplus(i)
  <2>1. i - n \in 1..Len(deferred) /\ Selection[i] = deferred[i - n]
    BY <1>1, <1>2, <1>5
  <2> DEFINE src == Source(deferred[i - n])
             places == OfSource(chosen, src)
  <2>2. source(i) = src
    BY <2>1 DEF Source
  <2>3. /\ places = {k \in 1..n : Source(chosen[k]) = src}
        /\ IsFiniteSet(places) /\ Cardinality(places) \in Nat
    BY <1>3, PlacesOf
  <2>4. Cardinality(places) >= plan.quota
    BY <2>1 DEF OrderInv
  <2>5. ASSUME NEW k \in places PROVE k \in mine(i)
    <3>1. k \in 1..n /\ Source(chosen[k]) = src
      BY <2>3
    <3>2. k \in 1..i /\ k \in 1..Len(Selection) /\ k <= n
      BY <1>1, <1>5, <3>1
    <3>3. Selection[k] = chosen[k]
      BY <1>2, <3>2
    <3>4. source(k) = source(i)
      BY <2>2, <3>1, <3>3 DEF Source
    <3> QED
      BY <3>2, <3>4
  <2>6. i \in mine(i) /\ i \notin places
    BY <1>1, <1>5, <2>3
  <2>7. IsFiniteSet(mine(i))
    <3>1. mine(i) \in SUBSET (1..i) /\ IsFiniteSet(1..i)
      BY FS_Interval
    <3> QED
      BY <3>1, FS_Subset
  <2> HIDE DEF mine, places
  <2>8. Cardinality(places \cup {i}) = Cardinality(places) + 1
    BY <2>3, <2>6, FS_AddElement
  <2>9. places \cup {i} \in SUBSET mine(i)
    BY <2>5, <2>6
  <2>10. Cardinality(places \cup {i}) <= Cardinality(mine(i)) /\ Cardinality(mine(i)) \in Nat
    BY <2>7, <2>9, FS_Subset, FS_CardinalityType
  <2> QED
    BY <1>1, <1>5, <2>3, <2>4, <2>8, <2>10
<1>6. ASSUME NEW i \in DOMAIN Selection, NEW j \in DOMAIN Selection, i < j
      PROVE  surplus(i) => surplus(j)
  <2> HIDE DEF mine
  <2> QED
    BY <1>1, <1>4, <1>5, <1>6
<1>7. ASSUME NEW i \in DOMAIN Selection, NEW j \in DOMAIN Selection, i < j, source(i) = source(j)
      PROVE  ~ RankedBefore(Selection[j], Selection[i])
  <2>1. CASE j <= n
    <3>1. i \in 1..n /\ j \in 1..n /\ Selection[i] = chosen[i] /\ Selection[j] = chosen[j]
      BY <1>1, <1>2, <1>7, <2>1
    <3> QED
      BY <1>7, <3>1 DEF OrderInv, InOrder
  <2>2. CASE i > n
    <3>1. /\ i - n \in 1..Len(deferred) /\ j - n \in 1..Len(deferred) /\ i - n < j - n
          /\ Selection[i] = deferred[i - n] /\ Selection[j] = deferred[j - n]
      BY <1>1, <1>2, <1>7, <2>2
    <3> QED
      BY <3>1 DEF OrderInv, InOrder
  <2>3. CASE i <= n /\ j > n
    <3>1. /\ i \in 1..n /\ j - n \in 1..Len(deferred)
          /\ Selection[i] = chosen[i] /\ Selection[j] = deferred[j - n]
      BY <1>1, <1>2, <1>7, <2>3
    <3> QED
      BY <1>7, <3>1 DEF OrderInv, Source
  <2> QED
    BY <1>1, <1>7, <2>1, <2>2, <2>3
<1> HIDE DEF mine
<1>8. \A i, j \in DOMAIN Selection : i < j =>
          /\ surplus(i) => surplus(j)
          /\ source(i) = source(j) => ~ RankedBefore(Selection[j], Selection[i])
  BY <1>6, <1>7
<1> QED
  BY <1>8 DEF mine

\* What is over the quota of its source comes after all that is not, and two
\* chunks of one source stay in the order of their scores.
THEOREM TheQuotaYields == Spec => []QuotaYieldsLast
<1>1. SearchInv /\ OrderInv => QuotaYieldsLast
  BY SurplusComesLast DEF QuotaYieldsLast
<1> QED
  BY <1>1, OrderSound, PTL

(***************************************************************************)
(* The fallback                                                            *)
(***************************************************************************)

FallbackInv ==
    failed => phase \in {"select", "done"} /\ scored = FallbackScores(results)

LEMMA FallbackSound == Spec => []FallbackInv
<1>1. Init => FallbackInv
  BY DEF Init, FallbackInv
<1>2. FallbackInv /\ [Next]_vars => FallbackInv'
  <2> SUFFICES ASSUME FallbackInv, [Next]_vars PROVE FallbackInv'
    OBVIOUS
  <2>1. CASE RerankerRaises
    BY <2>1 DEF FallbackInv, RerankerRaises, FallbackScores, merging
  <2>2. CASE ~RerankerRaises
    BY <2>2 DEF Next, TraverseRound, GraphSearch, TextSearch, MergeOne, EndMerge, ScoreOne,
                EndScoring, SelectOne, EndSelection, Done, vars, ranking, search, merging,
                FallbackInv, FallbackScores
  <2> QED
    BY <2>1, <2>2
<1> QED
  BY <1>1, <1>2, PTL DEF Spec

LEMMA FallbackOrder ==
    ASSUME SearchInv, OrderInv, FallbackInv, failed
    PROVE  /\ \A s \in scored : s.score = 100 * s.hit.normal
           /\ \A i, j \in DOMAIN chosen : i < j => chosen[i].hit.normal >= chosen[j].hit.normal
           /\ {s.hit : s \in scored} = results
<1>1. scored = {[hit |-> h, score |-> 100 * h.normal] : h \in results}
  BY DEF FallbackInv, FallbackScores
<1>2. \A s \in scored : s.score = 100 * s.hit.normal
  BY <1>1
<1>3. {s.hit : s \in scored} = results
  <2>1. ASSUME NEW s \in scored PROVE s.hit \in results
    BY <1>1
  <2>2. ASSUME NEW h \in results PROVE \E s \in scored : s.hit = h
    <3>1. [hit |-> h, score |-> 100 * h.normal] \in scored
      BY <1>1
    <3> QED
      BY <3>1
  <2> QED
    BY <2>1, <2>2
<1>4. DOMAIN chosen = 1..Len(chosen) /\ InSequence(chosen) \subseteq scored
  <2>1. chosen \in Seq(Scored)
    BY DEF SearchInv, ListsInv
  <2>2. InSequence(chosen) \subseteq scored
    BY DEF SearchInv, TypeOK
  <2>3. DOMAIN chosen = 1..Len(chosen)
    BY <2>1
  <2> QED
    BY <2>2, <2>3
<1>5. ASSUME NEW i \in DOMAIN chosen, NEW j \in DOMAIN chosen, i < j
      PROVE  chosen[i].hit.normal >= chosen[j].hit.normal
  <2>1. ~ RankedBefore(chosen[j], chosen[i])
    BY <1>4, <1>5 DEF OrderInv, InOrder
  <2>2. chosen[i] \in scored /\ chosen[j] \in scored
    BY <1>4 DEF InSequence
  <2>3. chosen[i] \in Scored /\ chosen[j] \in Scored
    BY <2>2 DEF SearchInv, TypeOK
  <2>4. chosen[i].hit.normal \in Nat /\ chosen[j].hit.normal \in Nat
    BY <2>3, HitParts DEF Scored
  <2>5. /\ chosen[i].score = 100 * chosen[i].hit.normal
        /\ chosen[j].score = 100 * chosen[j].hit.normal
    BY <1>2, <2>2
  <2> QED
    BY <2>1, <2>4, <2>5 DEF RankedBefore
<1> QED
  BY <1>2, <1>3, <1>5

\* After a reranker that raised, the order is that of retrieval, of all it found.
THEOREM TheFallbackIsPure == Spec => []FallbackIsPure
<1>1. SearchInv /\ OrderInv /\ FallbackInv => FallbackIsPure
  BY FallbackOrder DEF FallbackIsPure
<1> QED
  BY <1>1, OrderSound, FallbackSound, PTL

(***************************************************************************)
(* The merge                                                               *)
(***************************************************************************)

\* What was merged so far, and what of it is about one chunk.
Taken == given \ pending
Of(S, c) == {h \in S : h.chunk = c}

\* g is the best of some hits of one chunk.
BestOf(g, S) ==
    /\ g.normal \in {h.normal : h \in S} /\ \A h \in S : h.normal <= g.normal
    /\ g.relations = UNION {h.relations : h \in S}
    /\ g.score \in {h.score : h \in S}
    /\ (\A a, b \in S : a.mode = b.mode) => \A h \in S : h.score <= g.score

MergeInv ==
    /\ Alike(given)
    /\ DOMAIN merged = ChunksOf(Taken)
    /\ \A c \in DOMAIN merged : BestOf(merged[c], Of(Taken, c))
    /\ \A c \in Chunks : modesOf[c] = {h.mode : h \in Of(Taken, c)}

\* Of two hits of one chunk the better is kept.
LEMMA BetterIsBest ==
    ASSUME NEW S, HitsOf(S), S # {}, NEW g \in Hit, BestOf(g, S), NEW h \in Hit, Alike(S \cup {h})
    PROVE  BestOf(KeepBetter(g, h), S \cup {h})
<1> DEFINE T == S \cup {h}
           k == KeepBetter(g, h)
<1>1. /\ g.normal \in Nat /\ h.normal \in Nat /\ g.score \in Int /\ h.score \in Int
      /\ \A a \in T : a.normal \in Nat /\ a.score \in Int /\ a \in Hit
  BY HitParts DEF HitsOf
<1>2. PICK a \in S : a.normal = g.normal
  BY DEF BestOf
<1>3. PICK b \in S : b.score = g.score
  BY DEF BestOf
<1>4. UNION {x.relations : x \in T} = g.relations \cup h.relations
  BY DEF BestOf
<1>5. CASE h.normal > g.normal
  <2>1. k = [h EXCEPT !.relations = h.relations \cup g.relations]
    BY <1>5 DEF KeepBetter
  <2>2. k.normal = h.normal /\ k.score = h.score /\ k.relations = h.relations \cup g.relations
    BY <2>1 DEF Hit
  <2>3. \A x \in T : x.normal <= k.normal
    BY <1>1, <1>5, <2>2 DEF BestOf
  <2>4. ASSUME \A x, y \in T : x.mode = y.mode, NEW x \in T PROVE x.score <= k.score
    <3>1. CASE x = h
      BY <1>1, <2>2, <3>1
    <3>2. CASE x \in S /\ ~(x.score <= h.score)
      <4>1. h.normal <= x.normal
        BY <1>1, <2>4, <3>2 DEF Alike
      <4>2. x.normal <= g.normal
        BY <3>2 DEF BestOf
      <4> QED
        BY <1>1, <1>5, <4>1, <4>2
    <3> QED
      BY <2>2, <3>1, <3>2
  <2>5. k.normal \in {x.normal : x \in T} /\ k.score \in {x.score : x \in T}
    BY <2>2
  <2>6. k.relations = UNION {x.relations : x \in T}
    BY <1>4, <2>2
  <2> HIDE DEF k, T
  <2> QED
    BY <2>3, <2>4, <2>5, <2>6 DEF BestOf, k, T
<1>6. CASE ~(h.normal > g.normal)
  <2>1. k = [g EXCEPT !.score = Most(g.score, h.score), !.relations = g.relations \cup h.relations]
    BY <1>6 DEF KeepBetter
  <2>2. /\ k.normal = g.normal /\ k.score = Most(g.score, h.score)
        /\ k.relations = g.relations \cup h.relations
    BY <2>1 DEF Hit
  <2>3. \A x \in T : x.normal <= k.normal
    BY <1>1, <1>6, <2>2 DEF BestOf
  <2>4. ASSUME \A x, y \in T : x.mode = y.mode, NEW x \in T PROVE x.score <= k.score
    <3>1. \A y \in S : y.score <= g.score
      BY <2>4 DEF BestOf
    <3>2. CASE x = h
      BY <1>1, <2>2, <3>2 DEF Most
    <3>3. CASE x \in S
      <4>1. x.score <= g.score
        BY <3>1, <3>3
      <4> QED
        BY <1>1, <2>2, <4>1 DEF Most
    <3> QED
      BY <3>2, <3>3
  <2>5. k.normal \in {x.normal : x \in T}
    BY <1>2, <2>2
  <2>6. k.score \in {x.score : x \in T}
    BY <1>3, <2>2 DEF Most
  <2>7. k.relations = UNION {x.relations : x \in T}
    BY <1>4, <2>2
  <2> HIDE DEF k, T
  <2> QED
    BY <2>3, <2>4, <2>5, <2>6, <2>7 DEF BestOf, k, T
<1> QED
  BY <1>5, <1>6

LEMMA MergeInit == Init => MergeInv
<1> SUFFICES ASSUME Init PROVE MergeInv
  OBVIOUS
<1>1. given = {} /\ Taken = {} /\ DOMAIN merged = {}
  BY DEF Init, Taken, Nothing
<1>2. \A c \in Chunks : modesOf[c] = {}
  BY DEF Init
<1> QED
  BY <1>1, <1>2 DEF MergeInv, Alike, ChunksOf, Of

LEMMA MergeStarts ==
    ASSUME NEW found, IsFiniteSet(found), HitsOf(found), BeginMerge(found)
    PROVE  MergeInv'
<1>1. /\ pending' = given' /\ Alike(given') /\ merged' = Nothing
      /\ modesOf' = [c \in Chunks |-> {}]
  BY MergeBegins
<1>2. Taken' = {} /\ DOMAIN (merged') = {}
  BY <1>1 DEF Taken, Nothing
<1>3. \A c \in Chunks : modesOf'[c] = {}
  BY <1>1
<1>4. Alike(given)'
  BY <1>1 DEF Alike
<1> QED
  BY <1>2, <1>3, <1>4 DEF MergeInv, ChunksOf, Of

LEMMA MergeTakesOne == SearchInv /\ MergeInv /\ MergeOne => MergeInv'
<1> SUFFICES ASSUME SearchInv, MergeInv, MergeOne PROVE MergeInv'
  OBVIOUS
<1>1. PICK h \in pending :
          /\ merged' = [c \in DOMAIN merged \cup {h.chunk} |->
                           IF c # h.chunk THEN merged[c]
                           ELSE IF c \in DOMAIN merged THEN KeepBetter(merged[c], h) ELSE h]
          /\ modesOf' = [modesOf EXCEPT ![h.chunk] = @ \cup {h.mode}]
          /\ pending' = pending \ {h} /\ given' = given
  BY DEF MergeOne
<1>2. /\ h \in Hit /\ h \in given /\ pending \subseteq given /\ HitsOf(given) /\ h.chunk \in Chunks
      /\ DOMAIN modesOf = Chunks
  BY HitParts DEF SearchInv, TypeOK, ListsInv, Hits, HitsOf
<1>3. Taken' = Taken \cup {h}
  BY <1>1, <1>2 DEF Taken
<1>4. \A c : Of(Taken', c) = IF c = h.chunk THEN Of(Taken, c) \cup {h} ELSE Of(Taken, c)
  BY <1>3 DEF Of
<1>5. Alike(given')
  BY <1>1 DEF MergeInv
<1>6. DOMAIN (merged') = ChunksOf(Taken')
  BY <1>1, <1>3 DEF MergeInv, ChunksOf
<1>7. ASSUME NEW c \in DOMAIN (merged') PROVE BestOf(merged'[c], Of(Taken', c))
  <2>1. CASE c # h.chunk
    BY <1>1, <1>4, <2>1 DEF MergeInv
  <2>2. CASE c = h.chunk /\ c \in DOMAIN merged
    <3>1. merged'[c] = KeepBetter(merged[c], h) /\ Of(Taken', c) = Of(Taken, c) \cup {h}
      BY <1>1, <1>4, <2>2
    <3>2. BestOf(merged[c], Of(Taken, c)) /\ merged[c] \in Hit
      BY <2>2 DEF MergeInv, SearchInv, TypeOK
    <3>3. Of(Taken, c) # {}
      BY <2>2 DEF MergeInv, ChunksOf, Of
    <3>4. HitsOf(Of(Taken, c)) /\ Of(Taken, c) \cup {h} \subseteq given
      BY <1>2 DEF Of, Taken, HitsOf
    <3>5. Alike(Of(Taken, c) \cup {h})
      BY <3>4 DEF MergeInv, Alike
    <3> DEFINE S == Of(Taken, c)
               g == merged[c]
    <3> HIDE DEF S, g
    <3>6. BestOf(KeepBetter(g, h), S \cup {h})
      BY <1>2, <3>2, <3>3, <3>4, <3>5, BetterIsBest DEF S, g
    <3> QED
      BY <3>1, <3>6 DEF S, g
  <2>3. CASE c = h.chunk /\ c \notin DOMAIN merged
    <3>1. merged'[c] = h
      BY <1>1, <2>3
    <3>2. Of(Taken', c) = {h}
      BY <1>4, <2>3 DEF MergeInv, ChunksOf, Of
    <3>3. h.normal \in Nat /\ h.score \in Int
      BY <1>2, HitParts
    <3>4. BestOf(h, {h})
      BY <3>3 DEF BestOf
    <3> QED
      BY <3>1, <3>2, <3>4
  <2> QED
    BY <2>1, <2>2, <2>3
<1>8. ASSUME NEW c \in Chunks PROVE modesOf'[c] = {x.mode : x \in Of(Taken', c)}
  <2>1. modesOf[c] = {x.mode : x \in Of(Taken, c)}
    BY DEF MergeInv
  <2>2. CASE c = h.chunk
    BY <1>1, <1>2, <1>4, <2>1, <2>2
  <2>3. CASE c # h.chunk
    BY <1>1, <1>2, <1>4, <2>1, <2>3
  <2> QED
    BY <2>2, <2>3
<1> QED
  BY <1>5, <1>6, <1>7, <1>8 DEF MergeInv, Alike, ChunksOf, Of, BestOf

LEMMA MergeNext == SearchInv /\ MergeInv /\ [Next]_vars => MergeInv'
<1> SUFFICES ASSUME SearchInv, MergeInv, [Next]_vars PROVE MergeInv'
  OBVIOUS
<1>1. CASE MergeOne
  BY <1>1, MergeTakesOne
<1>2. CASE GraphSearch
  <2>1. IsFiniteSet(GraphHits) /\ HitsOf(GraphHits)
    BY GraphFound DEF SearchInv
  <2> QED
    BY <1>2, <2>1, MergeStarts DEF GraphSearch
<1>3. CASE TextSearch
  <2>1. PICK keyword \in KeywordAnswers,
             vector \in (IF "hybrid" \in plan.modes THEN VectorAnswers ELSE {NoAnswer}) :
             BeginMerge(TextHits("keyword", keyword) \cup TextHits("vector", vector))
    BY <1>3 DEF TextSearch
  <2> DEFINE found == TextHits("keyword", keyword) \cup TextHits("vector", vector)
  <2>2. IsFiniteSet(found) /\ HitsOf(found)
    BY TextFound
  <2>3. BeginMerge(found)
    BY <2>1
  <2> HIDE DEF found
  <2> QED
    BY <2>2, <2>3, MergeStarts
<1>4. CASE ~MergeOne /\ ~GraphSearch /\ ~TextSearch
  <2>1. UNCHANGED <<given, pending, merged, modesOf>>
    BY <1>4 DEF Next, TraverseRound, EndMerge, ScoreOne, RerankerRaises, EndScoring, SelectOne,
                EndSelection, Done, vars, merging
  <2> QED
    BY <2>1 DEF MergeInv, Alike, ChunksOf, Taken, Of, BestOf
<1> QED
  BY <1>1, <1>2, <1>3, <1>4

LEMMA MergeSound == Spec => [](SearchInv /\ MergeInv)
<1>1. (SearchInv /\ MergeInv) /\ [Next]_vars => (SearchInv /\ MergeInv)'
  <2>1. SearchInv /\ [Next]_vars => SearchInv'
    BY SearchNext
  <2>2. SearchInv /\ MergeInv /\ [Next]_vars => MergeInv'
    BY MergeNext
  <2> QED
    BY <2>1, <2>2
<1> QED
  BY SearchInit, MergeInit, <1>1, PTL DEF Spec

\* The highest number of a set is the one no other exceeds.
LEMMA HighestIs ==
    ASSUME NEW S, S \subseteq Int, NEW x \in S, \A m \in S : m <= x
    PROVE  HighestOf(S) = x
<1>1. HighestOf(S) \in S /\ \A m \in S : m <= HighestOf(S)
  BY DEF HighestOf
<1>2. x <= HighestOf(S) /\ HighestOf(S) <= x /\ HighestOf(S) \in Int /\ x \in Int
  BY <1>1
<1> QED
  BY <1>2

LEMMA MergedIsBest ==
    ASSUME SearchInv, MergeInv
    PROVE  MergeKeepsTheBest
<1> SUFFICES ASSUME NEW c \in DOMAIN merged
             PROVE  LET mine == {h \in given \ pending : h.chunk = c}
                        scores == {h.score : h \in mine}
                    IN  /\ merged[c].normal = HighestOf({h.normal : h \in mine})
                        /\ merged[c].relations = UNION {h.relations : h \in mine}
                        /\ merged[c].score \in scores
                        /\ Cardinality(modesOf[c]) = 1 => merged[c].score = HighestOf(scores)
                        /\ modesOf[c] = {h.mode : h \in mine}
  BY DEF MergeKeepsTheBest
<1> DEFINE mine == {h \in given \ pending : h.chunk = c}
           scores == {h.score : h \in mine}
           normals == {h.normal : h \in mine}
<1>1. mine = Of(Taken, c)
  BY DEF Of, Taken
<1>2. BestOf(merged[c], mine)
  BY <1>1 DEF MergeInv
<1>3. \A h \in mine : h \in Hit
  BY DEF SearchInv, TypeOK, Hits
<1>4. scores \subseteq Int /\ normals \subseteq Int
  BY <1>3, HitParts
<1>5. c \in Chunks /\ modesOf[c] = {h.mode : h \in mine}
  BY <1>1 DEF MergeInv, SearchInv, TypeOK
<1>6. merged[c].normal = HighestOf(normals)
  <2>1. merged[c].normal \in normals /\ \A m \in normals : m <= merged[c].normal
    BY <1>2 DEF BestOf
  <2> HIDE DEF normals
  <2> QED
    BY <1>4, <2>1, HighestIs
<1>7. ASSUME Cardinality(modesOf[c]) = 1 PROVE merged[c].score = HighestOf(scores)
  <2>1. IsFiniteSet(modesOf[c])
    <3>1. modesOf[c] \in SUBSET Modes
      BY <1>5 DEF SearchInv, TypeOK
    <3>2. Modes = ({"graph"} \cup {"keyword"}) \cup {"vector"}
      BY DEF Modes
    <3>3. IsFiniteSet(Modes)
      BY <3>2, FS_Singleton, FS_Union
    <3> QED
      BY <3>1, <3>3, FS_Subset
  <2>2. PICK m : modesOf[c] = {m}
    BY <1>7, <2>1, FS_Singleton
  <2>3. \A a, b \in mine : a.mode = b.mode
    BY <1>5, <2>2
  <2>4. merged[c].score \in scores /\ \A m1 \in scores : m1 <= merged[c].score
    BY <1>2, <2>3 DEF BestOf
  <2> HIDE DEF scores
  <2> QED
    BY <1>4, <2>4, HighestIs
<1> QED
  BY <1>2, <1>5, <1>6, <1>7 DEF BestOf

\* Whatever the order in which hits are merged, the best of each chunk is kept
\* and no relation is lost.
THEOREM TheMergeKeepsTheBest == Spec => []MergeKeepsTheBest
<1>1. SearchInv /\ MergeInv => MergeKeepsTheBest
  BY MergedIsBest
<1> QED
  BY <1>1, MergeSound, PTL

(***************************************************************************)
(* The traversal                                                           *)
(***************************************************************************)

\* One hop further than S, and the sets within each number of hops.
Further(p, S) == S \cup UNION {Ends(r) : r \in {q \in p.relations : Ends(q) \cap S # {}}}
Nears(p, f, n) == f = [i \in 0..n |-> IF i = 0 THEN p.seeds ELSE Further(p, f[i - 1])]
Hops(p, n) == (CHOOSE f : Nears(p, f, n))[n]

LEMMA LeastOf ==
    ASSUME NEW S, S \subseteq Nat, NEW s \in S
    PROVE  \E l \in S : \A t \in S : l <= t
<1>1. \E l \in S : \A t \in S : ~ (<<t, l>> \in OpToRel(<, Nat))
  BY NatLessThanWellFounded, WFMin
<1>2. \E l \in S : \A t \in S : ~ (t < l)
  BY <1>1 DEF OpToRel
<1> QED
  BY <1>2

\* There are such sets, for any number of hops,
LEMMA NearsExist ==
    ASSUME NEW p, NEW n \in Nat
    PROVE  \E f : Nears(p, f, n)
<1> DEFINE Bad == {k \in Nat : ~ \E f : Nears(p, f, k)}
<1> SUFFICES ASSUME n \in Bad PROVE FALSE
  OBVIOUS
<1>1. PICK l \in Bad : \A t \in Bad : l <= t
  <2>1. Bad \subseteq Nat
    OBVIOUS
  <2> HIDE DEF Bad
  <2> QED
    BY <2>1, LeastOf
<1>2. CASE l = 0
  <2> DEFINE f == [i \in 0..0 |-> p.seeds]
  <2>1. \A i \in 0..0 : i = 0
    OBVIOUS
  <2>2. Nears(p, f, 0)
    BY <2>1 DEF Nears
  <2> QED
    BY <1>2, <2>2
<1>3. CASE l # 0
  <2>1. l - 1 \in Nat /\ l - 1 \notin Bad /\ l \in Nat
    BY <1>1, <1>3
  <2>2. PICK f : Nears(p, f, l - 1)
    BY <2>1
  <2> DEFINE g == [i \in 0..l |-> IF i = l THEN Further(p, f[l - 1]) ELSE f[i]]
  <2>3. \A i \in 0..(l - 1) : f[i] = IF i = 0 THEN p.seeds ELSE Further(p, f[i - 1])
    BY <2>2 DEF Nears
  <2>4. ASSUME NEW i \in 0..l PROVE g[i] = IF i = 0 THEN p.seeds ELSE Further(p, g[i - 1])
    <3>1. CASE i = l
      <4>1. l - 1 \in 0..l /\ l - 1 # l
        BY <2>1
      <4> QED
        BY <1>3, <3>1, <4>1
    <3>2. CASE i # l
      <4>1. i \in 0..(l - 1) /\ (i # 0 => i - 1 \in 0..l /\ i - 1 # l)
        BY <2>1, <3>2
      <4> QED
        BY <2>3, <3>2, <4>1
    <3> QED
      BY <3>1, <3>2
  <2>5. g = [i \in 0..l |-> g[i]]
    OBVIOUS
  <2> HIDE DEF g
  <2>6. Nears(p, g, l)
    BY <2>4, <2>5 DEF Nears
  <2> QED
    BY <2>6
<1> QED
  BY <1>2, <1>3

\* and no two families of them differ.
LEMMA NearsAgree ==
    ASSUME NEW p, NEW f, NEW g, NEW n \in Nat, NEW m \in Nat, n <= m,
           Nears(p, f, n), Nears(p, g, m)
    PROVE  \A i \in 0..n : f[i] = g[i]
<1> DEFINE Bad == {k \in 0..n : f[k] # g[k]}
<1> SUFFICES ASSUME NEW b \in Bad PROVE FALSE
  OBVIOUS
<1>1. PICK l \in Bad : \A t \in Bad : l <= t
  <2>1. Bad \subseteq Nat
    OBVIOUS
  <2> HIDE DEF Bad
  <2> QED
    BY <2>1, LeastOf
<1>2. l \in 0..n /\ l \in 0..m
  OBVIOUS
<1>3. f[l] = (IF l = 0 THEN p.seeds ELSE Further(p, f[l - 1]))
  BY <1>2 DEF Nears
<1>4. g[l] = (IF l = 0 THEN p.seeds ELSE Further(p, g[l - 1]))
  BY <1>2 DEF Nears
<1>5. CASE l # 0
  <2>1. l - 1 \in 0..n /\ l - 1 \notin Bad
    BY <1>1, <1>2, <1>5
  <2> QED
    BY <1>3, <1>4, <1>5, <2>1
<1> QED
  BY <1>3, <1>4, <1>5

\* What lies within so many hops.
LEMMA HopsAre ==
    ASSUME NEW p
    PROVE  /\ Hops(p, 0) = p.seeds
           /\ \A n \in Nat : Hops(p, n + 1) = Further(p, Hops(p, n))
<1> DEFINE N(n) == CHOOSE f : Nears(p, f, n)
<1>1. \A n \in Nat : Nears(p, N(n), n)
  BY NearsExist
<1>2. \A n : Hops(p, n) = N(n)[n]
  BY DEF Hops
<1> HIDE DEF N
<1>3. Hops(p, 0) = p.seeds
  <2>1. N(0)[0] = p.seeds
    <3>1. Nears(p, N(0), 0) /\ 0 \in 0..0
      BY <1>1
    <3> QED
      BY <3>1 DEF Nears
  <2> QED
    BY <1>2, <2>1
<1>4. ASSUME NEW n \in Nat PROVE Hops(p, n + 1) = Further(p, Hops(p, n))
  <2> DEFINE f == N(n)
             g == N(n + 1)
  <2>1. Nears(p, f, n) /\ Nears(p, g, n + 1)
    BY <1>1
  <2> HIDE DEF f, g
  <2>2. f[n] = g[n]
    <3>1. n + 1 \in Nat /\ n <= n + 1 /\ n \in 0..n
      OBVIOUS
    <3>2. \A i \in 0..n : f[i] = g[i]
      BY <2>1, <3>1, NearsAgree
    <3> QED
      BY <3>1, <3>2
  <2>3. g[n + 1] = Further(p, g[n])
    <3>1. n + 1 \in 0..(n + 1) /\ n + 1 # 0 /\ (n + 1) - 1 = n
      OBVIOUS
    <3> QED
      BY <2>1, <3>1 DEF Nears
  <2> QED
    BY <1>2, <2>2, <2>3 DEF f, g
<1> QED
  BY <1>3, <1>4

LEMMA HopsOfThePlan == \A n : WithinHops(n) = Hops(plan, n)
  BY DEF WithinHops, Hops, Nears, Further

\* The sets grow, and once they do not they never do again.
LEMMA HopsGrow ==
    ASSUME NEW p, NEW n \in Nat
    PROVE  Hops(p, n) \subseteq Hops(p, n + 1)
  BY HopsAre DEF Further

LEMMA HopsStay ==
    ASSUME NEW p, NEW n \in Nat, Hops(p, n + 1) = Hops(p, n), NEW m \in Nat, n <= m
    PROVE  Hops(p, m) = Hops(p, n)
<1> DEFINE Bad == {k \in Nat : n <= k /\ Hops(p, k) # Hops(p, n)}
<1> SUFFICES ASSUME m \in Bad PROVE FALSE
  OBVIOUS
<1>1. PICK l \in Bad : \A t \in Bad : l <= t
  <2>1. Bad \subseteq Nat
    OBVIOUS
  <2> HIDE DEF Bad
  <2> QED
    BY <2>1, LeastOf
<1>2. l # n /\ l \in Nat /\ l - 1 \in Nat /\ n <= l - 1 /\ l - 1 \notin Bad
  BY <1>1
<1>3. Hops(p, l - 1) = Hops(p, n)
  BY <1>2
<1>4. (l - 1) + 1 = l
  BY <1>2
<1>5. Hops(p, (l - 1) + 1) = Further(p, Hops(p, l - 1))
  BY <1>2, HopsAre
<1>6. Hops(p, n + 1) = Further(p, Hops(p, n))
  BY HopsAre
<1>7. Hops(p, l) = Hops(p, n)
  BY <1>3, <1>4, <1>5, <1>6
<1> QED
  BY <1>7

Within(p, r, n) == Ends(r) \cap Hops(p, n) # {}
Met(p, n) == {r \in p.relations : Within(p, r, n)}

\* known has each relation met within n hops, at the hop that met it first.
Shortest(p, known, n) ==
    /\ DOMAIN known = Met(p, n)
    /\ \A r \in DOMAIN known :
          known[r] \in 0..n /\ Within(p, r, known[r])
          /\ (known[r] = 0 \/ ~ Within(p, r, known[r] - 1))

\* Breadth first: after so many rounds the entities so many hops away are
\* visited, those of the last hop are the frontier, and relations are known as
\* far as one hop less.
TraversalInv ==
    /\ phase = "traverse" =>
          /\ visited = Hops(plan, depth) /\ depth <= LastRound(plan.depth)
          /\ depth = 0 => frontier = visited /\ DOMAIN distance = {}
          /\ depth > 0 => /\ frontier = visited \ Hops(plan, depth - 1)
                          /\ Shortest(plan, distance, depth - 1)
    /\ phase # "traverse" /\ plan.seeds # {} /\ plan.relations # {} =>
          Shortest(plan, distance, LastRound(plan.depth))

LEMMA TraversalInit == Init => TraversalInv
<1> SUFFICES ASSUME Init PROVE TraversalInv
  OBVIOUS
<1>1. plan.depth \in Int
  BY PlanParts DEF Init
<1>2. visited = Hops(plan, 0) /\ depth = 0 /\ frontier = visited /\ DOMAIN distance = {}
  BY HopsAre DEF Init, Nothing
<1>3. 0 <= LastRound(plan.depth)
  BY <1>1 DEF LastRound, Most
<1>4. phase # "traverse" => plan.seeds = {} \/ plan.relations = {}
  BY DEF Init
<1> QED
  BY <1>2, <1>3, <1>4 DEF TraversalInv

LEMMA TraversalRound == SearchInv /\ TraversalInv /\ TraverseRound => TraversalInv'
<1> SUFFICES ASSUME SearchInv, TraversalInv, TraverseRound PROVE TraversalInv'
  OBVIOUS
<1> DEFINE d == depth
           W == Hops(plan, d)
           V == Hops(plan, d + 1)
           last == LastRound(plan.depth)
<1>1. /\ d \in Nat /\ last \in Nat /\ d <= last /\ visited = W
      /\ phase = "traverse" /\ plan' = plan
      /\ distance' = Distances(distance) /\ visited' = visited \cup Reached
      /\ frontier' = Reached /\ depth' = d + 1
      /\ phase' = IF Reached = {} \/ d = last THEN "graph" ELSE "traverse"
  <2>1. plan.depth \in Int /\ depth \in Nat
    BY PlanParts DEF SearchInv, TypeOK
  <2>2. LastRound(plan.depth) \in Nat
    BY <2>1 DEF LastRound, Most
  <2> QED
    BY <2>1, <2>2 DEF TraverseRound, TraversalInv
<1>2. V = W \cup UNION {Ends(r) : r \in Met(plan, d)}
  BY <1>1, HopsAre DEF Further, Met, Within
<1>3. Touched = {r \in plan.relations : Ends(r) \cap frontier # {}}
  BY DEF Touched, RelationsOf
<1>4. DOMAIN (distance') = DOMAIN distance \cup Touched
  BY <1>1 DEF Distances
<1>5. Met(plan, d) = DOMAIN distance \cup Touched
      /\ \A r \in Touched : r \notin DOMAIN distance => d = 0 \/ ~ Within(plan, r, d - 1)
  <2>1. CASE d = 0
    <3>1. frontier = W /\ DOMAIN distance = {}
      BY <1>1, <2>1 DEF TraversalInv
    <3> QED
      BY <1>3, <2>1, <3>1 DEF Met, Within
  <2>2. CASE d # 0
    <3>1. d - 1 \in Nat /\ (d - 1) + 1 = d
      BY <1>1, <2>2
    <3>2. frontier = W \ Hops(plan, d - 1) /\ DOMAIN distance = Met(plan, d - 1)
      BY <1>1, <2>2 DEF TraversalInv, Shortest
    <3>3. Hops(plan, d - 1) \subseteq W
      BY <3>1, HopsGrow
    <3> QED
      BY <1>3, <3>2, <3>3 DEF Met, Within
  <2> QED
    BY <2>1, <2>2
<1>6. \A r \in DOMAIN distance : Ends(r) \subseteq W
  <2>1. CASE d = 0
    BY <1>1, <2>1 DEF TraversalInv
  <2>2. CASE d # 0
    <3>1. d - 1 \in Nat /\ (d - 1) + 1 = d
      BY <1>1, <2>2
    <3>2. DOMAIN distance = Met(plan, d - 1)
      BY <1>1, <2>2 DEF TraversalInv, Shortest
    <3>3. W = Further(plan, Hops(plan, d - 1))
      BY <3>1, HopsAre
    <3> QED
      BY <3>2, <3>3 DEF Further, Met, Within
  <2> QED
    BY <2>1, <2>2
<1>7. Reached = (UNION {Ends(r) : r \in Touched}) \ W
  BY <1>1 DEF Reached
<1>8. visited' = V /\ Reached = V \ W
  <2> DEFINE new == UNION {Ends(r) : r \in Touched}
             old == UNION {Ends(r) : r \in DOMAIN distance}
  <2>1. UNION {Ends(r) : r \in Met(plan, d)} = old \cup new
    BY <1>5
  <2>2. old \subseteq W
    BY <1>6
  <2>3. Reached = new \ W
    BY <1>7
  <2> HIDE DEF new, old
  <2>4. V = W \cup new
    BY <1>2, <2>1, <2>2
  <2> HIDE DEF V, W
  <2>5. visited' = W \cup Reached
    BY <1>1
  <2> QED
    BY <2>3, <2>4, <2>5
<1>9. Shortest(plan, distance', d)
  <2>1. DOMAIN (distance') = Met(plan, d)
    BY <1>4, <1>5
  <2>2. ASSUME NEW r \in DOMAIN (distance')
        PROVE  /\ distance'[r] \in 0..d /\ Within(plan, r, distance'[r])
               /\ distance'[r] = 0 \/ ~ Within(plan, r, distance'[r] - 1)
    <3>1. CASE r \in DOMAIN distance
      <4>1. distance'[r] = distance[r]
        BY <1>1, <3>1 DEF Distances
      <4>2. d # 0
        BY <1>1, <3>1 DEF TraversalInv
      <4>3. Shortest(plan, distance, d - 1)
        BY <1>1, <4>2 DEF TraversalInv
      <4>4. distance[r] \in 0..(d - 1) /\ Within(plan, r, distance[r])
            /\ (distance[r] = 0 \/ ~ Within(plan, r, distance[r] - 1))
        BY <3>1, <4>3 DEF Shortest
      <4> QED
        BY <1>1, <4>1, <4>4
    <3>2. CASE r \notin DOMAIN distance
      <4>1. r \in Touched /\ distance'[r] = d
        BY <1>1, <1>4, <3>2 DEF Distances
      <4>2. Within(plan, r, d)
        BY <2>1 DEF Met
      <4> QED
        BY <1>1, <1>5, <3>2, <4>1, <4>2
    <3> QED
      BY <3>1, <3>2
  <2> QED
    BY <2>1, <2>2 DEF Shortest
<1>10. CASE phase' = "traverse"
  <2>1. d # last
    BY <1>1, <1>10
  <2>2. d + 1 \in Nat /\ d + 1 <= last /\ d + 1 # 0 /\ (d + 1) - 1 = d
    BY <1>1, <2>1
  <2>3. LastRound(plan.depth)' = last
    BY <1>1 DEF LastRound
  <2>4. /\ visited' = Hops(plan', depth') /\ depth' <= last
        /\ frontier' = visited' \ Hops(plan', depth' - 1)
        /\ Shortest(plan', distance', depth' - 1)
    BY <1>1, <1>8, <1>9, <2>2
  <2> QED
    BY <1>1, <1>10, <2>2, <2>3, <2>4 DEF TraversalInv
<1>11. CASE phase' # "traverse"
  <2>1. Shortest(plan, distance', last)
    <3>1. CASE d = last
      BY <1>9, <3>1
    <3>2. CASE Reached = {}
      <4>1. V = W
        BY <1>2, <1>8, <3>2
      <4>2. Hops(plan, last) = Hops(plan, d)
        BY <1>1, <4>1, HopsStay
      <4>3. Met(plan, last) = Met(plan, d)
        BY <4>2 DEF Met, Within
      <4>4. \A n \in 0..d : n \in 0..last
        BY <1>1
      <4> QED
        BY <1>9, <4>3, <4>4 DEF Shortest
    <3> QED
      BY <1>1, <1>11, <3>1, <3>2
  <2>2. LastRound(plan.depth)' = last
    BY <1>1 DEF LastRound
  <2>3. Shortest(plan', distance', LastRound(plan'.depth))
    BY <1>1, <2>1
  <2> QED
    BY <1>11, <2>3 DEF TraversalInv
<1> QED
  BY <1>10, <1>11

LEMMA TraversalNext == SearchInv /\ TraversalInv /\ [Next]_vars => TraversalInv'
<1> SUFFICES ASSUME SearchInv, TraversalInv, [Next]_vars PROVE TraversalInv'
  OBVIOUS
<1>1. CASE TraverseRound
  BY <1>1, TraversalRound
<1>2. CASE ~TraverseRound
  <2>1. /\ UNCHANGED <<plan, depth, frontier, visited, distance>>
        /\ phase' = "traverse" => phase = "traverse"
        /\ phase = "traverse" => phase' = "traverse"
    BY <1>2 DEF Next, GraphSearch, TextSearch, MergeOne, EndMerge, ScoreOne, RerankerRaises,
                EndScoring, SelectOne, EndSelection, Done, vars, search
  <2>2. CASE phase = "traverse"
    BY <2>1, <2>2 DEF TraversalInv
  <2>3. CASE phase # "traverse"
    BY <2>1, <2>3 DEF TraversalInv
  <2> QED
    BY <2>2, <2>3
<1> QED
  BY <1>1, <1>2

LEMMA TraversalSound == Spec => [](SearchInv /\ TraversalInv)
<1>1. (SearchInv /\ TraversalInv) /\ [Next]_vars => (SearchInv /\ TraversalInv)'
  <2>1. SearchInv /\ [Next]_vars => SearchInv'
    BY SearchNext
  <2>2. SearchInv /\ TraversalInv /\ [Next]_vars => TraversalInv'
    BY TraversalNext
  <2> QED
    BY <2>1, <2>2
<1> QED
  BY SearchInit, TraversalInit, <1>1, PTL DEF Spec

LEMMA TraversalIsShortest == TraversalInv => DistancesAreShortest
<1> DEFINE within(r, n) == Ends(r) \cap WithinHops(n) # {}
<1> SUFFICES ASSUME TraversalInv, phase # "traverse", plan.seeds # {}, plan.relations # {}
             PROVE  /\ DOMAIN distance = {r \in plan.relations : within(r, Most(plan.depth, 0))}
                    /\ \A r \in DOMAIN distance :
                          /\ within(r, distance[r])
                          /\ distance[r] = 0 \/ ~ within(r, distance[r] - 1)
  BY DEF DistancesAreShortest
<1>1. Shortest(plan, distance, Most(plan.depth, 0))
  BY DEF TraversalInv, LastRound
<1>2. \A r, n : within(r, n) <=> Within(plan, r, n)
  BY HopsOfThePlan DEF Within
<1> HIDE DEF within
<1> QED
  BY <1>1, <1>2 DEF Shortest, Met

\* The traversal finds what is within max_depth hops, at its shortest distance,
\* in any graph.
THEOREM TheTraversalIsShortest == Spec => []DistancesAreShortest
<1>1. SearchInv /\ TraversalInv => DistancesAreShortest
  BY TraversalIsShortest
<1> QED
  BY <1>1, TraversalSound, PTL

(***************************************************************************)
(* What is found and what is returned of it                                *)
(***************************************************************************)

Scores(S) == {p \in S \X S : Outscores(p[1], p[2])}

LEMMA ScoresAre == \A S : \A a, b \in S : <<a, b>> \in Scores(S) <=> Outscores(a, b)
  BY DEF Scores

\* The hits of the graph differ in their scores, chunks or relations,
LEMMA GraphOrder ==
    ASSUME NEW S, HitsOf(S),
           \A h \in S : h.mode = "graph" /\ \E r \in Relations : h.relations = {r},
           \A a, b \in S : a.chunk = b.chunk /\ a.relations = b.relations => a = b
    PROVE  StrictOrder(Scores(S), S) /\ Total(Scores(S), S)
<1>1. ASSUME NEW a \in S, NEW b \in S, NEW p \in Relations, NEW q \in Relations,
             a.relations = {p}, b.relations = {q}
      PROVE  Outscores(a, b) <=> \/ a.score > b.score
                                 \/ a.score = b.score /\ a.chunk > b.chunk
                                 \/ a.score = b.score /\ a.chunk = b.chunk /\ p > q
  BY <1>1 DEF Outscores
<1>2. \A h \in S : h.score \in Int /\ h.chunk \in Nat
  BY HitParts, ChunkParts DEF HitsOf
<1>3. Relations \subseteq Nat
  BY GraphAssumption
<1>4. ASSUME NEW a \in S PROVE ~ Outscores(a, a)
  <2>1. PICK p \in Relations : a.relations = {p}
    OBVIOUS
  <2>2. a.score \in Int /\ a.chunk \in Nat /\ p \in Nat
    BY <1>2, <1>3
  <2> QED
    BY <1>1, <2>1, <2>2
<1>5. ASSUME NEW a \in S, NEW b \in S, NEW c \in S, Outscores(a, b), Outscores(b, c)
      PROVE  Outscores(a, c)
  <2>1. PICK p \in Relations : a.relations = {p}
    OBVIOUS
  <2>2. PICK q \in Relations : b.relations = {q}
    OBVIOUS
  <2>3. PICK r \in Relations : c.relations = {r}
    OBVIOUS
  <2>4. /\ a.score \in Int /\ a.chunk \in Nat /\ p \in Nat
        /\ b.score \in Int /\ b.chunk \in Nat /\ q \in Nat
        /\ c.score \in Int /\ c.chunk \in Nat /\ r \in Nat
    BY <1>2, <1>3
  <2>5. \/ a.score > b.score
        \/ a.score = b.score /\ a.chunk > b.chunk
        \/ a.score = b.score /\ a.chunk = b.chunk /\ p > q
    BY <1>1, <1>5, <2>1, <2>2
  <2>6. \/ b.score > c.score
        \/ b.score = c.score /\ b.chunk > c.chunk
        \/ b.score = c.score /\ b.chunk = c.chunk /\ q > r
    BY <1>1, <1>5, <2>2, <2>3
  <2>7. \/ a.score > c.score
        \/ a.score = c.score /\ a.chunk > c.chunk
        \/ a.score = c.score /\ a.chunk = c.chunk /\ p > r
    BY <2>4, <2>5, <2>6
  <2> QED
    BY <1>1, <2>1, <2>3, <2>7
<1>6. ASSUME NEW a \in S, NEW b \in S PROVE a = b \/ Outscores(a, b) \/ Outscores(b, a)
  <2>1. PICK p \in Relations : a.relations = {p}
    OBVIOUS
  <2>2. PICK q \in Relations : b.relations = {q}
    OBVIOUS
  <2>3. /\ a.score \in Int /\ a.chunk \in Nat /\ p \in Nat
        /\ b.score \in Int /\ b.chunk \in Nat /\ q \in Nat
    BY <1>2, <1>3
  <2>4. CASE a.score = b.score /\ a.chunk = b.chunk /\ p = q
    BY <2>1, <2>2, <2>4
  <2>5. CASE ~(a.score = b.score /\ a.chunk = b.chunk /\ p = q)
    <3>1. \/ a.score > b.score
          \/ a.score = b.score /\ a.chunk > b.chunk
          \/ a.score = b.score /\ a.chunk = b.chunk /\ p > q
          \/ b.score > a.score
          \/ b.score = a.score /\ b.chunk > a.chunk
          \/ b.score = a.score /\ b.chunk = a.chunk /\ q > p
      BY <2>3, <2>5
    <3> QED
      BY <1>1, <2>1, <2>2, <3>1
  <2> QED
    BY <2>4, <2>5
<1>7. StrictOrder(Scores(S), S)
  BY <1>4, <1>5, ScoresAre DEF StrictOrder
<1>8. Total(Scores(S), S)
  BY <1>6, ScoresAre DEF Total
<1> QED
  BY <1>7, <1>8

\* and those of a text index in their scores or chunks.
LEMMA TextOrder ==
    ASSUME NEW S, HitsOf(S),
           \A h \in S : h.mode # "graph",
           \A a, b \in S : a.chunk = b.chunk => a = b
    PROVE  StrictOrder(Scores(S), S) /\ Total(Scores(S), S)
<1>1. \A a, b \in S : Outscores(a, b) <=> \/ a.score > b.score
                                          \/ a.score = b.score /\ a.chunk < b.chunk
  BY DEF Outscores
<1>2. \A h \in S : h.score \in Int /\ h.chunk \in Nat
  BY HitParts, ChunkParts DEF HitsOf
<1>3. ASSUME NEW a \in S PROVE ~ Outscores(a, a)
  BY <1>1, <1>2
<1>4. ASSUME NEW a \in S, NEW b \in S, NEW c \in S, Outscores(a, b), Outscores(b, c)
      PROVE  Outscores(a, c)
  <2>1. /\ a.score \in Int /\ a.chunk \in Nat /\ b.score \in Int /\ b.chunk \in Nat
        /\ c.score \in Int /\ c.chunk \in Nat
    BY <1>2
  <2> QED
    BY <1>1, <1>4, <2>1
<1>5. ASSUME NEW a \in S, NEW b \in S PROVE a = b \/ Outscores(a, b) \/ Outscores(b, a)
  <2>1. a.score \in Int /\ a.chunk \in Nat /\ b.score \in Int /\ b.chunk \in Nat
    BY <1>2
  <2> QED
    BY <1>1, <2>1
<1>6. StrictOrder(Scores(S), S)
  BY <1>3, <1>4, ScoresAre DEF StrictOrder
<1>7. Total(Scores(S), S)
  BY <1>5, ScoresAre DEF Total
<1> QED
  BY <1>6, <1>7

\* So a cut holds no more than it may.
LEMMA CutCount ==
    ASSUME NEW S, IsFiniteSet(S), NEW k \in Nat, StrictOrder(Scores(S), S), Total(Scores(S), S)
    PROVE  IsFiniteSet(TopOf(S, k)) /\ Cardinality(TopOf(S, k)) <= k
<1> DEFINE R == Scores(S)
<1>1. \A x \in S : Ahead(R, S, x) = {y \in S : Outscores(y, x)}
  BY ScoresAre DEF Ahead
<1>2. TopOf(S, k) = {x \in S : Position(R, S, x) < k}
  BY <1>1 DEF TopOf, Position
<1> HIDE DEF R
<1>3. Cardinality({x \in S : Position(R, S, x) < k}) = Least(k, Cardinality(S))
  BY FirstsAreMany DEF R
<1>4. Least(k, Cardinality(S)) <= k
  BY FS_CardinalityType DEF Least
<1>5. TopOf(S, k) \in SUBSET S
  BY <1>2
<1> QED
  BY <1>2, <1>3, <1>4, <1>5, FS_Subset

\* The chunks of some hits are no more than the hits.
LEMMA ChunksCount ==
    ASSUME NEW S, IsFiniteSet(S)
    PROVE  /\ IsFiniteSet(ChunksOf(S)) /\ Cardinality(ChunksOf(S)) <= Cardinality(S)
           /\ Cardinality(ChunksOf(S)) \in Nat /\ Cardinality(S) \in Nat
           /\ (\A a, b \in S : a.chunk = b.chunk => a = b) =>
                 Cardinality(ChunksOf(S)) = Cardinality(S)
<1> DEFINE f == [h \in S |-> h.chunk]
<1>1. f \in Surjection(S, ChunksOf(S))
  BY DEF Surjection, ChunksOf
<1>2. (\A a, b \in S : a.chunk = b.chunk => a = b) => f \in Injection(S, ChunksOf(S))
  BY DEF Injection, IsInjective, ChunksOf
<1> HIDE DEF f
<1> QED
  BY <1>1, <1>2, FS_Surjection, FS_CardinalityType

\* A cut of at most k in each of two sets.
LEMMA TwoCuts ==
    ASSUME NEW A, NEW B, IsFiniteSet(A), IsFiniteSet(B)
    PROVE  IsFiniteSet(A \cup B) /\ Cardinality(A \cup B) <= Cardinality(A) + Cardinality(B)
           /\ Cardinality(A) \in Nat /\ Cardinality(B) \in Nat /\ Cardinality(A \cup B) \in Nat
<1>1. IsFiniteSet(A \cap B) /\ Cardinality(A \cap B) \in Nat
  BY FS_Intersection, FS_CardinalityType
<1>2. /\ IsFiniteSet(A \cup B)
      /\ Cardinality(A \cup B) = Cardinality(A) + Cardinality(B) - Cardinality(A \cap B)
  BY FS_Union
<1>3. Cardinality(A) \in Nat /\ Cardinality(B) \in Nat /\ Cardinality(A \cup B) \in Nat
  BY <1>2, FS_CardinalityType
<1> QED
  BY <1>1, <1>2, <1>3

TimesFound ==
    IF "graph" \in plan.modes THEN 3 ELSE IF "hybrid" \in plan.modes THEN 2 ELSE 1

LEMMA CutAlone ==
    \A k : TopOf({}, k) = {}
  BY DEF TopOf

LEMMA CutParts ==
    ASSUME NEW found
    PROVE  Cut(found) = (TopOf({h \in found : h.mode = "graph"}, plan.topK)
                         \cup TopOf({h \in found : h.mode = "keyword"}, plan.topK))
                        \cup TopOf({h \in found : h.mode = "vector"}, plan.topK)
<1> DEFINE by(m) == TopOf({h \in found : h.mode = m}, plan.topK)
<1>1. Cut(found) = UNION {by(m) : m \in Modes}
  BY DEF Cut
<1>2. Modes = {"graph", "keyword", "vector"}
  BY DEF Modes
<1> HIDE DEF by
<1>3. UNION {by(m) : m \in Modes} = (by("graph") \cup by("keyword")) \cup by("vector")
  BY <1>2
<1>4. Cut(found) = (by("graph") \cup by("keyword")) \cup by("vector")
  BY <1>1, <1>3
<1> QED
  BY <1>4 DEF by

LEMMA GraphCut ==
    ASSUME SearchInv
    PROVE  /\ IsFiniteSet(ChunksOf(Cut(GraphHits)))
           /\ Cardinality(ChunksOf(Cut(GraphHits))) <= plan.topK
<1> DEFINE S == GraphHits
<1>1. /\ IsFiniteSet(S) /\ HitsOf(S)
      /\ S = {h \in S : h.mode = "graph"} /\ {} = {h \in S : h.mode = "keyword"}
      /\ {} = {h \in S : h.mode = "vector"}
      /\ \A h \in S : h.mode = "graph" /\ \E r \in Relations : h.relations = {r}
      /\ \A a, b \in S : a.chunk = b.chunk /\ a.relations = b.relations => a = b
  BY GraphFound DEF SearchInv
<1> HIDE DEF S
<1>2. plan.topK \in Nat
  BY PlanParts DEF SearchInv, TypeOK
<1>3. Cut(S) = TopOf(S, plan.topK)
  <2>1. Cut(S) = (TopOf(S, plan.topK) \cup TopOf({}, plan.topK)) \cup TopOf({}, plan.topK)
    BY <1>1, CutParts
  <2> QED
    BY <2>1, CutAlone
<1>4. StrictOrder(Scores(S), S) /\ Total(Scores(S), S)
  BY <1>1, GraphOrder
<1>5. IsFiniteSet(TopOf(S, plan.topK)) /\ Cardinality(TopOf(S, plan.topK)) <= plan.topK
  BY <1>1, <1>2, <1>4, CutCount
<1> DEFINE T == Cut(S)
<1>6. IsFiniteSet(T) /\ Cardinality(T) <= plan.topK
  BY <1>3, <1>5
<1> HIDE DEF T
<1>7. IsFiniteSet(ChunksOf(T)) /\ Cardinality(ChunksOf(T)) <= plan.topK
  BY <1>2, <1>6, ChunksCount
<1> QED
  BY <1>7 DEF T, S

LEMMA TextCut ==
    ASSUME SearchInv, NEW keyword \in KeywordAnswers,
           NEW vector \in (IF "hybrid" \in plan.modes THEN VectorAnswers ELSE {NoAnswer})
    PROVE  LET found == TextHits("keyword", keyword) \cup TextHits("vector", vector)
           IN  /\ IsFiniteSet(ChunksOf(Cut(found)))
               /\ Cardinality(ChunksOf(Cut(found)))
                     <= plan.topK * (IF "hybrid" \in plan.modes THEN 2 ELSE 1)
<1> DEFINE K == TextHits("keyword", keyword)
           V == TextHits("vector", vector)
           S == K \cup V
           k == plan.topK
<1>1. /\ K = {h \in S : h.mode = "keyword"} /\ V = {h \in S : h.mode = "vector"}
      /\ {} = {h \in S : h.mode = "graph"}
      /\ IsFiniteSet(K) /\ HitsOf(K) /\ IsFiniteSet(V) /\ HitsOf(V)
      /\ \A a, b \in K : a.chunk = b.chunk => a = b
      /\ \A a, b \in V : a.chunk = b.chunk => a = b
  BY TextFound
<1>2. "hybrid" \notin plan.modes => V = {}
  BY DEF TextHits, NoAnswer
<1> HIDE DEF K, V
<1>3. k \in Nat
  BY PlanParts DEF SearchInv, TypeOK
<1>4. Cut(S) = TopOf(K, k) \cup TopOf(V, k)
  <2>1. Cut(S) = (TopOf({}, k) \cup TopOf(K, k)) \cup TopOf(V, k)
    <3> HIDE DEF S
    <3> QED
      BY <1>1, CutParts
  <2> QED
    BY <2>1, CutAlone
<1>5. /\ \A h \in K : h.mode # "graph"
      /\ \A h \in V : h.mode # "graph"
  BY <1>1
<1>6. IsFiniteSet(TopOf(K, k)) /\ Cardinality(TopOf(K, k)) <= k
  <2>1. StrictOrder(Scores(K), K) /\ Total(Scores(K), K)
    BY <1>1, <1>5, TextOrder
  <2> QED
    BY <1>1, <1>3, <2>1, CutCount
<1>7. IsFiniteSet(TopOf(V, k)) /\ Cardinality(TopOf(V, k)) <= k
  <2>1. StrictOrder(Scores(V), V) /\ Total(Scores(V), V)
    BY <1>1, <1>5, TextOrder
  <2> QED
    BY <1>1, <1>3, <2>1, CutCount
<1>8. "hybrid" \notin plan.modes => Cardinality(TopOf(V, k)) = 0
  BY <1>2, CutAlone, FS_EmptySet
<1> DEFINE T == Cut(S)
           A == TopOf(K, k)
           B == TopOf(V, k)
<1> HIDE DEF A, B, S, k
<1>9. /\ IsFiniteSet(T) /\ Cardinality(T) <= Cardinality(A) + Cardinality(B)
      /\ Cardinality(A) \in Nat /\ Cardinality(B) \in Nat /\ Cardinality(T) \in Nat
  BY <1>4, <1>6, <1>7, TwoCuts DEF A, B
<1>10. IsFiniteSet(T) /\ Cardinality(T) <= k * (IF "hybrid" \in plan.modes THEN 2 ELSE 1)
  BY <1>3, <1>6, <1>7, <1>8, <1>9 DEF A, B
<1> HIDE DEF T
<1>11. /\ IsFiniteSet(ChunksOf(T)) /\ Cardinality(ChunksOf(T)) <= Cardinality(T)
       /\ Cardinality(ChunksOf(T)) \in Nat /\ Cardinality(T) \in Nat
  BY <1>10, ChunksCount
<1>12. Cardinality(ChunksOf(T)) <= k * (IF "hybrid" \in plan.modes THEN 2 ELSE 1)
  BY <1>3, <1>10, <1>11
<1> QED
  BY <1>11, <1>12 DEF T, S, K, V, k

\* Some hits, one a chunk, at most k of those of the chunks C, or all of them.
OneEach(S, C, k) ==
    /\ IsFiniteSet(S) /\ ChunksOf(S) \subseteq C
    /\ \A a, b \in S : a.chunk = b.chunk => a = b
    /\ Cardinality(S) = Least(k, Cardinality(C))

\* What merges is what was found and may be seen; what is ranked is the best of it.
FoundInv ==
    /\ phase \in {"traverse", "graph", "merge graph"} => "graph" \in plan.modes
    /\ phase \in {"traverse", "graph"} => hits = {}
    /\ phase = "text" => /\ hits \cap visible = {}
                         /\ Cardinality(hits) <=
                               plan.topK * (IF "graph" \in plan.modes THEN 1 ELSE 0)
    /\ phase = "merge graph" => Cardinality(hits) <= plan.topK
    /\ Cardinality(hits) <= plan.topK * TimesFound
    /\ phase \notin {"traverse", "graph", "text"} => hits \cap visible = ChunksOf(given)
    /\ phase \in {"score", "select", "done"} => OneEach(results, hits \cap visible, plan.topK)

LEMMA FoundInit == Init => FoundInv
<1> SUFFICES ASSUME Init PROVE FoundInv
  OBVIOUS
<1>1. hits = {} /\ Cardinality(hits) = 0
  BY FS_EmptySet DEF Init
<1>2. plan.topK \in Nat
  BY PlanParts DEF Init
<1>3. /\ plan.topK * TimesFound \in Nat
      /\ plan.topK * (IF "graph" \in plan.modes THEN 1 ELSE 0) \in Nat
  BY <1>2 DEF TimesFound
<1>4. /\ phase \in {"traverse", "graph", "text"}
      /\ phase \in {"traverse", "graph"} => "graph" \in plan.modes
  BY DEF Init
<1>5. Cardinality(hits) <= plan.topK * (IF "graph" \in plan.modes THEN 1 ELSE 0)
      /\ Cardinality(hits) <= plan.topK * TimesFound
  <2> HIDE DEF TimesFound
  <2> QED
    BY <1>1, <1>3
<1> QED
  BY <1>1, <1>4, <1>5 DEF FoundInv

\* The best of what was merged.
Foremost(S) == {p \in S \X S : Precedes(p[1], p[2])}

LEMMA BestAreMany ==
    ASSUME NEW S, IsFiniteSet(S), HitsOf(S), \A a, b \in S : a.chunk = b.chunk => a = b,
           NEW k \in Nat
    PROVE  /\ {h \in S : Cardinality({better \in S : Precedes(better, h)}) < k} \subseteq S
           /\ Cardinality({h \in S : Cardinality({better \in S : Precedes(better, h)}) < k})
                 = Least(k, Cardinality(S))
<1> DEFINE R == Foremost(S)
<1>1. \A a, b \in S : <<a, b>> \in R <=> Precedes(a, b)
  BY DEF Foremost
<1> HIDE DEF R
<1>2. \A h \in S : h.score \in Int /\ h.normal \in Int /\ h.chunk \in Int
  BY HitParts, ChunkParts DEF HitsOf
<1>3. \A a \in S : ~ Precedes(a, a)
  BY <1>2 DEF Precedes
<1>4. ASSUME NEW a \in S, NEW b \in S, NEW c \in S, Precedes(a, b), Precedes(b, c)
      PROVE  Precedes(a, c)
  <2>1. /\ a.score \in Int /\ a.normal \in Int /\ a.chunk \in Int
        /\ b.score \in Int /\ b.normal \in Int /\ b.chunk \in Int
        /\ c.score \in Int /\ c.normal \in Int /\ c.chunk \in Int
    BY <1>2
  <2> QED
    BY <1>4, <2>1 DEF Precedes
<1>5. ASSUME NEW a \in S, NEW b \in S PROVE a = b \/ Precedes(a, b) \/ Precedes(b, a)
  <2>1. /\ a.score \in Int /\ a.normal \in Int /\ a.chunk \in Int
        /\ b.score \in Int /\ b.normal \in Int /\ b.chunk \in Int
    BY <1>2
  <2> QED
    BY <2>1 DEF Precedes
<1>6. StrictOrder(R, S)
  BY <1>1, <1>3, <1>4 DEF StrictOrder
<1>7. Total(R, S)
  BY <1>1, <1>5 DEF Total
<1>8. \A h \in S : Ahead(R, S, h) = {better \in S : Precedes(better, h)}
  BY <1>1 DEF Ahead
<1>9. {h \in S : Cardinality({better \in S : Precedes(better, h)}) < k}
         = {h \in S : Position(R, S, h) < k}
  BY <1>8 DEF Position
<1>10. Cardinality({h \in S : Position(R, S, h) < k}) = Least(k, Cardinality(S))
  BY <1>6, <1>7, FirstsAreMany
<1> QED
  BY <1>9, <1>10

LEMMA FoundMerged ==
    ASSUME SearchInv, MergeInv, FoundInv, pending = {}, phase \in {"merge graph", "merge text"}
    PROVE  /\ OneEach(BestMerged(plan.topK), hits \cap visible, plan.topK)
           /\ MergedHits = {} => hits \cap visible = {}
<1> DEFINE S == MergedHits
           C == hits \cap visible
           best == BestMerged(plan.topK)
           f == [c \in DOMAIN merged |-> merged[c]]
<1>1. C = DOMAIN merged
  BY DEF FoundInv, MergeInv, Taken
<1>2. \A c \in DOMAIN merged : merged[c] \in Hit /\ merged[c].chunk = c
  BY DEF SearchInv, TypeOK, ListsInv
<1>3. S = {merged[c] : c \in DOMAIN merged}
  BY DEF MergedHits
<1> HIDE DEF S
<1>4. HitsOf(S) /\ \A a, b \in S : a.chunk = b.chunk => a = b
  <2>1. \A a \in S : a \in Hit /\ a.chunk \in DOMAIN merged /\ a = merged[a.chunk]
    BY <1>2, <1>3
  <2> QED
    BY <2>1 DEF HitsOf
<1>5. ChunksOf(S) = C
  <2>1. ChunksOf(S) = DOMAIN merged
    BY <1>2, <1>3 DEF ChunksOf
  <2> HIDE DEF C
  <2> QED
    BY <1>1, <2>1
<1>6. IsFiniteSet(C)
  <2>1. C \in SUBSET Chunks
    BY DEF SearchInv, TypeOK
  <2> QED
    BY <2>1, GraphAssumption, FS_Subset
<1>7. IsFiniteSet(S)
  <2>1. f \in Surjection(DOMAIN merged, S)
    BY <1>3 DEF Surjection
  <2> HIDE DEF f, S
  <2> QED
    BY <1>1, <1>6, <2>1, FS_Surjection
<1>8. best = {h \in S : Cardinality({better \in S : Precedes(better, h)}) < plan.topK}
  BY DEF BestMerged, S
<1>9. plan.topK \in Nat
  BY PlanParts DEF SearchInv, TypeOK
<1> HIDE DEF C, best
<1>10. best \subseteq S /\ Cardinality(best) = Least(plan.topK, Cardinality(S))
  BY <1>4, <1>7, <1>8, <1>9, BestAreMany
<1>11. Cardinality(S) = Cardinality(C)
  BY <1>4, <1>5, <1>7, ChunksCount
<1>12. IsFiniteSet(best)
  <2>1. best \in SUBSET S
    BY <1>10
  <2> QED
    BY <1>7, <2>1, FS_Subset
<1>13. ChunksOf(best) \subseteq C /\ \A a, b \in best : a.chunk = b.chunk => a = b
  BY <1>4, <1>5, <1>10 DEF ChunksOf
<1>14. OneEach(best, C, plan.topK)
  BY <1>10, <1>11, <1>12, <1>13 DEF OneEach
<1>15. S = {} => C = {}
  BY <1>5 DEF ChunksOf
<1> QED
  BY <1>14, <1>15 DEF S, C, best

LEMMA ModesAre ==
    ASSUME SearchInv
    PROVE  "graph" \in plan.modes => "hybrid" \in plan.modes
<1>1. plan.modes \in SelectedModes
  BY PlanParts DEF SearchInv, TypeOK
<1> QED
  BY <1>1 DEF SelectedModes

LEMMA FoundNext == SearchInv /\ SearchInv' /\ MergeInv /\ FoundInv /\ [Next]_vars => FoundInv'
<1> SUFFICES ASSUME SearchInv, SearchInv', MergeInv, FoundInv, [Next]_vars PROVE FoundInv'
  OBVIOUS
<1>0. plan.topK \in Nat /\ IsFiniteSet(hits) /\ Cardinality(hits) \in Nat
  <2>1. hits \in SUBSET Chunks
    BY DEF SearchInv, TypeOK
  <2> QED
    BY <2>1, GraphAssumption, FS_Subset, FS_CardinalityType, PlanParts DEF SearchInv, TypeOK
<1>1. CASE GraphSearch
  <2>1. /\ phase = "graph" /\ phase' = "merge graph" /\ BeginMerge(GraphHits)
        /\ UNCHANGED <<plan, visible>>
    BY <1>1 DEF GraphSearch
  <2>2. IsFiniteSet(GraphHits) /\ HitsOf(GraphHits)
    BY GraphFound DEF SearchInv
  <2>3. /\ hits' = hits \cup ChunksOf(Cut(GraphHits))
        /\ ChunksOf(given') = ChunksOf(Cut(GraphHits)) \cap visible
    BY <2>1, <2>2, MergeBegins
  <2>4. "graph" \in plan.modes /\ hits = {}
    BY <2>1 DEF FoundInv
  <2>5. hits' = ChunksOf(Cut(GraphHits)) /\ hits' \cap visible = ChunksOf(given')
    BY <2>3, <2>4
  <2>6. IsFiniteSet(hits') /\ Cardinality(hits') <= plan.topK /\ Cardinality(hits') \in Nat
    BY <2>5, GraphCut, FS_CardinalityType
  <2>7. Cardinality(hits') <= plan.topK * 3
    BY <1>0, <2>6
  <2>8. ChunksOf(given)' = ChunksOf(given')
    BY DEF ChunksOf
  <2> QED
    BY <2>1, <2>4, <2>5, <2>6, <2>7, <2>8 DEF FoundInv, TimesFound
<1>2. CASE TextSearch
  <2>1. PICK keyword \in KeywordAnswers,
             vector \in (IF "hybrid" \in plan.modes THEN VectorAnswers ELSE {NoAnswer}) :
             BeginMerge(TextHits("keyword", keyword) \cup TextHits("vector", vector))
    BY <1>2 DEF TextSearch
  <2>2. phase = "text" /\ phase' = "merge text" /\ UNCHANGED <<plan, visible>>
    BY <1>2 DEF TextSearch
  <2> DEFINE found == TextHits("keyword", keyword) \cup TextHits("vector", vector)
             C == ChunksOf(Cut(found))
  <2>3. IsFiniteSet(found) /\ HitsOf(found) /\ BeginMerge(found)
    BY <2>1, TextFound
  <2>4. /\ IsFiniteSet(C)
        /\ Cardinality(C) <= plan.topK * (IF "hybrid" \in plan.modes THEN 2 ELSE 1)
    BY TextCut
  <2> HIDE DEF found
  <2>5. hits' = hits \cup C /\ ChunksOf(given') = C \cap visible
    BY <2>3, MergeBegins
  <2> HIDE DEF C
  <2>6. /\ hits \cap visible = {}
        /\ Cardinality(hits) <= plan.topK * (IF "graph" \in plan.modes THEN 1 ELSE 0)
    BY <2>2 DEF FoundInv
  <2>7. hits' \cap visible = ChunksOf(given')
    BY <2>5, <2>6
  <2>8. /\ Cardinality(hits') <= Cardinality(hits) + Cardinality(C)
        /\ Cardinality(C) \in Nat /\ Cardinality(hits') \in Nat
    BY <1>0, <2>4, <2>5, TwoCuts
  <2>9. Cardinality(hits') <= plan.topK * TimesFound
    BY <1>0, <2>4, <2>6, <2>8, ModesAre DEF TimesFound
  <2>10. ChunksOf(given)' = ChunksOf(given')
    BY DEF ChunksOf
  <2>11. Cardinality(hits') <= plan'.topK * TimesFound'
    BY <2>2, <2>9 DEF TimesFound
  <2> QED
    BY <2>2, <2>7, <2>10, <2>11 DEF FoundInv
<1>3. CASE EndMerge
  <2>1. /\ phase \in {"merge graph", "merge text"} /\ pending = {}
        /\ results' = BestMerged(plan.topK)
        /\ phase' = IF phase = "merge graph" /\ MergedHits = {} THEN "text" ELSE "score"
        /\ UNCHANGED <<plan, visible, given, hits>>
    BY <1>3 DEF EndMerge
  <2>2. OneEach(BestMerged(plan.topK), hits \cap visible, plan.topK)
    BY <2>1, FoundMerged
  <2>3. OneEach(results, hits \cap visible, plan.topK)'
    BY <2>1, <2>2 DEF OneEach, ChunksOf
  <2>4. phase' = "text" => /\ hits \cap visible = {} /\ "graph" \in plan.modes
                           /\ Cardinality(hits) <= plan.topK
    BY <2>1, FoundMerged DEF FoundInv
  <2>5. phase' = "text" => /\ hits' \cap visible' = {}
                           /\ Cardinality(hits') <=
                                 plan'.topK * (IF "graph" \in plan'.modes THEN 1 ELSE 0)
    <3>1. plan.topK * 1 = plan.topK
      BY <1>0
    <3> QED
      BY <2>1, <2>4, <3>1
  <2>6. hits' \cap visible' = ChunksOf(given)'
    BY <2>1 DEF FoundInv, ChunksOf
  <2>7. Cardinality(hits') <= plan'.topK * TimesFound'
    BY <2>1 DEF FoundInv, TimesFound
  <2>8. phase' \in {"text", "score"}
    BY <2>1
  <2> QED
    BY <2>3, <2>5, <2>6, <2>7, <2>8 DEF FoundInv
<1>4. CASE ~GraphSearch /\ ~TextSearch /\ ~EndMerge
  <2>1. /\ UNCHANGED <<plan, visible, given, hits, results>>
        /\ \/ phase' = phase
           \/ phase = "traverse" /\ phase' = "graph"
           \/ phase \in {"score", "select"} /\ phase' \in {"select", "done"}
    BY <1>4 DEF Next, TraverseRound, MergeOne, ScoreOne, RerankerRaises, EndScoring, SelectOne,
                EndSelection, Done, vars, merging
  <2>2. CASE phase' = phase
    BY <2>1, <2>2 DEF FoundInv, TimesFound, OneEach, ChunksOf
  <2>3. CASE phase = "traverse" /\ phase' = "graph"
    BY <2>1, <2>3 DEF FoundInv, TimesFound, OneEach, ChunksOf
  <2>4. CASE phase \in {"score", "select"} /\ phase' \in {"select", "done"}
    BY <2>1, <2>4 DEF FoundInv, TimesFound, OneEach, ChunksOf
  <2> QED
    BY <2>1, <2>2, <2>3, <2>4
<1> QED
  BY <1>1, <1>2, <1>3, <1>4

NoRepeat(q) == \A i, j \in 1..Len(q) : q[i] = q[j] => i = j

\* Each hit is scored once, and each score selected once.
RankedInv ==
    /\ phase \notin {"score", "select", "done"} => scored = {}
    /\ phase \in {"score", "select", "done"} => \A s \in scored : s.hit \in results
    /\ \A s, t \in scored : s.hit = t.hit => s = t
    /\ phase \in {"select", "done"} => \A h \in results : \E s \in scored : s.hit = h
    /\ NoRepeat(chosen) /\ NoRepeat(deferred) /\ InSequence(chosen) \cap InSequence(deferred) = {}
    /\ phase = "done" => Remaining = {}

LEMMA RankedInit == Init => RankedInv
<1> SUFFICES ASSUME Init PROVE RankedInv
  OBVIOUS
<1>1. scored = {} /\ chosen = <<>> /\ deferred = <<>> /\ phase \in {"traverse", "graph", "text"}
  BY DEF Init
<1>2. Len(chosen) = 0 /\ Len(deferred) = 0 /\ 1..0 = {}
  BY <1>1
<1>3. InSequence(chosen) = {}
  BY <1>1 DEF InSequence
<1> QED
  BY <1>1, <1>2, <1>3 DEF RankedInv, NoRepeat

\* What was not yet in a list may be appended to it.
LEMMA NoRepeatGrows ==
    ASSUME NEW q \in Seq(Scored), NEW s \in Scored, s \notin InSequence(q), NoRepeat(q)
    PROVE  NoRepeat(Append(q, s)) /\ InSequence(Append(q, s)) = InSequence(q) \cup {s}
<1> DEFINE a == Append(q, s)
<1>1. /\ Len(a) = Len(q) + 1 /\ Len(q) \in Nat /\ DOMAIN q = 1..Len(q)
      /\ \A i \in 1..Len(q) : a[i] = q[i]
      /\ a[Len(q) + 1] = s
      /\ InSequence(a) = InSequence(q) \cup {s}
  BY Grown
<1> HIDE DEF a
<1>2. \A i \in 1..Len(q) : q[i] # s
  BY <1>1 DEF InSequence
<1>3. ASSUME NEW i \in 1..Len(a), NEW j \in 1..Len(a), a[i] = a[j] PROVE i = j
  <2>1. (i \in 1..Len(q) \/ i = Len(q) + 1) /\ (j \in 1..Len(q) \/ j = Len(q) + 1)
    BY <1>1
  <2> QED
    BY <1>1, <1>2, <1>3, <2>1 DEF NoRepeat
<1> QED
  BY <1>1, <1>3 DEF NoRepeat, a

LEMMA ListsStay ==
    ASSUME RankedInv, UNCHANGED <<chosen, deferred>>
    PROVE  /\ NoRepeat(chosen)' /\ NoRepeat(deferred)'
           /\ (InSequence(chosen) \cap InSequence(deferred) = {})'
<1>1. NoRepeat(chosen)' /\ NoRepeat(deferred)'
  BY DEF RankedInv, NoRepeat
<1>2. InSequence(chosen)' = InSequence(chosen) /\ InSequence(deferred)' = InSequence(deferred)
  BY DEF InSequence
<1> QED
  BY <1>1, <1>2 DEF RankedInv

LEMMA RankedNext == SearchInv /\ SearchInv' /\ RankedInv /\ [Next]_vars => RankedInv'
<1> SUFFICES ASSUME SearchInv, SearchInv', RankedInv, [Next]_vars PROVE RankedInv'
  OBVIOUS
<1>1. CASE SelectOne
  <2>1. PICK s \in Remaining :
            \/ deferred' = Append(deferred, s) /\ chosen' = chosen
            \/ chosen' = Append(chosen, s) /\ deferred' = deferred
    BY <1>1 DEF SelectOne
  <2>2. phase = "select" /\ UNCHANGED <<phase, scored, results>>
    BY <1>1 DEF SelectOne, merging
  <2>3. /\ s \in Scored /\ chosen \in Seq(Scored) /\ deferred \in Seq(Scored)
        /\ s \notin InSequence(chosen) /\ s \notin InSequence(deferred)
    <3>1. s \in scored /\ s \notin InSequence(chosen) /\ s \notin InSequence(deferred)
      BY DEF Remaining
    <3>2. s \in Scored
      BY <3>1 DEF SearchInv, TypeOK
    <3>3. chosen \in Seq(Scored) /\ deferred \in Seq(Scored)
      BY DEF SearchInv, ListsInv
    <3> QED
      BY <3>1, <3>2, <3>3
  <2>4. /\ NoRepeat(chosen) /\ NoRepeat(deferred)
        /\ InSequence(chosen) \cap InSequence(deferred) = {}
    BY DEF RankedInv
  <2>5. /\ NoRepeat(chosen') /\ NoRepeat(deferred')
        /\ InSequence(chosen') \cap InSequence(deferred') = {}
    <3>1. CASE deferred' = Append(deferred, s) /\ chosen' = chosen
      <4>1. /\ NoRepeat(Append(deferred, s))
            /\ InSequence(Append(deferred, s)) = InSequence(deferred) \cup {s}
        BY <2>3, <2>4, NoRepeatGrows
      <4> DEFINE d == Append(deferred, s)
      <4> HIDE DEF d
      <4>2. /\ NoRepeat(chosen) /\ NoRepeat(d)
            /\ InSequence(chosen) \cap InSequence(d) = {}
        BY <2>3, <2>4, <4>1 DEF d
      <4>3. deferred' = d
        BY <3>1 DEF d
      <4> QED
        BY <3>1, <4>2, <4>3
    <3>2. CASE chosen' = Append(chosen, s) /\ deferred' = deferred
      <4>1. /\ NoRepeat(Append(chosen, s))
            /\ InSequence(Append(chosen, s)) = InSequence(chosen) \cup {s}
        BY <2>3, <2>4, NoRepeatGrows
      <4> DEFINE d == Append(chosen, s)
      <4> HIDE DEF d
      <4>2. /\ NoRepeat(d) /\ NoRepeat(deferred)
            /\ InSequence(d) \cap InSequence(deferred) = {}
        BY <2>3, <2>4, <4>1 DEF d
      <4>3. chosen' = d
        BY <3>2 DEF d
      <4> QED
        BY <3>2, <4>2, <4>3
    <3> QED
      BY <2>1, <3>1, <3>2
  <2>6. /\ NoRepeat(chosen)' /\ NoRepeat(deferred)'
        /\ (InSequence(chosen) \cap InSequence(deferred) = {})'
    BY <2>5 DEF NoRepeat, InSequence
  <2> QED
    BY <2>2, <2>6 DEF RankedInv
<1>2. CASE ScoreOne
  <2>1. PICK h \in Unscored, relevance \in Relevances :
             scored' = scored \cup {Weighted(h, relevance)}
    BY <1>2 DEF ScoreOne
  <2>2. phase = "score" /\ UNCHANGED <<phase, results, chosen, deferred>>
    BY <1>2 DEF ScoreOne, merging
  <2>3. h \in results /\ \A s \in scored : s.hit # h
    BY DEF Unscored
  <2>4. Weighted(h, relevance).hit = h
    BY DEF Weighted
  <2>5. /\ \A s \in scored' : s.hit \in results
        /\ \A s, t \in scored' : s.hit = t.hit => s = t
    BY <2>1, <2>2, <2>3, <2>4 DEF RankedInv
  <2> QED
    BY <2>2, <2>5 DEF RankedInv, NoRepeat, InSequence
<1>3. CASE RerankerRaises
  <2>1. /\ phase = "score" /\ phase' = "select" /\ UNCHANGED <<results, chosen, deferred>>
        /\ scored' = {[hit |-> h, score |-> 100 * h.normal] : h \in results}
    BY <1>3 DEF RerankerRaises, FallbackScores, merging
  <2>2. /\ \A s \in scored' : s.hit \in results
        /\ \A s, t \in scored' : s.hit = t.hit => s = t
    BY <2>1
  <2>3. ASSUME NEW h \in results PROVE \E s \in scored' : s.hit = h
    <3>1. [hit |-> h, score |-> 100 * h.normal] \in scored'
      BY <2>1
    <3> QED
      BY <3>1
  <2> QED
    BY <2>1, <2>2, <2>3 DEF RankedInv, NoRepeat, InSequence
<1>4. CASE EndScoring \/ EndSelection
  <2>1. /\ UNCHANGED <<results, scored, chosen, deferred>>
        /\ \/ phase = "score" /\ phase' = "select" /\ Unscored = {}
           \/ phase = "select" /\ phase' = "done" /\ Remaining = {}
    BY <1>4 DEF EndScoring, EndSelection, merging, ranking
  <2>2. CASE phase = "score" /\ phase' = "select" /\ Unscored = {}
    <3>1. \A h \in results : \E s \in scored : s.hit = h
      BY <2>2 DEF Unscored
    <3> QED
      BY <2>1, <2>2, <3>1 DEF RankedInv, NoRepeat, InSequence
  <2>3. CASE phase = "select" /\ phase' = "done" /\ Remaining = {}
    BY <2>1, <2>3 DEF RankedInv, NoRepeat, InSequence, Remaining
  <2> QED
    BY <2>1, <2>2, <2>3
<1>5. CASE EndMerge
  <2>1. /\ UNCHANGED <<scored, chosen, deferred>> /\ phase \in {"merge graph", "merge text"}
        /\ phase' \in {"text", "score"}
    BY <1>5 DEF EndMerge, ranking
  <2>2. scored = {} /\ scored' = {}
    BY <2>1 DEF RankedInv
  <2>3. /\ NoRepeat(chosen)' /\ NoRepeat(deferred)'
        /\ (InSequence(chosen) \cap InSequence(deferred) = {})'
    BY <2>1, ListsStay
  <2> QED
    BY <2>1, <2>2, <2>3 DEF RankedInv
<1>6. CASE TraverseRound \/ GraphSearch \/ TextSearch \/ MergeOne
  <2>1. /\ UNCHANGED <<scored, chosen, deferred>>
        /\ phase \in {"traverse", "graph", "text", "merge graph", "merge text"}
        /\ phase' \in {"traverse", "graph", "merge graph", "merge text"}
    BY <1>6 DEF TraverseRound, GraphSearch, TextSearch, MergeOne, ranking
  <2>2. scored = {} /\ scored' = {}
    BY <2>1 DEF RankedInv
  <2>3. /\ NoRepeat(chosen)' /\ NoRepeat(deferred)'
        /\ (InSequence(chosen) \cap InSequence(deferred) = {})'
    BY <2>1, ListsStay
  <2> QED
    BY <2>1, <2>2, <2>3 DEF RankedInv
<1>7. CASE Done \/ UNCHANGED vars
  <2>1. UNCHANGED <<phase, results, scored, chosen, deferred>>
    BY <1>7 DEF Done, vars, merging, ranking
  <2> QED
    BY <2>1 DEF RankedInv, NoRepeat, InSequence, Remaining
<1> QED
  BY <1>1, <1>2, <1>3, <1>4, <1>5, <1>6, <1>7 DEF Next

AnswerInv == (SearchInv /\ MergeInv) /\ (FoundInv /\ RankedInv)

LEMMA AnswerSound == Spec => []AnswerInv
<1>1. Init => AnswerInv
  BY SearchInit, MergeInit, FoundInit, RankedInit DEF AnswerInv
<1>2. AnswerInv /\ [Next]_vars => AnswerInv'
  <2> SUFFICES ASSUME AnswerInv, [Next]_vars PROVE AnswerInv'
    OBVIOUS
  <2>1. SearchInv /\ MergeInv /\ FoundInv /\ RankedInv
    BY DEF AnswerInv
  <2>2. SearchInv'
    BY <2>1, SearchNext
  <2>3. MergeInv' /\ FoundInv' /\ RankedInv'
    BY <2>1, <2>2, MergeNext, FoundNext, RankedNext
  <2> QED
    BY <2>2, <2>3 DEF AnswerInv
<1> QED
  BY <1>1, <1>2, PTL DEF Spec

\* The lists hold each hit that retrieval returned once.
LEMMA WholeIsEach ==
    ASSUME SearchInv, RankedInv, phase = "done"
    PROVE  /\ \A i \in 1..Len(Whole) : Whole[i].hit \in results
           /\ \A i, j \in 1..Len(Whole) : Whole[i].hit = Whole[j].hit => i = j
           /\ \A h \in results : \E i \in 1..Len(Whole) : Whole[i].hit = h
<1> DEFINE n == Len(chosen)
           d == Len(deferred)
<1>1. /\ n \in Nat /\ d \in Nat /\ Len(Whole) = n + d
      /\ \A i \in 1..(n + d) : Whole[i] = IF i <= n THEN chosen[i] ELSE deferred[i - n]
  BY SelectionParts
<1>2. /\ InSequence(chosen) = {chosen[i] : i \in 1..n}
      /\ InSequence(deferred) = {deferred[i] : i \in 1..d}
  <2>1. chosen \in Seq(Scored) /\ deferred \in Seq(Scored)
    BY DEF SearchInv, ListsInv
  <2>2. DOMAIN chosen = 1..n /\ DOMAIN deferred = 1..d
    BY <2>1
  <2> QED
    BY <2>2 DEF InSequence
<1>3. /\ InSequence(chosen) \subseteq scored /\ InSequence(deferred) \subseteq scored
      /\ scored = InSequence(chosen) \cup InSequence(deferred)
      /\ InSequence(chosen) \cap InSequence(deferred) = {}
  BY DEF SearchInv, TypeOK, RankedInv, Remaining
<1>4. /\ \A i, j \in 1..n : chosen[i] = chosen[j] => i = j
      /\ \A i, j \in 1..d : deferred[i] = deferred[j] => i = j
  BY DEF RankedInv, NoRepeat
<1> HIDE DEF n, d
<1>5. ASSUME NEW i \in 1..(n + d)
      PROVE  /\ i \in 1..n => Whole[i] = chosen[i] /\ Whole[i] \in InSequence(chosen)
             /\ i \notin 1..n => /\ i - n \in 1..d /\ Whole[i] = deferred[i - n]
                                 /\ Whole[i] \in InSequence(deferred)
             /\ Whole[i] \in scored
  <2>1. CASE i <= n
    <3>1. i \in 1..n /\ Whole[i] = chosen[i]
      BY <1>1, <2>1
    <3> QED
      BY <1>2, <1>3, <3>1
  <2>2. CASE ~(i <= n)
    <3>1. i \notin 1..n /\ i - n \in 1..d /\ Whole[i] = deferred[i - n]
      BY <1>1, <2>2
    <3> QED
      BY <1>2, <1>3, <3>1
  <2> QED
    BY <2>1, <2>2
<1>6. ASSUME NEW i \in 1..(n + d), NEW j \in 1..(n + d), Whole[i] = Whole[j] PROVE i = j
  <2>1. CASE i \in 1..n /\ j \in 1..n
    BY <1>4, <1>5, <1>6, <2>1
  <2>2. CASE i \notin 1..n /\ j \notin 1..n
    <3>1. i - n \in 1..d /\ j - n \in 1..d /\ deferred[i - n] = deferred[j - n]
      BY <1>5, <1>6, <2>2
    <3>2. i - n = j - n
      BY <1>4, <3>1
    <3> QED
      BY <1>1, <3>2
  <2>3. CASE (i \in 1..n /\ j \notin 1..n) \/ (i \notin 1..n /\ j \in 1..n)
    BY <1>3, <1>5, <1>6, <2>3
  <2> QED
    BY <2>1, <2>2, <2>3
<1>7. ASSUME NEW s \in scored PROVE \E i \in 1..(n + d) : Whole[i] = s
  <2>1. CASE s \in InSequence(chosen)
    <3>1. PICK i \in 1..n : chosen[i] = s
      BY <1>2, <2>1
    <3>2. i \in 1..(n + d)
      BY <1>1
    <3> QED
      BY <1>5, <3>1, <3>2
  <2>2. CASE s \in InSequence(deferred)
    <3>1. PICK i \in 1..d : deferred[i] = s
      BY <1>2, <2>2
    <3>2. i + n \in 1..(n + d) /\ i + n \notin 1..n /\ (i + n) - n = i
      BY <1>1
    <3> QED
      BY <1>5, <3>1, <3>2
  <2> QED
    BY <1>3, <2>1, <2>2
<1>8. /\ \A s \in scored : s.hit \in results
      /\ \A s, t \in scored : s.hit = t.hit => s = t
      /\ \A h \in results : \E s \in scored : s.hit = h
  BY DEF RankedInv
<1> QED
  BY <1>1, <1>5, <1>6, <1>7, <1>8

LEMMA AnswersAre ==
    ASSUME SearchInv, FoundInv, RankedInv, phase = "done"
    PROVE  LET returned == {Selection[i].hit.chunk : i \in DOMAIN Selection}
           IN  /\ returned \subseteq hits \cap visible
               /\ Len(Selection) = Cardinality(returned)
               /\ Cardinality(returned) = Least(plan.topK, Cardinality(hits \cap visible))
               /\ Cardinality(hits) <= plan.topK
                     * (IF "graph" \in plan.modes THEN 3
                        ELSE IF "hybrid" \in plan.modes THEN 2 ELSE 1)
<1> DEFINE returned == {Selection[i].hit.chunk : i \in DOMAIN Selection}
           C == hits \cap visible
           k == plan.topK
           w == Len(Whole)
           n == Len(Selection)
           f == [i \in 1..w |-> Whole[i].hit]
           g == [i \in 1..n |-> Selection[i].hit.chunk]
<1>1. /\ n = Least(k, w) /\ n \in Nat /\ n <= w /\ w \in Nat /\ k \in Nat
      /\ DOMAIN Selection = 1..n /\ \A i \in 1..n : Selection[i] = Whole[i]
  BY SelectionParts
<1>2. /\ \A i \in 1..w : Whole[i].hit \in results
      /\ \A i, j \in 1..w : Whole[i].hit = Whole[j].hit => i = j
      /\ \A h \in results : \E i \in 1..w : Whole[i].hit = h
  BY WholeIsEach
<1>3. OneEach(results, C, k)
  BY DEF FoundInv
<1> HIDE DEF C, k, w, n
<1>4. w = Cardinality(results)
  <2>1. f \in Surjection(1..w, results) /\ f \in Injection(1..w, results)
    BY <1>2 DEF Surjection, Injection, IsInjective
  <2>2. IsFiniteSet(1..w) /\ Cardinality(1..w) = w
    BY <1>1, FS_Interval
  <2> HIDE DEF f
  <2>3. Cardinality(results) = Cardinality(1..w)
    BY <2>1, <2>2, FS_Surjection
  <2> QED
    BY <2>2, <2>3
<1>5. n = Cardinality(returned)
  <2>1. ASSUME NEW i \in 1..n, NEW j \in 1..n, g[i] = g[j] PROVE i = j
    <3>1. i \in 1..w /\ j \in 1..w /\ Whole[i].hit.chunk = Whole[j].hit.chunk
      BY <1>1, <2>1
    <3>2. Whole[i].hit = Whole[j].hit
      BY <1>2, <1>3, <3>1 DEF OneEach
    <3> QED
      BY <1>2, <3>1, <3>2
  <2>2. returned = {Selection[i].hit.chunk : i \in 1..n}
    BY <1>1
  <2>3. g \in Surjection(1..n, returned)
    BY <2>2 DEF Surjection
  <2>4. g \in Injection(1..n, returned)
    BY <2>1, <2>2 DEF Injection, IsInjective
  <2>5. IsFiniteSet(1..n) /\ Cardinality(1..n) = n
    <3>1. n \in Nat /\ 1 \in Int /\ n \in Int
      BY <1>1
    <3>2. Cardinality(1..n) = IF 1 > n THEN 0 ELSE n - 1 + 1
      BY <3>1, FS_Interval
    <3> QED
      BY <3>1, <3>2, FS_Interval
  <2> HIDE DEF g, returned
  <2>6. Cardinality(returned) = Cardinality(1..n)
    BY <2>3, <2>4, <2>5, FS_Surjection
  <2> QED
    BY <2>5, <2>6
<1>6. returned \subseteq C
  <2>1. ASSUME NEW i \in 1..n PROVE Selection[i].hit.chunk \in C
    <3>1. i \in 1..w /\ Selection[i] = Whole[i]
      BY <1>1
    <3>2. Whole[i].hit \in results
      BY <1>2, <3>1
    <3> QED
      BY <1>3, <3>1, <3>2 DEF OneEach, ChunksOf
  <2> QED
    BY <1>1, <2>1
<1>7. Cardinality(C) \in Nat
  <2>1. C \in SUBSET Chunks
    BY DEF C, SearchInv, TypeOK
  <2> QED
    BY <2>1, GraphAssumption, FS_Subset, FS_CardinalityType
<1>8. n = Least(k, Cardinality(C))
  <2>1. w = Least(k, Cardinality(C))
    BY <1>3, <1>4 DEF OneEach
  <2> QED
    BY <1>1, <1>7, <2>1 DEF Least
<1>9. Cardinality(hits) <= plan.topK
          * (IF "graph" \in plan.modes THEN 3 ELSE IF "hybrid" \in plan.modes THEN 2 ELSE 1)
  BY DEF FoundInv, TimesFound
<1> HIDE DEF returned
<1>10. /\ returned \subseteq C /\ n = Cardinality(returned)
       /\ Cardinality(returned) = Least(k, Cardinality(C))
  BY <1>5, <1>6, <1>8
<1> QED
  BY <1>9, <1>10 DEF returned, C, k, n

\* What comes back is top_k of the visible chunks that were found, or all of
\* them, each of them once: the assumption of PlannedQuery on the retrieval.
THEOREM TheSearchAnswersThePlan == Spec => []AnswersThePlan
<1>1. AnswerInv => AnswersThePlan
  BY AnswersAre DEF AnswerInv, AnswersThePlan
<1> QED
  BY <1>1, AnswerSound, PTL
=============================================================================

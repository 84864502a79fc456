----------------------- MODULE BackendAdapters_proofs -----------------------
(* Proofs about BackendAdapters, for any adapters, chunks, plans and calls:  *)
(* type correctness, what a selection agrees with, what a search shows, and  *)
(* what a call leaves behind.                                                *)
EXTENDS BackendAdapters, FiniteSetTheorems, WellFoundedInduction, TLAPS

(***************************************************************************)
(* Type correctness                                                        *)
(***************************************************************************)

\* The points of a call are a payload of now for each chunk with words.
LEMMA PointsType ==
    ASSUME TypeOK, NEW chunks \in SUBSET Chunks
    PROVE  /\ DOMAIN Points(chunks) = chunks \ Wordless
           /\ Points(chunks) \in [chunks \ Wordless -> Nat]
           /\ \A c \in chunks \ Wordless : Points(chunks)[c] = policy[c]
  BY BackendAssumption DEF TypeOK, Points

\* An upsert keeps a payload for every chunk.
LEMMA UpsertedType ==
    ASSUME NEW held \in [Chunks -> Payload], NEW request,
           DOMAIN request \subseteq Chunks, request \in [DOMAIN request -> Nat]
    PROVE  /\ Upserted(held, request) \in [Chunks -> Payload]
           /\ \A c \in Chunks : Upserted(held, request)[c] =
                 IF c \in DOMAIN request THEN request[c] ELSE held[c]
  BY DEF Upserted, Payload

\* A call that returns and changes no index keeps the types.
LEMMA ReturnsType ==
    ASSUME TypeOK, NEW r, Returns(r), UNCHANGED <<local, points, late, doubt, acked>>
    PROVE  TypeOK'
  BY DEF TypeOK, Returns, Call

(* The variables have their types in every reachable state.                *)
THEOREM TypeCorrect == Spec => []TypeOK
<1>1. Init => TypeOK
  BY BackendAssumption DEF Init, TypeOK, Payload
<1>2. TypeOK /\ [Next]_vars => TypeOK'
  <2> SUFFICES ASSUME TypeOK, [Next]_vars PROVE TypeOK'
    OBVIOUS
  <2> USE BackendAssumption
  <2>1. ASSUME NEW n \in Names, NEW manifest \in Manifests, Register(n, manifest)
        PROVE  TypeOK'
    BY <2>1 DEF TypeOK, Register, Call
  <2>2. ASSUME NEW n \in Names, NEW status \in Statuses, RecordHealth(n, status)
        PROVE  TypeOK'
    BY <2>2 DEF TypeOK, RecordHealth, Call
  <2>3. ASSUME NEW type, NEW required, Select(type, required)
        PROVE  TypeOK'
    BY <2>3 DEF TypeOK, Select, Call
  <2>4. ASSUME NEW op, NotReached(op)
        PROVE  TypeOK'
    BY <2>4, ReturnsType DEF NotReached
  <2>5. ASSUME NEW chunks \in SUBSET Chunks, NoPoints(chunks)
        PROVE  TypeOK'
    BY <2>5, ReturnsType DEF NoPoints
  <2>6. ASSUME NEW chunks \in SUBSET Chunks, UpsertDone(chunks)
        PROVE  TypeOK'
    <3>a. DOMAIN Points(chunks) \subseteq Chunks /\ Points(chunks) \in [DOMAIN Points(chunks) -> Nat]
      BY PointsType, Zenon
    <3>b. Upserted(points, Points(chunks)) \in [Chunks -> Payload]
      BY <3>a, UpsertedType DEF TypeOK
    <3>1. points' \in [Chunks -> Payload]
      BY <2>6, <3>b DEF UpsertDone
    <3>2. acked' \in [Chunks -> Payload]
      BY <2>6 DEF UpsertDone, TypeOK, Payload
    <3>3. doubt' \in [Chunks -> SUBSET Nat]
      BY <2>6 DEF UpsertDone, TypeOK
    <3> QED
      BY <2>6, <3>1, <3>2, <3>3 DEF TypeOK, UpsertDone, Returns, Call
  <2>7. ASSUME NEW chunks \in SUBSET Chunks, UpsertRaises(chunks)
        PROVE  TypeOK'
    <3>a. DOMAIN Points(chunks) \subseteq Chunks /\ Points(chunks) \in [DOMAIN Points(chunks) -> Nat]
      BY PointsType, Zenon
    <3>b. Upserted(points, Points(chunks)) \in [Chunks -> Payload]
      BY <3>a, UpsertedType DEF TypeOK
    <3>1. points' \in [Chunks -> Payload]
      BY <2>7, <3>b DEF UpsertRaises, TypeOK
    <3>2. \A r \in late' : DOMAIN r \subseteq Chunks /\ r \in [DOMAIN r -> Nat]
      BY <2>7, <3>a DEF UpsertRaises, TypeOK
    <3>3. doubt' \in [Chunks -> SUBSET Nat]
      BY <2>7 DEF UpsertRaises, TypeOK
    <3> QED
      BY <2>7, <3>1, <3>2, <3>3 DEF TypeOK, UpsertRaises, Returns, Call
  <2>8. CASE LateUpsert
    <3>1. PICK request \in late : /\ points' = Upserted(points, request)
                                  /\ late' = late \ {request}
      BY <2>8 DEF LateUpsert
    <3>2. points' \in [Chunks -> Payload]
      BY <3>1, UpsertedType DEF TypeOK
    <3> QED
      BY <2>8, <3>1, <3>2 DEF LateUpsert, TypeOK
  <2>9. ASSUME NEW k \in TopKs, SearchDone(k)
        PROVE  TypeOK'
    BY <2>9, ReturnsType DEF SearchDone
  <2>10. CASE SearchBlank
    BY <2>10, ReturnsType DEF SearchBlank
  <2>11. ASSUME NEW chunks \in SUBSET Chunks, IndexLocally(chunks)
         PROVE  TypeOK'
    BY <2>11 DEF TypeOK, IndexLocally, Returns, Call
  <2>12. ASSUME NEW k \in TopKs, SearchLocally(k)
         PROVE  TypeOK'
    BY <2>12, ReturnsType DEF SearchLocally
  <2>13. ASSUME NEW entities \in SUBSET Entities, MergeDone(entities) \/ MergeRaises(entities)
         PROVE  TypeOK'
    BY <2>13, ReturnsType DEF MergeDone, MergeRaises
  <2>14. CASE NoGraph
    BY <2>14, ReturnsType DEF NoGraph
  <2>15. ASSUME NEW query \in Entities, Traverse(query)
         PROVE  TypeOK'
    BY <2>15, ReturnsType DEF Traverse
  <2>16. ASSUME NEW c \in Chunks, EditPolicy(c)
         PROVE  TypeOK'
    BY <2>16 DEF TypeOK, EditPolicy
  <2>17. CASE UNCHANGED vars
    BY <2>17 DEF TypeOK, vars
  <2> QED
    BY <2>1, <2>2, <2>3, <2>4, <2>5, <2>6, <2>7, <2>8, <2>9, <2>10, <2>11, <2>12, <2>13,
       <2>14, <2>15, <2>16, <2>17
    DEF Next, RegistryCall, ServiceCall, LocalCall, Unavailable, GraphUnavailable, Stop
<1> QED
  BY <1>1, <1>2, PTL DEF Spec

(***************************************************************************)
(* Selections                                                              *)
(***************************************************************************)

\* A set of natural numbers that is not empty has a least element.
LEMMA LeastOf ==
    ASSUME NEW T \in SUBSET Nat, T # {}
    PROVE  \E x \in T : \A y \in T : x <= y
<1>1. \E x \in T : \A y \in T : ~ (<<y, x>> \in OpToRel(<, Nat))
  BY NatLessThanWellFounded, WFMin
<1>2. \E x \in T : \A y \in T : ~ (y < x)
  BY <1>1 DEF OpToRel
<1> QED
  BY <1>2

\* A registered adapter has a manifest, with a priority and a rank.
LEMMA Priorities ==
    ASSUME TypeOK, NEW n \in Names, adapters[n] # Nothing
    PROVE  adapters[n].priority \in Nat /\ Rank[n] \in Nat
<1>1. adapters[n] \in Manifest
  BY BackendAssumption DEF TypeOK
<1> QED
  BY <1>1, BackendAssumption DEF Manifest

\* Of adapters that are registered, one stands before all others
\* (adapters_for sorts by priority and name).
LEMMA FirstIsBefore ==
    ASSUME TypeOK, NEW names \in SUBSET Names, names # {},
           \A n \in names : adapters[n] # Nothing
    PROVE  /\ First(names) \in names
           /\ \A m \in names : Before(First(names), m)
<1>1. \A n \in names : adapters[n].priority \in Nat /\ Rank[n] \in Nat
  BY Priorities
<1> DEFINE priorities == {adapters[n].priority : n \in names}
<1>2. PICK p \in priorities : \A q \in priorities : p <= q
  <2>1. priorities \in SUBSET Nat /\ priorities # {}
    BY <1>1
  <2> HIDE DEF priorities
  <2> QED BY <2>1, LeastOf
<1> DEFINE best == {n \in names : adapters[n].priority = p}
           ranks == {Rank[n] : n \in best}
<1>3. best # {}
  BY <1>2
<1>4. PICK r \in ranks : \A q \in ranks : r <= q
  <2>1. ranks \in SUBSET Nat /\ ranks # {}
    BY <1>1, <1>3
  <2> HIDE DEF ranks
  <2> QED BY <2>1, LeastOf
<1>5. PICK n \in best : Rank[n] = r
  BY <1>4
<1>6. \A m \in names : Before(n, m)
  <2>1. n \in names /\ adapters[n].priority = p /\ p \in Nat /\ Rank[n] \in Nat
    BY <1>1, <1>5
  <2>2. ASSUME NEW m \in names PROVE Before(n, m)
    <3>1. p <= adapters[m].priority /\ adapters[m].priority \in Nat
      BY <1>1, <1>2
    <3>2. adapters[m].priority = p => Rank[n] <= Rank[m]
      BY <1>4, <1>5
    <3> QED
      BY <2>1, <3>1, <3>2 DEF Before
  <2> QED BY <2>2
<1> QED
  BY <1>5, <1>6 DEF First

\* What SelectionsFollowReports calls usable, and the order it asks for.
IsUsable(n, type, required) ==
    /\ adapters[n] # Nothing /\ adapters[n].enabled
    /\ adapters[n].type = type
    /\ required \subseteq adapters[n].capabilities
    /\ health[n] \notin {"unavailable", "disabled"}

IsBefore(m, n) ==
    \/ adapters[m].priority < adapters[n].priority
    \/ adapters[m].priority = adapters[n].priority /\ Rank[m] < Rank[n]

\* An adapter stands before another one strictly, or it is that one.
LEMMA BeforeIsStrict ==
    ASSUME TypeOK, NEW m \in Names, NEW n \in Names, m # n,
           adapters[m] # Nothing, adapters[n] # Nothing, Before(m, n)
    PROVE  IsBefore(m, n)
<1>1. Rank[m] # Rank[n]
  BY BackendAssumption
<1> QED
  BY <1>1, Priorities DEF Before, IsBefore

\* The fields of a selection.
LEMMA SelectionFields ==
    ASSUME NEW type, NEW required, NEW primary, NEW candidate, NEW missing,
           NEW s, s = Selection(type, required, primary, candidate, missing)
    PROVE  /\ s.type = type /\ s.required = required
           /\ s.primary = primary /\ s.missing = missing
           /\ s.health = IF candidate = Nothing THEN Nothing ELSE health[candidate]
           /\ s.error <=> primary = Nothing
  BY Zenon DEF Selection

\* What SelectionsFollowReports says of a selection.
Follows(s) ==
    IF s.primary # Nothing
    THEN /\ IsUsable(s.primary, s.type, s.required) /\ ~s.error /\ s.missing = {}
         /\ \A n \in Names \ {s.primary} : IsUsable(n, s.type, s.required) => IsBefore(s.primary, n)
    ELSE /\ \A n \in Names : ~IsUsable(n, s.type, s.required)
         /\ s.error
         /\ s.missing # {} \/ s.health \in {"unavailable", "disabled"} \/ AdaptersFor(s.type) = {}

\* The usable adapters are those that the property calls usable.
LEMMA UsableIsUsable ==
    ASSUME TypeOK, NEW type, NEW required, NEW n \in Names
    PROVE  n \in AdaptersFor(type) /\ Usable(n, required) <=> IsUsable(n, type, required)
<1>1. Unhealthy(health[n]) <=> health[n] \in {"unavailable", "disabled"}
  BY BackendAssumption DEF TypeOK, Unhealthy, Statuses
<1>2. MissingCapabilities(n, required) = {} <=> required \subseteq adapters[n].capabilities
  BY DEF MissingCapabilities
<1> QED
  BY <1>1, <1>2 DEF AdaptersFor, Usable, IsUsable

\* A selection that is made agrees with what is registered and reported.
LEMMA SelectedFollows ==
    ASSUME TypeOK, NEW type, NEW required, NEW s, s = Selected(type, required)
    PROVE  Follows(s)
<1> DEFINE candidates == AdaptersFor(type)
           usable == {n \in candidates : Usable(n, required)}
<1>1. candidates \in SUBSET Names /\ \A n \in candidates : adapters[n] # Nothing
  BY DEF AdaptersFor
<1>2. \A n \in Names : n \in usable <=> IsUsable(n, type, required)
  BY UsableIsUsable
<1>3. CASE usable # {}
  <2>1. s = Selection(type, required, First(usable), First(usable), {})
    BY <1>3 DEF Selected
  <2>2. /\ First(usable) \in usable
        /\ \A m \in usable : Before(First(usable), m)
    BY <1>1, <1>3, FirstIsBefore
  <2>3. First(usable) \in Names /\ First(usable) # Nothing
    BY <1>1, <2>2, BackendAssumption
  <2>4. \A n \in usable \ {First(usable)} : IsBefore(First(usable), n)
    BY <1>1, <2>2, <2>3, BeforeIsStrict
  <2>5. /\ s.type = type /\ s.required = required
        /\ s.primary = First(usable) /\ s.missing = {}
        /\ s.health = health[First(usable)]
        /\ s.error <=> First(usable) = Nothing
    BY <2>1, SelectionFields, <2>3
  <2> HIDE DEF usable
  <2>6. IsUsable(First(usable), type, required)
    BY <1>2, <2>2, <2>3
  <2>7. \A n \in Names \ {First(usable)} :
           IsUsable(n, type, required) => IsBefore(First(usable), n)
    BY <1>2, <2>4
  <2>8. IsUsable(s.primary, s.type, s.required)
    BY <2>5, <2>6
  <2>9. \A n \in Names \ {s.primary} :
           IsUsable(n, s.type, s.required) => IsBefore(s.primary, n)
    BY <2>5, <2>7, Zenon
  <2>10. s.primary # Nothing /\ ~s.error /\ s.missing = {}
    BY <2>3, <2>5
  <2> QED
    BY <2>8, <2>9, <2>10, Zenon DEF Follows
<1>4. CASE usable = {} /\ candidates = {}
  <2>1. s = Selection(type, required, Nothing, Nothing, required)
    BY <1>4 DEF Selected
  <2>5. /\ s.type = type /\ s.required = required
        /\ s.primary = Nothing /\ s.missing = required
        /\ s.health = Nothing
        /\ s.error <=> Nothing = Nothing
    BY <2>1, SelectionFields
  <2> HIDE DEF usable
  <2>6. \A n \in Names : ~IsUsable(n, s.type, s.required)
    BY <1>2, <1>4, <2>5
  <2>7. s.primary = Nothing /\ s.error /\ AdaptersFor(s.type) = {}
    BY <1>4, <2>5
  <2> QED
    BY <2>6, <2>7, Zenon DEF Follows
<1>5. CASE usable = {} /\ candidates # {}
  <2> DEFINE best == First(candidates)
  <2>1. s =
           Selection(type, required, Nothing, best, MissingCapabilities(best, required))
    BY <1>5 DEF Selected
  <2>2. best \in candidates /\ best \in Names /\ best # Nothing
    BY <1>1, <1>5, FirstIsBefore, BackendAssumption
  <2>3. \/ MissingCapabilities(best, required) # {}
        \/ health[best] \in {"unavailable", "disabled"}
    <3>1. ~Usable(best, required)
      BY <1>5, <2>2
    <3> QED
      BY <2>2, <3>1, BackendAssumption DEF Usable, Unhealthy, TypeOK, Statuses
  <2>5. /\ s.type = type /\ s.required = required
        /\ s.primary = Nothing /\ s.missing = MissingCapabilities(best, required)
        /\ s.health = health[best]
        /\ s.error <=> Nothing = Nothing
    BY <2>1, SelectionFields, <2>2
  <2> HIDE DEF best, usable
  <2>6. \A n \in Names : ~IsUsable(n, s.type, s.required)
    BY <1>2, <1>5, <2>5
  <2>7. /\ s.primary = Nothing /\ s.error
        /\ s.missing # {} \/ s.health \in {"unavailable", "disabled"}
    BY <2>3, <2>5
  <2> QED
    BY <2>6, <2>7, Zenon DEF Follows
<1> QED
  BY <1>3, <1>4, <1>5

(* A selection agrees with what is registered and what was last reported,  *)
(* as long as neither has changed (BackendAdapterRegistry.select).         *)
THEOREM SelectionsFollow == Spec => []SelectionsFollowReports
<1> DEFINE Inv == selection # Nothing => Follows(selection)
<1>1. Init => Inv
  BY DEF Init
<1>2. TypeOK /\ Inv /\ [Next]_vars => Inv'
  <2> SUFFICES ASSUME TypeOK, Inv, [Next]_vars, selection' # Nothing
               PROVE  Follows(selection)'
    OBVIOUS
  <2>1. ASSUME NEW type, NEW required, Select(type, required)
        PROVE  Follows(selection)'
    <3>1. Follows(Selected(type, required))
      BY SelectedFollows
    <3> QED
      BY <2>1, <3>1 DEF Select, Follows, IsUsable, IsBefore, AdaptersFor
  <2>2. CASE UNCHANGED <<adapters, health, selection>>
    BY <2>2 DEF Follows, IsUsable, IsBefore, AdaptersFor
  <2>3. \/ \E type, required : Select(type, required)
        \/ UNCHANGED <<adapters, health, selection>>
    BY DEF Next, RegistryCall, Register, RecordHealth, ServiceCall, LocalCall, Stop, vars,
           Unavailable, GraphUnavailable, NotReached, NoPoints, UpsertDone, UpsertRaises,
           SearchDone, SearchBlank, MergeDone, MergeRaises, NoGraph, Traverse, IndexLocally,
           SearchLocally, LateUpsert, EditPolicy, Returns
  <2> QED
    BY <2>1, <2>2, <2>3
<1>3. Inv => SelectionsFollowReports
  BY DEF Follows, IsUsable, IsBefore, SelectionsFollowReports
<1> QED
  BY <1>1, <1>2, <1>3, TypeCorrect, PTL DEF Spec

(***************************************************************************)
(* What a search shows                                                     *)
(***************************************************************************)

\* A point holds what was acknowledged last or what is in doubt, an
\* acknowledged chunk has a point, and what may still come is in doubt.
Accounted ==
    /\ \A c \in Chunks : points[c] # Nothing => points[c] \in {acked[c]} \cup doubt[c]
    /\ \A c \in Chunks : acked[c] # Nothing => points[c] # Nothing
    /\ \A request \in late : \A c \in DOMAIN request : request[c] \in doubt[c]

\* It holds after an upsert that was acknowledged (index_chunks).
LEMMA DoneAccounted ==
    ASSUME TypeOK, Accounted, NEW chunks \in SUBSET Chunks, UpsertDone(chunks)
    PROVE  Accounted'
<1> DEFINE request == Points(chunks)
<1>1. /\ DOMAIN request = chunks \ Wordless
      /\ request \in [DOMAIN request -> Nat]
      /\ \A c \in DOMAIN request : request[c] = policy[c] /\ policy[c] \in Nat
  BY PointsType DEF TypeOK
<1> HIDE DEF request
<1>2. \A c \in Chunks : points'[c] = IF c \in chunks \ Wordless THEN policy[c] ELSE points[c]
  <2>1. points \in [Chunks -> Payload] /\ DOMAIN request \subseteq Chunks
    BY <1>1 DEF TypeOK
  <2>2. \A c \in Chunks : Upserted(points, request)[c] =
                             IF c \in DOMAIN request THEN request[c] ELSE points[c]
    BY <1>1, <2>1, UpsertedType
  <2>3. points' = Upserted(points, request)
    BY DEF UpsertDone, request
  <2> QED
    BY <1>1, <2>2, <2>3
<1>3. \A c \in Chunks : acked'[c] = IF c \in chunks \ Wordless THEN policy[c] ELSE acked[c]
  BY DEF UpsertDone
<1>4. \A c \in Chunks : doubt'[c] = IF c \in chunks \ Wordless
                                    THEN {r[c] : r \in {r \in late : c \in DOMAIN r}}
                                    ELSE doubt[c]
  BY DEF UpsertDone
<1>5. late' = late /\ \A r \in late : DOMAIN r \subseteq Chunks
  BY DEF UpsertDone, TypeOK
<1>6. \A c \in Chunks : points'[c] # Nothing => points'[c] \in {acked'[c]} \cup doubt'[c]
  BY <1>2, <1>3, <1>4 DEF Accounted
<1>7. \A c \in Chunks : acked'[c] # Nothing => points'[c] # Nothing
  BY <1>2, <1>3 DEF Accounted
<1>8. \A r \in late' : \A c \in DOMAIN r : r[c] \in doubt'[c]
  BY <1>4, <1>5 DEF Accounted
<1> QED
  BY <1>6, <1>7, <1>8 DEF Accounted

\* And after one that raised, whatever the service made of it.
LEMMA RaisesAccounted ==
    ASSUME TypeOK, Accounted, NEW chunks \in SUBSET Chunks, UpsertRaises(chunks)
    PROVE  Accounted'
<1> DEFINE request == Points(chunks)
<1>1. /\ DOMAIN request = chunks \ Wordless
      /\ request \in [DOMAIN request -> Nat]
      /\ \A c \in DOMAIN request : request[c] = policy[c] /\ policy[c] \in Nat
  BY PointsType DEF TypeOK
<1> HIDE DEF request
<1>2. \A c \in Chunks : doubt'[c] = IF c \in chunks \ Wordless THEN doubt[c] \cup {policy[c]}
                                    ELSE doubt[c]
  BY DEF UpsertRaises
<1>3. \A c \in Chunks : \/ points'[c] = points[c]
                        \/ c \in chunks \ Wordless /\ points'[c] = policy[c]
  <2>1. \A c \in Chunks : Upserted(points, request)[c] =
                             IF c \in DOMAIN request THEN request[c] ELSE points[c]
    BY <1>1, UpsertedType DEF TypeOK
  <2>2. points' = points \/ points' = Upserted(points, request)
    BY DEF UpsertRaises, request
  <2> QED
    BY <1>1, <2>1, <2>2
<1>4. acked' = acked /\ late' \subseteq late \cup {request}
  BY DEF UpsertRaises, request
<1>5. \A c \in Chunks : points'[c] # Nothing => points'[c] \in {acked'[c]} \cup doubt'[c]
  BY <1>2, <1>3, <1>4 DEF Accounted
<1>6. \A c \in Chunks : acked'[c] # Nothing => points'[c] # Nothing
  BY <1>1, <1>3, <1>4, BackendAssumption DEF Accounted
<1>7. \A r \in late' : \A c \in DOMAIN r : r[c] \in doubt'[c]
  <2>1. \A r \in late : DOMAIN r \subseteq Chunks /\ \A c \in DOMAIN r : r[c] \in doubt[c]
    BY DEF Accounted, TypeOK
  <2> QED
    BY <1>1, <1>2, <1>4, <2>1
<1> QED
  BY <1>5, <1>6, <1>7 DEF Accounted

\* And after a late upsert.
LEMMA LateAccounted ==
    ASSUME TypeOK, Accounted, LateUpsert
    PROVE  Accounted'
<1>1. PICK request \in late : points' = Upserted(points, request) /\ late' = late \ {request}
  BY DEF LateUpsert
<1>2. /\ DOMAIN request \subseteq Chunks
      /\ request \in [DOMAIN request -> Nat]
      /\ \A c \in DOMAIN request : request[c] \in Nat /\ request[c] \in doubt[c]
  BY DEF Accounted, TypeOK
<1>3. \A c \in Chunks : points'[c] = IF c \in DOMAIN request THEN request[c] ELSE points[c]
  BY <1>1, <1>2, UpsertedType DEF TypeOK
<1>4. UNCHANGED <<acked, doubt>>
  BY DEF LateUpsert
<1> QED
  BY <1>1, <1>2, <1>3, <1>4, BackendAssumption DEF Accounted

\* What a search has just shown is accounted for.
LEMMA SearchAccounted ==
    ASSUME TypeOK, Accounted, NEW k \in TopKs, SearchDone(k)
    PROVE  CandidatesAreAccounted'
<1>1. PICK hits \in SUBSET Held :
         /\ IF k < 0 THEN hits = {}
            ELSE Cardinality(hits) <= k /\ (Cardinality(hits) < k => hits = Held)
         /\ result' = Done("search", k, [c \in hits |-> points[c]])
  BY DEF SearchDone, Returns
<1>2. /\ result'.op = "search" /\ result'.asked = k
      /\ result'.candidates = [c \in hits |-> points[c]]
  BY <1>1 DEF Done, Result
<1>3. DOMAIN result'.candidates = hits /\ \A c \in hits : result'.candidates[c] = points[c]
  BY <1>2
<1>4. UNCHANGED <<acked, doubt>>
  BY DEF SearchDone
<1>5. \A c \in hits : points[c] \in {acked[c]} \cup doubt[c]
  BY DEF Accounted, Held
<1>6. Cardinality(hits) < k => \A c \in Chunks : acked[c] # Nothing => c \in hits
  <2>1. CASE k < 0
    <3>1. Cardinality({}) = 0
      BY FS_EmptySet, Zenon
    <3>2. Cardinality(hits) = 0 /\ k \in Int
      BY <1>1, <2>1, <3>1, BackendAssumption
    <3> QED BY <2>1, <3>2
  <2>2. CASE ~(k < 0)
    BY <1>1, <2>2 DEF Accounted, Held
  <2> QED BY <2>1, <2>2
<1> QED
  BY <1>2, <1>3, <1>4, <1>5, <1>6 DEF CandidatesAreAccounted

(* Whatever the service loses, delays or carries out unanswered, a search  *)
(* shows of each chunk what was acknowledged last or what is in doubt, and *)
(* shows each acknowledged chunk if it does not have to cut                *)
(* (QdrantVectorBackendAdapter.index_chunks and search).                   *)
THEOREM CandidatesAccounted == Spec => []CandidatesAreAccounted
<1> DEFINE Inv == Accounted /\ CandidatesAreAccounted
<1>1. Init => Inv
  BY DEF Init, Accounted, CandidatesAreAccounted
<1>2. TypeOK /\ Inv /\ [Next]_vars => Inv'
  <2> SUFFICES ASSUME TypeOK, Inv, [Next]_vars PROVE Inv'
    OBVIOUS
  <2> DEFINE Other == /\ UNCHANGED <<points, late, doubt, acked>>
                      /\ \/ result' = result
                         \/ result'.op # "search" \/ ~result'.ok
                         \/ result' = Done("search", 0, <<>>)
  <2>1. ASSUME NEW chunks \in SUBSET Chunks, UpsertDone(chunks) PROVE Inv'
    <3>1. result'.op = "index"
      BY <2>1 DEF UpsertDone, Returns, Done, Result
    <3> QED
      BY <2>1, <3>1, DoneAccounted DEF CandidatesAreAccounted
  <2>2. ASSUME NEW chunks \in SUBSET Chunks, UpsertRaises(chunks) PROVE Inv'
    <3>1. result'.op = "index"
      BY <2>2 DEF UpsertRaises, Returns, Failed, Result
    <3> QED
      BY <2>2, <3>1, RaisesAccounted DEF CandidatesAreAccounted
  <2>3. CASE LateUpsert
    <3>1. UNCHANGED <<result, acked, doubt>>
      BY <2>3 DEF LateUpsert
    <3> QED
      BY <2>3, <3>1, LateAccounted DEF CandidatesAreAccounted
  <2>4. ASSUME NEW k \in TopKs, SearchDone(k) PROVE Inv'
    <3>1. Accounted'
      BY <2>4 DEF SearchDone, Accounted
    <3> QED
      BY <2>4, <3>1, SearchAccounted
  <2>5. CASE Other
    <3>1. Accounted'
      BY <2>5 DEF Accounted
    <3>2. CASE result' = result
      BY <2>5, <3>1, <3>2 DEF CandidatesAreAccounted
    <3>3. CASE result'.op # "search" \/ ~result'.ok
      BY <3>1, <3>3 DEF CandidatesAreAccounted
    <3>4. CASE result' = Done("search", 0, <<>>)
      <4>1. result'.asked = 0 /\ DOMAIN result'.candidates = {}
        BY <3>4 DEF Done, Result
      <4>2. Cardinality({}) = 0
        BY FS_EmptySet, Zenon
      <4> QED
        BY <3>1, <4>1, <4>2 DEF CandidatesAreAccounted
    <3> QED
      BY <2>5, <3>1, <3>2, <3>3, <3>4
  <2>6. ASSUME NEW op, NotReached(op) PROVE Other
    BY <2>6 DEF NotReached, Returns, Failed, Result
  <2>7. ASSUME NEW chunks \in SUBSET Chunks, NoPoints(chunks) \/ IndexLocally(chunks)
        PROVE  Other
    BY <2>7 DEF NoPoints, IndexLocally, Returns, Done, Failed, Result
  <2>8. ASSUME SearchBlank PROVE Other
    BY <2>8 DEF SearchBlank, Returns
  <2>9. ASSUME NEW k, SearchLocally(k) PROVE Other
    <3>1. PICK hits : result' = Done("search locally", k, [c \in hits |-> Nothing])
      BY <2>9 DEF SearchLocally, Returns
    <3>2. result'.op = "search locally"
      BY <3>1 DEF Done, Result
    <3> QED
      BY <2>9, <3>2 DEF SearchLocally
  <2>10. ASSUME NEW entities, MergeDone(entities) \/ MergeRaises(entities) PROVE Other
    BY <2>10 DEF MergeDone, MergeRaises, Returns, Done, Failed, Result
  <2>11. ASSUME NoGraph PROVE Other
    BY <2>11 DEF NoGraph, Returns, Failed, Result
  <2>12. ASSUME NEW query, Traverse(query) PROVE Other
    BY <2>12 DEF Traverse, Returns, Done, Result
  <2>13. ASSUME RegistryCall \/ (\E c \in Chunks : EditPolicy(c)) \/ UNCHANGED vars PROVE Other
    BY <2>13 DEF RegistryCall, Register, RecordHealth, Select, EditPolicy, vars
  <2> HIDE DEF Other, Inv
  <2> QED
    BY <2>1, <2>2, <2>3, <2>4, <2>5, <2>6, <2>7, <2>8, <2>9, <2>10, <2>11, <2>12, <2>13
    DEF Next, ServiceCall, LocalCall, Unavailable, GraphUnavailable, Stop
<1> QED
  BY <1>1, <1>2, TypeCorrect, PTL DEF Spec

(***************************************************************************)
(* What a call leaves behind                                               *)
(***************************************************************************)

\* What FailuresTellWhatTheyLeft says of one step.
Tells ==
    /\ ~result'.ok /\ ~result'.retryable => UNCHANGED services
    /\ \A c \in Chunks :
          IF result'.op # "index" \/ c \notin result'.asked \ Wordless
          THEN points'[c] = points[c]
          ELSE IF result'.ok THEN points'[c] = policy[c]
          ELSE points'[c] \in {points[c], policy[c]}

\* An upsert that returns tells what it left (index_chunks).
LEMMA UpsertTells ==
    ASSUME TypeOK, NEW chunks \in SUBSET Chunks, UpsertDone(chunks) \/ UpsertRaises(chunks)
    PROVE  Tells
<1> DEFINE request == Points(chunks)
<1>1. /\ DOMAIN request = chunks \ Wordless
      /\ request \in [DOMAIN request -> Nat]
      /\ \A c \in DOMAIN request : request[c] = policy[c]
  BY PointsType
<1>2. \A c \in Chunks : Upserted(points, request)[c] =
                           IF c \in chunks \ Wordless THEN policy[c] ELSE points[c]
  <2> HIDE DEF request
  <2>1. \A c \in Chunks : Upserted(points, request)[c] =
                             IF c \in DOMAIN request THEN request[c] ELSE points[c]
    BY <1>1, UpsertedType DEF TypeOK
  <2> QED
    BY <1>1, <2>1
<1>3. CASE UpsertDone(chunks)
  <2>1. /\ result' = Done("index", chunks, <<>>)
        /\ points' = Upserted(points, request)
    BY <1>3 DEF UpsertDone, Returns
  <2>2. result'.op = "index" /\ result'.ok = TRUE /\ result'.asked = chunks
    BY <2>1 DEF Done, Result
  <2> HIDE DEF request
  <2> QED
    BY <1>2, <2>1, <2>2 DEF Tells
<1>4. CASE UpsertRaises(chunks)
  <2>1. /\ result' = Failed("index", TRUE, chunks)
        /\ points' = points \/ points' = Upserted(points, request)
    BY <1>4 DEF UpsertRaises, Returns
  <2>2. /\ result'.op = "index" /\ result'.ok = FALSE /\ result'.retryable = TRUE
        /\ result'.asked = chunks
    BY <2>1 DEF Failed, Result
  <2> HIDE DEF request
  <2> QED
    BY <1>2, <2>1, <2>2 DEF Tells
<1> QED
  BY <1>3, <1>4

\* So does every other call of an adapter: it leaves the points alone.
LEMMA OthersTell ==
    ASSUME UNCHANGED points,
           result'.op # "index" \/ result'.asked \subseteq Wordless,
           ~result'.ok /\ ~result'.retryable => UNCHANGED services
    PROVE  Tells
  BY DEF Tells

(* A call that failed for good has changed nothing, one that may be tried  *)
(* again has left each point as it was or as it was handed in, and one     *)
(* that is ok has written every point (the adapters' indexing methods).    *)
THEOREM FailuresTell == Spec => FailuresTellWhatTheyLeft
<1> DEFINE Step == calls' # calls /\ result' # result => Tells
<1>1. TypeOK /\ [Next]_vars => Step
  <2> SUFFICES ASSUME TypeOK, [Next]_vars, calls' # calls, result' # result PROVE Tells
    OBVIOUS
  <2>1. ASSUME NEW op, NotReached(op) PROVE Tells
    <3>1. result' = Failed(op, TRUE, {}) /\ UNCHANGED points
      BY <2>1 DEF NotReached, Returns
    <3>2. result'.retryable = TRUE /\ result'.asked = {}
      BY <3>1 DEF Failed, Result
    <3> QED
      BY <3>1, <3>2, OthersTell
  <2>2. ASSUME NEW chunks \in SUBSET Chunks, NoPoints(chunks) PROVE Tells
    <3>1. result'.asked = chunks
      BY <2>2 DEF NoPoints, Returns, Failed, Result
    <3> QED
      BY <2>2, <3>1, OthersTell DEF NoPoints, services
  <2>3. ASSUME NEW chunks \in SUBSET Chunks, IndexLocally(chunks) PROVE Tells
    <3>1. CASE chunks = {} \/ ~(chunks \subseteq Wordless)
      <4>1. result'.op = "local" /\ result'.ok = TRUE
        BY <2>3, <3>1 DEF IndexLocally, Returns, Done, Result
      <4> QED
        BY <2>3, <4>1, OthersTell DEF IndexLocally
    <3>2. CASE chunks # {} /\ chunks \subseteq Wordless
      <4>1. result'.op = "local"
        BY <2>3 DEF IndexLocally, Returns, Done, Failed, Result
      <4>2. UNCHANGED services
        BY <2>3, <3>2 DEF IndexLocally, services
      <4> QED
        BY <4>1, <4>2, OthersTell DEF services
    <3> QED
      BY <3>1, <3>2
  <2>4. ASSUME NEW k, SearchDone(k) \/ SearchLocally(k) PROVE Tells
    <3>1. UNCHANGED services
      BY <2>4 DEF SearchDone, SearchLocally, services
    <3>2. result'.op \in {"search", "search locally"}
      <4>1. CASE SearchDone(k)
        <5>1. PICK found : result' = Done("search", k, found)
          BY <4>1 DEF SearchDone, Returns
        <5> QED
          BY <5>1 DEF Done, Result
      <4>2. CASE SearchLocally(k)
        <5>1. PICK found : result' = Done("search locally", k, found)
          BY <4>2 DEF SearchLocally, Returns
        <5> QED
          BY <5>1 DEF Done, Result
      <4> QED
        BY <2>4, <4>1, <4>2
    <3> QED
      BY <3>1, <3>2, OthersTell DEF services
  <2>5. ASSUME SearchBlank \/ NoGraph \/ (\E query \in Entities : Traverse(query)) PROVE Tells
    <3>1. UNCHANGED services
      BY <2>5 DEF SearchBlank, NoGraph, Traverse, services
    <3>2. CASE SearchBlank
      <4>1. result'.op = "search"
        BY <3>2 DEF SearchBlank, Returns, Done, Result
      <4> QED
        BY <3>1, <4>1, OthersTell DEF services
    <3>3. CASE NoGraph
      <4>1. result'.op = "graph"
        BY <3>3 DEF NoGraph, Returns, Failed, Result
      <4> QED
        BY <3>1, <4>1, OthersTell DEF services
    <3>4. CASE \E query \in Entities : Traverse(query)
      <4>1. PICK query, found : result' = Done("traverse", query, found)
        BY <3>4 DEF Traverse, Returns
      <4>2. result'.op = "traverse"
        BY <4>1 DEF Done, Result
      <4> QED
        BY <3>1, <4>2, OthersTell DEF services
    <3> QED
      BY <2>5, <3>2, <3>3, <3>4
  <2>6. ASSUME NEW entities, MergeDone(entities) \/ MergeRaises(entities) PROVE Tells
    <3>1. result'.op = "graph" /\ (result'.ok = TRUE \/ result'.retryable = TRUE)
      BY <2>6 DEF MergeDone, MergeRaises, Returns, Done, Failed, Result
    <3> QED
      BY <2>6, <3>1, OthersTell DEF MergeDone, MergeRaises
  <2>7. ~(RegistryCall \/ LateUpsert \/ (\E c \in Chunks : EditPolicy(c)) \/ UNCHANGED vars)
    BY DEF RegistryCall, Register, RecordHealth, Select, LateUpsert, EditPolicy, vars
  <2> HIDE DEF Tells
  <2> QED
    BY <2>1, <2>2, <2>3, <2>4, <2>5, <2>6, <2>7, UpsertTells
    DEF Next, ServiceCall, LocalCall, Unavailable, GraphUnavailable, Stop
<1>2. TypeOK /\ [Next]_vars => [calls' # calls /\ result' # result => Tells]_vars
  BY <1>1
<1>3. Spec => [][calls' # calls /\ result' # result => Tells]_vars
  BY <1>2, TypeCorrect, PTL DEF Spec
<1> QED
  BY <1>3 DEF FailuresTellWhatTheyLeft, Tells
=============================================================================

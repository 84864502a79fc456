--------------------------- MODULE EvidenceSearch ---------------------------
(* One retrieval, as _execute_plan_retrieval and select_ranked_evidence run  *)
(* it: the traversal of relations from the entities a query names, or the    *)
(* keyword and the vector index; the cut and the access filter; the merge of *)
(* the hits by chunk; their ranking and the quota of each source.            *)
(* (retrieval/execution.py, retrieval/indexing.py, ranking/__init__.py.)     *)
(*                                                                           *)
(* PlannedQuery takes one step for all of this and assumes what it returns:  *)
(* AnswersThePlan states that assumption.                                    *)
EXTENDS Integers, FiniteSets, Sequences

CONSTANTS
    Chunks,        \* numbers, whose order is that of the chunk ids
    Entities,
    Relations,     \* numbers, whose order is that of the relation ids
    From, To,      \* the two ends of a relation
    Evidence,      \* the chunks a relation was extracted from
    Confidence,    \* of a relation, in twentieths: 1 is the cost of a hop
    SourceOf,
    Trust,         \* reliability and freshness of a chunk, weighted
    Names,         \* the sets of entities a query may name
    Graphs,        \* the sets of relations there may be
    KeywordAnswers, VectorAnswers,   \* what a text index may score each chunk
    Relevances,    \* what a reranker, or the overlap of words, may say
    Depths, TopKs, Quotas,
    Unit,          \* a score of 1.0
    NoHit

ASSUME GraphAssumption ==
    /\ Chunks \subseteq Nat /\ Relations \subseteq Nat
    /\ IsFiniteSet(Chunks) /\ IsFiniteSet(Relations)
    /\ From \in [Relations -> Entities] /\ To \in [Relations -> Entities]
    /\ Evidence \in [Relations -> SUBSET Chunks]
    /\ Confidence \in [Relations -> Nat]
    /\ Names \subseteq SUBSET Entities /\ Graphs \subseteq SUBSET Relations

ASSUME ScoresAssumption ==
    /\ KeywordAnswers \subseteq [Chunks -> (Nat \ {0}) \cup {NoHit}]
    /\ VectorAnswers \subseteq [Chunks -> Int \cup {NoHit}]
    /\ Relevances \subseteq 0..Unit /\ 0 \in Relevances
    /\ Trust \in [Chunks -> Nat]
    /\ Unit \in Nat \ {0}

ASSUME BudgetAssumption == Depths \subseteq Int /\ TopKs \subseteq Nat /\ Quotas \subseteq Int

ASSUME NoHitAssumption == NoHit \notin Int

Modes == {"graph", "keyword", "vector"}
SelectedModes == {{"keyword"}, {"hybrid"}, {"graph", "hybrid"}}

\* A hit of a search, with the relations that led to it.
Hit == [mode : Modes, chunk : Chunks, relations : SUBSET Relations, score : Int, normal : 0..Unit]

VARIABLES
    plan,       \* modes, top_k and the query's part in them; fixed
    visible,    \* the chunks whose access the filter grants; fixed
    phase,
    depth, frontier, visited, distance,   \* the traversal
    given,      \* what the filter let through, normalised: what is merged
    pending,    \* what of it is still to merge
    merged,     \* by chunk
    modesOf,    \* the modes that found a chunk
    hits,       \* history: the chunks any search returned
    results,    \* what retrieval returned
    scored,     \* what the ranking has scored, in its order
    failed,     \* the reranker raised
    chosen, deferred

search == <<depth, frontier, visited, distance>>
merging == <<given, pending, merged, modesOf, hits, results>>
ranking == <<scored, failed, chosen, deferred>>
vars == <<plan, visible, phase, search, merging, ranking>>

Least(a, b) == IF a <= b THEN a ELSE b
Most(a, b) == IF a >= b THEN a ELSE b
HighestOf(S) == CHOOSE n \in S : \A m \in S : m <= n
LowestOf(S) == CHOOSE n \in S : \A m \in S : n <= m

(***************************************************************************)
(* The traversal                                                           *)
(***************************************************************************)

Ends(r) == {From[r], To[r]}

\* relation_ids_by_entity_id: KnowledgeIndex!IndexesAreWhole says it is this.
RelationsOf(e) == {r \in plan.relations : e \in Ends(r)}

Touched == UNION {RelationsOf(e) : e \in frontier}

Reached == (UNION {Ends(r) : r \in Touched}) \ visited

\* A relation keeps the distance of the round that met it first.
Distances(known) ==
    [r \in DOMAIN known \cup Touched |-> IF r \in DOMAIN known THEN known[r] ELSE depth]

\* Wrong: max_depth rounds.
LastRoundShort(max) == Most(max, 0) - 1

LastRound(max) == Most(max, 0)

TraverseRound ==
    /\ phase = "traverse"
    /\ distance' = Distances(distance)
    /\ visited' = visited \cup Reached
    /\ frontier' = Reached
    /\ depth' = depth + 1
    /\ phase' = IF Reached = {} \/ depth = LastRound(plan.depth) THEN "graph" ELSE "traverse"
    /\ UNCHANGED <<plan, visible, merging, ranking>>

\* One hit for each chunk a relation has as evidence; a relation of the query's
\* own entities scores two twentieths more.
GraphHits ==
    {[mode |-> "graph", chunk |-> pair[2], relations |-> {pair[1]}, normal |-> 0,
      score |-> Confidence[pair[1]] + (IF Ends(pair[1]) \cap plan.seeds # {} THEN 2 ELSE 0)
                - distance[pair[1]]] :
        pair \in {p \in (DOMAIN distance) \X Chunks : p[2] \in Evidence[p[1]]}}

(***************************************************************************)
(* The cut, the filter and the merge                                       *)
(***************************************************************************)

\* The order of the hits of one search.
Outscores(a, b) ==
    \/ a.score > b.score
    \/ a.score = b.score /\ IF a.mode = "graph"
                               THEN \/ a.chunk > b.chunk
                                    \/ a.chunk = b.chunk
                                       /\ \E r \in a.relations : \A other \in b.relations : r > other
                               ELSE a.chunk < b.chunk

TopOf(found, k) ==
    {h \in found : Cardinality({better \in found : Outscores(better, h)}) < k}

\* Wrong: in proportion to the best score, which supposes that none is negative.
NormalisedByBest(found) ==
    LET best == HighestOf({h.score : h \in found})
    IN  {[h EXCEPT !.normal = IF best <= 0 THEN 0 ELSE (h.score * Unit) \div best] : h \in found}

\* Scores of one mode stretched to 0..Unit, rounded; alike scores are all 1 or 0.
Normalised(found) ==
    LET all == {h.score : h \in found}
        low == LowestOf(all)
        span == HighestOf(all) - low
        norm(score) ==
            IF span = 0 THEN IF score > 0 THEN Unit ELSE 0
            ELSE ((score - low) * Unit + span \div 2) \div span
    IN  {[h EXCEPT !.normal = norm(h.score)] : h \in found}

Nothing == [c \in {} |-> NoHit]

ThroughFilter(found) == {h \in found : h.chunk \in visible}

\* The hits of one search, or of the two text searches, cut and let through.
BeginMerge(found) ==
    LET byMode == [m \in Modes |-> TopOf({h \in found : h.mode = m}, plan.topK)]
        granted == [m \in Modes |-> ThroughFilter(byMode[m])]
    IN  /\ given' = UNION {Normalised(granted[m]) : m \in Modes}
        /\ pending' = UNION {Normalised(granted[m]) : m \in Modes}
        /\ hits' = hits \cup {h.chunk : h \in UNION {byMode[m] : m \in Modes}}
        /\ merged' = Nothing
        /\ modesOf' = [c \in Chunks |-> {}]
        /\ UNCHANGED results

GraphSearch ==
    /\ phase = "graph"
    /\ BeginMerge(GraphHits)
    /\ phase' = "merge graph"
    /\ UNCHANGED <<plan, visible, search, ranking>>

\* What the indexes make of the query: a score for each chunk they find.
TextHits(mode, score) ==
    {[mode |-> mode, chunk |-> c, relations |-> {}, score |-> score[c], normal |-> 0] :
        c \in {c \in Chunks : score[c] # NoHit}}

NoAnswer == [c \in Chunks |-> NoHit]

TextSearch ==
    /\ phase = "text"
    /\ \E keyword \in KeywordAnswers,
          vector \in IF "hybrid" \in plan.modes THEN VectorAnswers ELSE {NoAnswer} :
          BeginMerge(TextHits("keyword", keyword) \cup TextHits("vector", vector))
    /\ phase' = "merge text"
    /\ UNCHANGED <<plan, visible, search, ranking>>

\* Hits are merged search by search, the best first.
MergedBefore(a, b) ==
    \/ a.mode = "keyword" /\ b.mode = "vector"
    \/ a.mode = b.mode /\ Outscores(a, b)

\* Wrong: the later of two hits replaces the earlier.
KeepLast(current, hit) == [hit EXCEPT !.relations = @ \cup current.relations]

\* What is kept of two hits for one chunk.
KeepBetter(current, hit) ==
    IF hit.normal > current.normal
       THEN [hit EXCEPT !.relations = @ \cup current.relations]
       ELSE [current EXCEPT !.score = Most(@, hit.score), !.relations = @ \cup hit.relations]

MergeOne ==
    /\ phase \in {"merge graph", "merge text"}
    /\ \E h \in pending :
          /\ \A other \in pending \ {h} : MergedBefore(h, other)
          /\ merged' = [c \in DOMAIN merged \cup {h.chunk} |->
                           IF c # h.chunk THEN merged[c]
                           ELSE IF c \in DOMAIN merged THEN KeepBetter(merged[c], h) ELSE h]
          /\ modesOf' = [modesOf EXCEPT ![h.chunk] = @ \cup {h.mode}]
          /\ pending' = pending \ {h}
    /\ UNCHANGED <<plan, visible, phase, search, given, hits, results, ranking>>

\* The order of what was merged.
Precedes(a, b) ==
    \/ a.normal > b.normal
    \/ a.normal = b.normal /\ a.score > b.score
    \/ a.normal = b.normal /\ a.score = b.score /\ a.chunk > b.chunk

MergedHits == {merged[c] : c \in DOMAIN merged}

BestMerged(k) ==
    {h \in MergedHits : Cardinality({better \in MergedHits : Precedes(better, h)}) < k}

\* A graph search that comes to nothing is followed by the text search.
EndMerge ==
    /\ phase \in {"merge graph", "merge text"}
    /\ pending = {}
    /\ results' = BestMerged(plan.topK)
    /\ phase' = IF phase = "merge graph" /\ MergedHits = {} THEN "text" ELSE "score"
    /\ UNCHANGED <<plan, visible, search, given, pending, merged, modesOf, hits, ranking>>

(***************************************************************************)
(* The ranking. Retrieval returns one hit a chunk, each with a normalised  *)
(* score: its deduplication and its own normalisation find nothing to do.  *)
(***************************************************************************)

Scored == [hit : Hit, score : Nat]

\* In hundredths of Unit: 55 of relevance, 25 of retrieval, the rest of trust.
Weighted(h, relevance) == [hit |-> h, score |-> 55 * relevance + 25 * h.normal + Trust[h.chunk]]

Unscored == results \ {s.hit : s \in scored}

ScoreOne ==
    /\ phase = "score"
    /\ \E h \in Unscored, relevance \in Relevances :
          /\ \A other \in Unscored \ {h} : Precedes(h, other)
          /\ scored' = scored \cup {Weighted(h, relevance)}
    /\ UNCHANGED <<plan, visible, phase, search, merging, failed, chosen, deferred>>

\* Wrong: the scores there are stay, the fallback fills in the rest.
FallbackForRest(hs) ==
    scored \cup {[hit |-> h, score |-> 100 * h.normal] : h \in Unscored}

\* Retrieval scores for all.
FallbackScores(hs) == {[hit |-> h, score |-> 100 * h.normal] : h \in hs}

RerankerRaises ==
    /\ phase = "score"
    /\ scored' = FallbackScores(results)
    /\ failed' = TRUE
    /\ phase' = "select"
    /\ UNCHANGED <<plan, visible, search, merging, chosen, deferred>>

EndScoring ==
    /\ phase = "score"
    /\ Unscored = {}
    /\ phase' = "select"
    /\ UNCHANGED <<plan, visible, search, merging, ranking>>

InSequence(seq) == {seq[i] : i \in DOMAIN seq}
Remaining == scored \ (InSequence(chosen) \cup InSequence(deferred))

RankedBefore(a, b) ==
    \/ a.score > b.score
    \/ a.score = b.score /\ a.hit.normal > b.hit.normal

OfSource(seq, source) == {i \in DOMAIN seq : SourceOf[seq[i].hit.chunk] = source}

\* Wrong: one more than the quota.
OverQuotaLate(source) == plan.quota > 0 /\ Cardinality(OfSource(chosen, source)) > plan.quota

OverQuota(source) == plan.quota > 0 /\ Cardinality(OfSource(chosen, source)) >= plan.quota

\* Equal scores are ordered by the evidence id, which is random.
SelectOne ==
    /\ phase = "select"
    /\ \E s \in Remaining :
          /\ \A other \in Remaining : ~ RankedBefore(other, s)
          /\ IF OverQuota(SourceOf[s.hit.chunk])
                THEN deferred' = Append(deferred, s) /\ UNCHANGED chosen
                ELSE chosen' = Append(chosen, s) /\ UNCHANGED deferred
    /\ UNCHANGED <<plan, visible, phase, search, merging, scored, failed>>

EndSelection ==
    /\ phase = "select"
    /\ Remaining = {}
    /\ phase' = "done"
    /\ UNCHANGED <<plan, visible, search, merging, ranking>>

\* Wrong: what is over the quota is left out.
ChosenOnly == SubSeq(chosen, 1, Least(plan.topK, Len(chosen)))

\* What is returned, in order.
Selection == SubSeq(chosen \o deferred, 1, Least(plan.topK, Len(chosen \o deferred)))

Done == phase = "done" /\ UNCHANGED vars

Plans == [modes : SelectedModes, seeds : Names \cup {{}}, relations : Graphs \cup {{}},
          depth : Depths, topK : TopKs, quota : Quotas]

\* Without the graph among its modes a plan has no use for seeds or relations.
Init ==
    /\ plan \in Plans
    /\ ("graph" \notin plan.modes) =>
          plan.seeds = {} /\ plan.relations = {} /\ \A n \in Depths : plan.depth <= n
    /\ visible \in SUBSET Chunks
    /\ phase = IF "graph" \notin plan.modes THEN "text"
               ELSE IF plan.seeds = {} \/ plan.relations = {} THEN "graph" ELSE "traverse"
    /\ depth = 0 /\ frontier = plan.seeds /\ visited = plan.seeds /\ distance = Nothing
    /\ given = {} /\ pending = {} /\ merged = Nothing /\ modesOf = [c \in Chunks |-> {}]
    /\ hits = {} /\ results = {}
    /\ scored = {} /\ failed = FALSE /\ chosen = <<>> /\ deferred = <<>>

Next ==
    \/ TraverseRound \/ GraphSearch \/ TextSearch \/ MergeOne \/ EndMerge
    \/ ScoreOne \/ RerankerRaises \/ EndScoring \/ SelectOne \/ EndSelection
    \/ Done

Spec == Init /\ [][Next]_vars

(***************************************************************************)
(* Properties                                                              *)
(***************************************************************************)

Hits(S) == \A h \in S : h \in Hit

TypeOK ==
    /\ plan \in Plans /\ visible \in SUBSET Chunks
    /\ phase \in {"traverse", "graph", "text", "merge graph", "merge text", "score", "select", "done"}
    /\ depth \in Nat /\ frontier \in SUBSET Entities /\ visited \in SUBSET Entities
    /\ DOMAIN distance \subseteq Relations /\ \A r \in DOMAIN distance : distance[r] \in Nat
    /\ Hits(given) /\ Hits(pending) /\ Hits(results)
    /\ DOMAIN merged \subseteq Chunks /\ \A c \in DOMAIN merged : merged[c] \in Hit
    /\ modesOf \in [Chunks -> SUBSET Modes] /\ hits \in SUBSET Chunks
    /\ \A s \in scored : s \in Scored
    /\ failed \in BOOLEAN
    /\ InSequence(chosen) \subseteq scored /\ InSequence(deferred) \subseteq scored

\* The entities at most n relations away from the query's, by definition.
WithinHops(n) ==
    LET near[i \in 0..n] ==
            IF i = 0 THEN plan.seeds
            ELSE near[i - 1] \cup UNION {Ends(r) : r \in {q \in plan.relations : Ends(q) \cap near[i - 1] # {}}}
    IN  near[n]

\* The traversal finds each relation within max_depth hops of the query's
\* entities, no other, and the length of its shortest path: on cycles, on
\* relations met from both ends, and for a negative depth, taken for 0.
DistancesAreShortest ==
    phase \notin {"traverse", "text"} /\ plan.seeds # {} /\ plan.relations # {} =>
        LET within(r, n) == Ends(r) \cap WithinHops(n) # {}
        IN  /\ DOMAIN distance = {r \in plan.relations : within(r, Most(plan.depth, 0))}
            /\ \A r \in DOMAIN distance :
                  within(r, distance[r]) /\ (distance[r] = 0 \/ ~ within(r, distance[r] - 1))

\* Whatever the order of the hits, a merge keeps for each chunk the best of its
\* normalised scores, the relations of all of its hits and a score one of them
\* had: the best one, if a single mode found the chunk.
MergeKeepsTheBest ==
    \A c \in DOMAIN merged :
        LET mine == {h \in given \ pending : h.chunk = c}
            scores == {h.score : h \in mine}
        IN  /\ merged[c].normal = HighestOf({h.normal : h \in mine})
            /\ merged[c].relations = UNION {h.relations : h \in mine}
            /\ merged[c].score \in scores
            /\ Cardinality(modesOf[c]) = 1 => merged[c].score = HighestOf(scores)
            /\ modesOf[c] = {h.mode : h \in mine}

\* What PlannedQuery assumes of the search and the ranking: they return top_k of
\* the visible chunks among those found, or all of them, each of them once, and
\* they found no more than top_k in each of the indexes they searched.
AnswersThePlan ==
    phase = "done" =>
        LET returned == {Selection[i].hit.chunk : i \in DOMAIN Selection}
        IN  /\ returned \subseteq hits \cap visible
            /\ Len(Selection) = Cardinality(returned)
            /\ Cardinality(returned) = Least(plan.topK, Cardinality(hits \cap visible))
            /\ Cardinality(hits) <=
                 plan.topK * (IF "graph" \in plan.modes THEN 3 ELSE IF "hybrid" \in plan.modes THEN 2 ELSE 1)

\* The places over the quota of their sources come last, so that no source waits
\* behind the surplus of another; and of two chunks of one source the one that
\* ranks first comes first, surplus or not.
QuotaYieldsLast ==
    phase = "done" =>
        LET source(i) == SourceOf[Selection[i].hit.chunk]
            surplus(i) == plan.quota > 0 /\ Cardinality({k \in 1..i : source(k) = source(i)}) > plan.quota
        IN  \A i, j \in DOMAIN Selection : i < j =>
                /\ surplus(i) => surplus(j)
                /\ source(i) = source(j) => ~ RankedBefore(Selection[j], Selection[i])

\* A reranker that raises after it scored some of the hits leaves no trace in the
\* order: what is returned is ordered by retrieval alone, but for the quota.
FallbackIsPure ==
    phase = "done" /\ failed =>
        /\ \A s \in scored : s.score = 100 * s.hit.normal
        /\ \A i, j \in DOMAIN chosen : i < j => chosen[i].hit.normal >= chosen[j].hit.normal
        /\ {s.hit : s \in scored} = results

=============================================================================

--------------------------- MODULE BackendAdapters ---------------------------
(***************************************************************************)
(* The backends of the storage (storage/adapters.py, vector_runtime.py,    *)
(* qdrant_runtime.py, neo4j_runtime.py): a registry of manifests and       *)
(* reported health that selects one, and three adapters that index and     *)
(* search: one in memory, two over a service that may refuse a call, or    *)
(* carry it out and lose the answer, at once or after later calls.         *)
(* A chunk's payload is the version of its access policy it was cut with.  *)
(***************************************************************************)
EXTENDS Integers, FiniteSets

CONSTANTS
    Names,         \* adapter names
    Rank,          \* their alphabetic order
    Types,         \* BackendType
    Capabilities,  \* BackendCapability
    Manifests,     \* the BackendAdapterConfigs that are registered
    Plans,         \* <<type, required capabilities>>, as in a backend plan
    Chunks,
    Wordless,      \* chunks without a term, for which there is no embedding
    Entities,
    TopKs,         \* the numbers of hits that are asked for
    MaxEdits,      \* bound: changes of a chunk's policy
    MaxCalls,      \* bound: calls
    Nothing        \* None

Statuses == {"ready", "degraded", "unavailable", "disabled"}

Manifest == [type : Types, capabilities : SUBSET Capabilities, enabled : BOOLEAN,
             priority : Nat, fallback : Names \cup {Nothing}]

ASSUME BackendAssumption ==
    /\ Rank \in [Names -> Nat]
    /\ \A m, n \in Names : Rank[m] = Rank[n] => m = n
    /\ Manifests \subseteq Manifest
    /\ Plans \subseteq Types \X SUBSET Capabilities
    /\ Wordless \subseteq Chunks
    /\ IsFiniteSet(Chunks) /\ TopKs \subseteq Int
    /\ MaxEdits \in Nat /\ MaxCalls \in Nat
    /\ Nothing \notin Names \cup Manifest \cup Statuses \cup Nat \cup Chunks

VARIABLES
    adapters,   \* registry._adapters
    health,     \* registry._health: the status last reported for a name
    selection,  \* the BackendSelection a caller has just been given
    policy,     \* the version of each chunk's policy in the repository
    local,      \* InMemoryVectorIndex: its chunks
    points,     \* Qdrant's collection: points with their payload
    late,       \* upserts without an answer that Qdrant may still carry out
    nodes,      \* Neo4j's entity nodes, with the name stored in each
    result,     \* the BackendOperationResult a caller has just been given
    calls,
    doubt,      \* history: payloads of upserts that raised, since the chunk's last ok
    acked       \* history: the payload of a chunk's last upsert that was ok

services == <<local, points, late, nodes>>
vars == <<adapters, health, selection, policy, local, points, late, nodes, result, calls,
          doubt, acked>>

-----------------------------------------------------------------------------
(* The registry.                                                           *)

Unhealthy(status) == status \notin {Nothing, "ready", "degraded"}

AdaptersFor(type) ==
    {n \in Names : adapters[n] # Nothing /\ adapters[n].type = type /\ adapters[n].enabled}

(* sorted by (priority, adapter_name)                                      *)
Before(m, n) ==
    \/ adapters[m].priority < adapters[n].priority
    \/ adapters[m].priority = adapters[n].priority /\ Rank[m] <= Rank[n]

First(names) == CHOOSE n \in names : \A m \in names : Before(n, m)

MissingCapabilities(n, required) == required \ adapters[n].capabilities

Usable(n, required) == MissingCapabilities(n, required) = {} /\ ~Unhealthy(health[n])

(* A fallback has to be registered and enabled, and nothing else.          *)
FallbackFor(n) ==
    LET fallback == adapters[n].fallback
    IN  IF fallback = Nothing THEN Nothing
        ELSE IF adapters[fallback] = Nothing THEN Nothing
        ELSE IF adapters[fallback].enabled THEN fallback ELSE Nothing

Selection(type, required, primary, candidate, missing) ==
    [type |-> type, required |-> required, primary |-> primary,
     fallback |-> IF candidate = Nothing THEN Nothing ELSE FallbackFor(candidate),
     missing |-> missing,
     health |-> IF candidate = Nothing THEN Nothing ELSE health[candidate],
     error |-> primary = Nothing]

(* Wrong: only the first adapter is asked.                                 *)
SelectFirst(type, required) ==
    LET candidates == AdaptersFor(type)
        first == IF candidates = {} THEN Nothing ELSE First(candidates)
    IN  IF first # Nothing /\ Usable(first, required)
        THEN Selection(type, required, first, first, {})
        ELSE Selection(type, required, Nothing, first,
                IF first = Nothing THEN required ELSE MissingCapabilities(first, required))

Selected(type, required) ==
    LET candidates == AdaptersFor(type)
        usable == {n \in candidates : Usable(n, required)}
        best == First(candidates)
    IN  IF usable # {} THEN Selection(type, required, First(usable), First(usable), {})
        ELSE IF candidates = {} THEN Selection(type, required, Nothing, Nothing, required)
        ELSE Selection(type, required, Nothing, best, MissingCapabilities(best, required))

-----------------------------------------------------------------------------
Init ==
    /\ adapters = [n \in Names |-> Nothing]
    /\ health = [n \in Names |-> Nothing]
    /\ selection = Nothing
    /\ policy = [c \in Chunks |-> 0]
    /\ local = {}
    /\ points = [c \in Chunks |-> Nothing]
    /\ late = {}
    /\ nodes = [e \in {} |-> Nothing]
    /\ result = Nothing
    /\ calls = 0
    /\ doubt = [c \in Chunks |-> {}]
    /\ acked = [c \in Chunks |-> Nothing]

Call == calls < MaxCalls /\ calls' = calls + 1

(* A selection is kept only while nothing it was made from has changed.    *)
Register(n, manifest) ==
    /\ Call
    /\ adapters' = [adapters EXCEPT ![n] = manifest]
    /\ selection' = Nothing
    /\ UNCHANGED <<health, policy, local, points, late, nodes, result, doubt, acked>>

RecordHealth(n, status) ==
    /\ Call
    /\ adapters[n] # Nothing
    /\ health' = [health EXCEPT ![n] = status]
    /\ selection' = Nothing
    /\ UNCHANGED <<adapters, policy, local, points, late, nodes, result, doubt, acked>>

Select(type, required) ==
    /\ Call
    /\ selection' = Selected(type, required)
    /\ UNCHANGED <<adapters, health, policy, local, points, late, nodes, result, doubt, acked>>

(* A caller edits a chunk's access policy in the repository.               *)
EditPolicy(c) ==
    /\ policy[c] < MaxEdits
    /\ policy' = [policy EXCEPT ![c] = @ + 1]
    /\ UNCHANGED <<adapters, health, selection, local, points, late, nodes, result, calls,
                   doubt, acked>>

-----------------------------------------------------------------------------
(* The calls of the adapters.                                              *)

Result(op, ok, retryable, asked, candidates) ==
    [op |-> op, ok |-> ok, retryable |-> retryable, asked |-> asked, candidates |-> candidates]
Done(op, asked, candidates) == Result(op, TRUE, FALSE, asked, candidates)
Failed(op, retryable, asked) == Result(op, FALSE, retryable, asked, <<>>)

Returns(r) == Call /\ result' = r /\ UNCHANGED <<adapters, health, selection, policy>>

(* Wrong: a chunk without an embedding gets a point.                       *)
PointsOfAll(chunks) == [c \in chunks |-> policy[c]]

(* The points of a call that indexes chunks, each with the payload of now. *)
Points(chunks) == [c \in chunks \ Wordless |-> policy[c]]

(* Wrong: a point that is there stays as it is.                            *)
InsertedOnly(held, request) ==
    [c \in Chunks |-> IF c \in DOMAIN request /\ held[c] = Nothing THEN request[c] ELSE held[c]]

(* A point is replaced by one with the same id, which is made of the chunk.*)
Upserted(held, request) ==
    [c \in Chunks |-> IF c \in DOMAIN request THEN request[c] ELSE held[c]]

NotReached(op) ==
    /\ Returns(Failed(op, TRUE, {}))
    /\ UNCHANGED <<local, points, late, nodes, doubt, acked>>

(* Qdrant: there is no client, or the health check of a call raised, or    *)
(* the search itself.                                                      *)
Unavailable == NotReached("index") \/ NotReached("search")

(* Neo4j: likewise.                                                        *)
GraphUnavailable == NotReached("graph") \/ NotReached("traverse")

(* Qdrant: index_chunks.                                                   *)
NoPoints(chunks) ==
    /\ chunks \subseteq Wordless
    /\ Returns(Failed("index", FALSE, chunks))
    /\ UNCHANGED <<local, points, late, nodes, doubt, acked>>

UpsertDone(chunks) ==
    /\ ~(chunks \subseteq Wordless)
    /\ Returns(Done("index", chunks, <<>>))
    /\ points' = Upserted(points, Points(chunks))
    /\ acked' = [c \in Chunks |-> IF c \in chunks \ Wordless THEN policy[c] ELSE acked[c]]
    /\ doubt' = [c \in Chunks |-> IF c \in chunks \ Wordless
                                  THEN {r[c] : r \in {s \in late : c \in DOMAIN s}}
                                  ELSE doubt[c]]
    /\ UNCHANGED <<local, late, nodes>>

(* The service did not get the request, or its answer came too late.       *)
UpsertRaises(chunks) ==
    /\ ~(chunks \subseteq Wordless)
    /\ Returns(Failed("index", TRUE, chunks))
    /\ \/ UNCHANGED <<points, late>>
       \/ points' = Upserted(points, Points(chunks)) /\ UNCHANGED late
       \/ late' = late \cup {Points(chunks)} /\ UNCHANGED points
    /\ doubt' = [c \in Chunks |-> IF c \in chunks \ Wordless THEN doubt[c] \cup {policy[c]}
                                  ELSE doubt[c]]
    /\ UNCHANGED <<local, nodes, acked>>

LateUpsert ==
    /\ \E request \in late :
          /\ points' = Upserted(points, request)
          /\ late' = late \ {request}
    /\ UNCHANGED <<adapters, health, selection, policy, local, nodes, result, calls,
                   doubt, acked>>

(* Qdrant: search.  The service gives the nearest points, each with its    *)
(* payload; a negative top_k asks for none.                                *)
Held == {c \in Chunks : points[c] # Nothing}

SearchDone(k) ==
    /\ \E hits \in SUBSET Held :
          /\ IF k < 0 THEN hits = {}
             ELSE Cardinality(hits) <= k /\ (Cardinality(hits) < k => hits = Held)
          /\ Returns(Done("search", k, [c \in hits |-> points[c]]))
    /\ UNCHANGED <<local, points, late, nodes, doubt, acked>>

(* A query without a term asks the service nothing.                        *)
SearchBlank ==
    /\ Returns(Done("search", 0, <<>>))
    /\ UNCHANGED <<local, points, late, nodes, doubt, acked>>

(* InMemoryVectorBackendAdapter: always ready; nothing to index is no      *)
(* failure; a candidate is the id of its chunk alone.                      *)
IndexLocally(chunks) ==
    /\ local' = local \cup (chunks \ Wordless)
    /\ Returns(IF chunks = {} \/ ~(chunks \subseteq Wordless) THEN Done("local", chunks, <<>>)
               ELSE Failed("local", FALSE, chunks))
    /\ UNCHANGED <<points, late, nodes, doubt, acked>>

SearchLocally(k) ==
    /\ \E hits \in SUBSET local :
          /\ Cardinality(hits) <= (IF k < 0 THEN 0 ELSE k)
          /\ Returns(Done("search locally", k, [c \in hits |-> Nothing]))
    /\ UNCHANGED <<local, points, late, nodes, doubt, acked>>

(* Neo4j: index_graph_records.  MERGE finds a node by its id or makes one  *)
(* of the id alone: a node that is made has no name.                       *)
Merged(entities) ==
    [e \in DOMAIN nodes \cup entities |-> IF e \in DOMAIN nodes THEN nodes[e] ELSE Nothing]

(* Chunks alone are no graph records.                                      *)
NoGraph ==
    /\ Returns(Failed("graph", FALSE, {}))
    /\ UNCHANGED <<local, points, late, nodes, doubt, acked>>

MergeDone(entities) ==
    /\ Returns(Done("graph", entities, <<>>))
    /\ nodes' = Merged(entities)
    /\ UNCHANGED <<local, points, late, doubt, acked>>

MergeRaises(entities) ==
    /\ Returns(Failed("graph", TRUE, entities))
    /\ nodes' \in {nodes, Merged(entities)}
    /\ UNCHANGED <<local, points, late, doubt, acked>>

(* Neo4j: traverse.  A row is a node whose name contains the query, here   *)
(* the name of an entity; a candidate takes its chunk and its policy from  *)
(* columns that a row does not have.                                       *)
Traverse(query) ==
    /\ Returns(Done("traverse", query,
                    [e \in {n \in DOMAIN nodes : nodes[n] = query} |-> Nothing]))
    /\ UNCHANGED <<local, points, late, nodes, doubt, acked>>

-----------------------------------------------------------------------------
ServiceCall ==
    \/ Unavailable \/ GraphUnavailable
    \/ \E chunks \in SUBSET Chunks :
          NoPoints(chunks) \/ UpsertDone(chunks) \/ UpsertRaises(chunks)
    \/ \E k \in TopKs : SearchDone(k)
    \/ SearchBlank
    \/ \E entities \in SUBSET Entities : MergeDone(entities) \/ MergeRaises(entities)
    \/ NoGraph
    \/ \E query \in Entities : Traverse(query)

LocalCall ==
    \/ \E chunks \in SUBSET Chunks : IndexLocally(chunks)
    \/ \E k \in TopKs : SearchLocally(k)

RegistryCall ==
    \/ \E n \in Names : \/ \E manifest \in Manifests : Register(n, manifest)
                        \/ \E status \in Statuses : RecordHealth(n, status)
    \/ \E plan \in Plans : Select(plan[1], plan[2])

Stop == calls = MaxCalls /\ UNCHANGED vars

Next ==
    \/ RegistryCall \/ ServiceCall \/ LocalCall
    \/ LateUpsert \/ \E c \in Chunks : EditPolicy(c)
    \/ Stop

Spec == Init /\ [][Next]_vars

-----------------------------------------------------------------------------
(* Properties.                                                             *)

Payload == Nat \cup {Nothing}

(* The types of the state.                                                 *)
TypeOK ==
    /\ adapters \in [Names -> Manifests \cup {Nothing}]
    /\ health \in [Names -> Statuses \cup {Nothing}]
    /\ \A n \in Names : health[n] # Nothing => adapters[n] # Nothing
    /\ policy \in [Chunks -> Nat]
    /\ local \subseteq Chunks \ Wordless
    /\ points \in [Chunks -> Payload]
    /\ \A request \in late : DOMAIN request \subseteq Chunks /\ request \in [DOMAIN request -> Nat]
    /\ doubt \in [Chunks -> SUBSET Nat]
    /\ acked \in [Chunks -> Payload]
    /\ calls \in Nat

(* A selection agrees with what is registered and was reported.  With a    *)
(* primary, that one is enabled, of the type, has every capability, was    *)
(* not reported unusable, and stands before every other such adapter.      *)
(* Without one there is none such, and the selection says why: a missing   *)
(* capability, a report, or no adapter ("structured storage errors instead *)
(* of silent fallback", project_milestones.md:420).                        *)
SelectionsFollowReports ==
    selection # Nothing =>
        LET IsUsable(n) ==
                /\ adapters[n] # Nothing /\ adapters[n].enabled
                /\ adapters[n].type = selection.type
                /\ selection.required \subseteq adapters[n].capabilities
                /\ health[n] \notin {"unavailable", "disabled"}
            primary == selection.primary
        IN  IF primary # Nothing
            THEN /\ IsUsable(primary) /\ ~selection.error /\ selection.missing = {}
                 /\ \A n \in Names \ {primary} : IsUsable(n) =>
                       \/ adapters[primary].priority < adapters[n].priority
                       \/ /\ adapters[primary].priority = adapters[n].priority
                          /\ Rank[primary] < Rank[n]
            ELSE /\ \A n \in Names : ~IsUsable(n)
                 /\ selection.error
                 /\ \/ selection.missing # {}
                    \/ selection.health \in {"unavailable", "disabled"}
                    \/ AdaptersFor(selection.type) = {}

(* What a search shows of a chunk is what the last acknowledged upsert of  *)
(* it handed in, or one that raised and was carried out nevertheless, and  *)
(* it shows every acknowledged chunk if it did not have to cut.            *)
CandidatesAreAccounted ==
    result # Nothing /\ result.op = "search" /\ result.ok =>
        /\ \A c \in DOMAIN result.candidates :
              result.candidates[c] \in {acked[c]} \cup doubt[c]
        /\ Cardinality(DOMAIN result.candidates) < result.asked =>
              \A c \in Chunks : acked[c] # Nothing => c \in DOMAIN result.candidates

(* A call that failed for good has changed no service.  One that may be    *)
(* tried again has left each chunk with what it had or with what it was    *)
(* handed, and a call that is ok has left all it was handed.               *)
FailuresTellWhatTheyLeft ==
    [][calls' # calls /\ result' # result =>
         /\ ~result'.ok /\ ~result'.retryable => UNCHANGED services
         /\ \A c \in Chunks :
               IF result'.op # "index" \/ c \notin result'.asked \ Wordless
               THEN points'[c] = points[c]
               ELSE IF result'.ok THEN points'[c] = policy[c]
               ELSE points'[c] \in {points[c], policy[c]}]_vars

(* "Adapter traversal returns candidate metadata suitable for retrieval    *)
(* hydration and access filtering" (project_milestones.md:615): a          *)
(* traversal that asks for the name of an indexed entity comes back with   *)
(* a candidate, and that with an access policy.                            *)
TraversalFindsIndexed ==
    result # Nothing /\ result.op = "traverse" /\ result.ok /\ result.asked \in DOMAIN nodes =>
        \E x \in DOMAIN result.candidates : result.candidates[x] # Nothing
=============================================================================

-------------------------- MODULE MCBackendAdapters --------------------------
(* Two adapters of one type, registered again and again; two chunks with     *)
(* words and one without.                                                    *)
EXTENDS BackendAdapters, TLC

CONSTANTS qdrant, memory, c1, c2, c3, e1

MCNames == {qdrant, memory}
MCRank == [n \in MCNames |-> IF n = memory THEN 1 ELSE 2]

Vector(capabilities, enabled, priority, fallback) ==
    [type |-> "vector", capabilities |-> capabilities, enabled |-> enabled,
     priority |-> priority, fallback |-> fallback]

MCManifests ==
    {Vector({"read", "write"}, TRUE, 10, memory), Vector({"read", "write"}, TRUE, 20, Nothing),
     Vector({"read"}, TRUE, 10, Nothing), Vector({"read", "write"}, FALSE, 10, Nothing)}
MCPlans == {<<"vector", {"read", "write"}>>, <<"vector", {}>>, <<"graph", {"read"}>>}

\* Nothing tells the two chunks with words apart.
MCSymmetry == Permutations({c1, c2})
MCTopKs == {-1, 1, 2}
=============================================================================

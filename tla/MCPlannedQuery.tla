---------------------------- MODULE MCPlannedQuery ----------------------------
(***************************************************************************)
(* Small instances of PlannedQuery: a chunk with sentences of both kinds,  *)
(* a plain one without a link, a blank one, and requests that meet every   *)
(* branch of the plan and of the repair.                                   *)
(***************************************************************************)
EXTENDS PlannedQuery, TLC

CONSTANTS c1, c2, c3

MCText == c1 :> "mixed" @@ c2 :> "plain" @@ c3 :> "blank"

Ask(type, vague, top_k, repairs) ==
    [type |-> type, direct |-> FALSE, vague |-> vague, top_k |-> top_k, repairs |-> repairs]

MCRequests ==
    {Ask("exact", FALSE, 1, 1),         \* one index, room for one hit
     Ask("graph", FALSE, -1, -1),       \* the graph, with the defaults
     Ask("fresh-data", FALSE, -1, 0),   \* no repair allowed
     Ask("semantic", TRUE, 2, 9),       \* a vague query, a budget out of bounds
     [Ask("mixed", FALSE, 0, 0) EXCEPT !.direct = TRUE]}

(* One chunk is contradicted by its own text, both have a link.            *)
ContradictedText == c1 :> "mixed" @@ c2 :> "plain"
SemanticRequest == {Ask("semantic", FALSE, -1, -1)}
=============================================================================

-------------------------- MODULE MCKnowledgeIndex --------------------------
(* Two chunks, which relate the same two entities either way, so that the    *)
(* record of a relation depends on the batch it was extracted from, and two  *)
(* documents they may have been cut from. The chunks are alike, and so are   *)
(* the documents.                                                            *)
EXTENDS KnowledgeIndex, TLC

CONSTANTS c1, c2, A, B, d1, d2

MCMentions == [id \in ChunkIds |-> {A, B}]
MCLinks == [id \in ChunkIds |-> {<<A, B>>, <<B, A>>}]

MCSymmetry ==
    {chunks @@ documents : chunks \in Permutations({c1, c2}), documents \in Permutations({d1, d2})}
=============================================================================

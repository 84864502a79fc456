-------------------------- MODULE MCEvidenceSearch --------------------------
(* Three entities on a cycle of relations, one of them met from both ends;   *)
(* three chunks, two of one source; one chunk is evidence for two relations. *)
EXTENDS EvidenceSearch, TLC

CONSTANTS A, B, C, s1, s2

MCFrom == 1 :> A @@ 2 :> B @@ 3 :> C
MCTo == 1 :> B @@ 2 :> C @@ 3 :> A
MCEvidence == 1 :> {1, 2} @@ 2 :> {2} @@ 3 :> {3}
MCConfidence == 1 :> 17 @@ 2 :> 16 @@ 3 :> 16
MCSourceOf == 1 :> s1 @@ 2 :> s1 @@ 3 :> s2
MCTrust == 1 :> 0 @@ 2 :> 10000 @@ 3 :> 0
MCUnit == 1000
MCRelevances == {0, MCUnit}
MCDepths == {-1, 1, 2}
MCNames == {{}, {A}, {A, C}}
MCGraphs == {{}, {1, 2}, {1, 2, 3}}

Answers(S) == [Chunks -> S \cup {NoHit}]
\* Keyword scores are positive, cosines may not be; some of each are alike.
MCKeywordAnswers == {a \in Answers({1, 2}) : a[2] # 1 /\ a[3] # 2}
MCVectorAnswers == {a \in Answers({-1, 0, 3}) : a[1] # 3 /\ a[2] \notin {-1, 0} /\ a[3] \notin {0, 3}}

=============================================================================

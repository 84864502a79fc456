----------------------------- MODULE MCChunkSpans -----------------------------
(* Instances of ChunkSpans for TLC.                                          *)
EXTENDS ChunkSpans

MCLengths == 0..6
(* None, one, short of the longest text and beyond it.                       *)
MCMaxChars == {0, 1, 3, 4, 7}
MCOverlapChars == {-1, 0, 1, 2, 4}
=============================================================================

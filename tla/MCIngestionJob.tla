---------------------------- MODULE MCIngestionJob ----------------------------
(* Instances of IngestionJob for TLC.                                        *)
EXTENDS IngestionJob

(* None at all, none left, one and more than one.                            *)
MCRetryLimits == {-1, 0, 1, 3}
=============================================================================

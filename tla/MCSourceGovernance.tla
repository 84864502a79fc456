------------------------ MODULE MCSourceGovernance ------------------------
(***************************************************************************)
(* Instances of SourceGovernance for TLC.                                  *)
(***************************************************************************)
EXTENDS SourceGovernance, TLC

CONSTANTS s1, c1, alice

Governed(level, allowed, license) == [level |-> level, allowed |-> allowed, license |-> license]

(* A public source, one for alice, one for insiders and alice whose        *)
(* license nobody has looked at, and one without a policy.                 *)
MCPolicies ==
    {Governed("public", {}, "allowed"), Governed("restricted", {alice}, "allowed"),
     Governed("internal", {alice}, "unknown"), Governed("none", {}, "allowed")}

MCSourceOfOne == [c \in Chunks |-> s1]
MCScheduled == [s \in Sources |-> 1]
=============================================================================

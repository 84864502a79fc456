SPECIFICATION Spec
CONSTANTS
  s1 = s1
  c1 = c1
  alice = alice
  Sources = {s1}
  Chunks = {c1}
  SourceOf <- MCSourceOfOne
  Principals = {alice}
  NoPrincipal = NoPrincipal
  Policies <- MCPolicies
  Settable = {"active", "blocked"}
  Interval <- MCScheduled
  NoInterval = NoInterval
  Never = Never
  Absent = Absent
  TopK = 1
  MaxTime = 1
  MaxEdits = 2
INVARIANTS ReleasedToItsAudience NeverAllowedNeverSees FittingEvidenceIsFound
PROPERTY SweepKeepsAccess

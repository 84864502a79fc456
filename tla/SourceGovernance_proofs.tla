---------------------- MODULE SourceGovernance_proofs ----------------------
(***************************************************************************)
(* That evidence is released only to an audience all its policies admit,   *)
(* and only under a policy the registry once held, for any number of       *)
(* sources, chunks, principals and searches.                               *)
(*                                                                         *)
(* The second needs to know where every copy came from: Lineage says that  *)
(* a record in the registry, in flight or in storage is a version the      *)
(* registry has held.  The history only grows, so no later edit can undo   *)
(* it; and a search releases only what one such record allows.             *)
(*                                                                         *)
(* That a search whose hits fit loses none of them is the converse: what   *)
(* the rules admit, the filter keeps, and a part of what fits is not cut.  *)
(***************************************************************************)
EXTENDS SourceGovernance, FiniteSetTheorems, TLAPS

(* Every copy of a source's record is one of its registry versions.        *)
Lineage ==
    /\ \A s \in Sources : registry[s] # Absent => registry[s] \in versions[s]
    /\ \A f \in inflight : f[2] \in versions[f[1]]
    /\ \A s \in Sources : stored[s] # Absent => stored[s] \in versions[s]

-----------------------------------------------------------------------------
(* A record that is kept or changed by the registry's own operations is a  *)
(* record still.                                                           *)
LEMMA RecordShape ==
    ASSUME NEW record \in Record
    PROVE  /\ \A status \in Statuses : [record EXCEPT !.status = status] \in Record
           /\ \A policy \in Policy, observed \in Nat \cup {Never} :
                 [record EXCEPT !.policy = policy, !.observed = observed] \in Record
           /\ \A s : Swept(s, record) \in Record
           /\ \A listed \in BOOLEAN : Inherited(record, listed) \in ChunkMeta
  <1>1. \A status \in Statuses : [record EXCEPT !.status = status] \in Record
    BY DEF Record
  <1>2. \A policy \in Policy, observed \in Nat \cup {Never} :
            [record EXCEPT !.policy = policy, !.observed = observed] \in Record
    BY DEF Record
  <1>3. \A s : Swept(s, record) \in Record
    BY <1>1 DEF Swept, Statuses
  <1>4. \A listed \in BOOLEAN : Inherited(record, listed) \in ChunkMeta
    BY DEF Inherited, ChunkMeta, Record, Policy
  <1> QED BY <1>1, <1>2, <1>3, <1>4

(* A cut never adds evidence.                                              *)
LEMMA TopOfIsPart ==
    ASSUME NEW hits, NEW top \in TopOf(hits)
    PROVE  top \subseteq hits
  <1>1. CASE Cardinality(hits) <= TopK
    BY <1>1 DEF TopOf
  <1>2. CASE ~(Cardinality(hits) <= TopK)
    <2>1. top \in kSubset(TopK, hits)
      BY <1>2 DEF TopOf
    <2> QED BY <2>1 DEF kSubset
  <1> QED BY <1>1, <1>2

(* The filter only takes away, and what it keeps passed every layer.       *)
LEMMA FilterKeeps ==
    ASSUME NEW candidates, NEW records, NEW user, NEW use,
           NEW c \in ApplyAccessFilter(candidates, records, user, use)
    PROVE  /\ c \in candidates
           /\ ~MissingAccess(c)
           /\ records[SourceOf[c]] # Absent
           /\ RecordAccess(c, user)
           /\ ApplySourcePolicy(records[SourceOf[c]], user, use)
  BY DEF ApplyAccessFilter

(* A search answers with chunks that are stored and passed the filter over *)
(* the records it decided from.                                            *)
LEMMA SearchReleases ==
    ASSUME NEW user \in Users, NEW use \in Uses,
           RunHybridSearch(user, use) \/ FilterWithRegistry(user, use)
    PROVE  /\ answer' \in Answer
           /\ answer'.user = user /\ answer'.use = use
           /\ \/ answer'.records = "stored" /\ RunHybridSearch(user, use)
              \/ answer'.records = "registry" /\ FilterWithRegistry(user, use)
           /\ \A c \in answer'.released :
                 c \in ApplyAccessFilter(Chunks,
                          IF answer'.records = "stored" THEN stored ELSE registry, user, use)
  <1>1. CASE RunHybridSearch(user, use)
    <2>1. PICK hits \in SUBSET {c \in Chunks : chunks[c] # Absent} :
          \E keyword \in TopOf(hits), vector \in TopOf(hits) :
          \E merged \in TopOf(ApplyAccessFilter(keyword \cup vector, stored, user, use)) :
             answer' = [user |-> user, use |-> use, hits |-> hits, released |-> merged,
                        records |-> "stored"]
      BY <1>1 DEF RunHybridSearch
    <2>2. PICK keyword \in TopOf(hits), vector \in TopOf(hits) :
          \E merged \in TopOf(ApplyAccessFilter(keyword \cup vector, stored, user, use)) :
             answer' = [user |-> user, use |-> use, hits |-> hits, released |-> merged,
                        records |-> "stored"]
      BY <2>1
    <2>3. PICK merged \in TopOf(ApplyAccessFilter(keyword \cup vector, stored, user, use)) :
             answer' = [user |-> user, use |-> use, hits |-> hits, released |-> merged,
                        records |-> "stored"]
      BY <2>2
    <2>4. /\ keyword \cup vector \subseteq Chunks
          /\ hits \subseteq Chunks
      BY TopOfIsPart
    <2>5. merged \subseteq ApplyAccessFilter(keyword \cup vector, stored, user, use)
      BY TopOfIsPart
    <2>6. merged \subseteq ApplyAccessFilter(Chunks, stored, user, use)
      BY <2>4, <2>5 DEF ApplyAccessFilter
    <2>7. merged \subseteq Chunks
      BY <2>6 DEF ApplyAccessFilter
    <2> QED BY <1>1, <2>3, <2>4, <2>6, <2>7 DEF Answer
  <1>2. CASE FilterWithRegistry(user, use)
    <2>1. PICK hits \in SUBSET {c \in Chunks : chunks[c] # Absent} :
          answer' = [user |-> user, use |-> use, hits |-> hits,
                     released |-> ApplyAccessFilter(hits, registry, user, use),
                     records |-> "registry"]
      BY <1>2 DEF FilterWithRegistry
    <2>2. /\ ApplyAccessFilter(hits, registry, user, use)
                \subseteq ApplyAccessFilter(Chunks, registry, user, use)
          /\ ApplyAccessFilter(hits, registry, user, use) \subseteq Chunks
          /\ hits \subseteq Chunks
      BY DEF ApplyAccessFilter
    <2> QED BY <1>2, <2>1, <2>2 DEF Answer
  <1> QED BY <1>1, <1>2

-----------------------------------------------------------------------------
LEMMA InitTyped == Init => TypeOK /\ Lineage
  BY ConstantsAssumption DEF Init, TypeOK, Lineage

(* A governance call that saves a record.                                  *)
LEMMA SaveStep ==
    ASSUME TypeOK, Lineage, NEW s \in Sources, NEW record \in Record, Save(s, record)
    PROVE  (TypeOK /\ Lineage)'
  <1>1. TypeOK'
    BY DEF TypeOK, Save
  <1>2. versions'[s] = versions[s] \cup {record} /\ registry'[s] = record
    BY DEF TypeOK, Save
  <1>3. \A t \in Sources : versions[t] \subseteq versions'[t]
    BY DEF TypeOK, Save
  <1>4. \A t \in Sources : registry'[t] # Absent => registry'[t] \in versions'[t]
    BY <1>2, <1>3 DEF TypeOK, Lineage, Save
  <1>5. (\A f \in inflight : f[2] \in versions[f[1]])'
    BY <1>3 DEF TypeOK, Lineage, Save
  <1>6. (\A t \in Sources : stored[t] # Absent => stored[t] \in versions[t])'
    BY <1>3 DEF Lineage, Save
  <1> QED BY <1>1, <1>4, <1>5, <1>6 DEF Lineage

LEMMA SweepStep ==
    ASSUME TypeOK, Lineage, NEW s \in Sources, UpdateStaleSourceStatus(s)
    PROVE  (TypeOK /\ Lineage)'
  <1>1. registry[s] \in Record
    BY DEF TypeOK, UpdateStaleSourceStatus
  <1>2. Swept(s, registry[s]) \in Record
    BY <1>1, RecordShape
  <1>3. TypeOK'
    BY <1>2 DEF TypeOK, UpdateStaleSourceStatus
  <1>4. \A t \in Sources : versions[t] \subseteq versions'[t]
    BY DEF TypeOK, UpdateStaleSourceStatus
  <1>5. registry'[s] \in versions'[s]
    BY DEF TypeOK, UpdateStaleSourceStatus
  <1>6. \A t \in Sources : registry'[t] # Absent => registry'[t] \in versions'[t]
    BY <1>4, <1>5 DEF TypeOK, Lineage, UpdateStaleSourceStatus
  <1>7. (\A f \in inflight : f[2] \in versions[f[1]])'
    BY <1>4 DEF TypeOK, Lineage, UpdateStaleSourceStatus
  <1>8. (\A t \in Sources : stored[t] # Absent => stored[t] \in versions[t])'
    BY <1>4 DEF Lineage, UpdateStaleSourceStatus
  <1> QED BY <1>3, <1>6, <1>7, <1>8 DEF Lineage

LEMMA CommitStep ==
    ASSUME TypeOK, Lineage, NEW s \in Sources, CommitStorageBundle(s)
    PROVE  (TypeOK /\ Lineage)'
  <1>1. PICK f \in inflight, cut \in SUBSET Chunks, withSource, listed \in BOOLEAN :
        /\ f[1] = s
        /\ \A c \in cut : SourceOf[c] = s
        /\ inflight' = inflight \ {f}
        /\ stored' = IF withSource THEN [stored EXCEPT ![s] = f[2]] ELSE stored
        /\ chunks' = [c \in Chunks |-> IF c \in cut THEN Inherited(f[2], listed) ELSE chunks[c]]
        /\ answer' = Absent
        /\ UNCHANGED <<registry, clock, edits, versions>>
    BY Zenon DEF CommitStorageBundle
  <1>2. f[2] \in Record /\ f[2] \in versions[s]
    BY <1>1 DEF TypeOK, Lineage
  <1>3. Inherited(f[2], listed) \in ChunkMeta
    BY <1>2, RecordShape
  <1>4. stored' \in [Sources -> Record \cup {Absent}]
    BY <1>1, <1>2 DEF TypeOK
  <1>5. chunks' \in [Chunks -> ChunkMeta \cup {Absent}]
    BY <1>1, <1>3 DEF TypeOK
  <1>6. TypeOK'
    BY <1>1, <1>4, <1>5 DEF TypeOK
  <1>7. \A t \in Sources : stored'[t] # Absent => stored'[t] \in versions[t]
    BY <1>1, <1>2 DEF TypeOK, Lineage
  <1> QED BY <1>1, <1>6, <1>7 DEF Lineage

(* Every step keeps the types and the lineage.                             *)
LEMMA StepTyped == TypeOK /\ Lineage /\ [Next]_vars => (TypeOK /\ Lineage)'
  <1> SUFFICES ASSUME TypeOK, Lineage, [Next]_vars
               PROVE  (TypeOK /\ Lineage)'
    OBVIOUS
  <1>1. ASSUME NEW s \in Sources, RegisterSource(s)
        PROVE  (TypeOK /\ Lineage)'
    <2>1. PICK policy \in Policies, status \in Settable :
             Save(s, [status |-> status, policy |-> policy, observed |-> Never])
      BY <1>1 DEF RegisterSource
    <2>2. [status |-> status, policy |-> policy, observed |-> Never] \in Record
      BY ConstantsAssumption DEF Record
    <2> QED BY <2>1, <2>2, SaveStep
  <1>2. ASSUME NEW s \in Sources, UpdateSourceStatus(s)
        PROVE  (TypeOK /\ Lineage)'
    <2>1. PICK status \in Settable : Save(s, [registry[s] EXCEPT !.status = status])
      BY <1>2 DEF UpdateSourceStatus
    <2>2. [registry[s] EXCEPT !.status = status] \in Record
      BY <1>2, ConstantsAssumption, RecordShape DEF TypeOK, UpdateSourceStatus
    <2> QED BY <2>1, <2>2, SaveStep
  <1>3. ASSUME NEW s \in Sources, SaveSource(s)
        PROVE  (TypeOK /\ Lineage)'
    <2>1. registry[s] \in Record
      BY <1>3 DEF TypeOK, SaveSource
    <2>2. PICK policy \in Policies, observed \in {registry[s].observed, clock} :
             Save(s, [registry[s] EXCEPT !.policy = policy, !.observed = observed])
      BY <1>3 DEF SaveSource
    <2>3. policy \in Policy /\ observed \in Nat \cup {Never}
      BY <2>1, ConstantsAssumption DEF TypeOK, Record
    <2>4. [registry[s] EXCEPT !.policy = policy, !.observed = observed] \in Record
      BY <2>1, <2>3, RecordShape
    <2> QED BY <2>2, <2>4, SaveStep
  <1>4. ASSUME NEW s \in Sources, RunIngestionJob(s)
        PROVE  (TypeOK /\ Lineage)'
    BY <1>4 DEF TypeOK, Lineage, RunIngestionJob
  <1>5. ASSUME NEW c \in Chunks, SaveChunk(c)
        PROVE  (TypeOK /\ Lineage)'
    <2>1. chunks[c] \in ChunkMeta
      BY <1>5 DEF TypeOK, SaveChunk
    <2>2. PICK policy \in Policies :
             chunks' = [chunks EXCEPT ![c].level = policy.level, ![c].allowed = policy.allowed]
      BY <1>5 DEF SaveChunk
    <2>3. policy.level \in Levels /\ policy.allowed \in SUBSET Principals
      BY ConstantsAssumption DEF Policy
    <2>4. chunks' \in [Chunks -> ChunkMeta \cup {Absent}]
      BY <2>1, <2>2, <2>3 DEF TypeOK, ChunkMeta
    <2>5. TypeOK'
      BY <1>5, <2>4 DEF TypeOK, SaveChunk
    <2> QED BY <1>5, <2>5 DEF Lineage, SaveChunk
  <1>6. ASSUME NEW user \in Users, NEW use \in Uses,
               RunHybridSearch(user, use) \/ FilterWithRegistry(user, use)
        PROVE  (TypeOK /\ Lineage)'
    <2>1. answer' \in Answer
      BY <1>6, SearchReleases
    <2>2. UNCHANGED <<registry, inflight, stored, chunks, clock, edits, versions>>
      BY <1>6 DEF RunHybridSearch, FilterWithRegistry
    <2> QED BY <2>1, <2>2 DEF TypeOK, Lineage
  <1>7. CASE DropAnswer
    BY <1>7 DEF TypeOK, Lineage, DropAnswer
  <1>8. CASE Tick
    BY <1>8 DEF TypeOK, Lineage, Tick
  <1>9. CASE UNCHANGED vars
    BY <1>9 DEF TypeOK, Lineage, vars
  <1> QED BY <1>1, <1>2, <1>3, <1>4, <1>5, <1>6, <1>7, <1>8, <1>9, SweepStep, CommitStep
        DEF Next

(* Types hold, for every instance.                                         *)
THEOREM TypeCorrect == Spec => []TypeOK
  <1>1. Init => TypeOK /\ Lineage
    BY InitTyped
  <1>2. (TypeOK /\ Lineage) /\ [Next]_vars => (TypeOK /\ Lineage)'
    BY StepTyped
  <1> QED BY <1>1, <1>2, PTL DEF Spec

-----------------------------------------------------------------------------
(* A step that is not a search ends the caller's hold on the last answer.  *)
LEMMA AnswerSteps ==
    ASSUME [Next]_vars
    PROVE  \/ answer' = Absent
           \/ UNCHANGED vars
           \/ \E user \in Users, use \in Uses :
                 RunHybridSearch(user, use) \/ FilterWithRegistry(user, use)
  BY DEF Next, RegisterSource, UpdateSourceStatus, SaveSource, Save, UpdateStaleSourceStatus,
         RunIngestionJob, CommitStorageBundle, SaveChunk, DropAnswer, Tick

(* A caller the code's rules admit is in the audience of the policy.       *)
LEMMA AdmittedIsAudience ==
    ASSUME NEW user \in Users, NEW level, NEW allowed, NotDenied(level, allowed, user)
    PROVE  user \in Audience(level, allowed)
  <1>1. CASE level = "public"
    BY <1>1 DEF Audience
  <1>2. CASE level = "internal"
    BY <1>2 DEF Audience, NotDenied
  <1>3. CASE level \in {"confidential", "restricted"}
    BY <1>3 DEF Audience, NotDenied
  <1> QED BY <1>1, <1>2, <1>3 DEF NotDenied

(* The answer of a search satisfies both properties when it is given.      *)
LEMMA SearchIsGoverned ==
    ASSUME TypeOK, Lineage, NEW user \in Users, NEW use \in Uses,
           RunHybridSearch(user, use) \/ FilterWithRegistry(user, use)
    PROVE  ReleasedToItsAudience' /\ NeverAllowedNeverSees'
  <1> DEFINE records == IF answer'.records = "stored" THEN stored ELSE registry
  <1>1. /\ answer' \in Answer /\ answer'.user = user /\ answer'.use = use
        /\ \A c \in answer'.released : c \in ApplyAccessFilter(Chunks, records, user, use)
    BY SearchReleases
  <1>2. UNCHANGED <<registry, stored, chunks, versions>>
    BY DEF RunHybridSearch, FilterWithRegistry
  <1>3. ASSUME NEW c \in answer'.released
        PROVE  /\ SourceOf[c] \in Sources
               /\ ~MissingAccess(c)
               /\ records[SourceOf[c]] # Absent
               /\ RecordAccess(c, user)
               /\ ApplySourcePolicy(records[SourceOf[c]], user, use)
    <2>1. c \in ApplyAccessFilter(Chunks, records, user, use)
      BY <1>1
    <2>2. c \in Chunks
      BY <2>1 DEF ApplyAccessFilter
    <2> QED BY <2>1, <2>2, FilterKeeps, ConstantsAssumption
  <1>4. ReleasedToItsAudience'
    <2> SUFFICES ASSUME NEW c \in answer'.released
                 PROVE  LET policy == stored[SourceOf[c]].policy
                            listed == IF chunks[c].allowed = {} THEN policy.allowed
                                      ELSE chunks[c].allowed
                        IN /\ stored[SourceOf[c]] # Absent
                           /\ answer'.records = "stored" =>
                                 user \in Audience(policy.level, policy.allowed)
                           /\ user \in Audience(chunks[c].document, policy.allowed)
                           /\ user \in Audience(chunks[c].level, listed)
      BY <1>1, <1>2 DEF ReleasedToItsAudience
    <2> DEFINE policy == stored[SourceOf[c]].policy
               listed == IF chunks[c].allowed # {} THEN chunks[c].allowed ELSE policy.allowed
    <2>1. stored[SourceOf[c]] # Absent
      BY <1>3 DEF MissingAccess
    <2>2. ASSUME answer'.records = "stored"
          PROVE  user \in Audience(policy.level, policy.allowed)
      <3>1. CheckSourceAccess(stored[SourceOf[c]], user)
        BY <1>3, <2>2 DEF ApplySourcePolicy
      <3>2. NotDenied(policy.level, policy.allowed, user)
        BY <3>1 DEF CheckSourceAccess, NotDenied
      <3> QED BY <3>2, AdmittedIsAudience
    <2>3. user \in Audience(chunks[c].document, policy.allowed)
      <3>1. NotDenied(chunks[c].document, policy.allowed, user)
        BY <1>3 DEF RecordAccess
      <3> QED BY <3>1, AdmittedIsAudience
    <2>4. user \in Audience(chunks[c].level, listed)
      <3>1. NotDenied(chunks[c].level, listed, user)
        BY <1>3 DEF RecordAccess
      <3> QED BY <3>1, AdmittedIsAudience
    <2> QED BY <2>1, <2>2, <2>3, <2>4
  <1>5. NeverAllowedNeverSees'
    <2> SUFFICES ASSUME NEW c \in answer'.released
                 PROVE  \E record \in versions[SourceOf[c]] :
                            ApplySourcePolicy(record, user, use)
      BY <1>1, <1>2 DEF NeverAllowedNeverSees, ApplySourcePolicy, CheckSourceAccess
    <2>1. records[SourceOf[c]] \in versions[SourceOf[c]]
      BY <1>3 DEF Lineage
    <2> QED BY <1>3, <2>1
  <1> QED BY <1>4, <1>5

(* Both properties of an answer hold together, next to types and lineage.  *)
LEMMA EvidenceIsGoverned == Spec => [](ReleasedToItsAudience /\ NeverAllowedNeverSees)
  <1> DEFINE Inv == TypeOK /\ Lineage /\ ReleasedToItsAudience /\ NeverAllowedNeverSees
  <1>1. Init => Inv
    BY InitTyped DEF Init, ReleasedToItsAudience, NeverAllowedNeverSees
  <1>2. Inv /\ [Next]_vars => Inv'
    <2> SUFFICES ASSUME Inv, [Next]_vars
                 PROVE  Inv'
      OBVIOUS
    <2>1. (TypeOK /\ Lineage)'
      BY StepTyped
    <2>2. CASE answer' = Absent
      BY <2>1, <2>2 DEF ReleasedToItsAudience, NeverAllowedNeverSees
    <2>3. CASE UNCHANGED vars
      <3>1. ReleasedToItsAudience'
        BY <2>3 DEF ReleasedToItsAudience, vars
      <3>2. NeverAllowedNeverSees'
        BY <2>3 DEF NeverAllowedNeverSees, vars, ApplySourcePolicy, CheckSourceAccess
      <3> QED BY <2>1, <3>1, <3>2
    <2>4. ASSUME NEW user \in Users, NEW use \in Uses,
                 RunHybridSearch(user, use) \/ FilterWithRegistry(user, use)
          PROVE  Inv'
      BY <2>1, <2>4, SearchIsGoverned
    <2> QED BY <2>2, <2>3, <2>4, AnswerSteps
  <1> QED BY <1>1, <1>2, PTL DEF Spec

(* Evidence reaches a caller only if the source's, the document's and the  *)
(* chunk's policies each admit that caller.                                *)
THEOREM EvidenceHasItsAudience == Spec => []ReleasedToItsAudience
  BY EvidenceIsGoverned, PTL

(* Evidence reaches a caller only if a version of the registry's record    *)
(* allowed it, whichever copies were in flight or stale.                   *)
THEOREM EvidenceWasOnceAllowed == Spec => []NeverAllowedNeverSees
  BY EvidenceIsGoverned, PTL

-----------------------------------------------------------------------------
(* A caller in the audience of a policy is one the code's rules admit: the *)
(* converse of AdmittedIsAudience.                                         *)
LEMMA AudienceIsAdmitted ==
    ASSUME NEW level, NEW allowed, NEW user \in Audience(level, allowed)
    PROVE  user \in Users /\ level # "none" /\ NotDenied(level, allowed, user)
  <1>1. CASE level = "public"
    BY <1>1 DEF Audience, NotDenied
  <1>2. CASE level = "internal"
    <2>1. user \in Users /\ (user.principal \in allowed \/ user.scopes # {})
      BY <1>2 DEF Audience
    <2>2. user.scopes # {} => "internal" \in user.scopes
      BY <2>1 DEF Users
    <2> QED BY <1>2, <2>1, <2>2 DEF NotDenied
  <1>3. CASE level \in {"confidential", "restricted"}
    BY <1>3 DEF Audience, NotDenied
  <1>4. CASE level \notin {"public", "internal", "confidential", "restricted"}
    BY <1>4 DEF Audience
  <1> QED BY <1>1, <1>2, <1>3, <1>4

(* What fits in top_k is not cut.                                          *)
LEMMA FittingIsWhole ==
    ASSUME NEW hits, Cardinality(hits) <= TopK, NEW top \in TopOf(hits)
    PROVE  top = hits
  BY DEF TopOf

(* A search over hits that fit releases exactly what the filter keeps.     *)
LEMMA FittingReleasesTheFiltered ==
    ASSUME NEW user, NEW use, RunHybridSearch(user, use), Cardinality(answer'.hits) <= TopK
    PROVE  /\ answer'.hits \subseteq Chunks
           /\ answer'.released = ApplyAccessFilter(answer'.hits, stored, user, use)
  <1>1. PICK hits \in SUBSET {c \in Chunks : chunks[c] # Absent} :
        \E keyword \in TopOf(hits), vector \in TopOf(hits) :
        \E merged \in TopOf(ApplyAccessFilter(keyword \cup vector, stored, user, use)) :
           answer' = [user |-> user, use |-> use, hits |-> hits, released |-> merged,
                      records |-> "stored"]
    BY DEF RunHybridSearch
  <1>2. PICK keyword \in TopOf(hits), vector \in TopOf(hits) :
        \E merged \in TopOf(ApplyAccessFilter(keyword \cup vector, stored, user, use)) :
           answer' = [user |-> user, use |-> use, hits |-> hits, released |-> merged,
                      records |-> "stored"]
    BY <1>1
  <1>3. PICK merged \in TopOf(ApplyAccessFilter(keyword \cup vector, stored, user, use)) :
           answer' = [user |-> user, use |-> use, hits |-> hits, released |-> merged,
                      records |-> "stored"]
    BY <1>2
  <1>4. answer'.hits = hits /\ answer'.released = merged
    BY <1>3
  <1>5. keyword \cup vector = hits
    BY <1>4, FittingIsWhole
  <1> DEFINE kept == ApplyAccessFilter(hits, stored, user, use)
  <1>6. hits \subseteq Chunks /\ kept \subseteq hits
    BY DEF ApplyAccessFilter
  <1>7. IsFiniteSet(hits)
    BY <1>6, ConstantsAssumption, FS_Subset
  <1>8. Cardinality(kept) <= Cardinality(hits) /\ Cardinality(kept) \in Nat
        /\ Cardinality(hits) \in Nat
    BY <1>6, <1>7, FS_Subset, FS_CardinalityType
  <1>9. Cardinality(kept) <= TopK
    BY <1>4, <1>8, ConstantsAssumption
  <1>10. merged = kept
    BY <1>3, <1>5, <1>9, FittingIsWhole
  <1> QED BY <1>4, <1>6, <1>10

(* The answer of a search over hits that fit withholds what a layer denies.*)
LEMMA SearchFindsWhatFits ==
    ASSUME NEW user \in Users, NEW use \in Uses,
           RunHybridSearch(user, use) \/ FilterWithRegistry(user, use)
    PROVE  FittingEvidenceIsFound'
  <1>1. /\ answer'.user = user /\ answer'.use = use
        /\ \/ answer'.records = "stored" /\ RunHybridSearch(user, use)
           \/ answer'.records = "registry" /\ FilterWithRegistry(user, use)
    BY SearchReleases
  <1>2. stored' = stored /\ chunks' = chunks
    BY DEF RunHybridSearch, FilterWithRegistry
  <1> SUFFICES ASSUME answer'.records = "stored", Cardinality(answer'.hits) <= TopK,
                      NEW c \in answer'.hits \ answer'.released
               PROVE  LET record == stored[SourceOf[c]] IN
                      \/ record = Absent
                      \/ record.status \in {"blocked", "failed"}
                      \/ use = "high-risk" /\ record.policy.license # "allowed"
                      \/ user \notin Audience(record.policy.level, record.policy.allowed)
                      \/ user \notin Audience(chunks[c].document, record.policy.allowed)
                      \/ user \notin Audience(chunks[c].level,
                             IF chunks[c].allowed = {} THEN record.policy.allowed
                             ELSE chunks[c].allowed)
    BY <1>1, <1>2 DEF FittingEvidenceIsFound
  <1> DEFINE record == stored[SourceOf[c]]
             listed == IF chunks[c].allowed # {} THEN chunks[c].allowed
                       ELSE record.policy.allowed
  <1>3. RunHybridSearch(user, use)
    BY <1>1
  <1>4. answer'.released = ApplyAccessFilter(answer'.hits, stored, user, use)
    BY <1>3, FittingReleasesTheFiltered
  <1> SUFFICES ASSUME record # Absent,
                      record.status \notin {"blocked", "failed"},
                      use = "high-risk" => record.policy.license = "allowed",
                      user \in Audience(record.policy.level, record.policy.allowed),
                      user \in Audience(chunks[c].document, record.policy.allowed),
                      user \in Audience(chunks[c].level, listed)
               PROVE  FALSE
    OBVIOUS
  <1>5. record.policy.level # "none" /\ NotDenied(record.policy.level, record.policy.allowed, user)
    BY AudienceIsAdmitted
  <1>6. chunks[c].document # "none" /\ NotDenied(chunks[c].document, record.policy.allowed, user)
    BY AudienceIsAdmitted
  <1>7. chunks[c].level # "none" /\ NotDenied(chunks[c].level, listed, user)
    BY AudienceIsAdmitted
  <1>8. ~MissingAccess(c)
    BY <1>5, <1>6, <1>7 DEF MissingAccess
  <1>9. RecordAccess(c, user)
    BY <1>6, <1>7 DEF RecordAccess
  <1>10. ApplySourcePolicy(record, user, use)
    BY <1>5 DEF ApplySourcePolicy, CheckSourceAccess, NotDenied
  <1>11. c \in ApplyAccessFilter(answer'.hits, stored, user, use)
    BY <1>8, <1>9, <1>10 DEF ApplyAccessFilter
  <1> QED BY <1>4, <1>11

(* A search whose hits fit in top_k loses nothing to its two cuts: what it *)
(* withholds, one of the filter's layers denies to this caller.            *)
THEOREM FittingEvidenceFound == Spec => []FittingEvidenceIsFound
  <1>1. Init => FittingEvidenceIsFound
    BY DEF Init, FittingEvidenceIsFound
  <1>2. FittingEvidenceIsFound /\ [Next]_vars => FittingEvidenceIsFound'
    <2> SUFFICES ASSUME FittingEvidenceIsFound, [Next]_vars
                 PROVE  FittingEvidenceIsFound'
      OBVIOUS
    <2>1. CASE answer' = Absent
      BY <2>1 DEF FittingEvidenceIsFound
    <2>2. CASE UNCHANGED vars
      BY <2>2 DEF FittingEvidenceIsFound, vars
    <2>3. ASSUME NEW user \in Users, NEW use \in Uses,
                 RunHybridSearch(user, use) \/ FilterWithRegistry(user, use)
          PROVE  FittingEvidenceIsFound'
      BY <2>3, SearchFindsWhatFits
    <2> QED BY <2>1, <2>2, <2>3, AnswerSteps
  <1> QED BY <1>1, <1>2, PTL DEF Spec

(* The sweep that deprecates stale sources changes nobody's access.        *)
THEOREM DeprecationKeepsAccess == Spec => SweepKeepsAccess
  <1>1. ASSUME TypeOK, NEW s \in Sources, UpdateStaleSourceStatus(s),
               NEW user \in Users, NEW use \in Uses
        PROVE  ApplySourcePolicy(registry[s], user, use)
                   = ApplySourcePolicy(registry'[s], user, use)
    <2>1. registry[s] \in Record
      BY <1>1 DEF TypeOK, UpdateStaleSourceStatus
    <2>2. registry'[s] = Swept(s, registry[s])
      BY <1>1 DEF TypeOK, UpdateStaleSourceStatus
    <2>3. CASE registry'[s] = registry[s]
      BY <2>3
    <2>4. CASE registry'[s] # registry[s]
      <3>1. /\ registry[s].status = "active"
            /\ registry'[s] = [registry[s] EXCEPT !.status = "deprecated"]
        BY <2>2, <2>4 DEF Swept
      <3>2. registry'[s].status = "deprecated" /\ registry'[s].policy = registry[s].policy
        BY <2>1, <3>1 DEF Record
      <3> QED BY <3>1, <3>2 DEF ApplySourcePolicy, CheckSourceAccess
    <2> QED BY <2>3, <2>4
  <1>2. TypeOK /\ [Next]_vars =>
          [\A s \in Sources : UpdateStaleSourceStatus(s) =>
              \A user \in Users, use \in Uses :
                  ApplySourcePolicy(registry[s], user, use)
                      = ApplySourcePolicy(registry'[s], user, use)]_vars
    BY <1>1
  <1> QED BY <1>2, TypeCorrect, PTL DEF Spec, SweepKeepsAccess
=============================================================================

-------------------------- MODULE SourceGovernance --------------------------
(***************************************************************************)
(* Who may see which evidence.  A source's policy lives in four places:    *)
(* the SourceRegistry's own repository, the SourceRecord an ingestion was  *)
(* started with, the copy the storage bundle saved in                      *)
(* repository.sources, and the policies the document and the chunks        *)
(* inherited when they were cut.  Each is a copy of an earlier one, and    *)
(* nothing keeps them equal: apply_access_filter decides from the storage  *)
(* copy and the chunk's own metadata unless a caller hands it a registry,  *)
(* and no caller in the repository does.                                   *)
(*                                                                         *)
(* Abstractions: ownership, reliability and wording are left out; a source *)
(* has one refresh interval, already parsed; a policy id that is absent    *)
(* and one that names no access level are both level "none" (each excludes *)
(* the evidence, with an error); which chunks match a query and how they   *)
(* score is any choice; the filter's own telemetry is left out.            *)
(***************************************************************************)
EXTENDS Naturals, FiniteSets, FiniteSetsExt

CONSTANTS
    Sources,      \* source ids
    Chunks,       \* chunk ids, of every version of every document
    SourceOf,     \* [Chunks -> Sources]
    Principals,   \* names that may stand on an allow list
    NoPrincipal,  \* an anonymous caller
    Policies,     \* the governance a source or a chunk may be given
    Settable,     \* the statuses an operator may set
    Interval,     \* [Sources -> ticks between refreshes, or NoInterval]
    NoInterval,   \* static and manual sources
    Never,        \* last_checked_at and last_ingested_at are both None
    Absent,       \* no such record
    TopK,         \* top_k of every search
    MaxTime,      \* bound: ticks
    MaxEdits      \* bound: calls that change governance

Statuses == {"active", "pending", "deprecated", "blocked", "failed"}
Levels == {"public", "internal", "confidential", "restricted", "none"}
Licenses == {"allowed", "restricted", "confidential", "unknown"}
Policy == [level : Levels, allowed : SUBSET Principals, license : Licenses]
Users == [principal : Principals \cup {NoPrincipal}, scopes : SUBSET {"internal"}]
Uses == {"general", "high-risk"}

ASSUME ConstantsAssumption ==
    /\ SourceOf \in [Chunks -> Sources]
    /\ NoPrincipal \notin Principals
    /\ Policies \subseteq Policy
    /\ Settable \subseteq Statuses
    /\ Interval \in [Sources -> Nat \cup {NoInterval}]
    /\ NoInterval \notin Nat /\ Never \notin Nat
    /\ TopK \in Nat /\ MaxTime \in Nat /\ MaxEdits \in Nat
    /\ IsFiniteSet(Chunks)

Record == [status : Statuses, policy : Policy, observed : Nat \cup {Never}]
ASSUME AbsentAssumption == Absent \notin Record

ChunkMeta == [document : Levels, level : Levels, allowed : SUBSET Principals]
ASSUME AbsentChunkAssumption == Absent \notin ChunkMeta

VARIABLES
    registry,    \* the long-lived SourceRegistry's records
    inflight,    \* <<source, record>>: ingestions started, not yet committed
    stored,      \* repository.sources
    chunks,      \* repository.chunks, each with its document's policy
    answer,      \* the search result a caller holds, or Absent
    clock,       \* now
    edits,       \* bound: governance calls so far
    versions     \* history: every record the registry has held, by source

vars == <<registry, inflight, stored, chunks, answer, clock, edits, versions>>

Init ==
    /\ registry = [s \in Sources |-> Absent]
    /\ inflight = {}
    /\ stored = [s \in Sources |-> Absent]
    /\ chunks = [c \in Chunks |-> Absent]
    /\ answer = Absent
    /\ clock = 0
    /\ edits = 0
    /\ versions = [s \in Sources |-> {}]

-----------------------------------------------------------------------------
(* The registry.                                                           *)

(* check_source_access: fails closed where no rule admits the caller.      *)
CheckSourceAccess(record, user) ==
    LET policy == record.policy IN
    \/ policy.level = "public"
    \/ /\ policy.level = "internal"
       /\ "internal" \in user.scopes \/ user.principal \in policy.allowed
    \/ /\ policy.level \in {"restricted", "confidential"}
       /\ user.principal \in policy.allowed

(* Wrong: only active sources pass.                                        *)
OnlyActivePasses(record, user, use) ==
    /\ CheckSourceAccess(record, user)
    /\ record.status = "active"
    /\ use = "high-risk" => record.policy.license = "allowed"

(* apply_source_policy: access, then status, then license.  A deprecated   *)
(* and a pending source pass.                                              *)
ApplySourcePolicy(record, user, use) ==
    /\ CheckSourceAccess(record, user)
    /\ record.status \notin {"blocked", "failed"}
    /\ use = "high-risk" => record.policy.license = "allowed"

Save(s, record) ==
    /\ edits < MaxEdits
    /\ edits' = edits + 1
    /\ registry' = [registry EXCEPT ![s] = record]
    /\ versions' = [versions EXCEPT ![s] = @ \cup {record}]
    /\ answer' = Absent
    /\ UNCHANGED <<inflight, stored, chunks, clock>>

(* The status is the caller's, or pending or active by ownership.  A new   *)
(* source has never been observed.                                         *)
RegisterSource(s) ==
    /\ registry[s] = Absent
    /\ \E policy \in Policies, status \in Settable :
          Save(s, [status |-> status, policy |-> policy, observed |-> Never])

UpdateSourceStatus(s) ==
    /\ registry[s] # Absent
    /\ \E status \in Settable : Save(s, [registry[s] EXCEPT !.status = status])

(* A caller saves an edited record: nothing else in the code changes a     *)
(* source's policy, or says that it was checked.                           *)
SaveSource(s) ==
    /\ registry[s] # Absent
    /\ \E policy \in Policies, observed \in {registry[s].observed, clock} :
          Save(s, [registry[s] EXCEPT !.policy = policy, !.observed = observed])

(* check_source_refresh                                                    *)
Stale(s, record) ==
    \/ record.status \in {"blocked", "failed"}
    \/ /\ Interval[s] # NoInterval
       /\ record.observed = Never \/ clock >= record.observed + Interval[s]

(* Wrong: every stale source is deprecated, a blocked one among them.      *)
SweptWhateverStatus(s, record) ==
    IF Stale(s, record) THEN [record EXCEPT !.status = "deprecated"] ELSE record

(* update_stale_source_status                                              *)
Swept(s, record) ==
    IF Stale(s, record) /\ record.status = "active"
    THEN [record EXCEPT !.status = "deprecated"] ELSE record

UpdateStaleSourceStatus(s) ==
    /\ registry[s] # Absent
    /\ registry' = [registry EXCEPT ![s] = Swept(s, @)]
    /\ versions' = [versions EXCEPT ![s] = @ \cup {Swept(s, registry[s])}]
    /\ answer' = Absent
    /\ UNCHANGED <<inflight, stored, chunks, clock, edits>>

-----------------------------------------------------------------------------
(* Ingestion copies the record it was given into storage.                  *)

(* run_ingestion_job: the caller passes the record it got from the         *)
(* registry; its status is not looked at.                                  *)
RunIngestionJob(s) ==
    /\ registry[s] # Absent
    /\ inflight' = inflight \cup {<<s, registry[s]>>}
    /\ answer' = Absent
    /\ UNCHANGED <<registry, stored, chunks, clock, edits, versions>>

(* Wrong: the license is copied where the access policy belongs.           *)
InheritedLicense(record, listed) ==
    [document |-> record.policy.license, level |-> record.policy.level,
     allowed |-> IF listed THEN record.policy.allowed ELSE {}]

(* create_document_record and split_document_into_chunks: a document's     *)
(* policy is its source's, a chunk's is its document's; the allow list     *)
(* comes along only if the splitter was given the source.                  *)
Inherited(record, listed) ==
    [document |-> record.policy.level, level |-> record.policy.level,
     allowed |-> IF listed THEN record.policy.allowed ELSE {}]

(* commit_storage_bundle, the source of which is optional.  Chunks of      *)
(* another version of the text stay, with the document they came with.     *)
CommitStorageBundle(s) ==
    \E f \in inflight, cut \in SUBSET Chunks, withSource, listed \in BOOLEAN :
        /\ f[1] = s
        /\ \A c \in cut : SourceOf[c] = s
        /\ inflight' = inflight \ {f}
        /\ stored' = IF withSource THEN [stored EXCEPT ![s] = f[2]] ELSE stored
        /\ chunks' = [c \in Chunks |-> IF c \in cut THEN Inherited(f[2], listed) ELSE chunks[c]]
        /\ answer' = Absent
        /\ UNCHANGED <<registry, clock, edits, versions>>

(* A caller gives one chunk a policy of its own.                           *)
SaveChunk(c) ==
    /\ chunks[c] # Absent
    /\ edits < MaxEdits
    /\ edits' = edits + 1
    /\ \E policy \in Policies :
          chunks' = [chunks EXCEPT ![c].level = policy.level, ![c].allowed = policy.allowed]
    /\ answer' = Absent
    /\ UNCHANGED <<registry, inflight, stored, clock, versions>>

-----------------------------------------------------------------------------
(* Search.                                                                 *)

(* _missing_access_reason                                                  *)
MissingAccess(c) ==
    \/ stored[SourceOf[c]] = Absent
    \/ stored[SourceOf[c]].policy.level = "none"
    \/ chunks[c].document = "none"
    \/ chunks[c].level = "none"

(* _access_policy_denial, which finds no reason to deny                    *)
NotDenied(level, allowed, user) ==
    \/ level = "public"
    \/ level = "internal" /\ ("internal" \in user.scopes \/ user.principal \in allowed)
    \/ level \in {"confidential", "restricted"} /\ user.principal \in allowed

(* Wrong: the document is taken to be as open as its source.               *)
ChunkAccessOnly(c, user) ==
    NotDenied(chunks[c].level,
              IF chunks[c].allowed # {} THEN chunks[c].allowed
              ELSE stored[SourceOf[c]].policy.allowed, user)

(* _record_access_denial: a chunk without an allow list uses its source's. *)
RecordAccess(c, user) ==
    LET listed == stored[SourceOf[c]].policy.allowed IN
    /\ NotDenied(chunks[c].document, listed, user)
    /\ NotDenied(chunks[c].level,
                 IF chunks[c].allowed # {} THEN chunks[c].allowed ELSE listed, user)

(* Wrong: the registry is asked for access, but not for the whole policy.  *)
FilterByAccessOnly(candidates, records, user, use) ==
    {c \in candidates :
        /\ ~MissingAccess(c)
        /\ records[SourceOf[c]] # Absent
        /\ RecordAccess(c, user)
        /\ CheckSourceAccess(records[SourceOf[c]], user)}

(* apply_access_filter over the candidates, with the given source records. *)
ApplyAccessFilter(candidates, records, user, use) ==
    {c \in candidates :
        /\ ~MissingAccess(c)
        /\ records[SourceOf[c]] # Absent
        /\ RecordAccess(c, user)
        /\ ApplySourcePolicy(records[SourceOf[c]], user, use)}

(* An index returns its top_k best hits; any of them may be the best.      *)
TopOf(hits) ==
    IF Cardinality(hits) <= TopK THEN {hits} ELSE kSubset(TopK, hits)

(* run_hybrid_search: each index cuts its hits to top_k, then the access   *)
(* filter runs, then the merge cuts again.                                 *)
RunHybridSearch(user, use) ==
    /\ answer = Absent
    /\ \E hits \in SUBSET {c \in Chunks : chunks[c] # Absent} :
       \E keyword \in TopOf(hits), vector \in TopOf(hits) :
       \E merged \in TopOf(ApplyAccessFilter(keyword \cup vector, stored, user, use)) :
          answer' = [user |-> user, use |-> use, hits |-> hits, released |-> merged,
                     records |-> "stored"]
    /\ UNCHANGED <<registry, inflight, stored, chunks, clock, edits, versions>>

(* apply_access_filter as a caller with a registry of its own uses it.     *)
FilterWithRegistry(user, use) ==
    /\ answer = Absent
    /\ \E hits \in SUBSET {c \in Chunks : chunks[c] # Absent} :
          answer' = [user |-> user, use |-> use, hits |-> hits,
                     released |-> ApplyAccessFilter(hits, registry, user, use),
                     records |-> "registry"]
    /\ UNCHANGED <<registry, inflight, stored, chunks, clock, edits, versions>>

(* The caller is done with the result.                                     *)
DropAnswer ==
    /\ answer # Absent
    /\ answer' = Absent
    /\ UNCHANGED <<registry, inflight, stored, chunks, clock, edits, versions>>

Tick ==
    /\ clock < MaxTime
    /\ clock' = clock + 1
    /\ answer' = Absent
    /\ UNCHANGED <<registry, inflight, stored, chunks, edits, versions>>

Next ==
    \/ \E s \in Sources : \/ RegisterSource(s) \/ UpdateSourceStatus(s) \/ SaveSource(s)
                          \/ UpdateStaleSourceStatus(s)
                          \/ RunIngestionJob(s) \/ CommitStorageBundle(s)
    \/ \E c \in Chunks : SaveChunk(c)
    \/ \E user \in Users, use \in Uses : RunHybridSearch(user, use) \/ FilterWithRegistry(user, use)
    \/ DropAnswer
    \/ Tick

Spec == Init /\ [][Next]_vars

-----------------------------------------------------------------------------
(* Properties.                                                             *)

Answer == [user : Users, use : Uses, hits : SUBSET Chunks, released : SUBSET Chunks,
           records : {"stored", "registry"}]
ASSUME AbsentAnswerAssumption == Absent \notin Answer

(* Every variable holds what the code can put there, and a bundle is only  *)
(* ever cut from a record the registry has held.                           *)
TypeOK ==
    /\ registry \in [Sources -> Record \cup {Absent}]
    /\ inflight \subseteq Sources \X Record
    /\ stored \in [Sources -> Record \cup {Absent}]
    /\ chunks \in [Chunks -> ChunkMeta \cup {Absent}]
    /\ answer \in Answer \cup {Absent}
    /\ clock \in Nat
    /\ edits \in Nat
    /\ versions \in [Sources -> SUBSET Record]

(* The access rule stated once, as a set of callers: everybody, insiders   *)
(* and those listed, those listed, nobody.                                 *)
Audience(level, allowed) ==
    LET listed == {u \in Users : u.principal \in allowed} IN
    CASE level = "public" -> Users
      [] level = "internal" -> listed \cup {u \in Users : u.scopes # {}}
      [] level \in {"confidential", "restricted"} -> listed
      [] OTHER -> {}

(* Evidence reaches a caller only if the source's stored record, the       *)
(* document and the chunk each admit that caller, whichever of the three   *)
(* was written last and however the others have changed since.  A chunk    *)
(* with a list of its own is read with it, one without with its source's.  *)
ReleasedToItsAudience ==
    answer # Absent =>
        \A c \in answer.released :
            LET policy == stored[SourceOf[c]].policy
                listed == IF chunks[c].allowed = {} THEN policy.allowed ELSE chunks[c].allowed
            IN /\ stored[SourceOf[c]] # Absent
               /\ answer.records = "stored" => answer.user \in Audience(policy.level, policy.allowed)
               /\ answer.user \in Audience(chunks[c].document, policy.allowed)
               /\ answer.user \in Audience(chunks[c].level, listed)

(* End to end: whatever copies of a source's record are in flight or in    *)
(* storage, and in whatever order they land, a caller sees evidence of a   *)
(* source only if some version of its registry record would have allowed   *)
(* this caller this use.  The stale copies can be late, never generous.    *)
NeverAllowedNeverSees ==
    answer # Absent =>
        \A c \in answer.released :
            \E record \in versions[SourceOf[c]] :
                ApplySourcePolicy(record, answer.user, answer.use)

(* A search whose hits all fit in top_k withholds nothing that the filter's*)
(* layers admit: it loses no evidence to the order of its two cuts, and    *)
(* evidence of a deprecated or pending source is still found.              *)
FittingEvidenceIsFound ==
    answer # Absent /\ answer.records = "stored" /\ Cardinality(answer.hits) <= TopK =>
        \A c \in answer.hits \ answer.released :
            LET record == stored[SourceOf[c]] IN
            \/ record = Absent
            \/ record.status \in {"blocked", "failed"}
            \/ answer.use = "high-risk" /\ record.policy.license # "allowed"
            \/ answer.user \notin Audience(record.policy.level, record.policy.allowed)
            \/ answer.user \notin Audience(chunks[c].document, record.policy.allowed)
            \/ answer.user \notin Audience(chunks[c].level,
                   IF chunks[c].allowed = {} THEN record.policy.allowed ELSE chunks[c].allowed)

(* Deprecating a stale source changes who may see it for no caller and no  *)
(* use (docs/production_readiness.md:18), and gives a source back to       *)
(* nobody that an operator has blocked.                                    *)
SweepKeepsAccess ==
    [][\A s \in Sources : UpdateStaleSourceStatus(s) =>
          \A user \in Users, use \in Uses :
              ApplySourcePolicy(registry[s], user, use)
                  = ApplySourcePolicy(registry'[s], user, use)]_vars
=============================================================================

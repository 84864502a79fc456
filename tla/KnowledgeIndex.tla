--------------------------- MODULE KnowledgeIndex ---------------------------
(* The graph records, the embeddings and the reverse indexes kept beside the *)
(* stored chunks (storage/__init__.py, storage/durable.py, enrichment and    *)
(* retrieval/indexing.py), how each commit updates them, and what is left of *)
(* them after a failed save, a rollback, one that is cut short, and a reload.*)
(*                                                                           *)
(* The id of a chunk is a digest of its text, the id of an entity of its     *)
(* normalised name, that of a relation of its ends and its evidence: a chunk *)
(* id determines what is extracted from it, and an id stands for its record. *)
EXTENDS Naturals, FiniteSets

CONSTANTS
    ChunkIds,
    Documents,
    Keys,        \* normalised entity names, which are the entity ids
    Mentions,    \* the entities a chunk's text names
    Links,       \* the pairs of entities a chunk's text relates
    Wordless,    \* chunks without a word: nothing to embed or to index
    NoChunk,
    MaxCalls     \* bound on calls

ASSUME TextAssumption ==
    /\ Mentions \in [ChunkIds -> SUBSET Keys]
    /\ Links \in [ChunkIds -> SUBSET (Keys \X Keys)]
    /\ \A id \in ChunkIds : \A link \in Links[id] : {link[1], link[2]} \subseteq Mentions[id]

ASSUME WordlessAssumption ==
    /\ Wordless \subseteq ChunkIds
    /\ \A id \in Wordless : Mentions[id] = {}

ASSUME MaxCallsAssumption == MaxCalls \in Nat

Relation == [from : Keys, to : Keys, evidence : SUBSET ChunkIds]

\* A chunk record: its document, its graph flags, its two index pointers.
Chunk ==
    [document : Documents, entities : SUBSET Keys, relations : SUBSET Relation,
     embedding : BOOLEAN, terms : BOOLEAN]

ASSUME NoChunkAssumption == NoChunk \notin Chunk

Store ==
    [chunks : [ChunkIds -> Chunk \cup {NoChunk}],
     entities : SUBSET Keys,
     relations : SUBSET Relation,
     aliases : SUBSET Keys,                              \* entity_ids_by_alias
     relationsOf : [Keys -> SUBSET Relation],            \* relation_ids_by_entity_id
     relationsAt : [ChunkIds -> SUBSET Relation],        \* relation_ids_by_chunk_id
     entitiesAt : [ChunkIds -> SUBSET Keys],             \* entity_ids_by_chunk_id
     chunksOf : [Keys -> SUBSET ChunkIds],               \* chunk_ids_by_entity_id
     embeddings : SUBSET ChunkIds,                       \* vector_embeddings
     terms : SUBSET ChunkIds]                            \* sparse_terms

\* Of these, three have a file. What counts of it is what a reload finds: a file
\* that is absent, or does not parse, has no records.
Files ==
    [chunks : [ChunkIds -> Chunk \cup {NoChunk}],
     entities : SUBSET Keys, relations : SUBSET Relation]

VARIABLES
    store,       \* what the process holds
    files,       \* what the directory holds
    runtime,     \* chunks in the private index of the vector backend adapter
    call,        \* the call under way: what it was given and has still to save
    restoring,   \* files the rollback under way has still to restore
    unsettled,   \* history: those, and the ones a rollback did not get to restore
                 \* and no save has rewritten since
    loaded,      \* history: the files as the last reload found them
    damaged,     \* history: that one of the reloads came upon unsettled files
    handed,      \* history: chunks a graph commit was handed before they were stored
    calls        \* calls so far

vars == <<store, files, runtime, call, restoring, unsettled, loaded, damaged, handed, calls>>

Tables == {"chunks", "entities", "relations"}

Stored(s) == {id \in ChunkIds : s.chunks[id] # NoChunk}
NoChunks == [id \in ChunkIds |-> NoChunk]

(***************************************************************************)
(* Extraction: enrichment/__init__.py                                      *)
(***************************************************************************)

\* A chunk as the splitter makes it.
Fresh(document) ==
    [document |-> document, entities |-> {}, relations |-> {}, embedding |-> FALSE, terms |-> FALSE]

ExtractedEntities(batch) == UNION {Mentions[id] : id \in batch}

\* One relation for each pair a batch relates, with all chunks of it that do.
ExtractedRelations(batch) ==
    {[from |-> link[1], to |-> link[2], evidence |-> {id \in batch : link \in Links[id]}] :
        link \in UNION {Links[id] : id \in batch}}

\* The flags a chunk of a batch is given.
WithGraphFlags(id, chunk, batch) ==
    [chunk EXCEPT
        !.entities = @ \cup Mentions[id],
        !.relations = @ \cup {r \in ExtractedRelations(batch) : id \in r.evidence}]

(***************************************************************************)
(* The saves, in memory                                                    *)
(***************************************************************************)

SaveChunk(s, id, chunk) == [s EXCEPT !.chunks[id] = chunk]

SaveEntity(s, key) ==
    [s EXCEPT !.entities = @ \cup {key}, !.aliases = @ \cup {key}]

Ends(r) == {r.from, r.to}

\* Wrong: a relation is not found from its evidence.
SaveRelationByEnds(s, r) ==
    [s EXCEPT
        !.relations = @ \cup {r},
        !.relationsOf = [k \in Keys |-> IF k \in Ends(r) THEN @[k] \cup {r} ELSE @[k]]]

SaveRelation(s, r) ==
    [s EXCEPT
        !.relations = @ \cup {r},
        !.relationsOf = [k \in Keys |-> IF k \in Ends(r) THEN @[k] \cup {r} ELSE @[k]],
        !.relationsAt = [id \in ChunkIds |-> IF id \in r.evidence THEN @[id] \cup {r} ELSE @[id]]]

\* The entities a chunk is linked to: those it is flagged with and the ends of
\* the stored relations it is flagged with.
LinkedEntities(s, chunk) ==
    chunk.entities \cup UNION {Ends(r) : r \in chunk.relations \cap s.relations}

\* Wrong: only one of the two directions.
IndexOneWay(s, id, chunk) ==
    [s EXCEPT !.entitiesAt[id] = @ \cup LinkedEntities(s, chunk), !.relationsAt[id] = @ \cup chunk.relations]

\* The indexes of a chunk's flags, before the chunk itself is saved.
IndexFlags(s, id, chunk) ==
    LET linked == LinkedEntities(s, chunk)
    IN  [s EXCEPT
            !.entitiesAt[id] = @ \cup linked,
            !.chunksOf = [k \in Keys |-> IF k \in linked THEN @[k] \cup {id} ELSE @[k]],
            !.relationsAt[id] = @ \cup chunk.relations]

LinkChunk(s, id, chunk) ==
    SaveChunk(IndexFlags(s, id, chunk), id, [chunk EXCEPT !.entities = LinkedEntities(s, chunk)])

\* Wrong: the copy handed in goes on top of what is stored.
PassedCopy(s, id, chunk) == chunk

\* An index commit starts from the stored chunk, when there is one.
BaseChunk(s, id, chunk) == IF s.chunks[id] = NoChunk THEN chunk ELSE s.chunks[id]

\* Wrong: the pointer without its embedding.
PointOnly(s, id, chunk) == SaveChunk(s, id, [BaseChunk(s, id, chunk) EXCEPT !.embedding = TRUE])

CommitEmbedding(s, id, chunk) ==
    SaveChunk([s EXCEPT !.embeddings = @ \cup {id}], id, [BaseChunk(s, id, chunk) EXCEPT !.embedding = TRUE])

CommitTerms(s, id, chunk) ==
    SaveChunk([s EXCEPT !.terms = @ \cup {id}], id, [BaseChunk(s, id, chunk) EXCEPT !.terms = TRUE])

\* What a process makes of the files when it starts: entities and relations are
\* saved once more, in memory; nothing is made of the flags of the chunks, and
\* the records the indexes point to are gone.
LoadedStore(f) ==
    [chunks |-> f.chunks, entities |-> f.entities, relations |-> f.relations, aliases |-> f.entities,
     relationsOf |-> [k \in Keys |-> {r \in f.relations : k \in Ends(r)}],
     relationsAt |-> [id \in ChunkIds |-> {r \in f.relations : id \in r.evidence}],
     entitiesAt |-> [id \in ChunkIds |-> {}], chunksOf |-> [k \in Keys |-> {}],
     embeddings |-> {}, terms |-> {}]

(***************************************************************************)
(* Calls. One call runs at a time; its saves are the steps at which a file *)
(* write may fail or the process stop.                                     *)
(***************************************************************************)

NoCall == [kind |-> "none"]

\* What a call has still to save.
Work ==
    [plain : SUBSET ChunkIds, entities : SUBSET Keys, relations : SUBSET Relation,
     links : SUBSET ChunkIds, pointers : SUBSET ChunkIds]

NoWork == [plain |-> {}, entities |-> {}, relations |-> {}, links |-> {}, pointers |-> {}]

\* kind, the copies of chunks it was handed, what it has still to save, and what
\* there was before it.
Call ==
    {NoCall} \cup
    [kind : {"bundle", "recovery", "graph", "vectors", "terms", "runtime"},
     copies : [ChunkIds -> Chunk \cup {NoChunk}],
     todo : Work,
     before : [store : Store, files : Files, unsettled : SUBSET Tables, todo : Work]]

Idle == call.kind = "none"
RollingBack == restoring # {}
Running == call.kind # "none" /\ ~RollingBack

\* What enrichment leaves to save of a batch.
GraphWork(batch) ==
    [NoWork EXCEPT
        !.entities = ExtractedEntities(batch), !.relations = ExtractedRelations(batch), !.links = batch]

Begin(kind, copies, todo) ==
    /\ Idle
    /\ calls < MaxCalls
    /\ calls' = calls + 1
    /\ call' = [kind |-> kind, copies |-> copies, todo |-> todo,
                before |-> [store |-> store, files |-> files, unsettled |-> unsettled, todo |-> todo]]
    /\ UNCHANGED <<store, files, runtime, restoring, unsettled, loaded, damaged>>

\* The copies of a chunk a caller may hold, whether it is stored or not: as the
\* splitter made it of this or another document, or as it is stored.
Held(id) == {Fresh(document) : document \in Documents} \cup ({store.chunks[id]} \ {NoChunk})

HeldCopies(batch) ==
    {[id \in ChunkIds |-> IF id \in batch THEN copy[id] ELSE NoChunk] :
        copy \in {c \in [batch -> UNION {Held(id) : id \in batch}] : \A id \in batch : c[id] \in Held(id)}}

\* commit_storage_bundle, alone or with recovery.
BeginBundle(kind, batch, document, enrich) ==
    /\ Begin(kind,
             [id \in ChunkIds |-> IF id \in batch THEN Fresh(document) ELSE NoChunk],
             [(IF enrich THEN GraphWork(batch) ELSE NoWork) EXCEPT !.plain = batch])
    /\ UNCHANGED handed

BeginGraph(batch, copies) ==
    /\ Begin("graph", copies, GraphWork(batch))
    /\ handed' = handed \cup {id \in batch : NoChunk \in {store.chunks[id], files.chunks[id]}}

BeginIndexing(kind, batch, copies) ==
    /\ Begin(kind, copies, [NoWork EXCEPT !.pointers = batch \ Wordless])
    /\ UNCHANGED handed

\* Wrong: relations as soon as the chunks are saved.
RelationsEarly(todo) == todo.plain = {}

\* The order of the saves: chunks, entities, relations, then the linked chunks.
EntitiesDue(todo) == todo.plain = {}
RelationsDue(todo) == todo.plain = {} /\ todo.entities = {}
LinksDue(todo) == RelationsDue(todo) /\ todo.relations = {}
NothingDue(todo) == LinksDue(todo) /\ todo.links = {} /\ todo.pointers = {}

\* A failure ends a call and leaves it half done. With recovery it begins a
\* rollback, which sets memory back at once and has the files still to restore.
Fail(next) ==
    IF call.kind = "recovery"
    THEN /\ store' = call.before.store
         /\ restoring' = Tables
         /\ unsettled' = Tables
         /\ UNCHANGED <<files, call>>
    ELSE /\ store' = next
         /\ call' = NoCall
         /\ UNCHANGED <<files, restoring, unsettled>>

\* A save: memory first, then the table's file, whose write may fail.
Save(next, table, file, todo) ==
    /\ UNCHANGED <<loaded, damaged, handed, calls>>
    /\ \/ /\ store' = next
          /\ files' = file
          /\ call' = [call EXCEPT !.todo = todo]
          /\ unsettled' = unsettled \ {table}
          /\ UNCHANGED restoring
       \/ Fail(next)

ChunkFile(s) == [files EXCEPT !.chunks = s.chunks]
EntityFile(s) == [files EXCEPT !.entities = s.entities]
RelationFile(s) == [files EXCEPT !.relations = s.relations]

SaveOneChunk(id) ==
    /\ Running
    /\ id \in call.todo.plain
    /\ LET next == SaveChunk(store, id, call.copies[id])
       IN  Save(next, "chunks", ChunkFile(next), [call.todo EXCEPT !.plain = @ \ {id}])
    /\ UNCHANGED runtime

SaveOneEntity(k) ==
    /\ Running
    /\ EntitiesDue(call.todo)
    /\ k \in call.todo.entities
    /\ LET next == SaveEntity(store, k)
       IN  Save(next, "entities", EntityFile(next), [call.todo EXCEPT !.entities = @ \ {k}])
    /\ UNCHANGED runtime

SaveOneRelation(r) ==
    /\ Running
    /\ RelationsDue(call.todo)
    /\ r \in call.todo.relations
    /\ LET next == SaveRelation(store, r)
       IN  Save(next, "relations", RelationFile(next), [call.todo EXCEPT !.relations = @ \ {r}])
    /\ UNCHANGED runtime

\* The batch of a graph commit: the chunks it was handed.
Batch(c) == {id \in ChunkIds : c.copies[id] # NoChunk}

LinkOneChunk(id) ==
    /\ Running
    /\ LinksDue(call.todo)
    /\ id \in call.todo.links
    /\ LET next == LinkChunk(store, id, WithGraphFlags(id, call.copies[id], Batch(call)))
       IN  Save(next, "chunks", ChunkFile(next), [call.todo EXCEPT !.links = @ \ {id}])
    /\ UNCHANGED runtime

\* commit_vectors, alone or through the adapter and its private index, and
\* commit_sparse_index.
IndexOneChunk(id) ==
    /\ Running
    /\ id \in call.todo.pointers
    /\ LET next == IF call.kind = "terms" THEN CommitTerms(store, id, call.copies[id])
                   ELSE CommitEmbedding(store, id, call.copies[id])
       IN  Save(next, "chunks", ChunkFile(next), [call.todo EXCEPT !.pointers = @ \ {id}])
    /\ runtime' = IF call.kind = "runtime" THEN runtime \cup {id} ELSE runtime

\* The log of the call is written last, and may fail as well.
Return ==
    /\ Running
    /\ NothingDue(call.todo)
    /\ UNCHANGED <<runtime, loaded, damaged, handed, calls>>
    /\ \/ call' = NoCall /\ UNCHANGED <<store, files, restoring, unsettled>>
       \/ Fail(store)

\* The files are rewritten in this order.
DueForRestore ==
    CHOOSE table \in restoring :
        \/ table = "chunks"
        \/ table = "entities" /\ "chunks" \notin restoring
        \/ restoring = {"relations"}

\* One file is as it was when the call began. After the last one the call ends, or
\* is tried again from its beginning.
RestoreFile ==
    /\ RollingBack
    /\ LET table == DueForRestore
       IN  /\ files' = [files EXCEPT ![table] = call.before.files[table]]
           /\ restoring' = restoring \ {table}
           /\ unsettled' = (unsettled \ {table}) \cup ({table} \cap call.before.unsettled)
    /\ call' \in IF restoring' # {} THEN {call} ELSE {NoCall, [call EXCEPT !.todo = call.before.todo]}
    /\ UNCHANGED <<store, runtime, loaded, damaged, handed, calls>>

EmptyTable(table) == IF table = "chunks" THEN NoChunks ELSE {}

\* A rollback that is cut short: the file it was about to rewrite, in place, is as
\* it was or does not parse, and those after it are not restored. An exception
\* leaves the call; a process that stops leaves the same files to the Restart.
RestoreFails ==
    /\ RollingBack
    /\ files' \in {files, [files EXCEPT ![DueForRestore] = EmptyTable(DueForRestore)]}
    /\ restoring' = {}
    /\ call' = NoCall
    /\ UNCHANGED <<store, runtime, unsettled, loaded, damaged, handed, calls>>

\* The process stops, anywhere, and another starts from the files.
Restart ==
    /\ store' = LoadedStore(files)
    /\ runtime' = {}
    /\ call' = NoCall
    /\ restoring' = {}
    /\ unsettled' = {}
    /\ loaded' = files
    /\ damaged' = (damaged \/ unsettled # {})
    /\ UNCHANGED <<files, handed, calls>>

Done ==
    /\ Idle
    /\ calls = MaxCalls
    /\ UNCHANGED vars

\* What a bundle leaves in the files when it was committed with its graph; without
\* chunks, the files of an empty directory.
Committed(batch, document) ==
    [chunks |-> [id \in ChunkIds |->
                    IF id \in batch THEN WithGraphFlags(id, Fresh(document), batch) ELSE NoChunk],
     entities |-> ExtractedEntities(batch),
     relations |-> ExtractedRelations(batch)]

\* A process starts on a directory another one may have used.
Init ==
    /\ \E batch \in SUBSET ChunkIds, document \in Documents : files = Committed(batch, document)
    /\ store = LoadedStore(files)
    /\ runtime = {}
    /\ call = NoCall
    /\ restoring = {}
    /\ unsettled = {}
    /\ loaded = files
    /\ damaged = FALSE
    /\ handed = {}
    /\ calls = 0

BeginSome ==
    \/ \E batch \in (SUBSET ChunkIds) \ {{}}, document \in Documents, enrich \in BOOLEAN :
          \E kind \in {"bundle", "recovery"} : BeginBundle(kind, batch, document, enrich)
    \/ \E batch \in (SUBSET ChunkIds) \ {{}} : \E copies \in HeldCopies(batch) :
          \/ BeginGraph(batch, copies)
          \/ \E kind \in {"vectors", "terms", "runtime"} : BeginIndexing(kind, batch, copies)

Next ==
    \/ BeginSome
    \/ \E id \in ChunkIds : SaveOneChunk(id) \/ LinkOneChunk(id) \/ IndexOneChunk(id)
    \/ \E k \in Keys : SaveOneEntity(k)
    \/ \E r \in Relation : SaveOneRelation(r)
    \/ Return
    \/ RestoreFile
    \/ RestoreFails
    \/ Restart
    \/ Done

Spec == Init /\ [][Next]_vars

(***************************************************************************)
(* Properties                                                              *)
(***************************************************************************)

TypeOK ==
    /\ store \in Store
    /\ files \in Files
    /\ runtime \in SUBSET ChunkIds
    /\ call \in Call
    /\ restoring \in SUBSET Tables
    /\ RollingBack => call.kind = "recovery"
    /\ unsettled \in SUBSET Tables
    /\ loaded \in Files
    /\ damaged \in BOOLEAN
    /\ handed \in SUBSET ChunkIds
    /\ calls \in 0..MaxCalls

\* The ids that dangle in some tables: chunks and relations name them, and there
\* is no record of them.
MissingEntities(f) ==
    ((UNION {Ends(r) : r \in f.relations}) \cup (UNION {f.chunks[id].entities : id \in Stored(f)}))
        \ f.entities

MissingRelations(f) == (UNION {f.chunks[id].relations : id \in Stored(f)}) \ f.relations

MissingChunks(f) == (UNION {r.evidence : r \in f.relations}) \ Stored(f)

\* Nothing dangles in these tables that did not dangle when they were loaded, but
\* evidence a graph commit named before it was stored.
NothingLost(f) ==
    /\ MissingEntities(f) \subseteq MissingEntities(loaded)
    /\ MissingRelations(f) \subseteq MissingRelations(loaded)
    /\ MissingChunks(f) \subseteq MissingChunks(loaded) \cup handed

\* Whatever failed, was rolled back, wholly or in part, or reloaded: the name and
\* the entity of every stored relation find it, its evidence finds it, and no
\* other. The one thing indexed without a record is a relation whose file a
\* rollback lost, and which a chunk still named when it was loaded.
IndexesAreWhole ==
    /\ store.aliases = store.entities
    /\ \A k \in Keys : store.relationsOf[k] = {r \in store.relations : k \in Ends(r)}
    /\ \A id \in ChunkIds :
          /\ store.relationsAt[id] \cap store.relations = {r \in store.relations : id \in r.evidence}
          /\ store.relationsAt[id] \ store.relations \subseteq MissingRelations(loaded)

\* No save, in whatever order commits fail and processes stop, leaves an id that
\* dangles, in memory or on disk. Only a rollback cut short can: the files it did
\* not get to restore do not fit the others until they are rewritten, and what
\* does not fit when they are reloaded stays; without such a reload nothing dangles
\* at all. And a graph commit of chunks not yet stored saves its relations first.
GraphIsClosed ==
    /\ NothingLost(store)
    /\ unsettled = {} => NothingLost(files)
    /\ ~damaged =>
          /\ MissingEntities(loaded) = {} /\ MissingRelations(loaded) = {}
          /\ MissingChunks(loaded) \subseteq handed

\* What verify_graph_storage reports of the flags of a chunk.
EntityComplaints(id) ==
    {k \in store.chunks[id].entities : k \notin store.entitiesAt[id] \/ id \notin store.chunksOf[k]}

RelationComplaints(id) == store.chunks[id].relations \ store.relationsAt[id]

\* The links from chunks to entities and relations are complete but for one case:
\* those a chunk was loaded with. Of these a reload does not index an entity, nor
\* a relation whose record it did not find.
LinksVerify ==
    /\ \A id \in ChunkIds, k \in Keys : k \in store.entitiesAt[id] <=> id \in store.chunksOf[k]
    /\ \A id \in Stored(store) :
          /\ EntityComplaints(id) # {} =>
                /\ loaded.chunks[id] # NoChunk
                /\ EntityComplaints(id) \subseteq loaded.chunks[id].entities
          /\ RelationComplaints(id) # {} =>
                /\ loaded.chunks[id] # NoChunk
                /\ RelationComplaints(id) \subseteq loaded.chunks[id].relations \ loaded.relations

\* A chunk that points to an embedding or to sparse terms has them in the
\* repository, unless it was loaded with that pointer: those records have no
\* file. And nothing is indexed that is not a stored chunk with words in it.
PointersResolve ==
    /\ \A id \in Stored(store) :
          /\ store.chunks[id].embedding /\ id \notin store.embeddings =>
                loaded.chunks[id] # NoChunk /\ loaded.chunks[id].embedding
          /\ store.chunks[id].terms /\ id \notin store.terms =>
                loaded.chunks[id] # NoChunk /\ loaded.chunks[id].terms
    /\ runtime \subseteq store.embeddings
    /\ store.embeddings \cup store.terms \subseteq Stored(store) \ Wordless

\* Indexing, given any copy of a stored chunk, cut from whatever document, changes
\* its own pointer and nothing else of what is stored: no flag, not the document,
\* not the other pointer; a chunk that is not stored is stored as it was handed in.
IndexingKeepsChunks ==
    [][\A id \in ChunkIds : call.kind \in {"vectors", "terms", "runtime"} /\ IndexOneChunk(id) =>
          LET chunk == IF id \in Stored(store) THEN store.chunks[id] ELSE call.copies[id]
          IN  /\ \A other \in ChunkIds \ {id} : store'.chunks[other] = store.chunks[other]
              /\ store'.chunks[id] =
                   IF call.kind = "terms" THEN [chunk EXCEPT !.terms = TRUE]
                   ELSE [chunk EXCEPT !.embedding = TRUE]]_vars

\* A restart finds again, from the same name and the same entity, every relation
\* graph search found before and whose file had been written.
RestartKeepsGraphSearch ==
    [][Restart =>
          /\ store.aliases \cap files.entities \subseteq store'.aliases
          /\ \A k \in Keys : store.relationsOf[k] \cap files.relations \subseteq store'.relationsOf[k]]_vars

=============================================================================

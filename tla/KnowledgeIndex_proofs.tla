------------------------ MODULE KnowledgeIndex_proofs ------------------------
(* Proofs about KnowledgeIndex, for any text, any number of chunks, entities *)
(* and calls: type correctness, the indexes, the closed graph, the links and  *)
(* pointers between records, and what index commits and restarts keep.       *)
EXTENDS KnowledgeIndex, TLAPS

\* A call that is not NoCall.
ActiveCall ==
    [kind : {"bundle", "recovery", "graph", "vectors", "terms", "runtime"},
     copies : [ChunkIds -> Chunk \cup {NoChunk}],
     todo : Work,
     before : [store : Store, files : Files, unsettled : SUBSET Tables, todo : Work]]

(***************************************************************************)
(* What each save makes of a store                                         *)
(***************************************************************************)

\* A saved chunk replaces the chunk of its id and nothing else (save_chunk).
LEMMA SaveChunkFacts ==
    ASSUME NEW s \in Store, NEW id \in ChunkIds, NEW chunk \in Chunk
    PROVE  LET t == SaveChunk(s, id, chunk)
           IN  /\ t \in Store
               /\ t.chunks = [s.chunks EXCEPT ![id] = chunk]
               /\ t.entities = s.entities /\ t.relations = s.relations /\ t.aliases = s.aliases
               /\ t.relationsOf = s.relationsOf /\ t.relationsAt = s.relationsAt
               /\ t.entitiesAt = s.entitiesAt /\ t.chunksOf = s.chunksOf
               /\ t.embeddings = s.embeddings /\ t.terms = s.terms
  BY DEF Store, SaveChunk

\* A saved entity is found by its name (save_entity).
LEMMA SaveEntityFacts ==
    ASSUME NEW s \in Store, NEW k \in Keys
    PROVE  LET t == SaveEntity(s, k)
           IN  /\ t \in Store
               /\ t.entities = s.entities \cup {k} /\ t.aliases = s.aliases \cup {k}
               /\ t.chunks = s.chunks /\ t.relations = s.relations
               /\ t.relationsOf = s.relationsOf /\ t.relationsAt = s.relationsAt
  BY DEF Store, SaveEntity

\* A relation has its ends among the entities and its evidence among the chunks.
LEMMA RelationFacts ==
    ASSUME NEW r \in Relation
    PROVE  Ends(r) \subseteq Keys /\ r.evidence \subseteq ChunkIds
  BY DEF Relation, Ends

\* A saved relation is found from its two ends and from each chunk of its
\* evidence (save_relation).
LEMMA SaveRelationFacts ==
    ASSUME NEW s \in Store, NEW r \in Relation
    PROVE  LET t == SaveRelation(s, r)
           IN  /\ t \in Store
               /\ t.relations = s.relations \cup {r}
               /\ \A k \in Keys : t.relationsOf[k] =
                     IF k \in Ends(r) THEN s.relationsOf[k] \cup {r} ELSE s.relationsOf[k]
               /\ \A id \in ChunkIds : t.relationsAt[id] =
                     IF id \in r.evidence THEN s.relationsAt[id] \cup {r} ELSE s.relationsAt[id]
               /\ t.chunks = s.chunks /\ t.entities = s.entities /\ t.aliases = s.aliases
  <1> DEFINE R == s.relations \cup {r}
             of == [k \in Keys |-> IF k \in Ends(r) THEN s.relationsOf[k] \cup {r} ELSE s.relationsOf[k]]
             at == [id \in ChunkIds |->
                       IF id \in r.evidence THEN s.relationsAt[id] \cup {r} ELSE s.relationsAt[id]]
             t == [s EXCEPT !.relations = R, !.relationsOf = of, !.relationsAt = at]
  <1>1. R \in SUBSET Relation /\ of \in [Keys -> SUBSET Relation] /\ at \in [ChunkIds -> SUBSET Relation]
    BY DEF Store
  <1>2. SaveRelation(s, r) = t
    BY DEF SaveRelation, Store
  <1> HIDE DEF R, of, at
  <1>3. /\ t \in Store
        /\ t.relations = R /\ t.relationsOf = of /\ t.relationsAt = at
        /\ t.chunks = s.chunks /\ t.entities = s.entities /\ t.aliases = s.aliases
    BY <1>1 DEF Store
  <1> HIDE DEF t
  <1>4. /\ \A k \in Keys : of[k] =
              IF k \in Ends(r) THEN s.relationsOf[k] \cup {r} ELSE s.relationsOf[k]
        /\ \A id \in ChunkIds : at[id] =
              IF id \in r.evidence THEN s.relationsAt[id] \cup {r} ELSE s.relationsAt[id]
    BY DEF of, at
  <1> QED
    BY <1>2, <1>3, <1>4 DEF R

\* A chunk with the flags of all the entities it is linked to.
Linked(s, chunk) == [chunk EXCEPT !.entities = LinkedEntities(s, chunk)]

\* A chunk and the entities it is linked to.
LEMMA LinkedFacts ==
    ASSUME NEW s \in Store, NEW chunk \in Chunk
    PROVE  /\ LinkedEntities(s, chunk) \in SUBSET Keys
           /\ Linked(s, chunk) \in Chunk
           /\ Linked(s, chunk).entities = LinkedEntities(s, chunk)
           /\ Linked(s, chunk).relations = chunk.relations
           /\ Linked(s, chunk).embedding = chunk.embedding /\ Linked(s, chunk).terms = chunk.terms
  <1>1. chunk.relations \subseteq Relation /\ chunk.entities \subseteq Keys
    BY DEF Chunk
  <1>2. LinkedEntities(s, chunk) \in SUBSET Keys
    BY <1>1, RelationFacts DEF LinkedEntities
  <1> QED
    BY <1>2 DEF Chunk, Linked

\* What linking a chunk does to the rest of a store: its flags, and they alone,
\* are indexed.
LinkedBeside(t, s, id, chunk) ==
    /\ \A c \in ChunkIds : t.relationsAt[c] =
          IF c = id THEN s.relationsAt[c] \cup chunk.relations ELSE s.relationsAt[c]
    /\ \A c \in ChunkIds : t.entitiesAt[c] =
          IF c = id THEN s.entitiesAt[c] \cup LinkedEntities(s, chunk) ELSE s.entitiesAt[c]
    /\ \A k \in Keys : t.chunksOf[k] =
          IF k \in LinkedEntities(s, chunk) THEN s.chunksOf[k] \cup {id} ELSE s.chunksOf[k]
    /\ t.entities = s.entities /\ t.relations = s.relations /\ t.aliases = s.aliases
    /\ t.relationsOf = s.relationsOf
    /\ t.embeddings = s.embeddings /\ t.terms = s.terms

\* A linked chunk is saved with its links, and indexed by its flags alone.
LEMMA LinkChunkFacts ==
    ASSUME NEW s \in Store, NEW id \in ChunkIds, NEW chunk \in Chunk,
           NEW t, t = LinkChunk(s, id, chunk)
    PROVE  /\ t \in Store
           /\ t.chunks = [s.chunks EXCEPT ![id] = Linked(s, chunk)]
           /\ LinkedBeside(t, s, id, chunk)
  <1> DEFINE linked == LinkedEntities(s, chunk)
             ents == [s.entitiesAt EXCEPT ![id] = s.entitiesAt[id] \cup linked]
             of == [k \in Keys |-> IF k \in linked THEN s.chunksOf[k] \cup {id} ELSE s.chunksOf[k]]
             at == [s.relationsAt EXCEPT ![id] = s.relationsAt[id] \cup chunk.relations]
             u == [s EXCEPT !.entitiesAt = ents, !.chunksOf = of, !.relationsAt = at]
             flagged == Linked(s, chunk)
  <1>1. linked \in SUBSET Keys /\ flagged \in Chunk /\ chunk.relations \in SUBSET Relation
    BY LinkedFacts DEF Chunk
  <1>2. IndexFlags(s, id, chunk) = u
    BY DEF IndexFlags, Store
  <1> HIDE DEF linked
  <1>3. /\ ents \in [ChunkIds -> SUBSET Keys] /\ of \in [Keys -> SUBSET ChunkIds]
        /\ at \in [ChunkIds -> SUBSET Relation]
    BY <1>1 DEF Store
  <1>4. /\ \A k \in Keys : of[k] = IF k \in linked THEN s.chunksOf[k] \cup {id} ELSE s.chunksOf[k]
        /\ \A c \in ChunkIds : at[c] = IF c = id THEN s.relationsAt[c] \cup chunk.relations ELSE s.relationsAt[c]
        /\ \A c \in ChunkIds : ents[c] = IF c = id THEN s.entitiesAt[c] \cup linked ELSE s.entitiesAt[c]
    BY DEF Store
  <1> HIDE DEF ents, of, at, flagged
  <1>5. /\ u \in Store
        /\ u.entitiesAt = ents /\ u.chunksOf = of /\ u.relationsAt = at
        /\ u.chunks = s.chunks /\ u.entities = s.entities /\ u.relations = s.relations
        /\ u.aliases = s.aliases /\ u.relationsOf = s.relationsOf
        /\ u.embeddings = s.embeddings /\ u.terms = s.terms
    BY <1>3 DEF Store
  <1> HIDE DEF u
  <1>6. t = SaveChunk(u, id, flagged)
    BY <1>2 DEF LinkChunk, Linked, flagged, linked
  <1>7. /\ t \in Store
        /\ t.chunks = [u.chunks EXCEPT ![id] = flagged]
        /\ t.entities = u.entities /\ t.relations = u.relations /\ t.aliases = u.aliases
        /\ t.relationsOf = u.relationsOf /\ t.relationsAt = u.relationsAt
        /\ t.entitiesAt = u.entitiesAt /\ t.chunksOf = u.chunksOf
        /\ t.embeddings = u.embeddings /\ t.terms = u.terms
    BY <1>1, <1>5, <1>6, SaveChunkFacts
  <1>8. t.chunks = [s.chunks EXCEPT ![id] = Linked(s, chunk)]
    BY <1>5, <1>7 DEF flagged
  <1>9. \A c \in ChunkIds : t.relationsAt[c] = IF c = id THEN s.relationsAt[c] \cup chunk.relations ELSE s.relationsAt[c]
    BY <1>4, <1>5, <1>7
  <1>10. \A c \in ChunkIds : t.entitiesAt[c] = IF c = id THEN s.entitiesAt[c] \cup linked ELSE s.entitiesAt[c]
    BY <1>4, <1>5, <1>7
  <1>11. \A k \in Keys : t.chunksOf[k] = IF k \in linked THEN s.chunksOf[k] \cup {id} ELSE s.chunksOf[k]
    BY <1>4, <1>5, <1>7
  <1>12. /\ t.entities = s.entities /\ t.relations = s.relations /\ t.aliases = s.aliases
         /\ t.relationsOf = s.relationsOf /\ t.embeddings = s.embeddings /\ t.terms = s.terms
    BY <1>5, <1>7
  <1> QED
    BY <1>7, <1>8, <1>9, <1>10, <1>11, <1>12 DEF linked, LinkedBeside

\* An embedding is kept and the stored chunk points to it (commit_vectors).
LEMMA EmbeddingFacts ==
    ASSUME NEW s \in Store, NEW id \in ChunkIds, NEW chunk, NEW base \in Chunk,
           base = BaseChunk(s, id, chunk)
    PROVE  LET t == CommitEmbedding(s, id, chunk)
           IN  /\ t \in Store
               /\ t.chunks = [s.chunks EXCEPT ![id] = [base EXCEPT !.embedding = TRUE]]
               /\ t.embeddings = s.embeddings \cup {id} /\ t.terms = s.terms
               /\ t.entities = s.entities /\ t.relations = s.relations /\ t.aliases = s.aliases
               /\ t.relationsOf = s.relationsOf /\ t.relationsAt = s.relationsAt
               /\ t.entitiesAt = s.entitiesAt /\ t.chunksOf = s.chunksOf
  <1> DEFINE u == [s EXCEPT !.embeddings = s.embeddings \cup {id}]
             pointed == [base EXCEPT !.embedding = TRUE]
  <1>1. pointed \in Chunk
    BY DEF Chunk
  <1>2. /\ u \in Store /\ u.chunks = s.chunks
        /\ u.embeddings = s.embeddings \cup {id} /\ u.terms = s.terms
        /\ u.entities = s.entities /\ u.relations = s.relations /\ u.aliases = s.aliases
        /\ u.relationsOf = s.relationsOf /\ u.relationsAt = s.relationsAt
        /\ u.entitiesAt = s.entitiesAt /\ u.chunksOf = s.chunksOf
    BY DEF Store
  <1>3. CommitEmbedding(s, id, chunk) = SaveChunk(u, id, pointed)
    BY DEF CommitEmbedding
  <1> HIDE DEF u, pointed
  <1>4. LET t == SaveChunk(u, id, pointed)
        IN  /\ t \in Store /\ t.chunks = [u.chunks EXCEPT ![id] = pointed]
            /\ t.embeddings = u.embeddings /\ t.terms = u.terms
            /\ t.entities = u.entities /\ t.relations = u.relations /\ t.aliases = u.aliases
            /\ t.relationsOf = u.relationsOf /\ t.relationsAt = u.relationsAt
            /\ t.entitiesAt = u.entitiesAt /\ t.chunksOf = u.chunksOf
    BY <1>1, <1>2, SaveChunkFacts
  <1> QED
    BY <1>2, <1>3, <1>4 DEF pointed

\* Sparse terms are kept and the stored chunk points to them
\* (commit_sparse_index).
LEMMA TermsFacts ==
    ASSUME NEW s \in Store, NEW id \in ChunkIds, NEW chunk, NEW base \in Chunk,
           base = BaseChunk(s, id, chunk)
    PROVE  LET t == CommitTerms(s, id, chunk)
           IN  /\ t \in Store
               /\ t.chunks = [s.chunks EXCEPT ![id] = [base EXCEPT !.terms = TRUE]]
               /\ t.terms = s.terms \cup {id} /\ t.embeddings = s.embeddings
               /\ t.entities = s.entities /\ t.relations = s.relations /\ t.aliases = s.aliases
               /\ t.relationsOf = s.relationsOf /\ t.relationsAt = s.relationsAt
               /\ t.entitiesAt = s.entitiesAt /\ t.chunksOf = s.chunksOf
  <1> DEFINE u == [s EXCEPT !.terms = s.terms \cup {id}]
             pointed == [base EXCEPT !.terms = TRUE]
  <1>2. pointed \in Chunk
    BY DEF Chunk
  <1>3. /\ u \in Store /\ u.chunks = s.chunks
        /\ u.terms = s.terms \cup {id} /\ u.embeddings = s.embeddings
        /\ u.entities = s.entities /\ u.relations = s.relations /\ u.aliases = s.aliases
        /\ u.relationsOf = s.relationsOf /\ u.relationsAt = s.relationsAt
        /\ u.entitiesAt = s.entitiesAt /\ u.chunksOf = s.chunksOf
    BY DEF Store
  <1>4. CommitTerms(s, id, chunk) = SaveChunk(u, id, pointed)
    BY DEF CommitTerms
  <1> HIDE DEF u, pointed
  <1>5. LET t == SaveChunk(u, id, pointed)
        IN  /\ t \in Store /\ t.chunks = [u.chunks EXCEPT ![id] = pointed]
            /\ t.embeddings = u.embeddings /\ t.terms = u.terms
            /\ t.entities = u.entities /\ t.relations = u.relations /\ t.aliases = u.aliases
            /\ t.relationsOf = u.relationsOf /\ t.relationsAt = u.relationsAt
            /\ t.entitiesAt = u.entitiesAt /\ t.chunksOf = u.chunksOf
    BY <1>2, <1>3, SaveChunkFacts
  <1> QED
    BY <1>3, <1>4, <1>5 DEF pointed

\* A reload finds what the files hold.
LEMMA LoadedFacts ==
    ASSUME NEW f \in Files
    PROVE  LoadedStore(f) \in Store
  BY DEF LoadedStore, Store, Files

\* What is extracted from a batch, and the flags it gives a chunk.
LEMMA ExtractedFacts ==
    ASSUME NEW batch \in SUBSET ChunkIds
    PROVE  /\ ExtractedEntities(batch) \in SUBSET Keys
           /\ ExtractedRelations(batch) \in SUBSET Relation
           /\ \A r \in ExtractedRelations(batch) :
                 Ends(r) \subseteq ExtractedEntities(batch) /\ r.evidence \subseteq batch
           /\ \A id \in batch : Mentions[id] \subseteq ExtractedEntities(batch)
  <1>1. ExtractedEntities(batch) \in SUBSET Keys
    BY TextAssumption DEF ExtractedEntities
  <1>2. \A id \in batch : Mentions[id] \subseteq ExtractedEntities(batch)
    BY DEF ExtractedEntities
  <1>3. ASSUME NEW r \in ExtractedRelations(batch)
        PROVE  r \in Relation /\ Ends(r) \subseteq ExtractedEntities(batch) /\ r.evidence \subseteq batch
    <2>1. PICK link \in UNION {Links[id] : id \in batch} :
              r = [from |-> link[1], to |-> link[2], evidence |-> {id \in batch : link \in Links[id]}]
      BY <1>3 DEF ExtractedRelations
    <2>2. PICK id \in batch : link \in Links[id]
      OBVIOUS
    <2>3. link \in Keys \X Keys /\ {link[1], link[2]} \subseteq Mentions[id]
      BY <2>2, TextAssumption
    <2>4. r.from = link[1] /\ r.to = link[2] /\ r.evidence \subseteq batch /\ r \in Relation
      BY <2>1, <2>3 DEF Relation
    <2> QED
      BY <1>2, <2>2, <2>3, <2>4 DEF Ends
  <1> QED
    BY <1>1, <1>2, <1>3

\* The flags of a chunk: its own and those of its batch.
LEMMA FlagFacts ==
    ASSUME NEW batch \in SUBSET ChunkIds, NEW id \in batch, NEW chunk \in Chunk
    PROVE  LET flagged == WithGraphFlags(id, chunk, batch)
           IN  /\ flagged \in Chunk
               /\ flagged.entities = chunk.entities \cup Mentions[id]
               /\ flagged.relations = chunk.relations \cup {r \in ExtractedRelations(batch) : id \in r.evidence}
               /\ flagged.embedding = chunk.embedding /\ flagged.terms = chunk.terms
  <1>1. ExtractedRelations(batch) \in SUBSET Relation /\ Mentions[id] \in SUBSET Keys
    BY ExtractedFacts, TextAssumption
  <1> QED
    BY <1>1 DEF WithGraphFlags, Chunk

(***************************************************************************)
(* The inductive invariant                                                 *)
(***************************************************************************)

\* What is missing anyhow: what dangled already when the files were loaded, and
\* evidence that was named before it was stored.
Gaps ==
    [entities |-> MissingEntities(loaded), relations |-> MissingRelations(loaded),
     chunks |-> MissingChunks(loaded) \cup handed]

\* The indexes graph search reads hold the stored records and, of others, only
\* relations that are missing anyhow.
Whole(s, m) ==
    /\ s.aliases = s.entities
    /\ \A k \in Keys : s.relationsOf[k] = {r \in s.relations : k \in Ends(r)}
    /\ \A id \in ChunkIds :
          /\ {r \in s.relations : id \in r.evidence} \subseteq s.relationsAt[id]
          /\ s.relationsAt[id] \subseteq {r \in s.relations \cup m.relations : id \in r.evidence}

\* The flags of a chunk name records of the files, relations it is evidence for.
Flagged(id, chunk, f, m) ==
    /\ chunk.entities \subseteq f.entities \cup m.entities
    /\ chunk.relations \subseteq {r \in f.relations \cup m.relations : id \in r.evidence}

\* A store and the files beside it. Memory may be ahead of the files by what a
\* failed save left, but whatever memory would write into a file refers only to
\* what the files have: that is what keeps each single save closed.
Good(s, f, m) ==
    /\ Whole(s, m)
    /\ Stored(f) \subseteq Stored(s)
    /\ f.entities \subseteq s.entities /\ f.relations \subseteq s.relations
    /\ \A r \in s.relations :
          Ends(r) \subseteq f.entities \cup m.entities /\ r.evidence \subseteq Stored(f) \cup m.chunks
    /\ \A id \in Stored(s) : Flagged(id, s.chunks[id], f, m)
    /\ \A id \in Stored(f) : Flagged(id, f.chunks[id], f, m)

\* The files as the saves to come will find them to be: those that are unsettled
\* count as what memory would write into them.
Mended(f, u, s) ==
    [chunks |-> IF "chunks" \in u THEN s.chunks ELSE f.chunks,
     entities |-> IF "entities" \in u THEN s.entities ELSE f.entities,
     relations |-> IF "relations" \in u THEN s.relations ELSE f.relations]

\* A chunk is flagged only with relations it is evidence for.
Evidenced(f) == \A id \in Stored(f) : \A r \in f.chunks[id].relations : id \in r.evidence

\* What a call has still to save refers to what the files have or to what it
\* saves before.
Due(c, f, m) ==
    /\ \A id \in Batch(c) : Flagged(id, c.copies[id], f, m)
    /\ c.todo.plain \cup c.todo.links \cup c.todo.pointers \subseteq Batch(c)
    /\ IF c.kind \in {"bundle", "recovery"} THEN c.todo.pointers = {} ELSE c.todo.plain = {}
    /\ \A r \in c.todo.relations :
          /\ Ends(r) \subseteq f.entities \cup c.todo.entities
          /\ r.evidence \subseteq Stored(f) \cup c.todo.plain \cup m.chunks
    /\ c.todo.links # {} =>
          /\ ExtractedEntities(Batch(c)) \subseteq f.entities \cup c.todo.entities
          /\ ExtractedRelations(Batch(c)) \subseteq f.relations \cup c.todo.relations

\* A call before its first save, and as it is tried again after a rollback.
Again(c) == [c EXCEPT !.todo = c.before.todo]

\* The files a call began with, those counted as above.
BeforeFiles(c) == Mended(c.before.files, c.before.unsettled, c.before.store)

\* A bundle can go back to where it began, and begin again from there.
CanGoBack(c, m) ==
    /\ Good(c.before.store, BeforeFiles(c), m)
    /\ Evidenced(c.before.files)
    /\ Due(Again(c), BeforeFiles(c), m)

\* How far the rollback under way has got.
Restored ==
    /\ store = call.before.store
    /\ \A table \in Tables :
          IF table \in restoring THEN table \in unsettled
          ELSE /\ files[table] = call.before.files[table]
               /\ table \in unsettled <=> table \in call.before.unsettled

\* Nothing dangles anyhow unless a reload came upon unsettled files.
Whence ==
    ~damaged =>
        /\ MissingEntities(loaded) = {} /\ MissingRelations(loaded) = {}
        /\ MissingChunks(loaded) \subseteq handed

IInv ==
    /\ TypeOK
    /\ Good(store, Mended(files, unsettled, store), Gaps)
    /\ Evidenced(files)
    /\ Whence
    /\ Running => Due(call, Mended(files, unsettled, store), Gaps)
    /\ call.kind = "recovery" => CanGoBack(call, Gaps)
    /\ RollingBack => Restored

\* A call under way has the fields of one.
LEMMA ActiveType ==
    ASSUME TypeOK, call.kind # "none"
    PROVE  /\ call \in ActiveCall
           /\ call.todo \in Work /\ call.copies \in [ChunkIds -> Chunk \cup {NoChunk}]
           /\ call.before.store \in Store /\ call.before.files \in Files
           /\ call.before.unsettled \in SUBSET Tables /\ call.before.todo \in Work
           /\ Batch(call) \in SUBSET ChunkIds
           /\ \A id \in Batch(call) : call.copies[id] \in Chunk
  <1>1. call \in ActiveCall
    BY DEF TypeOK, Call, NoCall, ActiveCall
  <1> QED
    BY <1>1 DEF ActiveCall, Batch

\* A step that only takes something off a call's list leaves the rest of it.
LEMMA TodoFacts ==
    ASSUME TypeOK, call.kind # "none", NEW todo \in Work
    PROVE  LET next == [call EXCEPT !.todo = todo]
           IN  /\ next \in ActiveCall /\ next.todo = todo
               /\ next.kind = call.kind /\ next.copies = call.copies /\ next.before = call.before
               /\ Batch(next) = Batch(call) /\ Again(next) = Again(call)
  <1>1. call \in ActiveCall
    BY ActiveType
  <1> QED
    BY <1>1 DEF ActiveCall, Batch, Again

\* The gaps change with what is loaded or handed in, and not otherwise.
LEMMA GapsFacts ==
    ASSUME loaded' = loaded, handed' = handed
    PROVE  Gaps' = Gaps
  BY DEF Gaps, MissingEntities, MissingRelations, MissingChunks, Stored

\* Files made whole are files.
LEMMA MendedFacts ==
    ASSUME NEW s \in Store, NEW f \in Files, NEW u
    PROVE  /\ Mended(f, u, s) \in Files
           /\ Mended(f, u, s).chunks = IF "chunks" \in u THEN s.chunks ELSE f.chunks
           /\ Mended(f, u, s).entities = IF "entities" \in u THEN s.entities ELSE f.entities
           /\ Mended(f, u, s).relations = IF "relations" \in u THEN s.relations ELSE f.relations
  BY DEF Mended, Files, Store

\* A store is good beside any mixture of its files and of what it would write.
LEMMA MixGood ==
    ASSUME NEW s \in Store, NEW f \in Files, NEW u, NEW m, Good(s, f, m)
    PROVE  Good(s, Mended(f, u, s), m)
  <1> DEFINE g == Mended(f, u, s)
  <1>1. /\ g.chunks = IF "chunks" \in u THEN s.chunks ELSE f.chunks
        /\ g.entities = IF "entities" \in u THEN s.entities ELSE f.entities
        /\ g.relations = IF "relations" \in u THEN s.relations ELSE f.relations
    BY MendedFacts
  <1> HIDE DEF g
  <1>2. f.entities \subseteq g.entities /\ g.entities \subseteq s.entities
    BY <1>1 DEF Good
  <1>3. f.relations \subseteq g.relations /\ g.relations \subseteq s.relations
    BY <1>1 DEF Good
  <1>4. Stored(f) \subseteq Stored(g) /\ Stored(g) \subseteq Stored(s)
    BY <1>1 DEF Good, Stored
  <1>5. \A id \in Stored(s) : Flagged(id, s.chunks[id], g, m)
    BY <1>2, <1>3 DEF Good, Flagged
  <1>6. \A id \in Stored(g) : Flagged(id, g.chunks[id], g, m)
    <2>1. CASE "chunks" \in u
      BY <1>1, <1>4, <1>5, <2>1
    <2>2. CASE "chunks" \notin u
      <3>1. g.chunks = f.chunks /\ Stored(g) = Stored(f)
        BY <1>1, <2>2 DEF Stored
      <3> QED
        BY <1>2, <1>3, <3>1 DEF Good, Flagged
    <2> QED
      BY <2>1, <2>2
  <1>7. \A r \in s.relations :
            Ends(r) \subseteq g.entities \cup m.entities /\ r.evidence \subseteq Stored(g) \cup m.chunks
    BY <1>2, <1>4 DEF Good
  <1>8. Good(s, g, m)
    BY <1>2, <1>3, <1>4, <1>5, <1>6, <1>7 DEF Good
  <1> QED
    BY <1>8 DEF g

\* A failure keeps the invariant: a bundle with recovery goes back in memory and
\* has the files still to restore, another call leaves what it had done.
LEMMA FailKeeps ==
    ASSUME IInv, Running, NEW next \in Store, Fail(next),
           runtime' \in SUBSET ChunkIds, loaded' = loaded, damaged' = damaged, handed' = handed,
           calls' = calls, Good(next, Mended(files, unsettled, next), Gaps)
    PROVE  IInv'
  <1>1. TypeOK /\ call.kind # "none" /\ Gaps' = Gaps /\ files' = files
    BY GapsFacts DEF IInv, Running, Fail
  <1>2. Evidenced(files)' /\ Whence'
    BY <1>1 DEF IInv, Evidenced, Stored, Whence, MissingEntities, MissingRelations, MissingChunks, Stored
  <1>3. CASE call.kind = "recovery"
    <2> DEFINE s == call.before.store
               f == BeforeFiles(call)
    <2>1. /\ store' = s /\ restoring' = Tables /\ unsettled' = Tables /\ call' = call
      BY <1>3 DEF Fail
    <2>2. s \in Store /\ call.before.files \in Files /\ call \in ActiveCall
      BY <1>1, ActiveType
    <2>3. CanGoBack(call, Gaps) /\ f \in Files /\ Good(s, f, Gaps)
      BY <1>3, <2>2, MendedFacts DEF IInv, CanGoBack, BeforeFiles
    <2> HIDE DEF f
    <2>4. Mended(files, Tables, s) = Mended(f, Tables, s)
      BY DEF Mended, Tables
    <2>5. Good(s, Mended(files, Tables, s), Gaps)
      BY <2>2, <2>3, <2>4, MixGood
    <2>6. ~ Running' /\ Restored'
      BY <2>1 DEF Running, RollingBack, Restored, Tables
    <2>7. TypeOK'
      BY <1>1, <1>3, <2>1, <2>2 DEF TypeOK, RollingBack
    <2> QED
      BY <1>1, <1>2, <2>1, <2>3, <2>5, <2>6, <2>7 DEF IInv
  <1>4. CASE call.kind # "recovery"
    <2>1. store' = next /\ call' = NoCall /\ restoring' = restoring /\ unsettled' = unsettled
      BY <1>4 DEF Fail
    <2>2. ~ Running' /\ ~ RollingBack' /\ call'.kind # "recovery"
      BY <2>1 DEF Running, RollingBack, NoCall
    <2>3. TypeOK'
      BY <1>1, <2>1, <2>2 DEF TypeOK, RollingBack, Call
    <2> QED
      BY <1>1, <1>2, <2>1, <2>2, <2>3 DEF IInv
  <1> QED
    BY <1>3, <1>4

\* A save keeps the invariant if what it makes of memory is good beside the files
\* with and without it, and the rest of the call's work is due beside the former.
LEMMA SaveStep ==
    ASSUME IInv, Running, NEW next \in Store, NEW table \in Tables, NEW file \in Files,
           NEW todo \in Work, NEW mf, NEW mg,
           Save(next, table, file, todo), runtime' \in SUBSET ChunkIds,
           Mended(file, unsettled \ {table}, next) = mg,
           Mended(files, unsettled, next) = mf \/ Mended(files, unsettled, next) = mg,
           Good(next, mf, Gaps), Good(next, mg, Gaps), Evidenced(file),
           Due([call EXCEPT !.todo = todo], mg, Gaps)
    PROVE  IInv'
  <1>1. TypeOK /\ call.kind # "none" /\ ~ RollingBack
    BY DEF IInv, Running
  <1>2. /\ loaded' = loaded /\ damaged' = damaged /\ handed' = handed /\ calls' = calls
        /\ Gaps' = Gaps
    BY GapsFacts DEF Save
  <1>3. CASE /\ store' = next /\ files' = file /\ call' = [call EXCEPT !.todo = todo]
             /\ unsettled' = unsettled \ {table} /\ restoring' = restoring
    <2> DEFINE after == [call EXCEPT !.todo = todo]
    <2>1. /\ after \in ActiveCall /\ after.kind = call.kind /\ after.before = call.before
          /\ Again(after) = Again(call)
      BY <1>1, TodoFacts
    <2> HIDE DEF after
    <2>2. call' = after
      BY <1>3 DEF after
    <2>3. TypeOK'
      BY <1>1, <1>2, <1>3, <2>1, <2>2 DEF TypeOK, Call, ActiveCall, RollingBack
    <2>4. Whence'
      BY <1>2 DEF IInv, Whence, MissingEntities, MissingRelations, MissingChunks, Stored
    <2>5. after.kind = "recovery" => CanGoBack(after, Gaps)
      BY <2>1 DEF IInv, CanGoBack, BeforeFiles
    <2>6. ~ RollingBack'
      BY <1>1, <1>3 DEF RollingBack
    <2>7. Evidenced(files')
      BY <1>3
    <2> QED
      BY <1>2, <1>3, <2>2, <2>3, <2>4, <2>5, <2>6, <2>7 DEF IInv, after
  <1>4. CASE Fail(next)
    BY <1>2, <1>4, FailKeeps
  <1> QED
    BY <1>3, <1>4 DEF Save

(***************************************************************************)
(* What a single save makes of a good store                                *)
(***************************************************************************)

\* A chunk saved with flags that resolve keeps a store good, beside the files
\* that have it and, if its write failed, beside those that do not.
LEMMA ChunkSaveGood ==
    ASSUME NEW s \in Store, NEW f \in Files, NEW m, Good(s, f, m),
           NEW next \in Store, NEW id \in ChunkIds, NEW chunk \in Chunk,
           next.chunks = [s.chunks EXCEPT ![id] = chunk], Flagged(id, chunk, f, m),
           next.entities = s.entities, next.relations = s.relations, Whole(next, m)
    PROVE  LET g == [f EXCEPT !.chunks = next.chunks]
           IN  /\ g.entities = f.entities /\ g.relations = f.relations
               /\ Stored(f) \cup {id} \subseteq Stored(g)
               /\ Good(next, g, m) /\ Good(next, f, m)
  <1> DEFINE g == [f EXCEPT !.chunks = next.chunks]
  <1>1. g.chunks = next.chunks /\ g.entities = f.entities /\ g.relations = f.relations
    BY DEF Files
  <1>2. chunk # NoChunk
    BY NoChunkAssumption
  <1>3. /\ next.chunks[id] = chunk
        /\ \A other \in ChunkIds \ {id} : next.chunks[other] = s.chunks[other]
    BY DEF Store
  <1> HIDE DEF g
  <1>4. Stored(next) = Stored(s) \cup {id} /\ Stored(g) = Stored(next)
    BY <1>1, <1>2, <1>3 DEF Stored
  <1>5. Stored(f) \cup {id} \subseteq Stored(g)
    BY <1>4 DEF Good
  <1>6. \A other \in Stored(next) : Flagged(other, next.chunks[other], f, m)
    BY <1>3, <1>4 DEF Good, Stored
  <1>7. \A other \in Stored(next) : Flagged(other, next.chunks[other], g, m)
    BY <1>1, <1>6 DEF Flagged
  <1>8. Good(next, g, m)
    BY <1>1, <1>4, <1>5, <1>7 DEF Good
  <1>9. Good(next, f, m)
    BY <1>4, <1>5, <1>6 DEF Good
  <1> QED
    BY <1>1, <1>5, <1>8, <1>9 DEF g

\* The same of an entity.
LEMMA EntitySaveGood ==
    ASSUME NEW s \in Store, NEW f \in Files, NEW m, Good(s, f, m), NEW k \in Keys
    PROVE  LET next == SaveEntity(s, k)
               g == [f EXCEPT !.entities = next.entities]
           IN  /\ f.entities \cup {k} \subseteq g.entities
               /\ g.relations = f.relations /\ Stored(g) = Stored(f)
               /\ Good(next, g, m) /\ Good(next, f, m)
  <1> DEFINE next == SaveEntity(s, k)
             g == [f EXCEPT !.entities = next.entities]
  <1>1. /\ next.entities = s.entities \cup {k} /\ next.aliases = s.aliases \cup {k}
        /\ next.chunks = s.chunks /\ next.relations = s.relations
        /\ next.relationsOf = s.relationsOf /\ next.relationsAt = s.relationsAt
    BY SaveEntityFacts
  <1> HIDE DEF next
  <1>2. g.entities = next.entities /\ g.relations = f.relations /\ g.chunks = f.chunks
    BY DEF Files
  <1> HIDE DEF g
  <1>3. Stored(g) = Stored(f) /\ Stored(next) = Stored(s)
    BY <1>1, <1>2 DEF Stored
  <1>4. Whole(next, m)
    BY <1>1 DEF Good, Whole
  <1>5. f.entities \cup {k} \subseteq g.entities
    BY <1>1, <1>2 DEF Good
  <1>6. /\ \A id \in Stored(next) : Flagged(id, next.chunks[id], f, m)
        /\ \A id \in Stored(f) : Flagged(id, f.chunks[id], f, m)
    BY <1>1, <1>3 DEF Good
  <1>7. /\ \A id \in Stored(next) : Flagged(id, next.chunks[id], g, m)
        /\ \A id \in Stored(g) : Flagged(id, g.chunks[id], g, m)
    BY <1>2, <1>3, <1>5, <1>6 DEF Flagged
  <1>8. Good(next, g, m)
    BY <1>1, <1>2, <1>3, <1>4, <1>5, <1>7 DEF Good
  <1>9. Good(next, f, m)
    BY <1>1, <1>3, <1>4, <1>6 DEF Good
  <1> QED
    BY <1>2, <1>3, <1>5, <1>8, <1>9 DEF next, g

\* The indexes of a store to which a relation is added.
LEMMA RelationSaveWhole ==
    ASSUME NEW s \in Store, NEW m, Whole(s, m), NEW r \in Relation
    PROVE  Whole(SaveRelation(s, r), m)
  <1> DEFINE next == SaveRelation(s, r)
  <1>1. /\ next.relations = s.relations \cup {r}
        /\ \A k \in Keys : next.relationsOf[k] =
              IF k \in Ends(r) THEN s.relationsOf[k] \cup {r} ELSE s.relationsOf[k]
        /\ \A id \in ChunkIds : next.relationsAt[id] =
              IF id \in r.evidence THEN s.relationsAt[id] \cup {r} ELSE s.relationsAt[id]
        /\ next.entities = s.entities /\ next.aliases = s.aliases
    BY SaveRelationFacts
  <1> HIDE DEF next
  <1>2. ASSUME NEW k \in Keys
        PROVE  next.relationsOf[k] = {q \in next.relations : k \in Ends(q)}
    <2>1. s.relationsOf[k] = {q \in s.relations : k \in Ends(q)}
      BY DEF Whole
    <2>2. next.relationsOf[k] = IF k \in Ends(r) THEN s.relationsOf[k] \cup {r} ELSE s.relationsOf[k]
      BY <1>1
    <2> QED
      BY <1>1, <2>1, <2>2
  <1>3. ASSUME NEW id \in ChunkIds
        PROVE  /\ {q \in next.relations : id \in q.evidence} \subseteq next.relationsAt[id]
               /\ next.relationsAt[id] \subseteq {q \in next.relations \cup m.relations : id \in q.evidence}
    <2>1. /\ {q \in s.relations : id \in q.evidence} \subseteq s.relationsAt[id]
          /\ s.relationsAt[id] \subseteq {q \in s.relations \cup m.relations : id \in q.evidence}
      BY DEF Whole
    <2>2. next.relationsAt[id] = IF id \in r.evidence THEN s.relationsAt[id] \cup {r} ELSE s.relationsAt[id]
      BY <1>1
    <2> QED
      BY <1>1, <2>1, <2>2
  <1>4. next.aliases = next.entities
    BY <1>1 DEF Whole
  <1>5. Whole(next, m)
    BY <1>2, <1>3, <1>4 DEF Whole
  <1> QED
    BY <1>5 DEF next

\* The same of a relation whose ends the files have, and its evidence but for gaps.
LEMMA RelationSaveGood ==
    ASSUME NEW s \in Store, NEW f \in Files, NEW m, Good(s, f, m), NEW r \in Relation,
           Ends(r) \subseteq f.entities, r.evidence \subseteq Stored(f) \cup m.chunks
    PROVE  LET next == SaveRelation(s, r)
               g == [f EXCEPT !.relations = next.relations]
           IN  /\ f.relations \cup {r} \subseteq g.relations
               /\ g.entities = f.entities /\ Stored(g) = Stored(f)
               /\ Good(next, g, m) /\ Good(next, f, m)
  <1> DEFINE next == SaveRelation(s, r)
             g == [f EXCEPT !.relations = next.relations]
  <1>1. /\ next.relations = s.relations \cup {r}
        /\ next.chunks = s.chunks /\ next.entities = s.entities /\ next.aliases = s.aliases
    BY SaveRelationFacts
  <1>2. Whole(next, m)
    BY RelationSaveWhole DEF Good
  <1> HIDE DEF next
  <1>3. g.relations = next.relations /\ g.entities = f.entities /\ g.chunks = f.chunks
    BY DEF Files
  <1> HIDE DEF g
  <1>4. Stored(g) = Stored(f) /\ Stored(next) = Stored(s)
    BY <1>1, <1>3 DEF Stored
  <1>5. f.relations \cup {r} \subseteq g.relations
    BY <1>1, <1>3 DEF Good
  <1>6. /\ \A id \in Stored(next) : Flagged(id, next.chunks[id], f, m)
        /\ \A id \in Stored(f) : Flagged(id, f.chunks[id], f, m)
    BY <1>1, <1>4 DEF Good
  <1>7. /\ \A id \in Stored(next) : Flagged(id, next.chunks[id], g, m)
        /\ \A id \in Stored(g) : Flagged(id, g.chunks[id], g, m)
    BY <1>3, <1>4, <1>5, <1>6 DEF Flagged
  <1>8. \A q \in next.relations :
            Ends(q) \subseteq f.entities \cup m.entities /\ q.evidence \subseteq Stored(f) \cup m.chunks
    BY <1>1 DEF Good
  <1>9. Good(next, g, m)
    BY <1>1, <1>2, <1>3, <1>4, <1>5, <1>7, <1>8 DEF Good
  <1>10. Good(next, f, m)
    BY <1>1, <1>2, <1>4, <1>6, <1>8 DEF Good
  <1> QED
    BY <1>3, <1>4, <1>5, <1>9, <1>10 DEF next, g

\* The chunks of a good store are flagged only with relations they are evidence
\* for, and so is the file they are written to.
LEMMA GoodEvidenced ==
    ASSUME NEW s, NEW f, NEW m, Good(s, f, m), NEW file, file.chunks = s.chunks
    PROVE  Evidenced(file)
  BY DEF Good, Flagged, Evidenced, Stored

(***************************************************************************)
(* One lemma for each save of a call                                       *)
(***************************************************************************)

\* A save of a chunk whose flags resolve, of which nothing is due any more.
LEMMA ChunkStep ==
    ASSUME IInv, Running, NEW next \in Store, NEW id \in ChunkIds, NEW chunk \in Chunk, NEW todo \in Work,
           Save(next, "chunks", ChunkFile(next), todo), runtime' \in SUBSET ChunkIds,
           next.chunks = [store.chunks EXCEPT ![id] = chunk],
           next.entities = store.entities, next.relations = store.relations, Whole(next, Gaps),
           Flagged(id, chunk, Mended(files, unsettled, store), Gaps),
           todo.plain \subseteq call.todo.plain, call.todo.plain \subseteq todo.plain \cup {id},
           todo.links \subseteq call.todo.links, todo.pointers \subseteq call.todo.pointers,
           todo.entities = call.todo.entities, todo.relations = call.todo.relations
    PROVE  IInv'
  <1> DEFINE mf == Mended(files, unsettled, store)
             mg == [mf EXCEPT !.chunks = next.chunks]
             file == [files EXCEPT !.chunks = next.chunks]
             after == [call EXCEPT !.todo = todo]
  <1>1. /\ TypeOK /\ call.kind # "none" /\ store \in Store /\ files \in Files /\ unsettled \in SUBSET Tables
        /\ Good(store, mf, Gaps) /\ Due(call, mf, Gaps) /\ mf \in Files
    BY MendedFacts DEF IInv, TypeOK, Running
  <1>2. /\ file \in Files /\ Mended(file, unsettled \ {"chunks"}, next) = mg
        /\ Mended(files, unsettled, next) = mf \/ Mended(files, unsettled, next) = mg
    <2>1. /\ mf = Mended(files, unsettled, store) /\ mg = [mf EXCEPT !.chunks = next.chunks]
          /\ file = [files EXCEPT !.chunks = next.chunks]
      OBVIOUS
    <2> HIDE DEF mf, mg, file
    <2> QED
      BY <1>1, <2>1 DEF Mended, Files, Store
  <1>3. file = ChunkFile(next) /\ file.chunks = next.chunks /\ "chunks" \in Tables
    BY <1>1 DEF ChunkFile, Tables, Files
  <1> HIDE DEF mf, file
  <1>4. /\ mg.entities = mf.entities /\ mg.relations = mf.relations
        /\ Stored(mf) \cup {id} \subseteq Stored(mg)
        /\ Good(next, mg, Gaps) /\ Good(next, mf, Gaps)
    BY <1>1, ChunkSaveGood DEF mf
  <1>5. Evidenced(file)
    BY <1>3, <1>4, GoodEvidenced
  <1> HIDE DEF mg
  <1>6. /\ after.todo = todo /\ after.kind = call.kind /\ after.copies = call.copies
        /\ Batch(after) = Batch(call)
    BY <1>1, TodoFacts
  <1> HIDE DEF after
  <1>7. \A c \in Batch(call) : Flagged(c, call.copies[c], mg, Gaps)
    BY <1>1, <1>4 DEF Due, Flagged
  <1>8. Due(after, mg, Gaps)
    BY <1>1, <1>4, <1>6, <1>7 DEF Due
  <1> QED
    BY <1>2, <1>3, <1>4, <1>5, <1>8, SaveStep DEF after

\* The plain save of a bundle's chunk (save_chunk).
LEMMA SaveOneChunkKeeps ==
    ASSUME IInv, NEW id \in ChunkIds, SaveOneChunk(id)
    PROVE  IInv'
  <1> DEFINE mf == Mended(files, unsettled, store)
             next == SaveChunk(store, id, call.copies[id])
             todo == [call.todo EXCEPT !.plain = @ \ {id}]
  <1>1. TypeOK /\ Running /\ call.kind # "none" /\ store \in Store /\ Due(call, mf, Gaps) /\ Good(store, mf, Gaps)
    BY DEF SaveOneChunk, IInv, TypeOK, Running
  <1>2. id \in Batch(call)
    BY <1>1 DEF SaveOneChunk, Due
  <1>3. call.copies[id] \in Chunk /\ Flagged(id, call.copies[id], mf, Gaps)
    BY <1>1, <1>2, ActiveType DEF Due
  <1>4. /\ next \in Store /\ next.chunks = [store.chunks EXCEPT ![id] = call.copies[id]]
        /\ next.entities = store.entities /\ next.relations = store.relations
        /\ next.aliases = store.aliases /\ next.relationsOf = store.relationsOf
        /\ next.relationsAt = store.relationsAt
    BY <1>1, <1>3, SaveChunkFacts
  <1>5. /\ todo \in Work /\ todo.plain = call.todo.plain \ {id}
        /\ todo.entities = call.todo.entities /\ todo.relations = call.todo.relations
        /\ todo.links = call.todo.links /\ todo.pointers = call.todo.pointers
    BY <1>1, ActiveType DEF Work
  <1>6. Save(next, "chunks", ChunkFile(next), todo) /\ runtime' \in SUBSET ChunkIds
    BY <1>1 DEF SaveOneChunk, TypeOK
  <1> HIDE DEF next, todo
  <1>7. Whole(next, Gaps)
    BY <1>1, <1>4 DEF Good, Whole
  <1> QED
    BY <1>1, <1>3, <1>4, <1>5, <1>6, <1>7, ChunkStep

\* The save of an extracted entity (save_entity).
LEMMA SaveOneEntityKeeps ==
    ASSUME IInv, NEW k \in Keys, SaveOneEntity(k)
    PROVE  IInv'
  <1> DEFINE mf == Mended(files, unsettled, store)
             next == SaveEntity(store, k)
             mg == [mf EXCEPT !.entities = next.entities]
             file == [files EXCEPT !.entities = next.entities]
             todo == [call.todo EXCEPT !.entities = @ \ {k}]
             after == [call EXCEPT !.todo = todo]
  <1>1. /\ TypeOK /\ Running /\ call.kind # "none" /\ store \in Store /\ files \in Files /\ unsettled \in SUBSET Tables
        /\ Good(store, mf, Gaps) /\ Due(call, mf, Gaps) /\ mf \in Files
    BY MendedFacts DEF SaveOneEntity, IInv, TypeOK, Running
  <1>2. next \in Store /\ next.chunks = store.chunks /\ next.relations = store.relations
    BY <1>1, SaveEntityFacts
  <1>3. /\ todo \in Work /\ todo.entities = call.todo.entities \ {k}
        /\ todo.plain = call.todo.plain /\ todo.relations = call.todo.relations
        /\ todo.links = call.todo.links /\ todo.pointers = call.todo.pointers
    BY <1>1, ActiveType DEF Work
  <1>4. Save(next, "entities", file, todo) /\ runtime' \in SUBSET ChunkIds
    BY <1>1 DEF SaveOneEntity, TypeOK, EntityFile
  <1>5. /\ file \in Files /\ Mended(file, unsettled \ {"entities"}, next) = mg
        /\ Mended(files, unsettled, next) = mf \/ Mended(files, unsettled, next) = mg
    <2>1. /\ mf = Mended(files, unsettled, store) /\ mg = [mf EXCEPT !.entities = next.entities]
          /\ file = [files EXCEPT !.entities = next.entities]
      OBVIOUS
    <2> HIDE DEF mf, mg, file, next
    <2> QED
      BY <1>1, <1>2, <2>1 DEF Mended, Files, Store
  <1>6. file.chunks = files.chunks /\ "entities" \in Tables
    BY <1>1 DEF Tables, Files
  <1> HIDE DEF mf, file
  <1>7. /\ mf.entities \cup {k} \subseteq mg.entities
        /\ mg.relations = mf.relations /\ Stored(mg) = Stored(mf)
        /\ Good(next, mg, Gaps) /\ Good(next, mf, Gaps)
    BY <1>1, EntitySaveGood
  <1>8. Evidenced(file)
    BY <1>6 DEF IInv, Evidenced, Stored
  <1> HIDE DEF next, mg, todo
  <1>9. /\ after.todo = todo /\ after.kind = call.kind /\ after.copies = call.copies
        /\ Batch(after) = Batch(call)
    BY <1>1, <1>3, TodoFacts
  <1> HIDE DEF after
  <1>10. Due(after, mg, Gaps)
    BY <1>1, <1>3, <1>7, <1>9 DEF Due, Flagged
  <1> QED
    BY <1>1, <1>2, <1>3, <1>4, <1>5, <1>6, <1>7, <1>8, <1>10, SaveStep DEF after

\* The save of an extracted relation, whose ends were saved before it.
LEMMA SaveOneRelationKeeps ==
    ASSUME IInv, NEW r \in Relation, SaveOneRelation(r)
    PROVE  IInv'
  <1> DEFINE mf == Mended(files, unsettled, store)
             next == SaveRelation(store, r)
             mg == [mf EXCEPT !.relations = next.relations]
             file == [files EXCEPT !.relations = next.relations]
             todo == [call.todo EXCEPT !.relations = @ \ {r}]
             after == [call EXCEPT !.todo = todo]
  <1>1. /\ TypeOK /\ Running /\ call.kind # "none" /\ store \in Store /\ files \in Files /\ unsettled \in SUBSET Tables
        /\ Good(store, mf, Gaps) /\ Due(call, mf, Gaps) /\ mf \in Files
    BY MendedFacts DEF SaveOneRelation, IInv, TypeOK, Running
  <1>2. next \in Store /\ next.chunks = store.chunks /\ next.entities = store.entities
    BY <1>1, SaveRelationFacts
  <1>3. /\ todo \in Work /\ todo.relations = call.todo.relations \ {r}
        /\ todo.plain = call.todo.plain /\ todo.entities = call.todo.entities
        /\ todo.links = call.todo.links /\ todo.pointers = call.todo.pointers
    BY <1>1, ActiveType DEF Work
  <1>4. Save(next, "relations", file, todo) /\ runtime' \in SUBSET ChunkIds
    BY <1>1 DEF SaveOneRelation, TypeOK, RelationFile
  <1>5. /\ file \in Files /\ Mended(file, unsettled \ {"relations"}, next) = mg
        /\ Mended(files, unsettled, next) = mf \/ Mended(files, unsettled, next) = mg
    <2>1. /\ mf = Mended(files, unsettled, store) /\ mg = [mf EXCEPT !.relations = next.relations]
          /\ file = [files EXCEPT !.relations = next.relations]
      OBVIOUS
    <2> HIDE DEF mf, mg, file, next
    <2> QED
      BY <1>1, <1>2, <2>1 DEF Mended, Files, Store
  <1>6. file.chunks = files.chunks /\ "relations" \in Tables
    BY <1>1 DEF Tables, Files
  <1> HIDE DEF mf, file
  <1>7. Ends(r) \subseteq mf.entities /\ r.evidence \subseteq Stored(mf) \cup Gaps.chunks
    BY <1>1 DEF SaveOneRelation, RelationsDue, Due
  <1>8. /\ mf.relations \cup {r} \subseteq mg.relations
        /\ mg.entities = mf.entities /\ Stored(mg) = Stored(mf)
        /\ Good(next, mg, Gaps) /\ Good(next, mf, Gaps)
    BY <1>1, <1>7, RelationSaveGood
  <1>9. Evidenced(file)
    BY <1>6 DEF IInv, Evidenced, Stored
  <1> HIDE DEF next, mg, todo
  <1>10. /\ after.todo = todo /\ after.kind = call.kind /\ after.copies = call.copies
         /\ Batch(after) = Batch(call)
    BY <1>1, <1>3, TodoFacts
  <1> HIDE DEF after
  <1>11. Due(after, mg, Gaps)
    BY <1>1, <1>3, <1>8, <1>10 DEF Due, Flagged
  <1> QED
    BY <1>1, <1>2, <1>3, <1>4, <1>5, <1>6, <1>8, <1>9, <1>11, SaveStep DEF after

\* The save of a chunk with the flags and the links of its batch
\* (commit_graph_records).
LEMMA LinkOneChunkKeeps ==
    ASSUME IInv, NEW id \in ChunkIds, LinkOneChunk(id)
    PROVE  IInv'
  <1> DEFINE mf == Mended(files, unsettled, store)
             flagged == WithGraphFlags(id, call.copies[id], Batch(call))
             linked == LinkedEntities(store, flagged)
             saved == Linked(store, flagged)
             next == LinkChunk(store, id, flagged)
             todo == [call.todo EXCEPT !.links = @ \ {id}]
  <1>1. TypeOK /\ Running /\ call.kind # "none" /\ store \in Store /\ Good(store, mf, Gaps) /\ Due(call, mf, Gaps)
    BY DEF LinkOneChunk, IInv, TypeOK, Running
  <1>2. call.todo.plain = {} /\ call.todo.entities = {} /\ call.todo.relations = {} /\ id \in call.todo.links
    BY DEF LinkOneChunk, LinksDue, RelationsDue
  <1>3. /\ id \in Batch(call) /\ Batch(call) \in SUBSET ChunkIds
        /\ call.copies[id] \in Chunk /\ Flagged(id, call.copies[id], mf, Gaps)
        /\ ExtractedEntities(Batch(call)) \subseteq mf.entities
        /\ ExtractedRelations(Batch(call)) \subseteq mf.relations
    BY <1>1, <1>2, ActiveType DEF Due
  <1> HIDE DEF mf
  <1>4. /\ flagged \in Chunk
        /\ flagged.entities \subseteq mf.entities \cup Gaps.entities
        /\ flagged.relations \subseteq {r \in mf.relations \cup Gaps.relations : id \in r.evidence}
    BY <1>3, FlagFacts, ExtractedFacts DEF Flagged
  <1>5. Save(next, "chunks", ChunkFile(next), todo) /\ runtime' \in SUBSET ChunkIds
    BY <1>1 DEF LinkOneChunk, TypeOK
  <1> HIDE DEF flagged
  <1>6. linked \subseteq mf.entities \cup Gaps.entities
    BY <1>1, <1>4 DEF LinkedEntities, Good
  <1>7. saved \in Chunk /\ saved.entities = linked /\ saved.relations = flagged.relations
    BY <1>1, <1>4, LinkedFacts DEF Chunk
  <1>8. /\ next \in Store /\ next.chunks = [store.chunks EXCEPT ![id] = saved]
        /\ \A c \in ChunkIds : next.relationsAt[c] =
              IF c = id THEN store.relationsAt[c] \cup flagged.relations ELSE store.relationsAt[c]
        /\ next.entities = store.entities /\ next.relations = store.relations
        /\ next.aliases = store.aliases /\ next.relationsOf = store.relationsOf
    <2>1. store \in Store /\ flagged \in Chunk /\ next = LinkChunk(store, id, flagged)
      BY <1>1, <1>4
    <2> HIDE DEF next
    <2>2. /\ next \in Store /\ next.chunks = [store.chunks EXCEPT ![id] = Linked(store, flagged)]
          /\ LinkedBeside(next, store, id, flagged)
      BY <2>1, LinkChunkFacts
    <2> QED
      BY <2>2 DEF LinkedBeside
  <1>9. /\ todo \in Work /\ todo.links = call.todo.links \ {id}
        /\ todo.plain = call.todo.plain /\ todo.entities = call.todo.entities
        /\ todo.relations = call.todo.relations /\ todo.pointers = call.todo.pointers
    BY <1>1, ActiveType DEF Work
  <1> HIDE DEF linked, saved, next, todo
  <1>10. Flagged(id, saved, mf, Gaps)
    BY <1>4, <1>6, <1>7 DEF Flagged
  <1>11. Whole(next, Gaps)
    <2>1. next.aliases = next.entities
          /\ \A k \in Keys : next.relationsOf[k] = {r \in next.relations : k \in Ends(r)}
      BY <1>1, <1>8 DEF Good, Whole
    <2>2. ASSUME NEW other \in ChunkIds
          PROVE  /\ {r \in next.relations : other \in r.evidence} \subseteq next.relationsAt[other]
                 /\ next.relationsAt[other] \subseteq
                       {r \in next.relations \cup Gaps.relations : other \in r.evidence}
      <3>1. /\ {r \in store.relations : other \in r.evidence} \subseteq store.relationsAt[other]
            /\ store.relationsAt[other] \subseteq
                  {r \in store.relations \cup Gaps.relations : other \in r.evidence}
        BY <1>1 DEF Good, Whole
      <3>2. next.relationsAt[other] =
                IF other = id THEN store.relationsAt[other] \cup flagged.relations ELSE store.relationsAt[other]
        BY <1>8
      <3>3. flagged.relations \subseteq {r \in store.relations \cup Gaps.relations : id \in r.evidence}
        BY <1>1, <1>4 DEF Good
      <3> QED
        BY <1>8, <3>1, <3>2, <3>3
    <2> QED
      BY <2>1, <2>2 DEF Whole
  <1>12. Flagged(id, saved, Mended(files, unsettled, store), Gaps)
    BY <1>10 DEF mf
  <1> QED
    BY <1>1, <1>5, <1>7, <1>8, <1>9, <1>11, <1>12, ChunkStep

\* What an index commit starts from is the stored chunk or the copy it was handed.
LEMMA IndexedBase ==
    ASSUME IInv, NEW id \in ChunkIds, Running, id \in call.todo.pointers
    PROVE  LET base == BaseChunk(store, id, call.copies[id])
           IN  /\ base \in Chunk /\ Flagged(id, base, Mended(files, unsettled, store), Gaps)
               /\ id \in Stored(store) => base = store.chunks[id]
               /\ id \notin Stored(store) => base = call.copies[id]
               /\ id \in Batch(call)
  <1>1. TypeOK /\ store \in Store /\ call.kind # "none" /\ id \in Batch(call)
    BY DEF IInv, TypeOK, Due, Running
  <1>2. call.copies[id] \in Chunk /\ Flagged(id, call.copies[id], Mended(files, unsettled, store), Gaps)
    BY <1>1, ActiveType DEF IInv, Due
  <1>3. ASSUME store.chunks[id] # NoChunk
        PROVE  store.chunks[id] \in Chunk /\ Flagged(id, store.chunks[id], Mended(files, unsettled, store), Gaps)
    BY <1>1, <1>3 DEF Store, IInv, Good, Stored
  <1> QED
    BY <1>1, <1>2, <1>3 DEF BaseChunk, Stored

\* An index commit's save, of either pointer, alone or for the adapter; a
\* bundle indexes nothing.
LEMMA IndexOneChunkKeeps ==
    ASSUME IInv, NEW id \in ChunkIds, IndexOneChunk(id)
    PROVE  IInv'
  <1> DEFINE base == BaseChunk(store, id, call.copies[id])
             e == CommitEmbedding(store, id, call.copies[id])
             t == CommitTerms(store, id, call.copies[id])
             ce == [base EXCEPT !.embedding = TRUE]
             ct == [base EXCEPT !.terms = TRUE]
             next == IF call.kind = "terms" THEN t ELSE e
             todo == [call.todo EXCEPT !.pointers = @ \ {id}]
  <1>1. TypeOK /\ Running /\ call.kind # "none" /\ store \in Store /\ id \in call.todo.pointers
    BY DEF IndexOneChunk, IInv, TypeOK, Running
  <1>2. base \in Chunk /\ Flagged(id, base, Mended(files, unsettled, store), Gaps)
    BY <1>1, IndexedBase
  <1>3. Save(next, "chunks", ChunkFile(next), todo) /\ runtime' \in SUBSET ChunkIds
    BY <1>1 DEF IndexOneChunk, TypeOK
  <1>4. /\ todo \in Work /\ todo.pointers = call.todo.pointers \ {id}
        /\ todo.plain = call.todo.plain /\ todo.entities = call.todo.entities
        /\ todo.relations = call.todo.relations /\ todo.links = call.todo.links
    BY <1>1, ActiveType DEF Work
  <1>5. /\ t \in Store /\ t.chunks = [store.chunks EXCEPT ![id] = ct]
        /\ t.entities = store.entities /\ t.relations = store.relations
        /\ t.aliases = store.aliases /\ t.relationsOf = store.relationsOf
        /\ t.relationsAt = store.relationsAt
    BY <1>1, <1>2, TermsFacts
  <1>6. /\ e \in Store /\ e.chunks = [store.chunks EXCEPT ![id] = ce]
        /\ e.entities = store.entities /\ e.relations = store.relations
        /\ e.aliases = store.aliases /\ e.relationsOf = store.relationsOf
        /\ e.relationsAt = store.relationsAt
    BY <1>1, <1>2, EmbeddingFacts
  <1>7. /\ ce \in Chunk /\ ct \in Chunk
        /\ ce.entities = base.entities /\ ce.relations = base.relations
        /\ ct.entities = base.entities /\ ct.relations = base.relations
    BY <1>2 DEF Chunk
  <1> HIDE DEF base, e, t, ce, ct, todo
  <1>8. PICK chunk \in {ce, ct} : next.chunks = [store.chunks EXCEPT ![id] = chunk]
    BY <1>5, <1>6
  <1>9. chunk \in Chunk /\ Flagged(id, chunk, Mended(files, unsettled, store), Gaps)
    BY <1>2, <1>7 DEF Flagged
  <1>10. /\ next \in Store
         /\ next.entities = store.entities /\ next.relations = store.relations
         /\ next.aliases = store.aliases /\ next.relationsOf = store.relationsOf
         /\ next.relationsAt = store.relationsAt
    BY <1>5, <1>6
  <1> HIDE DEF next
  <1>11. Whole(next, Gaps)
    BY <1>10 DEF IInv, Good, Whole
  <1> QED
    BY <1>1, <1>3, <1>4, <1>8, <1>9, <1>10, <1>11, ChunkStep

\* The last write of a call, the log, decides only whether it is rolled back.
LEMMA ReturnKeeps ==
    ASSUME IInv, Return
    PROVE  IInv'
  <1>1. /\ TypeOK /\ Running /\ store \in Store /\ Good(store, Mended(files, unsettled, store), Gaps)
        /\ runtime' \in SUBSET ChunkIds
        /\ loaded' = loaded /\ damaged' = damaged /\ handed' = handed /\ calls' = calls
    BY DEF Return, IInv, TypeOK
  <1>2. CASE Fail(store)
    BY <1>1, <1>2, FailKeeps
  <1>3. CASE call' = NoCall /\ UNCHANGED <<store, files, restoring, unsettled>>
    <2>1. Gaps' = Gaps /\ Whence'
      BY <1>1, GapsFacts DEF IInv, Whence, MissingEntities, MissingRelations, MissingChunks, Stored
    <2>2. ~ Running' /\ ~ RollingBack' /\ call'.kind # "recovery"
      BY <1>1, <1>3 DEF Running, RollingBack, NoCall
    <2>3. TypeOK'
      BY <1>1, <1>3, <2>2 DEF TypeOK, Call, RollingBack
    <2>4. Evidenced(files')
      BY <1>3 DEF IInv
    <2> QED
      BY <1>1, <1>3, <2>1, <2>2, <2>3, <2>4 DEF IInv
  <1> QED
    BY <1>2, <1>3 DEF Return

(***************************************************************************)
(* The rollback and the restart                                            *)
(***************************************************************************)

\* The file that is due is one of those still to restore.
LEMMA DueFacts ==
    ASSUME restoring \in SUBSET Tables, RollingBack
    PROVE  DueForRestore \in restoring /\ DueForRestore \in Tables
  <1>1. \E table \in restoring :
            \/ table = "chunks"
            \/ table = "entities" /\ "chunks" \notin restoring
            \/ restoring = {"relations"}
    BY DEF RollingBack, Tables
  <1> QED
    BY <1>1 DEF DueForRestore

\* A table of some files put in the place of another's.
LEMMA TableFacts ==
    ASSUME NEW f \in Files, NEW table \in Tables, NEW value,
           table = "chunks" => value \in [ChunkIds -> Chunk \cup {NoChunk}],
           table = "entities" => value \in SUBSET Keys,
           table = "relations" => value \in SUBSET Relation
    PROVE  /\ [f EXCEPT ![table] = value] \in Files
           /\ \A other \in Tables :
                 [f EXCEPT ![table] = value][other] = IF other = table THEN value ELSE f[other]
  <1>1. CASE table = "chunks"
    BY <1>1 DEF Files, Tables
  <1>2. CASE table = "entities"
    BY <1>2 DEF Files, Tables
  <1>3. CASE table = "relations"
    BY <1>3 DEF Files, Tables
  <1> QED
    BY <1>1, <1>2, <1>3 DEF Tables

\* Half restored files, made whole, are a mixture of those a call began with and
\* of what memory, which is as it was, would write.
LEMMA HalfRestored ==
    ASSUME NEW s \in Store, NEW f \in Files, NEW g \in Files,
           NEW u \in SUBSET Tables, NEW v \in SUBSET Tables, NEW due \in SUBSET Tables,
           \A table \in Tables :
              IF table \in due THEN table \in u ELSE f[table] = g[table] /\ (table \in u <=> table \in v)
    PROVE  Mended(f, u, s) = Mended(Mended(g, v, s), due, s)
  <1>1. /\ IF "chunks" \in due THEN "chunks" \in u
           ELSE f.chunks = g.chunks /\ ("chunks" \in u <=> "chunks" \in v)
        /\ IF "entities" \in due THEN "entities" \in u
           ELSE f.entities = g.entities /\ ("entities" \in u <=> "entities" \in v)
        /\ IF "relations" \in due THEN "relations" \in u
           ELSE f.relations = g.relations /\ ("relations" \in u <=> "relations" \in v)
    BY DEF Tables
  <1> QED
    BY <1>1 DEF Mended

\* Files of which nothing is unsettled are whole as they are.
LEMMA SettledFiles ==
    ASSUME NEW s, NEW f \in Files
    PROVE  Mended(f, {}, s) = f
  BY DEF Mended, Files

\* One file restored; after the last one the bundle is as it began.
LEMMA RestoreFileKeeps ==
    ASSUME IInv, RestoreFile
    PROVE  IInv'
  <1> DEFINE table == DueForRestore
             s == call.before.store
             g == call.before.files
             v == call.before.unsettled
             due == restoring \ {table}
             f == [files EXCEPT ![table] = g[table]]
             u == (unsettled \ {table}) \cup ({table} \cap v)
  <1>1. /\ TypeOK /\ RollingBack /\ call.kind = "recovery" /\ call.kind # "none" /\ Restored
        /\ CanGoBack(call, Gaps) /\ store = s
        /\ files \in Files /\ restoring \in SUBSET Tables /\ unsettled \in SUBSET Tables
    BY DEF RestoreFile, IInv, TypeOK, Restored
  <1>2. s \in Store /\ g \in Files /\ v \in SUBSET Tables /\ call \in ActiveCall /\ call.before.todo \in Work
    BY <1>1, ActiveType
  <1>3. table \in restoring /\ table \in Tables
    BY <1>1, DueFacts
  <1>4. /\ files' = f /\ restoring' = due /\ unsettled' = u /\ store' = s
        /\ call' \in IF due # {} THEN {call} ELSE {NoCall, Again(call)}
        /\ runtime' = runtime /\ loaded' = loaded /\ damaged' = damaged /\ handed' = handed /\ calls' = calls
    BY <1>1 DEF RestoreFile, Again
  <1> HIDE DEF table
  <1>5. /\ f \in Files
        /\ \A other \in Tables : f[other] = IF other = table THEN g[other] ELSE files[other]
    <2> DEFINE value == g[table]
    <2>1. /\ table = "chunks" => value \in [ChunkIds -> Chunk \cup {NoChunk}]
          /\ table = "entities" => value \in SUBSET Keys
          /\ table = "relations" => value \in SUBSET Relation
      BY <1>2 DEF Files
    <2> HIDE DEF value
    <2>2. /\ [files EXCEPT ![table] = value] \in Files
          /\ \A other \in Tables :
                [files EXCEPT ![table] = value][other] = IF other = table THEN value ELSE files[other]
      BY <1>1, <1>3, <2>1, TableFacts
    <2> QED
      BY <2>2 DEF value
  <1>6. u \in SUBSET Tables /\ due \in SUBSET Tables
    BY <1>1, <1>2
  <1>7. \A other \in Tables :
            IF other \in due THEN other \in u
            ELSE f[other] = g[other] /\ (other \in u <=> other \in v)
    BY <1>1, <1>3, <1>5 DEF Restored
  <1> HIDE DEF s, g, v, due, f, u
  <1>8. Mended(f, u, s) = Mended(Mended(g, v, s), due, s)
    BY <1>2, <1>5, <1>6, <1>7, HalfRestored
  <1>9. BeforeFiles(call) = Mended(g, v, s) /\ BeforeFiles(call) \in Files
    BY <1>2, MendedFacts DEF BeforeFiles, s, g, v
  <1>10. Good(s, Mended(f, u, s), Gaps)
    BY <1>1, <1>2, <1>8, <1>9, MixGood DEF CanGoBack, s
  <1>11. Gaps' = Gaps /\ Whence'
    BY <1>4, GapsFacts DEF IInv, Whence, MissingEntities, MissingRelations, MissingChunks, Stored
  <1>12. Evidenced(f)
    <2>1. f["chunks"] = g["chunks"] \/ f["chunks"] = files["chunks"]
      BY <1>5 DEF Tables
    <2>2. Evidenced(g) /\ Evidenced(files)
      BY <1>1 DEF IInv, CanGoBack, g
    <2> QED
      BY <2>1, <2>2 DEF Evidenced, Stored
  <1>13. CASE due # {}
    <2>1. call' = call /\ ~ Running'
      BY <1>4, <1>13 DEF Running, RollingBack
    <2>2. TypeOK'
      BY <1>1, <1>2, <1>4, <1>5, <1>6, <2>1 DEF TypeOK, RollingBack, s
    <2>3. Restored'
      BY <1>4, <1>7, <2>1 DEF Restored, s, g, v
    <2> QED
      BY <1>1, <1>4, <1>10, <1>11, <1>12, <2>1, <2>2, <2>3 DEF IInv
  <1>14. CASE due = {} /\ call' = NoCall
    <2>1. ~ Running' /\ ~ RollingBack' /\ call'.kind # "recovery"
      BY <1>4, <1>14 DEF Running, RollingBack, NoCall
    <2>2. TypeOK'
      BY <1>1, <1>2, <1>4, <1>5, <1>6, <1>14, <2>1 DEF TypeOK, RollingBack, Call
    <2> QED
      BY <1>4, <1>10, <1>11, <1>12, <2>1, <2>2 DEF IInv
  <1>15. CASE due = {} /\ call' = Again(call)
    <2> DEFINE again == Again(call)
    <2>1. /\ again \in ActiveCall /\ again.kind = call.kind /\ again.before = call.before
          /\ Again(again) = again
      BY <1>2 DEF Again, ActiveCall
    <2>2. Mended(f, u, s) = BeforeFiles(call)
      BY <1>8, <1>9, <1>15, SettledFiles
    <2>3. Due(again, Mended(f, u, s), Gaps)
      BY <1>1, <2>2 DEF CanGoBack
    <2>4. CanGoBack(again, Gaps)
      BY <1>1, <2>1 DEF CanGoBack, BeforeFiles
    <2> HIDE DEF again
    <2>5. call' = again /\ ~ RollingBack'
      BY <1>4, <1>15 DEF RollingBack, again
    <2>6. TypeOK'
      BY <1>1, <1>2, <1>4, <1>5, <1>6, <2>1, <2>5 DEF TypeOK, RollingBack, Call, ActiveCall
    <2> QED
      BY <1>4, <1>10, <1>11, <1>12, <2>3, <2>4, <2>5, <2>6 DEF IInv
  <1> QED
    BY <1>4, <1>13, <1>14, <1>15

\* A rollback that is cut short leaves files that are all still unsettled from the
\* one it was about to rewrite.
LEMMA RestoreFailsKeeps ==
    ASSUME IInv, RestoreFails
    PROVE  IInv'
  <1> DEFINE table == DueForRestore
             value == EmptyTable(table)
             torn == [files EXCEPT ![table] = value]
  <1>1. /\ TypeOK /\ RollingBack /\ Restored /\ Evidenced(files)
        /\ files \in Files /\ restoring \in SUBSET Tables
        /\ Good(store, Mended(files, unsettled, store), Gaps)
    BY DEF RestoreFails, IInv, TypeOK
  <1>2. table \in restoring /\ table \in Tables /\ table \in unsettled
    BY <1>1, DueFacts DEF Restored
  <1>3. /\ files' = files \/ files' = torn
        /\ call' = NoCall /\ restoring' = {}
        /\ UNCHANGED <<store, runtime, unsettled, loaded, damaged, handed, calls>>
    BY DEF RestoreFails
  <1> HIDE DEF table
  <1>4. /\ table = "chunks" => value \in [ChunkIds -> Chunk \cup {NoChunk}]
        /\ table = "entities" => value \in SUBSET Keys
        /\ table = "relations" => value \in SUBSET Relation
    BY DEF EmptyTable, NoChunks
  <1>5. table = "chunks" => value = NoChunks
    BY DEF EmptyTable
  <1> HIDE DEF value
  <1>6. torn \in Files /\ \A other \in Tables : torn[other] = IF other = table THEN value ELSE files[other]
    <2>1. /\ [files EXCEPT ![table] = value] \in Files
          /\ \A other \in Tables :
                [files EXCEPT ![table] = value][other] = IF other = table THEN value ELSE files[other]
      BY ONLY <1>1, <1>2, <1>4, TableFacts
    <2> QED
      BY <2>1
  <1> HIDE DEF torn
  <1>7. /\ "chunks" \notin unsettled => torn["chunks"] = files["chunks"]
        /\ "entities" \notin unsettled => torn["entities"] = files["entities"]
        /\ "relations" \notin unsettled => torn["relations"] = files["relations"]
    BY <1>2, <1>6 DEF Tables
  <1>8. Mended(torn, unsettled, store) = Mended(files, unsettled, store)
    BY <1>7 DEF Mended
  <1>9. torn["chunks"] = files["chunks"] \/ torn["chunks"] = NoChunks
    BY <1>5, <1>6 DEF Tables
  <1>10. Evidenced(torn)
    BY <1>1, <1>9 DEF Evidenced, Stored, NoChunks
  <1>11. files' \in Files /\ Evidenced(files') /\ Mended(files', unsettled, store) = Mended(files, unsettled, store)
    BY <1>1, <1>3, <1>6, <1>8, <1>10
  <1>12. Gaps' = Gaps /\ Whence'
    BY <1>3, GapsFacts DEF IInv, Whence, MissingEntities, MissingRelations, MissingChunks, Stored
  <1>13. ~ Running' /\ ~ RollingBack' /\ call'.kind # "recovery"
    BY <1>3 DEF Running, RollingBack, NoCall
  <1>14. TypeOK'
    BY <1>1, <1>3, <1>11, <1>13 DEF TypeOK, RollingBack, Call
  <1> QED
    BY <1>1, <1>3, <1>11, <1>12, <1>13, <1>14 DEF IInv

\* The ids that dangle, one by one.
LEMMA MissingFacts ==
    ASSUME NEW f
    PROVE  /\ \A k : k \in MissingEntities(f) <=>
                 /\ k \notin f.entities
                 /\ (\E r \in f.relations : k \in Ends(r)) \/ (\E id \in Stored(f) : k \in f.chunks[id].entities)
           /\ \A r : r \in MissingRelations(f) <=>
                 r \notin f.relations /\ \E id \in Stored(f) : r \in f.chunks[id].relations
           /\ \A id : id \in MissingChunks(f) <=>
                 id \notin Stored(f) /\ \E r \in f.relations : id \in r.evidence
  <1> DEFINE ends == {Ends(r) : r \in f.relations}
             named == {f.chunks[id].entities : id \in Stored(f)}
             flagged == {f.chunks[id].relations : id \in Stored(f)}
             evidence == {r.evidence : r \in f.relations}
  <1>1. /\ \A k : k \in UNION ends <=> \E r \in f.relations : k \in Ends(r)
        /\ \A k : k \in UNION named <=> \E id \in Stored(f) : k \in f.chunks[id].entities
        /\ \A r : r \in UNION flagged <=> \E id \in Stored(f) : r \in f.chunks[id].relations
        /\ \A id : id \in UNION evidence <=> \E r \in f.relations : id \in r.evidence
    <2>1. /\ \A r \in f.relations : Ends(r) \in ends /\ r.evidence \in evidence
          /\ \A id \in Stored(f) : f.chunks[id].entities \in named /\ f.chunks[id].relations \in flagged
      OBVIOUS
    <2>2. /\ \A y \in ends : \E r \in f.relations : y = Ends(r)
          /\ \A y \in evidence : \E r \in f.relations : y = r.evidence
          /\ \A y \in named : \E id \in Stored(f) : y = f.chunks[id].entities
          /\ \A y \in flagged : \E id \in Stored(f) : y = f.chunks[id].relations
      OBVIOUS
    <2> HIDE DEF ends, named, flagged, evidence
    <2>3. \A k : k \in UNION ends <=> \E r \in f.relations : k \in Ends(r)
      BY <2>1, <2>2
    <2>4. \A k : k \in UNION named <=> \E id \in Stored(f) : k \in f.chunks[id].entities
      BY <2>1, <2>2
    <2>5. \A r : r \in UNION flagged <=> \E id \in Stored(f) : r \in f.chunks[id].relations
      BY <2>1, <2>2
    <2>6. \A id : id \in UNION evidence <=> \E r \in f.relations : id \in r.evidence
      BY <2>1, <2>2
    <2> QED
      BY <2>3, <2>4, <2>5, <2>6
  <1>2. /\ MissingEntities(f) = ((UNION ends) \cup (UNION named)) \ f.entities
        /\ MissingRelations(f) = (UNION flagged) \ f.relations
        /\ MissingChunks(f) = (UNION evidence) \ Stored(f)
    BY DEF MissingEntities, MissingRelations, MissingChunks
  <1> HIDE DEF ends, named, flagged, evidence
  <1> QED
    BY <1>1, <1>2

\* What dangles in a good store, or in the files beside it, is among the gaps.
LEMMA GoodMissing ==
    ASSUME NEW s, NEW f, NEW m, Good(s, f, m)
    PROVE  /\ MissingEntities(s) \subseteq m.entities /\ MissingEntities(f) \subseteq m.entities
           /\ MissingRelations(s) \subseteq m.relations /\ MissingRelations(f) \subseteq m.relations
           /\ MissingChunks(s) \subseteq m.chunks /\ MissingChunks(f) \subseteq m.chunks
  <1>1. /\ \A r \in s.relations : Ends(r) \subseteq f.entities \cup m.entities
        /\ \A r \in s.relations : r.evidence \subseteq Stored(f) \cup m.chunks
        /\ f.entities \subseteq s.entities /\ f.relations \subseteq s.relations /\ Stored(f) \subseteq Stored(s)
    BY DEF Good
  <1>2. /\ \A id \in Stored(s) : s.chunks[id].entities \subseteq f.entities \cup m.entities
        /\ \A id \in Stored(s) : s.chunks[id].relations \subseteq f.relations \cup m.relations
        /\ \A id \in Stored(f) : f.chunks[id].entities \subseteq f.entities \cup m.entities
        /\ \A id \in Stored(f) : f.chunks[id].relations \subseteq f.relations \cup m.relations
    BY DEF Good, Flagged
  <1>3. MissingEntities(s) \subseteq m.entities /\ MissingEntities(f) \subseteq m.entities
    BY <1>1, <1>2, MissingFacts
  <1>4. MissingRelations(s) \subseteq m.relations /\ MissingRelations(f) \subseteq m.relations
    BY <1>1, <1>2, MissingFacts
  <1>5. MissingChunks(s) \subseteq m.chunks /\ MissingChunks(f) \subseteq m.chunks
    BY <1>1, MissingFacts
  <1> QED
    BY <1>3, <1>4, <1>5

\* What a process loads is good beside the files it was loaded from, the gaps
\* being those of the files.
LEMMA LoadedGood ==
    ASSUME NEW f \in Files, Evidenced(f), NEW h
    PROVE  Good(LoadedStore(f), f,
                [entities |-> MissingEntities(f), relations |-> MissingRelations(f),
                 chunks |-> MissingChunks(f) \cup h])
  <1> DEFINE t == LoadedStore(f)
             m == [entities |-> MissingEntities(f), relations |-> MissingRelations(f),
                   chunks |-> MissingChunks(f) \cup h]
  <1>1. /\ t.chunks = f.chunks /\ t.entities = f.entities /\ t.relations = f.relations
        /\ Whole(t, m) /\ Stored(t) = Stored(f)
    BY DEF LoadedStore, Whole, Stored
  <1> HIDE DEF t
  <1>2. \A r \in f.relations : Ends(r) \subseteq f.entities \cup m.entities /\ r.evidence \subseteq Stored(f) \cup m.chunks
    BY MissingFacts
  <1>3. ASSUME NEW id \in Stored(f) PROVE Flagged(id, f.chunks[id], f, m)
    <2>1. f.chunks[id].entities \subseteq f.entities \cup m.entities
      BY <1>3, MissingFacts
    <2>2. f.chunks[id].relations \subseteq f.relations \cup m.relations
      BY <1>3, MissingFacts
    <2>3. \A r \in f.chunks[id].relations : id \in r.evidence
      BY <1>3 DEF Evidenced
    <2> QED
      BY <2>1, <2>2, <2>3 DEF Flagged
  <1> HIDE DEF m
  <1>4. Good(t, f, m)
    BY <1>1, <1>2, <1>3 DEF Good
  <1> QED
    BY <1>4 DEF t, m

\* A restart leaves a process that is good beside its files.
LEMMA RestartKeeps ==
    ASSUME IInv, Restart
    PROVE  IInv'
  <1>1. /\ TypeOK /\ store \in Store /\ files \in Files /\ Evidenced(files)
        /\ Good(store, Mended(files, unsettled, store), Gaps) /\ LoadedStore(files) \in Store
    BY LoadedFacts DEF IInv, TypeOK
  <1>2. /\ store' = LoadedStore(files) /\ files' = files /\ loaded' = files /\ handed' = handed
        /\ restoring' = {} /\ unsettled' = {} /\ call' = NoCall /\ runtime' = {}
        /\ damaged' = (damaged \/ unsettled # {})
    BY DEF Restart
  <1>3. ~ Running' /\ ~ RollingBack' /\ call'.kind # "recovery"
    BY <1>2 DEF Running, RollingBack, NoCall
  <1>4. Gaps' = [entities |-> MissingEntities(files), relations |-> MissingRelations(files),
                 chunks |-> MissingChunks(files) \cup handed]
    BY <1>2 DEF Gaps
  <1>5. Good(store', Mended(files', unsettled', store'), Gaps')
    BY <1>1, <1>2, <1>4, LoadedGood, SettledFiles
  <1>6. ASSUME ~damaged'
        PROVE  /\ MissingEntities(files) = {} /\ MissingRelations(files) = {}
               /\ MissingChunks(files) \subseteq handed
    <2>1. ~damaged /\ unsettled = {}
      BY <1>1, <1>2, <1>6 DEF TypeOK
    <2>2. Good(store, files, Gaps)
      BY <1>1, <2>1, SettledFiles
    <2>3. Gaps.entities = {} /\ Gaps.relations = {} /\ Gaps.chunks \subseteq handed
      BY <2>1 DEF IInv, Whence, Gaps
    <2> QED
      BY <2>2, <2>3, GoodMissing
  <1>7. Whence'
    BY <1>2, <1>6 DEF Whence
  <1>8. calls' \in 0..MaxCalls
    BY <1>1 DEF Restart, TypeOK
  <1>9. TypeOK'
    BY <1>1, <1>2, <1>3, <1>8 DEF TypeOK, Call, RollingBack
  <1>10. Evidenced(files')
    BY <1>1, <1>2
  <1> QED
    BY <1>3, <1>5, <1>7, <1>9, <1>10 DEF IInv

(***************************************************************************)
(* The calls that begin                                                    *)
(***************************************************************************)

\* More gaps do no harm.
LEMMA MoreGaps ==
    ASSUME NEW s, NEW f, NEW m, Good(s, f, m), NEW n,
           m.entities \subseteq n.entities, m.relations \subseteq n.relations, m.chunks \subseteq n.chunks
    PROVE  Good(s, f, n)
  <1>1. Whole(s, n)
    BY DEF Good, Whole
  <1>2. \A id \in Stored(s) : Flagged(id, s.chunks[id], f, n)
    BY DEF Good, Flagged
  <1>3. \A id \in Stored(f) : Flagged(id, f.chunks[id], f, n)
    BY DEF Good, Flagged
  <1>4. \A r \in s.relations :
            Ends(r) \subseteq f.entities \cup n.entities /\ r.evidence \subseteq Stored(f) \cup n.chunks
    BY DEF Good
  <1> QED
    BY <1>1, <1>2, <1>3, <1>4 DEF Good

\* The list of saves of a call that begins refers to nothing that is neither on
\* disk, nor among the gaps, nor earlier on the list.
Sound(kind, batch, todo, f, m) ==
    /\ todo.plain \cup todo.links \cup todo.pointers \subseteq batch
    /\ IF kind \in {"bundle", "recovery"} THEN todo.pointers = {} ELSE todo.plain = {}
    /\ \A r \in todo.relations :
          /\ Ends(r) \subseteq f.entities \cup todo.entities
          /\ r.evidence \subseteq Stored(f) \cup todo.plain \cup m.chunks
    /\ todo.links # {} =>
          ExtractedEntities(batch) \subseteq todo.entities /\ ExtractedRelations(batch) \subseteq todo.relations

\* A call may begin with copies whose flags resolve and a list that is sound.
LEMMA BeginStep ==
    ASSUME IInv, NEW kind \in {"bundle", "recovery", "graph", "vectors", "terms", "runtime"},
           NEW copies \in [ChunkIds -> Chunk \cup {NoChunk}], NEW todo \in Work,
           NEW batch, batch = {id \in ChunkIds : copies[id] # NoChunk},
           Begin(kind, copies, todo), handed \subseteq handed', handed' \subseteq ChunkIds,
           \A id \in batch : Flagged(id, copies[id], Mended(files, unsettled, store), Gaps),
           Sound(kind, batch, todo, Mended(files, unsettled, store), Gaps')
    PROVE  IInv'
  <1> DEFINE before == [store |-> store, files |-> files, unsettled |-> unsettled, todo |-> todo]
             mf == Mended(files, unsettled, store)
             c == [kind |-> kind, copies |-> copies, todo |-> todo, before |-> before]
  <1>1. /\ TypeOK /\ Good(store, mf, Gaps) /\ Evidenced(files) /\ store \in Store /\ files \in Files
        /\ unsettled \in SUBSET Tables
        /\ UNCHANGED <<store, files, runtime, restoring, unsettled, loaded, damaged>>
        /\ call' = c /\ call.kind = "none"
    BY DEF IInv, TypeOK, Begin, Idle
  <1>2. ~ RollingBack /\ ~ RollingBack'
    BY <1>1 DEF TypeOK, RollingBack
  <1>3. calls' \in 0..MaxCalls
    BY <1>1, MaxCallsAssumption DEF Begin, TypeOK
  <1>4. before \in [store : Store, files : Files, unsettled : SUBSET Tables, todo : Work]
        /\ before.store = store /\ before.files = files /\ before.unsettled = unsettled /\ before.todo = todo
    BY <1>1
  <1> HIDE DEF before
  <1>5. /\ c \in ActiveCall /\ c.kind = kind /\ c.copies = copies /\ c.todo = todo /\ c.before = before
        /\ Batch(c) = batch
    BY <1>4 DEF ActiveCall, Batch
  <1>6. Again(c) = c
    BY <1>4 DEF Again
  <1> HIDE DEF c
  <1>7. TypeOK'
    BY <1>1, <1>2, <1>3, <1>5 DEF TypeOK, Call, ActiveCall, RollingBack
  <1>8. /\ Gaps.entities \subseteq Gaps'.entities /\ Gaps.relations \subseteq Gaps'.relations
        /\ Gaps.chunks \subseteq Gaps'.chunks
    BY <1>1 DEF Gaps
  <1>9. Whence'
    <2>1. loaded' = loaded /\ damaged' = damaged
      BY <1>1
    <2> QED
      BY <2>1 DEF IInv, Whence
  <1> HIDE DEF mf
  <1>10. Good(store, mf, Gaps')
    BY <1>1, <1>8, MoreGaps
  <1>11. \A id \in batch : Flagged(id, copies[id], mf, Gaps')
    BY <1>8 DEF Flagged, mf
  <1>12. Sound(kind, batch, todo, mf, Gaps')
    BY DEF mf
  <1>13. Due(c, mf, Gaps')
    BY <1>5, <1>11, <1>12 DEF Sound, Due
  <1>14. BeforeFiles(c) = mf
    BY <1>4, <1>5 DEF BeforeFiles, mf
  <1>15. CanGoBack(c, Gaps')
    BY <1>1, <1>4, <1>5, <1>6, <1>10, <1>13, <1>14 DEF CanGoBack
  <1>16. mf = Mended(files', unsettled', store')
    BY <1>1 DEF mf
  <1>17. Evidenced(files')
    BY <1>1
  <1> QED
    BY <1>1, <1>2, <1>7, <1>9, <1>10, <1>13, <1>15, <1>16, <1>17 DEF IInv

\* The work of enrichment.
LEMMA GraphWorkFacts ==
    ASSUME NEW batch \in SUBSET ChunkIds
    PROVE  /\ NoWork \in Work /\ GraphWork(batch) \in Work
           /\ GraphWork(batch).plain = {} /\ GraphWork(batch).pointers = {}
           /\ GraphWork(batch).links = batch
           /\ GraphWork(batch).entities = ExtractedEntities(batch)
           /\ GraphWork(batch).relations = ExtractedRelations(batch)
  <1>1. ExtractedEntities(batch) \in SUBSET Keys /\ ExtractedRelations(batch) \in SUBSET Relation
    BY ExtractedFacts
  <1> QED
    BY <1>1 DEF GraphWork, NoWork, Work

\* A chunk as the splitter makes it has no flags.
LEMMA FreshFacts ==
    ASSUME NEW document \in Documents, NEW id \in ChunkIds, NEW f, NEW m
    PROVE  /\ Fresh(document) \in Chunk /\ Fresh(document) # NoChunk
           /\ Flagged(id, Fresh(document), f, m)
  <1>1. Fresh(document) \in Chunk
    BY DEF Fresh, Chunk
  <1> QED
    BY <1>1, NoChunkAssumption DEF Fresh, Flagged

\* The list of saves of a bundle.
BundleWork(batch, enrich) == [(IF enrich THEN GraphWork(batch) ELSE NoWork) EXCEPT !.plain = batch]

LEMMA BundleWorkFacts ==
    ASSUME NEW batch \in SUBSET ChunkIds, NEW enrich \in BOOLEAN
    PROVE  LET todo == BundleWork(batch, enrich)
           IN  /\ todo \in Work /\ todo.pointers = {}
               /\ \A f, m : Sound("bundle", batch, todo, f, m) /\ Sound("recovery", batch, todo, f, m)
  <1> DEFINE work == IF enrich THEN GraphWork(batch) ELSE NoWork
             todo == [work EXCEPT !.plain = batch]
  <1>1. work \in Work /\ work.pointers = {} /\ work.links \subseteq batch
    BY GraphWorkFacts DEF NoWork
  <1>2. /\ work.links # {} => work.relations = ExtractedRelations(batch) /\ work.entities = ExtractedEntities(batch)
        /\ \A r \in work.relations : Ends(r) \subseteq work.entities /\ r.evidence \subseteq batch
    <2>1. CASE enrich
      BY <2>1, GraphWorkFacts, ExtractedFacts
    <2>2. CASE ~ enrich
      BY <2>2 DEF NoWork
    <2> QED
      BY <2>1, <2>2
  <1> HIDE DEF work
  <1>3. /\ todo \in Work /\ todo.plain = batch /\ todo.links = work.links /\ todo.pointers = work.pointers
        /\ todo.entities = work.entities /\ todo.relations = work.relations
    BY <1>1 DEF Work
  <1>4. todo = BundleWork(batch, enrich)
    BY DEF BundleWork, work
  <1> HIDE DEF todo
  <1>5. \A f, m : Sound("bundle", batch, todo, f, m) /\ Sound("recovery", batch, todo, f, m)
    BY <1>1, <1>2, <1>3 DEF Sound
  <1> QED
    BY <1>1, <1>3, <1>4, <1>5

\* A bundle begins, enriched or not, with recovery or without.
LEMMA BeginBundleKeeps ==
    ASSUME IInv, NEW kind \in {"bundle", "recovery"}, NEW batch \in SUBSET ChunkIds,
           NEW document \in Documents, NEW enrich \in BOOLEAN,
           BeginBundle(kind, batch, document, enrich)
    PROVE  IInv'
  <1> DEFINE copies == [id \in ChunkIds |-> IF id \in batch THEN Fresh(document) ELSE NoChunk]
             todo == BundleWork(batch, enrich)
  <1>1. todo \in Work /\ Sound(kind, batch, todo, Mended(files, unsettled, store), Gaps')
    BY BundleWorkFacts
  <1>2. Begin(kind, copies, todo) /\ handed \subseteq handed' /\ handed' \subseteq ChunkIds
    BY DEF BeginBundle, BundleWork, IInv, TypeOK
  <1>3. Fresh(document) \in Chunk /\ Fresh(document) # NoChunk
    <2>1. Fresh(document) \in Chunk
      BY DEF Fresh, Chunk
    <2> QED
      BY <2>1, NoChunkAssumption
  <1>4. /\ copies \in [ChunkIds -> Chunk \cup {NoChunk}]
        /\ batch = {id \in ChunkIds : copies[id] # NoChunk}
        /\ \A id \in batch : copies[id] = Fresh(document)
    BY <1>3
  <1> HIDE DEF copies, todo
  <1>5. \A id \in batch : Flagged(id, copies[id], Mended(files, unsettled, store), Gaps)
    BY <1>4, FreshFacts
  <1> QED
    BY <1>1, <1>2, <1>4, <1>5, BeginStep

\* The copies a caller may hold are as the splitter made them or as they are
\* stored, and their flags resolve.
LEMMA HeldCopiesFacts ==
    ASSUME IInv, NEW batch \in SUBSET ChunkIds, NEW copies \in HeldCopies(batch)
    PROVE  /\ copies \in [ChunkIds -> Chunk \cup {NoChunk}]
           /\ batch = {id \in ChunkIds : copies[id] # NoChunk}
           /\ \A id \in batch : copies[id] \in Held(id)
           /\ \A id \in batch : Flagged(id, copies[id], Mended(files, unsettled, store), Gaps)
  <1>1. PICK copy \in [batch -> UNION {Held(id) : id \in batch}] :
            /\ \A id \in batch : copy[id] \in Held(id)
            /\ copies = [id \in ChunkIds |-> IF id \in batch THEN copy[id] ELSE NoChunk]
    BY DEF HeldCopies
  <1>2. \A id \in batch : copies[id] = copy[id] /\ copies[id] \in Held(id)
    BY <1>1
  <1>3. \A id \in ChunkIds \ batch : copies[id] = NoChunk
    BY <1>1
  <1>4. store \in Store
    BY DEF IInv, TypeOK
  <1>5. ASSUME NEW id \in batch
        PROVE  /\ copies[id] \in Chunk /\ copies[id] # NoChunk
               /\ Flagged(id, copies[id], Mended(files, unsettled, store), Gaps)
    <2>1. CASE copies[id] = store.chunks[id] /\ store.chunks[id] # NoChunk
      <3>1. id \in Stored(store)
        BY <2>1 DEF Stored
      <3>2. Flagged(id, store.chunks[id], Mended(files, unsettled, store), Gaps)
        BY <3>1 DEF IInv, Good
      <3>3. store.chunks[id] \in Chunk
        BY <1>4, <2>1 DEF Store
      <3> QED
        BY <2>1, <3>2, <3>3
    <2>2. CASE \E document \in Documents : copies[id] = Fresh(document)
      BY <2>2, FreshFacts
    <2> QED
      BY <1>2, <2>1, <2>2 DEF Held
  <1>6. copies \in [ChunkIds -> Chunk \cup {NoChunk}]
    <2> DEFINE value(id) == IF id \in batch THEN copy[id] ELSE NoChunk
    <2>1. copies = [id \in ChunkIds |-> value(id)]
      BY <1>1
    <2>2. \A id \in ChunkIds : value(id) \in Chunk \cup {NoChunk}
      BY <1>2, <1>5
    <2> HIDE DEF value
    <2> QED
      BY <2>1, <2>2
  <1>7. batch = {id \in ChunkIds : copies[id] # NoChunk}
    BY <1>3, <1>5
  <1> QED
    BY <1>2, <1>5, <1>6, <1>7

\* A graph commit begins, with any copies of chunks, stored or not.
LEMMA BeginGraphKeeps ==
    ASSUME IInv, NEW batch \in SUBSET ChunkIds, NEW copies \in HeldCopies(batch),
           BeginGraph(batch, copies)
    PROVE  IInv'
  <1> DEFINE todo == GraphWork(batch)
             mf == Mended(files, unsettled, store)
  <1>1. /\ todo \in Work /\ todo.plain = {} /\ todo.pointers = {} /\ todo.links = batch
        /\ todo.entities = ExtractedEntities(batch) /\ todo.relations = ExtractedRelations(batch)
    BY GraphWorkFacts
  <1>2. /\ Begin("graph", copies, todo)
        /\ handed' = handed \cup {id \in batch : NoChunk \in {store.chunks[id], files.chunks[id]}}
        /\ handed \subseteq handed' /\ handed' \subseteq ChunkIds
    BY DEF BeginGraph, IInv, TypeOK
  <1>3. /\ copies \in [ChunkIds -> Chunk \cup {NoChunk}]
        /\ batch = {id \in ChunkIds : copies[id] # NoChunk}
        /\ \A id \in batch : Flagged(id, copies[id], mf, Gaps)
    BY HeldCopiesFacts
  <1>4. batch \subseteq Stored(mf) \cup handed'
    BY <1>2 DEF Mended, Stored
  <1>5. handed' \subseteq Gaps'.chunks
    BY DEF Gaps
  <1> HIDE DEF todo, mf
  <1>6. /\ \A r \in todo.relations : Ends(r) \subseteq todo.entities /\ r.evidence \subseteq batch
        /\ "graph" \in {"bundle", "recovery", "graph", "vectors", "terms", "runtime"}
    BY <1>1, ExtractedFacts
  <1>7. Sound("graph", batch, todo, mf, Gaps')
    BY <1>1, <1>4, <1>5, <1>6 DEF Sound
  <1> QED
    BY <1>1, <1>2, <1>3, <1>6, <1>7, BeginStep DEF mf

\* An index commit begins, with any copies of chunks, stored or not.
LEMMA BeginIndexingKeeps ==
    ASSUME IInv, NEW batch \in SUBSET ChunkIds, NEW copies \in HeldCopies(batch),
           NEW kind \in {"vectors", "terms", "runtime"}, BeginIndexing(kind, batch, copies)
    PROVE  IInv'
  <1> DEFINE todo == [NoWork EXCEPT !.pointers = batch \ Wordless]
  <1>1. /\ todo \in Work /\ todo.plain = {} /\ todo.links = {} /\ todo.relations = {}
        /\ todo.pointers = batch \ Wordless
    BY DEF NoWork, Work
  <1>2. Begin(kind, copies, todo) /\ handed \subseteq handed' /\ handed' \subseteq ChunkIds
    BY DEF BeginIndexing, IInv, TypeOK
  <1>3. /\ copies \in [ChunkIds -> Chunk \cup {NoChunk}]
        /\ batch = {id \in ChunkIds : copies[id] # NoChunk}
        /\ \A id \in batch : Flagged(id, copies[id], Mended(files, unsettled, store), Gaps)
    BY HeldCopiesFacts
  <1> HIDE DEF todo
  <1>4. /\ kind \notin {"bundle", "recovery"}
        /\ kind \in {"bundle", "recovery", "graph", "vectors", "terms", "runtime"}
    OBVIOUS
  <1>5. Sound(kind, batch, todo, Mended(files, unsettled, store), Gaps')
    BY <1>1, <1>4 DEF Sound
  <1> QED
    BY <1>1, <1>2, <1>3, <1>4, <1>5, BeginStep

(***************************************************************************)
(* The theorems                                                            *)
(***************************************************************************)

\* The files of a committed bundle are closed.
LEMMA CommittedFacts ==
    ASSUME NEW batch \in SUBSET ChunkIds, NEW document \in Documents,
           NEW f, f = Committed(batch, document)
    PROVE  /\ f \in Files /\ Evidenced(f)
           /\ MissingEntities(f) = {} /\ MissingRelations(f) = {} /\ MissingChunks(f) = {}
  <1> DEFINE relations == ExtractedRelations(batch)
  <1>1. /\ ExtractedEntities(batch) \in SUBSET Keys /\ relations \in SUBSET Relation
        /\ \A r \in relations : Ends(r) \subseteq ExtractedEntities(batch) /\ r.evidence \subseteq batch
        /\ \A id \in batch : Mentions[id] \subseteq ExtractedEntities(batch)
    BY ExtractedFacts
  <1>2. Fresh(document) \in Chunk /\ Fresh(document).entities = {} /\ Fresh(document).relations = {}
    BY DEF Fresh, Chunk
  <1>3. \A id \in batch :
           LET flagged == WithGraphFlags(id, Fresh(document), batch)
           IN  /\ flagged \in Chunk /\ flagged.entities = Mentions[id]
               /\ flagged.relations = {r \in relations : id \in r.evidence}
    <2> SUFFICES ASSUME NEW id \in batch
                 PROVE  LET flagged == WithGraphFlags(id, Fresh(document), batch)
                        IN  /\ flagged \in Chunk /\ flagged.entities = Mentions[id]
                            /\ flagged.relations = {r \in relations : id \in r.evidence}
      OBVIOUS
    <2> DEFINE fresh == Fresh(document)
               flagged == WithGraphFlags(id, fresh, batch)
    <2>1. fresh \in Chunk /\ fresh.entities = {} /\ fresh.relations = {}
      BY <1>2
    <2>2. flagged = WithGraphFlags(id, fresh, batch)
      OBVIOUS
    <2> HIDE DEF fresh, flagged
    <2>3. flagged \in Chunk /\ flagged.entities = fresh.entities \cup Mentions[id]
      BY <2>1, <2>2, FlagFacts
    <2>4. \A r : r \in flagged.relations <=> r \in fresh.relations \/ (r \in relations /\ id \in r.evidence)
      BY <2>1, <2>2, FlagFacts
    <2> HIDE DEF relations
    <2>5. flagged.entities = Mentions[id]
      BY <2>1, <2>3
    <2>6. flagged.relations = {r \in relations : id \in r.evidence}
      BY <2>1, <2>4
    <2> QED
      BY <2>3, <2>5, <2>6 DEF flagged, fresh
  <1>4. /\ f.entities = ExtractedEntities(batch) /\ f.relations = relations
        /\ \A id \in ChunkIds :
              f.chunks[id] = IF id \in batch THEN WithGraphFlags(id, Fresh(document), batch) ELSE NoChunk
    BY DEF Committed
  <1>5. f \in Files
    BY <1>1, <1>3 DEF Committed, Files
  <1> HIDE DEF relations
  <1>6. Stored(f) = batch
    BY <1>3, <1>4, NoChunkAssumption DEF Stored
  <1>7. \A id \in Stored(f) :
           /\ f.chunks[id].entities \subseteq f.entities
           /\ f.chunks[id].relations = {r \in f.relations : id \in r.evidence}
    BY <1>1, <1>3, <1>4, <1>6
  <1>8. \A r \in f.relations : Ends(r) \subseteq f.entities /\ r.evidence \subseteq Stored(f)
    BY <1>1, <1>4, <1>6
  <1>9. Evidenced(f)
    BY <1>7 DEF Evidenced
  <1>10. MissingEntities(f) = {}
    BY <1>7, <1>8 DEF MissingEntities
  <1>11. MissingRelations(f) = {}
    BY <1>7 DEF MissingRelations
  <1>12. MissingChunks(f) = {}
    BY <1>8 DEF MissingChunks
  <1> QED
    BY <1>5, <1>9, <1>10, <1>11, <1>12

\* A committed bundle and what is loaded from it.
LEMMA InitKeeps ==
    ASSUME Init
    PROVE  IInv
  <1>1. /\ files \in Files /\ Evidenced(files)
        /\ MissingEntities(files) = {} /\ MissingRelations(files) = {} /\ MissingChunks(files) = {}
    BY CommittedFacts DEF Init
  <1>2. /\ store = LoadedStore(files) /\ runtime = {} /\ call = NoCall /\ restoring = {} /\ unsettled = {}
        /\ loaded = files /\ damaged = FALSE /\ handed = {} /\ calls = 0
    BY DEF Init
  <1>3. store \in Store
    BY <1>1, <1>2, LoadedFacts
  <1>4. ~ Running /\ ~ RollingBack /\ call.kind # "recovery"
    BY <1>2 DEF Running, RollingBack, NoCall
  <1>5. TypeOK
    <2>1. calls \in 0..MaxCalls
      BY <1>2, MaxCallsAssumption
    <2>2. /\ loaded \in Files /\ call \in Call /\ damaged \in BOOLEAN /\ runtime \in SUBSET ChunkIds
          /\ restoring \in SUBSET Tables /\ unsettled \in SUBSET Tables /\ handed \in SUBSET ChunkIds
      BY <1>1, <1>2 DEF Call
    <2> QED
      BY <1>1, <1>3, <1>4, <2>1, <2>2 DEF TypeOK
  <1>8. Gaps = [entities |-> MissingEntities(files), relations |-> MissingRelations(files),
                chunks |-> MissingChunks(files) \cup handed]
    BY <1>2 DEF Gaps
  <1>9. Good(store, Mended(files, unsettled, store), Gaps)
    BY <1>1, <1>2, <1>8, LoadedGood, SettledFiles
  <1>10. Whence
    BY <1>1, <1>2 DEF Whence
  <1> QED
    BY <1>1, <1>4, <1>5, <1>9, <1>10 DEF IInv

\* Every step keeps the invariant.
LEMMA StepKeeps ==
    ASSUME IInv, [Next]_vars
    PROVE  IInv'
  <1>1. CASE BeginSome
    <2>1. CASE \E batch \in (SUBSET ChunkIds) \ {{}}, document \in Documents, enrich \in BOOLEAN :
                  \E kind \in {"bundle", "recovery"} : BeginBundle(kind, batch, document, enrich)
      BY <2>1, BeginBundleKeeps
    <2>2. ASSUME NEW batch \in (SUBSET ChunkIds) \ {{}}, NEW copies \in HeldCopies(batch),
                 \/ BeginGraph(batch, copies)
                 \/ \E kind \in {"vectors", "terms", "runtime"} : BeginIndexing(kind, batch, copies)
          PROVE  IInv'
      BY <2>2, BeginGraphKeeps, BeginIndexingKeeps
    <2> QED
      BY <1>1, <2>1, <2>2 DEF BeginSome
  <1>2. CASE \E id \in ChunkIds : SaveOneChunk(id) \/ LinkOneChunk(id) \/ IndexOneChunk(id)
    BY <1>2, SaveOneChunkKeeps, LinkOneChunkKeeps, IndexOneChunkKeeps
  <1>3. CASE \E k \in Keys : SaveOneEntity(k)
    BY <1>3, SaveOneEntityKeeps
  <1>4. CASE \E r \in Relation : SaveOneRelation(r)
    BY <1>4, SaveOneRelationKeeps
  <1>5. CASE Return
    BY <1>5, ReturnKeeps
  <1>6. CASE RestoreFile
    BY <1>6, RestoreFileKeeps
  <1>7. CASE RestoreFails
    BY <1>7, RestoreFailsKeeps
  <1>8. CASE Restart
    BY <1>8, RestartKeeps
  <1>9. CASE Done \/ UNCHANGED vars
    <2>1. UNCHANGED <<store, files, runtime, call, restoring, unsettled, loaded, damaged, handed, calls>>
      BY <1>9 DEF Done, vars
    <2>2. Gaps' = Gaps /\ (Whence <=> Whence') /\ (TypeOK <=> TypeOK')
      BY <2>1, GapsFacts DEF Whence, TypeOK, RollingBack
    <2>3. (Running' <=> Running) /\ (RollingBack' <=> RollingBack) /\ (Restored' <=> Restored)
      BY <2>1 DEF Running, RollingBack, Restored
    <2>4. Evidenced(files') <=> Evidenced(files)
      BY <2>1
    <2> QED
      BY <2>1, <2>2, <2>3, <2>4 DEF IInv
  <1> QED
    BY <1>1, <1>2, <1>3, <1>4, <1>5, <1>6, <1>7, <1>8, <1>9 DEF Next

\* The invariant of the proofs holds of every reachable state.
THEOREM Invariant == Spec => []IInv
  <1>1. Init => IInv
    BY InitKeeps
  <1>2. IInv /\ [Next]_vars => IInv'
    BY StepKeeps
  <1> QED
    BY <1>1, <1>2, PTL DEF Spec

\* Every record keeps its shape, whatever the calls and failures.
THEOREM TypeCorrect == Spec => []TypeOK
  <1>1. IInv => TypeOK
    BY DEF IInv
  <1> QED
    BY <1>1, Invariant, PTL

\* The reverse indexes of graph search hold exactly the stored records, between
\* any two saves, after a save that failed, a reload, and a rollback, whole or cut
\* short; but for relations that a chunk still named when it was loaded and whose
\* file was lost.
THEOREM IndexesWhole == Spec => []IndexesAreWhole
  <1>1. ASSUME IInv
        PROVE  IndexesAreWhole
    <2>1. Whole(store, Gaps) /\ Gaps.relations = MissingRelations(loaded)
      BY <1>1 DEF IInv, Good, Gaps
    <2>2. ASSUME NEW id \in ChunkIds
          PROVE  /\ store.relationsAt[id] \cap store.relations = {r \in store.relations : id \in r.evidence}
                 /\ store.relationsAt[id] \ store.relations \subseteq MissingRelations(loaded)
      <3>1. /\ {r \in store.relations : id \in r.evidence} \subseteq store.relationsAt[id]
            /\ store.relationsAt[id] \subseteq
                  {r \in store.relations \cup MissingRelations(loaded) : id \in r.evidence}
        BY <2>1 DEF Whole
      <3> QED
        BY <3>1
    <2> QED
      BY <2>1, <2>2 DEF Whole, IndexesAreWhole
  <1> QED
    BY <1>1, Invariant, PTL

\* No save leaves an id that dangles, in memory or on disk, wherever a process
\* stops or a write fails; what dangles was loaded so, after a rollback cut short,
\* or is evidence a graph commit named before it was stored.
THEOREM GraphClosed == Spec => []GraphIsClosed
  <1>1. ASSUME IInv
        PROVE  GraphIsClosed
    <2>1. files \in Files /\ Good(store, Mended(files, unsettled, store), Gaps)
      BY <1>1 DEF IInv, TypeOK
    <2>2. /\ Gaps.entities = MissingEntities(loaded) /\ Gaps.relations = MissingRelations(loaded)
          /\ Gaps.chunks = MissingChunks(loaded) \cup handed
      BY DEF Gaps
    <2>3. NothingLost(store)
      BY <2>1, <2>2, GoodMissing DEF NothingLost
    <2>4. unsettled = {} => NothingLost(files)
      BY <2>1, <2>2, GoodMissing, SettledFiles DEF NothingLost
    <2> QED
      BY <1>1, <2>3, <2>4 DEF GraphIsClosed, IInv, Whence
  <1> QED
    BY <1>1, Invariant, PTL

\* Whatever copy of a stored chunk an index commit is handed, only the pointer of
\* the stored chunk changes.
THEOREM IndexingKeeps == Spec => IndexingKeepsChunks
  <1> DEFINE Kept(id) ==
        call.kind \in {"vectors", "terms", "runtime"} /\ IndexOneChunk(id) =>
          LET chunk == IF id \in Stored(store) THEN store.chunks[id] ELSE call.copies[id]
          IN  /\ \A other \in ChunkIds \ {id} : store'.chunks[other] = store.chunks[other]
              /\ store'.chunks[id] =
                   IF call.kind = "terms" THEN [chunk EXCEPT !.terms = TRUE]
                   ELSE [chunk EXCEPT !.embedding = TRUE]
  <1>1. ASSUME IInv, NEW id \in ChunkIds, call.kind \in {"vectors", "terms", "runtime"}, IndexOneChunk(id)
        PROVE  Kept(id)
    <2> DEFINE base == BaseChunk(store, id, call.copies[id])
               chunk == IF id \in Stored(store) THEN store.chunks[id] ELSE call.copies[id]
               ct == CommitTerms(store, id, call.copies[id])
               ce == CommitEmbedding(store, id, call.copies[id])
               pt == [base EXCEPT !.terms = TRUE]
               pe == [base EXCEPT !.embedding = TRUE]
               next == IF call.kind = "terms" THEN ct ELSE ce
    <2>1. Running /\ call.kind # "recovery" /\ id \in call.todo.pointers /\ store \in Store
      BY <1>1 DEF IndexOneChunk, IInv, TypeOK
    <2>2. base \in Chunk /\ base = chunk
      BY <1>1, <2>1, IndexedBase
    <2>3. ct.chunks = [store.chunks EXCEPT ![id] = pt]
      BY <2>1, <2>2, TermsFacts
    <2>4. ce.chunks = [store.chunks EXCEPT ![id] = pe]
      BY <2>1, <2>2, EmbeddingFacts
    <2>5. store' = next
      BY <1>1, <2>1 DEF IndexOneChunk, Save, Fail
    <2> HIDE DEF ct, ce, pt, pe
    <2>6. store'.chunks = [store.chunks EXCEPT ![id] = IF call.kind = "terms" THEN pt ELSE pe]
      <3>1. CASE call.kind = "terms"
        BY <2>3, <2>5, <3>1
      <3>2. CASE call.kind # "terms"
        BY <2>4, <2>5, <3>2
      <3> QED
        BY <3>1, <3>2
    <2>7. store.chunks \in [ChunkIds -> Chunk \cup {NoChunk}]
      BY <2>1 DEF Store
    <2> HIDE DEF base, chunk
    <2>8. /\ \A other \in ChunkIds \ {id} : store'.chunks[other] = store.chunks[other]
          /\ store'.chunks[id] = IF call.kind = "terms" THEN pt ELSE pe
      BY <2>6, <2>7
    <2>9. pt = [chunk EXCEPT !.terms = TRUE] /\ pe = [chunk EXCEPT !.embedding = TRUE]
      BY <2>2 DEF pt, pe
    <2> QED
      BY <2>8, <2>9 DEF chunk
  <1>2. IInv /\ [Next]_vars => [\A id \in ChunkIds : Kept(id)]_vars
    BY <1>1
  <1> QED
    BY <1>2, Invariant, PTL DEF Spec, IndexingKeepsChunks

\* Graph search finds after a restart what it found before, of what was filed.
THEOREM RestartKeepsSearch == Spec => RestartKeepsGraphSearch
  <1> DEFINE Kept ==
        Restart =>
          /\ store.aliases \cap files.entities \subseteq store'.aliases
          /\ \A k \in Keys : store.relationsOf[k] \cap files.relations \subseteq store'.relationsOf[k]
  <1>1. ASSUME IInv, Restart
        PROVE  Kept
    <2>1. \A k \in Keys : store.relationsOf[k] = {r \in store.relations : k \in Ends(r)}
      BY <1>1 DEF IInv, Good, Whole
    <2> DEFINE s == LoadedStore(files)
    <2>2. store' = s
      BY <1>1 DEF Restart
    <2>3. /\ s.aliases = files.entities
          /\ \A k \in Keys : s.relationsOf[k] = {r \in files.relations : k \in Ends(r)}
      BY DEF LoadedStore
    <2> HIDE DEF s
    <2> QED
      BY <2>1, <2>2, <2>3
  <1>2. IInv /\ [Next]_vars => [Kept]_vars
    BY <1>1
  <1> QED
    BY <1>2, Invariant, PTL DEF Spec, RestartKeepsGraphSearch

(***************************************************************************)
(* The links and the pointers of chunks                                    *)
(***************************************************************************)

\* The pointers of a copy of a chunk resolve in s, or the chunk was loaded
\* with them.
Resolves(chunk, id, s, l) ==
    /\ chunk.embedding => id \in s.embeddings \/ (l.chunks[id] # NoChunk /\ l.chunks[id].embedding)
    /\ chunk.terms => id \in s.terms \/ (l.chunks[id] # NoChunk /\ l.chunks[id].terms)

\* The flags of a chunk are indexed at its id, or it was loaded with them: with
\* an entity, or with a relation that was not there.
FlagsIndexed(chunk, id, s, l) ==
    /\ \A k \in chunk.entities :
          k \in s.entitiesAt[id] \/ (l.chunks[id] # NoChunk /\ k \in l.chunks[id].entities)
    /\ \A r \in chunk.relations :
          r \in s.relationsAt[id] \/ (l.chunks[id] # NoChunk /\ r \in l.chunks[id].relations \ l.relations)

\* The two directions of the links agree, and every stored chunk has its flags
\* indexed and its pointers resolved.
Indexed(s, l) ==
    /\ \A id \in ChunkIds, k \in Keys : k \in s.entitiesAt[id] <=> id \in s.chunksOf[k]
    /\ \A id \in Stored(s) : FlagsIndexed(s.chunks[id], id, s, l) /\ Resolves(s.chunks[id], id, s, l)
    /\ s.embeddings \cup s.terms \subseteq Stored(s) \ Wordless

\* The copies a call was handed may be stored as they are.
Vouched(c, s, l) ==
    \A id \in Batch(c) : FlagsIndexed(c.copies[id], id, s, l) /\ Resolves(c.copies[id], id, s, l)

\* So they have in memory, and a bundle that may be rolled back had when it began.
LinkInv ==
    /\ Indexed(store, loaded) /\ runtime \subseteq store.embeddings
    /\ Running => Vouched(call, store, loaded) /\ call.todo.pointers \cap Wordless = {}
    /\ call.kind = "recovery" =>
          /\ Indexed(call.before.store, loaded) /\ Vouched(call, call.before.store, loaded)
          /\ runtime \subseteq call.before.store.embeddings
          /\ call.before.todo.pointers = {}

\* The invariant gives the two properties.
LEMMA LinkInvGives == TypeOK /\ LinkInv => LinksVerify /\ PointersResolve
  <1> SUFFICES ASSUME TypeOK, LinkInv PROVE LinksVerify /\ PointersResolve
    OBVIOUS
  <1>1. Indexed(store, loaded) /\ runtime \subseteq store.embeddings
    BY DEF LinkInv
  <1>2. ASSUME NEW id \in Stored(store), EntityComplaints(id) # {}
        PROVE  /\ loaded.chunks[id] # NoChunk
               /\ EntityComplaints(id) \subseteq loaded.chunks[id].entities
    <2>1. store.chunks[id].entities \subseteq Keys /\ id \in ChunkIds
      BY DEF TypeOK, Store, Chunk, Stored
    <2>2. FlagsIndexed(store.chunks[id], id, store, loaded)
      BY <1>1 DEF Indexed
    <2>3. \A k \in EntityComplaints(id) : loaded.chunks[id] # NoChunk /\ k \in loaded.chunks[id].entities
      BY <1>1, <2>1, <2>2 DEF Indexed, FlagsIndexed, EntityComplaints
    <2> QED
      BY <1>2, <2>3
  <1>3. ASSUME NEW id \in Stored(store), RelationComplaints(id) # {}
        PROVE  /\ loaded.chunks[id] # NoChunk
               /\ RelationComplaints(id) \subseteq loaded.chunks[id].relations \ loaded.relations
    <2>1. FlagsIndexed(store.chunks[id], id, store, loaded)
      BY <1>1 DEF Indexed
    <2>2. \A r \in RelationComplaints(id) :
              loaded.chunks[id] # NoChunk /\ r \in loaded.chunks[id].relations \ loaded.relations
      BY <2>1 DEF FlagsIndexed, RelationComplaints
    <2> QED
      BY <1>3, <2>2
  <1>4. LinksVerify
    BY <1>1, <1>2, <1>3 DEF LinksVerify, Indexed
  <1>5. PointersResolve
    BY <1>1 DEF PointersResolve, Indexed, Resolves
  <1> QED
    BY <1>4, <1>5

\* A store that has lost nothing of what copies of chunks are checked against.
Grown(s, t) ==
    /\ \A c \in ChunkIds : s.entitiesAt[c] \subseteq t.entitiesAt[c] /\ s.relationsAt[c] \subseteq t.relationsAt[c]
    /\ s.embeddings \subseteq t.embeddings /\ s.terms \subseteq t.terms

\* What was indexed and resolved before still is.
LEMMA GrownFacts ==
    ASSUME NEW s, NEW t, NEW l, NEW id \in ChunkIds, NEW chunk, Grown(s, t),
           FlagsIndexed(chunk, id, s, l), Resolves(chunk, id, s, l)
    PROVE  FlagsIndexed(chunk, id, t, l) /\ Resolves(chunk, id, t, l)
  BY DEF Grown, FlagsIndexed, Resolves

\* A save of a chunk whose own flags are indexed and whose pointers resolve, and
\* which takes nothing from the indexes.
LEMMA ChunkSaveIndexed ==
    ASSUME NEW s \in Store, NEW next \in Store, NEW l, NEW id \in ChunkIds, NEW chunk \in Chunk,
           Indexed(s, l), next.chunks = [s.chunks EXCEPT ![id] = chunk], Grown(s, next),
           \A c \in ChunkIds, k \in Keys : k \in next.entitiesAt[c] <=> c \in next.chunksOf[k],
           next.embeddings \cup next.terms \subseteq s.embeddings \cup s.terms \cup ({id} \ Wordless),
           FlagsIndexed(chunk, id, next, l), Resolves(chunk, id, next, l)
    PROVE  Indexed(next, l)
  <1>1. /\ next.chunks[id] = chunk /\ chunk # NoChunk
        /\ \A other \in ChunkIds \ {id} : next.chunks[other] = s.chunks[other]
    BY NoChunkAssumption DEF Store
  <1>2. Stored(next) = Stored(s) \cup {id}
    BY <1>1 DEF Stored
  <1>3. next.embeddings \cup next.terms \subseteq Stored(next) \ Wordless
    BY <1>2 DEF Indexed
  <1>4. ASSUME NEW other \in Stored(next), other # id
        PROVE  /\ FlagsIndexed(next.chunks[other], other, next, l)
               /\ Resolves(next.chunks[other], other, next, l)
    <2>1. other \in Stored(s) /\ other \in ChunkIds /\ next.chunks[other] = s.chunks[other]
      BY <1>1, <1>2, <1>4 DEF Stored
    <2>2. /\ FlagsIndexed(s.chunks[other], other, s, l)
          /\ Resolves(s.chunks[other], other, s, l)
      BY <2>1 DEF Indexed
    <2> QED
      BY <2>1, <2>2, GrownFacts
  <1> QED
    BY <1>1, <1>3, <1>4 DEF Indexed

\* A save of an entity or a relation takes nothing away either.
LEMMA RecordSaveIndexed ==
    ASSUME NEW s, NEW next, NEW l, Indexed(s, l), Grown(s, next),
           next.chunks = s.chunks, next.entitiesAt = s.entitiesAt, next.chunksOf = s.chunksOf,
           next.embeddings = s.embeddings, next.terms = s.terms
    PROVE  Indexed(next, l)
  <1>1. Stored(next) = Stored(s) /\ \A id \in Stored(s) : id \in ChunkIds
    BY DEF Stored
  <1>2. \A id \in Stored(s) : FlagsIndexed(s.chunks[id], id, next, l) /\ Resolves(s.chunks[id], id, next, l)
    BY <1>1, GrownFacts DEF Indexed
  <1> QED
    BY <1>1, <1>2 DEF Indexed

\* A failure keeps the invariant: what a bundle goes back to had it.
LEMMA FailLinks ==
    ASSUME IInv, LinkInv, Running, NEW next, Fail(next), Indexed(next, loaded),
           runtime' \subseteq next.embeddings, call.kind = "recovery" => runtime' = runtime,
           loaded' = loaded
    PROVE  LinkInv'
  <1>1. CASE call.kind = "recovery"
    <2>1. /\ store' = call.before.store /\ call' = call /\ ~ Running' /\ runtime' = runtime
      BY <1>1 DEF Fail, Running, RollingBack, Tables
    <2> QED
      BY <1>1, <2>1 DEF LinkInv
  <1>2. CASE call.kind # "recovery"
    <2>1. store' = next /\ call' = NoCall /\ ~ Running' /\ call'.kind # "recovery"
      BY <1>2 DEF Fail, Running, NoCall
    <2> QED
      BY <2>1 DEF LinkInv
  <1> QED
    BY <1>1, <1>2

\* A save keeps the invariant if what it makes of memory does.
LEMMA SaveLinks ==
    ASSUME IInv, LinkInv, Running, NEW next \in Store, NEW table, NEW file, NEW todo \in Work,
           Save(next, table, file, todo), Indexed(next, loaded), Grown(store, next),
           todo.pointers \subseteq call.todo.pointers,
           runtime' \subseteq next.embeddings, call.kind = "recovery" => runtime' = runtime
    PROVE  LinkInv'
  <1>1. TypeOK /\ call.kind # "none" /\ loaded' = loaded
    BY DEF IInv, Save, Running
  <1>2. CASE store' = next /\ call' = [call EXCEPT !.todo = todo]
    <2> DEFINE after == [call EXCEPT !.todo = todo]
    <2>1. /\ after.todo = todo /\ after.kind = call.kind /\ after.copies = call.copies
          /\ after.before = call.before /\ Batch(after) = Batch(call)
          /\ Batch(call) \in SUBSET ChunkIds
      BY <1>1, TodoFacts, ActiveType
    <2>2. call' = after
      BY <1>2
    <2> HIDE DEF after
    <2>3. Vouched(after, next, loaded)
      <3>1. Vouched(call, store, loaded)
        BY DEF LinkInv
      <3> QED
        BY <2>1, <3>1, GrownFacts DEF Vouched
    <2>4. todo.pointers \cap Wordless = {}
      BY DEF LinkInv
    <2>5. after.kind = "recovery" =>
            /\ Indexed(after.before.store, loaded) /\ Vouched(after, after.before.store, loaded)
            /\ runtime' \subseteq after.before.store.embeddings
            /\ after.before.todo.pointers = {}
      BY <2>1 DEF LinkInv, Vouched
    <2> QED
      BY <1>1, <1>2, <2>1, <2>2, <2>3, <2>4, <2>5 DEF LinkInv
  <1>3. CASE Fail(next)
    BY <1>1, <1>3, FailLinks
  <1> QED
    BY <1>2, <1>3 DEF Save

\* A bundle's chunk is saved as it was handed in.
LEMMA SaveOneChunkLinks ==
    ASSUME IInv, LinkInv, NEW id \in ChunkIds, SaveOneChunk(id)
    PROVE  LinkInv'
  <1> DEFINE next == SaveChunk(store, id, call.copies[id])
             todo == [call.todo EXCEPT !.plain = @ \ {id}]
  <1>1. /\ TypeOK /\ Running /\ call.kind # "none" /\ store \in Store
        /\ Due(call, Mended(files, unsettled, store), Gaps)
    BY DEF SaveOneChunk, IInv, TypeOK, Running
  <1>2. id \in Batch(call)
    BY <1>1 DEF SaveOneChunk, Due
  <1>3. /\ call.copies[id] \in Chunk
        /\ FlagsIndexed(call.copies[id], id, store, loaded) /\ Resolves(call.copies[id], id, store, loaded)
    BY <1>1, <1>2, ActiveType DEF LinkInv, Vouched
  <1>4. /\ next \in Store /\ next.chunks = [store.chunks EXCEPT ![id] = call.copies[id]]
        /\ next.entitiesAt = store.entitiesAt /\ next.chunksOf = store.chunksOf
        /\ next.relationsAt = store.relationsAt
        /\ next.embeddings = store.embeddings /\ next.terms = store.terms
    BY <1>1, <1>3, SaveChunkFacts
  <1>5. todo \in Work /\ todo.pointers = call.todo.pointers
    BY <1>1, ActiveType DEF Work
  <1>6. Save(next, "chunks", ChunkFile(next), todo) /\ runtime' = runtime
    BY DEF SaveOneChunk
  <1> HIDE DEF next, todo
  <1>7. Indexed(store, loaded) /\ runtime \subseteq store.embeddings /\ Grown(store, next)
    BY <1>4 DEF LinkInv, Grown
  <1>8. FlagsIndexed(call.copies[id], id, next, loaded) /\ Resolves(call.copies[id], id, next, loaded)
    BY <1>3, <1>7, GrownFacts
  <1>9. \A c \in ChunkIds, k \in Keys : k \in next.entitiesAt[c] <=> c \in next.chunksOf[k]
    BY <1>4, <1>7 DEF Indexed
  <1>10. Indexed(next, loaded)
    BY <1>1, <1>3, <1>4, <1>7, <1>8, <1>9, ChunkSaveIndexed
  <1> QED
    BY <1>1, <1>4, <1>5, <1>6, <1>7, <1>10, SaveLinks

\* The saves of entities and relations.
LEMMA RecordLinks ==
    ASSUME IInv, LinkInv,
           \/ \E k \in Keys : SaveOneEntity(k)
           \/ \E r \in Relation : SaveOneRelation(r)
    PROVE  LinkInv'
  <1>1. /\ TypeOK /\ Running /\ call.kind # "none" /\ store \in Store
        /\ Indexed(store, loaded) /\ runtime \subseteq store.embeddings
    BY DEF SaveOneEntity, SaveOneRelation, IInv, TypeOK, LinkInv, Running
  <1>2. ASSUME NEW k \in Keys, SaveOneEntity(k) PROVE LinkInv'
    <2> DEFINE next == SaveEntity(store, k)
               todo == [call.todo EXCEPT !.entities = @ \ {k}]
    <2>1. /\ next \in Store /\ next.chunks = store.chunks
          /\ next.entitiesAt = store.entitiesAt /\ next.chunksOf = store.chunksOf
          /\ next.relationsAt = store.relationsAt
          /\ next.embeddings = store.embeddings /\ next.terms = store.terms
      BY <1>1 DEF SaveEntity, Store
    <2>2. todo \in Work /\ todo.pointers = call.todo.pointers
      BY <1>1, ActiveType DEF Work
    <2>3. Save(next, "entities", EntityFile(next), todo) /\ runtime' = runtime
      BY <1>2 DEF SaveOneEntity
    <2> HIDE DEF next, todo
    <2>4. Grown(store, next)
      BY <2>1 DEF Grown
    <2>5. Indexed(next, loaded)
      BY <1>1, <2>1, <2>4, RecordSaveIndexed
    <2> QED
      BY <1>1, <2>1, <2>2, <2>3, <2>4, <2>5, SaveLinks
  <1>3. ASSUME NEW r \in Relation, SaveOneRelation(r) PROVE LinkInv'
    <2> DEFINE next == SaveRelation(store, r)
               todo == [call.todo EXCEPT !.relations = @ \ {r}]
    <2>1. /\ next \in Store
          /\ \A c \in ChunkIds : store.relationsAt[c] \subseteq next.relationsAt[c]
      <3> HIDE DEF next
      <3>1. next = SaveRelation(store, r)
        BY DEF next
      <3>2. /\ next \in Store
            /\ \A c \in ChunkIds : next.relationsAt[c] =
                  IF c \in r.evidence THEN store.relationsAt[c] \cup {r} ELSE store.relationsAt[c]
        BY <1>1, <3>1, SaveRelationFacts
      <3> QED
        BY <3>2
    <2>2. /\ next.chunks = store.chunks
          /\ next.entitiesAt = store.entitiesAt /\ next.chunksOf = store.chunksOf
          /\ next.embeddings = store.embeddings /\ next.terms = store.terms
      BY <1>1 DEF SaveRelation, Store
    <2>3. todo \in Work /\ todo.pointers = call.todo.pointers
      BY <1>1, ActiveType DEF Work
    <2>4. Save(next, "relations", RelationFile(next), todo) /\ runtime' = runtime
      BY <1>3 DEF SaveOneRelation
    <2> HIDE DEF next, todo
    <2>5. Grown(store, next)
      BY <2>1, <2>2 DEF Grown
    <2>6. Indexed(next, loaded)
      BY <1>1, <2>2, <2>5, RecordSaveIndexed
    <2> QED
      BY <1>1, <2>1, <2>2, <2>3, <2>4, <2>5, <2>6, SaveLinks
  <1> QED
    BY <1>2, <1>3

\* A linked chunk has its flags indexed by the same save; its pointers are those
\* of the copy that was handed in.
LEMMA LinkOneChunkLinks ==
    ASSUME IInv, LinkInv, NEW id \in ChunkIds, LinkOneChunk(id)
    PROVE  LinkInv'
  <1> DEFINE flagged == WithGraphFlags(id, call.copies[id], Batch(call))
             next == LinkChunk(store, id, flagged)
             todo == [call.todo EXCEPT !.links = @ \ {id}]
             linked == LinkedEntities(store, flagged)
             saved == Linked(store, flagged)
  <1>1. /\ TypeOK /\ Running /\ call.kind # "none" /\ store \in Store
        /\ Due(call, Mended(files, unsettled, store), Gaps)
    BY DEF LinkOneChunk, IInv, TypeOK, Running
  <1>2. id \in Batch(call) /\ Batch(call) \in SUBSET ChunkIds /\ call.copies[id] \in Chunk
    BY <1>1, ActiveType DEF LinkOneChunk, Due
  <1>3. /\ flagged \in Chunk
        /\ flagged.embedding = call.copies[id].embedding /\ flagged.terms = call.copies[id].terms
    <2> DEFINE batch == Batch(call)
               chunk == call.copies[id]
    <2>1. batch \in SUBSET ChunkIds /\ id \in batch /\ chunk \in Chunk
      BY <1>2
    <2>2. flagged = WithGraphFlags(id, chunk, batch)
      OBVIOUS
    <2> HIDE DEF batch, chunk, flagged
    <2>3. /\ flagged \in Chunk
          /\ flagged.embedding = chunk.embedding /\ flagged.terms = chunk.terms
      BY <2>1, <2>2, FlagFacts
    <2> QED
      BY <2>3 DEF chunk
  <1>4. todo \in Work /\ todo.pointers = call.todo.pointers
    BY <1>1, ActiveType DEF Work
  <1>5. Save(next, "chunks", ChunkFile(next), todo) /\ runtime' = runtime
    BY DEF LinkOneChunk
  <1> HIDE DEF flagged, todo
  <1>6. /\ linked \in SUBSET Keys /\ saved \in Chunk /\ saved.entities = linked
        /\ saved.relations = flagged.relations
        /\ saved.embedding = flagged.embedding /\ saved.terms = flagged.terms
    BY <1>1, <1>3, LinkedFacts
  <1>7. /\ next \in Store /\ next.chunks = [store.chunks EXCEPT ![id] = saved]
        /\ LinkedBeside(next, store, id, flagged)
    <2>1. store \in Store /\ flagged \in Chunk /\ next = LinkChunk(store, id, flagged)
      BY <1>1, <1>3
    <2> HIDE DEF next
    <2> QED
      BY <2>1, LinkChunkFacts
  <1> HIDE DEF next, saved
  <1>8. /\ \A c \in ChunkIds : next.entitiesAt[c] =
              IF c = id THEN store.entitiesAt[c] \cup linked ELSE store.entitiesAt[c]
        /\ \A c \in ChunkIds : next.relationsAt[c] =
              IF c = id THEN store.relationsAt[c] \cup flagged.relations ELSE store.relationsAt[c]
        /\ \A k \in Keys : next.chunksOf[k] =
              IF k \in linked THEN store.chunksOf[k] \cup {id} ELSE store.chunksOf[k]
        /\ next.embeddings = store.embeddings /\ next.terms = store.terms
    BY <1>7 DEF LinkedBeside
  <1> HIDE DEF linked
  <1>9. /\ Indexed(store, loaded) /\ runtime \subseteq store.embeddings
        /\ Resolves(call.copies[id], id, store, loaded)
    BY <1>1, <1>2 DEF LinkInv, Vouched
  <1>10. Resolves(saved, id, next, loaded)
    BY <1>3, <1>6, <1>8, <1>9 DEF Resolves
  <1>11. FlagsIndexed(saved, id, next, loaded)
    BY <1>6, <1>8 DEF FlagsIndexed
  <1>12. \A c \in ChunkIds, k \in Keys : k \in next.entitiesAt[c] <=> c \in next.chunksOf[k]
    <2> SUFFICES ASSUME NEW c \in ChunkIds, NEW k \in Keys
                 PROVE  k \in next.entitiesAt[c] <=> c \in next.chunksOf[k]
      OBVIOUS
    <2>1. k \in store.entitiesAt[c] <=> c \in store.chunksOf[k]
      BY <1>9 DEF Indexed
    <2>2. k \in next.entitiesAt[c] <=> k \in store.entitiesAt[c] \/ (c = id /\ k \in linked)
      BY <1>8
    <2>3. c \in next.chunksOf[k] <=> c \in store.chunksOf[k] \/ (c = id /\ k \in linked)
      BY <1>8
    <2> QED
      BY <2>1, <2>2, <2>3
  <1>13. Grown(store, next)
    BY <1>8 DEF Grown
  <1>14. next.embeddings \cup next.terms \subseteq store.embeddings \cup store.terms \cup ({id} \ Wordless)
    BY <1>8
  <1>15. Indexed(next, loaded)
    BY <1>1, <1>6, <1>7, <1>9, <1>10, <1>11, <1>12, <1>13, <1>14, ChunkSaveIndexed
  <1> QED
    BY <1>1, <1>4, <1>5, <1>7, <1>8, <1>9, <1>13, <1>15, SaveLinks

\* An index commit saves the record before the pointer to it, of a chunk that
\* has words; what it points from is stored, or may be.
LEMMA IndexOneChunkLinks ==
    ASSUME IInv, LinkInv, NEW id \in ChunkIds, IndexOneChunk(id)
    PROVE  LinkInv'
  <1> DEFINE base == BaseChunk(store, id, call.copies[id])
             e == CommitEmbedding(store, id, call.copies[id])
             t == CommitTerms(store, id, call.copies[id])
             next == IF call.kind = "terms" THEN t ELSE e
             todo == [call.todo EXCEPT !.pointers = @ \ {id}]
             ce == [base EXCEPT !.embedding = TRUE]
             ct == [base EXCEPT !.terms = TRUE]
  <1>1. /\ TypeOK /\ Running /\ call.kind # "none" /\ store \in Store
        /\ Due(call, Mended(files, unsettled, store), Gaps) /\ id \in call.todo.pointers
    BY DEF IndexOneChunk, IInv, TypeOK, Running
  <1>2. call.kind # "recovery" /\ id \notin Wordless
    BY <1>1 DEF Due, LinkInv
  <1>3. /\ base \in Chunk
        /\ FlagsIndexed(base, id, store, loaded) /\ Resolves(base, id, store, loaded)
    <2>1. base \in Chunk /\ id \in Batch(call)
      BY <1>1, IndexedBase
    <2>2. CASE id \in Stored(store)
      <3>1. base = store.chunks[id]
        BY <1>1, <2>2, IndexedBase
      <3> QED
        BY <2>1, <2>2, <3>1 DEF LinkInv, Indexed
    <2>3. CASE id \notin Stored(store)
      <3>1. base = call.copies[id]
        BY <1>1, <2>3, IndexedBase
      <3> QED
        BY <1>1, <2>1, <3>1 DEF LinkInv, Vouched
    <2> QED
      BY <2>2, <2>3, <2>1
  <1>4. /\ Save(next, "chunks", ChunkFile(next), todo)
        /\ runtime' = IF call.kind = "runtime" THEN runtime \cup {id} ELSE runtime
    BY DEF IndexOneChunk
  <1>5. todo \in Work /\ todo.pointers \subseteq call.todo.pointers
    BY <1>1, ActiveType DEF Work
  <1>6. /\ ce \in Chunk /\ ce.entities = base.entities /\ ce.relations = base.relations /\ ce.terms = base.terms
        /\ ct \in Chunk /\ ct.entities = base.entities /\ ct.relations = base.relations
        /\ ct.embedding = base.embedding
    BY <1>3 DEF Chunk
  <1>7. /\ e \in Store /\ e.chunks = [store.chunks EXCEPT ![id] = ce]
        /\ e.embeddings = store.embeddings \cup {id} /\ e.terms = store.terms
        /\ e.entitiesAt = store.entitiesAt /\ e.chunksOf = store.chunksOf /\ e.relationsAt = store.relationsAt
    BY <1>1, <1>3, EmbeddingFacts
  <1>8. /\ t \in Store /\ t.chunks = [store.chunks EXCEPT ![id] = ct]
        /\ t.embeddings = store.embeddings /\ t.terms = store.terms \cup {id}
        /\ t.entitiesAt = store.entitiesAt /\ t.chunksOf = store.chunksOf /\ t.relationsAt = store.relationsAt
    BY <1>1, <1>3, TermsFacts
  <1>9. Indexed(store, loaded) /\ runtime \subseteq store.embeddings
    BY DEF LinkInv
  <1> HIDE DEF base, e, t, ce, ct, todo
  <1>10. Indexed(e, loaded) /\ Grown(store, e)
    <2>1. \A c \in ChunkIds, k \in Keys : k \in e.entitiesAt[c] <=> c \in e.chunksOf[k]
      BY <1>7, <1>9 DEF Indexed
    <2>2. FlagsIndexed(ce, id, e, loaded) /\ Resolves(ce, id, e, loaded)
      BY <1>3, <1>6, <1>7 DEF FlagsIndexed, Resolves
    <2>3. /\ Grown(store, e)
          /\ e.embeddings \cup e.terms \subseteq store.embeddings \cup store.terms \cup ({id} \ Wordless)
      BY <1>2, <1>7 DEF Grown
    <2> QED
      BY <1>1, <1>6, <1>7, <1>9, <2>1, <2>2, <2>3, ChunkSaveIndexed
  <1>11. Indexed(t, loaded) /\ Grown(store, t)
    <2>1. \A c \in ChunkIds, k \in Keys : k \in t.entitiesAt[c] <=> c \in t.chunksOf[k]
      BY <1>8, <1>9 DEF Indexed
    <2>2. FlagsIndexed(ct, id, t, loaded) /\ Resolves(ct, id, t, loaded)
      BY <1>3, <1>6, <1>8 DEF FlagsIndexed, Resolves
    <2>3. /\ Grown(store, t)
          /\ t.embeddings \cup t.terms \subseteq store.embeddings \cup store.terms \cup ({id} \ Wordless)
      BY <1>2, <1>8 DEF Grown
    <2> QED
      BY <1>1, <1>6, <1>8, <1>9, <2>1, <2>2, <2>3, ChunkSaveIndexed
  <1>12. next \in Store /\ Indexed(next, loaded) /\ Grown(store, next) /\ runtime' \subseteq next.embeddings
    <2>1. CASE call.kind = "terms"
      <3>1. next = t /\ runtime' = runtime
        BY <1>4, <2>1
      <3> QED
        BY <1>8, <1>9, <1>11, <3>1
    <2>2. CASE call.kind # "terms"
      <3>1. next = e /\ runtime' \subseteq runtime \cup {id}
        BY <1>4, <2>2
      <3> QED
        BY <1>7, <1>9, <1>10, <3>1
    <2> QED
      BY <2>1, <2>2
  <1> HIDE DEF next
  <1> QED
    BY <1>1, <1>2, <1>4, <1>5, <1>12, SaveLinks

\* The last write of a call.
LEMMA ReturnLinks ==
    ASSUME IInv, LinkInv, Return
    PROVE  LinkInv'
  <1>1. /\ Running /\ loaded' = loaded /\ runtime' = runtime
        /\ Indexed(store, loaded) /\ runtime \subseteq store.embeddings
    BY DEF Return, LinkInv
  <1>2. CASE Fail(store)
    BY <1>1, <1>2, FailLinks
  <1>3. CASE call' = NoCall /\ UNCHANGED <<store, files, restoring, unsettled>>
    <2>1. ~ Running' /\ call'.kind # "recovery"
      BY <1>3 DEF Running, NoCall
    <2> QED
      BY <1>1, <1>3, <2>1 DEF LinkInv
  <1> QED
    BY <1>2, <1>3 DEF Return

\* A rollback has memory as it was; the bundle may begin again from there.
LEMMA RollbackLinks ==
    ASSUME IInv, LinkInv, RestoreFile \/ RestoreFails
    PROVE  LinkInv'
  <1>1. /\ TypeOK /\ RollingBack /\ call.kind = "recovery" /\ call.kind # "none"
        /\ store = call.before.store
        /\ store' = store /\ runtime' = runtime /\ loaded' = loaded
        /\ (call' = call /\ restoring' # {}) \/ call' \in {NoCall, Again(call)}
    <2>1. CASE RestoreFile
      BY <2>1 DEF RestoreFile, IInv, TypeOK, Restored, Again
    <2>2. CASE RestoreFails
      BY <2>2 DEF RestoreFails, IInv, TypeOK, Restored, NoCall
    <2> QED
      BY <2>1, <2>2
  <1>2. /\ Indexed(store', loaded') /\ runtime' \subseteq store'.embeddings
        /\ Vouched(call, store', loaded')
        /\ call.before.todo.pointers = {}
    BY <1>1 DEF LinkInv
  <1>3. CASE call' = NoCall
    BY <1>2, <1>3 DEF LinkInv, Running, NoCall
  <1>4. CASE call' = call /\ restoring' # {}
    <2>1. ~ Running'
      BY <1>1, <1>4 DEF Running, RollingBack
    <2> QED
      BY <1>1, <1>2, <1>4, <2>1 DEF LinkInv
  <1>5. CASE call' = Again(call)
    <2>1. /\ call'.kind = call.kind /\ call'.copies = call.copies /\ call'.before = call.before
          /\ call'.todo = call.before.todo
      BY <1>1, <1>5, ActiveType DEF Again, ActiveCall
    <2>2. Vouched(call', store', loaded')
      BY <1>2, <2>1 DEF Vouched, Batch
    <2> QED
      BY <1>1, <1>2, <2>1, <2>2 DEF LinkInv
  <1> QED
    BY <1>1, <1>3, <1>4, <1>5

\* What is loaded was loaded with what is missing from the indexes.
LEMMA LoadedIndexed ==
    ASSUME NEW f \in Files, Evidenced(f)
    PROVE  Indexed(LoadedStore(f), f)
  <1> DEFINE s == LoadedStore(f)
  <1>1. /\ s.chunks = f.chunks /\ s.embeddings = {} /\ s.terms = {}
        /\ \A c \in ChunkIds : s.entitiesAt[c] = {}
        /\ \A c \in ChunkIds : s.relationsAt[c] = {r \in f.relations : c \in r.evidence}
        /\ \A k \in Keys : s.chunksOf[k] = {}
    BY DEF LoadedStore
  <1> HIDE DEF s
  <1>2. Stored(s) = Stored(f) /\ \A id \in Stored(s) : id \in ChunkIds /\ f.chunks[id] # NoChunk
    BY <1>1 DEF Stored
  <1>3. \A id \in Stored(s) : FlagsIndexed(s.chunks[id], id, s, f) /\ Resolves(s.chunks[id], id, s, f)
    BY <1>1, <1>2 DEF FlagsIndexed, Resolves, Evidenced
  <1>4. Indexed(s, f)
    BY <1>1, <1>3 DEF Indexed
  <1> QED
    BY <1>4 DEF s

\* A restart.
LEMMA RestartLinks ==
    ASSUME IInv, Restart
    PROVE  LinkInv'
  <1>1. files \in Files /\ Evidenced(files)
    BY DEF IInv, TypeOK
  <1>2. ~ Running' /\ call'.kind # "recovery"
    BY DEF Restart, Running, NoCall
  <1>3. Indexed(store', loaded') /\ runtime' = {}
    BY <1>1, LoadedIndexed DEF Restart
  <1> QED
    BY <1>2, <1>3 DEF LinkInv

\* A call may begin with copies that may be stored, to index chunks with words; a
\* bundle indexes nothing.
LEMMA BeginLinks ==
    ASSUME IInv, LinkInv, NEW kind, NEW copies, NEW todo, Begin(kind, copies, todo),
           \A id \in ChunkIds : copies[id] # NoChunk =>
              FlagsIndexed(copies[id], id, store, loaded) /\ Resolves(copies[id], id, store, loaded),
           todo.pointers \cap Wordless = {},
           kind = "recovery" => todo.pointers = {}
    PROVE  LinkInv'
  <1>1. /\ call'.kind = kind /\ call'.copies = copies /\ call'.todo = todo
        /\ call'.before.store = store /\ call'.before.todo = todo
        /\ store' = store /\ runtime' = runtime /\ loaded' = loaded
    BY DEF Begin
  <1>2. Vouched(call', store, loaded)
    BY <1>1 DEF Vouched, Batch
  <1>3. Indexed(store, loaded) /\ runtime \subseteq store.embeddings
    BY DEF LinkInv
  <1> QED
    BY <1>1, <1>2, <1>3 DEF LinkInv

\* The calls that begin.
LEMMA BeginSomeLinks ==
    ASSUME IInv, LinkInv, BeginSome
    PROVE  LinkInv'
  <1>1. ASSUME NEW document \in Documents, NEW id \in ChunkIds
        PROVE  /\ FlagsIndexed(Fresh(document), id, store, loaded)
               /\ Resolves(Fresh(document), id, store, loaded)
    BY DEF Fresh, FlagsIndexed, Resolves
  <1>2. ASSUME NEW kind \in {"bundle", "recovery"}, NEW batch \in SUBSET ChunkIds,
               NEW document \in Documents, NEW enrich \in BOOLEAN,
               BeginBundle(kind, batch, document, enrich)
        PROVE  LinkInv'
    <2> DEFINE copies == [id \in ChunkIds |-> IF id \in batch THEN Fresh(document) ELSE NoChunk]
               todo == BundleWork(batch, enrich)
    <2>1. Begin(kind, copies, todo)
      BY <1>2 DEF BeginBundle, BundleWork
    <2>2. todo.pointers = {}
      BY BundleWorkFacts
    <2>3. \A id \in ChunkIds : copies[id] # NoChunk => copies[id] = Fresh(document)
      OBVIOUS
    <2> HIDE DEF copies, todo
    <2>4. \A id \in ChunkIds : copies[id] # NoChunk =>
             FlagsIndexed(copies[id], id, store, loaded) /\ Resolves(copies[id], id, store, loaded)
      BY <1>1, <2>3
    <2> QED
      BY <2>1, <2>2, <2>4, BeginLinks
  <1>3. ASSUME NEW batch \in SUBSET ChunkIds, NEW copies \in HeldCopies(batch), NEW id \in ChunkIds,
               copies[id] # NoChunk
        PROVE  FlagsIndexed(copies[id], id, store, loaded) /\ Resolves(copies[id], id, store, loaded)
    <2>1. id \in batch /\ copies[id] \in Held(id)
      BY <1>3, HeldCopiesFacts
    <2>2. CASE copies[id] = store.chunks[id] /\ store.chunks[id] # NoChunk
      <3>1. id \in Stored(store)
        BY <2>2 DEF Stored
      <3> QED
        BY <2>2, <3>1 DEF LinkInv, Indexed
    <2>3. CASE \E document \in Documents : copies[id] = Fresh(document)
      BY <1>1, <2>3
    <2> QED
      BY <2>1, <2>2, <2>3 DEF Held
  <1>4. ASSUME NEW batch \in SUBSET ChunkIds, NEW copies \in HeldCopies(batch), BeginGraph(batch, copies)
        PROVE  LinkInv'
    <2> DEFINE todo == GraphWork(batch)
    <2>1. todo.pointers = {}
      BY GraphWorkFacts
    <2>2. Begin("graph", copies, todo)
      BY <1>4 DEF BeginGraph
    <2> HIDE DEF todo
    <2> QED
      BY <1>3, <2>1, <2>2, BeginLinks
  <1>5. ASSUME NEW batch \in SUBSET ChunkIds, NEW copies \in HeldCopies(batch),
               NEW kind \in {"vectors", "terms", "runtime"}, BeginIndexing(kind, batch, copies)
        PROVE  LinkInv'
    <2> DEFINE todo == [NoWork EXCEPT !.pointers = batch \ Wordless]
    <2>1. todo.pointers \cap Wordless = {} /\ kind # "recovery"
      BY DEF NoWork
    <2>2. Begin(kind, copies, todo)
      BY <1>5 DEF BeginIndexing
    <2> HIDE DEF todo
    <2> QED
      BY <1>3, <2>1, <2>2, BeginLinks
  <1> QED
    BY <1>2, <1>4, <1>5 DEF BeginSome

\* Before any call what is stored was loaded.
LEMMA InitLinks == Init => LinkInv
  <1> SUFFICES ASSUME Init PROVE LinkInv
    OBVIOUS
  <1>1. files \in Files
    BY CommittedFacts DEF Init
  <1>2. Evidenced(files)
    BY CommittedFacts DEF Init
  <1>3. ~ Running /\ call.kind # "recovery"
    BY DEF Init, Running, NoCall
  <1> QED
    BY <1>1, <1>2, <1>3, LoadedIndexed DEF Init, LinkInv

\* Every step keeps the links and the pointers.
LEMMA StepLinks == IInv /\ LinkInv /\ [Next]_vars => LinkInv'
  <1> SUFFICES ASSUME IInv, LinkInv, [Next]_vars PROVE LinkInv'
    OBVIOUS
  <1>1. CASE BeginSome
    BY <1>1, BeginSomeLinks
  <1>2. CASE \E id \in ChunkIds : SaveOneChunk(id) \/ LinkOneChunk(id) \/ IndexOneChunk(id)
    BY <1>2, SaveOneChunkLinks, LinkOneChunkLinks, IndexOneChunkLinks
  <1>3. CASE (\E k \in Keys : SaveOneEntity(k)) \/ (\E r \in Relation : SaveOneRelation(r))
    BY <1>3, RecordLinks
  <1>4. CASE Return
    BY <1>4, ReturnLinks
  <1>5. CASE RestoreFile \/ RestoreFails
    BY <1>5, RollbackLinks
  <1>6. CASE Restart
    BY <1>6, RestartLinks
  <1>7. CASE Done \/ UNCHANGED vars
    BY <1>7 DEF Done, vars, LinkInv, Running, RollingBack, Vouched, Batch
  <1> QED
    BY <1>1, <1>2, <1>3, <1>4, <1>5, <1>6, <1>7 DEF Next

\* The two hold of every reachable state.
LEMMA LinksAndPointers == Spec => [](LinksVerify /\ PointersResolve)
  <1>1. Init => IInv /\ LinkInv
    BY InitKeeps, InitLinks
  <1>2. IInv /\ LinkInv /\ [Next]_vars => (IInv /\ LinkInv)'
    BY StepKeeps, StepLinks
  <1>3. IInv /\ LinkInv => LinksVerify /\ PointersResolve
    BY LinkInvGives DEF IInv
  <1> QED
    BY <1>1, <1>2, <1>3, PTL DEF Spec

\* The links from chunks to entities are found in both directions, and a chunk
\* lacks only links it was loaded with, whatever failed or was rolled back, wholly
\* or in part (verify_graph_storage).
THEOREM LinksComplete == Spec => []LinksVerify
  BY LinksAndPointers, PTL

\* A chunk never points to an embedding or to terms that are not there, unless
\* it was loaded with the pointer, and nothing else is indexed.
THEOREM PointersSound == Spec => []PointersResolve
  BY LinksAndPointers, PTL
=============================================================================

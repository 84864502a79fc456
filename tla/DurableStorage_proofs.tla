------------------------ MODULE DurableStorage_proofs ------------------------
(***************************************************************************)
(* Proofs about DurableStorage, for every set of bundles, ids, limits and  *)
(* faults.                                                                 *)
(***************************************************************************)
EXTENDS DurableStorage, FiniteSetTheorems, WellFoundedInduction, TLAPS

\* The parts of a bundle's program are sequences of what they are made of.
LEMMA PartsIn ==
    ASSUME NEW b \in Bundles, NEW S, Log \in S,
           \A f \in RecordFiles, item \in Items : Save(f, item) \in S,
           AddAll("logs", b.logs) \in Seq(S), AddAll("errors", b.errors) \in Seq(S)
    PROVE  /\ RawWrites(b) \in Seq(S) /\ DocumentWrites(b) \in Seq(S)
           /\ ChunkWrites(b) \in Seq(S) /\ GraphWrites(b) \in Seq(S)
           /\ IngestionWrites(b) \in Seq(S)
<1>1. b \in BundleType
  BY BundlesAssumption
<1>2. \A f \in RecordFiles, items \in Seq(Items) : SaveAll(f, items) \in Seq(S)
  BY DEF SaveAll
<1>3. \A f \in RecordFiles, item \in Items \cup {NoRecord} : Optional(f, item) \in Seq(S)
  BY DEF Optional
<1>4. RawWrites(b) \in Seq(S)
  BY <1>1 DEF RawWrites, BundleType, RecordFiles
<1>5. DocumentWrites(b) \in Seq(S)
  <2>1. b.source \in Items \cup {NoRecord} /\ b.document \in Items \cup {NoRecord}
    BY <1>1 DEF BundleType
  <2>2. Optional("sources", b.source) \in Seq(S)
    BY <2>1, <1>3 DEF RecordFiles
  <2>3. b.document # NoRecord => <<Save("documents", b.document), Log>> \in Seq(S)
    BY <2>1 DEF RecordFiles
  <2> QED BY <2>2, <2>3 DEF DocumentWrites
<1>6. ChunkWrites(b) \in Seq(S)
  <2>1. SaveAll("chunks", b.chunks) \in Seq(S)
    BY <1>1, <1>2 DEF BundleType, RecordFiles
  <2> QED BY <2>1 DEF ChunkWrites
<1>7. GraphWrites(b) \in Seq(S)
  <2>1. SaveAll("entities", b.entities) \in Seq(S)
    BY <1>1, <1>2 DEF BundleType, RecordFiles
  <2>2. SaveAll("relations", b.relations) \in Seq(S)
    BY <1>1, <1>2 DEF BundleType, RecordFiles
  <2>3. \A item \in Items : Linked(item) \in Items
    BY DEF Linked, Items, Contents
  <2>4. [k \in 1..Len(b.chunks) |-> Save("chunks", Linked(b.chunks[k]))] \in Seq(S)
    BY <1>1, <2>3 DEF BundleType, RecordFiles
  <2>5. <<Log>> \in Seq(S)
    OBVIOUS
  <2> QED BY <2>1, <2>2, <2>4, <2>5 DEF GraphWrites
<1>8. IngestionWrites(b) \in Seq(S)
  <2>1. Optional("ingestion_jobs", b.job) \in Seq(S)
    BY <1>1, <1>3 DEF BundleType, RecordFiles
  <2> QED BY <2>1 DEF IngestionWrites
<1> QED BY <1>4, <1>5, <1>6, <1>7, <1>8

\* The parts of a bundle's program are sequences of writes.
LEMMA PartTypes ==
    ASSUME NEW b \in Bundles
    PROVE  /\ b \in BundleType /\ Log \in Write
           /\ RawWrites(b) \in Seq(Write) /\ DocumentWrites(b) \in Seq(Write)
           /\ ChunkWrites(b) \in Seq(Write) /\ GraphWrites(b) \in Seq(Write)
           /\ IngestionWrites(b) \in Seq(Write)
<1>1. b \in BundleType
  BY BundlesAssumption
<1>2. Log \in Write
  BY DEF Log, Write, Streams
<1>3. \A f \in RecordFiles, item \in Items : Save(f, item) \in Write
  BY DEF Save, Write, Items
<1>4. AddAll("logs", b.logs) \in Seq(Write) /\ AddAll("errors", b.errors) \in Seq(Write)
  BY <1>1 DEF AddAll, Write, BundleType, Streams
<1> QED BY <1>1, <1>2, <1>3, <1>4, PartsIn

\* The program of a bundle is a sequence of writes that is never empty: it
\* ends with the log of the commit (commit_storage_bundle).
LEMMA ProgramType ==
    ASSUME NEW b \in Bundles
    PROVE  /\ Program(b) \in Seq(Write)
           /\ Len(Program(b)) >= 1
<1>1. /\ RawWrites(b) \o DocumentWrites(b) \o ChunkWrites(b) \o GraphWrites(b)
            \o IngestionWrites(b) \in Seq(Write)
      /\ <<Log>> \in Seq(Write) /\ Len(<<Log>>) = 1
  BY PartTypes
<1> QED BY <1>1 DEF Program

\* The part of the type invariant that is about the two copies.
StateTypeOK ==
    /\ memRec \in [RecordFiles -> Table]
    /\ memRow \in [Streams -> SUBSET Row]
    /\ diskRec \in [RecordFiles -> Table \cup {Torn}]
    /\ diskRow \in [Streams -> Stream]
    /\ stale \subseteq RecordFiles \cup Streams

\* A row that a write adds is a row, whether the write brings its id or not.
LEMMA RowOfType ==
    ASSUME TypeOK, NEW w \in Write, w.file \notin RecordFiles
    PROVE  w.file \in Streams /\ RowOf(w) \in Row
BY DEF TypeOK, Write, RowOf, FreshRow, Row, RecordFiles, Streams

\* Appending to a stream, completely or not, leaves a stream.
LEMMA AppendType ==
    ASSUME NEW d \in Stream, NEW r \in Row
    PROVE  /\ AppendRow(d, r) \in Stream
           /\ \A e \in PartialAppends(d, r) : e \in Stream
<1>1. AppendRow(d, r) \in Stream
  BY DEF AppendRow, Stream
<1>2. \A e \in PartialAppends(d, r) : e \in Stream
  BY DEF PartialAppends, Stream
<1> QED BY <1>1, <1>2

\* What an interrupted rewrite of a stream leaves is a stream.
LEMMA PartialStreamType ==
    ASSUME NEW d \in Stream
    PROVE  \A e \in PartialStreams(d) : e \in Stream
<1>1. \A k \in 0..Len(d.rows), t \in {NoTail, Cut} :
         [rows |-> SubSeq(d.rows, 1, k), tail |-> t] \in Stream
  BY DEF Stream
<1>2. \A k \in {j \in 1..Len(d.rows) : d.rows[j] # Garbled} :
         [rows |-> SubSeq(d.rows, 1, k - 1), tail |-> d.rows[k]] \in Stream
  <2>1. TAKE k \in {j \in 1..Len(d.rows) : d.rows[j] # Garbled}
  <2>2. d.rows \in Seq(Row \cup {Garbled}) /\ d.rows[k] \in Row
    BY DEF Stream
  <2>3. SubSeq(d.rows, 1, k - 1) \in Seq(Row \cup {Garbled})
    BY <2>2
  <2> QED BY <2>2, <2>3 DEF Stream
<1> QED BY <1>1, <1>2 DEF PartialStreams

\* A save keeps the types, whether its file write succeeds or fails.
LEMMA SaveType ==
    ASSUME TypeOK, NEW w \in Write, SaveOk(w) \/ SaveFails(w)
    PROVE  StateTypeOK' /\ nextRow' \in Row
<1>1. memRec' \in [RecordFiles -> Table] /\ memRow' \in [Streams -> SUBSET Row]
         /\ nextRow' \in Row
  <2>1. CASE w.file \in RecordFiles
    <3>1. w.id \in Ids /\ w.value \in Contents
      BY <2>1 DEF Write, RecordFiles, Streams
    <3>2. [memRec[w.file] EXCEPT ![w.id] = w.value] \in Table
      BY <2>1, <3>1 DEF TypeOK, Table
    <3> QED BY <2>1, <3>2 DEF TypeOK, SaveOk, SaveFails, SaveInMemory
  <2>2. CASE w.file \notin RecordFiles
    BY <2>2, RowOfType DEF TypeOK, SaveOk, SaveFails, SaveInMemory, Row
  <2> QED BY <2>1, <2>2
<1>2. CASE SaveOk(w)
  <2>1. diskRec' \in [RecordFiles -> Table \cup {Torn}]
    BY <1>1, <1>2 DEF TypeOK, SaveOk, SaveOnDisk
  <2>2. diskRow' \in [Streams -> Stream]
    <3>1. CASE w.file \in RecordFiles
      BY <1>2, <3>1 DEF TypeOK, SaveOk, SaveOnDisk
    <3>2. CASE w.file \notin RecordFiles
      <4>1. w.file \in Streams /\ RowOf(w) \in Row /\ diskRow[w.file] \in Stream
        BY <3>2, RowOfType DEF TypeOK
      <4>2. AppendRow(diskRow[w.file], RowOf(w)) \in Stream
        BY <4>1, AppendType
      <4> QED BY <1>2, <3>2, <4>1, <4>2 DEF TypeOK, SaveOk, SaveOnDisk
    <3> QED BY <3>1, <3>2
  <2>3. stale' \subseteq RecordFiles \cup Streams
    BY <1>2, RowOfType DEF TypeOK, SaveOk, SaveOnDisk
  <2> QED BY <1>1, <2>1, <2>2, <2>3 DEF StateTypeOK
<1>3. CASE SaveFails(w)
  <2>1. diskRow' \in [Streams -> Stream]
    <3>1. CASE w.file \in RecordFiles
      BY <1>3, <3>1 DEF TypeOK, SaveFails, SaveOnDiskFails
    <3>2. CASE w.file \notin RecordFiles
      <4>1. w.file \in Streams /\ RowOf(w) \in Row /\ diskRow[w.file] \in Stream
        BY <3>2, RowOfType DEF TypeOK
      <4>2. \A e \in PartialAppends(diskRow[w.file], RowOf(w)) : e \in Stream
        BY <4>1, AppendType
      <4> QED BY <1>3, <3>2, <4>1, <4>2 DEF TypeOK, SaveFails, SaveOnDiskFails
    <3> QED BY <3>1, <3>2
  <2>2. stale' \subseteq RecordFiles \cup Streams
    BY <1>3, RowOfType DEF TypeOK, SaveFails, SaveOnDiskFails
  <2>3. diskRec' \in [RecordFiles -> Table \cup {Torn}]
    BY <1>3 DEF TypeOK, SaveFails, SaveOnDiskFails
  <2> QED BY <1>1, <2>1, <2>2, <2>3 DEF StateTypeOK
<1> QED BY <1>2, <1>3

\* The write a commit is at is a write.
LEMMA ThisWriteType ==
    ASSUME TypeOK, phase = "commit"
    PROVE  /\ ThisWrite \in Write
           /\ call \in Calls /\ Len(Program(call.bundle)) \in Nat
<1>1. call \in Calls /\ call.bundle \in Bundles
  BY DEF TypeOK, Calls
<1>2. step \in 1..Len(Program(call.bundle))
  BY <1>1, ProgramType DEF TypeOK
<1> QED BY <1>1, <1>2, ProgramType DEF ThisWrite

LEMMA HandlerWriteType == HandlerWrite \in Write /\ ErrorRow \in Write /\ Log \in Write
BY DEF HandlerWrite, ErrorRow, Log, Write, Streams

\* A snapshot of typed state is typed.
LEMMA CurrentType == TypeOK => Current \in Snapshot
BY DEF TypeOK, Current, Snapshot

\* Restoring a file, wholly or in part, keeps the types of the files.
LEMMA RestoreType ==
    ASSUME TypeOK, phase = "restore",
           Restored(DurableFiles[step]) \/ PartlyRestored(DurableFiles[step])
    PROVE  /\ diskRec' \in [RecordFiles -> Table \cup {Torn}]
           /\ diskRow' \in [Streams -> Stream]
<1> DEFINE f == DurableFiles[step]
<1>1. f \in RecordFiles \cup Streams
  BY DEF TypeOK, DurableFiles, RecordFiles, Streams
<1>2. snap.diskRec \in [RecordFiles -> Table \cup {Torn}]
         /\ snap.diskRow \in [Streams -> Stream]
  BY DEF TypeOK, Snapshot
<1>3. CASE Restored(f)
  BY <1>1, <1>2, <1>3 DEF TypeOK, Restored
<1>4. CASE PartlyRestored(f)
  <2>1. CASE UNCHANGED <<diskRec, diskRow>>
    BY <2>1 DEF TypeOK
  <2>2. CASE f \in RecordFiles /\ diskRec' = [diskRec EXCEPT ![f] = Torn]
                /\ UNCHANGED diskRow
    BY <2>2 DEF TypeOK
  <2>3. ASSUME f \in Streams, UNCHANGED diskRec,
               NEW d \in PartialStreams(snap.diskRow[f]),
               diskRow' = [diskRow EXCEPT ![f] = d]
        PROVE  diskRow' \in [Streams -> Stream] /\ diskRec' \in [RecordFiles -> Table \cup {Torn}]
    <3>1. snap.diskRow[f] \in Stream
      BY <1>2, <2>3
    <3>2. d \in Stream
      BY <3>1, <2>3, PartialStreamType
    <3> QED BY <2>3, <3>2 DEF TypeOK
  <2> QED BY <1>4, <2>1, <2>2, <2>3 DEF PartlyRestored
<1> QED BY <1>3, <1>4

\* What a process that dies in an append leaves is typed.
LEMMA InterruptedType ==
    ASSUME TypeOK, NEW w \in Write, Interrupted(w)
    PROVE  /\ diskRec' \in [RecordFiles -> Table \cup {Torn}]
           /\ diskRow' \in [Streams -> Stream]
<1>1. w.file \in Streams /\ RowOf(w) \in Row /\ diskRow[w.file] \in Stream
  BY RowOfType DEF TypeOK, Interrupted, RecordFiles, Streams
<1>2. \A e \in PartialAppends(diskRow[w.file], RowOf(w)) : e \in Stream
  BY <1>1, AppendType
<1> QED BY <1>1, <1>2 DEF TypeOK, Interrupted

LEMMA TypeInit == Init => TypeOK
<1> SUFFICES ASSUME Init PROVE TypeOK
  OBVIOUS
<1>1. EmptyTable \in Table
  BY DEF EmptyTable, Table
<1>2. [rows |-> <<>>, tail |-> NoTail] \in Stream
  BY DEF Stream
<1>3. StateTypeOK
  BY <1>1, <1>2 DEF Init, StateTypeOK
<1>4. Current \in Snapshot
  BY <1>3 DEF Current, Snapshot, StateTypeOK
<1>5. /\ phase \in Phases /\ call \in Calls \cup {NoCall}
      /\ phase \in {"idle", "down"} /\ phase # "commit" /\ phase # "restore"
      /\ attempt \in Nat /\ step \in Nat \ {0}
      /\ nextRow \in Row /\ result \in Results /\ calls \in Nat
  BY FreshAssumption DEF Init, Phases, Results, NoCall
<1>7. retryable \in BOOLEAN
  BY DEF Init
<1>6. snap \in Snapshot /\ base \in Snapshot
  BY <1>4 DEF Init
<1> QED BY <1>3, <1>5, <1>6, <1>7 DEF TypeOK, StateTypeOK

\* The other half of the type invariant: where the running call is.
ControlTypeOK ==
    /\ phase \in Phases
    /\ call \in Calls \cup {NoCall}
    /\ phase \notin {"idle", "down"} => call \in Calls
    /\ attempt \in Nat
    /\ step \in Nat \ {0}
    /\ phase = "commit" => step <= Len(Program(call.bundle))
    /\ phase = "restore" => step <= Len(DurableFiles)
    /\ snap \in Snapshot
    /\ retryable \in BOOLEAN
    /\ result \in Results
    /\ base \in Snapshot
    /\ calls \in Nat

LEMMA TypeParts == TypeOK <=> StateTypeOK /\ ControlTypeOK /\ nextRow \in Row
BY DEF TypeOK, StateTypeOK, ControlTypeOK

\* Every action keeps the types.
LEMMA TypeStep == TypeOK /\ [Next]_vars => TypeOK'
<1> SUFFICES ASSUME TypeOK, [Next]_vars PROVE StateTypeOK' /\ ControlTypeOK' /\ (nextRow \in Row)'
  BY TypeParts DEF TypeOK, StateTypeOK, ControlTypeOK
<1> USE DEF Moved, Ended, Phases, Results, state
<1>0. StateTypeOK /\ ControlTypeOK /\ nextRow \in Row
  BY TypeParts
<1>1. CASE BeginCommit
  <2>1. call' \in Calls
    BY <1>1 DEF BeginCommit
  <2>2. base' \in Snapshot
    BY <1>1, CurrentType DEF BeginCommit
  <2> QED BY <1>0, <1>1, <2>1, <2>2 DEF BeginCommit, StateTypeOK, ControlTypeOK
<1>2. CASE CommitUnavailable
  BY <1>0, <1>2 DEF CommitUnavailable, StateTypeOK, ControlTypeOK
<1>3. CASE TakeSnapshot
  <2>1. snap' \in Snapshot
    BY <1>3, CurrentType DEF TakeSnapshot
  <2>2. call' \in Calls /\ Len(Program(call'.bundle)) >= 1
    BY <1>0, <1>3, ProgramType DEF TakeSnapshot, ControlTypeOK, Calls
  <2> QED BY <1>0, <1>3, <2>1, <2>2 DEF TakeSnapshot, StateTypeOK, ControlTypeOK
<1>4. CASE SnapshotFails
  BY <1>0, <1>4 DEF SnapshotFails, StateTypeOK, ControlTypeOK
<1>5. CASE WriteNext
  <2>1. StateTypeOK' /\ nextRow' \in Row
    BY <1>5, ThisWriteType, SaveType DEF WriteNext
  <2>2. step + 1 <= Len(Program(call.bundle)) /\ call \in Calls
    BY <1>0, <1>5, ThisWriteType DEF WriteNext, ControlTypeOK
  <2> QED BY <1>0, <1>5, <2>1, <2>2 DEF WriteNext, ControlTypeOK
<1>6. CASE WriteLast
  <2>1. StateTypeOK' /\ nextRow' \in Row
    BY <1>6, ThisWriteType, SaveType DEF WriteLast
  <2> QED BY <1>0, <1>6, <2>1 DEF WriteLast, ControlTypeOK
<1>7. CASE WriteRejected
  <2>1. StateTypeOK' /\ nextRow' \in Row
    BY <1>0, <1>7, ThisWriteType, SaveType DEF WriteRejected, StateTypeOK
  <2>2. \E r \in BOOLEAN : Caught(r)
    BY <1>7 DEF WriteRejected
  <2> QED BY <1>0, <1>7, <2>1, <2>2 DEF WriteRejected, Caught, ControlTypeOK
<1>8. CASE WriteFails
  <2>1. StateTypeOK' /\ nextRow' \in Row
    BY <1>8, ThisWriteType, SaveType DEF WriteFails
  <2> QED BY <1>0, <1>8, <2>1 DEF WriteFails, Caught, ControlTypeOK
<1>9. CASE RestoreMemory
  <2>1. StateTypeOK'
    BY <1>0, <1>9 DEF RestoreMemory, StateTypeOK, ControlTypeOK, Snapshot
  <2> QED BY <1>0, <1>9, <2>1 DEF RestoreMemory, ControlTypeOK, DurableFiles
<1>10. CASE RestoreFile
  <2>1. diskRec' \in [RecordFiles -> Table \cup {Torn}] /\ diskRow' \in [Streams -> Stream]
    BY <1>10, RestoreType DEF RestoreFile
  <2>2. StateTypeOK'
    BY <1>0, <1>10, <2>1 DEF RestoreFile, StateTypeOK
  <2>3. step' \in Nat \ {0} /\ phase' \in {"restore", "error"}
           /\ (phase' = "restore" => step' <= Len(DurableFiles))
    BY <1>0, <1>10 DEF RestoreFile, ControlTypeOK, DurableFiles
  <2> QED BY <1>0, <1>10, <2>2, <2>3 DEF RestoreFile, ControlTypeOK
<1>11. CASE RestoreFails
  <2>1. diskRec' \in [RecordFiles -> Table \cup {Torn}] /\ diskRow' \in [Streams -> Stream]
    BY <1>11, RestoreType DEF RestoreFails
  <2> QED BY <1>0, <1>11, <2>1 DEF RestoreFails, StateTypeOK, ControlTypeOK
<1>12. CASE RecordError
  <2>1. StateTypeOK' /\ nextRow' \in Row
    BY <1>12, HandlerWriteType, SaveType DEF RecordError
  <2> QED BY <1>0, <1>12, <2>1 DEF RecordError, ControlTypeOK
<1>13. CASE RecordRetry
  <2>1. StateTypeOK' /\ nextRow' \in Row
    BY <1>13, HandlerWriteType, SaveType DEF RecordRetry
  <2> QED BY <1>0, <1>13, <2>1 DEF RecordRetry, ControlTypeOK
<1>14. CASE RecordFailure
  <2>1. StateTypeOK' /\ nextRow' \in Row
    BY <1>14, HandlerWriteType, SaveType DEF RecordFailure
  <2> QED BY <1>0, <1>14, <2>1 DEF RecordFailure, ControlTypeOK
<1>15. CASE ReportFails
  <2>1. StateTypeOK' /\ nextRow' \in Row
    BY <1>15, HandlerWriteType, SaveType DEF ReportFails
  <2> QED BY <1>0, <1>15, <2>1 DEF ReportFails, ControlTypeOK
<1>16. CASE SaveDirectly
  <2>1. PICK w \in DirectSaves : \/ SaveOk(w) /\ Ended("saved")
                                 \/ SaveFails(w) /\ Ended("save_raised")
    BY <1>16 DEF SaveDirectly
  <2>2. StateTypeOK' /\ nextRow' \in Row
    BY <2>1, DirectAssumption, SaveType
  <2> QED BY <1>0, <1>16, <2>1, <2>2 DEF SaveDirectly, ControlTypeOK
<1>17. CASE Crash
  <2>1. diskRec' \in [RecordFiles -> Table \cup {Torn}] /\ diskRow' \in [Streams -> Stream]
    BY <1>0, <1>17, ThisWriteType, HandlerWriteType, InterruptedType, RestoreType
    DEF Crash, StateTypeOK
  <2>2. StateTypeOK' /\ nextRow' \in Row
    BY <1>0, <1>17, <2>1 DEF Crash, StateTypeOK, Row
  <2> QED BY <1>0, <1>17, <2>2 DEF Crash, ControlTypeOK
<1>18. CASE Restart
  <2>1. \A f \in RecordFiles : LoadTable(diskRec[f]) \in Table
    BY <1>0 DEF StateTypeOK, LoadTable, EmptyTable, Table
  <2>2. \A s \in Streams : LoadRows(diskRow[s]) \in SUBSET Row
    BY DEF LoadRows
  <2>3. StateTypeOK'
    BY <1>0, <1>18, <2>1, <2>2 DEF Restart, StateTypeOK
  <2> QED BY <1>0, <1>18, <2>3 DEF Restart, ControlTypeOK
<1>19. CASE Done \/ UNCHANGED vars
  BY <1>0, <1>19 DEF Done, vars, control, StateTypeOK, ControlTypeOK
<1> QED
  BY <1>1, <1>2, <1>3, <1>4, <1>5, <1>6, <1>7, <1>8, <1>9, <1>10, <1>11, <1>12, <1>13,
     <1>14, <1>15, <1>16, <1>17, <1>18, <1>19 DEF Next, InCall

\* Type correctness, for every instance: in particular a commit never runs past
\* its program nor a rollback past the last file.
THEOREM TypeCorrect == Spec => []TypeOK
<1>1. Init => TypeOK
  BY TypeInit
<1>2. TypeOK /\ [Next]_vars => TypeOK'
  BY TypeStep
<1> QED BY <1>1, <1>2, PTL DEF Spec

-----------------------------------------------------------------------------
\* A row appended behind a newline is loaded, and so is all that was before.
LEMMA AppendLoads ==
    ASSUME NEW d \in Stream, NEW r \in Row, d.tail = NoTail
    PROVE  LoadRows(AppendRow(d, r)) = LoadRows(d) \cup {r}
<1> DEFINE e == AppendRow(d, r)
<1>1. e.rows = Append(d.rows, r) /\ e.tail = NoTail /\ d.rows \in Seq(Row \cup {Garbled})
  BY DEF AppendRow, Stream
<1>2. Len(e.rows) = Len(d.rows) + 1 /\ e.rows[Len(d.rows) + 1] = r
         /\ \A k \in 1..Len(d.rows) : e.rows[k] = d.rows[k]
  BY <1>1
<1>3. {e.rows[k] : k \in 1..Len(e.rows)} = {d.rows[k] : k \in 1..Len(d.rows)} \cup {r}
  <2>1. Len(d.rows) \in Nat
    BY <1>1
  <2>2. 1..Len(e.rows) = (1..Len(d.rows)) \cup {Len(d.rows) + 1}
    BY <1>2, <2>1
  <2> QED BY <1>2, <2>2
<1> QED BY <1>1, <1>3, MarkersAssumption DEF LoadRows

\* A save keeps SyncedFilesReload: its own file reloads to what memory holds,
\* or is marked stale.
LEMMA SaveSynced ==
    ASSUME TypeOK, SyncedFilesReload, NEW w \in Write, SaveOk(w) \/ SaveFails(w)
    PROVE  SyncedFilesReload'
<1>1. CASE w.file \in RecordFiles
  <2>1. /\ \A f \in RecordFiles \ {w.file} : memRec'[f] = memRec[f] /\ diskRec'[f] = diskRec[f]
        /\ memRow' = memRow /\ diskRow' = diskRow
    BY <1>1 DEF SaveOk, SaveFails, SaveInMemory, SaveOnDisk, SaveOnDiskFails, TypeOK
  <2>2. SaveOk(w) => LoadTable(diskRec'[w.file]) = memRec'[w.file]
    <3>1. SUFFICES ASSUME SaveOk(w) PROVE LoadTable(diskRec'[w.file]) = memRec'[w.file]
      OBVIOUS
    <3>2. diskRec'[w.file] = memRec'[w.file]
      BY <1>1, <3>1 DEF SaveOk, SaveOnDisk, TypeOK
    <3>3. memRec'[w.file] \in Table
      BY <1>1, SaveType DEF StateTypeOK
    <3> QED BY <3>2, <3>3, MarkersAssumption DEF LoadTable
  <2>3. \/ SaveOk(w) /\ stale' = stale \ {w.file}
        \/ stale' = stale \cup {w.file}
    BY <1>1 DEF SaveOk, SaveFails, SaveOnDisk, SaveOnDiskFails
  <2>4. w.file \notin Streams
    BY <1>1 DEF RecordFiles, Streams
  <2> QED BY <2>1, <2>2, <2>3, <2>4 DEF SyncedFilesReload
<1>2. CASE w.file \notin RecordFiles
  <2>1. w.file \in Streams /\ RowOf(w) \in Row /\ diskRow[w.file] \in Stream
    BY <1>2, RowOfType DEF TypeOK
  <2>2. /\ \A s \in Streams \ {w.file} : memRow'[s] = memRow[s] /\ diskRow'[s] = diskRow[s]
        /\ memRec' = memRec /\ diskRec' = diskRec
        /\ memRow'[w.file] = memRow[w.file] \cup {RowOf(w)}
    BY <1>2, <2>1 DEF SaveOk, SaveFails, SaveInMemory, SaveOnDisk, SaveOnDiskFails, TypeOK
  <2>3. CASE SaveOk(w) /\ diskRow[w.file].tail = NoTail
    <3>1. diskRow'[w.file] = AppendRow(diskRow[w.file], RowOf(w)) /\ stale' = stale
      BY <1>2, <2>1, <2>3 DEF SaveOk, SaveOnDisk, TypeOK
    <3>2. LoadRows(diskRow'[w.file]) = LoadRows(diskRow[w.file]) \cup {RowOf(w)}
      BY <2>1, <2>3, <3>1, AppendLoads
    <3> QED BY <2>2, <3>1, <3>2 DEF SyncedFilesReload
  <2>4. CASE stale' = stale \cup {w.file}
    BY <2>2, <2>4 DEF SyncedFilesReload
  <2> QED BY <1>2, <2>3, <2>4 DEF SaveOk, SaveFails, SaveOnDisk, SaveOnDiskFails
<1> QED BY <1>1, <1>2

\* What makes SyncedFilesReload inductive: the snapshot of an attempt has it
\* too, and while the rollback runs memory is the snapshot's and every file it
\* has not come to is marked stale.
SnapSynced ==
    /\ \A f \in RecordFiles \ snap.stale : LoadTable(snap.diskRec[f]) = snap.memRec[f]
    /\ \A s \in Streams \ snap.stale : LoadRows(snap.diskRow[s]) = snap.memRow[s]

SyncInv ==
    /\ TypeOK
    /\ SyncedFilesReload
    /\ phase \in {"commit", "unwind", "restore"} => SnapSynced
    /\ phase = "restore" =>
          /\ memRec = snap.memRec /\ memRow = snap.memRow
          /\ \A k \in step..Len(DurableFiles) : DurableFiles[k] \in stale

LEMMA SyncInit == Init => SyncInv
<1> SUFFICES ASSUME Init PROVE SyncInv
  OBVIOUS
<1>1. \A f \in RecordFiles : LoadTable(diskRec[f]) = memRec[f]
  BY DEF Init, LoadTable
<1>2. \A s \in Streams : LoadRows(diskRow[s]) = memRow[s]
  BY MarkersAssumption DEF Init, LoadRows
<1> QED BY <1>1, <1>2, TypeInit DEF SyncInv, SyncedFilesReload, Init

\* The rollback of one file.
LEMMA RestoreSynced ==
    ASSUME SyncInv, RestoreFile
    PROVE  SyncedFilesReload' /\ (phase' = "restore" =>
                \A k \in step'..Len(DurableFiles) : DurableFiles[k] \in stale')
<1> DEFINE f == DurableFiles[step]
<1>1. step \in 1..9 /\ Len(DurableFiles) = 9 /\ f \in RecordFiles \cup Streams
         /\ RecordFiles \cap Streams = {}
         /\ \A j, k \in 1..9 : DurableFiles[j] = DurableFiles[k] => j = k
  BY DEF SyncInv, TypeOK, RestoreFile, DurableFiles, RecordFiles, Streams
<1>2. memRec' = memRec /\ memRow' = memRow /\ phase = "restore" /\ Restored(f)
         /\ stale' = IF f \in snap.stale THEN stale ELSE stale \ {f}
  BY DEF RestoreFile
<1>3. memRec = snap.memRec /\ memRow = snap.memRow /\ SnapSynced /\ f \in stale
  BY <1>1, <1>2 DEF SyncInv
<1>4. ASSUME f \in RecordFiles PROVE SyncedFilesReload'
  <2>1. diskRec' = [diskRec EXCEPT ![f] = snap.diskRec[f]] /\ diskRow' = diskRow
    BY <1>2, <1>4 DEF Restored
  <2>2. \A g \in RecordFiles \ stale' : LoadTable(diskRec'[g]) = memRec'[g]
    BY <1>2, <1>3, <1>4, <2>1 DEF SyncInv, TypeOK, SyncedFilesReload, SnapSynced
  <2>3. \A s \in Streams \ stale' : LoadRows(diskRow'[s]) = memRow'[s]
    BY <1>1, <1>2, <1>4, <2>1 DEF SyncInv, SyncedFilesReload
  <2> QED BY <2>2, <2>3 DEF SyncedFilesReload
<1>5. ASSUME f \in Streams PROVE SyncedFilesReload'
  <2>1. diskRow' = [diskRow EXCEPT ![f] = snap.diskRow[f]] /\ diskRec' = diskRec
    BY <1>1, <1>2, <1>5 DEF Restored
  <2>2. \A s \in Streams \ stale' : LoadRows(diskRow'[s]) = memRow'[s]
    BY <1>2, <1>3, <1>5, <2>1 DEF SyncInv, TypeOK, SyncedFilesReload, SnapSynced
  <2>3. \A g \in RecordFiles \ stale' : LoadTable(diskRec'[g]) = memRec'[g]
    BY <1>1, <1>2, <1>5, <2>1 DEF SyncInv, SyncedFilesReload
  <2> QED BY <2>2, <2>3 DEF SyncedFilesReload
<1>6. phase' = "restore" => \A k \in step'..Len(DurableFiles) : DurableFiles[k] \in stale'
  <2>1. phase' = "restore" => step' = step + 1 /\ step < 9
    BY <1>1, <1>2 DEF RestoreFile, Moved
  <2>2. \A k \in (step + 1)..9 : DurableFiles[k] \in stale /\ DurableFiles[k] # f
    BY <1>1, <1>2 DEF SyncInv
  <2> QED BY <1>1, <1>2, <2>1, <2>2
<1> QED BY <1>1, <1>4, <1>5, <1>6

\* Steps that touch neither copy.
LEMMA StutterSynced ==
    ASSUME SyncedFilesReload, UNCHANGED state
    PROVE  SyncedFilesReload'
BY DEF SyncedFilesReload, state

LEMMA SyncStep == SyncInv /\ [Next]_vars => SyncInv'
<1> SUFFICES ASSUME SyncInv, [Next]_vars PROVE SyncInv'
  OBVIOUS
<1>0. TypeOK /\ SyncedFilesReload /\ TypeOK'
  BY TypeStep DEF SyncInv
<1> USE DEF Moved, Ended
<1>1. CASE BeginCommit \/ CommitUnavailable \/ SnapshotFails
  BY <1>0, <1>1, StutterSynced DEF BeginCommit, CommitUnavailable, SnapshotFails, SyncInv
<1>2. CASE TakeSnapshot
  <2>1. SyncedFilesReload'
    BY <1>0, <1>2, StutterSynced DEF TakeSnapshot
  <2>2. SnapSynced'
    BY <1>0, <1>2 DEF TakeSnapshot, SyncedFilesReload, SnapSynced, Current
  <2> QED BY <1>0, <1>2, <2>1, <2>2 DEF TakeSnapshot, SyncInv
<1>3. CASE WriteNext \/ WriteLast \/ WriteRejected \/ WriteFails
  <2>1. ThisWrite \in Write
    BY <1>0, <1>3, ThisWriteType DEF WriteNext, WriteLast, WriteRejected, WriteFails
  <2>2. SyncedFilesReload'
    BY <1>0, <1>3, <2>1, SaveSynced, StutterSynced
    DEF WriteNext, WriteLast, WriteRejected, WriteFails
  <2>3. snap' = snap /\ phase = "commit" /\ phase' \in {"commit", "unwind", "idle"}
    BY <1>3 DEF WriteNext, WriteLast, WriteRejected, WriteFails, Caught
  <2> QED BY <1>0, <2>2, <2>3 DEF SyncInv, SnapSynced
<1>4. CASE RestoreMemory
  BY <1>0, <1>4 DEF RestoreMemory, SyncInv, SyncedFilesReload, SnapSynced, DurableFiles,
     RecordFiles, Streams
<1>5. CASE RestoreFile
  <2>1. snap' = snap /\ memRec' = memRec /\ memRow' = memRow /\ phase = "restore"
           /\ phase' \in {"restore", "error"}
    BY <1>5 DEF RestoreFile
  <2> QED BY <1>0, <1>5, <2>1, RestoreSynced DEF SyncInv, SnapSynced
<1>6. CASE RestoreFails
  <2> DEFINE f == DurableFiles[step]
  <2>1. f \in stale /\ f \in RecordFiles \cup Streams
    BY <1>6 DEF RestoreFails, SyncInv, TypeOK, DurableFiles, RecordFiles, Streams
  <2>2. /\ \A g \in RecordFiles \ {f} : diskRec'[g] = diskRec[g]
        /\ \A s \in Streams \ {f} : diskRow'[s] = diskRow[s]
    BY <1>0, <1>6, <2>1 DEF RestoreFails, PartlyRestored, TypeOK
  <2>3. SyncedFilesReload'
    BY <1>0, <1>6, <2>1, <2>2 DEF RestoreFails, SyncedFilesReload
  <2> QED BY <1>0, <1>6, <2>3 DEF RestoreFails, SyncInv
<1>7. CASE RecordError \/ RecordRetry \/ RecordFailure \/ ReportFails
  <2>1. SyncedFilesReload'
    BY <1>0, <1>7, HandlerWriteType, SaveSynced
    DEF RecordError, RecordRetry, RecordFailure, ReportFails
  <2>2. phase' \in {"report", "attempt", "idle"}
    BY <1>7 DEF RecordError, RecordRetry, RecordFailure, ReportFails
  <2> QED BY <1>0, <2>1, <2>2 DEF SyncInv
<1>8. CASE SaveDirectly
  <2>1. SyncedFilesReload' /\ phase' = "idle"
    BY <1>0, <1>8, DirectAssumption, SaveSynced DEF SaveDirectly
  <2> QED BY <1>0, <2>1 DEF SyncInv
<1>9. CASE Crash
  BY <1>0, <1>9 DEF Crash, SyncInv, SyncedFilesReload
<1>10. CASE Restart
  BY <1>0, <1>10 DEF Restart, SyncInv, SyncedFilesReload
<1>11. CASE Done \/ UNCHANGED vars
  BY <1>0, <1>11 DEF Done, vars, state, control, SyncInv, SyncedFilesReload, SnapSynced
<1> QED
  BY <1>1, <1>2, <1>3, <1>4, <1>5, <1>6, <1>7, <1>8, <1>9, <1>10, <1>11 DEF Next, InCall

\* For every set of faults, bundles and limits: memory and disk agree on every
\* file but those whose last write failed, that a rollback has not come to, or
\* that got a row behind an unfinished line.
THEOREM FilesStaySynced == Spec => []SyncedFilesReload
<1>1. Init => SyncInv
  BY SyncInit
<1>2. SyncInv /\ [Next]_vars => SyncInv'
  BY SyncStep
<1>3. SyncInv => SyncedFilesReload
  BY DEF SyncInv
<1> QED BY <1>1, <1>2, <1>3, PTL DEF Spec

-----------------------------------------------------------------------------
\* Two copies that hold the records the call began with, all the telemetry it
\* began with, and e more errors and l more logs.
Kept(mrec, mrow, drec, drow, e, l) ==
    /\ mrec = base.memRec /\ drec = base.diskRec
    /\ \A s \in Streams : /\ base.memRow[s] \subseteq mrow[s]
                          /\ Extends(drow[s].rows, base.diskRow[s].rows)
    /\ Len(drow["errors"].rows) = Len(base.diskRow["errors"].rows) + e
    /\ Len(drow["logs"].rows) = Len(base.diskRow["logs"].rows) + l

KeptNow(e, l) == Kept(memRec, memRow, diskRec, diskRow, e, l)
KeptInSnap == Kept(snap.memRec, snap.memRow, snap.diskRec, snap.diskRow, attempt, attempt)

\* The files the rollback has come to are those of the snapshot.
RestoredBefore(n) ==
    \A k \in 1..(n - 1) :
        /\ DurableFiles[k] \in RecordFiles =>
              diskRec[DurableFiles[k]] = snap.diskRec[DurableFiles[k]]
        /\ DurableFiles[k] \in Streams =>
              diskRow[DurableFiles[k]] = snap.diskRow[DurableFiles[k]]

\* The strengthening of FailedCommitRollsBack: what each moment of a call still
\* shares with its beginning, by way of the attempt's snapshot while the two
\* copies are being changed and put back.
RollbackInv ==
    /\ TypeOK
    /\ phase = "attempt" => KeptNow(attempt, attempt)
    /\ phase \in {"commit", "unwind", "restore"} => KeptInSnap
    /\ phase = "restore" => /\ memRec = snap.memRec /\ memRow = snap.memRow
                            /\ RestoredBefore(step)
    /\ phase = "error" => KeptNow(attempt, attempt)
    /\ phase = "report" => KeptNow(attempt + 1, attempt)
    /\ result = "failed" => phase = "idle" /\ KeptNow(attempt + 1, attempt + 1)
    /\ result = "raised" => phase = "idle" /\ memRec = base.memRec

\* Appending a row keeps what is there and adds one line.
LEMMA AppendExtends ==
    ASSUME NEW d \in Stream, NEW r \in Row, NEW b \in Stream, Extends(d.rows, b.rows)
    PROVE  /\ Extends(AppendRow(d, r).rows, b.rows)
           /\ Len(AppendRow(d, r).rows) = Len(d.rows) + 1
BY DEF Extends, AppendRow, Stream

\* Counting: one line more than a base and e others.
LEMMA OneMore ==
    \A x, y : \A z, e \in Nat : x = y + 1 /\ y = z + e => x = z + (e + 1)
OBVIOUS

\* The handler's rows keep what the call began with.
LEMMA KeptByRow ==
    ASSUME TypeOK, NEW e, NEW l, KeptNow(e, l), UNCHANGED base,
           e \in Nat, l \in Nat, SaveOk(ErrorRow) \/ SaveOk(Log)
    PROVE  /\ SaveOk(ErrorRow) => KeptNow(e + 1, l)'
           /\ SaveOk(Log) => KeptNow(e, l + 1)'
<1>1. /\ ErrorRow \in Write /\ ErrorRow.file = "errors" /\ ErrorRow.file \notin RecordFiles
      /\ Log \in Write /\ Log.file = "logs" /\ Log.file \notin RecordFiles
  BY HandlerWriteType DEF ErrorRow, Log, RecordFiles
<1>2. diskRow \in [Streams -> Stream] /\ base.diskRow \in [Streams -> Stream]
         /\ memRow \in [Streams -> SUBSET Row]
  BY DEF TypeOK, Snapshot
<1>3. \A s \in Streams : Len(diskRow[s].rows) \in Nat /\ Len(base.diskRow[s].rows) \in Nat
  BY <1>2 DEF Stream
<1>4. ASSUME NEW w \in {ErrorRow, Log}, SaveOk(w)
      PROVE  /\ memRec' = memRec /\ diskRec' = diskRec
             /\ \A s \in Streams : /\ memRow[s] \subseteq memRow'[s]
                                   /\ Extends(diskRow'[s].rows, base.diskRow[s].rows)
             /\ Len(diskRow'[w.file].rows) = Len(diskRow[w.file].rows) + 1
             /\ \A s \in Streams \ {w.file} : diskRow'[s] = diskRow[s]
  <2>1. w \in Write /\ w.file \in Streams /\ w.file \notin RecordFiles /\ RowOf(w) \in Row
    BY <1>1, RowOfType
  <2>2. /\ memRec' = memRec /\ diskRec' = diskRec
        /\ memRow' = [memRow EXCEPT ![w.file] = @ \cup {RowOf(w)}]
        /\ diskRow' = [diskRow EXCEPT ![w.file] = AppendRow(@, RowOf(w))]
    BY <1>4, <2>1 DEF SaveOk, SaveInMemory, SaveOnDisk
  <2>3. /\ Extends(AppendRow(diskRow[w.file], RowOf(w)).rows, base.diskRow[w.file].rows)
        /\ Len(AppendRow(diskRow[w.file], RowOf(w)).rows) = Len(diskRow[w.file].rows) + 1
    BY <1>2, <2>1, AppendExtends DEF KeptNow, Kept
  <2> QED BY <1>2, <2>1, <2>2, <2>3 DEF KeptNow, Kept
<1>5. ASSUME SaveOk(ErrorRow) PROVE KeptNow(e + 1, l)'
  <2>1. /\ memRec' = memRec /\ diskRec' = diskRec
        /\ \A s \in Streams : /\ memRow[s] \subseteq memRow'[s]
                              /\ Extends(diskRow'[s].rows, base.diskRow[s].rows)
    BY <1>4, <1>5
  <2>2. Len(diskRow'["errors"].rows) = Len(base.diskRow["errors"].rows) + (e + 1)
    <3>1. Len(diskRow'["errors"].rows) = Len(diskRow["errors"].rows) + 1
      BY <1>1, <1>4, <1>5
    <3>2. Len(diskRow["errors"].rows) = Len(base.diskRow["errors"].rows) + e
      BY DEF KeptNow, Kept
    <3>3. Len(base.diskRow["errors"].rows) \in Nat
      BY <1>3 DEF Streams
    <3> QED BY <3>1, <3>2, <3>3, OneMore
  <2>3. Len(diskRow'["logs"].rows) = Len(base.diskRow["logs"].rows) + l
    <3>1. diskRow'["logs"] = diskRow["logs"]
      BY <1>1, <1>4, <1>5 DEF Streams
    <3> QED BY <3>1 DEF KeptNow, Kept
  <2>4. memRec = base.memRec /\ diskRec = base.diskRec
           /\ \A s \in Streams : base.memRow[s] \subseteq memRow[s]
    BY DEF KeptNow, Kept
  <2>5. base' = base
    OBVIOUS
  <2> QED BY <2>1, <2>2, <2>3, <2>4, <2>5, Zenon DEF KeptNow, Kept
<1>6. ASSUME SaveOk(Log) PROVE KeptNow(e, l + 1)'
  <2>1. /\ memRec' = memRec /\ diskRec' = diskRec
        /\ \A s \in Streams : /\ memRow[s] \subseteq memRow'[s]
                              /\ Extends(diskRow'[s].rows, base.diskRow[s].rows)
    BY <1>4, <1>6
  <2>2. Len(diskRow'["logs"].rows) = Len(base.diskRow["logs"].rows) + (l + 1)
    <3>1. Len(diskRow'["logs"].rows) = Len(diskRow["logs"].rows) + 1
      BY <1>1, <1>4, <1>6
    <3>2. Len(diskRow["logs"].rows) = Len(base.diskRow["logs"].rows) + l
      BY DEF KeptNow, Kept
    <3>3. Len(base.diskRow["logs"].rows) \in Nat
      BY <1>3 DEF Streams
    <3> QED BY <3>1, <3>2, <3>3, OneMore
  <2>3. Len(diskRow'["errors"].rows) = Len(base.diskRow["errors"].rows) + e
    <3>1. diskRow'["errors"] = diskRow["errors"]
      BY <1>1, <1>4, <1>6 DEF Streams
    <3> QED BY <3>1 DEF KeptNow, Kept
  <2>4. memRec = base.memRec /\ diskRec = base.diskRec
           /\ \A s \in Streams : base.memRow[s] \subseteq memRow[s]
    BY DEF KeptNow, Kept
  <2>5. base' = base
    OBVIOUS
  <2> QED BY <2>1, <2>2, <2>3, <2>4, <2>5, Zenon DEF KeptNow, Kept
<1> QED BY <1>5, <1>6

\* Steps after which nothing of a call is left to say but how it ended.
LEMMA RollbackByEnding ==
    ASSUME TypeOK', phase' \in {"idle", "down"},
           result' \in {"none", "committed", "unavailable", "saved", "save_raised"}
    PROVE  RollbackInv'
BY DEF RollbackInv

\* What the rollback has come to when it has come to the last file.
LEMMA RestoredAll ==
    ASSUME TypeOK', RestoredBefore(10)'
    PROVE  diskRec' = snap'.diskRec /\ diskRow' = snap'.diskRow
<1>1. \A f \in RecordFiles : \E k \in 1..9 : f = DurableFiles[k]
  BY DEF RecordFiles, DurableFiles
<1>2. \A s \in Streams : \E k \in 1..9 : s = DurableFiles[k]
  BY DEF Streams, DurableFiles
<1>3. \A f \in RecordFiles : diskRec'[f] = snap'.diskRec[f]
  BY <1>1 DEF RestoredBefore
<1>4. \A s \in Streams : diskRow'[s] = snap'.diskRow[s]
  BY <1>2 DEF RestoredBefore
<1> QED BY <1>3, <1>4 DEF TypeOK, Snapshot

\* The rollback of one file.
LEMMA RestoreStep ==
    ASSUME TypeOK, RestoreFile, RestoredBefore(step)
    PROVE  \A n \in Nat : n = step + 1 => RestoredBefore(n)'
<1> DEFINE f == DurableFiles[step]
<1>1. step \in 1..9 /\ f \in RecordFiles \cup Streams /\ RecordFiles \cap Streams = {}
         /\ \A j, k \in 1..9 : DurableFiles[j] = DurableFiles[k] => j = k
  BY DEF TypeOK, RestoreFile, DurableFiles, RecordFiles, Streams
<1>2. snap' = snap /\ Restored(f)
  BY DEF RestoreFile
<1>3. /\ f \in RecordFiles => diskRec'[f] = snap.diskRec[f]
      /\ f \in Streams => diskRow'[f] = snap.diskRow[f]
      /\ \A g \in RecordFiles \ {f} : diskRec'[g] = diskRec[g]
      /\ \A s \in Streams \ {f} : diskRow'[s] = diskRow[s]
  BY <1>1, <1>2 DEF Restored, TypeOK
<1>4. \A k \in 1..(step - 1) : DurableFiles[k] # f
  BY <1>1
<1>5. \A k \in 1..step : k \in 1..(step - 1) \/ k = step
  BY <1>1
<1>6. \A k \in 1..step :
        /\ DurableFiles[k] \in RecordFiles =>
              diskRec'[DurableFiles[k]] = snap'.diskRec[DurableFiles[k]]
        /\ DurableFiles[k] \in Streams =>
              diskRow'[DurableFiles[k]] = snap'.diskRow[DurableFiles[k]]
  BY <1>2, <1>3, <1>4, <1>5 DEF RestoredBefore
<1>7. SUFFICES ASSUME NEW n \in Nat, n = step + 1
               PROVE  RestoredBefore(n)'
  OBVIOUS
<1>8. 1..(n - 1) = 1..step
  BY <1>1, <1>7
<1> QED BY <1>6, <1>8 DEF RestoredBefore

LEMMA RollbackStep == RollbackInv /\ [Next]_vars => RollbackInv'
<1> SUFFICES ASSUME RollbackInv, [Next]_vars PROVE RollbackInv'
  OBVIOUS
<1>0. TypeOK /\ TypeOK'
  BY TypeStep DEF RollbackInv
<1> USE DEF Moved, Ended
<1>1. CASE BeginCommit
  <2>1. KeptNow(0, 0)'
    <3>1. base' = Current /\ UNCHANGED state
      BY <1>1 DEF BeginCommit
    <3>2. \A s \in Streams : Len(diskRow[s].rows) \in Nat
      BY <1>0 DEF TypeOK, Stream
    <3>3. /\ Len(diskRow["errors"].rows) = Len(diskRow["errors"].rows) + 0
          /\ Len(diskRow["logs"].rows) = Len(diskRow["logs"].rows) + 0
      BY <3>2 DEF Streams
    <3>4. \A s \in Streams : Extends(diskRow[s].rows, diskRow[s].rows)
      BY <3>2 DEF Extends
    <3> QED BY <3>1, <3>3, <3>4, Zenon DEF KeptNow, Kept, Current, state
  <2> QED BY <1>0, <1>1, <2>1 DEF BeginCommit, RollbackInv
<1>2. CASE CommitUnavailable
  BY <1>0, <1>2, RollbackByEnding DEF CommitUnavailable
<1>3. CASE TakeSnapshot
  <2>1. KeptInSnap'
    BY <1>3 DEF TakeSnapshot, RollbackInv, KeptNow, KeptInSnap, Kept, Current
  <2>2. phase' = "commit" /\ result' = result /\ result \notin {"failed", "raised"}
    BY <1>3 DEF TakeSnapshot, RollbackInv
  <2> QED BY <1>0, <2>1, <2>2 DEF RollbackInv
<1>4. CASE SnapshotFails
  <2>1. memRec = base.memRec
    BY <1>4 DEF SnapshotFails, RollbackInv, KeptNow, Kept
  <2> QED BY <1>0, <1>4, <2>1 DEF SnapshotFails, RollbackInv, state
<1>5. CASE WriteLast
  BY <1>0, <1>5, RollbackByEnding DEF WriteLast
<1>6. CASE WriteNext \/ WriteRejected \/ WriteFails
  <2>1. UNCHANGED <<snap, base, attempt, result>> /\ phase = "commit"
           /\ phase' \in {"commit", "unwind"}
    BY <1>6 DEF WriteNext, WriteRejected, WriteFails, Caught
  <2>2. KeptInSnap'
    BY <2>1 DEF RollbackInv, KeptInSnap, Kept
  <2> QED BY <1>0, <2>1, <2>2 DEF RollbackInv
<1>7. CASE RestoreMemory
  <2>1. UNCHANGED <<snap, base, attempt, result>> /\ phase = "unwind" /\ phase' = "restore"
           /\ step' = 1 /\ memRec' = snap.memRec /\ memRow' = snap.memRow
    BY <1>7 DEF RestoreMemory
  <2>2. KeptInSnap'
    BY <2>1 DEF RollbackInv, KeptInSnap, Kept
  <2>3. RestoredBefore(step)'
    BY <2>1 DEF RestoredBefore
  <2> QED BY <1>0, <2>1, <2>2, <2>3 DEF RollbackInv
<1>8. CASE RestoreFile
  <2>1. UNCHANGED <<snap, base, attempt, result, memRec, memRow>> /\ phase = "restore"
    BY <1>8 DEF RestoreFile
  <2>2. KeptInSnap'
    BY <2>1 DEF RollbackInv, KeptInSnap, Kept
  <2>3. step \in 1..9 /\ Len(DurableFiles) = 9
    BY <1>0, <2>1 DEF TypeOK, DurableFiles
  <2>4. \A n \in Nat : n = step + 1 => RestoredBefore(n)'
    BY <1>0, <1>8, <2>1, RestoreStep DEF RollbackInv
  <2>5. CASE step < 9
    <3>1. phase' = "restore" /\ step' = step + 1 /\ step' \in Nat
      BY <1>8, <2>1, <2>3, <2>5 DEF RestoreFile
    <3>2. RestoredBefore(step)'
      BY <2>4, <3>1 DEF RestoredBefore
    <3> QED BY <1>0, <2>1, <2>2, <3>1, <3>2 DEF RollbackInv
  <2>6. CASE step = 9
    <3>1. phase' = "error"
      BY <1>8, <2>3, <2>6 DEF RestoreFile
    <3>2. RestoredBefore(10)'
      BY <2>4, <2>6
    <3>3. diskRec' = snap'.diskRec /\ diskRow' = snap'.diskRow
      BY <1>0, <3>2, RestoredAll
    <3>4. memRec' = snap'.memRec /\ memRow' = snap'.memRow
      BY <2>1 DEF RollbackInv
    <3>5. KeptNow(attempt, attempt)'
      BY <2>2, <3>3, <3>4 DEF KeptNow, KeptInSnap
    <3> QED BY <1>0, <2>1, <3>1, <3>5 DEF RollbackInv
  <2> QED BY <2>3, <2>5, <2>6
<1>9. CASE RestoreFails
  <2>1. memRec' = base'.memRec
    BY <1>9 DEF RestoreFails, RollbackInv, KeptInSnap, Kept
  <2> QED BY <1>0, <1>9, <2>1 DEF RestoreFails, RollbackInv
<1>10. CASE RecordError
  <2>1. KeptNow(attempt + 1, attempt)'
    BY <1>0, <1>10, KeptByRow DEF RecordError, RollbackInv, TypeOK
  <2> QED BY <1>0, <1>10, <2>1 DEF RecordError, RollbackInv
<1>11. CASE RecordRetry
  <2>1. KeptNow(attempt, attempt)'
    BY <1>0, <1>11, KeptByRow DEF RecordRetry, RollbackInv, TypeOK
  <2> QED BY <1>0, <1>11, <2>1 DEF RecordRetry, RollbackInv
<1>12. CASE RecordFailure
  <2>1. KeptNow(attempt + 1, attempt + 1)'
    BY <1>0, <1>12, KeptByRow DEF RecordFailure, RollbackInv, TypeOK
  <2> QED BY <1>0, <1>12, <2>1 DEF RecordFailure, RollbackInv
<1>13. CASE ReportFails
  <2>1. memRec = base.memRec
    BY <1>13 DEF ReportFails, RollbackInv, KeptNow, Kept
  <2>2. memRec' = memRec /\ base' = base
    BY <1>13 DEF ReportFails, SaveFails, SaveInMemory, HandlerWrite, ErrorRow, Log, RecordFiles
  <2> QED BY <1>0, <1>13, <2>1, <2>2 DEF ReportFails, RollbackInv
<1>14. CASE SaveDirectly
  BY <1>0, <1>14, RollbackByEnding DEF SaveDirectly
<1>15. CASE Crash
  BY <1>0, <1>15, RollbackByEnding DEF Crash
<1>16. CASE Restart
  <2>1. result \notin {"failed", "raised"}
    BY <1>16 DEF Restart, RollbackInv
  <2> QED BY <1>0, <1>16, <2>1 DEF Restart, RollbackInv
<1>17. CASE Done \/ UNCHANGED vars
  BY <1>0, <1>17 DEF Done, vars, state, control, RollbackInv, KeptNow, KeptInSnap, Kept, RestoredBefore
<1> QED
  BY <1>1, <1>2, <1>3, <1>4, <1>5, <1>6, <1>7, <1>8, <1>9, <1>10, <1>11, <1>12, <1>13,
     <1>14, <1>15, <1>16, <1>17 DEF Next, InCall

LEMMA RollbackCorrect == Spec => []RollbackInv
<1>1. Init => RollbackInv
  BY TypeInit DEF Init, RollbackInv
<1>2. RollbackInv /\ [Next]_vars => RollbackInv'
  BY RollbackStep
<1> QED BY <1>1, <1>2, PTL DEF Spec

\* For every set of faults, bundles and limits: a commit that reports failure
\* has put the records back, in memory and in every file, and taken no
\* telemetry away.
THEOREM RollbackIsComplete == Spec => []FailedCommitRollsBack
<1>1. RollbackInv => FailedCommitRollsBack
  BY DEF RollbackInv, KeptNow, Kept, FailedCommitRollsBack
<1> QED BY <1>1, RollbackCorrect, PTL

\* Whatever goes wrong in its handler, a commit that did not succeed leaves the
\* records in memory as it found them.
THEOREM MemoryIsRolledBack == Spec => []UncommittedLeavesMemory
<1>1. RollbackInv => UncommittedLeavesMemory
  BY DEF RollbackInv, KeptNow, Kept, UncommittedLeavesMemory
<1> QED BY <1>1, RollbackCorrect, PTL

-----------------------------------------------------------------------------
\* A set of numbers up to n that is not empty has a greatest element.
LEMMA GreatestOf ==
    ASSUME NEW n \in Nat, NEW T \in SUBSET (1..n), T # {}
    PROVE  \E x \in T : \A y \in T : y <= x
<1> DEFINE D == {d \in Nat : \E x \in T : d = n - x}
<1>1. D \in SUBSET Nat /\ D # {}
  <2>1. PICK x \in T : TRUE
    OBVIOUS
  <2>2. n - x \in D
    BY <2>1
  <2> QED BY <2>2
<1>2. \E d \in D : \A e \in D : ~ (<<e, d>> \in OpToRel(<, Nat))
  <2> HIDE DEF D
  <2> QED BY <1>1, NatLessThanWellFounded, WFMin
<1>3. PICK d \in D : \A e \in D : ~ (e < d)
  BY <1>1, <1>2 DEF OpToRel
<1>4. PICK x \in T : d = n - x
  OBVIOUS
<1>5. ASSUME NEW y \in T PROVE y <= x
  <2>1. n - y \in D
    OBVIOUS
  <2>2. ~ (n - y < d)
    BY <1>3, <2>1
  <2> QED BY <1>4, <2>2
<1> QED BY <1>5

\* The tables after a write: one record of one table has changed, or nothing.
Put(t, w) ==
    IF w.file \in RecordFiles THEN [t EXCEPT ![w.file][w.id] = w.value] ELSE t

\* One more write changes the one record it names, or no record.
LEMMA AfterMore ==
    ASSUME NEW t, NEW short \in Seq(Write), NEW long \in Seq(Write), NEW n \in Nat \ {0},
           Len(short) = n - 1, Len(long) = n, \A k \in 1..(n - 1) : long[k] = short[k]
    PROVE  Store!After(t, long) = Put(Store!After(t, short), long[n])
<1> DEFINE w == long[n]
<1>1. w \in Write
  OBVIOUS
<1>2. ASSUME NEW f \in RecordFiles, NEW i \in Ids, ~ (w.file = f /\ w.id = i)
      PROVE  Store!After(t, long)[f][i] = Store!After(t, short)[f][i]
  <2>1. Store!WritesTo(long, f, i) = Store!WritesTo(short, f, i)
    BY <1>1, <1>2 DEF Store!WritesTo
  <2> DEFINE S == Store!WritesTo(short, f, i)
  <2>2. CASE S = {}
    BY <2>1, <2>2 DEF Store!After
  <2>3. CASE S # {}
    <3>1. S \subseteq 1..(n - 1)
      BY <1>1 DEF Store!WritesTo
    <3>2. \E x \in S : \A y \in S : y <= x
      <4> HIDE DEF S
      <4>1. n - 1 \in Nat
        OBVIOUS
      <4> QED BY <3>1, <4>1, <2>3, GreatestOf
    <3>3. (CHOOSE k \in S : \A j \in S : j <= k) \in 1..(n - 1)
      BY <3>1, <3>2
    <3> HIDE DEF S
    <3>4. long[CHOOSE k \in S : \A j \in S : j <= k] = short[CHOOSE k \in S : \A j \in S : j <= k]
      BY <1>1, <3>3
    <3> QED BY <2>1, <2>3, <3>4 DEF Store!After, S
  <2> QED BY <2>2, <2>3
<1>3. ASSUME w.file \in RecordFiles, w.id \in Ids
      PROVE  Store!After(t, long)[w.file][w.id] = w.value
  <2> DEFINE S == Store!WritesTo(long, w.file, w.id)
  <2>1. S \subseteq 1..n /\ n \in S
    BY <1>1 DEF Store!WritesTo
  <2>2. (CHOOSE k \in S : \A j \in S : j <= k) = n
    <3>1. \A k \in S : (\A j \in S : j <= k) => k = n
      BY <2>1
    <3>2. \A j \in S : j <= n
      BY <2>1
    <3> HIDE DEF S
    <3> QED BY <2>1, <3>1, <3>2
  <2> QED BY <1>1, <1>3, <2>1, <2>2 DEF Store!After
<1> DEFINE before == Store!After(t, short)
           after == Store!After(t, long)
<1>4. /\ before = [f \in RecordFiles |-> [i \in Ids |-> before[f][i]]]
      /\ after = [f \in RecordFiles |-> [i \in Ids |-> after[f][i]]]
  BY DEF Store!After
<1>5. CASE w.file \in RecordFiles
  <2>1. w.id \in Ids
    BY <1>5 DEF Write, RecordFiles, Streams
  <2>2. /\ after[w.file][w.id] = w.value
        /\ \A f \in RecordFiles, i \in Ids :
              ~ (w.file = f /\ w.id = i) => after[f][i] = before[f][i]
    BY <1>2, <1>3, <1>5, <2>1
  <2> HIDE DEF before, after, w
  <2>3. after[w.file] = [before[w.file] EXCEPT ![w.id] = w.value]
    <3>1. /\ before[w.file] = [i \in Ids |-> before[w.file][i]]
          /\ after[w.file] = [i \in Ids |-> after[w.file][i]]
      BY <1>4, <1>5
    <3> QED BY <1>5, <2>1, <2>2, <3>1
  <2>4. \A f \in RecordFiles \ {w.file} : after[f] = before[f]
    BY <1>4, <2>2
  <2>5. after = [before EXCEPT ![w.file] = after[w.file]]
    BY <1>4, <1>5, <2>4
  <2>6. after = [before EXCEPT ![w.file][w.id] = w.value]
    BY <2>3, <2>5
  <2> QED BY <1>5, <2>6 DEF before, after, w, Put
<1>6. CASE w.file \notin RecordFiles
  <2>1. \A f \in RecordFiles, i \in Ids : after[f][i] = before[f][i]
    BY <1>2, <1>6
  <2> HIDE DEF before, after, w
  <2>2. after = before
    BY <1>4, <2>1
  <2> QED BY <1>6, <2>2 DEF before, after, w, Put
<1> QED BY <1>5, <1>6

\* The same of the prefixes of a program.
LEMMA AfterStep ==
    ASSUME NEW t, NEW ws \in Seq(Write), NEW n \in 1..Len(ws)
    PROVE  Store!After(t, SubSeq(ws, 1, n)) = Put(Store!After(t, SubSeq(ws, 1, n - 1)), ws[n])
<1> DEFINE short == SubSeq(ws, 1, n - 1)
           long == SubSeq(ws, 1, n)
<1>1. /\ short \in Seq(Write) /\ long \in Seq(Write) /\ n \in Nat \ {0}
      /\ Len(short) = n - 1 /\ Len(long) = n
      /\ \A k \in 1..(n - 1) : long[k] = short[k]
      /\ long[n] = ws[n]
  OBVIOUS
<1> HIDE DEF short, long
<1>2. Store!After(t, long) = Put(Store!After(t, short), long[n])
  BY <1>1, AfterMore
<1> QED BY <1>1, <1>2 DEF short, long

\* Nothing written, nothing changed.
LEMMA AfterNothing ==
    ASSUME NEW t \in [RecordFiles -> Table], NEW none, Len(none) = 0
    PROVE  Store!After(t, none) = t
<1>1. \A f, i : Store!WritesTo(none, f, i) = {}
  BY DEF Store!WritesTo
<1>2. Store!After(t, none) = [f \in RecordFiles |-> [i \in Ids |-> t[f][i]]]
  BY <1>1 DEF Store!After
<1> QED BY <1>2 DEF Table

\* One write alone.
LEMMA AfterOne ==
    ASSUME NEW t \in [RecordFiles -> Table], NEW w \in Write
    PROVE  Store!After(t, <<w>>) = Put(t, w)
<1> DEFINE none == SubSeq(<<w>>, 1, 0)
           one == <<w>>
<1>1. PICK n \in Nat \ {0} : n = 1
  OBVIOUS
<1>2. /\ none \in Seq(Write) /\ one \in Seq(Write)
      /\ Len(none) = n - 1 /\ Len(one) = n /\ one[n] = w
      /\ \A k \in 1..(n - 1) : one[k] = none[k]
  BY <1>1
<1> HIDE DEF none, one
<1>3. Store!After(t, none) = t
  BY <1>1, <1>2, AfterNothing
<1>4. Store!After(t, one) = Put(Store!After(t, none), one[n])
  BY <1>2, AfterMore
<1> QED BY <1>2, <1>3, <1>4 DEF one

\* Whether its file write succeeds or not, a save puts its record into memory.
LEMMA SavePuts ==
    ASSUME TypeOK, NEW w \in Write, SaveOk(w) \/ SaveFails(w)
    PROVE  memRec' = Put(memRec, w)
BY DEF SaveOk, SaveFails, SaveInMemory, Put

\* The program of the bundle that is being committed, and its first n writes.
Running == Program(call.bundle)
Prefix(n) == SubSeq(Running, 1, n)

\* What makes a commit one step: memory holds what the call began with and the
\* writes made so far, and nothing else.
ProgressInv ==
    /\ RollbackInv
    /\ phase = "commit" => memRec = Store!After(base.memRec, Prefix(step - 1))
    /\ "crash" \notin Faults => phase # "down"

\* A write of the commit takes memory from one prefix of its program to the next.
LEMMA WriteProgress ==
    ASSUME ProgressInv, phase = "commit", SaveOk(ThisWrite) \/ SaveFails(ThisWrite)
    PROVE  memRec' = Store!After(base.memRec, Prefix(step))
<1>1. TypeOK /\ ThisWrite \in Write /\ call.bundle \in Bundles
  BY ThisWriteType DEF ProgressInv, RollbackInv, Calls
<1>2. Running \in Seq(Write) /\ step \in 1..Len(Running)
  BY <1>1, ProgramType DEF Running, TypeOK
<1>3. memRec' = Put(memRec, Running[step])
  BY <1>1, SavePuts DEF ThisWrite, Running
<1>4. Store!After(base.memRec, SubSeq(Running, 1, step))
         = Put(Store!After(base.memRec, SubSeq(Running, 1, step - 1)), Running[step])
  BY <1>2, AfterStep
<1> QED BY <1>3, <1>4 DEF ProgressInv, Prefix

LEMMA ProgressStep == ProgressInv /\ [Next]_vars => ProgressInv'
<1> SUFFICES ASSUME ProgressInv, [Next]_vars PROVE ProgressInv'
  OBVIOUS
<1>0. RollbackInv /\ RollbackInv' /\ TypeOK
  BY RollbackStep DEF ProgressInv, RollbackInv
<1>1. "crash" \notin Faults => phase' # "down"
  BY DEF ProgressInv, Next, InCall, BeginCommit, CommitUnavailable, TakeSnapshot, SnapshotFails,
     WriteNext, WriteLast, WriteRejected, WriteFails, Caught, RestoreMemory, RestoreFile,
     RestoreFails, RecordError, RecordRetry, RecordFailure, ReportFails, SaveDirectly, Crash,
     Restart, Done, Moved, Ended, vars, control
<1>2. CASE TakeSnapshot
  <2>1. memRec = base.memRec /\ base.memRec \in [RecordFiles -> Table]
    BY <1>0, <1>2 DEF TakeSnapshot, RollbackInv, KeptNow, Kept, TypeOK, Snapshot
  <2>2. UNCHANGED <<memRec, base, call>> /\ step' = 1
    BY <1>2 DEF TakeSnapshot, state
  <2>3. Len(SubSeq(Running, 1, 0)) = 0
    <3>1. Running \in Seq(Write)
      BY <1>0, <1>2, ProgramType DEF TakeSnapshot, TypeOK, Calls, Running
    <3> QED BY <3>1
  <2>4. Store!After(base.memRec, SubSeq(Running, 1, 0)) = base.memRec
    BY <2>1, <2>3, AfterNothing
  <2>5. memRec' = Store!After(base.memRec, Prefix(step - 1))'
    BY <2>1, <2>2, <2>4 DEF Prefix, Running
  <2> QED BY <1>0, <1>1, <2>5 DEF ProgressInv
<1>3. CASE WriteNext
  <2>1. memRec' = Store!After(base.memRec, Prefix(step))
    BY <1>3, WriteProgress DEF WriteNext
  <2>2. UNCHANGED <<base, call>> /\ step' - 1 = step
    BY <1>0, <1>3 DEF WriteNext, TypeOK
  <2>3. memRec' = Store!After(base.memRec, Prefix(step - 1))'
    BY <2>1, <2>2 DEF Prefix, Running
  <2> QED BY <1>0, <1>1, <2>3 DEF ProgressInv
<1>4. CASE UNCHANGED vars
  BY <1>0, <1>1, <1>4 DEF ProgressInv, vars, state, control, Prefix, Running
<1>5. CASE phase' # "commit"
  BY <1>0, <1>1, <1>5 DEF ProgressInv
<1>6. TakeSnapshot \/ WriteNext \/ UNCHANGED vars \/ phase' # "commit"
  BY DEF ProgressInv, Next, InCall, BeginCommit, CommitUnavailable, SnapshotFails,
     WriteLast, WriteRejected, WriteFails, Caught, RestoreMemory, RestoreFile,
     RestoreFails, RecordError, RecordRetry, RecordFailure, ReportFails, SaveDirectly, Crash,
     Restart, Done, Moved, Ended, vars, control
<1> QED BY <1>2, <1>3, <1>4, <1>5, <1>6

LEMMA ProgressCorrect == Spec => []ProgressInv
<1>1. Init => RollbackInv
  BY TypeInit DEF Init, RollbackInv
<1>2. Init => ProgressInv
  BY <1>1 DEF Init, ProgressInv
<1>3. ProgressInv /\ [Next]_vars => ProgressInv'
  BY ProgressStep
<1> QED BY <1>2, <1>3, PTL DEF Spec

LEMMA AtomicInit == Init => Store!Init
BY DEF Init, Store!Init, EmptyTable

\* Every step is a step of BundleStore or changes nothing a reader sees: a call
\* begins, its last write commits it, each way it can fail refuses it.
LEMMA AtomicStep ==
    ASSUME "crash" \notin Faults, ProgressInv, ProgressInv', [Next]_vars
    PROVE  [Store!Next]_(Store!vars)
<1>0. TypeOK /\ RollbackInv /\ RollbackInv' /\ phase # "down"
  BY DEF ProgressInv, RollbackInv
<1> USE DEF Moved, Ended
<1>1. CASE BeginCommit
  <2>1. call'.bundle \in Bundles /\ base'.memRec = memRec
    BY <1>1 DEF BeginCommit, Calls, Current
  <2>2. Store!Begin
    BY <1>1, <2>1 DEF BeginCommit, Store!Begin
  <2> QED BY <2>2 DEF Store!Next
<1>2. CASE CommitUnavailable \/ Done \/ UNCHANGED vars
  BY <1>2 DEF CommitUnavailable, Done, vars, state, control, Store!vars
<1>3. CASE TakeSnapshot \/ WriteNext \/ WriteRejected \/ WriteFails \/ RestoreMemory
              \/ RestoreFile \/ RecordError \/ RecordRetry
  <2>1. phase # "idle" /\ phase' # "idle" /\ UNCHANGED <<base, call>>
    BY <1>3 DEF TakeSnapshot, WriteNext, WriteRejected, WriteFails, Caught, RestoreMemory,
       RestoreFile, RecordError, RecordRetry
  <2> QED BY <2>1 DEF Store!vars
<1>4. CASE WriteLast
  <2>1. phase = "commit" /\ phase' = "idle" /\ call.bundle \in Bundles
    BY <1>0, <1>4 DEF WriteLast, TypeOK, Calls
  <2>2. memRec' = Store!After(base.memRec, Prefix(step)) /\ step = Len(Running)
    BY <1>4, WriteProgress DEF WriteLast, Running
  <2>3. Prefix(step) = Program(call.bundle)
    BY <2>1, <2>2, ProgramType DEF Prefix, Running
  <2>4. Store!Commit
    BY <2>1, <2>2, <2>3, MarkersAssumption DEF Store!Commit
  <2> QED BY <2>4 DEF Store!Next
<1>5. CASE SnapshotFails \/ RestoreFails \/ RecordFailure \/ ReportFails
  <2>1. phase # "idle" /\ phase' = "idle" /\ base' = base /\ result' \in {"failed", "raised"}
    BY <1>5 DEF SnapshotFails, RestoreFails, RecordFailure, ReportFails
  <2>2. call.bundle \in Bundles
    BY <1>0, <2>1 DEF TypeOK, Calls
  <2>3. memRec' = base.memRec
    BY <1>0, <2>1 DEF RollbackInv, KeptNow, Kept
  <2>4. Store!Refuse
    BY <2>1, <2>2, <2>3, MarkersAssumption DEF Store!Refuse
  <2> QED BY <2>4 DEF Store!Next
<1>6. CASE SaveDirectly
  <2>1. phase = "idle" /\ phase' = "idle"
    BY <1>6 DEF SaveDirectly
  <2>2. PICK w \in DirectSaves : SaveOk(w) \/ SaveFails(w)
    BY <1>6 DEF SaveDirectly
  <2>3. memRec' = Store!After(memRec, <<w>>)
    <3>1. w \in Write /\ memRec \in [RecordFiles -> Table]
      BY <1>0, DirectAssumption DEF TypeOK
    <3> QED BY <1>0, <2>2, <3>1, SavePuts, AfterOne
  <2>4. Store!SaveOne
    BY <2>1, <2>3 DEF Store!SaveOne
  <2> QED BY <2>4 DEF Store!Next
<1>7. CASE Crash \/ Restart
  BY <1>0, <1>7 DEF Crash, Restart
<1> QED BY <1>1, <1>2, <1>3, <1>4, <1>5, <1>6, <1>7 DEF Next, InCall

\* Where the process does not die, the commit with its snapshots, rollbacks and
\* retries implements BundleStore: whatever an adapter rejects or a file system
\* refuses, in the rollback too, readers of memory see whole bundles or nothing.
THEOREM CommitsAreAtomic ==
    ASSUME "crash" \notin Faults
    PROVE  Spec => BundlesAreAtomic
<1>1. Init => Store!Init
  BY AtomicInit
<1>2. ProgressInv /\ ProgressInv' /\ [Next]_vars => [Store!Next]_(Store!vars)
  BY AtomicStep
<1> QED BY <1>1, <1>2, ProgressCorrect, PTL DEF Spec, BundlesAreAtomic, Store!Spec

\* A process that dies in the middle of a commit leaves on disk, unless a file
\* was behind memory already, what the commit found and a prefix of its writes.
THEOREM CrashLeavesAPrefix == Spec => CrashKeepsPrefix
<1>1. ASSUME ProgressInv, SyncedFilesReload, [Next]_vars,
             phase = "commit", phase' = "down", stale \cap RecordFiles = {}
      PROVE  \E k \in 0..Len(Program(call.bundle)) :
                [f \in RecordFiles |-> LoadTable(diskRec'[f])]
                   = Store!After(base.memRec, SubSeq(Program(call.bundle), 1, k))
  <2>1. Crash
    BY <1>1 DEF Next, InCall, BeginCommit, CommitUnavailable, TakeSnapshot, SnapshotFails,
       WriteNext, WriteLast, WriteRejected, WriteFails, Caught, RestoreMemory, RestoreFile,
       RestoreFails, RecordError, RecordRetry, RecordFailure, ReportFails, SaveDirectly,
       Restart, Done, Moved, Ended, vars, control
  <2>2. diskRec' = diskRec
    BY <1>1, <2>1 DEF Crash, Interrupted
  <2>3. \A f \in RecordFiles : LoadTable(diskRec'[f]) = memRec[f]
    BY <1>1, <2>2 DEF SyncedFilesReload
  <2>4. [f \in RecordFiles |-> LoadTable(diskRec'[f])] = memRec
    BY <1>1, <2>3 DEF ProgressInv, RollbackInv, TypeOK
  <2>5. memRec = Store!After(base.memRec, SubSeq(Program(call.bundle), 1, step - 1))
    BY <1>1 DEF ProgressInv, Prefix, Running
  <2>6. step - 1 \in 0..Len(Program(call.bundle))
    BY <1>1, ThisWriteType DEF ProgressInv, RollbackInv, TypeOK
  <2> QED BY <2>4, <2>5, <2>6
<1>2. ProgressInv /\ SyncedFilesReload /\ [Next]_vars =>
        [phase = "commit" /\ phase' = "down" /\ stale \cap RecordFiles = {} =>
          \E k \in 0..Len(Program(call.bundle)) :
             [f \in RecordFiles |-> LoadTable(diskRec'[f])] =
                Store!After(base.memRec, SubSeq(Program(call.bundle), 1, k))]_vars
  BY <1>1
<1> QED BY <1>2, ProgressCorrect, FilesStaySynced, PTL DEF Spec, CrashKeepsPrefix

-----------------------------------------------------------------------------
\* The last mentions of a file's records in ws are those of items: an earlier
\* write to the file is to a record that items mentions too.
CoversAt(ws, f, items, o) ==
    /\ o + Len(items) <= Len(ws)
    /\ \A k \in 1..Len(items) : ws[o + k] = Save(f, items[k])
    /\ \A j \in 1..Len(ws) : ws[j].file = f =>
          \/ \E k \in 1..Len(items) : j = o + k
          \/ j <= o /\ \E k \in 1..Len(items) : items[k].id = ws[j].id

Covers(ws, f, items) == \E o \in Nat : CoversAt(ws, f, items, o)

WritesOnly(ws, files) == \A j \in 1..Len(ws) : ws[j].file \in files

LEMMA CoversNone ==
    ASSUME NEW ws \in Seq(Write), NEW f, NEW files, WritesOnly(ws, files), f \notin files
    PROVE  Covers(ws, f, <<>>)
<1>1. CoversAt(ws, f, <<>>, 0)
  BY DEF CoversAt, WritesOnly
<1> QED BY <1>1 DEF Covers

LEMMA CoversAll ==
    ASSUME NEW f, NEW items \in Seq(Items), NEW ws \in Seq(Write), Len(ws) = Len(items),
           \A k \in 1..Len(items) : ws[k] = Save(f, items[k])
    PROVE  Covers(ws, f, items)
<1>1. CoversAt(ws, f, items, 0)
  BY DEF CoversAt
<1> QED BY <1>1 DEF Covers

\* What is written afterwards to other files does not matter.
LEMMA CoversThen ==
    ASSUME NEW ws \in Seq(Write), NEW f, NEW items \in Seq(Items), Covers(ws, f, items),
           NEW more \in Seq(Write), NEW files, WritesOnly(more, files), f \notin files
    PROVE  Covers(ws \o more, f, items)
<1>1. PICK o \in Nat : CoversAt(ws, f, items, o)
  BY DEF Covers
<1> DEFINE both == ws \o more
<1>2. /\ both \in Seq(Write) /\ Len(both) = Len(ws) + Len(more)
      /\ \A j \in 1..Len(ws) : both[j] = ws[j]
      /\ \A j \in 1..Len(both) : j \in 1..Len(ws) \/ \E k \in 1..Len(more) : both[j] = more[k]
  <2>1. \A j \in 1..Len(both) : j > Len(ws) => both[j] = more[j - Len(ws)] /\ j - Len(ws) \in 1..Len(more)
    OBVIOUS
  <2> QED BY <2>1
<1>3. Len(ws) \in Nat /\ Len(more) \in Nat /\ Len(items) \in Nat
  OBVIOUS
<1> HIDE DEF both
<1>4. o + Len(items) <= Len(both)
  BY <1>1, <1>2, <1>3 DEF CoversAt
<1>5. ASSUME NEW k \in 1..Len(items) PROVE both[o + k] = Save(f, items[k])
  <2>1. o + k \in 1..Len(ws)
    BY <1>1, <1>3 DEF CoversAt
  <2> QED BY <1>1, <1>2, <2>1 DEF CoversAt
<1>6. ASSUME NEW j \in 1..Len(both), both[j].file = f
      PROVE  \/ \E k \in 1..Len(items) : j = o + k
             \/ j <= o /\ \E k \in 1..Len(items) : items[k].id = both[j].id
  <2>1. j \in 1..Len(ws)
    BY <1>2, <1>6 DEF WritesOnly
  <2> QED BY <1>1, <1>2, <1>6, <2>1 DEF CoversAt
<1>7. CoversAt(both, f, items, o)
  BY <1>4, <1>5, <1>6 DEF CoversAt
<1> QED BY <1>7 DEF Covers, both

\* What was written before, to other files or to the same records, does not.
LEMMA CoversLater ==
    ASSUME NEW ws \in Seq(Write), NEW f, NEW items \in Seq(Items), Covers(ws, f, items),
           NEW more \in Seq(Write),
           \A j \in 1..Len(more) : more[j].file = f =>
              \E k \in 1..Len(items) : items[k].id = more[j].id
    PROVE  Covers(more \o ws, f, items)
<1>1. PICK o \in Nat : CoversAt(ws, f, items, o)
  BY DEF Covers
<1> DEFINE both == more \o ws
           p == Len(more) + o
<1>2. /\ both \in Seq(Write) /\ Len(both) = Len(more) + Len(ws)
      /\ \A j \in 1..Len(more) : both[j] = more[j]
      /\ \A j \in 1..Len(ws) : both[Len(more) + j] = ws[j]
      /\ Len(ws) \in Nat /\ Len(more) \in Nat /\ Len(items) \in Nat
  OBVIOUS
<1> HIDE DEF both
<1>3. p \in Nat /\ p + Len(items) <= Len(both)
  BY <1>1, <1>2 DEF CoversAt
<1>4. ASSUME NEW k \in 1..Len(items) PROVE both[p + k] = Save(f, items[k])
  <2>1. o + k \in 1..Len(ws) /\ p + k = Len(more) + (o + k)
    BY <1>1, <1>2 DEF CoversAt
  <2> QED BY <1>1, <1>2, <2>1 DEF CoversAt
<1>5. ASSUME NEW j \in 1..Len(both), both[j].file = f
      PROVE  \/ \E k \in 1..Len(items) : j = p + k
             \/ j <= p /\ \E k \in 1..Len(items) : items[k].id = both[j].id
  <2>1. CASE j \in 1..Len(more)
    <3>1. \E k \in 1..Len(items) : items[k].id = both[j].id
      BY <1>2, <1>5, <2>1
    <3>2. j <= p
      BY <1>2, <2>1
    <3> QED BY <3>1, <3>2
  <2>2. CASE j \notin 1..Len(more)
    <3> DEFINE i == j - Len(more)
    <3>1. i \in 1..Len(ws) /\ j = Len(more) + i /\ both[j] = ws[i]
      BY <1>2, <2>2
    <3>2. \/ \E k \in 1..Len(items) : i = o + k
          \/ i <= o /\ \E k \in 1..Len(items) : items[k].id = ws[i].id
      BY <1>1, <1>5, <3>1 DEF CoversAt
    <3>3. CASE \E k \in 1..Len(items) : i = o + k
      BY <1>2, <3>1, <3>3
    <3>4. CASE i <= o /\ \E k \in 1..Len(items) : items[k].id = ws[i].id
      <4>1. j <= p
        BY <1>2, <3>1, <3>4
      <4> QED BY <3>1, <3>4, <4>1
    <3> QED BY <3>2, <3>3, <3>4
  <2> QED BY <2>1, <2>2
<1>6. CoversAt(both, f, items, p)
  <2> HIDE DEF p
  <2> QED BY <1>3, <1>4, <1>5 DEF CoversAt
<1> QED BY <1>3, <1>6 DEF Covers, both

\* What covered writes leave in a table.
LEMMA AfterCovered ==
    ASSUME NEW t, NEW ws \in Seq(Write), NEW f \in RecordFiles, NEW items \in Seq(Items),
           Covers(ws, f, items), NEW i \in Ids
    PROVE  LET Mentions == {k \in 1..Len(items) : items[k].id = i}
           IN  IF Mentions = {} THEN Store!After(t, ws)[f][i] = t[f][i]
               ELSE \E k \in Mentions : /\ \A j \in Mentions : j <= k
                                        /\ Store!After(t, ws)[f][i] = items[k].content
<1>1. PICK o \in Nat : CoversAt(ws, f, items, o)
  BY DEF Covers
<1> DEFINE M == {k \in 1..Len(items) : items[k].id = i}
           W == Store!WritesTo(ws, f, i)
<1>2. Len(ws) \in Nat /\ Len(items) \in Nat
  OBVIOUS
<1>3. \A k \in M : o + k \in W /\ ws[o + k].value = items[k].content
  <2> SUFFICES ASSUME NEW k \in M PROVE o + k \in W /\ ws[o + k].value = items[k].content
    OBVIOUS
  <2>1. o + k \in 1..Len(ws) /\ ws[o + k] = Save(f, items[k])
    BY <1>1, <1>2 DEF CoversAt
  <2> QED BY <2>1 DEF Store!WritesTo, Save
<1>4. \A j \in W : (\E k \in M : j = o + k) \/ (j <= o /\ M # {})
  <2> SUFFICES ASSUME NEW j \in W PROVE (\E k \in M : j = o + k) \/ (j <= o /\ M # {})
    OBVIOUS
  <2>1. j \in 1..Len(ws) /\ ws[j].file = f /\ ws[j].id = i
    BY DEF Store!WritesTo
  <2>2. CASE \E k \in 1..Len(items) : j = o + k
    <3>1. PICK k \in 1..Len(items) : j = o + k
      BY <2>2
    <3>2. items[k].id = i
      <4>1. ws[j] = Save(f, items[k])
        BY <1>1, <3>1 DEF CoversAt
      <4> QED BY <2>1, <4>1 DEF Save
    <3> QED BY <3>1, <3>2
  <2>3. CASE j <= o /\ \E k \in 1..Len(items) : items[k].id = ws[j].id
    BY <2>1, <2>3
  <2> QED BY <1>1, <2>1, <2>2, <2>3 DEF CoversAt
<1>5. CASE M = {}
  <2>1. W = {}
    BY <1>4, <1>5
  <2> QED BY <1>5, <2>1 DEF Store!After
<1>6. CASE M # {}
  <2>1. PICK m \in M : \A k \in M : k <= m
    <3>1. M \in SUBSET (1..Len(items))
      OBVIOUS
    <3> HIDE DEF M
    <3> QED BY <1>2, <1>6, <3>1, GreatestOf
  <2>2. m \in Nat /\ W \subseteq Nat /\ M \subseteq Nat
    BY <1>2 DEF Store!WritesTo
  <2>3. o + m \in W /\ \A j \in W : j <= o + m
    <3>1. o + m \in W
      BY <1>3, <2>1
    <3>2. ASSUME NEW j \in W PROVE j <= o + m
      <4>1. CASE \E k \in M : j = o + k
        <5>1. PICK k \in M : j = o + k
          BY <4>1
        <5>2. k <= m /\ k \in Nat
          BY <2>1, <2>2
        <5> QED BY <2>2, <5>1, <5>2
      <4>2. CASE j <= o
        BY <2>2, <4>2
      <4> QED BY <1>4, <4>1, <4>2
    <3> QED BY <3>1, <3>2
  <2>4. (CHOOSE k \in W : \A j \in W : j <= k) = o + m
    <3>1. \A k \in W : (\A j \in W : j <= k) => k = o + m
      BY <2>2, <2>3
    <3> HIDE DEF W
    <3> QED BY <2>3, <3>1
  <2>5. Store!After(t, ws)[f][i] = ws[o + m].value
    <3>1. W # {}
      BY <2>3
    <3> QED BY <2>4, <3>1 DEF Store!After
  <2>6. Store!After(t, ws)[f][i] = items[m].content
    BY <1>3, <2>5
  <2> HIDE DEF M
  <2>7. \E k \in M : /\ \A j \in M : j <= k
                     /\ Store!After(t, ws)[f][i] = items[k].content
    BY <2>1, <2>6
  <2> QED BY <1>6, <2>7 DEF M
<1> QED BY <1>5, <1>6

\* Sequences that write to some files, one after the other.
LEMMA OnlyJoined ==
    ASSUME NEW u \in Seq(Write), NEW v \in Seq(Write), NEW A, NEW B,
           WritesOnly(u, A), WritesOnly(v, B)
    PROVE  WritesOnly(u \o v, A \cup B)
<1> DEFINE both == u \o v
<1>1. \A j \in 1..Len(both) : (\E k \in 1..Len(u) : both[j] = u[k]) \/ (\E k \in 1..Len(v) : both[j] = v[k])
  <2>1. \A j \in 1..Len(both) :
          \/ j \in 1..Len(u) /\ both[j] = u[j]
          \/ j - Len(u) \in 1..Len(v) /\ both[j] = v[j - Len(u)]
    OBVIOUS
  <2> QED BY <2>1
<1> HIDE DEF both
<1>2. WritesOnly(both, A \cup B)
  BY <1>1 DEF WritesOnly
<1> QED BY <1>2 DEF both

\* A save of a list of records, or of none, writes to one file.
LEMMA SavesOnly ==
    ASSUME NEW f \in RecordFiles
    PROVE  /\ \A items \in Seq(Items) : /\ SaveAll(f, items) \in Seq(Write)
                                        /\ WritesOnly(SaveAll(f, items), {f})
                                        /\ Covers(SaveAll(f, items), f, items)
           /\ \A item \in Items \cup {NoRecord} :
                 /\ Optional(f, item) \in Seq(Write)
                 /\ WritesOnly(Optional(f, item), {f})
                 /\ Covers(Optional(f, item), f, IF item = NoRecord THEN <<>> ELSE <<item>>)
<1>1. \A item \in Items : Save(f, item) \in Write /\ Save(f, item).file = f
  BY DEF Save, Write, Items
<1>2. ASSUME NEW items \in Seq(Items)
      PROVE  /\ SaveAll(f, items) \in Seq(Write)
             /\ WritesOnly(SaveAll(f, items), {f})
             /\ Covers(SaveAll(f, items), f, items)
  <2> DEFINE ws == SaveAll(f, items)
  <2>1. /\ ws \in Seq(Write) /\ Len(ws) = Len(items)
        /\ \A k \in 1..Len(items) : ws[k] = Save(f, items[k])
    BY <1>1 DEF SaveAll
  <2>2. \A k \in 1..Len(items) : items[k] \in Items
    OBVIOUS
  <2> HIDE DEF ws
  <2>3. WritesOnly(ws, {f})
    BY <1>1, <2>1, <2>2 DEF WritesOnly
  <2>4. Covers(ws, f, items)
    BY <2>1, CoversAll
  <2> QED BY <2>1, <2>3, <2>4 DEF ws
<1>3. ASSUME NEW item \in Items
      PROVE  /\ <<Save(f, item)>> \in Seq(Write)
             /\ WritesOnly(<<Save(f, item)>>, {f})
             /\ Covers(<<Save(f, item)>>, f, <<item>>)
  <2> DEFINE ws == <<Save(f, item)>>
             items == <<item>>
  <2>1. /\ items \in Seq(Items) /\ ws \in Seq(Write) /\ Len(ws) = 1 /\ Len(items) = 1
        /\ ws[1] = Save(f, item) /\ items[1] = item
    BY <1>1
  <2> HIDE DEF ws, items
  <2>2. WritesOnly(ws, {f})
    BY <1>1, <2>1 DEF WritesOnly
  <2>3. Covers(ws, f, items)
    BY <2>1, CoversAll
  <2> QED BY <2>1, <2>2, <2>3 DEF ws, items
<1>4. /\ <<>> \in Seq(Write) /\ WritesOnly(<<>>, {f}) /\ Covers(<<>>, f, <<>>)
  <2>1. <<>> \in Seq(Write) /\ WritesOnly(<<>>, {f}) /\ WritesOnly(<<>>, {})
    BY DEF WritesOnly
  <2> QED BY <2>1, CoversNone
<1>5. NoRecord \notin Items
  BY MarkersAssumption
<1> QED BY <1>2, <1>3, <1>4, <1>5 DEF Optional

\* Rows, and the log of an operation, go to the streams.
LEMMA RowsOnly ==
    /\ \A s \in Streams, rows \in Seq(Row) : /\ AddAll(s, rows) \in Seq(Write)
                                             /\ WritesOnly(AddAll(s, rows), {s})
    /\ <<Log>> \in Seq(Write) /\ WritesOnly(<<Log>>, {"logs"})
<1>1. ASSUME NEW s \in Streams, NEW rows \in Seq(Row)
      PROVE  AddAll(s, rows) \in Seq(Write) /\ WritesOnly(AddAll(s, rows), {s})
  <2> DEFINE ws == AddAll(s, rows)
  <2>1. /\ ws \in Seq(Write) /\ Len(ws) = Len(rows)
        /\ \A k \in 1..Len(rows) : ws[k].file = s
    BY DEF AddAll, Write
  <2> HIDE DEF ws
  <2>2. WritesOnly(ws, {s})
    BY <2>1 DEF WritesOnly
  <2> QED BY <2>1, <2>2 DEF ws
<1>2. <<Log>> \in Seq(Write) /\ WritesOnly(<<Log>>, {"logs"})
  BY HandlerWriteType DEF WritesOnly, Log
<1> QED BY <1>1, <1>2

\* A sequence of two is two sequences of one.
LEMMA PairJoined ==
    ASSUME NEW v \in Write, NEW w \in Write
    PROVE  <<v, w>> = <<v>> \o <<w>>
<1> DEFINE p == <<v, w>> 
           q == <<v>> \o <<w>>
<1>1. p \in Seq(Write) /\ Len(p) = 2 /\ p[1] = v /\ p[2] = w
  OBVIOUS
<1>2. q \in Seq(Write) /\ Len(q) = 2 /\ q[1] = v /\ q[2] = w
  OBVIOUS
<1>3. p = [k \in 1..2 |-> p[k]] /\ q = [k \in 1..2 |-> q[k]]
  <2> HIDE DEF p, q
  <2> QED BY <1>1, <1>2
<1>4. \A k \in 1..2 : p[k] = q[k]
  <2> HIDE DEF p, q
  <2> QED BY <1>1, <1>2
<1> HIDE DEF p, q
<1>5. p = q
  BY <1>3, <1>4
<1> QED BY <1>5 DEF p, q

\* The files each part of a program writes to, and what it covers of them.
LEMMA RawPart ==
    ASSUME NEW b \in Bundles
    PROVE  /\ WritesOnly(RawWrites(b), {"raw_artifacts", "logs"})
           /\ Covers(RawWrites(b), "raw_artifacts", BundleItems(b, "raw_artifacts"))
<1>1. b.raw \in Items \cup {NoRecord} /\ "raw_artifacts" \in RecordFiles
  BY PartTypes DEF BundleType, RecordFiles
<1> DEFINE f == "raw_artifacts"
           saved == Optional(f, b.raw)
           items == IF b.raw = NoRecord THEN <<>> ELSE <<b.raw>>
<1>2. saved \in Seq(Write) /\ WritesOnly(saved, {f}) /\ Covers(saved, f, items)
  BY <1>1, SavesOnly
<1>3. <<Log>> \in Seq(Write) /\ WritesOnly(<<Log>>, {"logs"})
  BY RowsOnly
<1>4. RawWrites(b) = IF b.raw = NoRecord THEN saved ELSE saved \o <<Log>>
  <2>1. b.raw # NoRecord => Save(f, b.raw) \in Write /\ Log \in Write
    BY <1>1, PartTypes DEF Save, Write, Items
  <2>2. b.raw # NoRecord => <<Save(f, b.raw), Log>> = <<Save(f, b.raw)>> \o <<Log>>
    BY <2>1, PairJoined
  <2> QED BY <2>2 DEF RawWrites, Optional
<1>5. BundleItems(b, f) = items /\ items \in Seq(Items) /\ f \notin {"logs"}
  BY <1>1 DEF BundleItems
<1> HIDE DEF saved, f, items
<1>6. Covers(saved \o <<Log>>, f, items)
  BY <1>2, <1>3, <1>5, CoversThen
<1>7. WritesOnly(saved \o <<Log>>, {f} \cup {"logs"})
  BY <1>2, <1>3, OnlyJoined
<1>8. WritesOnly(RawWrites(b), {f, "logs"})
  BY <1>2, <1>4, <1>7 DEF WritesOnly
<1> QED BY <1>2, <1>4, <1>5, <1>6, <1>8 DEF f

\* The types of what a bundle holds for each file.
LEMMA ItemsType ==
    ASSUME NEW b \in Bundles, NEW f \in RecordFiles
    PROVE  BundleItems(b, f) \in Seq(Items)
<1>1. b \in BundleType
  BY PartTypes
<1>2. \A item \in Items : Linked(item) \in Items
  BY DEF Linked, Items, Contents
<1>3. f = "chunks" => BundleItems(b, f) \in Seq(Items)
  BY <1>1, <1>2 DEF BundleItems, BundleType
<1>4. f # "chunks" => BundleItems(b, f) \in Seq(Items)
  <2>1. /\ b.raw \in Items \cup {NoRecord} /\ b.source \in Items \cup {NoRecord}
        /\ b.document \in Items \cup {NoRecord} /\ b.job \in Items \cup {NoRecord}
        /\ b.entities \in Seq(Items) /\ b.relations \in Seq(Items)
    BY <1>1 DEF BundleType
  <2> QED BY <2>1 DEF BundleItems, RecordFiles
<1> QED BY <1>3, <1>4

LEMMA DocumentPart ==
    ASSUME NEW b \in Bundles
    PROVE  /\ WritesOnly(DocumentWrites(b), {"sources", "documents", "logs"})
           /\ Covers(DocumentWrites(b), "sources", BundleItems(b, "sources"))
           /\ Covers(DocumentWrites(b), "documents", BundleItems(b, "documents"))
<1>1. b.source \in Items \cup {NoRecord} /\ b.document \in Items \cup {NoRecord}
  BY PartTypes DEF BundleType
<1> DEFINE source == Optional("sources", b.source)
           document == Optional("documents", b.document)
           rest == document \o <<Log>>
           sources == IF b.source = NoRecord THEN <<>> ELSE <<b.source>>
           documents == IF b.document = NoRecord THEN <<>> ELSE <<b.document>>
<1>2. /\ source \in Seq(Write) /\ WritesOnly(source, {"sources"})
      /\ Covers(source, "sources", sources)
      /\ document \in Seq(Write) /\ WritesOnly(document, {"documents"})
      /\ Covers(document, "documents", documents)
  BY <1>1, SavesOnly DEF RecordFiles
<1>3. <<Log>> \in Seq(Write) /\ WritesOnly(<<Log>>, {"logs"})
  BY RowsOnly
<1>4. sources \in Seq(Items) /\ documents \in Seq(Items)
  BY <1>1
<1>5. CASE b.document = NoRecord
  <2>1. /\ DocumentWrites(b) = <<>> /\ BundleItems(b, "sources") = <<>>
        /\ BundleItems(b, "documents") = <<>>
    BY <1>5 DEF DocumentWrites, BundleItems
  <2>2. <<>> \in Seq(Write) /\ WritesOnly(<<>>, {})
    BY DEF WritesOnly
  <2>3. WritesOnly(<<>>, {"sources", "documents", "logs"})
    BY DEF WritesOnly
  <2> QED BY <2>1, <2>2, <2>3, CoversNone
<1>6. CASE b.document # NoRecord
  <2>1. DocumentWrites(b) = source \o rest
    <3>1. Save("documents", b.document) \in Write /\ Log \in Write
      BY <1>1, <1>6, PartTypes DEF Save, Write, Items, RecordFiles
    <3>2. <<Save("documents", b.document), Log>> = <<Save("documents", b.document)>> \o <<Log>>
      BY <3>1, PairJoined
    <3> QED BY <1>6, <3>2 DEF DocumentWrites, Optional
  <2>2. BundleItems(b, "sources") = sources /\ BundleItems(b, "documents") = documents
    BY <1>6 DEF BundleItems
  <2> HIDE DEF source, document, sources, documents
  <2>3. rest \in Seq(Write) /\ Covers(rest, "documents", documents)
    <3>1. "documents" \notin {"logs"} /\ rest \in Seq(Write)
      BY <1>2, <1>3
    <3> QED BY <1>2, <1>3, <1>4, <3>1, CoversThen
  <2>4. WritesOnly(rest, {"documents"} \cup {"logs"})
    BY <1>2, <1>3, OnlyJoined
  <2> HIDE DEF rest
  <2>5. Covers(source \o rest, "sources", sources)
    BY <1>2, <1>4, <2>3, <2>4, CoversThen
  <2>6. Covers(source \o rest, "documents", documents)
    <3>1. \A j \in 1..Len(source) : source[j].file # "documents"
      BY <1>2 DEF WritesOnly
    <3> QED BY <1>2, <1>4, <2>3, <3>1, CoversLater
  <2>7. WritesOnly(source \o rest, {"sources"} \cup ({"documents"} \cup {"logs"}))
    BY <1>2, <2>3, <2>4, OnlyJoined
  <2>8. WritesOnly(source \o rest, {"sources", "documents", "logs"})
    BY <2>7 DEF WritesOnly
  <2> QED BY <2>1, <2>2, <2>5, <2>6, <2>8
<1> QED BY <1>5, <1>6

\* The chunks are saved without their graph flags first.
LEMMA ChunkPart ==
    ASSUME NEW b \in Bundles
    PROVE  /\ WritesOnly(ChunkWrites(b), {"chunks", "logs"})
           /\ ~b.enrich => Covers(ChunkWrites(b), "chunks", BundleItems(b, "chunks"))
           /\ \A j \in 1..Len(ChunkWrites(b)) : ChunkWrites(b)[j].file = "chunks" =>
                 \E k \in 1..Len(BundleItems(b, "chunks")) :
                    BundleItems(b, "chunks")[k].id = ChunkWrites(b)[j].id
<1> DEFINE saved == SaveAll("chunks", b.chunks)
           items == BundleItems(b, "chunks")
<1>1. b.chunks \in Seq(Items) /\ items \in Seq(Items) /\ Len(items) = Len(b.chunks)
  <2>1. b.chunks \in Seq(Items) /\ "chunks" \in RecordFiles
    BY PartTypes DEF BundleType, RecordFiles
  <2>2. items = [k \in 1..Len(b.chunks) |-> IF b.enrich THEN Linked(b.chunks[k]) ELSE b.chunks[k]]
    BY DEF BundleItems
  <2> QED BY <2>1, <2>2, ItemsType
<1>2. /\ saved \in Seq(Write) /\ WritesOnly(saved, {"chunks"})
      /\ Covers(saved, "chunks", b.chunks)
  BY <1>1, SavesOnly DEF RecordFiles
<1>3. <<Log>> \in Seq(Write) /\ WritesOnly(<<Log>>, {"logs"}) /\ Log.file # "chunks"
  BY RowsOnly DEF Log
<1>4. /\ ~b.enrich => items = b.chunks
      /\ \A k \in 1..Len(b.chunks) : items[k].id = b.chunks[k].id
  <2>1. items = [k \in 1..Len(b.chunks) |-> IF b.enrich THEN Linked(b.chunks[k]) ELSE b.chunks[k]]
    BY DEF BundleItems
  <2>2. \A k \in 1..Len(b.chunks) : b.chunks[k] \in Items /\ Linked(b.chunks[k]).id = b.chunks[k].id
    <3>1. \A item \in Items : Linked(item).id = item.id
      BY DEF Linked, Items
    <3> QED BY <1>1, <3>1
  <2>3. ~b.enrich => items = b.chunks
    BY <1>1, <2>1
  <2> QED BY <2>1, <2>2, <2>3
<1>5. CASE b.chunks = <<>>
  <2>1. /\ ChunkWrites(b) = <<>> /\ Len(ChunkWrites(b)) = 0 /\ <<>> \in Seq(Write)
        /\ Len(items) = 0 /\ Len(<<>>) = 0
    BY <1>1, <1>5 DEF ChunkWrites
  <2> HIDE DEF items
  <2>2. Covers(<<>>, "chunks", items)
    <3> DEFINE none == <<>>
    <3>1. /\ none \in Seq(Write) /\ Len(none) = Len(items)
          /\ \A k \in 1..Len(items) : none[k] = Save("chunks", items[k])
      BY <2>1
    <3> HIDE DEF none
    <3>2. Covers(none, "chunks", items)
      BY <1>1, <3>1, CoversAll
    <3> QED BY <3>2 DEF none
  <2>3. WritesOnly(ChunkWrites(b), {"chunks", "logs"})
    BY <2>1 DEF WritesOnly
  <2> QED BY <2>1, <2>2, <2>3 DEF items
<1>6. CASE b.chunks # <<>>
  <2>1. ChunkWrites(b) = saved \o <<Log>>
    <3>1. ChunkWrites(b) = Append(saved, Log) /\ Log \in Write
      BY <1>6, PartTypes DEF ChunkWrites
    <3>2. Append(saved, Log) = saved \o <<Log>>
      BY <1>2, <3>1
    <3> QED BY <3>1, <3>2
  <2> DEFINE both == saved \o <<Log>>
  <2>2. \A j \in 1..Len(both) : both[j] = Log \/ \E k \in 1..Len(b.chunks) : both[j] = Save("chunks", b.chunks[k])
    <3>1. Len(saved) = Len(b.chunks) /\ \A k \in 1..Len(b.chunks) : saved[k] = Save("chunks", b.chunks[k])
      BY <1>1 DEF SaveAll
    <3>2. \A j \in 1..Len(both) : (j \in 1..Len(saved) /\ both[j] = saved[j]) \/ both[j] = Log
      <4> HIDE DEF saved
      <4> QED BY <1>2
    <3> QED BY <3>1, <3>2
  <2>3. \A j \in 1..Len(both) : both[j].file = "chunks" =>
           \E k \in 1..Len(items) : items[k].id = both[j].id
    <3> HIDE DEF both, items
    <3>1. SUFFICES ASSUME NEW j \in 1..Len(both), both[j].file = "chunks"
                   PROVE  \E k \in 1..Len(items) : items[k].id = both[j].id
      OBVIOUS
    <3>2. PICK k \in 1..Len(b.chunks) : both[j] = Save("chunks", b.chunks[k])
      BY <1>3, <2>2, <3>1
    <3>3. both[j].id = b.chunks[k].id
      BY <3>2 DEF Save
    <3>4. k \in 1..Len(items) /\ items[k].id = both[j].id
      BY <1>1, <1>4, <3>3
    <3> QED BY <3>4
  <2> HIDE DEF saved, items
  <2>4. Covers(both, "chunks", b.chunks)
    BY <1>1, <1>2, <1>3, CoversThen
  <2>5. WritesOnly(both, {"chunks"} \cup {"logs"})
    BY <1>2, <1>3, OnlyJoined
  <2>6. WritesOnly(both, {"chunks", "logs"})
    BY <2>5 DEF WritesOnly
  <2>7. ~b.enrich => Covers(both, "chunks", items)
    BY <1>4, <2>4
  <2> QED BY <2>1, <2>3, <2>6, <2>7 DEF items
<1> QED BY <1>5, <1>6

\* A record list between writes to the same records and writes to other files.
LEMMA CoversInside ==
    ASSUME NEW f, NEW items \in Seq(Items), NEW part \in Seq(Write), Covers(part, f, items),
           NEW before \in Seq(Write), NEW beforeFiles, WritesOnly(before, beforeFiles),
           f \notin beforeFiles,
           NEW rest \in Seq(Write), NEW files, WritesOnly(rest, files), f \notin files
    PROVE  /\ Covers(before \o part, f, items)
           /\ Covers((before \o part) \o rest, f, items)
<1>1. \A j \in 1..Len(before) : before[j].file # f
  BY DEF WritesOnly
<1>2. Covers(before \o part, f, items)
  BY <1>1, CoversLater
<1>3. before \o part \in Seq(Write)
  OBVIOUS
<1> QED BY <1>2, <1>3, CoversThen

\* The graph's records, and the chunks once more, linked.
LEMMA GraphPart ==
    ASSUME NEW b \in Bundles
    PROVE  /\ WritesOnly(GraphWrites(b), IF b.enrich THEN {"entities", "relations", "chunks", "logs"} ELSE {})
           /\ Covers(GraphWrites(b), "entities", BundleItems(b, "entities"))
           /\ Covers(GraphWrites(b), "relations", BundleItems(b, "relations"))
           /\ b.enrich => Covers(GraphWrites(b), "chunks", BundleItems(b, "chunks"))
<1> DEFINE E == SaveAll("entities", b.entities)
           R == SaveAll("relations", b.relations)
           items == BundleItems(b, "chunks")
           C == [k \in 1..Len(b.chunks) |-> Save("chunks", Linked(b.chunks[k]))]
           L == <<Log>>
<1>1. /\ b.chunks \in Seq(Items) /\ b.entities \in Seq(Items) /\ b.relations \in Seq(Items)
      /\ b.enrich \in BOOLEAN
      /\ \A f \in RecordFiles : BundleItems(b, f) \in Seq(Items)
  BY PartTypes, ItemsType DEF BundleType
<1>2. /\ E \in Seq(Write) /\ WritesOnly(E, {"entities"}) /\ Covers(E, "entities", b.entities)
      /\ R \in Seq(Write) /\ WritesOnly(R, {"relations"}) /\ Covers(R, "relations", b.relations)
  BY <1>1, SavesOnly DEF RecordFiles
<1>3. L \in Seq(Write) /\ WritesOnly(L, {"logs"})
  BY RowsOnly
<1>4. CASE b.chunks # <<>> /\ b.enrich
  <2>1. /\ BundleItems(b, "entities") = b.entities /\ BundleItems(b, "relations") = b.relations
        /\ items = [k \in 1..Len(b.chunks) |-> Linked(b.chunks[k])]
    BY <1>4 DEF BundleItems
  <2>2. \A item \in Items : Linked(item) \in Items
    BY DEF Linked, Items, Contents
  <2>3. /\ items \in Seq(Items) /\ Len(items) = Len(b.chunks)
        /\ \A k \in 1..Len(items) : items[k] = Linked(b.chunks[k])
    BY <1>1, <2>1, <2>2
  <2>4. C = SaveAll("chunks", items)
    BY <2>3 DEF SaveAll
  <2>5. C \in Seq(Write) /\ WritesOnly(C, {"chunks"}) /\ Covers(C, "chunks", items)
    <3> HIDE DEF C, items
    <3> QED BY <2>3, <2>4, SavesOnly DEF RecordFiles
  <2>6. GraphWrites(b) = (((L \o E) \o R) \o C) \o L
    BY <1>4 DEF GraphWrites
  <2> HIDE DEF E, R, C, L, items
  <2>7. /\ L \o E \in Seq(Write) /\ WritesOnly(L \o E, {"logs"} \cup {"entities"})
        /\ Covers(L \o E, "entities", b.entities) /\ Covers((L \o E) \o R, "entities", b.entities)
    <3>1. "entities" \notin {"logs"} /\ "entities" \notin {"relations"}
      OBVIOUS
    <3>2. L \o E \in Seq(Write)
      BY <1>2, <1>3
    <3>3. WritesOnly(L \o E, {"logs"} \cup {"entities"})
      BY <1>2, <1>3, OnlyJoined
    <3>4. Covers(L \o E, "entities", b.entities) /\ Covers((L \o E) \o R, "entities", b.entities)
      BY <1>1, <1>2, <1>3, <3>1, CoversInside
    <3> QED BY <3>2, <3>3, <3>4
  <2> DEFINE LE == L \o E
             LER == LE \o R
             LERC == LER \o C
  <2> HIDE DEF LE
  <2>8. /\ LER \in Seq(Write) /\ WritesOnly(LER, {"logs"} \cup {"entities"} \cup {"relations"})
        /\ Covers(LER, "entities", b.entities)
        /\ Covers(LER, "relations", b.relations)
    <3>1. LER \in Seq(Write) /\ WritesOnly(LER, {"logs"} \cup {"entities"} \cup {"relations"})
      <4>1. LE \in Seq(Write) /\ WritesOnly(LE, {"logs"} \cup {"entities"})
        BY <2>7 DEF LE
      <4>2. LER \in Seq(Write)
        BY <1>2, <4>1
      <4> QED BY <1>2, <4>1, <4>2, OnlyJoined
    <3>2. "relations" \notin {"logs"} \cup {"entities"} /\ "relations" \notin {"logs"}
      OBVIOUS
    <3>3. Covers(LER, "relations", b.relations)
      <4> HIDE DEF LER
      <4>1. LE \in Seq(Write) /\ WritesOnly(LE, {"logs"} \cup {"entities"})
        BY <2>7 DEF LE
      <4> QED BY <1>1, <1>2, <1>3, <3>2, <4>1, CoversInside DEF LER
    <3> QED BY <2>7, <3>1, <3>3 DEF LE
  <2> HIDE DEF LER
  <2>9. /\ LERC \in Seq(Write)
        /\ WritesOnly(LERC, {"logs"} \cup {"entities"} \cup {"relations"} \cup {"chunks"})
        /\ Covers(LERC, "entities", b.entities)
        /\ Covers(LERC, "relations", b.relations)
        /\ Covers(LERC \o L, "chunks", items)
    <3>1. LERC \in Seq(Write)
             /\ WritesOnly(LERC, {"logs"} \cup {"entities"} \cup {"relations"} \cup {"chunks"})
      BY <2>5, <2>8, OnlyJoined
    <3>2. "entities" \notin {"chunks"} /\ "relations" \notin {"chunks"} /\ "chunks" \notin {"logs"}
             /\ "chunks" \notin {"logs"} \cup {"entities"} \cup {"relations"}
      OBVIOUS
    <3>3. Covers(LERC, "entities", b.entities) /\ Covers(LERC, "relations", b.relations)
      BY <1>1, <2>5, <2>8, <3>2, CoversThen
    <3>4. Covers(LERC \o L, "chunks", items)
      BY <1>3, <2>3, <2>5, <2>8, <3>2, CoversInside
    <3> QED BY <3>1, <3>3, <3>4
  <2> HIDE DEF LERC
  <2>10. "entities" \notin {"logs"} /\ "relations" \notin {"logs"}
    OBVIOUS
  <2>11. Covers(LERC \o L, "entities", b.entities) /\ Covers(LERC \o L, "relations", b.relations)
    BY <1>1, <1>3, <2>9, <2>10, CoversThen
  <2>12. WritesOnly(LERC \o L, ({"logs"} \cup {"entities"} \cup {"relations"} \cup {"chunks"}) \cup {"logs"})
    BY <1>3, <2>9, OnlyJoined
  <2>13. WritesOnly(LERC \o L, {"entities", "relations", "chunks", "logs"})
    BY <2>12 DEF WritesOnly
  <2> QED BY <1>4, <2>1, <2>6, <2>9, <2>11, <2>13 DEF LERC, LER, LE, items
<1>5. CASE ~ (b.chunks # <<>> /\ b.enrich)
  <2>1. GraphWrites(b) = <<>>
    BY <1>5 DEF GraphWrites
  <2>2. BundleItems(b, "entities") = <<>> /\ BundleItems(b, "relations") = <<>>
    BY <1>5 DEF BundleItems
  <2>3. <<>> \in Seq(Write) /\ WritesOnly(<<>>, {})
           /\ WritesOnly(<<>>, {"entities", "relations", "chunks", "logs"})
    BY DEF WritesOnly
  <2>4. Covers(<<>>, "entities", <<>>) /\ Covers(<<>>, "relations", <<>>)
    BY <2>3, CoversNone
  <2>5. b.enrich => Covers(<<>>, "chunks", items)
    <3> DEFINE none == <<>>
    <3>1. SUFFICES ASSUME b.enrich PROVE Covers(none, "chunks", items)
      OBVIOUS
    <3>2. items \in Seq(Items) /\ Len(items) = 0
      BY <1>1, <1>5, <3>1 DEF BundleItems, RecordFiles
    <3>3. /\ none \in Seq(Write) /\ Len(none) = Len(items)
          /\ \A k \in 1..Len(items) : none[k] = Save("chunks", items[k])
      BY <3>2
    <3> HIDE DEF none, items
    <3> QED BY <3>2, <3>3, CoversAll
  <2> QED BY <2>1, <2>2, <2>3, <2>4, <2>5
<1> QED BY <1>4, <1>5

\* The error lines of ws are its n writes after o; its rows hold those of rows.
ErrorsAt(ws, o, n) ==
    /\ o + n <= Len(ws)
    /\ \A j \in 1..Len(ws) : ws[j].file = "errors" <=> j \in (o + 1)..(o + n)
HasErrors(ws, n) == \E o \in Nat : ErrorsAt(ws, o, n)
Adds(ws, s, rows) ==
    \A k \in 1..Len(rows) : \E j \in 1..Len(ws) : ws[j].file = s /\ ws[j].value = rows[k]

\* Both stay so when other writes come before or after.
LEMMA ErrorsInside ==
    ASSUME NEW n \in Nat, NEW part \in Seq(Write), HasErrors(part, n),
           NEW other \in Seq(Write), NEW files, WritesOnly(other, files), "errors" \notin files
    PROVE  HasErrors(part \o other, n) /\ HasErrors(other \o part, n)
<1>1. PICK o \in Nat : ErrorsAt(part, o, n)
  BY DEF HasErrors
<1>2. Len(part) \in Nat /\ Len(other) \in Nat
  OBVIOUS
<1>3. HasErrors(part \o other, n)
  <2> DEFINE both == part \o other
  <2>1. /\ Len(both) = Len(part) + Len(other)
        /\ \A j \in 1..Len(both) : \/ j \in 1..Len(part) /\ both[j] = part[j]
                                   \/ j > Len(part) /\ \E k \in 1..Len(other) : both[j] = other[k]
    <3>1. \A j \in 1..Len(both) : j > Len(part) => both[j] = other[j - Len(part)] /\ j - Len(part) \in 1..Len(other)
      OBVIOUS
    <3> QED BY <3>1
  <2> HIDE DEF both
  <2>2. ErrorsAt(both, o, n)
    BY <1>1, <1>2, <2>1 DEF ErrorsAt, WritesOnly
  <2> QED BY <2>2 DEF HasErrors, both
<1>4. HasErrors(other \o part, n)
  <2> DEFINE both == other \o part
             p == Len(other) + o
  <2>1. /\ Len(both) = Len(part) + Len(other)
        /\ \A j \in 1..Len(both) :
              \/ j \in 1..Len(other) /\ both[j] = other[j]
              \/ j - Len(other) \in 1..Len(part) /\ both[j] = part[j - Len(other)]
    OBVIOUS
  <2> HIDE DEF both
  <2>2. p \in Nat /\ p + n <= Len(both)
    BY <1>1, <1>2, <2>1 DEF ErrorsAt
  <2>3. ASSUME NEW j \in 1..Len(both) PROVE both[j].file = "errors" <=> j \in (p + 1)..(p + n)
    <3>1. CASE j \in 1..Len(other) /\ both[j] = other[j]
      BY <1>1, <1>2, <3>1 DEF WritesOnly
    <3>2. CASE j - Len(other) \in 1..Len(part) /\ both[j] = part[j - Len(other)]
      <4>1. both[j].file = "errors" <=> j - Len(other) \in (o + 1)..(o + n)
        BY <1>1, <3>2 DEF ErrorsAt
      <4>2. j - Len(other) \in (o + 1)..(o + n) <=> j \in (p + 1)..(p + n)
        BY <1>1, <1>2, <2>1
      <4> QED BY <4>1, <4>2
    <3> QED BY <2>1, <3>1, <3>2
  <2>4. ErrorsAt(both, p, n)
    BY <2>2, <2>3 DEF ErrorsAt
  <2> QED BY <2>2, <2>4 DEF HasErrors, both
<1> QED BY <1>3, <1>4

LEMMA AddsInside ==
    ASSUME NEW s, NEW rows, NEW part \in Seq(Write), Adds(part, s, rows),
           NEW other \in Seq(Write)
    PROVE  Adds(part \o other, s, rows) /\ Adds(other \o part, s, rows)
<1>1. \A j \in 1..Len(part) : j \in 1..Len(part \o other) /\ (part \o other)[j] = part[j]
  OBVIOUS
<1>2. \A j \in 1..Len(part) : Len(other) + j \in 1..Len(other \o part)
                              /\ (other \o part)[Len(other) + j] = part[j]
  OBVIOUS
<1> QED BY <1>1, <1>2 DEF Adds

\* The job and the rows a caller passes.
LEMMA IngestionPart ==
    ASSUME NEW b \in Bundles
    PROVE  /\ WritesOnly(IngestionWrites(b), {"ingestion_jobs", "logs", "errors"})
           /\ Covers(IngestionWrites(b), "ingestion_jobs", BundleItems(b, "ingestion_jobs"))
           /\ HasErrors(IngestionWrites(b), Len(b.errors))
           /\ Adds(IngestionWrites(b), "logs", b.logs)
           /\ Adds(IngestionWrites(b), "errors", b.errors)
<1>1. b.job \in Items \cup {NoRecord} /\ b.logs \in Seq(Row) /\ b.errors \in Seq(Row)
  BY PartTypes DEF BundleType
<1> DEFINE job == Optional("ingestion_jobs", b.job)
           items == IF b.job = NoRecord THEN <<>> ELSE <<b.job>>
           logs == AddAll("logs", b.logs)
           errors == AddAll("errors", b.errors)
<1>2. /\ job \in Seq(Write) /\ WritesOnly(job, {"ingestion_jobs"})
      /\ Covers(job, "ingestion_jobs", items) /\ items \in Seq(Items)
  BY <1>1, SavesOnly DEF RecordFiles
<1>3. /\ logs \in Seq(Write) /\ WritesOnly(logs, {"logs"})
      /\ errors \in Seq(Write) /\ WritesOnly(errors, {"errors"})
  BY <1>1, RowsOnly DEF Streams
<1>4. /\ Len(logs) = Len(b.logs) /\ Len(errors) = Len(b.errors)
      /\ \A k \in 1..Len(b.logs) : logs[k].file = "logs" /\ logs[k].value = b.logs[k]
      /\ \A k \in 1..Len(b.errors) : errors[k].file = "errors" /\ errors[k].value = b.errors[k]
  BY <1>1 DEF AddAll
<1>5. IngestionWrites(b) = (job \o logs) \o errors
  BY DEF IngestionWrites
<1>6. BundleItems(b, "ingestion_jobs") = items
  BY DEF BundleItems
<1>7. Len(b.errors) \in Nat /\ Len(b.logs) \in Nat
  BY <1>1
<1> HIDE DEF job, items, logs, errors
<1>8. Adds(logs, "logs", b.logs) /\ Adds(errors, "errors", b.errors)
  BY <1>4 DEF Adds
<1>9. HasErrors(errors, Len(b.errors))
  <2>1. ErrorsAt(errors, 0, Len(b.errors))
    BY <1>4, <1>7 DEF ErrorsAt
  <2> QED BY <2>1 DEF HasErrors
<1> DEFINE front == job \o logs
<1>10. front \in Seq(Write) /\ WritesOnly(front, {"ingestion_jobs"} \cup {"logs"})
  <2>1. front \in Seq(Write)
    BY <1>2, <1>3
  <2> QED BY <1>2, <1>3, <2>1, OnlyJoined
<1>11. Covers(front, "ingestion_jobs", items) /\ Adds(front, "logs", b.logs)
  <2>1. "ingestion_jobs" \notin {"logs"}
    OBVIOUS
  <2>2. Covers(front, "ingestion_jobs", items)
    BY <1>2, <1>3, <2>1, CoversThen
  <2> QED BY <1>2, <1>3, <1>8, <2>2, AddsInside
<1> HIDE DEF front
<1>12. "ingestion_jobs" \notin {"errors"} /\ "errors" \notin {"ingestion_jobs"} \cup {"logs"}
  OBVIOUS
<1>13. Covers(front \o errors, "ingestion_jobs", items)
  BY <1>2, <1>3, <1>10, <1>11, <1>12, CoversThen
<1>14. Adds(front \o errors, "logs", b.logs) /\ Adds(front \o errors, "errors", b.errors)
  BY <1>3, <1>8, <1>10, <1>11, AddsInside
<1>15. HasErrors(front \o errors, Len(b.errors))
  BY <1>3, <1>7, <1>9, <1>10, <1>12, ErrorsInside
<1>16. WritesOnly(front \o errors, ({"ingestion_jobs"} \cup {"logs"}) \cup {"errors"})
  BY <1>3, <1>10, OnlyJoined
<1>17. WritesOnly(front \o errors, {"ingestion_jobs", "logs", "errors"})
  BY <1>16 DEF WritesOnly
<1> QED BY <1>5, <1>6, <1>13, <1>14, <1>15, <1>17 DEF front

\* What the whole program does with each file, and with the telemetry.
LEMMA ProgramCovers ==
    ASSUME NEW b \in Bundles
    PROVE  /\ \A f \in RecordFiles : Covers(Program(b), f, BundleItems(b, f))
           /\ HasErrors(Program(b), Len(b.errors))
           /\ Adds(Program(b), "logs", b.logs)
           /\ Adds(Program(b), "errors", b.errors)
<1> DEFINE R == RawWrites(b)
           D == DocumentWrites(b)
           C == ChunkWrites(b)
           G == GraphWrites(b)
           J == IngestionWrites(b)
           L == <<Log>>
           RD == R \o D
           RDC == RD \o C
           RDCG == RDC \o G
           RDCGJ == RDCG \o J
           It(f) == BundleItems(b, f)
           fR == {"raw_artifacts", "logs"}
           fD == {"sources", "documents", "logs"}
           fC == {"chunks", "logs"}
           fG == IF b.enrich THEN {"entities", "relations", "chunks", "logs"} ELSE {}
           fJ == {"ingestion_jobs", "logs", "errors"}
           fL == {"logs"}
<1>1. /\ R \in Seq(Write) /\ D \in Seq(Write) /\ C \in Seq(Write) /\ G \in Seq(Write)
      /\ J \in Seq(Write) /\ L \in Seq(Write)
      /\ WritesOnly(R, fR) /\ WritesOnly(D, fD) /\ WritesOnly(C, fC) /\ WritesOnly(G, fG)
      /\ WritesOnly(J, fJ) /\ WritesOnly(L, fL)
  BY PartTypes, RawPart, DocumentPart, ChunkPart, GraphPart, IngestionPart, RowsOnly
<1>2. Program(b) = RDCGJ \o L
  BY DEF Program
<1>3. \A f \in RecordFiles : It(f) \in Seq(Items)
  BY ItemsType
<1>4. /\ Covers(R, "raw_artifacts", It("raw_artifacts"))
      /\ Covers(D, "sources", It("sources")) /\ Covers(D, "documents", It("documents"))
      /\ Covers(G, "entities", It("entities")) /\ Covers(G, "relations", It("relations"))
      /\ ~b.enrich => Covers(C, "chunks", It("chunks"))
      /\ b.enrich => Covers(G, "chunks", It("chunks"))
      /\ Covers(J, "ingestion_jobs", It("ingestion_jobs"))
      /\ \A j \in 1..Len(C) : C[j].file = "chunks" =>
            \E k \in 1..Len(It("chunks")) : It("chunks")[k].id = C[j].id
  BY RawPart, DocumentPart, ChunkPart, GraphPart, IngestionPart
<1>5. /\ HasErrors(J, Len(b.errors)) /\ Adds(J, "logs", b.logs) /\ Adds(J, "errors", b.errors)
      /\ Len(b.errors) \in Nat
  BY PartTypes, IngestionPart DEF BundleType
<1> HIDE DEF R, D, C, G, J, L, It
<1>6. /\ RD \in Seq(Write) /\ RDC \in Seq(Write) /\ RDCG \in Seq(Write) /\ RDCGJ \in Seq(Write)
  BY <1>1
<1>7. WritesOnly(RD, fR \cup fD)
  BY <1>1, OnlyJoined
<1> HIDE DEF RD
<1>8. WritesOnly(RDC, fR \cup fD \cup fC)
  BY <1>1, <1>6, <1>7, OnlyJoined
<1> HIDE DEF RDC
<1>9. WritesOnly(RDCG, fR \cup fD \cup fC \cup fG)
  BY <1>1, <1>6, <1>8, OnlyJoined
<1> HIDE DEF RDCG
<1>10. /\ "raw_artifacts" \notin fD \cup fC \cup fG \cup fJ \cup fL
       /\ "sources" \notin fR \cup fC \cup fG \cup fJ \cup fL
       /\ "documents" \notin fR \cup fC \cup fG \cup fJ \cup fL
       /\ "chunks" \notin fR \cup fD \cup fJ \cup fL
       /\ "entities" \notin fR \cup fD \cup fC \cup fJ \cup fL
       /\ "relations" \notin fR \cup fD \cup fC \cup fJ \cup fL
       /\ "ingestion_jobs" \notin fR \cup fD \cup fC \cup fG \cup fL
       /\ "errors" \notin fR \cup fD \cup fC \cup fG \cup fL
       /\ ~b.enrich => fG = {}
  OBVIOUS
<1> HIDE DEF fR, fD, fC, fG, fJ, fL
<1>11. ASSUME NEW f \in RecordFiles, f \notin fJ \cup fL, Covers(RDCG, f, It(f))
       PROVE  Covers(RDCGJ \o L, f, It(f))
  <2>1. Covers(RDCGJ, f, It(f))
    BY <1>1, <1>3, <1>6, <1>11, CoversThen
  <2> HIDE DEF RDCGJ
  <2> QED BY <1>1, <1>3, <1>6, <1>11, <2>1, CoversThen
<1>12. ASSUME NEW f \in RecordFiles, f \notin fG \cup fJ \cup fL, Covers(RDC, f, It(f))
       PROVE  Covers(RDCGJ \o L, f, It(f))
  <2>1. Covers(RDC \o G, f, It(f))
    BY <1>1, <1>3, <1>6, <1>12, CoversThen
  <2> QED BY <1>11, <1>12, <2>1 DEF RDCG
<1>13. ASSUME NEW f \in RecordFiles, f \notin fC \cup fG \cup fJ \cup fL, Covers(RD, f, It(f))
       PROVE  Covers(RDCGJ \o L, f, It(f))
  <2>1. Covers(RD \o C, f, It(f))
    BY <1>1, <1>3, <1>6, <1>13, CoversThen
  <2> QED BY <1>12, <1>13, <2>1 DEF RDC
<1>14. Covers(RDCGJ \o L, "raw_artifacts", It("raw_artifacts"))
  <2>1. "raw_artifacts" \in RecordFiles
    BY DEF RecordFiles
  <2>2. Covers(R \o D, "raw_artifacts", It("raw_artifacts"))
    BY <1>1, <1>3, <1>4, <1>10, <2>1, CoversThen
  <2> QED BY <1>10, <1>13, <2>1, <2>2 DEF RD
<1>15. ASSUME NEW f \in {"sources", "documents"} PROVE Covers(RDCGJ \o L, f, It(f))
  <2>1. f \in RecordFiles /\ f \notin fR \cup fC \cup fG \cup fJ \cup fL
    BY <1>10 DEF RecordFiles
  <2>2. Covers(D, f, It(f))
    BY <1>4
  <2>3. \A j \in 1..Len(R) : R[j].file # f
    BY <1>1, <2>1 DEF WritesOnly
  <2>4. Covers(R \o D, f, It(f))
    BY <1>1, <1>3, <2>1, <2>2, <2>3, CoversLater
  <2> QED BY <1>13, <2>1, <2>4 DEF RD
<1>16. ASSUME NEW f \in {"entities", "relations"} PROVE Covers(RDCGJ \o L, f, It(f))
  <2>1. f \in RecordFiles /\ f \notin fR \cup fD \cup fC \cup fJ \cup fL
    BY <1>10 DEF RecordFiles
  <2>2. Covers(G, f, It(f))
    BY <1>4
  <2>3. \A j \in 1..Len(RDC) : RDC[j].file # f
    BY <1>8, <2>1 DEF WritesOnly
  <2>4. Covers(RDC \o G, f, It(f))
    BY <1>1, <1>3, <1>6, <2>1, <2>2, <2>3, CoversLater
  <2> QED BY <1>11, <2>1, <2>4 DEF RDCG
<1>17. Covers(RDCGJ \o L, "chunks", It("chunks"))
  <2> DEFINE f == "chunks"
  <2>1. f \in RecordFiles /\ f \notin fR \cup fD /\ f \notin fJ \cup fL
    BY <1>10 DEF RecordFiles
  <2>2. \A j \in 1..Len(RD) : RD[j].file # f
    BY <1>7, <2>1 DEF WritesOnly
  <2>3. CASE ~b.enrich
    <3>1. Covers(RD \o C, f, It(f))
      BY <1>1, <1>3, <1>4, <1>6, <2>1, <2>2, <2>3, CoversLater
    <3> QED BY <1>10, <1>12, <2>1, <2>3, <3>1 DEF RDC
  <2>4. CASE b.enrich
    <3>1. \A j \in 1..Len(RDC) : \/ \E k \in 1..Len(RD) : RDC[j] = RD[k]
                                 \/ \E k \in 1..Len(C) : RDC[j] = C[k]
      <4>1. \A j \in 1..Len(RD \o C) : \/ j \in 1..Len(RD) /\ (RD \o C)[j] = RD[j]
                                       \/ j - Len(RD) \in 1..Len(C) /\ (RD \o C)[j] = C[j - Len(RD)]
        BY <1>1, <1>6
      <4> QED BY <4>1 DEF RDC
    <3>2. \A j \in 1..Len(RDC) : RDC[j].file = f =>
             \E k \in 1..Len(It(f)) : It(f)[k].id = RDC[j].id
      BY <1>4, <2>2, <3>1
    <3>3. Covers(RDC \o G, f, It(f))
      BY <1>1, <1>3, <1>4, <1>6, <2>1, <2>4, <3>2, CoversLater
    <3> QED BY <1>11, <2>1, <3>3 DEF RDCG
  <2> QED BY <2>3, <2>4
<1>18. Covers(RDCGJ \o L, "ingestion_jobs", It("ingestion_jobs"))
  <2> DEFINE f == "ingestion_jobs"
  <2>1. f \in RecordFiles /\ f \notin fR \cup fD \cup fC \cup fG /\ f \notin fL
    BY <1>10 DEF RecordFiles
  <2>2. Covers(RDCGJ \o L, f, It(f))
    BY <1>1, <1>3, <1>4, <1>6, <1>9, <2>1, CoversInside
  <2> QED BY <2>2
<1>19. \A f \in RecordFiles : Covers(RDCGJ \o L, f, It(f))
  BY <1>14, <1>15, <1>16, <1>17, <1>18 DEF RecordFiles
<1>20. HasErrors(RDCGJ \o L, Len(b.errors))
  <2>1. HasErrors(RDCGJ, Len(b.errors))
    BY <1>1, <1>5, <1>6, <1>9, <1>10, ErrorsInside
  <2> HIDE DEF RDCGJ
  <2> QED BY <1>1, <1>5, <1>6, <1>10, <2>1, ErrorsInside
<1>21. Adds(RDCGJ \o L, "logs", b.logs) /\ Adds(RDCGJ \o L, "errors", b.errors)
  <2>1. Adds(RDCGJ, "logs", b.logs) /\ Adds(RDCGJ, "errors", b.errors)
    BY <1>1, <1>5, <1>6, AddsInside
  <2> HIDE DEF RDCGJ
  <2> QED BY <1>1, <1>6, <2>1, AddsInside
<1> QED BY <1>2, <1>19, <1>20, <1>21 DEF It

\* How many of the first k writes are error lines, if those are n after o.
ErrorLines(o, n, k) == IF k <= o THEN 0 ELSE IF k <= o + n THEN k - o ELSE n

Written(f, n) == \E k \in 1..n : Running[k].file = f

\* What the first n writes of the program have done to the files, and to the
\* rows in memory.
DiskProgress(n) ==
    /\ \A f \in RecordFiles : diskRec[f] = IF Written(f, n) THEN memRec[f] ELSE base.diskRec[f]
    /\ \A s \in Streams : Extends(diskRow[s].rows, base.diskRow[s].rows)
    /\ \A o \in Nat : ErrorsAt(Running, o, Len(call.bundle.errors)) =>
          Len(diskRow["errors"].rows) =
             Len(base.diskRow["errors"].rows) + attempt + ErrorLines(o, Len(call.bundle.errors), n)
    /\ \A k \in 1..n : Running[k].file \in Streams /\ Running[k].value # FreshRow
          => Running[k].value \in memRow[Running[k].file]

\* Makes CommittedBundleIsWhole inductive: both copies follow the program.
WholeInv ==
    /\ ProgressInv
    /\ phase = "commit" => DiskProgress(step - 1)
    /\ result = "committed" => phase = "idle" /\ CommittedBundleIsWhole

LEMMA OneLineMore ==
    \A x, y, c : \A z, a, l \in Nat : x = y + 1 /\ y = z + a + l /\ c = l + 1 => x = z + a + c
OBVIOUS

\* A write of the commit takes the files from one prefix to the next.
LEMMA DiskStep ==
    ASSUME ProgressInv, phase = "commit", SaveOk(ThisWrite), UNCHANGED <<base, call, attempt>>,
           NEW m \in Nat, m = step - 1, DiskProgress(m), NEW n \in Nat, n = m + 1
    PROVE  DiskProgress(n)'
<1> DEFINE w == ThisWrite
           e == Len(call.bundle.errors)
<1>1. TypeOK /\ w \in Write /\ call.bundle \in Bundles
  BY ThisWriteType DEF ProgressInv, RollbackInv, Calls
<1>2. /\ Running \in Seq(Write) /\ n \in 1..Len(Running) /\ w = Running[n] /\ Running' = Running
      /\ e \in Nat /\ e' = e /\ n = step
  <2>1. call.bundle \in BundleType
    BY <1>1, PartTypes
  <2> QED BY <1>1, <2>1, ProgramType DEF Running, TypeOK, ThisWrite, BundleType
<1>3. \A f : Written(f, n) <=> Written(f, m) \/ w.file = f
  BY <1>2 DEF Written
<1>4. \A f : Written(f, n)' <=> Written(f, n)
  BY <1>2 DEF Written
<1>5. \A k \in 1..n : k \in 1..m \/ k = n
  OBVIOUS
<1>6. diskRow \in [Streams -> Stream] /\ base.diskRow \in [Streams -> Stream]
         /\ memRow \in [Streams -> SUBSET Row] /\ diskRec \in [RecordFiles -> Table \cup {Torn}]
         /\ memRec \in [RecordFiles -> Table] /\ base' = base /\ attempt' = attempt /\ call' = call
  BY <1>1 DEF TypeOK, Snapshot
<1>7. Len(base.diskRow["errors"].rows) \in Nat /\ Len(diskRow["errors"].rows) \in Nat /\ attempt \in Nat
  <2>1. base.diskRow["errors"] \in Stream /\ diskRow["errors"] \in Stream
    BY <1>6 DEF Streams
  <2> QED BY <1>1, <2>1 DEF TypeOK, Stream
<1>8. ASSUME NEW o \in Nat, ErrorsAt(Running, o, e)
      PROVE  /\ w.file = "errors" => ErrorLines(o, e, n) = ErrorLines(o, e, m) + 1
             /\ w.file # "errors" => ErrorLines(o, e, n) = ErrorLines(o, e, m)
             /\ ErrorLines(o, e, m) \in Nat
  <2>1. w.file = "errors" <=> n \in (o + 1)..(o + e)
    BY <1>2, <1>8 DEF ErrorsAt
  <2> HIDE DEF e, w
  <2> QED BY <1>2, <2>1 DEF ErrorLines
<1>9. CASE w.file \in RecordFiles
  <2>1. /\ memRec' = [memRec EXCEPT ![w.file][w.id] = w.value]
        /\ diskRec' = [diskRec EXCEPT ![w.file] = memRec'[w.file]]
        /\ UNCHANGED <<memRow, diskRow>>
    BY <1>9 DEF SaveOk, SaveInMemory, SaveOnDisk
  <2>2. w.file # "errors" /\ w.file \notin Streams
    BY <1>9 DEF RecordFiles, Streams
  <2>3. \A f \in RecordFiles : diskRec'[f] = IF Written(f, n)' THEN memRec'[f] ELSE base'.diskRec[f]
    <3> SUFFICES ASSUME NEW f \in RecordFiles
                 PROVE  diskRec'[f] = IF Written(f, n)' THEN memRec'[f] ELSE base'.diskRec[f]
      OBVIOUS
    <3>1. CASE f = w.file
      BY <1>3, <1>4, <1>6, <1>9, <2>1, <3>1
    <3>2. CASE f # w.file
      <4>1. diskRec'[f] = diskRec[f] /\ memRec'[f] = memRec[f]
        BY <1>6, <2>1, <3>2
      <4> QED BY <1>3, <1>4, <1>6, <3>2, <4>1 DEF DiskProgress
    <3> QED BY <3>1, <3>2
  <2>4. \A o \in Nat : ErrorsAt(Running', o, e') => Len(diskRow'["errors"].rows) =
             Len(base'.diskRow["errors"].rows) + attempt' + ErrorLines(o, e', n)
    BY <1>2, <1>6, <1>8, <2>1, <2>2 DEF DiskProgress
  <2>5. \A k \in 1..n : Running'[k].file \in Streams /\ Running'[k].value # FreshRow
          => Running'[k].value \in memRow'[Running'[k].file]
    BY <1>2, <1>5, <2>1, <2>2 DEF DiskProgress
  <2>6. \A s \in Streams : Extends(diskRow'[s].rows, base'.diskRow[s].rows)
    BY <1>6, <2>1 DEF DiskProgress
  <2> QED BY <2>3, <2>4, <2>5, <2>6 DEF DiskProgress
<1>10. CASE w.file \notin RecordFiles
  <2>1. w.file \in Streams /\ RowOf(w) \in Row
    BY <1>1, <1>10, RowOfType
  <2>2. /\ memRow' = [memRow EXCEPT ![w.file] = @ \cup {RowOf(w)}]
        /\ diskRow' = [diskRow EXCEPT ![w.file] = AppendRow(@, RowOf(w))]
        /\ UNCHANGED <<memRec, diskRec>>
    BY <1>10 DEF SaveOk, SaveInMemory, SaveOnDisk
  <2>3. \A f \in RecordFiles : diskRec'[f] = IF Written(f, n)' THEN memRec'[f] ELSE base'.diskRec[f]
    BY <1>3, <1>4, <1>6, <1>10, <2>2 DEF DiskProgress
  <2>4. /\ Extends(AppendRow(diskRow[w.file], RowOf(w)).rows, base.diskRow[w.file].rows)
        /\ Len(AppendRow(diskRow[w.file], RowOf(w)).rows) = Len(diskRow[w.file].rows) + 1
    BY <1>6, <2>1, AppendExtends DEF DiskProgress
  <2>5. \A s \in Streams : Extends(diskRow'[s].rows, base'.diskRow[s].rows)
    BY <1>6, <2>1, <2>2, <2>4 DEF DiskProgress
  <2>6. /\ w.file = "errors" => Len(diskRow'["errors"].rows) = Len(diskRow["errors"].rows) + 1
        /\ w.file # "errors" => diskRow'["errors"] = diskRow["errors"]
    BY <1>6, <2>1, <2>2, <2>4 DEF Streams
  <2>7. ASSUME NEW o \in Nat, ErrorsAt(Running, o, e)
        PROVE  Len(diskRow'["errors"].rows) =
                  Len(base.diskRow["errors"].rows) + attempt + ErrorLines(o, e, n)
    <3>1. Len(diskRow["errors"].rows) = Len(base.diskRow["errors"].rows) + attempt + ErrorLines(o, e, m)
      BY <2>7 DEF DiskProgress
    <3>2. /\ w.file = "errors" => ErrorLines(o, e, n) = ErrorLines(o, e, m) + 1
          /\ w.file # "errors" => ErrorLines(o, e, n) = ErrorLines(o, e, m)
          /\ ErrorLines(o, e, m) \in Nat
      BY <1>8, <2>7
    <3> HIDE DEF e, w
    <3>3. CASE w.file = "errors"
      <4>1. Len(diskRow'["errors"].rows) = Len(diskRow["errors"].rows) + 1
        BY <2>6, <3>3
      <4>2. ErrorLines(o, e, n) = ErrorLines(o, e, m) + 1 /\ ErrorLines(o, e, m) \in Nat
        BY <3>2, <3>3
      <4> DEFINE x == Len(diskRow'["errors"].rows)
                 y == Len(diskRow["errors"].rows)
                 z == Len(base.diskRow["errors"].rows)
                 c == ErrorLines(o, e, n)
                 l == ErrorLines(o, e, m)
      <4>3. z \in Nat /\ attempt \in Nat /\ l \in Nat
        BY <1>7, <4>2
      <4>4. x = y + 1 /\ y = z + attempt + l /\ c = l + 1
        BY <3>1, <4>1, <4>2
      <4> HIDE DEF x, y, z, c, l
      <4>5. x = z + attempt + c
        BY <4>3, <4>4, OneLineMore
      <4> QED BY <4>5 DEF x, y, z, c, l
    <3>4. CASE w.file # "errors"
      BY <2>6, <3>1, <3>2, <3>4
    <3> QED BY <3>3, <3>4
  <2>8. \A k \in 1..n : Running'[k].file \in Streams /\ Running'[k].value # FreshRow
          => Running'[k].value \in memRow'[Running'[k].file]
    <3>1. w.value # FreshRow => w.value \in memRow'[w.file]
      BY <1>6, <2>1, <2>2 DEF RowOf
    <3>2. \A s \in Streams : memRow[s] \subseteq memRow'[s]
      BY <1>6, <2>1, <2>2
    <3> QED BY <1>2, <1>5, <3>1, <3>2 DEF DiskProgress
  <2> QED BY <1>2, <1>6, <2>3, <2>5, <2>7, <2>8 DEF DiskProgress
<1> QED BY <1>9, <1>10

\* At the end of its program a bundle is whole.
AtTheEnd ==
    /\ TypeOK /\ call \in Calls
    /\ memRec = Store!After(base.memRec, Running)
    /\ DiskProgress(Len(Running))

LEMMA WholeAtTheEnd == AtTheEnd => CommittedBundleIsWhole
<1> SUFFICES ASSUME AtTheEnd PROVE CommittedBundleIsWhole
  OBVIOUS
<1>0. /\ TypeOK /\ call \in Calls /\ memRec = Store!After(base.memRec, Running)
      /\ DiskProgress(Len(Running))
  BY DEF AtTheEnd
<1> DEFINE b == call.bundle
           n == Len(Running)
           It(f) == BundleItems(b, f)
<1>1. /\ b \in Bundles /\ Running \in Seq(Write) /\ n \in Nat /\ Running = Program(b)
      /\ b.errors \in Seq(Row) /\ b.logs \in Seq(Row)
  <2>1. b \in Bundles
    BY <1>0 DEF Calls
  <2>2. b \in BundleType
    BY <2>1, PartTypes
  <2> QED BY <2>1, <2>2, ProgramType DEF Running, BundleType
<1>2. \A f \in RecordFiles : It(f) \in Seq(Items) /\ DOMAIN It(f) = 1..Len(It(f))
  BY <1>1, ItemsType
<1>3. \A f \in RecordFiles : Covers(Running, f, It(f))
  BY <1>1, ProgramCovers
<1>4. ASSUME NEW f \in RecordFiles, NEW i \in Ids
      PROVE  LET M == {k \in DOMAIN It(f) : It(f)[k].id = i}
             IN  IF M = {} THEN memRec[f][i] = base.memRec[f][i]
                 ELSE \E k \in M : /\ \A j \in M : j <= k
                                   /\ memRec[f][i] = It(f)[k].content
  <2> DEFINE items == It(f)
  <2>1. items \in Seq(Items) /\ DOMAIN items = 1..Len(items) /\ Covers(Running, f, items)
    BY <1>2, <1>3
  <2> HIDE DEF items
  <2>2. LET M == {k \in 1..Len(items) : items[k].id = i}
        IN  IF M = {} THEN Store!After(base.memRec, Running)[f][i] = base.memRec[f][i]
            ELSE \E k \in M : /\ \A j \in M : j <= k
                              /\ Store!After(base.memRec, Running)[f][i] = items[k].content
    <3>1. Running \in Seq(Write)
      BY <1>1
    <3> QED BY <2>1, <3>1, AfterCovered
  <2>3. LET M == {k \in DOMAIN items : items[k].id = i}
        IN  IF M = {} THEN memRec[f][i] = base.memRec[f][i]
            ELSE \E k \in M : /\ \A j \in M : j <= k
                              /\ memRec[f][i] = items[k].content
    BY <1>0, <2>1, <2>2
  <2> QED BY <2>3 DEF items
<1>5. ASSUME NEW f \in RecordFiles
      PROVE  diskRec[f] = IF It(f) = <<>> THEN base.diskRec[f] ELSE memRec[f]
  <2> DEFINE items == It(f)
  <2>1. PICK o \in Nat : CoversAt(Running, f, items, o)
    BY <1>3 DEF Covers
  <2>2. items \in Seq(Items)
    BY <1>2
  <2> HIDE DEF items
  <2>3. CASE items = <<>>
    <3>1. ~ Written(f, n)
      <4>1. Len(items) = 0
        BY <2>3
      <4> QED BY <1>1, <2>1, <4>1 DEF CoversAt, Written
    <3> QED BY <1>0, <2>3, <3>1 DEF DiskProgress, items
  <2>4. CASE items # <<>>
    <3>1. Len(items) \in Nat /\ Len(items) >= 1
      BY <2>2, <2>4
    <3>2. o + 1 \in 1..n /\ Running[o + 1] = Save(f, items[1])
      BY <1>1, <2>1, <3>1 DEF CoversAt
    <3>3. Written(f, n)
      BY <3>2 DEF Written, Save
    <3> QED BY <1>0, <2>4, <3>3 DEF DiskProgress, items
  <2> QED BY <2>3, <2>4
<1>6. Len(diskRow["errors"].rows) = Len(base.diskRow["errors"].rows) + attempt + Len(b.errors)
  <2>1. HasErrors(Running, Len(b.errors)) /\ Len(b.errors) \in Nat
    BY <1>1, ProgramCovers
  <2>2. PICK o \in Nat : ErrorsAt(Running, o, Len(b.errors))
    BY <2>1 DEF HasErrors
  <2>3. ErrorLines(o, Len(b.errors), n) = Len(b.errors)
    <3>1. o + Len(b.errors) <= n
      BY <2>2 DEF ErrorsAt
    <3> HIDE DEF b
    <3> QED BY <1>1, <2>1, <3>1 DEF ErrorLines
  <2> QED BY <1>0, <2>2, <2>3 DEF DiskProgress
<1>7. ASSUME NEW s \in Streams, NEW rows \in Seq(Row), Adds(Running, s, rows)
      PROVE  \A k \in 1..Len(rows) : rows[k] \in memRow[s]
  <2> SUFFICES ASSUME NEW k \in 1..Len(rows) PROVE rows[k] \in memRow[s]
    OBVIOUS
  <2>1. PICK j \in 1..n : Running[j].file = s /\ Running[j].value = rows[k]
    BY <1>7 DEF Adds
  <2>2. rows[k] # FreshRow
    BY DEF Row, FreshRow
  <2> QED BY <1>0, <2>1, <2>2 DEF DiskProgress
<1>8. /\ \A k \in 1..Len(b.logs) : b.logs[k] \in memRow["logs"]
      /\ \A k \in 1..Len(b.errors) : b.errors[k] \in memRow["errors"]
  <2>1. Adds(Running, "logs", b.logs) /\ Adds(Running, "errors", b.errors)
    BY <1>1, ProgramCovers
  <2> QED BY <1>1, <1>7, <2>1 DEF Streams
<1>9. \A s \in Streams : Extends(diskRow[s].rows, base.diskRow[s].rows)
  BY <1>0 DEF DiskProgress
<1> QED BY <1>4, <1>5, <1>6, <1>8, <1>9 DEF CommittedBundleIsWhole

LEMMA WholeThen == AtTheEnd' => CommittedBundleIsWhole'
BY WholeAtTheEnd, PTL

LEMMA WholeStep == WholeInv /\ [Next]_vars => WholeInv'
<1> SUFFICES ASSUME WholeInv, [Next]_vars PROVE WholeInv'
  OBVIOUS
<1>0. ProgressInv /\ ProgressInv' /\ RollbackInv /\ TypeOK
  BY ProgressStep DEF WholeInv, ProgressInv, RollbackInv
<1>1. CASE TakeSnapshot
  <2>1. KeptNow(attempt, attempt) /\ call.bundle \in Bundles /\ attempt \in Nat
    BY <1>0, <1>1 DEF TakeSnapshot, RollbackInv, TypeOK, Calls
  <2>2. UNCHANGED <<memRec, memRow, diskRec, diskRow, base, call, attempt, result>> /\ step' = 1
           /\ phase = "attempt"
    BY <1>1 DEF TakeSnapshot, state
  <2>3. \A o \in Nat : ErrorLines(o, Len(call.bundle.errors), 0) = 0
    BY DEF ErrorLines
  <2>4. ASSUME NEW n, n = 0 PROVE DiskProgress(n)'
    <3>1. Len(diskRow["errors"].rows) = Len(base.diskRow["errors"].rows) + attempt + 0
      <4>1. base.diskRow["errors"] \in Stream
        BY <1>0 DEF TypeOK, Snapshot, Streams
      <4>2. Len(base.diskRow["errors"].rows) \in Nat
        BY <4>1 DEF Stream
      <4> QED BY <2>1, <4>2 DEF KeptNow, Kept
    <3>2. \A f : ~ Written(f, n)'
      BY <2>4 DEF Written
    <3>3. diskRec = base.diskRec /\ \A s \in Streams : Extends(diskRow[s].rows, base.diskRow[s].rows)
      BY <2>1 DEF KeptNow, Kept
    <3> QED BY <2>2, <2>3, <2>4, <3>1, <3>2, <3>3 DEF DiskProgress
  <2>5. DiskProgress(step - 1)'
    BY <2>2, <2>4
  <2> QED BY <1>0, <2>2, <2>5 DEF WholeInv
<1>2. CASE WriteNext
  <2>1. phase = "commit" /\ SaveOk(ThisWrite) /\ UNCHANGED <<base, call, attempt, result>>
           /\ step' = step + 1
    BY <1>2 DEF WriteNext
  <2>2. \A m, n \in Nat : m = step - 1 /\ n = m + 1 => DiskProgress(n)'
    BY <1>0, <2>1, DiskStep DEF WholeInv
  <2>3. step \in Nat \ {0}
    BY <1>0 DEF TypeOK
  <2>4. PICK n \in Nat : n = step
    BY <2>3
  <2>5. n = step' - 1 /\ DiskProgress(n)'
    <3>1. n - 1 \in Nat
      BY <2>3, <2>4
    <3> QED BY <2>1, <2>2, <2>4, <3>1
  <2>6. DiskProgress(step - 1)'
    BY <2>5 DEF DiskProgress, Written
  <2> QED BY <1>0, <2>1, <2>6 DEF WholeInv
<1>3. CASE WriteLast
  <2>1. /\ phase = "commit" /\ SaveOk(ThisWrite) /\ UNCHANGED <<base, call, attempt>>
        /\ step = Len(Running) /\ phase' = "idle"
    BY <1>3 DEF WriteLast, Ended, Running
  <2>2. step \in Nat \ {0} /\ call \in Calls /\ call.bundle \in Bundles
    BY <1>0, <2>1 DEF TypeOK, Calls
  <2>3. PICK n \in Nat : n = step
    BY <2>2
  <2>4. DiskProgress(Len(Running))'
    <3>1. n - 1 \in Nat /\ n - 1 = step - 1 /\ n = (n - 1) + 1
      BY <2>2, <2>3
    <3>2. DiskProgress(n - 1)
      BY <2>1, <2>3, <3>1 DEF WholeInv
    <3>3. DiskProgress(n)'
      BY <1>0, <2>1, <3>1, <3>2, DiskStep
    <3>4. Running' = Running
      BY <2>1 DEF Running
    <3>5. n = Len(Running')
      BY <2>1, <2>3, <3>4
    <3> QED BY <3>3, <3>5 DEF DiskProgress, Written
  <2>5. memRec' = Store!After(base'.memRec, Running')
    <3>1. memRec' = Store!After(base.memRec, Prefix(step))
      BY <1>0, <2>1, WriteProgress
    <3>2. Prefix(step) = Running
      BY <2>1, <2>2, ProgramType DEF Prefix, Running
    <3>3. Running' = Running /\ base' = base
      BY <2>1 DEF Running
    <3> QED BY <3>1, <3>2, <3>3
  <2>6. TypeOK' /\ call' \in Calls
    BY <1>0, <2>1, <2>2, TypeStep
  <2>7. CommittedBundleIsWhole'
    BY <2>4, <2>5, <2>6, WholeThen DEF AtTheEnd
  <2> QED BY <1>0, <2>1, <2>7 DEF WholeInv
<1>4. CASE UNCHANGED vars
  <2>1. UNCHANGED <<memRec, memRow, diskRec, diskRow, phase, step, base, call, attempt, result>>
    BY <1>4 DEF vars, state, control
  <2>2. CommittedBundleIsWhole' <=> CommittedBundleIsWhole
    BY <2>1 DEF CommittedBundleIsWhole
  <2>3. DiskProgress(step - 1)' <=> DiskProgress(step - 1)
    BY <2>1 DEF DiskProgress, Written, Running
  <2> QED BY <1>0, <2>1, <2>2, <2>3 DEF WholeInv
<1>5. CASE phase' # "commit" /\ result' # "committed"
  BY <1>0, <1>5 DEF WholeInv
<1>6. TakeSnapshot \/ WriteNext \/ WriteLast \/ UNCHANGED vars
        \/ (phase' # "commit" /\ result' # "committed")
  BY DEF WholeInv, Next, InCall, BeginCommit, CommitUnavailable, SnapshotFails,
     WriteRejected, WriteFails, Caught, RestoreMemory, RestoreFile,
     RestoreFails, RecordError, RecordRetry, RecordFailure, ReportFails, SaveDirectly, Crash,
     Restart, Done, Moved, Ended, vars, control
<1> QED BY <1>1, <1>2, <1>3, <1>4, <1>5, <1>6

\* For every set of bundles, limits and faults: a commit that reports success,
\* at whichever attempt, has its whole bundle in memory and in the files, and
\* has changed no other record.
THEOREM CommitsAreWhole == Spec => []CommittedBundleIsWhole
<1>1. Init => WholeInv
  <2>1. Init => RollbackInv
    BY TypeInit DEF Init, RollbackInv
  <2> QED BY <2>1 DEF Init, WholeInv, ProgressInv
<1>2. WholeInv /\ [Next]_vars => WholeInv'
  BY WholeStep
<1>3. WholeInv => CommittedBundleIsWhole
  BY DEF WholeInv, CommittedBundleIsWhole
<1> QED BY <1>1, <1>2, <1>3, PTL DEF Spec

-----------------------------------------------------------------------------
\* A write whose row, if it brings one, is below every generated one.
PlainWrites == {w \in Write : w.file \in Streams => w.value < FirstFresh}

LEMMA PlainTypes ==
    /\ \A b \in Bundles : Program(b) \in Seq(PlainWrites)
    /\ DirectSaves \subseteq PlainWrites /\ ErrorRow \in PlainWrites /\ Log \in PlainWrites
<1>1. FirstFresh \in Nat /\ 0 < FirstFresh
  BY FreshAssumption DEF Row
<1>2. ErrorRow \in PlainWrites /\ Log \in PlainWrites
  BY <1>1, HandlerWriteType DEF PlainWrites, ErrorRow, Log, FreshRow
<1>3. DirectSaves \subseteq PlainWrites
  BY DirectAssumption, FreshAssumption DEF PlainWrites
<1>4. ASSUME NEW b \in Bundles PROVE Program(b) \in Seq(PlainWrites)
  <2>1. b \in BundleType
    BY PartTypes
  <2>2. \A f \in RecordFiles, item \in Items : Save(f, item) \in PlainWrites
    BY DEF PlainWrites, Save, Write, Items, RecordFiles, Streams
  <2>3. AddAll("logs", b.logs) \in Seq(PlainWrites) /\ AddAll("errors", b.errors) \in Seq(PlainWrites)
    <3>1. /\ \A k \in 1..Len(b.logs) : b.logs[k] \in Row /\ b.logs[k] < FirstFresh
          /\ \A k \in 1..Len(b.errors) : b.errors[k] \in Row /\ b.errors[k] < FirstFresh
      BY <2>1, FreshAssumption DEF BundleType
    <3>2. /\ \A k \in 1..Len(b.logs) : [file |-> "logs", id |-> NoRecord, value |-> b.logs[k]] \in PlainWrites
          /\ \A k \in 1..Len(b.errors) : [file |-> "errors", id |-> NoRecord, value |-> b.errors[k]] \in PlainWrites
      BY <3>1 DEF PlainWrites, Write, Streams
    <3>3. Len(b.logs) \in Nat /\ Len(b.errors) \in Nat
      BY <2>1 DEF BundleType
    <3> QED BY <3>2, <3>3 DEF AddAll
  <2>4. /\ RawWrites(b) \in Seq(PlainWrites) /\ DocumentWrites(b) \in Seq(PlainWrites)
        /\ ChunkWrites(b) \in Seq(PlainWrites) /\ GraphWrites(b) \in Seq(PlainWrites)
        /\ IngestionWrites(b) \in Seq(PlainWrites) /\ <<Log>> \in Seq(PlainWrites)
    BY <1>2, <2>2, <2>3, PartsIn
  <2> QED BY <2>4 DEF Program
<1> QED BY <1>2, <1>3, <1>4

\* All rows of a memory and of the streams are below n.
RowsBelow(n, mrow, drow) ==
    \A s \in Streams : (\A r \in mrow[s] : r < n) /\ (\A r \in LoadRows(drow[s]) : r < n)

\* A generated row is new: all rows there are, or that a rollback may bring
\* back, were brought by callers or generated before.
FreshInv ==
    /\ TypeOK
    /\ FirstFresh <= nextRow
    /\ RowsBelow(nextRow, memRow, diskRow)
    /\ phase \in {"commit", "unwind", "restore"} => RowsBelow(nextRow, snap.memRow, snap.diskRow)

\* An append, whole or not, adds no row to a stream but its own.
LEMMA AppendRows ==
    ASSUME NEW d \in Stream, NEW r \in Row
    PROVE  /\ LoadRows(AppendRow(d, r)) \subseteq LoadRows(d) \cup {r}
           /\ \A e \in PartialAppends(d, r) : LoadRows(e) \subseteq LoadRows(d) \cup {r}
<1>1. LoadRows(AppendRow(d, r)) \subseteq LoadRows(d) \cup {r}
  <2> DEFINE e == AppendRow(d, r)
             x == IF d.tail = NoTail THEN r ELSE Garbled
  <2>1. e.rows = Append(d.rows, x) /\ e.tail = NoTail /\ d.rows \in Seq(Row \cup {Garbled})
           /\ x \in Row \cup {Garbled}
    BY DEF AppendRow, Stream
  <2>2. \A k \in 1..Len(e.rows) : e.rows[k] = x \/ \E j \in 1..Len(d.rows) : e.rows[k] = d.rows[j]
    <3> HIDE DEF x
    <3>1. \A k \in 1..Len(e.rows) : k \in 1..Len(d.rows) \/ k = Len(d.rows) + 1
      BY <2>1
    <3> QED BY <2>1, <3>1
  <2>3. {e.rows[k] : k \in 1..Len(e.rows)} \subseteq {d.rows[k] : k \in 1..Len(d.rows)} \cup {x}
    BY <2>2
  <2> QED BY <2>1, <2>3, MarkersAssumption DEF LoadRows
<1>2. ASSUME NEW e \in PartialAppends(d, r) PROVE LoadRows(e) \subseteq LoadRows(d) \cup {r}
  <2>1. e.rows = d.rows /\ (e.tail = d.tail \/ e.tail = Cut \/ e.tail = r)
    BY DEF PartialAppends, Stream
  <2> QED BY <2>1, MarkersAssumption DEF LoadRows
<1> QED BY <1>1, <1>2

\* What an interrupted rewrite leaves of a stream has no other rows.
LEMMA PartialRows ==
    ASSUME NEW d \in Stream
    PROVE  \A e \in PartialStreams(d) : LoadRows(e) \subseteq LoadRows(d)
<1> SUFFICES ASSUME NEW e \in PartialStreams(d) PROVE LoadRows(e) \subseteq LoadRows(d)
  OBVIOUS
<1>1. d.rows \in Seq(Row \cup {Garbled})
  BY DEF Stream
<1>2. ASSUME NEW k \in 0..Len(d.rows), e.rows = SubSeq(d.rows, 1, k),
             e.tail \in {NoTail, Cut} \/ \E j \in 1..Len(d.rows) : e.tail = d.rows[j]
      PROVE  LoadRows(e) \subseteq LoadRows(d)
  <2>1. \A i \in 1..Len(e.rows) : \E j \in 1..Len(d.rows) : e.rows[i] = d.rows[j]
    BY <1>1, <1>2
  <2> QED BY <1>2, <2>1, MarkersAssumption DEF LoadRows
<1>3. CASE e \in {[rows |-> SubSeq(d.rows, 1, k), tail |-> NoTail] : k \in 0..Len(d.rows)}
  BY <1>2, <1>3
<1>4. CASE e \in {[rows |-> SubSeq(d.rows, 1, k), tail |-> Cut] : k \in 0..Len(d.rows)}
  BY <1>2, <1>4
<1>5. CASE e \in {[rows |-> SubSeq(d.rows, 1, k - 1), tail |-> d.rows[k]] :
                  k \in {j \in 1..Len(d.rows) : d.rows[j] # Garbled}}
  <2>1. PICK k \in 1..Len(d.rows) : e = [rows |-> SubSeq(d.rows, 1, k - 1), tail |-> d.rows[k]]
    BY <1>5
  <2>2. k - 1 \in 0..Len(d.rows)
    BY <1>1
  <2>3. e.rows = SubSeq(d.rows, 1, k - 1) /\ e.tail = d.rows[k]
    BY <2>1
  <2> QED BY <1>2, <2>2, <2>3
<1> QED BY <1>3, <1>4, <1>5 DEF PartialStreams

\* The row of a plain write is at most the next generated one.
LEMMA RowOfBelow ==
    ASSUME FreshInv, NEW w \in PlainWrites, w.file \notin RecordFiles
    PROVE  w.file \in Streams /\ RowOf(w) \in Row /\ RowOf(w) < nextRow + 1
<1>1. TypeOK /\ w \in Write /\ nextRow \in Nat /\ FirstFresh \in Nat /\ FirstFresh <= nextRow
  BY FreshAssumption DEF FreshInv, PlainWrites, TypeOK, Row
<1>2. w.file \in Streams /\ RowOf(w) \in Row
  BY <1>1, RowOfType
<1>3. w.value < FirstFresh /\ (w.value = FreshRow \/ RowOf(w) = w.value)
  BY <1>2 DEF PlainWrites, RowOf
<1>4. RowOf(w) = nextRow \/ RowOf(w) < FirstFresh
  BY <1>3 DEF RowOf
<1> QED BY <1>1, <1>2, <1>4 DEF Row

\* A save keeps all rows below the next generated one.
LEMMA SaveFresh ==
    ASSUME FreshInv, NEW w \in PlainWrites, SaveOk(w) \/ SaveFails(w)
    PROVE  /\ RowsBelow(nextRow, memRow, diskRow)'
           /\ nextRow <= nextRow' /\ FirstFresh <= nextRow'
<1>1. TypeOK /\ w \in Write /\ nextRow \in Nat /\ FirstFresh \in Nat /\ FirstFresh <= nextRow
  BY FreshAssumption DEF FreshInv, PlainWrites, TypeOK, Row
<1>2. CASE w.file \in RecordFiles
  <2>1. UNCHANGED <<memRow, diskRow, nextRow>>
    BY <1>2 DEF SaveOk, SaveFails, SaveInMemory, SaveOnDisk, SaveOnDiskFails
  <2> QED BY <1>1, <2>1 DEF FreshInv, RowsBelow
<1>3. CASE w.file \notin RecordFiles
  <2> DEFINE r == RowOf(w)
  <2>1. w.file \in Streams /\ r \in Row /\ r < nextRow + 1
    BY <1>3, RowOfBelow
  <2>2. /\ nextRow' = nextRow + 1
        /\ memRow' = [memRow EXCEPT ![w.file] = @ \cup {r}]
        /\ \A s \in Streams \ {w.file} : diskRow'[s] = diskRow[s]
        /\ \/ diskRow'[w.file] = AppendRow(diskRow[w.file], r)
           \/ diskRow'[w.file] \in PartialAppends(diskRow[w.file], r)
    BY <1>1, <1>3, <2>1 DEF SaveOk, SaveFails, SaveInMemory, SaveOnDisk, SaveOnDiskFails, TypeOK
  <2>3. LoadRows(diskRow'[w.file]) \subseteq LoadRows(diskRow[w.file]) \cup {r}
    <3>1. diskRow[w.file] \in Stream
      BY <1>1, <2>1 DEF TypeOK
    <3>2. /\ LoadRows(AppendRow(diskRow[w.file], r)) \subseteq LoadRows(diskRow[w.file]) \cup {r}
          /\ \A e \in PartialAppends(diskRow[w.file], r) :
                LoadRows(e) \subseteq LoadRows(diskRow[w.file]) \cup {r}
      BY <2>1, <3>1, AppendRows
    <3> QED BY <2>2, <3>2
  <2>4. /\ \A s \in Streams : memRow[s] \subseteq Nat /\ LoadRows(diskRow[s]) \subseteq Nat
        /\ \A s \in Streams : memRow'[s] \subseteq memRow[s] \cup {r}
        /\ \A s \in Streams : LoadRows(diskRow'[s]) \subseteq LoadRows(diskRow[s]) \cup {r}
    <3>1. memRow \in [Streams -> SUBSET Row] /\ Row \subseteq Nat
      BY <1>1 DEF TypeOK, Row
    <3>2. \A s \in Streams : memRow[s] \subseteq Nat /\ LoadRows(diskRow[s]) \subseteq Nat
      BY <3>1 DEF LoadRows
    <3>3. \A s \in Streams : memRow'[s] \subseteq memRow[s] \cup {r}
      BY <2>1, <2>2, <3>1
    <3>4. \A s \in Streams : LoadRows(diskRow'[s]) \subseteq LoadRows(diskRow[s]) \cup {r}
      BY <2>2, <2>3
    <3> QED BY <3>2, <3>3, <3>4
  <2> HIDE DEF r
  <2>5. \A s \in Streams : /\ \A x \in memRow'[s] : x < nextRow + 1
                           /\ \A x \in LoadRows(diskRow'[s]) : x < nextRow + 1
    <3>1. \A s \in Streams : /\ \A x \in memRow[s] : x < nextRow + 1
                             /\ \A x \in LoadRows(diskRow[s]) : x < nextRow + 1
      BY <1>1, <2>4 DEF FreshInv, RowsBelow
    <3> QED BY <2>1, <2>4, <3>1
  <2>6. RowsBelow(nextRow, memRow, diskRow)'
    BY <2>2, <2>5 DEF RowsBelow
  <2> QED BY <1>1, <2>2, <2>6
<1> QED BY <1>2, <1>3

\* The next write of a commit and those of its handler are plain.
LEMMA ThisWriteIsPlain ==
    ASSUME TypeOK, phase = "commit"
    PROVE  ThisWrite \in PlainWrites
<1>1. call.bundle \in Bundles /\ step \in 1..Len(Program(call.bundle))
  <2>1. call \in Calls /\ Len(Program(call.bundle)) \in Nat
    BY ThisWriteType
  <2> QED BY <2>1 DEF TypeOK, Calls
<1>2. Program(call.bundle) \in Seq(PlainWrites)
  BY <1>1, PlainTypes
<1> QED BY <1>1, <1>2 DEF ThisWrite

\* Rows stay below a number that does not get smaller.
LEMMA BelowMore ==
    ASSUME NEW mrow \in [Streams -> SUBSET Row], NEW drow, NEW m \in Nat, NEW n \in Nat,
           m <= n, RowsBelow(m, mrow, drow)
    PROVE  RowsBelow(n, mrow, drow)
<1>1. \A s \in Streams : mrow[s] \subseteq Nat /\ LoadRows(drow[s]) \subseteq Nat
  BY DEF Row, LoadRows
<1> QED BY <1>1 DEF RowsBelow

LEMMA FreshStep == FreshInv /\ [Next]_vars => FreshInv'
<1> SUFFICES ASSUME FreshInv, [Next]_vars PROVE FreshInv'
  OBVIOUS
<1>0. TypeOK /\ TypeOK' /\ nextRow \in Nat /\ nextRow' \in Nat /\ FirstFresh \in Nat
  BY TypeStep, FreshAssumption DEF FreshInv, TypeOK, Row
<1> USE DEF Moved, Ended
<1>1. CASE BeginCommit \/ CommitUnavailable \/ SnapshotFails \/ Done \/ UNCHANGED vars
  BY <1>0, <1>1 DEF BeginCommit, CommitUnavailable, SnapshotFails, Done, vars, state, control, FreshInv
<1>2. CASE TakeSnapshot
  BY <1>0, <1>2 DEF TakeSnapshot, state, FreshInv, Current
<1>3. ASSUME NEW w \in PlainWrites, SaveOk(w) \/ SaveFails(w) \/ UNCHANGED <<state, nextRow>>,
             snap' = snap, phase' \in {"commit", "unwind"} => phase = "commit",
             phase' # "restore"
      PROVE  FreshInv'
  <2>1. RowsBelow(nextRow, memRow, diskRow)' /\ nextRow <= nextRow' /\ FirstFresh <= nextRow'
    <3>1. CASE UNCHANGED <<state, nextRow>>
      BY <1>0, <3>1 DEF FreshInv, state
    <3> QED BY <1>3, <3>1, SaveFresh
  <2>2. phase' \in {"commit", "unwind"} => RowsBelow(nextRow, snap.memRow, snap.diskRow)'
    <3>1. SUFFICES ASSUME phase' \in {"commit", "unwind"}
                   PROVE  RowsBelow(nextRow, snap.memRow, snap.diskRow)'
      OBVIOUS
    <3>2. RowsBelow(nextRow, snap.memRow, snap.diskRow) /\ snap.memRow \in [Streams -> SUBSET Row]
      BY <1>0, <1>3, <3>1 DEF FreshInv, TypeOK, Snapshot
    <3>3. RowsBelow(nextRow', snap.memRow, snap.diskRow)
      BY <1>0, <2>1, <3>2, BelowMore
    <3> QED BY <1>3, <3>3
  <2> QED BY <1>0, <1>3, <2>1, <2>2 DEF FreshInv
<1>4. CASE WriteNext \/ WriteLast \/ WriteRejected \/ WriteFails
  <2>1. ThisWrite \in PlainWrites
    BY <1>0, <1>4, ThisWriteIsPlain DEF WriteNext, WriteLast, WriteRejected, WriteFails
  <2>2. /\ SaveOk(ThisWrite) \/ SaveFails(ThisWrite) \/ UNCHANGED <<state, nextRow>>
        /\ snap' = snap /\ phase = "commit" /\ phase' # "restore"
    BY <1>4 DEF WriteNext, WriteLast, WriteRejected, WriteFails, Caught
  <2> QED BY <1>3, <2>1, <2>2
<1>5. CASE RecordError \/ RecordRetry \/ RecordFailure \/ ReportFails
  <2>1. /\ SaveOk(ErrorRow) \/ SaveFails(ErrorRow) \/ SaveOk(Log) \/ SaveFails(Log)
        /\ snap' = snap /\ phase' \notin {"commit", "unwind", "restore"}
    BY <1>5 DEF RecordError, RecordRetry, RecordFailure, ReportFails, HandlerWrite
  <2> QED BY <1>3, <2>1, PlainTypes
<1>6. CASE SaveDirectly
  <2>1. \E w \in DirectSaves : SaveOk(w) \/ SaveFails(w)
    BY <1>6 DEF SaveDirectly
  <2>2. snap' = snap /\ phase' = "idle"
    BY <1>6 DEF SaveDirectly
  <2> QED BY <1>3, <2>1, <2>2, PlainTypes
<1>7. CASE RestoreMemory
  <2>1. /\ UNCHANGED <<diskRow, snap, nextRow>> /\ memRow' = snap.memRow /\ phase = "unwind"
    BY <1>7 DEF RestoreMemory
  <2>2. RowsBelow(nextRow, snap.memRow, diskRow)
    BY <2>1 DEF FreshInv, RowsBelow
  <2> QED BY <1>0, <2>1, <2>2 DEF FreshInv
<1>8. CASE RestoreFile \/ RestoreFails
  <2> DEFINE f == DurableFiles[step]
  <2>1. /\ phase = "restore" /\ UNCHANGED <<memRow, snap, nextRow>>
        /\ Restored(f) \/ PartlyRestored(f)
    BY <1>8 DEF RestoreFile, RestoreFails
  <2>2. f \in RecordFiles \cup Streams /\ diskRow \in [Streams -> Stream]
           /\ snap.diskRow \in [Streams -> Stream] /\ RecordFiles \cap Streams = {}
    BY <1>0, <2>1 DEF TypeOK, Snapshot, DurableFiles, RecordFiles, Streams
  <2> HIDE DEF f
  <2>3. \A s \in Streams : \/ diskRow'[s] = diskRow[s] \/ diskRow'[s] = snap.diskRow[s]
                            \/ diskRow'[s] \in PartialStreams(snap.diskRow[s])
    BY <2>1, <2>2 DEF Restored, PartlyRestored
  <2>4. \A s \in Streams : \/ LoadRows(diskRow'[s]) \subseteq LoadRows(diskRow[s])
                            \/ LoadRows(diskRow'[s]) \subseteq LoadRows(snap.diskRow[s])
    BY <2>2, <2>3, PartialRows
  <2>5. RowsBelow(nextRow, memRow, diskRow)'
    BY <2>1, <2>4 DEF FreshInv, RowsBelow
  <2> QED BY <1>0, <2>1, <2>5 DEF FreshInv
<1>9. CASE Crash
  <2>1. /\ UNCHANGED <<memRow, snap>> /\ nextRow' = nextRow + 1 /\ phase' = "down"
    BY <1>9 DEF Crash
  <2>2. TypeOK /\ nextRow \in Nat /\ \A s \in Streams : LoadRows(diskRow[s]) \subseteq Nat
           /\ LoadRows(snap.diskRow[s]) \subseteq Nat
    BY <1>0 DEF Row, LoadRows
  <2>3. ASSUME NEW w \in PlainWrites, Interrupted(w), NEW s \in Streams, NEW x \in LoadRows(diskRow'[s])
        PROVE  x < nextRow + 1
    <3>1. /\ w.file \in Streams /\ RowOf(w) \in Row /\ RowOf(w) < nextRow + 1
          /\ diskRow[w.file] \in Stream /\ diskRow \in [Streams -> Stream]
      BY <2>2, <2>3, RowOfBelow DEF TypeOK, Interrupted, Streams, RecordFiles
    <3>2. PICK d \in PartialAppends(diskRow[w.file], RowOf(w)) : diskRow' = [diskRow EXCEPT ![w.file] = d]
      BY <2>3 DEF Interrupted
    <3>3. LoadRows(d) \subseteq LoadRows(diskRow[w.file]) \cup {RowOf(w)}
      BY <3>1, AppendRows
    <3>4. x \in LoadRows(diskRow[s]) \/ x = RowOf(w)
      BY <2>3, <3>1, <3>2, <3>3
    <3>5. x \in LoadRows(diskRow[s]) => x < nextRow
      BY DEF FreshInv, RowsBelow
    <3> QED BY <2>2, <3>1, <3>4, <3>5
  <2>4. ASSUME NEW s \in Streams, NEW x \in LoadRows(diskRow'[s]) PROVE x < nextRow + 1
    <3>1. CASE UNCHANGED <<diskRec, diskRow>>
      <4>1. x \in LoadRows(diskRow[s])
        BY <2>4, <3>1
      <4>2. x < nextRow /\ x \in Nat
        BY <2>2, <4>1 DEF FreshInv, RowsBelow
      <4> QED BY <2>2, <4>2
    <3>2. CASE phase = "commit" /\ Interrupted(ThisWrite)
      BY <2>2, <2>3, <2>4, <3>2, ThisWriteIsPlain
    <3>3. CASE Interrupted(HandlerWrite)
      BY <2>3, <2>4, <3>3, PlainTypes DEF HandlerWrite
    <3>4. CASE phase = "restore" /\ PartlyRestored(DurableFiles[step])
      <4> DEFINE f == DurableFiles[step]
      <4>1. f \in RecordFiles \cup Streams /\ diskRow \in [Streams -> Stream]
               /\ snap.diskRow \in [Streams -> Stream] /\ RecordFiles \cap Streams = {}
        BY <2>2, <3>4 DEF TypeOK, Snapshot, DurableFiles, RecordFiles, Streams
      <4> HIDE DEF f
      <4>2. diskRow'[s] = diskRow[s] \/ diskRow'[s] \in PartialStreams(snap.diskRow[s])
        BY <3>4, <4>1 DEF PartlyRestored, f
      <4>3. x \in LoadRows(diskRow[s]) \/ x \in LoadRows(snap.diskRow[s])
        BY <2>4, <4>1, <4>2, PartialRows
      <4>4. x < nextRow /\ x \in Nat
        BY <2>2, <3>4, <4>3 DEF FreshInv, RowsBelow
      <4> QED BY <2>2, <4>4
    <3> QED BY <1>9, <3>1, <3>2, <3>3, <3>4 DEF Crash
  <2>5. \A s \in Streams : \A x \in memRow[s] : x < nextRow + 1
    BY <1>0 DEF FreshInv, RowsBelow, TypeOK, Row
  <2>6. RowsBelow(nextRow, memRow, diskRow)' /\ FirstFresh <= nextRow'
    BY <1>0, <2>1, <2>4, <2>5 DEF RowsBelow, FreshInv
  <2> QED BY <1>0, <2>1, <2>6 DEF FreshInv
<1>10. CASE Restart
  <2>1. /\ UNCHANGED <<diskRow, snap, nextRow>> /\ phase' = "idle"
        /\ memRow' = [s \in Streams |-> LoadRows(diskRow[s])]
    BY <1>10 DEF Restart
  <2>2. RowsBelow(nextRow, memRow, diskRow)'
    BY <2>1 DEF FreshInv, RowsBelow
  <2> QED BY <1>0, <2>1, <2>2 DEF FreshInv
<1> QED BY <1>1, <1>2, <1>4, <1>5, <1>6, <1>7, <1>8, <1>9, <1>10 DEF Next, InCall

LEMMA FreshInit == Init => FreshInv
<1> SUFFICES ASSUME Init PROVE FreshInv
  OBVIOUS
<1>1. \A s \in Streams : memRow[s] = {} /\ LoadRows(diskRow[s]) = {}
  BY MarkersAssumption DEF Init, LoadRows
<1>2. FirstFresh \in Nat
  BY FreshAssumption DEF Row
<1> QED BY <1>1, <1>2, TypeInit DEF Init, FreshInv, RowsBelow

\* A memory that has e errors and l logs more than the call began with.
Added(mrow, e, l) ==
    /\ \A s \in Streams : IsFiniteSet(mrow[s] \ base.memRow[s])
    /\ Cardinality(mrow["errors"] \ base.memRow["errors"]) = e
    /\ Cardinality(mrow["logs"] \ base.memRow["logs"]) = l

\* Makes FailureLeavesItsTelemetry inductive: at each moment the memory that
\* the call will go on from has one error and one log for each attempt so far.
CountInv ==
    /\ RollbackInv /\ FreshInv
    /\ phase = "attempt" => Added(memRow, attempt, attempt)
    /\ phase \in {"commit", "unwind", "restore"} => Added(snap.memRow, attempt, attempt)
    /\ phase = "error" => Added(memRow, attempt, attempt)
    /\ phase = "report" => Added(memRow, attempt + 1, attempt)
    /\ result = "failed" => Added(memRow, attempt + 1, attempt + 1)

\* The row the handler generates is one more.
LEMMA AddedByRow ==
    ASSUME FreshInv, UNCHANGED base, NEW e \in Nat, NEW l \in Nat, KeptNow(e, l), Added(memRow, e, l)
    PROVE  /\ SaveOk(ErrorRow) => Added(memRow, e + 1, l)'
           /\ SaveOk(Log) => Added(memRow, e, l + 1)'
<1>1. /\ memRow \in [Streams -> SUBSET Row] /\ nextRow \in Nat /\ ErrorRow \in Write /\ Log \in Write
      /\ \A s \in Streams : nextRow \notin memRow[s] /\ base.memRow[s] \subseteq memRow[s]
  BY HandlerWriteType DEF FreshInv, RowsBelow, TypeOK, Row, KeptNow, Kept
<1>2. ASSUME NEW w \in {ErrorRow, Log}, SaveOk(w)
      PROVE  /\ \A s \in Streams \ {w.file} : memRow'[s] = memRow[s]
             /\ memRow'[w.file] \ base.memRow[w.file] = (memRow[w.file] \ base.memRow[w.file]) \cup {nextRow}
             /\ nextRow \notin memRow[w.file] \ base.memRow[w.file]
  <2>1. w.file \in Streams /\ w.file \notin RecordFiles /\ RowOf(w) = nextRow
    BY DEF ErrorRow, Log, Streams, RecordFiles, RowOf
  <2>2. memRow' = [memRow EXCEPT ![w.file] = @ \cup {nextRow}]
    BY <1>2, <2>1 DEF SaveOk, SaveInMemory
  <2>3. nextRow \notin base.memRow[w.file]
    BY <1>1, <2>1
  <2> QED BY <1>1, <2>1, <2>2, <2>3
<1>3. ASSUME NEW w \in {ErrorRow, Log}, SaveOk(w)
      PROVE  /\ \A s \in Streams : IsFiniteSet(memRow'[s] \ base.memRow[s])
             /\ Cardinality(memRow'[w.file] \ base.memRow[w.file])
                  = Cardinality(memRow[w.file] \ base.memRow[w.file]) + 1
  <2> DEFINE T == memRow[w.file] \ base.memRow[w.file]
  <2>1. w.file \in Streams
    BY DEF ErrorRow, Log, Streams
  <2>2. IsFiniteSet(T) /\ nextRow \notin T
    BY <1>2, <1>3, <2>1 DEF Added
  <2> HIDE DEF T
  <2>3. IsFiniteSet(T \cup {nextRow}) /\ Cardinality(T \cup {nextRow}) = Cardinality(T) + 1
    BY <2>2, FS_AddElement
  <2>4. memRow'[w.file] \ base.memRow[w.file] = T \cup {nextRow}
    BY <1>2, <1>3 DEF T
  <2>5. \A s \in Streams : IsFiniteSet(memRow'[s] \ base.memRow[s])
    BY <1>2, <1>3, <2>3, <2>4 DEF Added
  <2> QED BY <2>3, <2>4, <2>5 DEF T
<1>4. ASSUME SaveOk(ErrorRow) PROVE Added(memRow, e + 1, l)'
  <2>1. ErrorRow.file = "errors" /\ "logs" \in Streams \ {"errors"} /\ base' = base
    BY DEF ErrorRow, Streams
  <2>2. memRow'["logs"] = memRow["logs"]
    BY <1>2, <1>4, <2>1
  <2>3. /\ \A s \in Streams : IsFiniteSet(memRow'[s] \ base.memRow[s])
        /\ Cardinality(memRow'["errors"] \ base.memRow["errors"]) = e + 1
        /\ Cardinality(memRow'["logs"] \ base.memRow["logs"]) = l
    BY <1>3, <1>4, <2>1, <2>2 DEF Added
  <2> QED BY <2>1, <2>3 DEF Added
<1>5. ASSUME SaveOk(Log) PROVE Added(memRow, e, l + 1)'
  <2>1. Log.file = "logs" /\ "errors" \in Streams \ {"logs"} /\ base' = base
    BY DEF Log, Streams
  <2>2. memRow'["errors"] = memRow["errors"]
    BY <1>2, <1>5, <2>1
  <2>3. /\ \A s \in Streams : IsFiniteSet(memRow'[s] \ base.memRow[s])
        /\ Cardinality(memRow'["errors"] \ base.memRow["errors"]) = e
        /\ Cardinality(memRow'["logs"] \ base.memRow["logs"]) = l + 1
    BY <1>3, <1>5, <2>1, <2>2 DEF Added
  <2> QED BY <2>1, <2>3 DEF Added
<1> QED BY <1>4, <1>5

LEMMA CountStep == CountInv /\ [Next]_vars => CountInv'
<1> SUFFICES ASSUME CountInv, [Next]_vars PROVE CountInv'
  OBVIOUS
<1>0. RollbackInv /\ RollbackInv' /\ FreshInv /\ FreshInv' /\ TypeOK /\ attempt \in Nat
  BY RollbackStep, FreshStep DEF CountInv, RollbackInv, TypeOK
<1> USE DEF Moved, Ended
<1>1. CASE BeginCommit
  <2>1. base'.memRow = memRow /\ memRow' = memRow /\ attempt' = 0 /\ phase' = "attempt" /\ result' = "none"
    BY <1>1 DEF BeginCommit, Current, state
  <2>2. \A s \in Streams : memRow'[s] \ base'.memRow[s] = {}
    BY <2>1
  <2>3. Added(memRow, attempt, attempt)'
    BY <2>1, <2>2, FS_EmptySet DEF Added, Streams
  <2> QED BY <1>0, <2>1, <2>3 DEF CountInv
<1>2. CASE TakeSnapshot
  <2>1. /\ UNCHANGED <<memRow, base, attempt, result>> /\ snap'.memRow = memRow
        /\ phase = "attempt" /\ phase' = "commit"
    BY <1>2 DEF TakeSnapshot, Current, state
  <2>2. Added(snap.memRow, attempt, attempt)'
    BY <2>1 DEF CountInv, Added
  <2>3. result' # "failed"
    BY <1>0, <2>1 DEF RollbackInv
  <2> QED BY <1>0, <2>1, <2>2, <2>3 DEF CountInv
<1>3. CASE WriteNext \/ WriteRejected \/ WriteFails \/ RestoreMemory
  <2>1. /\ UNCHANGED <<snap, base, attempt, result>> /\ phase \in {"commit", "unwind"}
        /\ phase' \in {"commit", "unwind", "restore"}
    BY <1>3 DEF WriteNext, WriteRejected, WriteFails, Caught, RestoreMemory
  <2>2. Added(snap.memRow, attempt, attempt)'
    BY <2>1 DEF CountInv, Added
  <2>3. result' # "failed"
    BY <1>0, <2>1 DEF RollbackInv
  <2> QED BY <1>0, <2>1, <2>2, <2>3 DEF CountInv
<1>4. CASE RestoreFile
  <2>1. /\ UNCHANGED <<snap, base, attempt, result, memRow>> /\ phase = "restore"
        /\ phase' \in {"restore", "error"} /\ memRow = snap.memRow
    BY <1>0, <1>4 DEF RestoreFile, RollbackInv
  <2>2. Added(snap.memRow, attempt, attempt)' /\ Added(memRow, attempt, attempt)'
    BY <2>1 DEF CountInv, Added
  <2>3. result' # "failed"
    BY <1>0, <2>1 DEF RollbackInv
  <2> QED BY <1>0, <2>1, <2>2, <2>3 DEF CountInv
<1>5. CASE RecordError
  <2>1. /\ SaveOk(ErrorRow) /\ UNCHANGED <<base, attempt, result>> /\ phase = "error" /\ phase' = "report"
    BY <1>5 DEF RecordError
  <2>2. KeptNow(attempt, attempt) /\ Added(memRow, attempt, attempt)
    BY <1>0, <2>1 DEF CountInv, RollbackInv
  <2>3. Added(memRow, attempt + 1, attempt)'
    BY <1>0, <2>1, <2>2, AddedByRow DEF Added
  <2>4. result' # "failed"
    BY <1>0, <2>1 DEF RollbackInv
  <2> QED BY <1>0, <2>1, <2>3, <2>4 DEF CountInv
<1>6. CASE RecordRetry \/ RecordFailure
  <2>1. /\ SaveOk(Log) /\ UNCHANGED base /\ phase = "report"
        /\ \/ phase' = "attempt" /\ attempt' = attempt + 1 /\ result' = result
           \/ phase' = "idle" /\ attempt' = attempt
    BY <1>6 DEF RecordRetry, RecordFailure
  <2>2. /\ KeptNow(attempt + 1, attempt) /\ Added(memRow, attempt + 1, attempt)
        /\ attempt + 1 \in Nat
    BY <1>0, <2>1 DEF CountInv, RollbackInv
  <2>3. PICK n \in Nat : n = attempt + 1
    BY <2>2
  <2>4. Added(memRow, n, n)'
    BY <1>0, <2>1, <2>2, <2>3, AddedByRow DEF Added
  <2>5. phase' = "attempt" => Added(memRow, attempt, attempt)'
    BY <1>0, <2>1, <2>3, <2>4 DEF Added
  <2>6. phase' = "idle" => Added(memRow, attempt + 1, attempt + 1)'
    BY <1>0, <2>1, <2>3, <2>4 DEF Added
  <2>7. phase' = "attempt" => result' # "failed"
    BY <1>0, <2>1 DEF RollbackInv
  <2> QED BY <1>0, <2>1, <2>5, <2>6, <2>7 DEF CountInv
<1>7. CASE UNCHANGED vars
  BY <1>0, <1>7 DEF vars, state, control, CountInv, Added
<1>8. CASE phase' \in {"idle", "down"} /\ result' # "failed"
  BY <1>0, <1>8 DEF CountInv
<1>9. \/ CommitUnavailable \/ WriteLast \/ SnapshotFails \/ RestoreFails \/ ReportFails
      \/ SaveDirectly \/ Crash \/ Restart
      => phase' \in {"idle", "down"} /\ result' # "failed"
  BY <1>0 DEF CommitUnavailable, WriteLast, SnapshotFails, RestoreFails, ReportFails, SaveDirectly,
     Crash, Restart, RollbackInv
<1> QED
  BY <1>1, <1>2, <1>3, <1>4, <1>5, <1>6, <1>7, <1>8, <1>9 DEF Next, InCall, Done

\* For every set of faults, bundles and limits: a commit that reports failure
\* has left one error and one log for each attempt it made, in memory and on
\* disk, and no row of an attempt that was rolled back.
THEOREM TelemetryIsExact == Spec => []FailureLeavesItsTelemetry
<1>1. Init => CountInv
  <2>1. Init => RollbackInv
    BY TypeInit DEF Init, RollbackInv
  <2>2. Init => FreshInv
    BY FreshInit
  <2> QED BY <2>1, <2>2 DEF Init, CountInv
<1>2. CountInv /\ [Next]_vars => CountInv'
  BY CountStep
<1>3. CountInv => FailureLeavesItsTelemetry
  <2> SUFFICES ASSUME CountInv, result = "failed", NEW s \in Streams
               PROVE  /\ Len(diskRow[s].rows) = Len(base.diskRow[s].rows) + attempt + 1
                      /\ Cardinality(memRow[s] \ base.memRow[s]) = attempt + 1
    BY DEF FailureLeavesItsTelemetry
  <2>1. KeptNow(attempt + 1, attempt + 1) /\ Added(memRow, attempt + 1, attempt + 1) /\ TypeOK
    BY DEF CountInv, RollbackInv
  <2>2. Len(base.diskRow[s].rows) \in Nat /\ attempt \in Nat
    <3>1. base.diskRow[s] \in Stream /\ attempt \in Nat
      BY <2>1 DEF TypeOK, Snapshot
    <3> QED BY <3>1 DEF Stream
  <2>3. /\ Len(diskRow[s].rows) = Len(base.diskRow[s].rows) + (attempt + 1)
        /\ Cardinality(memRow[s] \ base.memRow[s]) = attempt + 1
    BY <2>1 DEF KeptNow, Kept, Added, Streams
  <2> DEFINE x == Len(diskRow[s].rows)
             z == Len(base.diskRow[s].rows)
  <2>4. z \in Nat /\ attempt \in Nat /\ x = z + (attempt + 1)
    BY <2>2, <2>3
  <2> HIDE DEF x, z
  <2>5. x = z + attempt + 1
    BY <2>4
  <2> QED BY <2>3, <2>5 DEF x, z
<1> QED BY <1>1, <1>2, <1>3, PTL DEF Spec
=============================================================================

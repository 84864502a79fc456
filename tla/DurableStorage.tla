--------------------------- MODULE DurableStorage ---------------------------
(***************************************************************************)
(* The storage baseline: DurableStorageRepository (in-memory dictionaries  *)
(* backed by JSON snapshots and JSONL streams) and the multi-record commit *)
(* commit_storage_bundle_with_recovery that runs on it, with its rollback, *)
(* retries and telemetry.                                                  *)
(*                                                                         *)
(* One process runs the code.  Every save changes memory first and then    *)
(* one file; either half may be the last thing that happens.  A call of    *)
(* the commit is split at each save, at each file the rollback restores    *)
(* and at each row its handler appends.                                    *)
(***************************************************************************)
EXTENDS Integers, Sequences, FiniteSets

CONSTANTS
    Ids,          \* record ids
    Versions,     \* what distinguishes two contents saved under one id
    Bundles,      \* the bundles a caller may commit
    DirectSaves,  \* the writes a caller may make outside a bundle
    RetryLimits,  \* the values of max_retries
    Faults,       \* which of FaultKinds may happen
    MaxCalls,     \* bound on the number of calls and crashes
    FirstFresh,   \* rows below it come from callers, later ones are generated
    NoRecord, Torn, Garbled, NoTail, Cut

\* "adapter": an overridden save raises StorageOperationError.
\* "write":   the operating system refuses a write of a save.
\* "snapshot": it refuses a read when an attempt captures the files.
\* "handler": it refuses a write of the rollback or of its telemetry.
\* "crash":   the process dies.
FaultKinds == {"adapter", "write", "snapshot", "handler", "crash"}

RecordFiles == {"raw_artifacts", "sources", "documents", "chunks",
                "entities", "relations", "ingestion_jobs"}
Streams == {"logs", "errors"}

\* Wrong: a file added later, left out of the list.
FilesWithoutJobs == <<"raw_artifacts", "sources", "documents", "chunks",
                      "entities", "relations", "logs", "errors">>

\* _DURABLE_FILENAMES: the order in which a rollback restores the files.
DurableFiles == <<"raw_artifacts", "sources", "documents", "chunks",
                  "entities", "relations", "ingestion_jobs", "logs", "errors">>

Contents == [version: Versions, parent: Ids \cup {NoRecord}, linked: BOOLEAN]
Items == [id: Ids, content: Contents]
Row == Nat \ {0}
FreshRow == 0          \* stands for a row whose id is generated when written

\* A record file is the table it holds (the empty table is a missing file)
\* or Torn, a file cut short.  A stream is its complete lines and what
\* follows the last newline: nothing, a cut line, or a whole line.
Table == [Ids -> Contents \cup {NoRecord}]
EmptyTable == [i \in Ids |-> NoRecord]
Stream == [rows: Seq(Row \cup {Garbled}), tail: Row \cup {NoTail, Cut}]

Write == [file: RecordFiles, id: Ids, value: Contents]
            \cup [file: Streams, id: {NoRecord}, value: Row \cup {FreshRow}]

BundleType ==
    [raw: Items \cup {NoRecord}, source: Items \cup {NoRecord},
     document: Items \cup {NoRecord}, job: Items \cup {NoRecord},
     chunks: Seq(Items), entities: Seq(Items), relations: Seq(Items),
     enrich: BOOLEAN, logs: Seq(Row), errors: Seq(Row)]

ASSUME FaultsAssumption == Faults \subseteq FaultKinds
ASSUME LimitsAssumption == RetryLimits \subseteq Int
ASSUME FreshAssumption ==
    /\ FirstFresh \in Row /\ MaxCalls \in Nat
    /\ \A b \in Bundles : \A k \in 1..Len(b.logs) : b.logs[k] < FirstFresh
    /\ \A b \in Bundles : \A k \in 1..Len(b.errors) : b.errors[k] < FirstFresh
    /\ \A w \in DirectSaves : w.file \in Streams => w.value < FirstFresh
ASSUME BundlesAssumption == \A b \in Bundles : b \in BundleType
ASSUME DirectAssumption == DirectSaves \subseteq Write
ASSUME MarkersAssumption ==
    /\ Torn \notin Table
    /\ NoRecord \notin Contents /\ NoRecord \notin Items /\ NoRecord \notin Bundles
    /\ Garbled \notin Row /\ NoTail \notin Row /\ Cut \notin Row
    /\ NoTail # Cut

-----------------------------------------------------------------------------
\* The writes of a bundle, in the order commit_storage_bundle makes them.

Log == [file |-> "logs", id |-> NoRecord, value |-> FreshRow]
Save(f, item) == [file |-> f, id |-> item.id, value |-> item.content]
SaveAll(f, items) == [k \in 1..Len(items) |-> Save(f, items[k])]
AddAll(s, rows) ==
    [k \in 1..Len(rows) |-> [file |-> s, id |-> NoRecord, value |-> rows[k]]]
Optional(f, item) == IF item = NoRecord THEN <<>> ELSE <<Save(f, item)>>

\* The chunk as commit_graph_records saves it again: with its graph flags.
Linked(item) == [item EXCEPT !.content.linked = TRUE]

RawWrites(b) ==
    IF b.raw = NoRecord THEN <<>> ELSE <<Save("raw_artifacts", b.raw), Log>>

DocumentWrites(b) ==
    IF b.document = NoRecord THEN <<>>
    ELSE Optional("sources", b.source) \o <<Save("documents", b.document), Log>>

ChunkWrites(b) ==
    IF b.chunks = <<>> THEN <<>> ELSE Append(SaveAll("chunks", b.chunks), Log)

\* Wrong: the chunks are saved again as the caller passed them.
GraphWritesUnlinked(b) ==
    IF b.chunks = <<>> \/ ~b.enrich THEN <<>>
    ELSE <<Log>> \o SaveAll("entities", b.entities)
                 \o SaveAll("relations", b.relations)
                 \o SaveAll("chunks", b.chunks) \o <<Log>>

\* The entities and relations are those extract_graph_records finds in the
\* chunks; its own log comes first.
GraphWrites(b) ==
    IF b.chunks = <<>> \/ ~b.enrich THEN <<>>
    ELSE <<Log>> \o SaveAll("entities", b.entities)
                 \o SaveAll("relations", b.relations)
                 \o [k \in 1..Len(b.chunks) |-> Save("chunks", Linked(b.chunks[k]))]
                 \o <<Log>>

IngestionWrites(b) ==
    Optional("ingestion_jobs", b.job) \o AddAll("logs", b.logs) \o AddAll("errors", b.errors)

\* The last log, storage_bundle_committed, is written inside the same try.
Program(b) ==
    RawWrites(b) \o DocumentWrites(b) \o ChunkWrites(b) \o GraphWrites(b)
        \o IngestionWrites(b) \o <<Log>>

-----------------------------------------------------------------------------
VARIABLES
    memRec,    \* the record dictionaries
    memRow,    \* the ids in the logs and errors dictionaries
    diskRec,   \* the JSON snapshot files
    diskRow,   \* the JSONL files
    stale,     \* history: files that may not reload to what memory holds
    phase,     \* where the running call is
    call,      \* its bundle and max_retries
    attempt,   \* attempt_index
    step,      \* the next write, or the next file to restore
    snap,      \* the snapshot of the attempt
    retryable, \* what the exception caught says of itself
    nextRow,   \* the next generated row id
    result,    \* how the last call ended
    base,      \* history: the state in which the call began
    calls      \* calls and crashes so far, for the bound

state == <<memRec, memRow, diskRec, diskRow, stale>>
control == <<phase, call, attempt, step, snap, retryable, result, base, calls>>
vars == <<state, control, nextRow>>

Phases == {"idle", "attempt", "commit", "unwind", "restore", "error", "report", "down"}
Results == {"none", "committed", "failed", "raised", "unavailable", "saved", "save_raised"}
Calls == [bundle: Bundles, limit: RetryLimits]
NoCall == NoRecord

Snapshot == [memRec: [RecordFiles -> Table],
             memRow: [Streams -> SUBSET Row],
             diskRec: [RecordFiles -> Table \cup {Torn}],
             diskRow: [Streams -> Stream],
             stale: SUBSET (RecordFiles \cup Streams)]

Current == [memRec |-> memRec, memRow |-> memRow, diskRec |-> diskRec,
            diskRow |-> diskRow, stale |-> stale]

Init ==
    /\ memRec = [f \in RecordFiles |-> EmptyTable]
    /\ memRow = [s \in Streams |-> {}]
    /\ diskRec = [f \in RecordFiles |-> EmptyTable]
    /\ diskRow = [s \in Streams |-> [rows |-> <<>>, tail |-> NoTail]]
    /\ stale = {}
    /\ phase = "idle"
    /\ call = NoCall
    /\ attempt = 0
    /\ step = 1
    /\ snap = Current
    /\ retryable = FALSE
    /\ nextRow = FirstFresh
    /\ result = "none"
    /\ base = Current
    /\ calls = 0

-----------------------------------------------------------------------------
\* What the files reload to: _load_snapshot and _load_jsonl.  A snapshot that
\* does not parse is skipped whole, a line that does not parse is skipped.

LoadTable(d) == IF d = Torn THEN EmptyTable ELSE d
LoadRows(d) == ({d.rows[k] : k \in 1..Len(d.rows)} \cup {d.tail}) \cap Row

\* _append_jsonl opens for append and never looks at how the file ends: a row
\* that follows an unfinished line becomes part of that line.
AppendRow(d, r) ==
    [rows |-> Append(d.rows, IF d.tail = NoTail THEN r ELSE Garbled), tail |-> NoTail]

\* What an append that does not complete may leave: any prefix of the line.
PartialAppends(d, r) ==
    {d, [d EXCEPT !.tail = Cut]}
        \cup (IF d.tail = NoTail THEN {[d EXCEPT !.tail = r]} ELSE {})

\* What write_text may leave of stream d if it does not complete: a prefix.
PartialStreams(d) ==
    {[rows |-> SubSeq(d.rows, 1, k), tail |-> NoTail] : k \in 0..Len(d.rows)}
        \cup {[rows |-> SubSeq(d.rows, 1, k), tail |-> Cut] : k \in 0..Len(d.rows)}
        \cup {[rows |-> SubSeq(d.rows, 1, k - 1), tail |-> d.rows[k]] :
                  k \in {j \in 1..Len(d.rows) : d.rows[j] # Garbled}}

-----------------------------------------------------------------------------
\* One save.  super().save_*() updates memory, then the file is written.

\* Wrong: a log is written before it has an id.
RowWithoutId(w) == w.value

RowOf(w) == IF w.value = FreshRow THEN nextRow ELSE w.value

SaveInMemory(w) ==
    IF w.file \in RecordFiles
    THEN /\ memRec' = [memRec EXCEPT ![w.file][w.id] = w.value]
         /\ UNCHANGED <<memRow, nextRow>>
    ELSE /\ memRow' = [memRow EXCEPT ![w.file] = @ \cup {RowOf(w)}]
         /\ nextRow' = nextRow + 1
         /\ UNCHANGED memRec

\* A snapshot file is replaced by the whole dictionary; a stream grows by a row.
SaveOnDisk(w) ==
    IF w.file \in RecordFiles
    THEN /\ diskRec' = [diskRec EXCEPT ![w.file] = memRec'[w.file]]
         /\ stale' = stale \ {w.file}
         /\ UNCHANGED diskRow
    ELSE /\ diskRow' = [diskRow EXCEPT ![w.file] = AppendRow(@, RowOf(w))]
         /\ stale' = IF diskRow[w.file].tail = NoTail THEN stale ELSE stale \cup {w.file}
         /\ UNCHANGED diskRec

\* A snapshot is written to a temporary file first, so it is left as it was.
SaveOnDiskFails(w) ==
    /\ stale' = stale \cup {w.file}
    /\ UNCHANGED diskRec
    /\ IF w.file \in RecordFiles
       THEN UNCHANGED diskRow
       ELSE \E d \in PartialAppends(diskRow[w.file], RowOf(w)) :
                diskRow' = [diskRow EXCEPT ![w.file] = d]

SaveOk(w) == SaveInMemory(w) /\ SaveOnDisk(w)
SaveFails(w) == SaveInMemory(w) /\ SaveOnDiskFails(w)

-----------------------------------------------------------------------------
\* commit_storage_bundle_with_recovery.

Moved(p) == phase' = p
Ended(r) == /\ phase' = "idle"
            /\ result' = r
            /\ UNCHANGED <<attempt, step, retryable, snap>>

BeginCommit ==
    /\ phase = "idle" /\ calls < MaxCalls
    /\ \E c \in Calls : call' = c
    /\ base' = Current
    /\ attempt' = 0 /\ calls' = calls + 1 /\ result' = "none"
    /\ Moved("attempt")
    /\ UNCHANGED <<state, step, snap, retryable, nextRow>>

\* The adapter probes the directory first and answers without a commit when
\* the probe cannot be written.
CommitUnavailable ==
    /\ "write" \in Faults
    /\ phase = "idle" /\ calls < MaxCalls
    /\ calls' = calls + 1 /\ result' = "unavailable"
    /\ UNCHANGED <<state, phase, call, attempt, step, snap, retryable, base, nextRow>>

\* Wrong: the snapshot is taken once, before the loop.
SnapshotOnce ==
    /\ phase = "attempt"
    /\ snap' = (IF attempt = 0 THEN Current ELSE snap) /\ step' = 1
    /\ Moved("commit")
    /\ UNCHANGED <<state, call, attempt, retryable, result, base, calls, nextRow>>

\* _repository_snapshot, outside the try.
TakeSnapshot ==
    /\ phase = "attempt"
    /\ snap' = Current /\ step' = 1
    /\ Moved("commit")
    /\ UNCHANGED <<state, call, attempt, retryable, result, base, calls, nextRow>>

SnapshotFails ==
    /\ "snapshot" \in Faults
    /\ phase = "attempt"
    /\ Ended("raised")
    /\ UNCHANGED <<state, call, base, calls, nextRow>>

ThisWrite == Program(call.bundle)[step]

WriteNext ==
    /\ phase = "commit" /\ step < Len(Program(call.bundle))
    /\ SaveOk(ThisWrite)
    /\ step' = step + 1
    /\ UNCHANGED <<phase, call, attempt, snap, retryable, result, base, calls>>

WriteLast ==
    /\ phase = "commit" /\ step = Len(Program(call.bundle))
    /\ SaveOk(ThisWrite)
    /\ Ended("committed")
    /\ UNCHANGED <<call, base, calls>>

\* bool(getattr(exc, "retryable", False))
Caught(r) == /\ retryable' = r
             /\ Moved("unwind")
             /\ UNCHANGED <<call, attempt, step, snap, result, base, calls>>

\* An overridden save raises, before or after the save it wraps.
WriteRejected ==
    /\ "adapter" \in Faults
    /\ phase = "commit"
    /\ \/ UNCHANGED <<state, nextRow>>
       \/ SaveOk(ThisWrite)
    /\ \E r \in BOOLEAN : Caught(r)

\* DurableStorageError has no attribute retryable.
WriteFails ==
    /\ "write" \in Faults
    /\ phase = "commit"
    /\ SaveFails(ThisWrite)
    /\ Caught(FALSE)

\* Wrong: the snapshot holds the dictionaries themselves, not copies of them.
RestoreAliases ==
    /\ phase = "unwind"
    /\ stale' = RecordFiles \cup Streams
    /\ step' = 1
    /\ Moved("restore")
    /\ UNCHANGED <<memRec, memRow, diskRec, diskRow, call, attempt, snap, retryable,
                   result, base, calls, nextRow>>

\* _restore_repository_snapshot: every field of memory, then file after file.
RestoreMemory ==
    /\ phase = "unwind"
    /\ memRec' = snap.memRec /\ memRow' = snap.memRow
    /\ stale' = RecordFiles \cup Streams
    /\ step' = 1
    /\ Moved("restore")
    /\ UNCHANGED <<diskRec, diskRow, call, attempt, snap, retryable, result, base,
                   calls, nextRow>>

\* Wrong: the append-only streams are left out of the rollback.
RestoredTables(f) ==
    IF f \in RecordFiles
    THEN diskRec' = [diskRec EXCEPT ![f] = snap.diskRec[f]] /\ UNCHANGED diskRow
    ELSE UNCHANGED <<diskRec, diskRow>>

Restored(f) ==
    IF f \in RecordFiles
    THEN diskRec' = [diskRec EXCEPT ![f] = snap.diskRec[f]] /\ UNCHANGED diskRow
    ELSE diskRow' = [diskRow EXCEPT ![f] = snap.diskRow[f]] /\ UNCHANGED diskRec

\* unlink and write_text are not atomic together, and write_text truncates.
PartlyRestored(f) ==
    \/ UNCHANGED <<diskRec, diskRow>>
    \/ /\ f \in RecordFiles /\ snap.diskRec[f] # EmptyTable
       /\ diskRec' = [diskRec EXCEPT ![f] = Torn]
       /\ UNCHANGED diskRow
    \/ /\ f \in Streams
       /\ \E d \in PartialStreams(snap.diskRow[f]) : diskRow' = [diskRow EXCEPT ![f] = d]
       /\ UNCHANGED diskRec

\* Wrong: the loop does not come to the next file.
RestoreSameFile ==
    /\ phase = "restore"
    /\ Restored(DurableFiles[step])
    /\ UNCHANGED <<memRec, memRow, stale, phase, step, call, attempt, snap, retryable,
                   result, base, calls, nextRow>>

RestoreFile ==
    /\ phase = "restore"
    /\ LET f == DurableFiles[step]
       IN  Restored(f) /\ stale' = IF f \in snap.stale THEN stale ELSE stale \ {f}
    /\ IF step < Len(DurableFiles)
       THEN step' = step + 1 /\ UNCHANGED phase
       ELSE Moved("error") /\ UNCHANGED step
    /\ UNCHANGED <<memRec, memRow, call, attempt, snap, retryable, result, base,
                   calls, nextRow>>

\* An exception inside the handler leaves the call with an exception.
RestoreFails ==
    /\ "handler" \in Faults
    /\ phase = "restore"
    /\ PartlyRestored(DurableFiles[step])
    /\ Ended("raised")
    /\ UNCHANGED <<memRec, memRow, stale, call, base, calls, nextRow>>

ErrorRow == [file |-> "errors", id |-> NoRecord, value |-> FreshRow]

RecordError ==
    /\ phase = "error"
    /\ SaveOk(ErrorRow)
    /\ Moved("report")
    /\ UNCHANGED <<call, attempt, step, snap, retryable, result, base, calls>>

\* range(max(1, max_retries + 1))
WillRetry == retryable /\ attempt < call.limit

RecordRetry ==
    /\ phase = "report" /\ WillRetry
    /\ SaveOk(Log)
    /\ attempt' = attempt + 1
    /\ Moved("attempt")
    /\ UNCHANGED <<call, step, snap, retryable, result, base, calls>>

RecordFailure ==
    /\ phase = "report" /\ ~WillRetry
    /\ SaveOk(Log)
    /\ Ended("failed")
    /\ UNCHANGED <<call, base, calls>>

HandlerWrite == IF phase = "error" THEN ErrorRow ELSE Log

ReportFails ==
    /\ "handler" \in Faults
    /\ phase \in {"error", "report"}
    /\ SaveFails(HandlerWrite)
    /\ Ended("raised")
    /\ UNCHANGED <<call, base, calls>>

-----------------------------------------------------------------------------
\* Saves outside a bundle, and the process itself.

SaveDirectly ==
    /\ phase = "idle" /\ calls < MaxCalls
    /\ \E w \in DirectSaves :
          \/ SaveOk(w) /\ Ended("saved")
          \/ "write" \in Faults /\ SaveFails(w) /\ Ended("save_raised")
    /\ calls' = calls + 1
    /\ UNCHANGED <<call, base>>

\* Wrong: a snapshot file is written in place.
InterruptedInPlace(w) ==
    /\ w.file \in RecordFiles
    /\ diskRec' = [diskRec EXCEPT ![w.file] = Torn]
    /\ UNCHANGED diskRow

Interrupted(w) ==
    /\ w.file \in Streams
    /\ \E d \in PartialAppends(diskRow[w.file], RowOf(w)) :
          diskRow' = [diskRow EXCEPT ![w.file] = d]
    /\ UNCHANGED diskRec

\* The process dies; what it was writing is left as far as it had come.
Crash ==
    /\ "crash" \in Faults
    /\ phase # "down" /\ calls < MaxCalls
    /\ \/ UNCHANGED <<diskRec, diskRow>>
       \/ phase = "commit" /\ Interrupted(ThisWrite)
       \/ phase = "restore" /\ PartlyRestored(DurableFiles[step])
       \/ phase \in {"error", "report"} /\ Interrupted(HandlerWrite)
    /\ stale' = RecordFiles \cup Streams
    /\ calls' = calls + 1 /\ result' = "none" /\ nextRow' = nextRow + 1
    /\ Moved("down")
    /\ UNCHANGED <<memRec, memRow, call, attempt, step, snap, retryable, base>>

\* DurableStorageRepository(base_path): empty dictionaries, then load().
Restart ==
    /\ phase = "down"
    /\ memRec' = [f \in RecordFiles |-> LoadTable(diskRec[f])]
    /\ memRow' = [s \in Streams |-> LoadRows(diskRow[s])]
    /\ stale' = {}
    /\ Moved("idle")
    /\ UNCHANGED <<diskRec, diskRow, call, attempt, step, snap, retryable, result,
                   base, calls, nextRow>>

InCall ==
    \/ TakeSnapshot \/ SnapshotFails
    \/ WriteNext \/ WriteLast \/ WriteRejected \/ WriteFails
    \/ RestoreMemory \/ RestoreFile \/ RestoreFails
    \/ RecordError \/ RecordRetry \/ RecordFailure \/ ReportFails

\* The callers have made all their calls; only a call cut off may not stop.
Done == phase = "idle" /\ calls = MaxCalls /\ UNCHANGED vars

Next ==
    \/ BeginCommit \/ CommitUnavailable \/ InCall
    \/ SaveDirectly \/ Crash \/ Restart \/ Done

Spec == Init /\ [][Next]_vars

\* The process keeps running the call it is in.
FairSpec == Spec /\ WF_vars(InCall)

-----------------------------------------------------------------------------
\* Properties.

\* The types of the state; a record file is torn only by a rollback.
TypeOK ==
    /\ memRec \in [RecordFiles -> Table]
    /\ memRow \in [Streams -> SUBSET Row]
    /\ diskRec \in [RecordFiles -> Table \cup {Torn}]
    /\ diskRow \in [Streams -> Stream]
    /\ stale \subseteq RecordFiles \cup Streams
    /\ phase \in Phases
    /\ call \in Calls \cup {NoCall}
    /\ phase \notin {"idle", "down"} => call \in Calls
    /\ attempt \in Nat
    /\ step \in Nat \ {0}
    /\ phase = "commit" => step <= Len(Program(call.bundle))
    /\ phase = "restore" => step <= Len(DurableFiles)
    /\ snap \in Snapshot
    /\ retryable \in BOOLEAN
    /\ nextRow \in Row
    /\ result \in Results
    /\ base \in Snapshot
    /\ calls \in Nat

Extends(t, s) == Len(s) <= Len(t) /\ \A k \in 1..Len(s) : t[k] = s[k]

\* A commit that returns committed=False leaves the records, in memory and in
\* every file, as the call found them, however many attempts it made and
\* whichever write failed, and takes no line of telemetry away
\* (the except branch of commit_storage_bundle_with_recovery).
FailedCommitRollsBack ==
    result = "failed" =>
        /\ memRec = base.memRec /\ diskRec = base.diskRec
        /\ \A s \in Streams : /\ base.memRow[s] \subseteq memRow[s]
                              /\ Extends(diskRow[s].rows, base.diskRow[s].rows)

\* Whatever its handler runs into, a commit that did not succeed leaves the
\* records in memory as it found them: memory is restored before any file is.
UncommittedLeavesMemory == result \in {"failed", "raised"} => memRec = base.memRec

\* A file reloads to what memory holds unless its last write failed, its
\* rollback has not come to it, or a row was appended to an unfinished line.
\* This is what makes the snapshot of an attempt good for both copies.
SyncedFilesReload ==
    /\ \A f \in RecordFiles \ stale : LoadTable(diskRec[f]) = memRec[f]
    /\ \A s \in Streams \ stale : LoadRows(diskRow[s]) = memRow[s]

\* A failed call leaves one error and one log for each attempt it made, and
\* nothing else: the rows of an aborted attempt go with it, those of its
\* handler survive the next attempt's rollback.
FailureLeavesItsTelemetry ==
    result = "failed" =>
        \A s \in Streams :
            /\ Len(diskRow[s].rows) = Len(base.diskRow[s].rows) + attempt + 1
            /\ Cardinality(memRow[s] \ base.memRow[s]) = attempt + 1

\* What a bundle holds for each file, read off the bundle and not the program.
BundleItems(b, f) ==
    CASE f = "raw_artifacts"  -> IF b.raw = NoRecord THEN <<>> ELSE <<b.raw>>
      [] f = "sources"        -> IF NoRecord \in {b.source, b.document} THEN <<>> ELSE <<b.source>>
      [] f = "documents"      -> IF b.document = NoRecord THEN <<>> ELSE <<b.document>>
      [] f = "chunks"         -> [k \in 1..Len(b.chunks) |->
                                     IF b.enrich THEN Linked(b.chunks[k]) ELSE b.chunks[k]]
      [] f = "entities"       -> IF b.enrich /\ b.chunks # <<>> THEN b.entities ELSE <<>>
      [] f = "relations"      -> IF b.enrich /\ b.chunks # <<>> THEN b.relations ELSE <<>>
      [] f = "ingestion_jobs" -> IF b.job = NoRecord THEN <<>> ELSE <<b.job>>

\* A bundle that was committed, at whichever attempt, is whole in memory and on
\* disk: each record of it as its last mention says, chunks with their graph
\* flags, every other record untouched, its telemetry in both copies.
CommittedBundleIsWhole ==
    result = "committed" =>
        LET b == call.bundle
            Mentions(f, i) == {k \in DOMAIN BundleItems(b, f) : BundleItems(b, f)[k].id = i}
        IN  /\ \A f \in RecordFiles, i \in Ids :
                  IF Mentions(f, i) = {} THEN memRec[f][i] = base.memRec[f][i]
                  ELSE \E k \in Mentions(f, i) :
                          /\ \A j \in Mentions(f, i) : j <= k
                          /\ memRec[f][i] = BundleItems(b, f)[k].content
            /\ \A f \in RecordFiles :
                  diskRec[f] = IF BundleItems(b, f) = <<>> THEN base.diskRec[f] ELSE memRec[f]
            /\ \A s \in Streams : Extends(diskRow[s].rows, base.diskRow[s].rows)
            /\ Len(diskRow["errors"].rows) =
                  Len(base.diskRow["errors"].rows) + attempt + Len(b.errors)
            /\ \A k \in 1..Len(b.logs) : b.logs[k] \in memRow["logs"]
            /\ \A k \in 1..Len(b.errors) : b.errors[k] \in memRow["errors"]

\* Every call ends: attempts are bounded and the rollback comes to its last file.
CallsReturn == phase \notin {"idle", "down"} ~> phase \in {"idle", "down"}

\* To readers of memory a call is one step, whole or nothing.
Store == INSTANCE BundleStore
    WITH Files <- RecordFiles,
         store <- IF phase = "idle" THEN memRec ELSE base.memRec,
         running <- IF phase = "idle" THEN NoRecord ELSE call.bundle

BundlesAreAtomic == Store!Spec

\* A process that dies in a commit leaves on disk what the commit found there
\* and a prefix of its writes in program order, the interrupted one whole or
\* not at all, unless a file was behind memory already.
CrashKeepsPrefix ==
    [][phase = "commit" /\ phase' = "down" /\ stale \cap RecordFiles = {} =>
          \E k \in 0..Len(Program(call.bundle)) :
             [f \in RecordFiles |-> LoadTable(diskRec'[f])] =
                Store!After(base.memRec, SubSeq(Program(call.bundle), 1, k))]_vars
=============================================================================

--------------------------- MODULE Ingestion_proofs ---------------------------
(***************************************************************************)
(* Ingestion: what a run leaves behind, for every set of retry limits and  *)
(* any number of runs; and that the chunks of a text hold all of it, for   *)
(* every text and every choice of max_chars and overlap_chars.  The two    *)
(* have no variable in common.                                             *)
(*                                                                         *)
(* The properties of IngestionJob speak of jobs that ended and of results  *)
(* that were returned.  The invariant Inv adds what holds on the way: the  *)
(* job of a run that is under way is still open, the errors collected      *)
(* beside it are its own, and an artifact in hand is one that was kept.    *)
(*                                                                         *)
(* The loop of ChunkSpans has the invariant SplitInv: what lies before     *)
(* start is covered or white space, and start is at a character.  A turn   *)
(* covers what it takes; the next start is at most at its end, or behind   *)
(* white space that follows it.                                            *)
(***************************************************************************)
EXTENDS IngestionJob, ChunkSpans, WellFoundedInduction, TLAPS

InCall == phase \in {"extract", "normalize"}

(* A job nobody has closed.                                                *)
Open(job) ==
    /\ job \in Jobs
    /\ job.status = "RUNNING"
    /\ job.flagged = FALSE
    /\ \A i \in 1..Len(job.logs) : job.logs[i] \notin Closing

(* EndedJobsAreAccounted, of one job                                       *)
Accounted(job, documented) ==
    /\ \A i \in 1..Len(job.logs) :
          job.logs[i] \in Closing <=> i = Len(job.logs) /\ job.status \in Ended
    /\ job.status \in Ended => job.logs[Len(job.logs)] = ClosingEvent(job.status)
    /\ documented <=> job.status \in {"COMPLETED", "PARTIAL"}
    /\ job.status \in {"PARTIAL", "FAILED"} => job.errors # <<>>
    /\ job.flagged <=> job.status = "PARTIAL"

AllAccounted == \A j \in 1..Len(jobs) : Accounted(jobs[j], j \in documents)

(* ResultsAreTheJobs, in parts                                             *)
IsJob == result.job = Job /\ result.logs = Job.logs /\ result.errors = Job.errors

ResultIsJob == result # NoResult => IsJob

StoredIsJob(s) ==
    /\ \E j \in 1..Len(jobs) : s.job = jobs[j]
    /\ s.job.status \in Ended
    /\ s.logs = s.job.logs /\ s.errors = s.job.errors

AllStored == \A i \in 1..Len(stored) : StoredIsJob(stored[i])

(* What a run under way, or one that has just returned, still owes.        *)
RunInv ==
    /\ InCall => /\ Len(jobs) > 0
                 /\ Open(Job)
                 /\ errors = Job.errors
                 /\ result = NoResult
    /\ phase = "normalize" /\ raw => Current \in raws
    /\ phase = "returned" => /\ Len(jobs) > 0
                             /\ result \in Result
                             /\ IsJob
                             /\ Job.status \in Ended

Inv == TypeOK /\ AllAccounted /\ DocumentsHaveArtifacts /\ ResultIsJob /\ AllStored /\ RunInv

-----------------------------------------------------------------------------
(* add_log and add_error keep a job open, unless the entry closes it.      *)
LEMMA WithLogOpen ==
    ASSUME NEW job, Open(job), NEW event \in Events \ Closing
    PROVE  /\ Open(WithLog(job, event))
           /\ WithLog(job, event).errors = job.errors
  <1>1. WithLog(job, event) = [job EXCEPT !.logs = Append(job.logs, event)]
    BY DEF WithLog
  <1>2. job \in Jobs /\ job.logs \in Seq(Events)
    BY DEF Open, Jobs
  <1>3. Append(job.logs, event) \in Seq(Events)
    BY <1>2
  <1>4. WithLog(job, event) \in Jobs
    BY <1>1, <1>2, <1>3 DEF Jobs
  <1>5. \A i \in 1..Len(Append(job.logs, event)) : Append(job.logs, event)[i] \notin Closing
    BY <1>2 DEF Open
  <1> QED BY <1>1, <1>2, <1>4, <1>5 DEF Open, Jobs

LEMMA WithErrorOpen ==
    ASSUME NEW job, Open(job), NEW operation \in Operations
    PROVE  /\ Open(WithError(job, operation))
           /\ WithError(job, operation).errors = Append(job.errors, operation)
           /\ Append(job.errors, operation) # <<>>
           /\ Append(job.errors, operation) \in Seq(Operations)
  <1>1. job \in Jobs /\ job.errors \in Seq(Operations)
    BY DEF Open, Jobs
  <1>2. Append(job.errors, operation) \in Seq(Operations)
    BY <1>1
  <1>3. Append(job.errors, operation) # <<>>
    BY <1>1
  <1>4. WithError(job, operation) \in Jobs
    BY <1>1, <1>2 DEF Jobs, WithError
  <1> QED BY <1>1, <1>2, <1>3, <1>4 DEF Open, Jobs, WithError

(* An open job accounts for itself as long as it left no document.         *)
LEMMA OpenIsAccounted ==
    ASSUME NEW job, Open(job)
    PROVE  Accounted(job, FALSE)
  BY DEF Open, Accounted, Ended

(* _finish_job, on an open job                                             *)
LEMMA ClosedIsAccounted ==
    ASSUME NEW job, Open(job), NEW status \in Ended, NEW flagged \in BOOLEAN,
           flagged <=> status = "PARTIAL",
           status # "COMPLETED" => job.errors # <<>>,
           NEW closed,
           closed = [WithLog(job, ClosingEvent(status))
                        EXCEPT !.status = status, !.flagged = flagged]
    PROVE  /\ closed \in Jobs
           /\ closed.status = status
           /\ closed.errors = job.errors
           /\ Accounted(closed, status \in {"COMPLETED", "PARTIAL"})
  <1> DEFINE event == ClosingEvent(status)
             logs == Append(job.logs, event)
  <1>1. event \in Closing /\ event \in Events
    BY DEF ClosingEvent, Closing, Events, Ended
  <1>2. job \in Jobs /\ job.logs \in Seq(Events)
    BY DEF Open, Jobs
  <1>3. /\ logs \in Seq(Events)
        /\ Len(logs) = Len(job.logs) + 1
        /\ logs[Len(logs)] = event
        /\ \A i \in 1..Len(job.logs) : logs[i] = job.logs[i]
    BY <1>1, <1>2
  <1>4. closed = [job EXCEPT !.logs = logs, !.status = status, !.flagged = flagged]
    BY <1>2 DEF WithLog, Jobs
  <1> HIDE DEF event
  <1>5. closed \in Jobs
    BY <1>2, <1>3, <1>4 DEF Jobs
  <1>6. /\ closed.logs = logs /\ closed.status = status /\ closed.flagged = flagged
        /\ closed.errors = job.errors
    BY <1>2, <1>4 DEF Jobs
  <1>7. \A i \in 1..Len(logs) : logs[i] \in Closing <=> i = Len(logs)
    BY <1>1, <1>2, <1>3 DEF Open
  <1>8. Accounted(closed, status \in {"COMPLETED", "PARTIAL"})
    <2>1. closed.logs[Len(closed.logs)] = ClosingEvent(closed.status)
      BY <1>3, <1>6 DEF event
    <2> QED BY <2>1, <1>6, <1>7 DEF Accounted, Ended
  <1> QED BY <1>5, <1>6, <1>8

(* Replacing the job of the run under way leaves the others as they were,  *)
(* and with them what storage holds.                                       *)
LEMMA ReplaceJob ==
    ASSUME Inv, InCall, NEW job \in Jobs,
           jobs' = [jobs EXCEPT ![Current] = job],
           \A j \in 1..Len(jobs) : j # Current => (j \in documents' <=> j \in documents),
           Accounted(job, Current \in documents'),
           stored' = stored
    PROVE  /\ jobs' \in Seq(Jobs)
           /\ Len(jobs') = Len(jobs)
           /\ Job' = job
           /\ AllAccounted'
           /\ AllStored'
  <1>1. jobs \in Seq(Jobs) /\ Len(jobs) > 0 /\ Current \in 1..Len(jobs)
    BY DEF Inv, TypeOK, RunInv, Current
  <1>2. jobs' \in Seq(Jobs) /\ Len(jobs') = Len(jobs)
    BY <1>1
  <1>3. Job' = job
    <2>1. jobs'[Current] = job
      BY <1>1
    <2>2. Current' = Current
      BY <1>2 DEF Current
    <2> QED BY <2>1, <2>2 DEF Job
  <1>4. \A j \in 1..Len(jobs) : j # Current => jobs'[j] = jobs[j]
    BY <1>1
  <1>5. AllAccounted'
    <2> SUFFICES ASSUME NEW j \in 1..Len(jobs)
                 PROVE  Accounted(jobs'[j], j \in documents')
      BY <1>2 DEF AllAccounted
    <2>1. CASE j = Current
      BY <2>1, <1>1
    <2>2. CASE j # Current
      <3>1. Accounted(jobs[j], j \in documents)
        BY DEF Inv, AllAccounted
      <3> QED BY <3>1, <2>2, <1>4 DEF Accounted
    <2> QED BY <2>1, <2>2
  <1>6. AllStored'
    <2> SUFFICES ASSUME NEW i \in 1..Len(stored)
                 PROVE  StoredIsJob(stored[i])'
      BY DEF AllStored
    <2>1. StoredIsJob(stored[i])
      BY DEF Inv, AllStored
    <2>2. PICK j \in 1..Len(jobs) : stored[i].job = jobs[j]
      BY <2>1 DEF StoredIsJob
    <2>3. jobs[j].status \in Ended
      BY <2>1, <2>2 DEF StoredIsJob
    <2>4. Job.status = "RUNNING"
      BY DEF Inv, RunInv, Open
    <2>5. j # Current
      BY <2>3, <2>4 DEF Ended, Job
    <2>6. jobs'[j] = stored[i].job
      BY <2>2, <2>5, <1>4
    <2> QED BY <2>1, <2>6, <1>2 DEF StoredIsJob
  <1> QED BY <1>2, <1>3, <1>5, <1>6

-----------------------------------------------------------------------------
(* The steps that close a job, whatever else they record.                  *)
LEMMA FinishPreserves ==
    ASSUME Inv, InCall, NEW job, Open(job), NEW status \in Ended, NEW flagged \in BOOLEAN,
           flagged <=> status = "PARTIAL",
           NEW collected \in Seq(Operations),
           collected = job.errors,
           status # "COMPLETED" => collected # <<>>,
           FinishJob(job, status, flagged, collected),
           documents' = documents \cup IF status = "FAILED" THEN {} ELSE {Current},
           Current \in documents' => Current \in raws,
           UNCHANGED <<raws, attempt, limit, stored>>, raw' \in BOOLEAN
    PROVE  Inv'
  <1> DEFINE closed == [WithLog(job, ClosingEvent(status))
                           EXCEPT !.status = status, !.flagged = flagged]
  <1>1. /\ jobs' = [jobs EXCEPT ![Current] = closed]
        /\ result' = [job |-> closed, logs |-> closed.logs, errors |-> collected]
        /\ errors' = collected
        /\ phase' = "returned"
    BY DEF FinishJob
  <1>2. /\ closed \in Jobs
        /\ closed.status = status
        /\ closed.errors = job.errors
        /\ Accounted(closed, status \in {"COMPLETED", "PARTIAL"})
    BY ClosedIsAccounted
  <1> HIDE DEF closed
  <1>3. Current \in 1..Len(jobs) /\ documents \subseteq 1..Len(jobs)
    BY DEF Inv, TypeOK, RunInv, Current
  <1>4. Current \notin documents
    <2>1. Accounted(Job, Current \in documents)
      BY <1>3 DEF Inv, AllAccounted, Job
    <2> QED BY <2>1 DEF Inv, RunInv, Open, Accounted
  <1>5. /\ \A j \in 1..Len(jobs) : j # Current => (j \in documents' <=> j \in documents)
        /\ Current \in documents' <=> status \in {"COMPLETED", "PARTIAL"}
    BY <1>4 DEF Ended
  <1>6. Accounted(closed, Current \in documents')
    BY <1>2, <1>5 DEF Accounted
  <1>7. /\ jobs' \in Seq(Jobs)
        /\ Len(jobs') = Len(jobs)
        /\ Job' = closed
        /\ AllAccounted'
        /\ AllStored'
    BY <1>1, <1>2, <1>5, <1>6, ReplaceJob
  <1>8. result' \in Result
    BY <1>1, <1>2 DEF Result, Jobs
  <1>9. TypeOK'
    BY <1>1, <1>3, <1>7, <1>8 DEF Inv, TypeOK
  <1>10. DocumentsHaveArtifacts'
    BY DEF Inv, DocumentsHaveArtifacts
  <1>11. IsJob'
    BY <1>1, <1>2, <1>7 DEF IsJob
  <1>12. RunInv'
    BY <1>1, <1>2, <1>3, <1>7, <1>8, <1>11 DEF RunInv, InCall, Current
  <1> QED BY <1>7, <1>9, <1>10, <1>11, <1>12 DEF Inv, ResultIsJob

(* Every step of the specification keeps the invariant.                    *)
LEMMA InvHolds == Spec => []Inv
  <1>1. Init => Inv
    <2> SUFFICES ASSUME Init
                 PROVE  Inv
      OBVIOUS
    <2>1. TypeOK
      <3>1. \A S : <<>> \in Seq(S)
        OBVIOUS
      <3>2. jobs \in Seq(Jobs) /\ errors \in Seq(Operations) /\ stored \in Seq(Result)
        BY <3>1, Zenon DEF Init
      <3>3. raws \subseteq 1..Len(jobs) /\ documents \subseteq 1..Len(jobs)
        BY DEF Init
      <3>4. attempt \in Nat /\ limit \in Int /\ phase = "idle"
        BY DEF Init
      <3>5. raw \in BOOLEAN /\ result \in Result \cup {NoResult}
        BY Zenon DEF Init
      <3> QED BY <3>2, <3>3, <3>4, <3>5, Zenon DEF TypeOK
    <2>2. AllAccounted /\ AllStored
      BY DEF Init, AllAccounted, AllStored
    <2>3. DocumentsHaveArtifacts /\ ResultIsJob /\ RunInv
      BY DEF Init, DocumentsHaveArtifacts, ResultIsJob, RunInv, InCall
    <2> QED BY <2>1, <2>2, <2>3 DEF Inv
  <1>2. Inv /\ [Next]_vars => Inv'
    <2> SUFFICES ASSUME Inv, [Next]_vars
                 PROVE  Inv'
      OBVIOUS
    <2>1. CASE StartIngestionJob
      <3> DEFINE job == [status |-> "RUNNING", logs |-> <<"started">>, errors |-> <<>>,
                         flagged |-> FALSE]
      <3>1. /\ jobs' = Append(jobs, job)
            /\ UNCHANGED <<raws, documents, stored>>
            /\ phase' \in {"extract", "normalize"}
            /\ limit' \in Int /\ attempt' = 0
            /\ raw' = FALSE /\ errors' = <<>> /\ result' = NoResult
        BY <2>1, ConstantsAssumption DEF StartIngestionJob
      <3>2. Open(job) /\ job.errors = <<>>
        BY DEF Open, Jobs, Events, Closing
      <3> HIDE DEF job
      <3>3. jobs \in Seq(Jobs) /\ job \in Jobs
        BY <3>2 DEF Inv, TypeOK, Open
      <3>4. /\ jobs' \in Seq(Jobs)
            /\ Len(jobs') = Len(jobs) + 1
            /\ jobs'[Len(jobs')] = job
            /\ \A j \in 1..Len(jobs) : jobs'[j] = jobs[j]
        BY <3>1, <3>3
      <3>5. Len(jobs) \in Nat
        BY <3>3
      <3>6. Job' = job
        BY <3>4 DEF Job, Current
      <3>7. TypeOK'
        <4>1. raws' \subseteq 1..Len(jobs') /\ documents' \subseteq 1..Len(jobs')
          BY <3>1, <3>4, <3>5 DEF Inv, TypeOK
        <4>2. UNCHANGED stored /\ stored \in Seq(Result)
          BY <3>1 DEF Inv, TypeOK
        <4>3. errors' \in Seq(Operations)
          BY <3>1
        <4> QED BY <3>1, <3>4, <4>1, <4>2, <4>3 DEF TypeOK
      <3>8. AllAccounted'
        <4> SUFFICES ASSUME NEW j \in 1..Len(jobs')
                     PROVE  Accounted(jobs'[j], j \in documents')
          BY DEF AllAccounted
        <4>1. CASE j = Len(jobs')
          <5>1. j \notin documents'
            BY <4>1, <3>1, <3>4, <3>5 DEF Inv, TypeOK
          <5>2. Accounted(job, FALSE)
            BY <3>2, OpenIsAccounted
          <5> QED BY <5>1, <5>2, <4>1, <3>4 DEF Accounted
        <4>2. CASE j # Len(jobs')
          <5>1. j \in 1..Len(jobs)
            BY <4>2, <3>4, <3>5
          <5> QED BY <5>1, <3>1, <3>4 DEF Inv, AllAccounted
        <4> QED BY <4>1, <4>2
      <3>9. AllStored'
        BY <3>1, <3>4, <3>5 DEF Inv, AllStored, StoredIsJob
      <3>10. RunInv'
        BY <3>1, <3>2, <3>4, <3>5, <3>6 DEF RunInv, InCall
      <3> QED BY <3>1, <3>7, <3>8, <3>9, <3>10
              DEF Inv, DocumentsHaveArtifacts, ResultIsJob
    <2>2. CASE InRun
      <3>1. /\ InCall /\ Open(Job) /\ errors = Job.errors /\ result = NoResult
            /\ Current \in 1..Len(jobs)
        <4>1. InCall
          BY <2>2 DEF InRun, Extracted, ExtractionRetried, ExtractionFails, Normalized,
                      NormalizationFails, Raises, InCall
        <4>2. Len(jobs) \in Nat
          BY DEF Inv, TypeOK
        <4> QED BY <4>1, <4>2 DEF Inv, RunInv, Current
      <3>2. Job \in Jobs /\ errors \in Seq(Operations)
        BY <3>1 DEF Open, Inv, TypeOK
      <3>3. Current \notin documents
        <4>1. Accounted(Job, Current \in documents)
          BY <3>1 DEF Inv, AllAccounted, Job
        <4> QED BY <4>1, <3>1 DEF Open, Accounted
      <3>4. \A operation \in Operations :
               /\ Open(WithError(Job, operation))
               /\ WithError(Job, operation).errors = Append(errors, operation)
               /\ Append(errors, operation) # <<>>
               /\ Append(errors, operation) \in Seq(Operations)
        BY <3>1, WithErrorOpen
      <3>5. CASE Extracted
        <4> DEFINE job == WithLog(Job, "extracted")
        <4>1. Open(job) /\ job.errors = errors
          BY <3>1, WithLogOpen DEF Events, Closing
        <4>2. /\ jobs' = [jobs EXCEPT ![Current] = job]
              /\ raws' = raws \cup {Current}
              /\ phase' = "normalize" /\ raw' = TRUE
              /\ UNCHANGED <<documents, attempt, limit, errors, result, stored>>
          BY <3>5 DEF Extracted
        <4> HIDE DEF job
        <4>3. Accounted(job, Current \in documents')
          BY <4>1, <4>2, <3>3, OpenIsAccounted DEF Accounted
        <4>4. job \in Jobs
          BY <4>1 DEF Open
        <4>5. /\ jobs' \in Seq(Jobs)
              /\ Len(jobs') = Len(jobs)
              /\ Job' = job
              /\ AllAccounted'
              /\ AllStored'
          BY <3>1, <4>2, <4>3, <4>4, ReplaceJob
        <4>6. TypeOK'
          BY <4>2, <4>5, <3>1 DEF Inv, TypeOK
        <4>7. RunInv'
          BY <4>1, <4>2, <4>5, <3>1 DEF Inv, RunInv, InCall, Current
        <4> QED BY <4>2, <4>5, <4>6, <4>7, <3>1 DEF Inv, DocumentsHaveArtifacts, ResultIsJob
      <3>6. CASE ExtractionRetried
        <4> DEFINE job == WithLog(WithError(Job, "extract"), "retry")
        <4>1. Open(job) /\ job.errors = Append(errors, "extract")
          BY <3>4, WithLogOpen DEF Events, Closing, Operations
        <4>2. /\ jobs' = [jobs EXCEPT ![Current] = job]
              /\ phase' = "extract"
              /\ errors' = Append(errors, "extract")
              /\ raw' \in BOOLEAN
              /\ attempt' \in Nat
              /\ UNCHANGED <<raws, documents, limit, result, stored>>
          BY <3>6 DEF ExtractionRetried, MayRetry, NextAttempt, Inv, TypeOK
        <4> HIDE DEF job
        <4>3. Accounted(job, Current \in documents')
          BY <4>1, <4>2, <3>3, OpenIsAccounted DEF Accounted
        <4>4. job \in Jobs
          BY <4>1 DEF Open
        <4>5. /\ jobs' \in Seq(Jobs)
              /\ Len(jobs') = Len(jobs)
              /\ Job' = job
              /\ AllAccounted'
              /\ AllStored'
          BY <3>1, <4>2, <4>3, <4>4, ReplaceJob
        <4>6. TypeOK'
          BY <4>2, <4>5, <3>4 DEF Inv, TypeOK, Operations
        <4>7. RunInv'
          BY <4>1, <4>2, <4>5, <3>1 DEF Inv, RunInv, InCall, Current
        <4> QED BY <4>2, <4>5, <4>6, <4>7, <3>1 DEF Inv, DocumentsHaveArtifacts, ResultIsJob
      <3>7. CASE ExtractionFails
        <4>1. /\ FinishJob(WithError(Job, "extract"), "FAILED", FALSE, Append(errors, "extract"))
              /\ raw' \in BOOLEAN
              /\ UNCHANGED <<raws, documents, attempt, limit, stored>>
          BY <3>7 DEF ExtractionFails, Inv, TypeOK
        <4>2. documents' = documents \cup IF "FAILED" = "FAILED" THEN {} ELSE {Current}
          BY <4>1
        <4>3. Current \notin documents'
          BY <4>1, <3>3
        <4> QED BY <3>1, <3>4, <4>1, <4>2, <4>3, FinishPreserves DEF Operations, Ended
      <3>8. CASE Normalized
        <4>1. /\ documents' = documents \cup {Current}
              /\ Current \in raws
              /\ raw' \in BOOLEAN
              /\ UNCHANGED <<raws, attempt, limit, stored>>
          BY <3>8 DEF Normalized, Inv, RunInv, TypeOK
        <4>2. CASE FinishJob(Job, "COMPLETED", FALSE, errors)
          BY <4>1, <4>2, <3>1, <3>2, FinishPreserves DEF Ended
        <4>3. CASE FinishJob(WithError(Job, "normalize"), "PARTIAL", TRUE,
                             Append(errors, "normalize"))
          BY <4>1, <4>3, <3>1, <3>4, FinishPreserves DEF Ended, Operations
        <4> QED BY <3>8, <4>2, <4>3 DEF Normalized
      <3>9. CASE NormalizationFails
        <4>1. /\ FinishJob(WithError(Job, "normalize"), "FAILED", FALSE,
                           Append(errors, "normalize"))
              /\ raw' \in BOOLEAN
              /\ UNCHANGED <<raws, documents, attempt, limit, stored>>
          BY <3>9 DEF NormalizationFails, Inv, TypeOK
        <4>2. documents' = documents \cup IF "FAILED" = "FAILED" THEN {} ELSE {Current}
          BY <4>1
        <4>3. Current \notin documents'
          BY <4>1, <3>3
        <4> QED BY <3>1, <3>4, <4>1, <4>2, <4>3, FinishPreserves DEF Operations, Ended
      <3>10. CASE Raises
        BY <3>10 DEF Raises, Inv, TypeOK, AllAccounted, DocumentsHaveArtifacts, ResultIsJob,
                     IsJob, AllStored, StoredIsJob, RunInv, InCall, Job, Current
      <3> QED BY <2>2, <3>5, <3>6, <3>7, <3>8, <3>9, <3>10 DEF InRun
    <2>3. CASE CommitIngestionRecords
      <3>1. /\ stored' = Append(stored, result) /\ phase' = "idle" /\ phase = "returned"
            /\ UNCHANGED <<jobs, raws, documents, attempt, limit, raw, errors, result>>
        BY <2>3 DEF CommitIngestionRecords
      <3>2. Len(jobs) > 0 /\ result \in Result /\ IsJob /\ Job.status \in Ended
        BY <3>1 DEF Inv, RunInv
      <3>3. StoredIsJob(result)
        BY <3>2 DEF StoredIsJob, IsJob, Job, Current, Inv, TypeOK
      <3>4. stored \in Seq(Result) /\ stored' \in Seq(Result)
        BY <3>1, <3>2 DEF Inv, TypeOK
      <3>5. TypeOK'
        BY <3>1, <3>4 DEF Inv, TypeOK
      <3>6. AllStored'
        <4> SUFFICES ASSUME NEW i \in 1..Len(stored')
                     PROVE  StoredIsJob(stored'[i])
          BY <3>1 DEF AllStored, StoredIsJob
        <4>1. \/ i \in 1..Len(stored) /\ stored'[i] = stored[i]
              \/ stored'[i] = result
          BY <3>1, <3>2, <3>4
        <4> QED BY <4>1, <3>3 DEF Inv, AllStored
      <3>7. RunInv'
        BY <3>1 DEF RunInv, InCall
      <3> QED BY <3>1, <3>5, <3>6, <3>7
              DEF Inv, AllAccounted, DocumentsHaveArtifacts, ResultIsJob, IsJob, Job, Current
    <2>4. CASE DropResult
      BY <2>4 DEF DropResult, Inv, TypeOK, AllAccounted, DocumentsHaveArtifacts, ResultIsJob,
                  IsJob, AllStored, StoredIsJob, RunInv, InCall, Job, Current
    <2>5. CASE Done \/ UNCHANGED vars
      <3>1. UNCHANGED <<jobs, raws, documents, phase, attempt, limit, raw, errors, result, stored>>
        BY <2>5 DEF Done, vars
      <3> QED BY <3>1 DEF Inv, TypeOK, AllAccounted, DocumentsHaveArtifacts, ResultIsJob,
                          IsJob, AllStored, StoredIsJob, RunInv, InCall, Job, Current
    <2> QED BY <2>1, <2>2, <2>3, <2>4, <2>5 DEF Next
  <1> QED BY <1>1, <1>2, PTL DEF Spec

-----------------------------------------------------------------------------
(* Every variable holds what the code can put there.                       *)
THEOREM TypeCorrect == Spec => []TypeOK
  <1>1. Inv => TypeOK
    BY DEF Inv
  <1> QED BY <1>1, InvHolds, PTL

(* However a run ends, its job's status, closing log entry, document,      *)
(* errors and flags agree.                                                 *)
THEOREM JobsAreAccounted == Spec => []EndedJobsAreAccounted
  <1>1. Inv => EndedJobsAreAccounted
    BY DEF Inv, AllAccounted, Accounted, DocumentsHaveArtifacts, EndedJobsAreAccounted
  <1> QED BY <1>1, InvHolds, PTL

(* A document is only made of bytes the repository kept.                   *)
THEOREM ArtifactsAreKept == Spec => []DocumentsHaveArtifacts
  <1>1. Inv => DocumentsHaveArtifacts
    BY DEF Inv
  <1> QED BY <1>1, InvHolds, PTL

(* What a run returns, and storage then holds, is the job itself.          *)
THEOREM ResultsAreFaithful == Spec => []ResultsAreTheJobs
  <1>1. Inv => ResultsAreTheJobs
    BY DEF Inv, ResultIsJob, IsJob, AllStored, StoredIsJob, ResultsAreTheJobs
  <1> QED BY <1>1, InvHolds, PTL

-----------------------------------------------------------------------------
(* The chunks of a text.                                                   *)

Covered(i) == \E k \in 1..Len(spans) : spans[k][1] <= i /\ i < spans[k][2]

(* WordsStayWhole, of one span                                             *)
Whole(from, end) ==
    end < length /\ ~IsSpace(text[end]) =>
        \A i \in (from + 1)..(end - 1) : text[i] \notin {"space", "newline"}

SpansAreWhole == \A k \in 1..Len(spans) : Whole(spans[k][1], spans[k][2])

LoopInv ==
    /\ stage \in {"looping", "returned"} => Valid
    /\ stage = "called" => spans = <<>>
    /\ stage = "rejected" => spans = <<>>
    /\ stage = "looping" =>
          /\ start < length => ~IsSpace(text[start])
          /\ \A i \in 0..(start - 1) : IsSpace(text[i]) \/ Covered(i)
          /\ Len(spans) > 0 => /\ spans[Len(spans)][1] < start
                               /\ spans[Len(spans)][2] - start <= overlap_chars

SplitInv == SplitTypeOK /\ TextIsCovered /\ SpansFit /\ SpansAreWhole /\ OverlapIsBounded /\ LoopInv

-----------------------------------------------------------------------------
(* A set of numbers that is not empty has a least member.                  *)
LEMMA LeastIsLeast ==
    ASSUME NEW S, S \subseteq Nat, S # {}
    PROVE  Least(S) \in S /\ \A j \in S : Least(S) <= j
  <1>1. \E i \in S : \A j \in S : ~(<<j, i>> \in OpToRel(<, Nat))
    BY NatLessThanWellFounded, WFMin
  <1>2. PICK i \in S : \A j \in S : ~(<<j, i>> \in OpToRel(<, Nat))
    BY <1>1
  <1>3. \A j \in S : ~(j < i)
    BY <1>2, Zenon DEF OpToRel
  <1>4. \A j \in S : i <= j
    BY <1>3
  <1> QED BY <1>4 DEF Least

(* One that is bounded has a greatest: the least distance from the bound.  *)
LEMMA GreatestIsGreatest ==
    ASSUME NEW S, NEW n \in Nat, S \subseteq 0..n, S # {}
    PROVE  Greatest(S) \in S /\ \A j \in S : j <= Greatest(S)
  <1> DEFINE T == {n - i : i \in S}
  <1>1. T \subseteq Nat /\ T # {}
    <2>1. \A i \in S : n - i \in Nat
      OBVIOUS
    <2> QED BY <2>1
  <1>2. Least(T) \in T /\ \A t \in T : Least(T) <= t
    BY <1>1, LeastIsLeast
  <1> HIDE DEF T
  <1>3. PICK i \in S : Least(T) = n - i
    BY <1>2 DEF T
  <1>4. \A j \in S : j <= i
    <2> SUFFICES ASSUME NEW j \in S
                 PROVE  j <= i
      OBVIOUS
    <2>1. n - j \in T
      BY DEF T
    <2>2. n - i <= n - j
      BY <2>1, <1>2, <1>3
    <2> QED BY <2>2
  <1> QED BY <1>4 DEF Greatest

(* _next_non_whitespace stops at the first character, or behind the text.  *)
LEMMA NextNonWhitespaceFact ==
    ASSUME SplitTypeOK, NEW from \in 0..length
    PROVE  /\ NextNonWhitespace(from) \in from..length
           /\ NextNonWhitespace(from) < length => ~IsSpace(text[NextNonWhitespace(from)])
           /\ \A i \in from..(NextNonWhitespace(from) - 1) : IsSpace(text[i])
  <1> DEFINE S == {i \in from..length : i = length \/ ~IsSpace(text[i])}
  <1>1. length \in Nat
    BY SplitAssumption DEF SplitTypeOK
  <1>2. length \in S
    BY <1>1
  <1>3. S \subseteq Nat /\ S # {}
    BY <1>1, <1>2
  <1>4. Least(S) \in S /\ \A j \in S : Least(S) <= j
    BY <1>3, LeastIsLeast
  <1>5. NextNonWhitespace(from) = Least(S)
    BY DEF NextNonWhitespace
  <1>6. ASSUME NEW i \in from..(Least(S) - 1)
        PROVE  IsSpace(text[i])
    <2>1. i \notin S
      BY <1>1, <1>4
    <2> QED BY <2>1, <1>1, <1>4
  <1> QED BY <1>1, <1>4, <1>5, <1>6

(* len(text.rstrip()) leaves only white space behind.                      *)
LEMMA StrippedLengthFact ==
    ASSUME SplitTypeOK
    PROVE  /\ StrippedLength \in 0..length
           /\ \A i \in 0..(length - 1) : ~IsSpace(text[i]) => i < StrippedLength
  <1> DEFINE S == {0} \cup {i + 1 : i \in {j \in 0..(length - 1) : ~IsSpace(text[j])}}
  <1>1. length \in Nat
    BY SplitAssumption DEF SplitTypeOK
  <1>2. S \subseteq 0..length /\ S # {}
    BY <1>1
  <1>3. Greatest(S) \in S /\ \A j \in S : j <= Greatest(S)
    BY <1>1, <1>2, GreatestIsGreatest
  <1>4. StrippedLength = Greatest(S)
    BY DEF StrippedLength
  <1>5. \A i \in 0..(length - 1) : ~IsSpace(text[i]) => i + 1 \in S
    OBVIOUS
  <1> HIDE DEF S
  <1>6. Greatest(S) \in 0..length
    BY <1>2, <1>3
  <1> QED BY <1>1, <1>3, <1>4, <1>5, <1>6

(* _chunk_end takes at least one character and at most max_chars; where it *)
(* cuts a word there was nothing to cut at; and it leaves out nothing but  *)
(* the white space at the end of the text.                                 *)
LEMMA ChunkEndFact ==
    ASSUME SplitTypeOK, Valid, start < length, ~IsSpace(text[start])
    PROVE  /\ ChunkEnd(start) \in (start + 1)..length
           /\ ChunkEnd(start) <= start + max_chars
           /\ Whole(start, ChunkEnd(start))
  <1> DEFINE hard_end == HardEnd(start)
             paragraphs == ParagraphBreaks(start + 1, hard_end)
             breaks == WhitespaceBreaks(start + 1, hard_end)
             end == ChunkEnd(start)
  <1>1. length \in Nat /\ start \in Nat /\ max_chars \in Int /\ max_chars > 0
    BY SplitAssumption DEF SplitTypeOK, Valid
  <1>2. /\ hard_end \in (start + 1)..length
        /\ hard_end <= start + max_chars
    BY <1>1 DEF HardEnd
  <1>3. CASE hard_end = length
    <2>1. end = StrippedLength
      BY <1>3 DEF ChunkEnd
    <2>2. StrippedLength \in 0..length /\ start < StrippedLength
      BY <1>1, StrippedLengthFact DEF SplitTypeOK
    <2>3. end < length => IsSpace(text[end])
      BY <2>1, <2>2, <1>1, StrippedLengthFact
    <2> QED BY <1>1, <1>2, <1>3, <2>1, <2>2, <2>3 DEF Whole
  <1>4. CASE hard_end # length /\ paragraphs # {}
    <2>1. paragraphs \subseteq 0..length
      BY <1>1, <1>2 DEF ParagraphBreaks
    <2>2. Greatest(paragraphs) \in paragraphs
      BY <1>1, <1>4, <2>1, GreatestIsGreatest
    <2>3. end = Greatest(paragraphs)
      BY <1>4 DEF ChunkEnd
    <2>4. end \in (start + 1)..(hard_end - 2) /\ text[end] = "newline"
      BY <2>2, <2>3 DEF ParagraphBreaks
    <2>5. IsSpace(text[end])
      BY <2>4 DEF IsSpace
    <2>6. Whole(start, end)
      BY <2>5 DEF Whole
    <2> QED BY <1>1, <1>2, <2>4, <2>6
  <1>5. CASE hard_end # length /\ paragraphs = {} /\ breaks # {}
    <2>1. breaks \subseteq 0..length
      BY <1>1, <1>2 DEF WhitespaceBreaks
    <2>2. Greatest(breaks) \in breaks
      BY <1>1, <1>5, <2>1, GreatestIsGreatest
    <2>3. end = Greatest(breaks)
      BY <1>5 DEF ChunkEnd
    <2>4. end \in (start + 1)..(hard_end - 1) /\ text[end] \in {"space", "newline"}
      BY <2>2, <2>3 DEF WhitespaceBreaks
    <2>5. IsSpace(text[end])
      BY <2>4 DEF IsSpace
    <2>6. Whole(start, end)
      BY <2>5 DEF Whole
    <2> QED BY <1>1, <1>2, <2>4, <2>6
  <1>6. CASE hard_end # length /\ paragraphs = {} /\ breaks = {}
    <2>1. end = hard_end
      BY <1>6 DEF ChunkEnd
    <2>2. \A i \in (start + 1)..(hard_end - 1) : text[i] \notin {"space", "newline"}
      BY <1>6 DEF WhitespaceBreaks
    <2> QED BY <1>1, <1>2, <2>1, <2>2 DEF Whole
  <1> QED BY <1>3, <1>4, <1>5, <1>6

-----------------------------------------------------------------------------
(* What lies before the next start: the text before this one, this span,   *)
(* and what was skipped.                                                   *)
LEMMA Between ==
    ASSUME NEW here \in Nat, NEW from \in Int, NEW end \in Int, NEW next \in Int,
           from <= end, NEW i \in 0..(next - 1)
    PROVE  i \in 0..(here - 1) \/ i \in here..(end - 1) \/ i \in from..(next - 1)
  OBVIOUS

(* One turn of the loop, with end what _chunk_end returned.                *)
LEMMA TurnPreserves ==
    ASSUME SplitInv, AddSpan
    PROVE  SplitInv' /\ (stage' = "looping" => start < start')
  <1> DEFINE end == ChunkEnd(start)
             from == NextStart(start, end)
  <1>1. /\ stage = "looping" /\ start < length /\ Valid
        /\ ~IsSpace(text[start])
        /\ UNCHANGED <<text, length, max_chars, overlap_chars>>
        /\ spans' = Append(spans, <<start, end>>)
        /\ \/ end >= length /\ stage' = "returned" /\ start' = start
           \/ end < length /\ start' = NextNonWhitespace(from) /\ stage' = "looping"
    BY SplitAssumption, ChunkEndFact DEF AddSpan, SplitInv, LoopInv, SplitTypeOK, parameters
  <1>2. /\ length \in Nat /\ start \in 0..length
        /\ max_chars \in Int /\ overlap_chars \in Int
        /\ spans \in Seq((0..length) \X (0..length))
    BY SplitAssumption DEF SplitInv, SplitTypeOK
  <1>3. end \in (start + 1)..length /\ end <= start + max_chars /\ Whole(start, end)
    BY <1>1, ChunkEndFact DEF SplitInv
  <1> HIDE DEF end
  <1>4. /\ from \in (start + 1)..end
        /\ end - from <= overlap_chars
    BY <1>1, <1>2, <1>3 DEF NextStart, Valid
  <1> HIDE DEF from
  <1>5. from \in 0..length
    BY <1>2, <1>3, <1>4
  <1>6. /\ NextNonWhitespace(from) \in from..length
        /\ NextNonWhitespace(from) < length => ~IsSpace(text[NextNonWhitespace(from)])
        /\ \A i \in from..(NextNonWhitespace(from) - 1) : IsSpace(text[i])
    BY <1>5, NextNonWhitespaceFact DEF SplitInv
  <1>7. /\ Len(spans') = Len(spans) + 1
        /\ Len(spans) \in Nat
        /\ spans'[Len(spans')] = <<start, end>>
        /\ \A k \in 1..Len(spans) : spans'[k] = spans[k]
    BY <1>1, <1>2
  <1>8. SplitTypeOK'
    <2>1. start' \in 0..length
      BY <1>1, <1>2, <1>4, <1>6
    <2>2. spans' \in Seq((0..length) \X (0..length))
      BY <1>1, <1>2, <1>3
    <2>3. stage' \in {"looping", "returned"}
      BY <1>1
    <2> QED BY <1>1, <2>1, <2>2, <2>3 DEF SplitInv, SplitTypeOK
  <1>9. /\ \A i \in 0..(start - 1) : IsSpace(text[i]) \/ Covered(i)'
        /\ \A i \in start..(end - 1) : Covered(i)'
    <2>1. ASSUME NEW i \in 0..(start - 1)
          PROVE  IsSpace(text[i]) \/ Covered(i)'
      <3>1. IsSpace(text[i]) \/ Covered(i)
        BY <1>1 DEF SplitInv, LoopInv
      <3> QED BY <3>1, <1>7 DEF Covered
    <2>2. ASSUME NEW i \in start..(end - 1)
          PROVE  Covered(i)'
      <3>1. Len(spans') \in 1..Len(spans')
        BY <1>7
      <3>2. spans'[Len(spans')][1] <= i /\ i < spans'[Len(spans')][2]
        BY <1>2, <1>3, <1>7
      <3> QED BY <3>1, <3>2 DEF Covered
    <2> QED BY <2>1, <2>2
  <1>10. TextIsCovered'
    <2> SUFFICES ASSUME stage' = "returned", NEW i \in 0..(length - 1)
                 PROVE  IsSpace(text[i]) \/ Covered(i)'
      BY <1>1 DEF TextIsCovered, Covered
    <2>1. end = length
      BY <1>1, <1>2, <1>3
    <2> QED BY <2>1, <1>2, <1>9
  <1>11. Len(spans) > 0 => /\ spans[Len(spans)][1] < start
                           /\ spans[Len(spans)][2] - start <= overlap_chars
    BY <1>1 DEF SplitInv, LoopInv
  <1>12. SpansFit'
    <2> SUFFICES ASSUME NEW k \in 1..Len(spans')
                 PROVE  /\ ~IsSpace(text[spans'[k][1]])
                        /\ spans'[k][1] < spans'[k][2]
                        /\ spans'[k][2] <= spans'[k][1] + max_chars
                        /\ k < Len(spans') => spans'[k][1] < spans'[k + 1][1]
      BY <1>1 DEF SpansFit
    <2>1. CASE k = Len(spans')
      BY <2>1, <1>1, <1>2, <1>3, <1>7
    <2>2. CASE k < Len(spans)
      <3>1. k \in 1..Len(spans) /\ k + 1 \in 1..Len(spans)
        BY <2>2, <1>7
      <3> QED BY <3>1, <2>2, <1>7 DEF SplitInv, SpansFit
    <2>3. CASE k = Len(spans)
      <3>1. k \in 1..Len(spans) /\ k + 1 = Len(spans')
        BY <2>3, <1>7
      <3>2. spans'[k][1] < spans'[k + 1][1]
        BY <3>1, <2>3, <1>7, <1>11
      <3> QED BY <3>1, <3>2, <1>7 DEF SplitInv, SpansFit
    <2> QED BY <2>1, <2>2, <2>3, <1>7
  <1>13. SpansAreWhole'
    <2> SUFFICES ASSUME NEW k \in 1..Len(spans')
                 PROVE  Whole(spans'[k][1], spans'[k][2])
      BY <1>1 DEF SpansAreWhole, Whole
    <2>1. CASE k = Len(spans')
      BY <2>1, <1>3, <1>7
    <2>2. CASE k # Len(spans')
      <3>1. k \in 1..Len(spans)
        BY <2>2, <1>7
      <3> QED BY <3>1, <1>7 DEF SplitInv, SpansAreWhole
    <2> QED BY <2>1, <2>2
  <1>14. OverlapIsBounded'
    <2> SUFFICES ASSUME NEW k \in 1..Len(spans'), k < Len(spans')
                 PROVE  spans'[k][2] - spans'[k + 1][1] <= overlap_chars
      BY <1>1 DEF OverlapIsBounded
    <2>1. CASE k < Len(spans)
      <3>1. k \in 1..Len(spans) /\ k + 1 \in 1..Len(spans)
        BY <2>1, <1>7
      <3> QED BY <3>1, <2>1, <1>7 DEF SplitInv, OverlapIsBounded
    <2>2. CASE k = Len(spans)
      <3>1. k \in 1..Len(spans) /\ k + 1 = Len(spans')
        BY <2>2, <1>7
      <3> QED BY <3>1, <2>2, <1>7, <1>11
    <2> QED BY <2>1, <2>2, <1>7
  <1>15. LoopInv'
    <2>1. Valid'
      BY <1>1 DEF Valid
    <2>2. ASSUME stage' = "looping"
          PROVE  /\ start' < length => ~IsSpace(text[start'])
                 /\ \A i \in 0..(start' - 1) : IsSpace(text[i]) \/ Covered(i)'
                 /\ start < start'
                 /\ end - start' <= overlap_chars
      <3>1. start' = NextNonWhitespace(from)
        BY <2>2, <1>1
      <3>2. /\ start \in Nat /\ from \in Int /\ end \in Int /\ start' \in Int
            /\ overlap_chars \in Int
            /\ start < from /\ from <= start' /\ from <= end /\ end - from <= overlap_chars
        BY <1>2, <1>3, <1>4, <3>1, <1>6
      <3>3. ASSUME NEW i \in 0..(start' - 1)
            PROVE  IsSpace(text[i]) \/ Covered(i)'
        <4>1. i \in 0..(start - 1) \/ i \in start..(end - 1) \/ i \in from..(start' - 1)
          BY <3>2, Between
        <4> QED BY <4>1, <3>1, <1>6, <1>9
      <3>4. start < start' /\ end - start' <= overlap_chars
        <4>1. /\ start \in Int /\ from \in Int /\ end \in Int /\ start' \in Int
              /\ overlap_chars \in Int
          BY <3>2
        <4>2. \A a, b, c, d, e \in Int :
                 a < b /\ b <= d /\ c - b <= e => a < d /\ c - d <= e
          OBVIOUS
        <4>3. start < from /\ from <= start' /\ end - from <= overlap_chars
          BY <3>2
        <4> QED BY <4>1, <4>2, <4>3, Zenon
      <3> QED BY <3>1, <3>3, <3>4, <1>6
    <2>3. stage' \in {"looping", "returned"}
      BY <1>1
    <2> QED BY <1>1, <1>7, <2>1, <2>2, <2>3 DEF LoopInv
  <1>16. stage' = "looping" => start < start'
    BY <1>1, <1>2, <1>3, <1>4, <1>6
  <1> QED BY <1>8, <1>10, <1>12, <1>13, <1>14, <1>15, <1>16 DEF SplitInv

LEMMA SplitInvHolds == SplitSpec => []SplitInv
  <1>1. SplitInit => SplitInv
    BY SplitAssumption
       DEF SplitInit, SplitInv, SplitTypeOK, TextIsCovered, SpansFit, SpansAreWhole,
           OverlapIsBounded, LoopInv
  <1>2. SplitInv /\ [SplitNext]_splitVars => SplitInv'
    <2> SUFFICES ASSUME SplitInv, [SplitNext]_splitVars
                 PROVE  SplitInv'
      OBVIOUS
    <2> USE DEF SplitInv, SplitTypeOK, TextIsCovered, SpansFit, SpansAreWhole, Whole,
                OverlapIsBounded,
                LoopInv, Covered, Valid
    <2>1. CASE Reject
      BY <2>1 DEF Reject, parameters
    <2>2. CASE Begin
      <3>1. /\ Valid /\ stage' = "looping" /\ start' = NextNonWhitespace(0) /\ spans = <<>>
            /\ UNCHANGED <<text, length, max_chars, overlap_chars, spans>>
        BY <2>2 DEF Begin, parameters
      <3>2. length \in Nat /\ 0 \in 0..length
        BY SplitAssumption
      <3>3. /\ NextNonWhitespace(0) \in 0..length
            /\ NextNonWhitespace(0) < length => ~IsSpace(text[NextNonWhitespace(0)])
            /\ \A i \in 0..(NextNonWhitespace(0) - 1) : IsSpace(text[i])
        BY <3>2, NextNonWhitespaceFact
      <3>4. SplitTypeOK' /\ Valid'
        BY <3>1, <3>3
      <3>5. LoopInv'
        BY <3>1, <3>3, <3>4
      <3> QED BY <3>1, <3>4, <3>5
    <2>3. CASE AddSpan
      BY <2>3, TurnPreserves
    <2>4. CASE Return
      <3>1. start = length
        BY <2>4, SplitAssumption DEF Return
      <3> QED BY <2>4, <3>1 DEF Return, parameters
    <2>5. CASE SplitDone \/ UNCHANGED splitVars
      <3>1. UNCHANGED <<text, length, max_chars, overlap_chars, stage, start, spans>>
        BY <2>5 DEF SplitDone, splitVars
      <3> QED BY <3>1
    <2> QED BY <2>1, <2>2, <2>3, <2>4, <2>5 DEF SplitNext
  <1> QED BY <1>1, <1>2, PTL DEF SplitSpec

-----------------------------------------------------------------------------
(* The types of the state; a span is within the text.                      *)
THEOREM SplitTypeCorrect == SplitSpec => []SplitTypeOK
  <1>1. SplitInv => SplitTypeOK
    BY DEF SplitInv
  <1> QED BY <1>1, SplitInvHolds, PTL

(* For every text and every limit, the chunks hold all of the text.        *)
THEOREM ChunksHoldTheText == SplitSpec => []TextIsCovered
  <1>1. SplitInv => TextIsCovered
    BY DEF SplitInv
  <1> QED BY <1>1, SplitInvHolds, PTL

(* A chunk begins with a character, holds no more than max_chars of them,  *)
(* and each begins after the one before it.                                *)
THEOREM ChunksFit == SplitSpec => []SpansFit
  <1>1. SplitInv => SpansFit
    BY DEF SplitInv
  <1> QED BY <1>1, SplitInvHolds, PTL

(* A chunk ends inside a word only where there was nothing to cut at.      *)
THEOREM ChunksKeepWords == SplitSpec => []WordsStayWhole
  <1>1. SplitInv => WordsStayWhole
    BY DEF SplitInv, SpansAreWhole, Whole, WordsStayWhole
  <1> QED BY <1>1, SplitInvHolds, PTL

(* Neighbouring chunks share no more than overlap_chars characters.        *)
THEOREM ChunksOverlapLittle == SplitSpec => []OverlapIsBounded
  <1>1. SplitInv => OverlapIsBounded
    BY DEF SplitInv
  <1> QED BY <1>1, SplitInvHolds, PTL

(* Every turn of the loop comes closer to the end of the text.             *)
THEOREM LoopAdvances == SplitSpec => TurnsAdvance
  <1>1. SplitInv /\ [SplitNext]_splitVars =>
           [stage = "looping" /\ stage' = "looping" => start < start']_splitVars
    <2> SUFFICES ASSUME SplitInv, SplitNext, stage = "looping", stage' = "looping"
                 PROVE  start < start'
      OBVIOUS
    <2>1. CASE AddSpan
      BY <2>1, TurnPreserves
    <2>2. CASE Reject \/ Begin \/ Return \/ SplitDone
      BY <2>2 DEF Reject, Begin, Return, SplitDone
    <2> QED BY <2>1, <2>2 DEF SplitNext
  <1> QED BY <1>1, SplitInvHolds, PTL DEF SplitSpec, TurnsAdvance
=============================================================================

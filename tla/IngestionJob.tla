----------------------------- MODULE IngestionJob -----------------------------
(***************************************************************************)
(* run_ingestion_job: extraction with retries, normalisation, a document   *)
(* record, and the bookkeeping a job carries: its status, its log and its  *)
(* error list, each saved in the job repository as soon as it changes.     *)
(* The caller then commits what the run returned to storage.               *)
(*                                                                         *)
(* The extractor is the caller's: it returns an artifact, rejects with an  *)
(* IngestionError (retryable or not, with or without the bytes it had      *)
(* read), or raises anything else.  normalize_document does the same, and  *)
(* may flag a document as degraded.  Jobs run one at a time; what they     *)
(* were about, and what documents say, is left out.                        *)
(***************************************************************************)
EXTENDS Integers, Sequences, FiniteSets

CONSTANTS
    RetryLimits,   \* values of max_retries callers pass
    MaxJobs,       \* bound: ingestion runs
    NoResult       \* no call has returned yet, or the call raised

ASSUME ConstantsAssumption ==
    /\ RetryLimits \subseteq Int
    /\ MaxJobs \in Nat

(* event_name of a log entry                                               *)
Events == {"started", "retry", "extracted", "completed", "partial", "failed"}
Closing == {"completed", "partial", "failed"}
Operations == {"extract", "normalize"}
Ended == {"COMPLETED", "PARTIAL", "FAILED"}

VARIABLES
    jobs,      \* _jobs, in the order they were started
    raws,      \* jobs whose artifact is in _raw_artifacts
    documents, \* jobs whose document is in _documents
    phase,     \* idle, extract, normalize, returned, raised
    attempt,   \* of the extraction loop
    limit,     \* max_retries
    raw,       \* the local raw_artifact is not None
    errors,    \* the local list of errors
    result,    \* what the last call returned
    stored     \* repository.ingestion_jobs, with the logs and errors beside

vars == <<jobs, raws, documents, phase, attempt, limit, raw, errors, result, stored>>

Init ==
    /\ jobs = <<>>
    /\ raws = {}
    /\ documents = {}
    /\ phase = "idle"
    /\ attempt = 0
    /\ limit = 0
    /\ raw = FALSE
    /\ errors = <<>>
    /\ result = NoResult
    /\ stored = <<>>

Current == Len(jobs)
Job == jobs[Current]

(* Wrong: an error is logged beside the job, not with it.                  *)
ErrorNotAdded(job, operation) == job

(* add_error and add_log: the job with one more entry                      *)
WithError(job, operation) == [job EXCEPT !.errors = Append(@, operation)]
WithLog(job, event) == [job EXCEPT !.logs = Append(@, event)]

(* Wrong: an event name of its own for a degraded document.                *)
DegradedEvent(status) ==
    CASE status = "COMPLETED" -> "completed"
      [] status = "PARTIAL" -> "degraded"
      [] status = "FAILED" -> "failed"

(* _finish_job's event_name                                                *)
ClosingEvent(status) ==
    CASE status = "COMPLETED" -> "completed"
      [] status = "PARTIAL" -> "partial"
      [] status = "FAILED" -> "failed"

(* Wrong: the closing entry is logged beside the job.                      *)
FinishWithoutLog(job, status, flagged, collected) ==
    LET closed == [job EXCEPT !.status = status, !.flagged = flagged] IN
    /\ jobs' = [jobs EXCEPT ![Current] = closed]
    /\ result' = [job |-> closed, logs |-> closed.logs, errors |-> collected]
    /\ errors' = collected
    /\ phase' = "returned"

(* _finish_job: the closing entry, then the status.  What is returned      *)
(* holds the job's own log and the errors collected on the way.            *)
FinishJob(job, status, flagged, collected) ==
    LET closed == [WithLog(job, ClosingEvent(status)) EXCEPT !.status = status, !.flagged = flagged]
    IN /\ jobs' = [jobs EXCEPT ![Current] = closed]
       /\ result' = [job |-> closed, logs |-> closed.logs, errors |-> collected]
       /\ errors' = collected
       /\ phase' = "returned"

(* start_ingestion_job.  With a negative max_retries the loop is skipped.  *)
StartIngestionJob ==
    /\ phase = "idle"
    /\ Len(jobs) < MaxJobs
    /\ jobs' = Append(jobs, [status |-> "RUNNING", logs |-> <<"started">>, errors |-> <<>>,
                             flagged |-> FALSE])
    /\ \E max_retries \in RetryLimits :
          /\ limit' = max_retries
          /\ phase' = IF 0 < max_retries + 1 THEN "extract" ELSE "normalize"
    /\ attempt' = 0
    /\ raw' = FALSE
    /\ errors' = <<>>
    /\ result' = NoResult
    /\ UNCHANGED <<raws, documents, stored>>

(* The extractor returns an artifact.                                      *)
Extracted ==
    /\ phase = "extract"
    /\ raw' = TRUE
    /\ raws' = raws \cup {Current}
    /\ jobs' = [jobs EXCEPT ![Current] = WithLog(Job, "extracted")]
    /\ phase' = "normalize"
    /\ UNCHANGED <<documents, attempt, limit, errors, result, stored>>

(* Wrong: one retry more than there are attempts.                          *)
RetriesOneMore == attempt <= limit

MayRetry == attempt < limit

NextAttempt == attempt + 1

(* Wrong: a rejection is retried at once, before it is counted or logged.  *)
RetriesUncounted ==
    /\ phase = "extract"
    /\ MayRetry
    /\ \E partial \in BOOLEAN : raw' = partial
    /\ UNCHANGED <<jobs, raws, documents, phase, attempt, limit, errors, result, stored>>

(* The extractor rejects with a retryable error, and the loop goes on.     *)
(* The bytes of an earlier attempt are kept where this one brings none.    *)
ExtractionRetried ==
    /\ phase = "extract"
    /\ MayRetry
    /\ \E partial \in BOOLEAN : raw' = (raw \/ partial)
    /\ errors' = Append(errors, "extract")
    /\ jobs' = [jobs EXCEPT ![Current] = WithLog(WithError(Job, "extract"), "retry")]
    /\ attempt' = NextAttempt
    /\ phase' = IF NextAttempt < limit + 1 THEN "extract" ELSE "normalize"
    /\ UNCHANGED <<raws, documents, limit, result, stored>>

(* The extractor rejects for good, or for the last time.                   *)
ExtractionFails ==
    /\ phase = "extract"
    /\ \E partial \in BOOLEAN : raw' = (raw \/ partial)
    /\ \E retryable \in BOOLEAN : ~(retryable /\ MayRetry)
    /\ FinishJob(WithError(Job, "extract"), "FAILED", FALSE, Append(errors, "extract"))
    /\ UNCHANGED <<raws, documents, attempt, limit, stored>>

(* normalize_document, create_document_record and save_document            *)
Normalized ==
    /\ phase = "normalize"
    /\ raw
    /\ documents' = documents \cup {Current}
    /\ \/ FinishJob(Job, "COMPLETED", FALSE, errors)
       \/ FinishJob(WithError(Job, "normalize"), "PARTIAL", TRUE, Append(errors, "normalize"))
    /\ UNCHANGED <<raws, attempt, limit, raw, stored>>

(* The artifact cannot be parsed or is empty, or there is none.            *)
NormalizationFails ==
    /\ phase = "normalize"
    /\ FinishJob(WithError(Job, "normalize"), "FAILED", FALSE, Append(errors, "normalize"))
    /\ UNCHANGED <<raws, documents, attempt, limit, raw, stored>>

(* Any other exception leaves the call: an extractor's own, or the         *)
(* ValueError of date.fromisoformat on a text that holds 2026-13-01.       *)
Raises ==
    /\ \/ phase = "extract"
       \/ phase = "normalize" /\ raw
    /\ phase' = "raised"
    /\ UNCHANGED <<jobs, raws, documents, attempt, limit, raw, errors, result, stored>>

(* commit_ingestion_records with the job, logs and errors of the result,   *)
(* or the caller drops the result.                                         *)
CommitIngestionRecords ==
    /\ phase = "returned"
    /\ stored' = Append(stored, result)
    /\ phase' = "idle"
    /\ UNCHANGED <<jobs, raws, documents, attempt, limit, raw, errors, result>>

DropResult ==
    /\ phase \in {"returned", "raised"}
    /\ phase' = "idle"
    /\ UNCHANGED <<jobs, raws, documents, attempt, limit, raw, errors, result, stored>>

(* The bound is reached.                                                   *)
Done ==
    /\ phase = "idle"
    /\ Len(jobs) = MaxJobs
    /\ UNCHANGED vars

InRun ==
    \/ Extracted \/ ExtractionRetried \/ ExtractionFails
    \/ Normalized \/ NormalizationFails \/ Raises

Next == StartIngestionJob \/ InRun \/ CommitIngestionRecords \/ DropResult \/ Done

Spec == Init /\ [][Next]_vars

(* A call, once made, is carried on by its thread.                         *)
FairSpec == Spec /\ WF_vars(InRun)

-----------------------------------------------------------------------------
(* Properties.                                                             *)

Jobs == [status : {"RUNNING"} \cup Ended, logs : Seq(Events), errors : Seq(Operations),
         flagged : BOOLEAN]
Result == [job : Jobs, logs : Seq(Events), errors : Seq(Operations)]

(* Every variable holds what the code can put there.                       *)
TypeOK ==
    /\ jobs \in Seq(Jobs)
    /\ raws \subseteq 1..Len(jobs)
    /\ documents \subseteq 1..Len(jobs)
    /\ phase \in {"idle", "extract", "normalize", "returned", "raised"}
    /\ attempt \in Nat
    /\ limit \in Int
    /\ raw \in BOOLEAN
    /\ errors \in Seq(Operations)
    /\ result \in Result \cup {NoResult}
    /\ stored \in Seq(Result)

(* A job's log has one closing entry, at its end and of its status; it     *)
(* completed, whole or in part, exactly if it left a document, which is    *)
(* made of bytes the repository kept; and a job that did not complete in   *)
(* full says why.                                                          *)
EndedJobsAreAccounted ==
    \A j \in 1..Len(jobs) :
        LET job == jobs[j] IN
        /\ \A i \in 1..Len(job.logs) :
              job.logs[i] \in Closing <=> i = Len(job.logs) /\ job.status \in Ended
        /\ job.status \in Ended => job.logs[Len(job.logs)] = ClosingEvent(job.status)
        /\ j \in documents <=> job.status \in {"COMPLETED", "PARTIAL"}
        /\ j \in documents => j \in raws
        /\ job.status \in {"PARTIAL", "FAILED"} => job.errors # <<>>
        /\ job.flagged <=> job.status = "PARTIAL"

(* A document is only made of bytes the repository kept: not of what a     *)
(* rejected attempt had read, and not after the loop ran out.              *)
DocumentsHaveArtifacts == documents \subseteq raws

(* What is returned, and what storage then holds, is the job as the        *)
(* repository has it, with every error and log entry the job names.        *)
ResultsAreTheJobs ==
    /\ result # NoResult =>
          result.job = Job /\ result.logs = Job.logs /\ result.errors = Job.errors
    /\ \A i \in 1..Len(stored) :
          /\ \E j \in 1..Len(jobs) : stored[i].job = jobs[j]
          /\ stored[i].job.status \in Ended
          /\ stored[i].logs = stored[i].job.logs /\ stored[i].errors = stored[i].job.errors

(* Every call comes back, with a result or an exception.                   *)
RunsEnd == phase \in {"extract", "normalize"} ~> phase \in {"returned", "raised"}
=============================================================================

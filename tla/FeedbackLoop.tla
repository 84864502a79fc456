---------------------------- MODULE FeedbackLoop ----------------------------
(***************************************************************************)
(* Feedback and evaluation (feedback/__init__.py, evaluation/__init__.py): *)
(* what users say of answers becomes feedback records, those become        *)
(* improvement tasks, evaluation traces and cases, and cases become        *)
(* reports.  Every call makes its records, saves them one by one through   *)
(* hooks that the repository may lack (shared/repository_hooks.py) or that *)
(* may raise, and then tells of it in an error envelope and a log, through *)
(* hooks of the same kind.                                                 *)
(***************************************************************************)
EXTENDS Integers, FiniteSets, Sequences

CONSTANTS
    Repositories,  \* sets of hooks: of the repositories a caller may hand in
    Texts,         \* the categories whose keywords a text may hold
    Validations,   \* the ValidationRecords that are handed in
    Reviewed,      \* FeedbackRecords of reviewers, which no call has classified
    MaxBatch,      \* bound: records handed to one call
    MaxIds,        \* bound: ids
    MaxCalls,      \* bound: calls
    MaxRaises,     \* bound: hooks that raise
    Nothing        \* None

Categories == {"retrieval", "ranking", "validation", "synthesis", "freshness", "access",
               "unclear_query"}
Ratings == {"useful", "not_useful", "partially_useful", "incorrect"}
Operations == {"capture_feedback", "create_improvement_tasks", "store_evaluation_trace",
               "evaluate_batch", "build_observability_report"}

Kinds == {"feedback", "improvement_task", "trace", "evaluation_case", "evaluation_report",
          "observability_report"}
Hooks == Kinds \cup {"log", "error"}

Criteria == {"relevance", "sufficiency", "freshness", "citation", "contradiction", "access"}
Validation == [failed : SUBSET Criteria, stale : BOOLEAN, uncited : BOOLEAN, rejected : BOOLEAN]

ASSUME LoopAssumption ==
    /\ Repositories \subseteq SUBSET Hooks
    /\ Texts \subseteq Categories \cup {Nothing}
    /\ Validations \subseteq Validation \cup {Nothing}
    /\ \A f \in Reviewed : /\ f.kind = "feedback" /\ f.id \in Int /\ f.id <= 0
                           /\ f.rating \in Ratings /\ f.category = Nothing
    /\ IsFiniteSet(Reviewed)
    /\ {MaxBatch, MaxIds, MaxCalls, MaxRaises} \subseteq Nat
    /\ Nothing \notin Categories \cup Validation

VARIABLES
    hooks,    \* the hooks of the repository
    kept,     \* the records in the repository, by any of its save hooks
    logs,     \* its logs
    errors,   \* the calls whose error envelope it has
    held,     \* the feedback records and cases the callers hold
    made,     \* the number of ids made
    call,     \* the call under way: what it still has to save, and its stage
    outcome,  \* how a call has just ended, with the records it returned
    calls,
    raises

vars == <<hooks, kept, logs, errors, held, made, call, outcome, calls, raises>>

RangeOf(s) == {s[i] : i \in DOMAIN s}
Of(kind, records) == {r \in records : r.kind = kind}
Ids(records) == {r.id : r \in records}

-----------------------------------------------------------------------------
(* What feedback is about.                                                 *)

CategoryOfRating(rating) ==
    CASE rating = "useful" -> Nothing
      [] rating = "not_useful" -> "retrieval"
      [] rating = "partially_useful" -> "validation"
      [] OTHER -> "synthesis"

CategoryOfValidation(v) ==
    IF "access" \in v.failed THEN "access"
    ELSE IF "freshness" \in v.failed \/ v.stale THEN "freshness"
    ELSE IF v.uncited THEN "synthesis"
    ELSE IF v.failed \cap {"relevance", "sufficiency"} # {} THEN "retrieval"
    ELSE IF v.rejected THEN "validation"
    ELSE Nothing

(* Keywords come first, then the validation, then evidence that is all     *)
(* excluded, then the rating.                                              *)
Classified(rating, text, validation, excluded) ==
    LET checked == IF validation = Nothing THEN Nothing ELSE CategoryOfValidation(validation)
    IN  IF text # Nothing THEN text
        ELSE IF checked # Nothing THEN checked
        ELSE IF excluded THEN "access"
        ELSE CategoryOfRating(rating)

-----------------------------------------------------------------------------
(* Improvement tasks.                                                      *)

(* Wrong: only the category that a record has counts.                      *)
CategoryAsGiven(f) == f.category

CategoryOf(f) == IF f.category # Nothing THEN f.category ELSE CategoryOfRating(f.rating)

Priority(category, batch, low) ==
    IF "incorrect" \in {f.rating : f \in batch} \/ category \in {"access", "freshness"} THEN 1
    ELSE IF low \/ "not_useful" \in {f.rating : f \in batch} THEN 2
    ELSE 3

(* One task for each category, in the order in which the categories first  *)
(* come up, and each with every feedback id of the batch.                  *)
Firsts(batch) ==
    {i \in DOMAIN batch : /\ CategoryOf(batch[i]) # Nothing
                          /\ \A j \in 1..(i - 1) : CategoryOf(batch[j]) # CategoryOf(batch[i])}

Tasks(batch, low) ==
    [k \in 1..Cardinality(Firsts(batch)) |->
        LET i == CHOOSE j \in Firsts(batch) : Cardinality({h \in Firsts(batch) : h <= j}) = k
        IN  [kind |-> "improvement_task", id |-> made + k, category |-> CategoryOf(batch[i]),
             feedback |-> Ids(RangeOf(batch)),
             priority |-> Priority(CategoryOf(batch[i]), RangeOf(batch), low)]]

-----------------------------------------------------------------------------
(* Cases and reports.                                                      *)

(* Wrong: the report is saved before its cases.                            *)
ReportThenCases(cases, report) == <<report>> \o cases

CasesThenReport(cases, report) == cases \o <<report>>

(* Feedback without a category is not counted, and a case that is handed   *)
(* in twice is counted twice.                                              *)
FailureCounts(cases) ==
    [c \in Categories |->
        Cardinality({at \in (DOMAIN cases) \X Of("feedback", held) :
                        at[2] \in cases[at[1]].feedback /\ at[2].category = c})]

Report(cases, tasks) ==
    [kind |-> "evaluation_report", id |-> made + 1, cases |-> [i \in DOMAIN cases |-> cases[i].id],
     failures |-> FailureCounts(cases), tasks |-> tasks]

(* The name of an event says which operation logged it, and how it went.   *)
EventCounts ==
    [e \in Operations \X BOOLEAN |-> Cardinality({l \in logs : <<l.op, l.ok>> = e})]

-----------------------------------------------------------------------------
Init ==
    /\ hooks \in Repositories
    /\ kept = {} /\ logs = {} /\ errors = {} /\ held = Reviewed
    /\ made = 0
    /\ call = Nothing
    /\ outcome = Nothing
    /\ calls = 0 /\ raises = 0

Begin(op, records, batch, fresh) ==
    /\ call = Nothing
    /\ calls < MaxCalls
    /\ made + fresh <= MaxIds
    /\ made' = made + fresh
    /\ calls' = calls + 1
    /\ call' = [op |-> op, records |-> records, batch |-> batch, todo |-> records,
                stage |-> "saving"]
    /\ outcome' = Nothing
    /\ UNCHANGED <<hooks, kept, logs, errors, raises>>

Batches(records) == UNION {[1..n -> records] : n \in 0..MaxBatch}

Capture(rating, explicit, text, validation, excluded) ==
    LET f == [kind |-> "feedback", id |-> made + 1, rating |-> rating,
              category |-> IF explicit # Nothing THEN explicit
                           ELSE Classified(rating, text, validation, excluded)]
    IN  /\ Begin("capture_feedback", <<f>>, <<>>, 1)
        /\ UNCHANGED held

CreateTasks(batch, low) ==
    /\ Begin("create_improvement_tasks", Tasks(batch, low), batch, Cardinality(Firsts(batch)))
    /\ UNCHANGED held

StoreTrace(batch) ==
    /\ Begin("store_evaluation_trace",
             <<[kind |-> "trace", id |-> made + 1, feedback |-> Ids(RangeOf(batch)),
                categories |-> {f.category : f \in RangeOf(batch)} \ {Nothing}]>>, batch, 1)
    /\ UNCHANGED held

EvaluateBatch(cases, tasks) ==
    /\ Begin("evaluate_batch", CasesThenReport(cases, Report(cases, tasks)), cases, 1)
    /\ UNCHANGED held

(* A caller hands in the logs and errors of the repository.                *)
Observe ==
    /\ Begin("build_observability_report",
             <<[kind |-> "observability_report", id |-> made + 1, events |-> EventCounts,
                errors |-> Cardinality(errors)]>>, <<>>, 1)
    /\ UNCHANGED held

(* An evaluation case is made and held; nothing is saved.                   *)
BuildCase(feedback) ==
    /\ call = Nothing
    /\ made < MaxIds
    /\ made' = made + 1
    /\ held' = held \cup {[kind |-> "evaluation_case", id |-> made + 1, feedback |-> feedback]}
    /\ outcome' = Nothing
    /\ UNCHANGED <<hooks, kept, logs, errors, call, calls, raises>>

-----------------------------------------------------------------------------
(* The steps of a call.                                                    *)

(* A hook that is not there does nothing.  One that raises may have stored *)
(* what it was given: the durable add_log and save_error have.             *)
After(hook, stored, item) == IF hook \in hooks THEN stored \cup {item} ELSE stored

Raises(hook) == hook \in hooks /\ raises < MaxRaises /\ raises' = raises + 1

At(stage) == call # Nothing /\ call.stage = stage

Save ==
    /\ At("saving") /\ call.todo # <<>>
    /\ kept' = After(Head(call.todo).kind, kept, Head(call.todo))
    /\ call' = [call EXCEPT !.todo = Tail(@)]
    /\ UNCHANGED <<hooks, logs, errors, held, made, outcome, calls, raises>>

(* Wrong: the others are saved, and the call goes on as if it were well.   *)
SkipIt == [call EXCEPT !.todo = Tail(@)]

(* The first exception ends the saving.                                    *)
GiveUp == [call EXCEPT !.stage = "failed"]

SaveRaises ==
    /\ At("saving") /\ call.todo # <<>>
    /\ Raises(Head(call.todo).kind)
    /\ kept' \in {kept, kept \cup {Head(call.todo)}}
    /\ call' = GiveUp
    /\ UNCHANGED <<hooks, logs, errors, held, made, outcome, calls>>

SaveError ==
    /\ At("failed")
    /\ errors' = After("error", errors, calls)
    /\ call' = [call EXCEPT !.stage = "enveloped"]
    /\ UNCHANGED <<hooks, kept, logs, held, made, outcome, calls, raises>>

Ends(how) ==
    /\ call' = Nothing
    /\ outcome' = [op |-> call.op, how |-> how, records |-> call.records, batch |-> call.batch]
    /\ held' = held \cup IF how = "raised" THEN {} ELSE Of("feedback", RangeOf(call.records))

(* An exception of the telemetry leaves the handler: nothing is returned.  *)
ErrorRaises ==
    /\ At("failed")
    /\ Raises("error")
    /\ errors' \in {errors, errors \cup {calls}}
    /\ Ends("raised")
    /\ UNCHANGED <<hooks, kept, logs, made, calls>>

Log == [op |-> call.op, call |-> calls, ok |-> call.stage = "saving",
        records |-> RangeOf(call.records)]

ReadyToLog == call # Nothing /\ \/ call.stage = "saving" /\ call.todo = <<>>
                                \/ call.stage = "enveloped"

AddLog ==
    /\ ReadyToLog
    /\ logs' = After("log", logs, Log)
    /\ Ends(IF call.stage = "saving" THEN "ok" ELSE "failed")
    /\ UNCHANGED <<hooks, kept, errors, made, calls, raises>>

LogRaises ==
    /\ ReadyToLog
    /\ Raises("log")
    /\ logs' \in {logs, logs \cup {Log}}
    /\ Ends("raised")
    /\ UNCHANGED <<hooks, kept, errors, made, calls>>

-----------------------------------------------------------------------------
Calls ==
    \/ \E rating \in Ratings, text \in Texts, validation \in Validations, excluded \in BOOLEAN :
          Capture(rating, Nothing, text, validation, excluded)
    \/ \E rating \in Ratings, explicit \in Texts :
          Capture(rating, explicit, Nothing, Nothing, FALSE)
    \/ \E batch \in Batches(Of("feedback", held)) :
          StoreTrace(batch) \/ \E low \in BOOLEAN : CreateTasks(batch, low)
    \/ \E cases \in Batches(Of("evaluation_case", held)) :
          EvaluateBatch(cases, Ids(Of("improvement_task", kept)))
    \/ Observe
    \/ \E feedback \in SUBSET Of("feedback", held) : BuildCase(feedback)

Step == Save \/ SaveRaises \/ SaveError \/ ErrorRaises \/ AddLog \/ LogRaises

Stop == call = Nothing /\ UNCHANGED vars

Next == Calls \/ Step \/ Stop

Spec == Init /\ [][Next]_vars

-----------------------------------------------------------------------------
(* Properties.                                                             *)

(* The types of the state.                                                 *)
TypeOK ==
    /\ hooks \subseteq Hooks
    /\ made \in Nat /\ calls \in Nat /\ raises \in Nat
    /\ \A r \in kept : r.kind \in Kinds \cap hooks /\ r.id \in 1..made
    /\ IsFiniteSet(held)
    /\ \A r \in held : r.kind \in {"feedback", "evaluation_case"} /\ r.id \in Int /\ r.id <= made
    /\ \A l \in logs : l.op \in Operations /\ l.call \in 1..calls /\ l.ok \in BOOLEAN
    /\ errors \subseteq 1..calls
    /\ call # Nothing =>
          /\ call = [op |-> call.op, records |-> call.records, batch |-> call.batch,
                     todo |-> call.todo, stage |-> call.stage]
          /\ call.op \in Operations
          /\ call.stage \in {"saving", "failed", "enveloped"}
          /\ calls > 0

(* What the telemetry says of a call is so, whichever hook raised in it or *)
(* in a later one: the records of a success are all kept, as far as there  *)
(* is a hook for them, a failure has its envelope, and a result that names *)
(* no failure has kept what it returns.                                    *)
TelemetryIsTrue ==
    /\ \A l \in logs :
          IF l.ok THEN \A r \in l.records : r.kind \in hooks => r \in kept
          ELSE "error" \in hooks => l.call \in errors
    /\ outcome # Nothing /\ outcome.how = "ok" =>
          \A r \in RangeOf(outcome.records) : r.kind \in hooks => r \in kept

(* A report that is kept has all its cases, if there is a hook for cases,  *)
(* and its failure counts are those of the feedback in the cases that are  *)
(* kept: a call that fails half-way leaves cases without a report and never*)
(* a report without a case, nor one that counts another case's failures    *)
(* (evaluate_batch).                                                       *)
ReportsHaveTheirCases ==
    \A report \in Of("evaluation_report", kept) :
        "evaluation_case" \in hooks =>
            \E cases \in [DOMAIN report.cases -> Of("evaluation_case", kept)] :
                /\ \A i \in DOMAIN cases : cases[i].id = report.cases[i]
                /\ \A category \in Categories :
                      LET Failures(i) == {f \in cases[i].feedback : f.category = category}
                      IN  report.failures[category] =
                            Cardinality({at \in (DOMAIN cases) \X UNION {Failures(i) : i \in DOMAIN cases} :
                                            at[2] \in Failures(at[1])})

(* "Feedback can create append-only improvement tasks by failure category" *)
(* (project_milestones.md:239): when create_improvement_tasks returns with *)
(* no failure, the tasks are one for each category the batch is at fault   *)
(* in, which is the category a feedback was given or, failing that, the one*)
(* its rating stands for; each feedback is in the task of its category, and*)
(* feedback that says an answer is incorrect makes all of them urgent.     *)
TasksCoverFailures ==
    outcome # Nothing /\ outcome.op = "create_improvement_tasks" /\ outcome.how = "ok" =>
        LET tasks == RangeOf(outcome.records)
            batch == RangeOf(outcome.batch)
            Fault(f) == IF f.category = Nothing THEN CategoryOfRating(f.rating) ELSE f.category
        IN  /\ {t.category : t \in tasks} = {Fault(f) : f \in batch} \ {Nothing}
            /\ Len(outcome.records) = Cardinality({t.category : t \in tasks})
            /\ \A t \in tasks :
                  /\ {f.id : f \in {g \in batch : Fault(g) = t.category}} \subseteq t.feedback
                  /\ "improvement_task" \in hooks => t \in kept
            /\ (\E f \in batch : f.rating = "incorrect") => \A t \in tasks : t.priority = 1
=============================================================================

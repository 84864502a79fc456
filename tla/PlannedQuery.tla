----------------------------- MODULE PlannedQuery -----------------------------
(***************************************************************************)
(* run_query of the orchestration adapter and, under it, run_planned_query: *)
(* plan, retrieval, ranking, validation, synthesis, check of the claims.   *)
(* The adapter gives the query to an injected graph application or runs it *)
(* itself, and runs it itself if the application fails.                    *)
(*                                                                         *)
(* Queries run one at a time.  Each component writes logs and records to   *)
(* the repository as it goes, and a repository that keeps files may refuse *)
(* a write: an exception can end the query at each step.  Texts, scores    *)
(* and dates are left out, what the checks make of them is any outcome     *)
(* they can have; logs are left out but for the one that closes a run.     *)
(***************************************************************************)
EXTENDS Integers, FiniteSets

CONSTANTS
    Chunks,      \* what the indexes can find
    Text,        \* [Chunks -> "plain", "mixed" or "blank"]
    Cited,       \* chunks of documents with an address, which can be cited
    Requests,    \* the requests callers make
    MaxClaims,   \* max_claims of generate_answer
    MaxRuns,     \* bound: queries
    Nothing      \* no validation, answer or result

QueryTypes == {"exact", "semantic", "graph", "fresh-data", "high-risk", "multi-hop", "mixed"}
Request == [type : QueryTypes, direct : BOOLEAN, vague : BOOLEAN, top_k : Int, repairs : Int]

ASSUME ConstantsAssumption ==
    /\ IsFiniteSet(Chunks)
    /\ Text \in [Chunks -> {"plain", "mixed", "blank"}]
    /\ Requests \subseteq Request
    /\ MaxClaims \in Nat /\ MaxRuns \in Nat

VARIABLES
    run,         \* queries so far
    request,     \* what the current one asks for
    visible,     \* the chunks the access filter lets its caller see
    service,     \* the adapter: has it an application, may it fall back
    phase,       \* where the query is
    attempt,     \* who runs it: "app", "local" or, after a failure, "fallback"
    evidence,    \* the ranked candidates
    graph,       \* they come from the graph, with their relations
    verdict,     \* the validation record in hand
    answer,      \* the planned query's result in hand
    result,      \* what run_query returned
    validations, \* the repository: validation records,
    claims,      \*   claim records,
    errors,      \*   error envelopes
    completed    \*   and the runs with an orchestration_completed log

repository == <<validations, claims, errors, completed>>
hand == <<evidence, graph, verdict, answer>>
query == <<run, request, visible, service>>
vars == <<query, phase, attempt, hand, result, repository>>

-----------------------------------------------------------------------------
(* The plan.  What the words of a query make of it is part of the request. *)

Least(i, j) == IF i < j THEN i ELSE j

(* select_retrieval_modes                                                  *)
SelectedModes(r) ==
    IF r.direct THEN {"no_retrieval"}
    ELSE CASE r.type = "exact"     -> {"keyword"}
           [] r.type = "semantic"  -> {"vector", "hybrid"}
           [] r.type = "graph"     -> {"graph", "hybrid"}
           [] r.type = "multi-hop" -> {"hybrid", "iterative"}
           [] OTHER                -> {"hybrid"}

(* set_retrieval_budget: a negative value counts as not supplied.          *)
TopK(r) ==
    IF r.top_k >= 0 THEN Least(r.top_k, 20)
    ELSE CASE r.type = "exact" -> 5
           [] r.type \in {"fresh-data", "high-risk", "multi-hop"} -> 10
           [] r.type = "mixed" -> 8
           [] OTHER -> 6

MaxRepairs(r) ==
    IF r.repairs >= 0 THEN Least(r.repairs, 3)
    ELSE IF r.type \in {"fresh-data", "high-risk", "multi-hop"} THEN 2 ELSE 1

(* Every plan is the first: repair_attempt is 0.                           *)
RepairAttempt == 0

(* _required_validations.  What asks for fresh data is classified as such. *)
RequiredValidations(r) ==
    {"relevance", "sufficiency", "citation", "access", "contradiction"}
        \cup (IF r.type = "fresh-data" THEN {"freshness"} ELSE {})

-----------------------------------------------------------------------------
(* Validation and synthesis.                                               *)

(* _is_usable: the filter allowed it and it has a text.  Every candidate   *)
(* has a chunk id to refer to, which is also all _is_approved asks more.   *)
Usable(found) == {c \in found : c \in visible /\ Text[c] # "blank"}

Criteria == {"relevance", "sufficiency", "freshness", "citation", "access", "contradiction"}

(* What the checks can find.  A check of a score or a date has any outcome *)
(* once there is something to check, a contradiction in the texts takes    *)
(* two of them, one among the relations takes a relation.                  *)
Findings(found) ==
    LET usable == Usable(found) IN
    {f \in [failed : SUBSET Criteria, contradiction : {"none", "possible", "confirmed"}] :
        /\ "access" \in f.failed <=> ~(found \subseteq visible)
        /\ "citation" \in f.failed <=> usable = {}
        /\ usable = {} => {"relevance", "sufficiency"} \subseteq f.failed
        /\ "freshness" \in f.failed => usable # {}
        /\ "contradiction" \in f.failed <=> f.contradiction # "none"
        /\ f.contradiction = "possible" => Cardinality(usable) > 1
        /\ f.contradiction = "confirmed" => graph /\ usable # {}}

(* The repair of a failure that may be repaired.  Where only the citation  *)
(* failed, it is missing.                                                  *)
Repair(failed, r) ==
    IF r.vague THEN "clarify"
    ELSE IF "freshness" \in failed THEN "external_lookup"
    ELSE IF failed \cap {"contradiction", "sufficiency"} # {} THEN "retrieve_more"
    ELSE IF "relevance" \in failed THEN "rewrite"
    ELSE "stop"

Blocked(failed, contradiction) == "access" \in failed \/ contradiction = "confirmed"

(* Wrong: the limit of repairs is forgotten.                               *)
RepairWithoutLimit(failed, contradiction, r) ==
    IF failed = {} THEN "none"
    ELSE IF Blocked(failed, contradiction) THEN "stop"
    ELSE Repair(failed, r)

(* choose_repair_action                                                    *)
RepairAction(failed, contradiction, r) ==
    IF failed = {} THEN "none"
    ELSE IF RepairAttempt >= MaxRepairs(r) \/ Blocked(failed, contradiction) THEN "stop"
    ELSE Repair(failed, r)

(* _validation_status, with no claims to support yet                       *)
ValidationStatus(failed, action) ==
    IF failed = {} THEN "pass"
    ELSE CASE action = "clarify" -> "clarification_needed"
           [] action = "stop"    -> "fail"
           [] OTHER              -> "repair_needed"

(* Wrong: what a repair could still improve is answered from.              *)
AnswersUnlessFailed(status) == IF status = "fail" THEN {} ELSE Usable(evidence)

(* Only a validation that passed gives the synthesis anything to say.      *)
SynthesisEvidence(status) == IF status = "pass" THEN Usable(evidence) ELSE {}

(* _limitations: those that follow from the evidence and the status, and   *)
(* any of those that follow from its dates and reliability and from the    *)
(* words of the query.                                                     *)
Limitations(used, status) ==
    {(IF used = {} THEN {"no evidence"} ELSE {})
        \cup (IF Cardinality(used) = 1 THEN {"only one"} ELSE {})
        \cup (IF used \subseteq Cited THEN {} ELSE {"no link"})
        \cup (IF status # "pass" THEN {"not passed"} ELSE {})
        \cup data : data \in SUBSET ((IF used = {} THEN {} ELSE {"stale", "unreliable"})
                                          \cup (IF request.vague THEN {"few terms"} ELSE {}))}

(* _confidence_level: of the scores of the claims as synthesis made them.  *)
Confidence(made, limits, status) ==
    IF made = {} \/ status # "pass" THEN {"low"}
    ELSE {"low", "medium"} \cup (IF Cardinality(limits) <= 1 THEN {"high"} ELSE {})

(* check_claim_support.  A claim is a sentence of its chunk, so the words  *)
(* support it; it is contradicted where another sentence has a negation    *)
(* and this one has none, or the other way round.                          *)
Support(c) == IF Text[c] = "mixed" THEN {"supported", "contradicted"} ELSE {"supported"}

(* _repair_execution_trace                                                 *)
RepairTrace(v) ==
    IF v.status \notin {"repair_needed", "fail"} THEN Nothing
    ELSE [action |-> v.action,
          exhausted |-> \/ v.status = "fail"
                        \/ v.action = "stop"
                        \/ RepairAttempt >= MaxRepairs(request)]

-----------------------------------------------------------------------------
Init ==
    /\ run = 0
    /\ request \in Requests
    /\ visible = {}
    /\ service = [app |-> FALSE, fallback |-> TRUE]
    /\ phase = "idle"
    /\ attempt = "local"
    /\ evidence = {} /\ graph = FALSE /\ verdict = Nothing /\ answer = Nothing
    /\ result = Nothing
    /\ validations = {} /\ claims = {} /\ errors = {} /\ completed = {}

Empty == evidence' = {} /\ graph' = FALSE /\ verdict' = Nothing /\ answer' = Nothing

Envelope(operation) == [run |-> run, attempt |-> attempt, operation |-> operation]

(* run_query: the health check and the first log, which may be refused.    *)
(* Without an application and without the fallback it returns at once; its *)
(* error is not saved.                                                     *)
RunQuery ==
    /\ phase = "idle"
    /\ run < MaxRuns
    /\ run' = run + 1
    /\ request' \in Requests
    /\ visible' \in SUBSET Chunks
    /\ service' \in [app : BOOLEAN, fallback : BOOLEAN]
    /\ attempt' = IF service'.app THEN "app" ELSE "local"
    /\ \/ /\ service'.app \/ service'.fallback
          /\ phase' = "plan"
          /\ result' = Nothing
       \/ /\ ~service'.app /\ ~service'.fallback
          /\ phase' = "returned"
          /\ result' = [ok |-> FALSE, fallback |-> FALSE, error |-> "unavailable", answer |-> Nothing]
       \/ /\ phase' = "raised"
          /\ result' = Nothing
    /\ Empty
    /\ UNCHANGED repository

(* plan_request and its logs.  A direct response ends the query here.      *)
PlanRequest ==
    /\ phase = "plan"
    /\ \/ /\ SelectedModes(request) = {"no_retrieval"}
          /\ answer' = [attempt |-> attempt, direct |-> TRUE, claims |-> {}, status |-> "none",
                        limitations |-> {}, confidence |-> "none", trace |-> Nothing]
          /\ phase' = "answered"
       \/ /\ SelectedModes(request) # {"no_retrieval"}
          /\ phase' = "retrieve"
          /\ UNCHANGED answer
    /\ UNCHANGED <<query, attempt, evidence, graph, verdict, result, repository>>

(* Each index searched gives top_k hits at most: the keywords only, the    *)
(* graph and then both text indexes, or these two.                         *)
MaxHits(r) == TopK(r) * (CASE r.type = "exact" -> 1 [] r.type = "graph" -> 3 [] OTHER -> 2)

(* The merge keeps the best top_k of what the access filter lets through.  *)
Merged(seen) ==
    {s \in SUBSET seen : Cardinality(s) = Least(TopK(request), Cardinality(seen))}

(* _execute_plan_retrieval, then select_ranked_evidence, which orders the  *)
(* candidates and drops none.  The graph is searched first, the text       *)
(* indexes if nothing comes of it.  The filter saves an error envelope for *)
(* what it excludes.                                                       *)
RetrieveAndRank ==
    /\ phase = "retrieve"
    /\ \E hits \in SUBSET Chunks :
          /\ Cardinality(hits) <= MaxHits(request)
          /\ evidence' \in Merged(hits \cap visible)
          /\ errors' = IF hits \subseteq visible THEN errors ELSE errors \cup {Envelope("filter")}
    /\ graph' \in BOOLEAN
    /\ graph' => "graph" \in SelectedModes(request) /\ evidence' # {}
    /\ phase' = "validate"
    /\ UNCHANGED <<query, attempt, verdict, answer, result, validations, claims, completed>>

(* validate_answer_evidence up to its last log: an error envelope where a  *)
(* required check failed.                                                  *)
ValidateAnswerEvidence ==
    /\ phase = "validate"
    /\ \E f \in Findings(evidence) :
          LET failed == f.failed \cap RequiredValidations(request)
              action == RepairAction(failed, f.contradiction, request)
          IN /\ verdict' = [run |-> run, attempt |-> attempt, evidence |-> evidence,
                            action |-> action, status |-> ValidationStatus(failed, action)]
             /\ errors' = IF failed = {} THEN errors ELSE errors \cup {Envelope("validate")}
    /\ phase' = "record"
    /\ UNCHANGED <<query, attempt, evidence, graph, answer, result, validations, claims, completed>>

(* Wrong: the record is saved before the checks have filled it.            *)
SaveBlankValidation ==
    /\ phase = "validate"
    /\ validations' = validations \cup {verdict}
    /\ UNCHANGED <<query, phase, attempt, hand, result, claims, errors, completed>>

(* The end of validate_answer_evidence: the record is saved.               *)
SaveValidation ==
    /\ phase = "record"
    /\ validations' = validations \cup {verdict}
    /\ phase' = "synthesize"
    /\ UNCHANGED <<query, attempt, hand, result, claims, errors, completed>>

(* generate_answer makes a claim of each of the best max_claims candidates *)
(* and reports where there is none; validate_claim_support then gives each *)
(* its verdict, and changes nothing else of the answer.                    *)
GenerateAnswer ==
    /\ phase = "synthesize"
    /\ \E used \in SUBSET SynthesisEvidence(verdict.status),
          limits \in Limitations(SynthesisEvidence(verdict.status), verdict.status) :
          /\ Cardinality(used) = Least(MaxClaims, Cardinality(SynthesisEvidence(verdict.status)))
          /\ \E support \in [used -> {"supported", "contradicted"}],
                level \in Confidence(used, limits, verdict.status) :
                /\ \A c \in used : support[c] \in Support(c)
                /\ answer' = [attempt |-> attempt, direct |-> FALSE,
                              claims |-> {[run |-> run, attempt |-> attempt, chunk |-> c,
                                           support |-> support[c]] : c \in used},
                              status |-> verdict.status, limitations |-> limits,
                              confidence |-> level, trace |-> RepairTrace(verdict)]
          /\ errors' = IF used = {} THEN errors \cup {Envelope("generate")} ELSE errors
    /\ phase' = "claims"
    /\ UNCHANGED <<query, attempt, evidence, graph, verdict, result, validations, claims, completed>>

(* The claims are saved one by one with their verdicts.                    *)
SaveClaim ==
    /\ phase = "claims"
    /\ \E c \in answer.claims \ claims : claims' = claims \cup {c}
    /\ UNCHANGED <<query, phase, attempt, hand, result, validations, errors, completed>>

QueryAnswered ==
    /\ phase = "claims"
    /\ answer.claims \subseteq claims
    /\ phase' = "answered"
    /\ UNCHANGED <<query, attempt, hand, result, repository>>

Querying == {"plan", "retrieve", "validate", "record", "synthesize", "claims"}

(* Wrong: an answer leaves no error.                                       *)
NoErrorIfAnswered == "none"

(* The error of the application goes along with the answer without it.     *)
AnswerError == IF attempt = "fallback" THEN "app" ELSE "none"

(* run_query's last log and its result.                                    *)
Complete ==
    /\ phase = "answered"
    /\ completed' = completed \cup {run}
    /\ result' = [ok |-> TRUE, fallback |-> attempt # "app", error |-> AnswerError, answer |-> answer]
    /\ phase' = "returned"
    /\ UNCHANGED <<query, attempt, hand, validations, claims, errors>>

(* Wrong: what the application had done by then is carried on with.        *)
FallBackHalfway ==
    /\ attempt = "app" /\ service.fallback
    /\ phase \in Querying
    /\ attempt' = "fallback"
    /\ UNCHANGED <<query, phase, hand, result, repository>>

(* Wrong: the application is asked again.                                  *)
FallBackOnItself ==
    /\ attempt = "app" /\ service.fallback
    /\ phase \in Querying
    /\ phase' = "plan"
    /\ Empty
    /\ UNCHANGED <<query, attempt, result, repository>>

(* The application fails, in the middle of the query or with its result in *)
(* hand, and the query is run again without it.                            *)
FallBack ==
    /\ attempt = "app" /\ service.fallback
    /\ phase \in Querying \cup {"answered"}
    /\ attempt' = "fallback"
    /\ phase' = "plan"
    /\ Empty
    /\ UNCHANGED <<query, result, repository>>

(* It fails and there is no fallback, or the local query fails where no    *)
(* application was asked first.                                            *)
QueryFails ==
    /\ \/ attempt = "app" /\ ~service.fallback /\ phase \in Querying \cup {"answered"}
       \/ attempt = "local" /\ phase \in Querying
    /\ phase' = "report"
    /\ Empty
    /\ UNCHANGED <<query, attempt, result, repository>>

(* The except branch saves the error and returns it.                       *)
ReportFailure ==
    /\ phase = "report"
    /\ errors' = errors \cup {Envelope("run_query")}
    /\ result' = [ok |-> FALSE, fallback |-> FALSE, error |-> "run", answer |-> Nothing]
    /\ phase' = "returned"
    /\ UNCHANGED <<query, attempt, hand, validations, claims, completed>>

(* An exception leaves run_query: out of the fallback, which runs in the   *)
(* except branch, out of the report, or out of the closing log.  The first *)
(* log does it in RunQuery.                                                *)
Raises ==
    /\ \/ attempt = "fallback" /\ phase \in Querying
       \/ phase \in {"report", "answered"}
    /\ phase' = "raised"
    /\ Empty
    /\ UNCHANGED <<query, attempt, result, repository>>

Return ==
    /\ phase \in {"returned", "raised"}
    /\ phase' = "idle"
    /\ UNCHANGED <<query, attempt, hand, result, repository>>

(* The bound is reached.                                                   *)
Done == phase = "idle" /\ run = MaxRuns /\ UNCHANGED vars

InQuery ==
    \/ PlanRequest \/ RetrieveAndRank \/ ValidateAnswerEvidence \/ SaveValidation
    \/ GenerateAnswer \/ SaveClaim \/ QueryAnswered \/ Complete
    \/ FallBack \/ QueryFails \/ ReportFailure \/ Raises

Next == RunQuery \/ InQuery \/ Return \/ Done

Spec == Init /\ [][Next]_vars

-----------------------------------------------------------------------------
(* The records.                                                            *)

Attempts == {"app", "local", "fallback"}
Actions == {"none", "stop", "clarify", "external_lookup", "retrieve_more", "rewrite"}
Verdicts == {"pass", "clarification_needed", "fail", "repair_needed"}
Runs == 0 .. MaxRuns

ValidationRecord ==
    [run : Runs, attempt : Attempts, evidence : SUBSET Chunks, action : Actions,
     status : Verdicts]
ClaimRecord ==
    [run : Runs, attempt : Attempts, chunk : Chunks, support : {"supported", "contradicted"}]
ErrorEnvelope ==
    [run : Runs, attempt : Attempts, operation : {"filter", "validate", "generate", "run_query"}]
Trace == [action : Actions, exhausted : BOOLEAN]
Answer ==
    [attempt : Attempts, direct : BOOLEAN, claims : SUBSET ClaimRecord, status : Verdicts \cup {"none"},
     limitations : SUBSET {"no evidence", "only one", "no link", "not passed", "stale", "unreliable",
                           "few terms"},
     confidence : {"none", "low", "medium", "high"},
     trace : Trace \cup {Nothing}]
Result ==
    [ok : BOOLEAN, fallback : BOOLEAN, error : {"none", "app", "run", "unavailable"},
     answer : Answer \cup {Nothing}]

ASSUME NothingAssumption == Nothing \notin Trace

(* Every variable has the type of its record.                              *)
TypeOK ==
    /\ run \in Runs
    /\ request \in Requests
    /\ visible \in SUBSET Chunks
    /\ service \in [app : BOOLEAN, fallback : BOOLEAN]
    /\ phase \in Querying \cup {"idle", "answered", "report", "returned", "raised"}
    /\ attempt \in Attempts
    /\ evidence \in SUBSET Chunks
    /\ graph \in BOOLEAN
    /\ verdict \in ValidationRecord \cup {Nothing}
    /\ answer \in Answer \cup {Nothing}
    /\ result \in Result \cup {Nothing}
    /\ validations \in SUBSET ValidationRecord
    /\ claims \in SUBSET ClaimRecord
    /\ errors \in SUBSET ErrorEnvelope
    /\ completed \in SUBSET Runs

-----------------------------------------------------------------------------
(* What a query promises.                                                  *)

(* A stored claim stands on a stored validation of the same attempt which  *)
(* passed with its chunk among the evidence, and a chunk the caller may    *)
(* see: also where the query was run twice or was cut off in between.      *)
ClaimsWerePassed ==
    \A c \in claims :
        /\ \E v \in validations : /\ v.run = c.run /\ v.attempt = c.attempt
                                 /\ v.status = "pass"
                                 /\ c.chunk \in v.evidence
        /\ c.run = run => c.chunk \in visible

(* What run_query returns agrees with the repository: an answer has its    *)
(* closing log and its claims, no answer has an envelope that says why,    *)
(* and a call that reports no error left no claims but its answer's, as a  *)
(* failed application does.                                                *)
RunsAreAccounted ==
    phase = "returned" =>
        /\ result.ok <=> run \in completed
        /\ result.ok => result.answer.attempt = attempt /\ result.answer.claims \subseteq claims
        /\ result.ok \/ result.error = "unavailable" \/ Envelope("run_query") \in errors
        /\ result.error = "none" => {c \in claims : c.run = run} = result.answer.claims

Answered == phase = "returned" /\ result.ok /\ ~result.answer.direct

(* Without a validation that passed, the answer claims nothing, says so,   *)
(* and both the validation and the synthesis left an envelope.             *)
NoPassIsDisclosed ==
    Answered /\ result.answer.status # "pass" =>
        /\ result.answer.claims = {} /\ result.answer.confidence = "low"
        /\ "not passed" \in result.answer.limitations
        /\ {Envelope("validate"), Envelope("generate")} \subseteq errors

(* A repair is asked for only where one may still be made, a query that    *)
(* fails has none left, and no other query has a trace of a repair.        *)
RepairsAreLeft ==
    Answered =>
        LET a == result.answer IN
        /\ a.status = "repair_needed" => /\ a.trace # Nothing /\ ~a.trace.exhausted
                                         /\ a.trace.action \notin {"none", "stop", "clarify"}
        /\ a.status = "fail" => a.trace = [action |-> "stop", exhausted |-> TRUE]
        /\ a.status \in {"pass", "clarification_needed"} => a.trace = Nothing

(* project_milestones.md: contradictions trigger repair, uncertainty or    *)
(* disclosure.  A claim that its own evidence contradicts does not leave   *)
(* the answer certain and without a limitation or a repair.                *)
ContradictionsAreDisclosed ==
    Answered /\ (\E c \in result.answer.claims : c.support = "contradicted") =>
        \/ result.answer.trace # Nothing
        \/ result.answer.confidence = "low"
        \/ result.answer.limitations # {}
=============================================================================

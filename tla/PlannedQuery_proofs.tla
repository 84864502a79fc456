------------------------- MODULE PlannedQuery_proofs -------------------------
(***************************************************************************)
(* What a query claims and reports, for all chunks, requests and limits    *)
(* and any number of queries.                                              *)
(*                                                                         *)
(* The properties of PlannedQuery speak of stored claims and of returned   *)
(* results.  The invariant Inv adds what holds on the way: the verdict in  *)
(* hand is this attempt's, it was saved before anything is claimed, the    *)
(* answer in hand rests on it, and an attempt that has not claimed anything *)
(* yet has left nothing in the repository under its run, unless the        *)
(* application failed before it.                                           *)
(***************************************************************************)
EXTENDS PlannedQuery, TLAPS

Early == {"plan", "retrieve", "validate", "record", "synthesize"}

(* A claim of this attempt that a stored validation let pass               *)
Passed(c) ==
    \E v \in validations : /\ v.run = c.run /\ v.attempt = c.attempt
                           /\ v.status = "pass"
                           /\ c.chunk \in v.evidence

(* What a status other than "pass" has left when it is decided             *)
RepairsOf(v) ==
    /\ v.status = "repair_needed" => /\ ~(RepairAttempt >= MaxRepairs(request))
                                     /\ v.action \notin {"none", "stop", "clarify"}
    /\ v.status = "fail" => v.action = "stop"

VerdictInHand ==
    /\ verdict \in ValidationRecord
    /\ verdict.run = run /\ verdict.attempt = attempt /\ verdict.evidence = evidence
    /\ verdict.status # "pass" => Envelope("validate") \in errors
    /\ RepairsOf(verdict)

(* NoPassIsDisclosed and RepairsAreLeft, of one answer                     *)
Disclosed(a) ==
    ~a.direct /\ a.status # "pass" =>
        /\ a.claims = {} /\ a.confidence = "low"
        /\ "not passed" \in a.limitations
        /\ {Envelope("validate"), Envelope("generate")} \subseteq errors

Repaired(a) ==
    ~a.direct =>
        /\ a.status = "repair_needed" => /\ a.trace # Nothing /\ ~a.trace.exhausted
                                         /\ a.trace.action \notin {"none", "stop", "clarify"}
        /\ a.status = "fail" => a.trace = [action |-> "stop", exhausted |-> TRUE]
        /\ a.status \in {"pass", "clarification_needed"} => a.trace = Nothing

AnswerInHand ==
    /\ answer \in Answer /\ answer.attempt = attempt
    /\ \A c \in answer.claims : /\ c.run = run /\ c.attempt = attempt
                                /\ c.chunk \in visible
                                /\ Passed(c)
    /\ Disclosed(answer)
    /\ Repaired(answer)

HandInv ==
    /\ evidence \subseteq visible
    /\ phase \in {"record", "synthesize", "claims"} => VerdictInHand
    /\ phase \in {"synthesize", "claims"} => verdict \in validations
    /\ phase \in {"claims", "answered"} => AnswerInHand
    /\ phase = "answered" => answer.claims \subseteq claims

(* Past runs are done with; of this one only the answer has left claims.   *)
RunInv ==
    /\ \A c \in claims : c.run <= run
    /\ \A i \in completed : i <= run
    /\ phase \in Querying \cup {"answered", "report"} => run \notin completed
    /\ attempt # "fallback" =>
          /\ phase \in Early => \A c \in claims : c.run # run
          /\ phase \in {"claims", "answered"} => \A c \in claims : c.run = run => c \in answer.claims

Inv ==
    /\ TypeOK /\ HandInv /\ RunInv
    /\ ClaimsWerePassed /\ RunsAreAccounted /\ NoPassIsDisclosed /\ RepairsAreLeft
-----------------------------------------------------------------------------
(* choose_repair_action and _validation_status: a repair is the next step  *)
(* only while one is left, and a query that may not go on has to stop.     *)
LEMMA StatusOfAction ==
    ASSUME NEW failed \in SUBSET Criteria, NEW contradiction, NEW r,
           NEW action, action = RepairAction(failed, contradiction, r),
           NEW status, status = ValidationStatus(failed, action)
    PROVE  /\ action \in Actions /\ status \in Verdicts
           /\ status = "pass" <=> failed = {}
           /\ status = "repair_needed" => /\ ~(RepairAttempt >= MaxRepairs(r))
                                          /\ action \notin {"none", "stop", "clarify"}
           /\ status = "fail" => action = "stop"
  <1>1. action \in Actions
    BY DEF RepairAction, Repair, Actions
  <1>2. failed # {} => action # "none"
    BY DEF RepairAction, Repair
  <1>3. RepairAttempt >= MaxRepairs(r) /\ failed # {} => action = "stop"
    BY DEF RepairAction
  <1> QED BY <1>1, <1>2, <1>3 DEF ValidationStatus, Verdicts

LEMMA InitInv == Init => Inv
  <1> SUFFICES ASSUME Init PROVE Inv
    OBVIOUS
  <1>1. TypeOK
    <2>1. run \in Runs
      BY ConstantsAssumption DEF Init, Runs
    <2>2. service \in [app : BOOLEAN, fallback : BOOLEAN]
      BY DEF Init
    <2>3. /\ validations \in SUBSET ValidationRecord /\ claims \in SUBSET ClaimRecord
          /\ errors \in SUBSET ErrorEnvelope /\ completed \in SUBSET Runs
          /\ visible \in SUBSET Chunks /\ evidence \in SUBSET Chunks
      BY DEF Init
    <2> QED BY <2>1, <2>2, <2>3 DEF Init, TypeOK, Attempts
  <1>2. HandInv /\ RunInv
    BY DEF Init, HandInv, RunInv, Querying, Early
  <1>3. ClaimsWerePassed /\ RunsAreAccounted /\ NoPassIsDisclosed /\ RepairsAreLeft
    BY DEF Init, ClaimsWerePassed, RunsAreAccounted, NoPassIsDisclosed, RepairsAreLeft, Answered
  <1> QED BY <1>1, <1>2, <1>3 DEF Inv

(* The verdict of the checks is a record of this attempt.                  *)
LEMMA VerdictMade ==
    ASSUME TypeOK, HandInv, ValidateAnswerEvidence
    PROVE  VerdictInHand'
  <1>1. PICK f \in Findings(evidence) :
          /\ verdict' = [run |-> run, attempt |-> attempt, evidence |-> evidence,
                         action |-> RepairAction(f.failed \cap RequiredValidations(request),
                                                 f.contradiction, request),
                         status |-> ValidationStatus(f.failed \cap RequiredValidations(request),
                                        RepairAction(f.failed \cap RequiredValidations(request),
                                                     f.contradiction, request))]
          /\ errors' = IF f.failed \cap RequiredValidations(request) = {} THEN errors
                       ELSE errors \cup {Envelope("validate")}
    BY DEF ValidateAnswerEvidence
  <1> DEFINE failed == f.failed \cap RequiredValidations(request)
             action == RepairAction(failed, f.contradiction, request)
             status == ValidationStatus(failed, action)
  <1>2. failed \in SUBSET Criteria
    BY DEF Findings, Criteria
  <1>3. /\ action \in Actions /\ status \in Verdicts
        /\ status = "pass" <=> failed = {}
        /\ status = "repair_needed" => /\ ~(RepairAttempt >= MaxRepairs(request))
                                       /\ action \notin {"none", "stop", "clarify"}
        /\ status = "fail" => action = "stop"
    BY <1>2, StatusOfAction
  <1> HIDE DEF failed, action, status
  <1>4. /\ verdict' = [run |-> run, attempt |-> attempt, evidence |-> evidence,
                       action |-> action, status |-> status]
        /\ errors' = IF failed = {} THEN errors ELSE errors \cup {Envelope("validate")}
    BY <1>1 DEF failed, action, status
  <1>5. run' = run /\ attempt' = attempt /\ evidence' = evidence /\ request' = request
    BY DEF ValidateAnswerEvidence, query
  <1>6. verdict' \in ValidationRecord
    BY <1>2, <1>3, <1>4 DEF ValidationRecord, TypeOK
  <1>7. verdict'.status # "pass" => Envelope("validate")' \in errors'
    BY <1>3, <1>4, <1>5 DEF Envelope
  <1>8. RepairsOf(verdict)'
    BY <1>3, <1>4, <1>5 DEF RepairsOf, MaxRepairs, RepairAttempt
  <1> QED BY <1>4, <1>5, <1>6, <1>7, <1>8 DEF VerdictInHand

(* What the synthesis makes of it is an answer that rests on it.           *)
LEMMA AnswerMade ==
    ASSUME TypeOK, HandInv, GenerateAnswer
    PROVE  AnswerInHand'
  <1> DEFINE given == SynthesisEvidence(verdict.status)
  <1>1. PICK used \in SUBSET given, limits \in Limitations(given, verdict.status) :
          /\ \E support \in [used -> {"supported", "contradicted"}],
                level \in Confidence(used, limits, verdict.status) :
                answer' = [attempt |-> attempt, direct |-> FALSE,
                           claims |-> {[run |-> run, attempt |-> attempt, chunk |-> c,
                                        support |-> support[c]] : c \in used},
                           status |-> verdict.status, limitations |-> limits,
                           confidence |-> level, trace |-> RepairTrace(verdict)]
          /\ errors' = IF used = {} THEN errors \cup {Envelope("generate")} ELSE errors
    BY DEF GenerateAnswer
  <1>2. PICK support \in [used -> {"supported", "contradicted"}],
             level \in Confidence(used, limits, verdict.status) :
          answer' = [attempt |-> attempt, direct |-> FALSE,
                     claims |-> {[run |-> run, attempt |-> attempt, chunk |-> c,
                                  support |-> support[c]] : c \in used},
                     status |-> verdict.status, limitations |-> limits,
                     confidence |-> level, trace |-> RepairTrace(verdict)]
    BY <1>1
  <1>3. /\ VerdictInHand /\ verdict \in validations
        /\ run' = run /\ attempt' = attempt /\ visible' = visible /\ request' = request
        /\ validations' = validations /\ verdict' = verdict /\ evidence' = evidence
    BY DEF GenerateAnswer, HandInv, query
  <1>4. used \subseteq evidence /\ (used # {} => verdict.status = "pass")
    BY DEF SynthesisEvidence, Usable
  <1>5. answer'.claims \in SUBSET ClaimRecord
    <2>1. \A c \in used : [run |-> run, attempt |-> attempt, chunk |-> c, support |-> support[c]]
                             \in ClaimRecord
      BY <1>2, <1>4 DEF ClaimRecord, TypeOK
    <2> QED BY <1>2, <2>1
  <1>6. /\ limits \in SUBSET {"no evidence", "only one", "no link", "not passed", "stale",
                              "unreliable", "few terms"}
        /\ verdict.status # "pass" => "not passed" \in limits
    BY DEF Limitations
  <1>7. /\ level \in {"none", "low", "medium", "high"}
        /\ verdict.status # "pass" => level = "low"
    BY DEF Confidence
  <1>8. RepairTrace(verdict) \in Trace \cup {Nothing}
    BY <1>3 DEF RepairTrace, Trace, VerdictInHand, ValidationRecord
  <1>9. answer' \in Answer
    BY <1>2, <1>3, <1>5, <1>6, <1>7, <1>8 DEF Answer, VerdictInHand, ValidationRecord, TypeOK
  <1>10. \A c \in answer'.claims : /\ c.run = run' /\ c.attempt = attempt'
                                   /\ c.chunk \in visible'
                                   /\ Passed(c)'
    <2> SUFFICES ASSUME NEW d \in used,
                        NEW c, c = [run |-> run, attempt |-> attempt, chunk |-> d, support |-> support[d]]
                 PROVE  /\ c.run = run' /\ c.attempt = attempt'
                        /\ c.chunk \in visible'
                        /\ Passed(c)'
      BY <1>2
    <2>1. verdict.status = "pass" /\ d \in verdict.evidence
      BY <1>3, <1>4 DEF VerdictInHand
    <2>2. d \in visible
      BY <1>4 DEF HandInv
    <2> QED BY <1>3, <2>1, <2>2 DEF Passed, VerdictInHand
  <1>11. Disclosed(answer)'
    <2> SUFFICES ASSUME verdict.status # "pass"
                 PROVE  /\ answer'.claims = {} /\ answer'.confidence = "low"
                        /\ "not passed" \in answer'.limitations
                        /\ {Envelope("validate"), Envelope("generate")}' \subseteq errors'
      BY <1>2 DEF Disclosed
    <2>1. used = {}
      BY <1>4
    <2>2. Envelope("validate") \in errors
      BY <1>3 DEF VerdictInHand
    <2>3. Envelope("validate")' = Envelope("validate") /\ Envelope("generate")' = Envelope("generate")
      BY <1>3 DEF Envelope
    <2> QED BY <1>1, <1>2, <1>6, <1>7, <2>1, <2>2, <2>3
  <1>12. Repaired(answer)'
    <2>1. /\ verdict.status = "repair_needed" => /\ ~(RepairAttempt >= MaxRepairs(request))
                                                 /\ verdict.action \notin {"none", "stop", "clarify"}
          /\ verdict.status = "fail" => verdict.action = "stop"
      BY <1>3 DEF VerdictInHand, RepairsOf
    <2>2. /\ verdict.status = "repair_needed" => RepairTrace(verdict) = [action |-> verdict.action, exhausted |-> FALSE]
          /\ verdict.status = "fail" => RepairTrace(verdict) = [action |-> "stop", exhausted |-> TRUE]
          /\ verdict.status \in {"pass", "clarification_needed"} => RepairTrace(verdict) = Nothing
      BY <2>1 DEF RepairTrace
    <2>3. [action |-> verdict.action, exhausted |-> FALSE] \in Trace
      BY <1>3 DEF Trace, VerdictInHand, ValidationRecord
    <2>4. verdict.status = "repair_needed" => RepairTrace(verdict) # Nothing
      BY <2>2, <2>3, NothingAssumption
    <2> QED BY <1>2, <2>1, <2>2, <2>4 DEF Repaired
  <1> QED BY <1>2, <1>3, <1>9, <1>10, <1>11, <1>12 DEF AnswerInHand

-----------------------------------------------------------------------------
LEMMA StepType == TypeOK /\ HandInv /\ [Next]_vars => TypeOK'
  <1> SUFFICES ASSUME TypeOK, HandInv, [Next]_vars PROVE TypeOK'
    OBVIOUS
  <1> USE DEF TypeOK, Querying
  <1>e. \A op \in {"filter", "validate", "generate", "run_query"} : Envelope(op) \in ErrorEnvelope
    BY DEF Envelope, ErrorEnvelope
  <1>1. CASE RunQuery
    <2>1. run' \in Runs
      BY <1>1, ConstantsAssumption DEF RunQuery, Runs
    <2>2. attempt' \in Attempts
      BY <1>1 DEF RunQuery, Attempts
    <2>3. result' \in Result \cup {Nothing}
      <3>1. [ok |-> FALSE, fallback |-> FALSE, error |-> "unavailable", answer |-> Nothing] \in Result
        BY DEF Result
      <3> QED BY <1>1, <3>1 DEF RunQuery
    <2>4. phase' \in {"plan", "returned", "raised"}
      BY <1>1 DEF RunQuery
    <2> QED BY <1>1, <2>1, <2>2, <2>3, <2>4 DEF RunQuery, Empty, repository
  <1>2. CASE PlanRequest
    <2>1. [attempt |-> attempt, direct |-> TRUE, claims |-> {}, status |-> "none",
           limitations |-> {}, confidence |-> "none", trace |-> Nothing] \in Answer
      BY DEF Answer
    <2> QED BY <1>2, <2>1 DEF PlanRequest, query, repository
  <1>3. CASE RetrieveAndRank
    <2>1. evidence' \in SUBSET Chunks
      BY <1>3 DEF RetrieveAndRank, Merged
    <2>2. errors' \in SUBSET ErrorEnvelope
      BY <1>3, <1>e DEF RetrieveAndRank
    <2> QED BY <1>3, <2>1, <2>2 DEF RetrieveAndRank, query
  <1>4. CASE ValidateAnswerEvidence
    <2>1. VerdictInHand'
      BY <1>4, VerdictMade
    <2>2. errors' \in SUBSET ErrorEnvelope
      BY <1>4, <1>e DEF ValidateAnswerEvidence
    <2> QED BY <1>4, <2>1, <2>2 DEF ValidateAnswerEvidence, VerdictInHand, query
  <1>5. CASE SaveValidation
    BY <1>5 DEF SaveValidation, HandInv, VerdictInHand, query, hand
  <1>6. CASE GenerateAnswer
    <2>1. AnswerInHand'
      BY <1>6, AnswerMade
    <2>2. errors' \in SUBSET ErrorEnvelope
      BY <1>6, <1>e DEF GenerateAnswer
    <2> QED BY <1>6, <2>1, <2>2 DEF GenerateAnswer, AnswerInHand, query
  <1>7. CASE SaveClaim
    <2>1. answer.claims \subseteq ClaimRecord
      BY <1>7 DEF SaveClaim, HandInv, AnswerInHand, Answer
    <2> QED BY <1>7, <2>1 DEF SaveClaim, query, hand
  <1>8. CASE QueryAnswered
    BY <1>8 DEF QueryAnswered, query, hand, repository
  <1>9. CASE Complete
    <2>1. result' \in Result
      BY <1>9 DEF Complete, HandInv, AnswerInHand, Result, AnswerError
    <2> QED BY <1>9, <2>1 DEF Complete, query, hand
  <1>10. CASE FallBack
    BY <1>10 DEF FallBack, Empty, Attempts, query, repository
  <1>11. CASE QueryFails
    BY <1>11 DEF QueryFails, Empty, query, repository
  <1>12. CASE ReportFailure
    <2>1. result' \in Result
      BY <1>12 DEF ReportFailure, Result
    <2> QED BY <1>12, <1>e, <2>1 DEF ReportFailure, query, hand
  <1>13. CASE Raises
    BY <1>13 DEF Raises, Empty, query, repository
  <1>14. CASE Return
    BY <1>14 DEF Return, query, hand, repository
  <1>15. CASE UNCHANGED vars
    BY <1>15 DEF vars, query, hand, repository
  <1> QED BY <1>1, <1>2, <1>3, <1>4, <1>5, <1>6, <1>7, <1>8, <1>9, <1>10, <1>11, <1>12, <1>13,
             <1>14, <1>15 DEF Next, InQuery, Done

(* A step that leaves the query, the repository and the answer alone, or   *)
(* only adds to them, leaves the answer in hand as it is.                  *)
LEMMA AnswerStays ==
    ASSUME AnswerInHand, UNCHANGED <<query, attempt, answer, validations>>, errors \subseteq errors'
    PROVE  AnswerInHand'
  <1>1. \A op : Envelope(op)' = Envelope(op)
    BY DEF Envelope, query
  <1>2. \A c : Passed(c)' <=> Passed(c)
    BY DEF Passed
  <1> QED BY <1>1, <1>2 DEF AnswerInHand, Disclosed, Repaired, query

LEMMA VerdictStays ==
    ASSUME VerdictInHand, UNCHANGED <<query, attempt, verdict, evidence>>, errors \subseteq errors'
    PROVE  VerdictInHand'
  <1>1. \A op : Envelope(op)' = Envelope(op)
    BY DEF Envelope, query
  <1> QED BY <1>1 DEF VerdictInHand, RepairsOf, MaxRepairs, RepairAttempt, query

LEMMA StepHand == TypeOK /\ HandInv /\ [Next]_vars => HandInv'
  <1> SUFFICES ASSUME TypeOK, HandInv, [Next]_vars PROVE HandInv'
    OBVIOUS
  <1>1. CASE RunQuery
    BY <1>1 DEF RunQuery, HandInv, Empty
  <1>2. CASE PlanRequest
    <2>1. CASE phase' = "answered"
      <3>1. PICK a \in Answer : /\ a = [attempt |-> attempt, direct |-> TRUE, claims |-> {},
                                        status |-> "none", limitations |-> {},
                                        confidence |-> "none", trace |-> Nothing]
        BY DEF Answer, TypeOK
      <3>2. answer' = a /\ attempt' = attempt
        BY <1>2, <2>1, <3>1 DEF PlanRequest
      <3>3. AnswerInHand'
        BY <3>1, <3>2 DEF AnswerInHand, Disclosed, Repaired
      <3> QED BY <1>2, <2>1, <3>1, <3>2, <3>3 DEF PlanRequest, HandInv, query
    <2>2. CASE phase' # "answered"
      BY <1>2, <2>2 DEF PlanRequest, HandInv, query
    <2> QED BY <2>1, <2>2
  <1>3. CASE RetrieveAndRank
    <2>1. evidence' \subseteq visible
      BY <1>3 DEF RetrieveAndRank, Merged
    <2> QED BY <1>3, <2>1 DEF RetrieveAndRank, HandInv, query
  <1>4. CASE ValidateAnswerEvidence
    <2>1. VerdictInHand'
      BY <1>4, VerdictMade
    <2> QED BY <1>4, <2>1 DEF ValidateAnswerEvidence, HandInv, query
  <1>5. CASE SaveValidation
    <2>1. VerdictInHand'
      BY <1>5, VerdictStays DEF SaveValidation, HandInv, hand
    <2> QED BY <1>5, <2>1 DEF SaveValidation, HandInv, query, hand
  <1>6. CASE GenerateAnswer
    <2>1. VerdictInHand'
      BY <1>6, VerdictStays DEF GenerateAnswer, HandInv
    <2>2. AnswerInHand'
      BY <1>6, AnswerMade
    <2> QED BY <1>6, <2>1, <2>2 DEF GenerateAnswer, HandInv, query
  <1>7. CASE SaveClaim
    <2>1. VerdictInHand' /\ AnswerInHand'
      BY <1>7, VerdictStays, AnswerStays DEF SaveClaim, HandInv, hand
    <2> QED BY <1>7, <2>1 DEF SaveClaim, HandInv, query, hand
  <1>8. CASE QueryAnswered
    <2>1. AnswerInHand'
      BY <1>8, AnswerStays DEF QueryAnswered, HandInv, hand, repository
    <2> QED BY <1>8, <2>1 DEF QueryAnswered, HandInv, query, hand, repository
  <1>9. CASE Complete
    BY <1>9 DEF Complete, HandInv, query, hand
  <1>10. CASE FallBack
    BY <1>10 DEF FallBack, HandInv, Empty
  <1>11. CASE QueryFails
    BY <1>11 DEF QueryFails, HandInv, Empty
  <1>12. CASE ReportFailure
    BY <1>12 DEF ReportFailure, HandInv, query, hand
  <1>13. CASE Raises
    BY <1>13 DEF Raises, HandInv, Empty
  <1>14. CASE Return
    BY <1>14 DEF Return, HandInv, query, hand
  <1>15. CASE UNCHANGED vars
    <2>1. VerdictInHand => VerdictInHand'
      BY <1>15, VerdictStays DEF vars, query, hand, repository
    <2>2. AnswerInHand => AnswerInHand'
      BY <1>15, AnswerStays DEF vars, query, hand, repository
    <2> QED BY <1>15, <2>1, <2>2 DEF HandInv, vars, query, hand, repository
  <1> QED BY <1>1, <1>2, <1>3, <1>4, <1>5, <1>6, <1>7, <1>8, <1>9, <1>10, <1>11, <1>12, <1>13,
             <1>14, <1>15 DEF Next, InQuery, Done

LEMMA StepRun == TypeOK /\ HandInv /\ RunInv /\ [Next]_vars => RunInv'
  <1> SUFFICES ASSUME TypeOK, HandInv, RunInv, [Next]_vars PROVE RunInv'
    OBVIOUS
  <1> USE DEF RunInv, Querying, Early
  <1>1. CASE RunQuery
    <2>1. run' = run + 1 /\ run \in Int /\ claims' = claims /\ completed' = completed
      BY <1>1 DEF RunQuery, TypeOK, Runs, repository
    <2>2. \A c \in claims : c.run \in Int
      BY DEF TypeOK, ClaimRecord, Runs
    <2>3. \A i \in completed : i \in Int
      BY DEF TypeOK, Runs
    <2>4. \A c \in claims' : c.run <= run' /\ c.run # run'
      BY <2>1, <2>2
    <2>5. \A i \in completed' : i <= run' /\ i # run'
      BY <2>1, <2>3
    <2>6. phase' \in {"plan", "returned", "raised"}
      BY <1>1 DEF RunQuery
    <2> QED BY <2>4, <2>5, <2>6
  <1>2. CASE PlanRequest
    BY <1>2 DEF PlanRequest, query, repository
  <1>3. CASE RetrieveAndRank
    BY <1>3 DEF RetrieveAndRank, query
  <1>4. CASE ValidateAnswerEvidence
    BY <1>4 DEF ValidateAnswerEvidence, query
  <1>5. CASE SaveValidation
    BY <1>5 DEF SaveValidation, query, hand
  <1>6. CASE GenerateAnswer
    BY <1>6 DEF GenerateAnswer, query
  <1>7. CASE SaveClaim
    <2>1. PICK c \in answer.claims \ claims : claims' = claims \cup {c}
      BY <1>7 DEF SaveClaim
    <2>2. c.run = run /\ run \in Int
      BY <1>7, <2>1 DEF SaveClaim, HandInv, AnswerInHand, TypeOK, Runs
    <2>3. c.run <= run
      BY <2>2
    <2> QED BY <1>7, <2>1, <2>3 DEF SaveClaim, query, hand
  <1>8. CASE QueryAnswered
    BY <1>8 DEF QueryAnswered, query, hand, repository
  <1>9. CASE Complete
    <2>1. run <= run
      BY DEF TypeOK, Runs
    <2> QED BY <1>9, <2>1 DEF Complete, query, hand
  <1>10. CASE FallBack
    BY <1>10 DEF FallBack, query, repository
  <1>11. CASE QueryFails
    BY <1>11 DEF QueryFails, query, repository
  <1>12. CASE ReportFailure
    BY <1>12 DEF ReportFailure, query, hand
  <1>13. CASE Raises
    BY <1>13 DEF Raises, query, repository
  <1>14. CASE Return
    BY <1>14 DEF Return, query, hand, repository
  <1>15. CASE UNCHANGED vars
    BY <1>15 DEF vars, query, hand, repository
  <1> QED BY <1>1, <1>2, <1>3, <1>4, <1>5, <1>6, <1>7, <1>8, <1>9, <1>10, <1>11, <1>12, <1>13,
             <1>14, <1>15 DEF Next, InQuery, Done

LEMMA StepClaims ==
    TypeOK /\ HandInv /\ RunInv /\ ClaimsWerePassed /\ [Next]_vars => ClaimsWerePassed'
  <1> SUFFICES ASSUME TypeOK, HandInv, RunInv, ClaimsWerePassed, [Next]_vars
               PROVE  ClaimsWerePassed'
    OBVIOUS
  <1>a. ASSUME UNCHANGED <<query, claims>>, validations \subseteq validations'
        PROVE  ClaimsWerePassed'
    BY <1>a DEF ClaimsWerePassed, query
  <1>1. CASE RunQuery
    <2>1. run' = run + 1 /\ run \in Int /\ claims' = claims /\ validations' = validations
      BY <1>1 DEF RunQuery, TypeOK, Runs, repository
    <2>2. \A c \in claims : c.run \in Int /\ c.run <= run
      BY DEF TypeOK, ClaimRecord, Runs, RunInv
    <2>3. \A c \in claims : c.run # run'
      BY <2>1, <2>2
    <2> QED BY <2>1, <2>3 DEF ClaimsWerePassed
  <1>2. CASE SaveClaim
    <2>1. PICK c \in answer.claims \ claims : claims' = claims \cup {c}
      BY <1>2 DEF SaveClaim
    <2>2. Passed(c) /\ c.chunk \in visible
      BY <1>2, <2>1 DEF SaveClaim, HandInv, AnswerInHand
    <2>3. UNCHANGED <<run, visible, validations>>
      BY <1>2 DEF SaveClaim, query
    <2> QED BY <2>1, <2>2, <2>3 DEF ClaimsWerePassed, Passed
  <1>3. CASE PlanRequest \/ RetrieveAndRank \/ ValidateAnswerEvidence \/ SaveValidation
    BY <1>3, <1>a DEF PlanRequest, RetrieveAndRank, ValidateAnswerEvidence, SaveValidation, repository
  <1>4. CASE GenerateAnswer \/ QueryAnswered \/ Complete
    BY <1>4, <1>a DEF GenerateAnswer, QueryAnswered, Complete, repository
  <1>5. CASE FallBack \/ QueryFails \/ ReportFailure \/ Raises
    BY <1>5, <1>a DEF FallBack, QueryFails, ReportFailure, Raises, repository
  <1>6. CASE Return \/ UNCHANGED vars
    BY <1>6, <1>a DEF Return, vars, repository
  <1> QED BY <1>1, <1>2, <1>3, <1>4, <1>5, <1>6 DEF Next, InQuery, Done

(* The four steps that leave a result, or leave it as it is                *)
LEMMA Returning ==
    ASSUME [Next]_vars, phase' = "returned"
    PROVE  \/ RunQuery \/ Complete \/ ReportFailure \/ UNCHANGED vars
  BY DEF Next, InQuery, Done, PlanRequest, RetrieveAndRank, ValidateAnswerEvidence, SaveValidation,
         GenerateAnswer, SaveClaim, QueryAnswered, FallBack, QueryFails, Raises, Return

LEMMA StepAccounted ==
    TypeOK /\ HandInv /\ RunInv /\ RunsAreAccounted /\ [Next]_vars => RunsAreAccounted'
  <1> SUFFICES ASSUME TypeOK, HandInv, RunInv, RunsAreAccounted, [Next]_vars, phase' = "returned"
               PROVE  RunsAreAccounted'
    BY DEF RunsAreAccounted
  <1>1. CASE RunQuery
    <2>1. ~result'.ok /\ result'.error = "unavailable"
      BY <1>1 DEF RunQuery
    <2>2. run' = run + 1 /\ completed' = completed /\ run \in Int
      BY <1>1 DEF RunQuery, repository, TypeOK, Runs
    <2>3. \A i \in completed : i \in Int /\ i <= run
      BY DEF TypeOK, Runs, RunInv
    <2>4. run' \notin completed'
      BY <2>2, <2>3
    <2> QED BY <2>1, <2>4 DEF RunsAreAccounted
  <1>2. CASE Complete
    <2>1. /\ result'.ok /\ result'.answer = answer /\ result'.error = AnswerError
          /\ run' \in completed'
          /\ UNCHANGED <<run, attempt, claims>>
      BY <1>2 DEF Complete, query
    <2>2. /\ answer.attempt = attempt /\ answer.claims \subseteq claims
          /\ \A c \in answer.claims : c.run = run
      BY <1>2 DEF Complete, HandInv, AnswerInHand
    <2>3. AnswerError = "none" => \A c \in claims : c.run = run => c \in answer.claims
      BY <1>2 DEF Complete, AnswerError, RunInv
    <2>4. AnswerError = "none" => {c \in claims : c.run = run} = answer.claims
      BY <2>2, <2>3
    <2> QED BY <2>1, <2>2, <2>4 DEF RunsAreAccounted
  <1>3. CASE ReportFailure
    <2>1. ~result'.ok /\ result'.error = "run" /\ UNCHANGED <<run, completed, attempt>>
      BY <1>3 DEF ReportFailure, query
    <2>2. Envelope("run_query")' \in errors'
      BY <1>3, <2>1 DEF ReportFailure, Envelope
    <2>3. run \notin completed
      BY <1>3 DEF ReportFailure, RunInv
    <2> QED BY <2>1, <2>2, <2>3 DEF RunsAreAccounted
  <1>4. CASE UNCHANGED vars
    BY <1>4 DEF RunsAreAccounted, Envelope, vars, query, hand, repository
  <1> QED BY <1>1, <1>2, <1>3, <1>4, Returning

LEMMA StepDisclosed ==
    /\ TypeOK /\ HandInv /\ NoPassIsDisclosed /\ RepairsAreLeft /\ [Next]_vars
    => NoPassIsDisclosed' /\ RepairsAreLeft'
  <1> SUFFICES ASSUME TypeOK, HandInv, NoPassIsDisclosed, RepairsAreLeft, [Next]_vars,
                      phase' = "returned", result'.ok
               PROVE  NoPassIsDisclosed' /\ RepairsAreLeft'
    BY DEF NoPassIsDisclosed, RepairsAreLeft, Answered
  <1>1. ~RunQuery /\ ~ReportFailure
    BY DEF RunQuery, ReportFailure
  <1>2. CASE Complete
    <2>1. /\ Disclosed(answer) /\ Repaired(answer)
          /\ result'.answer = answer /\ UNCHANGED <<run, attempt, errors>>
      BY <1>2 DEF Complete, HandInv, AnswerInHand, query
    <2> QED BY <2>1 DEF Disclosed, Repaired, NoPassIsDisclosed, RepairsAreLeft, Answered, Envelope
  <1>3. CASE UNCHANGED vars
    BY <1>3 DEF NoPassIsDisclosed, RepairsAreLeft, Answered, Envelope, vars, query, repository
  <1> QED BY <1>1, <1>2, <1>3, Returning

LEMMA Invariance == Spec => []Inv
  <1>1. Inv /\ [Next]_vars => Inv'
    BY StepType, StepHand, StepRun, StepClaims, StepAccounted, StepDisclosed DEF Inv
  <1> QED BY InitInv, <1>1, PTL DEF Spec

-----------------------------------------------------------------------------
(* The variables keep their types.                                         *)
THEOREM TypeCorrect == Spec => []TypeOK
  <1>1. Inv => TypeOK
    BY DEF Inv
  <1> QED BY <1>1, Invariance, PTL

(* Nothing is claimed but from evidence that a stored validation of the    *)
(* same attempt let pass and that the caller may see, wherever the         *)
(* application, the local run or a write to the repository fails.          *)
THEOREM ClaimsHaveTheirValidation == Spec => []ClaimsWerePassed
  <1>1. Inv => ClaimsWerePassed
    BY DEF Inv
  <1> QED BY <1>1, Invariance, PTL

(* run_query reports what it left in the repository.                       *)
THEOREM ResultsAgreeWithTheStore == Spec => []RunsAreAccounted
  <1>1. Inv => RunsAreAccounted
    BY DEF Inv
  <1> QED BY <1>1, Invariance, PTL

(* An answer without a validation that passed claims nothing and says why. *)
THEOREM FailuresAreDisclosed == Spec => []NoPassIsDisclosed
  <1>1. Inv => NoPassIsDisclosed
    BY DEF Inv
  <1> QED BY <1>1, Invariance, PTL

(* A repair is asked for only while the plan has one left.                 *)
THEOREM RepairsAreBounded == Spec => []RepairsAreLeft
  <1>1. Inv => RepairsAreLeft
    BY DEF Inv
  <1> QED BY <1>1, Invariance, PTL
=============================================================================

------------------------- MODULE FeedbackLoop_proofs -------------------------
(* Proofs about FeedbackLoop, for any repositories, feedback and calls: type *)
(* correctness, that telemetry tells what is kept, that a report is kept     *)
(* with its cases, and that the tasks of a batch cover it.                   *)
EXTENDS FeedbackLoop, FiniteSetTheorems, WellFoundedInduction, TLAPS

(***************************************************************************)
(* Sequences of records                                                    *)
(***************************************************************************)

\* What the first element of a sequence leaves.
LEMMA HeadAndTail ==
    ASSUME NEW S, NEW s \in Seq(S), s # <<>>
    PROVE  /\ Head(s) \in S /\ Head(s) = s[1] /\ 1 \in DOMAIN s
           /\ Tail(s) \in Seq(S) /\ Len(s) \in Nat /\ Len(Tail(s)) = Len(s) - 1
           /\ DOMAIN Tail(s) = 1..(Len(s) - 1)
           /\ \A i \in DOMAIN Tail(s) : Tail(s)[i] = s[i + 1] /\ i + 1 \in DOMAIN s
           /\ RangeOf(s) = {Head(s)} \cup RangeOf(Tail(s))
<1>1. /\ Head(s) \in S /\ Head(s) = s[1] /\ 1 \in DOMAIN s
      /\ Tail(s) \in Seq(S) /\ Len(s) \in Nat /\ Len(Tail(s)) = Len(s) - 1
      /\ DOMAIN Tail(s) = 1..(Len(s) - 1) /\ DOMAIN s = 1..Len(s)
      /\ \A i \in DOMAIN Tail(s) : Tail(s)[i] = s[i + 1] /\ i + 1 \in DOMAIN s
  OBVIOUS
<1>2. ASSUME NEW i \in DOMAIN s PROVE s[i] \in {Head(s)} \cup RangeOf(Tail(s))
  <2>1. CASE i = 1
    BY <1>1, <2>1
  <2>2. CASE i # 1
    <3>1. i - 1 \in DOMAIN Tail(s) /\ Tail(s)[i - 1] = s[i]
      BY <1>1, <2>2
    <3> QED
      BY <3>1 DEF RangeOf
  <2> QED
    BY <2>1, <2>2
<1>3. RangeOf(s) \subseteq {Head(s)} \cup RangeOf(Tail(s))
  BY <1>2 DEF RangeOf
<1>4. Head(s) \in RangeOf(s)
  BY <1>1 DEF RangeOf
<1>5. RangeOf(Tail(s)) \subseteq RangeOf(s)
  BY <1>1 DEF RangeOf
<1> QED
  BY <1>1, <1>3, <1>4, <1>5

\* A function on 1..n is a sequence over its range.
LEMMA SequenceOf ==
    ASSUME NEW n \in Nat, NEW s, s = [i \in 1..n |-> s[i]]
    PROVE  s \in Seq(RangeOf(s)) /\ Len(s) = n /\ DOMAIN s = 1..n
<1>1. DOMAIN s = 1..n
  OBVIOUS
<1>2. s \in [1..n -> RangeOf(s)]
  BY <1>1 DEF RangeOf
<1> QED
  BY <1>1, <1>2

\* A call makes as many tasks as there are categories.
LEMMA FirstsAreFinite ==
    ASSUME NEW n \in Nat, NEW batch, DOMAIN batch = 1..n
    PROVE  IsFiniteSet(Firsts(batch)) /\ Cardinality(Firsts(batch)) \in Nat
<1>1. IsFiniteSet(1..n)
  BY FS_Interval
<1>2. Firsts(batch) \in SUBSET (1..n)
  BY DEF Firsts
<1> QED
  BY <1>1, <1>2, FS_Subset, FS_CardinalityType

(***************************************************************************)
(* The inductive invariant                                                 *)
(***************************************************************************)

\* The cases of a report, of those in h.
CasesOf(report, h) == {c \in h : c.kind = "evaluation_case" /\ c.id \in RangeOf(report.cases)}

\* The feedback of a category in a sequence of cases, once for every place.
FailuresAt(cases, i, category) == {f \in cases[i].feedback : f.category = category}

Failing(cases, category) ==
    {at \in (DOMAIN cases) \X UNION {FailuresAt(cases, i, category) : i \in DOMAIN cases} :
        at[2] \in FailuresAt(cases, at[1], category)}

\* A report names the cases in their order and counts their failures.
CountsOf(report, cases) ==
    /\ \A i \in DOMAIN cases : cases[i].id = report.cases[i]
    /\ \A category \in Categories :
          report.failures[category] = Cardinality(Failing(cases, category))

\* A report counts the failures of its cases, which have ids up to m.
Whole(report, m, h) ==
    /\ RangeOf(report.cases) \subseteq 1..m
    /\ \E cases \in [DOMAIN report.cases -> CasesOf(report, h)] : CountsOf(report, cases)

\* What a call may save, with ids up to m: cases that are held, and a report
\* of these cases at the end.
Fit(records, m, h) ==
    /\ records \in Seq(RangeOf(records))
    /\ IsFiniteSet(Of("feedback", RangeOf(records)))
    /\ \A r \in RangeOf(records) :
          /\ r.kind \in Kinds /\ r.id \in 1..m
          /\ r.kind = "evaluation_case" => r \in h
          /\ r.kind = "evaluation_report" =>
                Whole(r, m, h) /\ CasesOf(r, h) \subseteq RangeOf(records)
    /\ \A i \in DOMAIN records : records[i].kind = "evaluation_report" => i = Len(records)

\* What has not yet to be saved is in k; the report comes last.
Rest(records, todo, k, there) ==
    /\ todo \in Seq(RangeOf(records))
    /\ \A i \in DOMAIN todo : todo[i].kind = "evaluation_report" => i = Len(todo)
    /\ \A r \in RangeOf(records) : r \in RangeOf(todo) \/ (r.kind \in there => r \in k)

CallInv ==
    call # Nothing =>
        /\ Fit(call.records, made, held)
        /\ call.stage = "saving" => Rest(call.records, call.todo, kept, hooks)
        /\ call.stage = "enveloped" /\ "error" \in hooks => calls \in errors

HeldInv ==
    /\ \A c \in Of("evaluation_case", held) :
          c.id \in 1..made /\ c.feedback \subseteq Of("feedback", held)
    /\ \A c, d \in Of("evaluation_case", held) : c.id = d.id => c = d

\* Cases in k are held, and reports in k have their cases in k.
Stored(k, m, h, there) ==
    /\ \A r \in k : r.kind \in Kinds \cap there /\ r.id \in 1..m
    /\ Of("evaluation_case", k) \subseteq h
    /\ \A r \in Of("evaluation_report", k) :
          Whole(r, m, h) /\ ("evaluation_case" \in there => CasesOf(r, h) \subseteq k)

KeptInv == Stored(kept, made, held, hooks)

Inv == TypeOK /\ CallInv /\ HeldInv /\ KeptInv /\ TelemetryIsTrue

\* The invariant gives the property of the reports.
LEMMA InvGivesReports == Inv => ReportsHaveTheirCases
<1> SUFFICES ASSUME Inv, NEW report \in Of("evaluation_report", kept),
                    "evaluation_case" \in hooks
             PROVE  \E cases \in [DOMAIN report.cases -> Of("evaluation_case", kept)] :
                       CountsOf(report, cases)
  BY DEF ReportsHaveTheirCases, CountsOf, Failing, FailuresAt
<1>1. Whole(report, made, held) /\ CasesOf(report, held) \subseteq kept
  BY DEF Inv, KeptInv, Stored
<1>2. CasesOf(report, held) \subseteq Of("evaluation_case", kept)
  BY <1>1 DEF CasesOf, Of
<1>3. PICK cases \in [DOMAIN report.cases -> CasesOf(report, held)] : CountsOf(report, cases)
  BY <1>1 DEF Whole
<1>4. cases \in [DOMAIN report.cases -> Of("evaluation_case", kept)]
  BY <1>2
<1> QED
  BY <1>3, <1>4

\* A report stays whole when what comes to be held is not a case, or a case
\* with a newer id.
LEMMA ReportsStay ==
    ASSUME NEW m \in Nat, NEW n \in Nat, m <= n, NEW h, NEW g, h \subseteq g,
           \A c \in g : c.kind = "evaluation_case" => c \in h \/ c.id \notin 1..m,
           NEW report, Whole(report, m, h)
    PROVE  CasesOf(report, g) = CasesOf(report, h) /\ Whole(report, n, g)
<1>1. CasesOf(report, g) = CasesOf(report, h)
  BY DEF CasesOf, Whole
<1>2. RangeOf(report.cases) \subseteq 1..n
  BY DEF Whole
<1> QED
  BY <1>1, <1>2 DEF Whole

\* So what is stored stays as it should.
LEMMA StoredStays ==
    ASSUME NEW m \in Nat, NEW n \in Nat, m <= n, NEW h, NEW g, h \subseteq g,
           \A c \in g : c.kind = "evaluation_case" => c \in h \/ c.id \notin 1..m,
           NEW k, NEW there, Stored(k, m, h, there)
    PROVE  Stored(k, n, g, there)
<1>1. \A r \in k : r.kind \in Kinds \cap there /\ r.id \in 1..n
  BY DEF Stored
<1>2. Of("evaluation_case", k) \subseteq g
  BY DEF Stored
<1>3. ASSUME NEW r \in Of("evaluation_report", k)
      PROVE  Whole(r, n, g) /\ ("evaluation_case" \in there => CasesOf(r, g) \subseteq k)
  <2>1. Whole(r, m, h) /\ ("evaluation_case" \in there => CasesOf(r, h) \subseteq k)
    BY <1>3 DEF Stored
  <2>2. CasesOf(r, g) = CasesOf(r, h) /\ Whole(r, n, g)
    BY <2>1, ReportsStay
  <2> QED
    BY <2>1, <2>2
<1> QED
  BY <1>1, <1>2, <1>3 DEF Stored
(***************************************************************************)
(* The initial states, and the calls                                       *)
(***************************************************************************)

\* Before any call only the reviewers' feedback is held.
LEMMA InitInv == Init => Inv
<1> SUFFICES ASSUME Init PROVE Inv
  OBVIOUS
<1> USE DEF Init
<1>1. \A f \in Reviewed : f.kind = "feedback" /\ f.id \in Int /\ f.id <= 0
  BY LoopAssumption
<1>2. hooks \subseteq Hooks /\ IsFiniteSet(held)
  BY LoopAssumption
<1>3. TypeOK
  BY <1>1, <1>2 DEF TypeOK
<1>4. CallInv /\ TelemetryIsTrue
  BY DEF CallInv, TelemetryIsTrue
<1>5. Of("evaluation_case", held) = {}
  BY <1>1 DEF Of
<1>6. HeldInv
  BY <1>5 DEF HeldInv
<1>7. KeptInv
  BY DEF KeptInv, Stored, Of
<1> QED
  BY <1>3, <1>4, <1>6, <1>7 DEF Inv

\* A call may begin with records that are fit to be saved.
LEMMA BeginInv ==
    ASSUME Inv, NEW op \in Operations, NEW records, NEW batch, NEW fresh \in Nat,
           Begin(op, records, batch, fresh), held' = held,
           Fit(records, made + fresh, held)
    PROVE  Inv'
<1> USE DEF Begin
<1>1. made \in Nat /\ calls \in Nat /\ made' \in Nat /\ made <= made' /\ calls' = calls + 1
  BY DEF Inv, TypeOK
<1>2. Stored(kept, made', held, hooks)
  BY <1>1, StoredStays DEF Inv, KeptInv
<1>3. KeptInv'
  BY <1>2 DEF KeptInv
<1>4. HeldInv'
  BY <1>1 DEF Inv, HeldInv
<1>5. /\ call'.op = op /\ call'.records = records /\ call'.batch = batch
      /\ call'.todo = records /\ call'.stage = "saving"
      /\ call' = [op |-> call'.op, records |-> call'.records, batch |-> call'.batch,
                  todo |-> call'.todo, stage |-> call'.stage]
  OBVIOUS
<1>6. Rest(records, records, kept, hooks)
  BY DEF Rest, Fit
<1>7. CallInv'
  BY <1>5, <1>6 DEF CallInv
<1>8. TypeOK'
  <2>1. /\ hooks' \subseteq Hooks /\ raises' \in Nat
        /\ \A r \in held' : /\ r.kind \in {"feedback", "evaluation_case"}
                            /\ r.id \in Int /\ r.id <= made'
        /\ \A l \in logs' : l.op \in Operations /\ l.call \in 1..calls' /\ l.ok \in BOOLEAN
        /\ errors' \subseteq 1..calls' /\ calls' > 0
    BY <1>1 DEF Inv, TypeOK
  <2>2. IsFiniteSet(held')
    BY DEF Inv, TypeOK
  <2>3. \A r \in kept' : r.kind \in Kinds \cap hooks' /\ r.id \in 1..made'
    BY <1>2 DEF Stored
  <2> QED
    BY <1>1, <1>5, <2>1, <2>2, <2>3 DEF TypeOK
<1>9. TelemetryIsTrue'
  BY DEF Inv, TelemetryIsTrue
<1> QED
  BY <1>3, <1>4, <1>7, <1>8, <1>9 DEF Inv

\* Records that are neither feedback, a case nor a report are fit.
LEMMA OthersAreFit ==
    ASSUME NEW n \in Nat, NEW m \in Nat, NEW h, NEW records, records = [i \in 1..n |-> records[i]],
           \A i \in 1..n : /\ records[i].kind \in Kinds
                           /\ records[i].kind \notin {"feedback", "evaluation_case",
                                                      "evaluation_report"}
                           /\ records[i].id \in 1..m
    PROVE  Fit(records, m, h)
<1>1. records \in Seq(RangeOf(records)) /\ DOMAIN records = 1..n
  BY SequenceOf
<1>2. \A r \in RangeOf(records) :
        /\ r.kind \in Kinds /\ r.id \in 1..m
        /\ r.kind \notin {"feedback", "evaluation_case", "evaluation_report"}
  BY <1>1 DEF RangeOf
<1>3. Of("feedback", RangeOf(records)) = {}
  BY <1>2 DEF Of
<1>4. IsFiniteSet(Of("feedback", RangeOf(records)))
  BY <1>3, FS_EmptySet
<1> QED
  BY <1>1, <1>2, <1>4 DEF Fit

\* Feedback is captured with a new id.
LEMMA CaptureInv ==
    ASSUME Inv, NEW rating, NEW explicit, NEW text, NEW validation, NEW excluded,
           Capture(rating, explicit, text, validation, excluded)
    PROVE  Inv'
<1>1. PICK f : /\ f.kind = "feedback" /\ f.id = made + 1
               /\ Begin("capture_feedback", <<f>>, <<>>, 1) /\ held' = held
  BY DEF Capture
<1>2. made + 1 \in Nat /\ f.id \in 1..(made + 1)
  BY <1>1 DEF Inv, TypeOK
<1>3. RangeOf(<<f>>) = {f} /\ <<f>> \in Seq({f}) /\ Len(<<f>>) = 1 /\ DOMAIN <<f>> = 1..1
  BY DEF RangeOf
<1>4. IsFiniteSet(Of("feedback", {f}))
  <2>1. Of("feedback", {f}) = {f}
    BY <1>1 DEF Of
  <2> QED
    BY <2>1, FS_Singleton
<1>5. \A r \in RangeOf(<<f>>) :
        /\ r.kind \in Kinds /\ r.id \in 1..(made + 1)
        /\ r.kind # "evaluation_case" /\ r.kind # "evaluation_report"
  BY <1>1, <1>2, <1>3 DEF Kinds
<1>6. \A i \in DOMAIN <<f>> : <<f>>[i].kind # "evaluation_report"
  BY <1>5 DEF RangeOf
<1>7. <<f>> \in Seq(RangeOf(<<f>>)) /\ IsFiniteSet(Of("feedback", RangeOf(<<f>>)))
  BY <1>3, <1>4
<1>8. Fit(<<f>>, made + 1, held)
  BY <1>5, <1>6, <1>7 DEF Fit
<1> QED
  BY <1>1, <1>8, BeginInv DEF Operations

\* A trace has a new id.
LEMMA StoreTraceInv ==
    ASSUME Inv, NEW batch, StoreTrace(batch)
    PROVE  Inv'
<1>1. PICK r : /\ r.kind = "trace" /\ r.id = made + 1
               /\ Begin("store_evaluation_trace", <<r>>, batch, 1) /\ held' = held
  BY DEF StoreTrace
<1>2. made + 1 \in Nat /\ r.id \in 1..(made + 1)
  BY <1>1 DEF Inv, TypeOK
<1>3. <<r>> = [i \in 1..1 |-> <<r>>[i]] /\ \A i \in 1..1 : <<r>>[i] = r
  OBVIOUS
<1>4. Fit(<<r>>, made + 1, held)
  BY <1>1, <1>2, <1>3, OthersAreFit DEF Kinds
<1> QED
  BY <1>1, <1>4, BeginInv DEF Operations

\* An observability report has a new id.
LEMMA ObserveInv ==
    ASSUME Inv, Observe
    PROVE  Inv'
<1>1. PICK r : /\ r.kind = "observability_report" /\ r.id = made + 1
               /\ Begin("build_observability_report", <<r>>, <<>>, 1) /\ held' = held
  BY DEF Observe
<1>2. made + 1 \in Nat /\ r.id \in 1..(made + 1)
  BY <1>1 DEF Inv, TypeOK
<1>3. <<r>> = [i \in 1..1 |-> <<r>>[i]] /\ \A i \in 1..1 : <<r>>[i] = r
  OBVIOUS
<1>4. Fit(<<r>>, made + 1, held)
  BY <1>1, <1>2, <1>3, OthersAreFit DEF Kinds
<1> QED
  BY <1>1, <1>4, BeginInv DEF Operations

\* Tasks have new ids, one for each category.
LEMMA CreateTasksInv ==
    ASSUME Inv, NEW n \in Nat, NEW batch, DOMAIN batch = 1..n, NEW low, CreateTasks(batch, low)
    PROVE  Inv'
<1> DEFINE many == Cardinality(Firsts(batch))
<1>1. many \in Nat /\ made \in Nat
  BY FirstsAreFinite DEF Inv, TypeOK
<1>2. /\ Tasks(batch, low) = [k \in 1..many |-> Tasks(batch, low)[k]]
      /\ \A k \in 1..many : /\ Tasks(batch, low)[k].kind = "improvement_task"
                            /\ Tasks(batch, low)[k].id = made + k
  BY DEF Tasks
<1>3. made + many \in Nat /\ \A k \in 1..many : Tasks(batch, low)[k].id \in 1..(made + many)
  BY <1>1, <1>2
<1>4. Fit(Tasks(batch, low), made + many, held)
  BY <1>1, <1>2, <1>3, OthersAreFit DEF Kinds
<1> QED
  BY <1>1, <1>4, BeginInv DEF CreateTasks, Operations

\* What a report counts for a category, of the feedback in h.
Counted(cases, h, category) ==
    {at \in (DOMAIN cases) \X h : at[2] \in cases[at[1]].feedback /\ at[2].category = category}

\* The feedback of held cases is held, so counting the held feedback of each
\* place counts its failures.
LEMMA FailuresAreHeld ==
    ASSUME NEW h, NEW n \in Nat, NEW cases, DOMAIN cases = 1..n,
           \A i \in 1..n : cases[i].feedback \subseteq h,
           NEW category
    PROVE  Counted(cases, h, category) = Failing(cases, category)
<1> DEFINE left == {at \in (DOMAIN cases) \X h : at[2] \in cases[at[1]].feedback
                                                   /\ at[2].category = category}
           some == UNION {FailuresAt(cases, i, category) : i \in DOMAIN cases}
<1>1. ASSUME NEW at \in left PROVE at \in Failing(cases, category)
  <2>1. /\ at = <<at[1], at[2]>> /\ at[1] \in DOMAIN cases
        /\ at[2] \in FailuresAt(cases, at[1], category)
    BY DEF FailuresAt
  <2>2. at[2] \in some
    BY <2>1
  <2>3. at \in (DOMAIN cases) \X some
    <3> HIDE DEF some, left
    <3> QED
      BY <2>1, <2>2
  <2> QED
    BY <2>1, <2>3 DEF Failing
<1>2. ASSUME NEW at \in Failing(cases, category) PROVE at \in left
  <2>1. at \in (DOMAIN cases) \X some /\ at[2] \in FailuresAt(cases, at[1], category)
    BY DEF Failing
  <2>2. at = <<at[1], at[2]>> /\ at[1] \in DOMAIN cases
    <3> HIDE DEF some
    <3> QED
      BY <2>1
  <2>3. at[2] \in cases[at[1]].feedback /\ at[2].category = category
    BY <2>1 DEF FailuresAt
  <2>4. at[2] \in h
    BY <2>2, <2>3
  <2> QED
    BY <2>2, <2>3, <2>4
<1> HIDE DEF left
<1>3. left = Failing(cases, category)
  BY <1>1, <1>2
<1> QED
  BY <1>3 DEF left, Counted

\* The report of cases that are held counts their failures.
LEMMA ReportIsWhole ==
    ASSUME Inv, NEW n \in Nat, NEW cases \in [1..n -> Of("evaluation_case", held)], NEW tasks
    PROVE  /\ Whole(Report(cases, tasks), made + 1, held)
           /\ CasesOf(Report(cases, tasks), held) = RangeOf(cases)
<1> DEFINE report == Report(cases, tasks)
<1>1. /\ report.cases = [i \in 1..n |-> cases[i].id]
      /\ report.failures = FailureCounts(cases)
  BY DEF Report
<1>2. RangeOf(cases) \subseteq Of("evaluation_case", held) /\ DOMAIN report.cases = 1..n
  BY <1>1 DEF RangeOf
<1> HIDE DEF report
<1>3. RangeOf(report.cases) = Ids(RangeOf(cases))
  BY <1>1 DEF RangeOf, Ids
<1>4. \A c \in held : c.kind = "evaluation_case" /\ c.id \in Ids(RangeOf(cases))
                        => c \in RangeOf(cases)
  <2> SUFFICES ASSUME NEW c \in held, c.kind = "evaluation_case", c.id \in Ids(RangeOf(cases))
               PROVE  c \in RangeOf(cases)
    OBVIOUS
  <2>1. PICK d \in RangeOf(cases) : d.id = c.id
    BY DEF Ids
  <2>2. c \in Of("evaluation_case", held) /\ d \in Of("evaluation_case", held)
    BY <1>2 DEF Of
  <2> QED
    BY <2>1, <2>2 DEF Inv, HeldInv
<1>5. \A c \in RangeOf(cases) :
         c \in held /\ c.kind = "evaluation_case" /\ c.id \in Ids(RangeOf(cases))
  BY <1>2 DEF Of, Ids
<1>6. CasesOf(report, held) = RangeOf(cases)
  BY <1>3, <1>4, <1>5 DEF CasesOf
<1>7. RangeOf(report.cases) \subseteq 1..(made + 1)
  <2>1. \A c \in RangeOf(cases) : c.id \in 1..made
    BY <1>2 DEF Inv, HeldInv
  <2>2. made \in Nat
    BY DEF Inv, TypeOK
  <2> QED
    BY <1>3, <2>1, <2>2 DEF Ids
<1>8. ASSUME NEW category \in Categories
      PROVE  report.failures[category] = Cardinality(Failing(cases, category))
  <2>1. \A i \in 1..n : cases[i].feedback \subseteq Of("feedback", held)
    BY DEF Inv, HeldInv
  <2>2. report.failures[category] =
           Cardinality(Counted(cases, Of("feedback", held), category))
    BY <1>1 DEF FailureCounts, Counted
  <2>3. DOMAIN cases = 1..n
    OBVIOUS
  <2>4. Counted(cases, Of("feedback", held), category) = Failing(cases, category)
    BY <2>1, <2>3, FailuresAreHeld
  <2> QED
    BY <2>2, <2>4
<1>9. CountsOf(report, cases)
  BY <1>1, <1>8 DEF CountsOf
<1>10. cases \in [DOMAIN report.cases -> CasesOf(report, held)]
  BY <1>2, <1>6 DEF RangeOf
<1>11. Whole(report, made + 1, held)
  BY <1>7, <1>9, <1>10 DEF Whole
<1> QED
  BY <1>6, <1>11 DEF report

\* A batch of cases is fit to be saved, with its report at the end.
LEMMA EvaluateBatchInv ==
    ASSUME Inv, NEW n \in Nat, NEW cases \in [1..n -> Of("evaluation_case", held)], NEW tasks,
           EvaluateBatch(cases, tasks)
    PROVE  Inv'
<1> DEFINE report == Report(cases, tasks)
           records == cases \o <<report>>
<1>1. report.kind = "evaluation_report" /\ report.id = made + 1
  BY DEF Report
<1>2. Whole(report, made + 1, held) /\ CasesOf(report, held) = RangeOf(cases)
  BY ReportIsWhole
<1>3. \A c \in RangeOf(cases) : c \in held /\ c.kind = "evaluation_case" /\ c.id \in 1..made
  <2>1. RangeOf(cases) \subseteq Of("evaluation_case", held)
    BY DEF RangeOf
  <2> QED
    BY <2>1 DEF Of, Inv, HeldInv
<1>4. made \in Nat
  BY DEF Inv, TypeOK
<1> HIDE DEF report
<1>5. cases \in Seq(RangeOf(cases)) /\ Len(cases) = n
  BY SequenceOf
<1>6. /\ records \in Seq(RangeOf(cases) \cup {report}) /\ Len(records) = n + 1
      /\ \A i \in 1..n : records[i] = cases[i] /\ cases[i] \in RangeOf(cases)
      /\ records[n + 1] = report
      /\ DOMAIN records = 1..(n + 1)
  BY <1>5 DEF RangeOf
<1> HIDE DEF records
<1>7. RangeOf(records) = RangeOf(cases) \cup {report}
  <2>1. RangeOf(records) \subseteq RangeOf(cases) \cup {report}
    BY <1>6 DEF RangeOf
  <2>2. RangeOf(cases) \subseteq RangeOf(records)
    BY <1>5, <1>6 DEF RangeOf
  <2>3. report \in RangeOf(records)
    BY <1>6 DEF RangeOf
  <2> QED
    BY <2>1, <2>2, <2>3
<1>8. IsFiniteSet(Of("feedback", RangeOf(records)))
  <2>1. Of("feedback", RangeOf(records)) = {}
    BY <1>1, <1>3, <1>7 DEF Of
  <2> QED
    BY <2>1, FS_EmptySet
<1>9. \A i \in DOMAIN records : records[i].kind = "evaluation_report" => i = Len(records)
  BY <1>3, <1>6
<1>10. \A r \in RangeOf(records) :
          /\ r.kind \in Kinds /\ r.id \in 1..(made + 1)
          /\ r.kind = "evaluation_case" => r \in held
          /\ r.kind = "evaluation_report" =>
                Whole(r, made + 1, held) /\ CasesOf(r, held) \subseteq RangeOf(records)
  BY <1>1, <1>2, <1>3, <1>4, <1>7 DEF Kinds
<1>11. Fit(records, made + 1, held)
  BY <1>6, <1>7, <1>8, <1>9, <1>10 DEF Fit
<1>12. Begin("evaluate_batch", records, cases, 1) /\ held' = held
  BY DEF EvaluateBatch, CasesThenReport, records, report
<1> QED
  BY <1>11, <1>12, BeginInv DEF Operations

\* A case that is built is held, with a new id.
LEMMA BuildCaseInv ==
    ASSUME Inv, NEW feedback \in SUBSET Of("feedback", held), BuildCase(feedback)
    PROVE  Inv'
<1>1. PICK c : /\ c.kind = "evaluation_case" /\ c.id = made + 1 /\ c.feedback = feedback
               /\ held' = held \cup {c}
  BY DEF BuildCase
<1>2. /\ made' = made + 1 /\ call = Nothing /\ outcome' = Nothing
      /\ UNCHANGED <<hooks, kept, logs, errors, call, calls, raises>>
  BY DEF BuildCase
<1>3. made \in Nat /\ calls \in Nat /\ raises \in Nat /\ made + 1 \notin 1..made /\ made <= made'
  BY <1>2 DEF Inv, TypeOK
<1>4. KeptInv'
  <2>1. \A d \in held' : d.kind = "evaluation_case" => d \in held \/ d.id \notin 1..made
    BY <1>1, <1>3
  <2>2. Stored(kept, made', held', hooks)
    BY <1>1, <1>2, <1>3, <2>1, StoredStays DEF Inv, KeptInv
  <2> QED
    BY <1>2, <2>2 DEF KeptInv
<1>5. HeldInv'
  <2>1. Of("evaluation_case", held') = Of("evaluation_case", held) \cup {c}
    BY <1>1 DEF Of
  <2>2. Of("feedback", held) \subseteq Of("feedback", held')
    BY <1>1 DEF Of
  <2>3. \A d \in Of("evaluation_case", held) :
           d.id \in 1..made /\ d.feedback \subseteq Of("feedback", held)
    BY DEF Inv, HeldInv
  <2>4. \A d \in Of("evaluation_case", held') :
           d.id \in 1..made' /\ d.feedback \subseteq Of("feedback", held')
    <3>1. c.id \in 1..made' /\ 1..made \subseteq 1..made'
      BY <1>1, <1>2, <1>3
    <3> QED
      BY <1>1, <2>1, <2>2, <2>3, <3>1
  <2>5. \A d, e \in Of("evaluation_case", held') : d.id = e.id => d = e
    BY <1>1, <1>3, <2>1, <2>3 DEF Inv, HeldInv
  <2> QED
    BY <2>4, <2>5 DEF HeldInv
<1>6. TypeOK'
  <2>1. IsFiniteSet(held')
    BY <1>1, FS_AddElement DEF Inv, TypeOK
  <2>2. \A r \in kept' : r.kind \in Kinds \cap hooks' /\ r.id \in 1..made'
    BY <1>4 DEF KeptInv, Stored
  <2>3. \A r \in held' : /\ r.kind \in {"feedback", "evaluation_case"}
                         /\ r.id \in Int /\ r.id <= made'
    BY <1>1, <1>2, <1>3 DEF Inv, TypeOK
  <2>4. /\ \A l \in logs' : l.op \in Operations /\ l.call \in 1..calls' /\ l.ok \in BOOLEAN
        /\ errors' \subseteq 1..calls' /\ hooks' \subseteq Hooks
    BY <1>2 DEF Inv, TypeOK
  <2> QED
    BY <1>2, <1>3, <2>1, <2>2, <2>3, <2>4 DEF TypeOK
<1>7. CallInv' /\ TelemetryIsTrue'
  BY <1>2 DEF Inv, CallInv, TelemetryIsTrue
<1> QED
  BY <1>4, <1>5, <1>6, <1>7 DEF Inv

(***************************************************************************)
(* The steps of a call                                                     *)
(***************************************************************************)

\* What a step that leaves call as it is but for the todo and the stage says.
LEMMA CallFields ==
    ASSUME Inv, call # Nothing, NEW todo, NEW stage,
           call' = [call EXCEPT !.todo = todo] \/ call' = [call EXCEPT !.stage = stage]
    PROVE  /\ call'.op = call.op /\ call'.records = call.records /\ call'.batch = call.batch
           /\ call' = [op |-> call'.op, records |-> call'.records, batch |-> call'.batch,
                       todo |-> call'.todo, stage |-> call'.stage]
           /\ call' = [call EXCEPT !.todo = todo] => call'.todo = todo /\ call'.stage = call.stage
           /\ call' = [call EXCEPT !.stage = stage] => call'.stage = stage
<1>1. call = [op |-> call.op, records |-> call.records, batch |-> call.batch,
              todo |-> call.todo, stage |-> call.stage]
  BY DEF Inv, TypeOK
<1>2. CASE call' = [call EXCEPT !.todo = todo]
  <2>1. call' = [op |-> call.op, records |-> call.records, batch |-> call.batch,
                 todo |-> todo, stage |-> call.stage]
    BY <1>1, <1>2
  <2>2. ASSUME call' = [call EXCEPT !.stage = stage] PROVE call'.stage = stage
    BY <1>1, <2>2
  <2> QED
    BY <1>2, <2>1, <2>2
<1>3. CASE call' = [call EXCEPT !.stage = stage]
  <2>1. call' = [op |-> call.op, records |-> call.records, batch |-> call.batch,
                 todo |-> call.todo, stage |-> stage]
    BY <1>1, <1>3
  <2>2. ASSUME call' = [call EXCEPT !.todo = todo] PROVE call'.todo = todo /\ call'.stage = call.stage
    BY <1>1, <2>2
  <2> QED
    BY <1>3, <2>1, <2>2
<1> QED
  BY <1>2, <1>3

\* The next record of a call that is saving may be kept, by a hook that is
\* there: the cases of a report have been kept before it.
LEMMA HeadIsStored ==
    ASSUME Inv, At("saving"), call.todo # <<>>, NEW k, k \subseteq kept \cup {Head(call.todo)},
           kept \subseteq k, k = kept \/ Head(call.todo).kind \in hooks
    PROVE  Stored(k, made, held, hooks)
<1> DEFINE r == Head(call.todo)
<1>1. Fit(call.records, made, held) /\ Rest(call.records, call.todo, kept, hooks)
  BY DEF Inv, CallInv, At
<1>2. call.todo \in Seq(RangeOf(call.records))
  BY <1>1 DEF Rest
<1>3. /\ r \in RangeOf(call.records) /\ r = call.todo[1] /\ 1 \in DOMAIN call.todo
      /\ RangeOf(call.todo) = {r} \cup RangeOf(Tail(call.todo))
      /\ Len(Tail(call.todo)) = Len(call.todo) - 1 /\ Len(call.todo) \in Nat
      /\ DOMAIN Tail(call.todo) = 1..(Len(call.todo) - 1)
  BY <1>2, HeadAndTail
<1>4. Stored(kept, made, held, hooks)
  BY DEF Inv, KeptInv
<1> HIDE DEF r
<1>5. /\ r.kind \in Kinds /\ r.id \in 1..made
      /\ r.kind = "evaluation_case" => r \in held
  BY <1>1, <1>3 DEF Fit
<1>6. ASSUME r.kind = "evaluation_report", "evaluation_case" \in hooks
      PROVE  Whole(r, made, held) /\ CasesOf(r, held) \subseteq kept
  <2>1. 1 = Len(call.todo)
    BY <1>1, <1>3, <1>6 DEF Rest
  <2>2. RangeOf(call.todo) = {r}
    BY <1>3, <2>1 DEF RangeOf
  <2>3. Whole(r, made, held) /\ CasesOf(r, held) \subseteq RangeOf(call.records)
    BY <1>1, <1>3, <1>6 DEF Fit
  <2>4. \A c \in CasesOf(r, held) : c \in kept
    BY <1>1, <1>6, <2>2, <2>3 DEF CasesOf, Rest
  <2> QED
    BY <2>3, <2>4
<1>7. ASSUME r.kind = "evaluation_report" PROVE Whole(r, made, held)
  BY <1>1, <1>3, <1>7 DEF Fit
<1>8. k = kept \/ (k = kept \cup {r} /\ r.kind \in hooks)
  BY DEF r
<1>9. CASE k = kept
  BY <1>4, <1>9
<1>10. CASE k = kept \cup {r} /\ r.kind \in hooks
  <2>1. \A s \in k : s.kind \in Kinds \cap hooks /\ s.id \in 1..made
    BY <1>4, <1>5, <1>10 DEF Stored
  <2>2. Of("evaluation_case", k) \subseteq held
    BY <1>4, <1>5, <1>10 DEF Stored, Of
  <2>3. ASSUME NEW s \in Of("evaluation_report", k)
        PROVE  /\ Whole(s, made, held)
               /\ "evaluation_case" \in hooks => CasesOf(s, held) \subseteq k
    <3>1. CASE s \in kept
      BY <1>4, <1>10, <3>1 DEF Stored, Of
    <3>2. CASE s = r
      BY <1>6, <1>7, <1>10, <2>3, <3>2 DEF Of
    <3> QED
      BY <1>10, <2>3, <3>1, <3>2 DEF Of
  <2> QED
    BY <2>1, <2>2, <2>3 DEF Stored
<1> QED
  BY <1>8, <1>9, <1>10

\* What a step that saves a record keeps of the invariant.
LEMMA SavingInv ==
    ASSUME Inv, call # Nothing, NEW todo, NEW stage \in {"saving", "failed", "enveloped"},
           \/ call' = [call EXCEPT !.todo = todo]
           \/ call' = [call EXCEPT !.stage = stage],
           kept \subseteq kept', Stored(kept', made, held, hooks),
           calls' = calls, UNCHANGED <<hooks, logs, held, made, outcome>>,
           errors \subseteq errors', errors' \subseteq 1..calls, raises' \in Nat
    PROVE  TypeOK' /\ HeldInv' /\ KeptInv' /\ TelemetryIsTrue' /\ Fit(call.records, made, held)'
<1>1. KeptInv' /\ HeldInv'
  BY DEF KeptInv, HeldInv, Inv
<1>2. TypeOK'
  <2>1. /\ call' = [op |-> call'.op, records |-> call'.records, batch |-> call'.batch,
                    todo |-> call'.todo, stage |-> call'.stage]
        /\ call'.op \in Operations /\ call'.stage \in {"saving", "failed", "enveloped"}
    BY CallFields DEF Inv, TypeOK
  <2>2. /\ \A r \in held' : /\ r.kind \in {"feedback", "evaluation_case"}
                            /\ r.id \in Int /\ r.id <= made'
        /\ \A l \in logs' : l.op \in Operations /\ l.call \in 1..calls' /\ l.ok \in BOOLEAN
        /\ hooks' \subseteq Hooks /\ made' \in Nat /\ calls' \in Nat /\ calls' > 0
        /\ IsFiniteSet(held')
    BY DEF Inv, TypeOK
  <2>3. \A r \in kept' : r.kind \in Kinds \cap hooks' /\ r.id \in 1..made'
    BY <1>1 DEF KeptInv, Stored
  <2> QED
    BY <2>1, <2>2, <2>3 DEF TypeOK
<1>3. TelemetryIsTrue'
  BY DEF Inv, TelemetryIsTrue
<1>4. Fit(call.records, made, held)'
  BY CallFields DEF Inv, CallInv
<1> QED
  BY <1>1, <1>2, <1>3, <1>4

\* A record is saved, or has no hook; either way it is no longer to be saved.
LEMMA SaveInv ==
    ASSUME Inv, Save
    PROVE  Inv'
<1> DEFINE r == Head(call.todo)
<1>1. /\ At("saving") /\ call.todo # <<>> /\ call # Nothing /\ call.stage = "saving"
      /\ kept' = After(r.kind, kept, r)
      /\ call' = [call EXCEPT !.todo = Tail(call.todo)]
      /\ UNCHANGED <<hooks, logs, errors, held, made, outcome, calls, raises>>
  BY DEF Save, At
<1>2. kept' = IF r.kind \in hooks THEN kept \cup {r} ELSE kept
  BY <1>1 DEF After
<1>3. Stored(kept', made, held, hooks)
  BY <1>1, <1>2, HeadIsStored
<1>4. Fit(call.records, made, held) /\ Rest(call.records, call.todo, kept, hooks)
  BY <1>1 DEF Inv, CallInv
<1>5. call'.records = call.records /\ call'.todo = Tail(call.todo) /\ call'.stage = "saving"
  BY <1>1, CallFields
<1>6. /\ TypeOK' /\ HeldInv' /\ KeptInv' /\ TelemetryIsTrue'
      /\ Fit(call'.records, made', held')
  <2>1. errors' \subseteq 1..calls /\ raises' \in Nat /\ errors \subseteq errors'
    BY <1>1 DEF Inv, TypeOK
  <2> QED
    BY <1>1, <1>2, <1>3, <2>1, SavingInv
<1>7. Rest(call.records, Tail(call.todo), kept', hooks)
  <2>1. call.todo \in Seq(RangeOf(call.records))
    BY <1>4 DEF Rest
  <2>2. /\ RangeOf(call.todo) = {r} \cup RangeOf(Tail(call.todo))
        /\ Tail(call.todo) \in Seq(RangeOf(call.records))
        /\ Len(Tail(call.todo)) = Len(call.todo) - 1 /\ Len(call.todo) \in Nat
        /\ DOMAIN Tail(call.todo) = 1..(Len(call.todo) - 1)
        /\ \A i \in DOMAIN Tail(call.todo) :
              Tail(call.todo)[i] = call.todo[i + 1] /\ i + 1 \in DOMAIN call.todo
    BY <1>1, <2>1, HeadAndTail
  <2>3. ASSUME NEW i \in DOMAIN Tail(call.todo), Tail(call.todo)[i].kind = "evaluation_report"
        PROVE  i = Len(Tail(call.todo))
    <3>1. i + 1 = Len(call.todo)
      BY <1>4, <2>2, <2>3 DEF Rest
    <3> QED
      BY <2>2, <3>1
  <2>4. ASSUME NEW s \in RangeOf(call.records)
        PROVE  s \in RangeOf(Tail(call.todo)) \/ (s.kind \in hooks => s \in kept')
    <3>1. s \in RangeOf(call.todo) \/ (s.kind \in hooks => s \in kept)
      BY <1>4 DEF Rest
    <3> QED
      BY <1>2, <2>2, <3>1
  <2> QED
    BY <2>2, <2>3, <2>4 DEF Rest
<1>8. CallInv'
  BY <1>1, <1>5, <1>6, <1>7 DEF CallInv
<1> QED
  BY <1>6, <1>8 DEF Inv

\* A hook raises: the record may be kept all the same, the rest is not saved.
LEMMA SaveRaisesInv ==
    ASSUME Inv, SaveRaises
    PROVE  Inv'
<1> DEFINE r == Head(call.todo)
<1>1. /\ At("saving") /\ call.todo # <<>> /\ call # Nothing
      /\ r.kind \in hooks /\ raises' = raises + 1
      /\ kept' \in {kept, kept \cup {r}}
      /\ call' = [call EXCEPT !.stage = "failed"]
      /\ UNCHANGED <<hooks, logs, errors, held, made, outcome, calls>>
  BY DEF SaveRaises, At, GiveUp, Raises
<1>2. Stored(kept', made, held, hooks)
  BY <1>1, HeadIsStored
<1>3. call'.stage = "failed"
  BY <1>1, CallFields
<1>4. /\ TypeOK' /\ HeldInv' /\ KeptInv' /\ TelemetryIsTrue'
      /\ Fit(call.records, made, held)'
  <2>1. errors' \subseteq 1..calls /\ raises' \in Nat /\ errors \subseteq errors'
    BY <1>1 DEF Inv, TypeOK
  <2> QED
    BY <1>1, <1>2, <2>1, SavingInv
<1>5. CallInv'
  BY <1>3, <1>4 DEF CallInv
<1> QED
  BY <1>4, <1>5 DEF Inv

\* A call that failed has its envelope, as far as there is a hook for it.
LEMMA SaveErrorInv ==
    ASSUME Inv, SaveError
    PROVE  Inv'
<1>1. /\ call # Nothing /\ errors' = After("error", errors, calls)
      /\ call' = [call EXCEPT !.stage = "enveloped"]
      /\ UNCHANGED <<hooks, kept, logs, held, made, outcome, calls, raises>>
  BY DEF SaveError, At
<1>2. errors' = IF "error" \in hooks THEN errors \cup {calls} ELSE errors
  BY <1>1 DEF After
<1>3. calls \in 1..calls
  BY <1>1 DEF Inv, TypeOK
<1>4. call'.stage = "enveloped"
  BY <1>1, CallFields
<1>5. /\ TypeOK' /\ HeldInv' /\ KeptInv' /\ TelemetryIsTrue'
      /\ Fit(call.records, made, held)'
  <2>1. errors' \subseteq 1..calls /\ raises' \in Nat /\ errors \subseteq errors'
    BY <1>1, <1>2, <1>3 DEF Inv, TypeOK
  <2>2. Stored(kept', made, held, hooks)
    BY <1>1 DEF Inv, KeptInv
  <2> QED
    BY <1>1, <2>1, <2>2, SavingInv
<1>6. CallInv'
  BY <1>1, <1>2, <1>4, <1>5 DEF CallInv
<1> QED
  BY <1>5, <1>6 DEF Inv

\* A call that ends hands its feedback over, and no cases.
LEMMA EndsInv ==
    ASSUME Inv, call # Nothing, NEW how, Ends(how),
           UNCHANGED <<hooks, kept, made, calls>>
    PROVE  /\ HeldInv' /\ KeptInv' /\ CallInv' /\ IsFiniteSet(held')
           /\ \A r \in held' : /\ r.kind \in {"feedback", "evaluation_case"}
                               /\ r.id \in Int /\ r.id <= made'
<1> DEFINE new == IF how = "raised" THEN {} ELSE Of("feedback", RangeOf(call.records))
<1>1. held' = held \cup new /\ call' = Nothing
  BY DEF Ends
<1>2. Fit(call.records, made, held) /\ made \in Nat
  BY DEF Inv, CallInv, TypeOK
<1>3. IsFiniteSet(new) /\ \A r \in new : r.kind = "feedback" /\ r.id \in 1..made
  BY <1>2, FS_EmptySet DEF Fit, Of
<1> HIDE DEF new
<1>4. Of("evaluation_case", held') = Of("evaluation_case", held)
  BY <1>1, <1>3 DEF Of
<1>5. Of("feedback", held) \subseteq Of("feedback", held')
  BY <1>1 DEF Of
<1>6. HeldInv'
  <2>1. \A c \in Of("evaluation_case", held) :
           c.id \in 1..made /\ c.feedback \subseteq Of("feedback", held)
    BY DEF Inv, HeldInv
  <2>2. \A c \in Of("evaluation_case", held') :
           c.id \in 1..made' /\ c.feedback \subseteq Of("feedback", held')
    BY <1>4, <1>5, <2>1
  <2>3. \A c, d \in Of("evaluation_case", held') : c.id = d.id => c = d
    BY <1>4 DEF Inv, HeldInv
  <2> QED
    BY <2>2, <2>3 DEF HeldInv
<1>7. KeptInv'
  <2>1. \A c \in held' : c.kind = "evaluation_case" => c \in held \/ c.id \notin 1..made
    BY <1>1, <1>3
  <2>2. Stored(kept, made, held', hooks)
    BY <1>1, <1>2, <2>1, StoredStays DEF Inv, KeptInv
  <2> QED
    BY <2>2 DEF KeptInv
<1>8. IsFiniteSet(held')
  BY <1>1, <1>3, FS_Union DEF Inv, TypeOK
<1>9. \A r \in held' : /\ r.kind \in {"feedback", "evaluation_case"}
                       /\ r.id \in Int /\ r.id <= made'
  BY <1>1, <1>2, <1>3 DEF Inv, TypeOK
<1>10. CallInv'
  BY <1>1 DEF CallInv
<1> QED
  BY <1>6, <1>7, <1>8, <1>9, <1>10

\* A call may end when the telemetry it leaves is true.
LEMMA EndedInv ==
    ASSUME Inv, call # Nothing, NEW how, Ends(how), UNCHANGED <<hooks, kept, made, calls>>,
           raises' \in Nat, errors' \subseteq 1..calls, errors \subseteq errors',
           NEW added, logs' = logs \cup added,
           \A l \in added :
              /\ l.op \in Operations /\ l.call \in 1..calls /\ l.ok \in BOOLEAN
              /\ IF l.ok THEN \A r \in l.records : r.kind \in hooks => r \in kept
                 ELSE "error" \in hooks => l.call \in errors,
           how = "ok" => \A r \in RangeOf(call.records) : r.kind \in hooks => r \in kept
    PROVE  Inv'
<1>1. /\ HeldInv' /\ KeptInv' /\ CallInv' /\ IsFiniteSet(held')
      /\ \A r \in held' : /\ r.kind \in {"feedback", "evaluation_case"}
                          /\ r.id \in Int /\ r.id <= made'
  BY EndsInv
<1>2. TypeOK'
  <2>1. /\ hooks' \subseteq Hooks /\ made' \in Nat /\ calls' \in Nat
        /\ \A l \in logs' : l.op \in Operations /\ l.call \in 1..calls' /\ l.ok \in BOOLEAN
    BY DEF Inv, TypeOK
  <2>2. \A r \in kept' : r.kind \in Kinds \cap hooks' /\ r.id \in 1..made'
    BY <1>1 DEF KeptInv, Stored
  <2>3. call' = Nothing
    BY DEF Ends
  <2> QED
    BY <1>1, <2>1, <2>2, <2>3 DEF TypeOK
<1>3. TelemetryIsTrue'
  <2>1. ASSUME NEW l \in logs'
        PROVE  IF l.ok THEN \A r \in l.records : r.kind \in hooks' => r \in kept'
               ELSE "error" \in hooks' => l.call \in errors'
    <3>1. IF l.ok THEN \A r \in l.records : r.kind \in hooks => r \in kept
          ELSE "error" \in hooks => l.call \in errors
      BY <2>1 DEF Inv, TelemetryIsTrue
    <3> QED
      BY <3>1
  <2>2. outcome'.how = how /\ outcome'.records = call.records
    BY DEF Ends
  <2>3. outcome'.how = "ok" => \A r \in RangeOf(outcome'.records) : r.kind \in hooks' => r \in kept'
    BY <2>2
  <2> QED
    BY <2>1, <2>3 DEF TelemetryIsTrue
<1> QED
  BY <1>1, <1>2, <1>3 DEF Inv

\* Saving the envelope raises: it may be kept all the same.
LEMMA ErrorRaisesInv ==
    ASSUME Inv, ErrorRaises
    PROVE  Inv'
<1>1. /\ call # Nothing /\ Ends("raised") /\ raises' = raises + 1
      /\ errors' \in {errors, errors \cup {calls}}
      /\ UNCHANGED <<hooks, kept, made, calls>>
  BY DEF ErrorRaises, At, Raises
<1>2. raises' \in Nat /\ errors' \subseteq 1..calls /\ errors \subseteq errors'
  <2>1. calls \in 1..calls /\ errors \subseteq 1..calls /\ raises \in Nat
    BY <1>1 DEF Inv, TypeOK
  <2> QED
    BY <1>1, <2>1
<1>3. PICK added \in {{}} : added = {}
  OBVIOUS
<1>4. logs' = logs \cup added
  BY <1>3 DEF ErrorRaises
<1>5. \A l \in added :
         /\ l.op \in Operations /\ l.call \in 1..calls /\ l.ok \in BOOLEAN
         /\ IF l.ok THEN \A r \in l.records : r.kind \in hooks => r \in kept
            ELSE "error" \in hooks => l.call \in errors
  BY <1>3
<1> QED
  BY <1>1, <1>2, <1>4, <1>5, EndedInv

\* The fields of a log.
LEMMA LogFields ==
    ASSUME NEW l, l = Log
    PROVE  /\ l.op = call.op /\ l.call = calls /\ l.records = RangeOf(call.records)
           /\ l.ok = (call.stage = "saving")
  BY Zenon DEF Log

\* The log that a call would leave is true: a call that is still saving has
\* nothing left to save, any other has its envelope.
LEMMA LogIsTrue ==
    ASSUME Inv, ReadyToLog, NEW l, l = Log
    PROVE  /\ l.op \in Operations /\ l.call \in 1..calls /\ l.ok \in BOOLEAN
           /\ IF l.ok THEN \A r \in l.records : r.kind \in hooks => r \in kept
              ELSE "error" \in hooks => l.call \in errors
           /\ call.stage = "saving" =>
                 \A r \in RangeOf(call.records) : r.kind \in hooks => r \in kept
<1>1. call # Nothing /\ call.stage \in {"saving", "enveloped"}
      /\ (call.stage = "saving" => call.todo = <<>>)
  BY DEF ReadyToLog
<1>2. /\ l.op = call.op /\ l.call = calls /\ l.records = RangeOf(call.records)
      /\ l.ok = (call.stage = "saving")
  BY LogFields
<1>3. call.op \in Operations /\ calls \in 1..calls
  BY <1>1 DEF Inv, TypeOK
<1>4. ASSUME call.stage = "saving", NEW r \in RangeOf(call.records), r.kind \in hooks
      PROVE  r \in kept
  <2>1. Rest(call.records, call.todo, kept, hooks) /\ RangeOf(<<>>) = {}
    BY <1>1, <1>4 DEF Inv, CallInv, RangeOf
  <2> QED
    BY <1>1, <1>4, <2>1 DEF Rest
<1>5. call.stage = "enveloped" /\ "error" \in hooks => calls \in errors
  BY <1>1 DEF Inv, CallInv
<1>6. CASE call.stage = "saving"
  <2>1. l.ok = TRUE
    BY <1>2, <1>6, Zenon
  <2> QED
    BY <1>2, <1>3, <1>4, <1>6, <2>1, Zenon
<1>7. CASE call.stage # "saving"
  <2>1. l.ok = FALSE
    BY <1>2, <1>7, Zenon
  <2>2. call.stage = "enveloped"
    BY <1>1, <1>7
  <2> QED
    BY <1>2, <1>3, <1>5, <1>7, <2>1, <2>2, Zenon
<1> QED
  BY <1>6, <1>7

\* A call logs how it went.
LEMMA AddLogInv ==
    ASSUME Inv, AddLog
    PROVE  Inv'
<1> DEFINE how == IF call.stage = "saving" THEN "ok" ELSE "failed"
           added == IF "log" \in hooks THEN {Log} ELSE {}
<1>1. /\ ReadyToLog /\ call # Nothing /\ Ends(how) /\ logs' = After("log", logs, Log)
      /\ UNCHANGED <<hooks, kept, errors, made, calls, raises>>
  BY DEF AddLog, ReadyToLog
<1>2. logs' = logs \cup added
  BY <1>1, Zenon DEF After
<1>3. raises' \in Nat /\ errors' \subseteq 1..calls /\ errors \subseteq errors'
  BY <1>1 DEF Inv, TypeOK
<1>4. \A l \in added : l = Log
  BY Zenon
<1>5. how = "ok" => call.stage = "saving"
  OBVIOUS
<1> HIDE DEF how, added
<1>6. \A l \in added :
         /\ l.op \in Operations /\ l.call \in 1..calls /\ l.ok \in BOOLEAN
         /\ IF l.ok THEN \A r \in l.records : r.kind \in hooks => r \in kept
            ELSE "error" \in hooks => l.call \in errors
  BY <1>1, <1>4, LogIsTrue, Zenon
<1>7. how = "ok" => \A r \in RangeOf(call.records) : r.kind \in hooks => r \in kept
  BY <1>1, <1>5, LogIsTrue, Zenon
<1> QED
  BY <1>1, <1>2, <1>3, <1>6, <1>7, EndedInv

\* Logging raises: the log may be kept all the same, and nothing is returned.
LEMMA LogRaisesInv ==
    ASSUME Inv, LogRaises
    PROVE  Inv'
<1>1. /\ ReadyToLog /\ call # Nothing /\ Ends("raised") /\ raises' = raises + 1
      /\ logs' \in {logs, logs \cup {Log}}
      /\ UNCHANGED <<hooks, kept, errors, made, calls>>
  BY DEF LogRaises, ReadyToLog, Raises
<1>2. raises' \in Nat /\ errors' \subseteq 1..calls /\ errors \subseteq errors'
  BY <1>1 DEF Inv, TypeOK
<1>3. PICK added \in {{}, {Log}} : logs' = logs \cup added
  BY <1>1, Zenon
<1>4. \A l \in added : l = Log
  BY <1>3, Zenon
<1>5. \A l \in added :
         /\ l.op \in Operations /\ l.call \in 1..calls /\ l.ok \in BOOLEAN
         /\ IF l.ok THEN \A r \in l.records : r.kind \in hooks => r \in kept
            ELSE "error" \in hooks => l.call \in errors
  BY <1>1, <1>4, LogIsTrue, Zenon
<1>6. logs' = logs \cup added
  BY <1>3
<1> HIDE DEF Log
<1> QED
  BY <1>1, <1>2, <1>5, <1>6, EndedInv

(***************************************************************************)
(* The theorems                                                            *)
(***************************************************************************)

\* Every step keeps the invariant.
LEMMA NextInv == Inv /\ [Next]_vars => Inv'
<1> SUFFICES ASSUME Inv, [Next]_vars PROVE Inv'
  OBVIOUS
<1>1. CASE Calls
  <2>1. ASSUME NEW rating \in Ratings, NEW explicit, NEW text, NEW validation, NEW excluded,
               Capture(rating, explicit, text, validation, excluded)
        PROVE  Inv'
    BY <2>1, CaptureInv
  <2>2. ASSUME NEW batch \in Batches(Of("feedback", held)), StoreTrace(batch) PROVE Inv'
    BY <2>2, StoreTraceInv
  <2>3. ASSUME NEW batch \in Batches(Of("feedback", held)), NEW low \in BOOLEAN,
               CreateTasks(batch, low)
        PROVE  Inv'
    <3>1. PICK n \in 0..MaxBatch : batch \in [1..n -> Of("feedback", held)]
      BY DEF Batches
    <3>2. n \in Nat /\ DOMAIN batch = 1..n
      BY <3>1
    <3> QED
      BY <2>3, <3>2, CreateTasksInv
  <2>4. ASSUME NEW cases \in Batches(Of("evaluation_case", held)),
               EvaluateBatch(cases, Ids(Of("improvement_task", kept)))
        PROVE  Inv'
    <3>1. PICK n \in 0..MaxBatch : cases \in [1..n -> Of("evaluation_case", held)]
      BY DEF Batches
    <3>2. n \in Nat
      OBVIOUS
    <3> QED
      BY <2>4, <3>1, <3>2, EvaluateBatchInv
  <2>5. ASSUME Observe PROVE Inv'
    BY <2>5, ObserveInv
  <2>6. ASSUME NEW feedback \in SUBSET Of("feedback", held), BuildCase(feedback) PROVE Inv'
    BY <2>6, BuildCaseInv
  <2> QED
    BY <1>1, <2>1, <2>2, <2>3, <2>4, <2>5, <2>6, Zenon DEF Calls
<1>2. CASE Step
  BY <1>2, SaveInv, SaveRaisesInv, SaveErrorInv, ErrorRaisesInv, AddLogInv, LogRaisesInv DEF Step
<1>3. CASE UNCHANGED vars
  BY <1>3 DEF vars, Inv, TypeOK, CallInv, HeldInv, KeptInv, TelemetryIsTrue
<1> QED
  BY <1>1, <1>2, <1>3 DEF Next, Stop

\* The state has its types, whatever hooks a repository has or raise.
THEOREM TypeCorrect == Spec => []TypeOK
<1>1. Inv => TypeOK
  BY DEF Inv
<1> QED
  BY InitInv, NextInv, <1>1, PTL DEF Spec

\* What the logs, the envelopes and the result of a call say is so: its
\* records are kept when it says so, and a failure has its envelope.
THEOREM TelemetryTrue == Spec => []TelemetryIsTrue
<1>1. Inv => TelemetryIsTrue
  BY DEF Inv
<1> QED
  BY InitInv, NextInv, <1>1, PTL DEF Spec

\* A report that is kept has its cases kept, and counts their failures.
THEOREM ReportsWhole == Spec => []ReportsHaveTheirCases
  BY InitInv, NextInv, InvGivesReports, PTL DEF Spec

(***************************************************************************)
(* The tasks of a batch                                                    *)
(***************************************************************************)

\* A set of naturals that is not empty has a least element.
LEMMA LeastOf ==
    ASSUME NEW S, S \subseteq Nat, NEW s \in S
    PROVE  \E l \in S : \A t \in S : l <= t
<1>1. \E l \in S : \A t \in S : ~ (<<t, l>> \in OpToRel(<, Nat))
  BY NatLessThanWellFounded, WFMin
<1>2. \E l \in S : \A t \in S : ~ (t < l)
  BY <1>1 DEF OpToRel
<1> QED
  BY <1>2

\* How many elements of F there are up to one of them.
Rank(F, i) == Cardinality({h \in F : h <= i})

\* The ranks of a finite set of numbers are those from 1 to its size, each once.
LEMMA RanksAreOnce ==
    ASSUME NEW F, IsFiniteSet(F), F \subseteq Nat
    PROVE  /\ \A i \in F : Rank(F, i) \in 1..Cardinality(F)
           /\ \A i, j \in F : Rank(F, i) = Rank(F, j) => i = j
           /\ \A k \in 1..Cardinality(F) : \E i \in F : Rank(F, i) = k
<1> DEFINE Upto(i) == {h \in F : h <= i}
           n == Cardinality(F)
<1>1. n \in Nat
  BY FS_CardinalityType
<1>2. ASSUME NEW i \in F PROVE Rank(F, i) \in 1..n
  <2>1. IsFiniteSet(Upto(i)) /\ Cardinality(Upto(i)) <= n /\ Cardinality(Upto(i)) \in Nat
    <3>1. Upto(i) \in SUBSET F
      OBVIOUS
    <3> QED
      BY <3>1, FS_Subset, FS_CardinalityType
  <2>2. i \in Upto(i)
    OBVIOUS
  <2>3. Cardinality(Upto(i)) # 0
    BY <2>1, <2>2, FS_EmptySet
  <2> QED
    BY <1>1, <2>1, <2>3 DEF Rank
<1>3. ASSUME NEW i \in F, NEW j \in F, i < j PROVE Rank(F, i) # Rank(F, j)
  <2>1. IsFiniteSet(Upto(j))
    <3>1. Upto(j) \in SUBSET F
      OBVIOUS
    <3> QED
      BY <3>1, FS_Subset
  <2>2. i \in Nat /\ j \in Nat
    OBVIOUS
  <2>3. Upto(i) \in SUBSET Upto(j)
    <3>1. ASSUME NEW h \in F, h <= i PROVE h <= j
      <4>1. h \in Nat
        OBVIOUS
      <4> QED
        BY <1>3, <2>2, <3>1, <4>1
    <3> QED
      BY <3>1
  <2>5. j \in Upto(j) /\ j \notin Upto(i)
    BY <1>3, <2>2
  <2>4. Cardinality(Upto(j)) # Cardinality(Upto(i))
    <3> HIDE DEF Upto
    <3> QED
      BY <2>1, <2>3, <2>5, FS_Subset
  <2> QED
    BY <2>4 DEF Rank
<1>4. ASSUME NEW i \in F, NEW j \in F, Rank(F, i) = Rank(F, j) PROVE i = j
  <2>1. i \in Nat /\ j \in Nat
    OBVIOUS
  <2>2. i < j \/ j < i \/ i = j
    BY <2>1
  <2> QED
    BY <1>3, <1>4, <2>2
<1> DEFINE f == [i \in F |-> Rank(F, i)]
<1>5. f \in Injection(F, 1..n)
  BY <1>2, <1>4 DEF Injection, IsInjective
<1>6. IsFiniteSet(1..n) /\ Cardinality(1..n) = n
  BY <1>1, FS_Interval
<1>7. f \in Surjection(F, 1..n)
  <2> HIDE DEF f
  <2> QED
    BY <1>5, <1>6, FS_Injection
<1>8. \A k \in 1..n : \E i \in F : f[i] = k
  <2> HIDE DEF f
  <2> QED
    BY <1>7 DEF Surjection
<1> QED
  BY <1>2, <1>4, <1>8

\* The tasks are those of the first records of each category.
LEMMA TasksOfFirsts ==
    ASSUME NEW n \in Nat, NEW batch, DOMAIN batch = 1..n, NEW low
    PROVE  LET F     == Firsts(batch)
               tasks == Tasks(batch, low)
           IN  /\ DOMAIN tasks = 1..Cardinality(F) /\ Cardinality(F) \in Nat
               /\ \A k \in DOMAIN tasks : \E i \in F :
                     /\ Rank(F, i) = k
                     /\ tasks[k].category = CategoryOf(batch[i])
                     /\ tasks[k].feedback = Ids(RangeOf(batch))
                     /\ tasks[k].priority =
                           Priority(CategoryOf(batch[i]), RangeOf(batch), low)
                     /\ tasks[k].kind = "improvement_task"
               /\ \A i \in F : Rank(F, i) \in DOMAIN tasks
                               /\ tasks[Rank(F, i)].category = CategoryOf(batch[i])
<1> DEFINE F == Firsts(batch)
           tasks == Tasks(batch, low)
           Of1(k) == CHOOSE j \in F : Rank(F, j) = k
<1>1. IsFiniteSet(F) /\ Cardinality(F) \in Nat
  BY FirstsAreFinite
<1>2. F \subseteq Nat
  BY DEF Firsts
<1>3. /\ \A i \in F : Rank(F, i) \in 1..Cardinality(F)
      /\ \A i, j \in F : Rank(F, i) = Rank(F, j) => i = j
      /\ \A k \in 1..Cardinality(F) : \E i \in F : Rank(F, i) = k
  <2> HIDE DEF F
  <2> QED
    BY <1>1, <1>2, RanksAreOnce
<1>4. \A k \in 1..Cardinality(F) : Of1(k) \in F /\ Rank(F, Of1(k)) = k
  <2> HIDE DEF F
  <2> QED
    BY <1>3
<1>5. /\ DOMAIN tasks = 1..Cardinality(F)
      /\ \A k \in 1..Cardinality(F) :
            tasks[k] = [kind |-> "improvement_task", id |-> made + k,
                        category |-> CategoryOf(batch[Of1(k)]),
                        feedback |-> Ids(RangeOf(batch)),
                        priority |-> Priority(CategoryOf(batch[Of1(k)]), RangeOf(batch), low)]
  BY DEF Tasks, Rank
<1> HIDE DEF F, tasks, Of1
<1>6. ASSUME NEW k \in DOMAIN tasks
      PROVE  \E i \in F : /\ Rank(F, i) = k
                          /\ tasks[k].category = CategoryOf(batch[i])
                          /\ tasks[k].feedback = Ids(RangeOf(batch))
                          /\ tasks[k].priority =
                                Priority(CategoryOf(batch[i]), RangeOf(batch), low)
                          /\ tasks[k].kind = "improvement_task"
  BY <1>4, <1>5
<1>7. ASSUME NEW i \in F
      PROVE  Rank(F, i) \in DOMAIN tasks /\ tasks[Rank(F, i)].category = CategoryOf(batch[i])
  <2>1. Rank(F, i) \in DOMAIN tasks
    BY <1>3, <1>5
  <2>2. PICK j \in F : Rank(F, j) = Rank(F, i)
                       /\ tasks[Rank(F, i)].category = CategoryOf(batch[j])
    BY <1>6, <2>1
  <2>3. i = j
    BY <1>3, <2>2
  <2> QED
    BY <2>1, <2>2, <2>3
<1> QED
  BY <1>1, <1>5, <1>6, <1>7 DEF F, tasks

\* The records of a category have their ids in its task.
HasItsFeedback(t, batch) ==
    {f.id : f \in {g \in RangeOf(batch) : CategoryOf(g) = t.category}} \subseteq t.feedback

\* What a call returns covers its batch.
Covers(records, batch) ==
    /\ {t.category : t \in RangeOf(records)}
          = {CategoryOf(f) : f \in RangeOf(batch)} \ {Nothing}
    /\ Len(records) = Cardinality({t.category : t \in RangeOf(records)})
    /\ \A t \in RangeOf(records) : t.kind = "improvement_task" /\ HasItsFeedback(t, batch)
    /\ (\E f \in RangeOf(batch) : f.rating = "incorrect") =>
          \A t \in RangeOf(records) : t.priority = 1

\* The first record of the category of a record.
LEMMA FirstOf ==
    ASSUME NEW n \in Nat, NEW batch, DOMAIN batch = 1..n, NEW i \in 1..n,
           CategoryOf(batch[i]) # Nothing
    PROVE  \E j \in Firsts(batch) : CategoryOf(batch[j]) = CategoryOf(batch[i])
<1> DEFINE S == {j \in 1..n : CategoryOf(batch[j]) = CategoryOf(batch[i])}
<1>1. S \subseteq Nat /\ i \in S
  OBVIOUS
<1>2. PICK j \in S : \A t \in S : j <= t
  <2> HIDE DEF S
  <2> QED
    BY <1>1, LeastOf
<1>3. ASSUME NEW t \in 1..(j - 1) PROVE CategoryOf(batch[t]) # CategoryOf(batch[j])
  <2>1. t \in 1..n /\ ~(j <= t)
    OBVIOUS
  <2> QED
    BY <1>2, <2>1
<1> QED
  BY <1>2, <1>3 DEF Firsts

\* The tasks of a batch cover it.
LEMMA TasksCover ==
    ASSUME NEW n \in Nat, NEW batch, DOMAIN batch = 1..n, NEW low
    PROVE  Covers(Tasks(batch, low), batch)
<1> DEFINE F == Firsts(batch)
           tasks == Tasks(batch, low)
           m == Cardinality(F)
<1>1. /\ DOMAIN tasks = 1..m /\ m \in Nat
      /\ \A k \in DOMAIN tasks : \E i \in F :
            /\ Rank(F, i) = k
            /\ tasks[k].category = CategoryOf(batch[i])
            /\ tasks[k].feedback = Ids(RangeOf(batch))
            /\ tasks[k].priority = Priority(CategoryOf(batch[i]), RangeOf(batch), low)
            /\ tasks[k].kind = "improvement_task"
      /\ \A i \in F : Rank(F, i) \in DOMAIN tasks
                      /\ tasks[Rank(F, i)].category = CategoryOf(batch[i])
  BY TasksOfFirsts
<1>2. F \subseteq 1..n /\ \A i \in F : CategoryOf(batch[i]) # Nothing
  BY DEF Firsts
<1>3. \A i, j \in F : CategoryOf(batch[i]) = CategoryOf(batch[j]) => i = j
  <2>1. ASSUME NEW i \in F, NEW j \in F, i < j PROVE CategoryOf(batch[i]) # CategoryOf(batch[j])
    <3>1. i \in 1..(j - 1)
      BY <1>2, <2>1
    <3> QED
      BY <3>1 DEF Firsts
  <2>2. \A i, j \in F : i < j \/ j < i \/ i = j
    BY <1>2
  <2> QED
    BY <2>1, <2>2
<1>4. tasks = [k \in 1..m |-> tasks[k]]
  BY DEF Tasks
<1>5. Len(tasks) = m
  <2> HIDE DEF tasks, m
  <2> QED
    BY <1>1, <1>4, SequenceOf
<1> HIDE DEF F, tasks, m
<1>6. {t.category : t \in RangeOf(tasks)} = {CategoryOf(f) : f \in RangeOf(batch)} \ {Nothing}
  <2>1. ASSUME NEW f \in RangeOf(batch), CategoryOf(f) # Nothing
        PROVE  \E t \in RangeOf(tasks) : t.category = CategoryOf(f)
    <3>1. PICK i \in 1..n : f = batch[i]
      BY DEF RangeOf
    <3>2. PICK j \in F : CategoryOf(batch[j]) = CategoryOf(f)
      BY <2>1, <3>1, FirstOf DEF F
    <3>3. PICK k \in DOMAIN tasks : tasks[k].category = CategoryOf(f)
      BY <1>1, <3>2
    <3> QED
      BY <3>3 DEF RangeOf
  <2>2. ASSUME NEW t \in RangeOf(tasks)
        PROVE  t.category # Nothing /\ \E f \in RangeOf(batch) : t.category = CategoryOf(f)
    <3>1. PICK k \in DOMAIN tasks : t = tasks[k]
      BY DEF RangeOf
    <3>2. PICK i \in F : tasks[k].category = CategoryOf(batch[i])
      BY <1>1
    <3>3. batch[i] \in RangeOf(batch) /\ CategoryOf(batch[i]) # Nothing
      BY <1>2 DEF RangeOf
    <3> QED
      BY <3>1, <3>2, <3>3
  <2> QED
    BY <2>1, <2>2
<1>7. Len(tasks) = Cardinality({t.category : t \in RangeOf(tasks)})
  <2> DEFINE C == {t.category : t \in RangeOf(tasks)}
             g == [k \in 1..m |-> tasks[k].category]
  <2>1. \A k \in 1..m : g[k] \in C
    BY <1>1 DEF RangeOf
  <2>2. \A c \in C : \E k \in 1..m : g[k] = c
    BY <1>1 DEF RangeOf
  <2>3. ASSUME NEW k \in 1..m, NEW l \in 1..m, g[k] = g[l] PROVE k = l
    <3>1. PICK i \in F : Rank(F, i) = k /\ tasks[k].category = CategoryOf(batch[i])
      BY <1>1
    <3>2. PICK j \in F : Rank(F, j) = l /\ tasks[l].category = CategoryOf(batch[j])
      BY <1>1
    <3>3. i = j
      BY <1>3, <2>3, <3>1, <3>2
    <3> QED
      BY <3>1, <3>2, <3>3
  <2>4. g \in [1..m -> C]
    BY <2>1
  <2> HIDE DEF C, g
  <2>5. g \in Bijection(1..m, C)
    BY <2>2, <2>3, <2>4 DEF Bijection, Injection, Surjection, IsInjective
  <2>6. IsFiniteSet(1..m) /\ Cardinality(1..m) = m
    BY <1>1, FS_Interval
  <2>7. Cardinality(C) = m
    BY <2>5, <2>6, FS_Bijection DEF ExistsBijection
  <2> QED
    BY <1>5, <2>7 DEF C
<1>8. ASSUME NEW f \in RangeOf(batch), f.rating = "incorrect", NEW t \in RangeOf(tasks)
      PROVE  t.priority = 1
  <2>1. PICK k \in DOMAIN tasks : t = tasks[k]
    BY DEF RangeOf
  <2>2. PICK i \in F : tasks[k].priority = Priority(CategoryOf(batch[i]), RangeOf(batch), low)
    BY <1>1
  <2>3. "incorrect" \in {h.rating : h \in RangeOf(batch)}
    BY <1>8
  <2> QED
    BY <2>1, <2>2, <2>3 DEF Priority
<1>9. ASSUME NEW t \in RangeOf(tasks)
      PROVE  t.kind = "improvement_task" /\ HasItsFeedback(t, batch)
  <2>1. PICK k \in DOMAIN tasks : t = tasks[k]
    BY DEF RangeOf
  <2>2. t.kind = "improvement_task" /\ t.feedback = Ids(RangeOf(batch))
    BY <1>1, <2>1
  <2> QED
    BY <2>2 DEF HasItsFeedback, Ids
<1> QED
  BY <1>6, <1>7, <1>8, <1>9 DEF Covers, tasks

\* The call under way, and the result of the last one, cover their batch.
TasksInv ==
    /\ call # Nothing /\ call.op = "create_improvement_tasks" => Covers(call.records, call.batch)
    /\ outcome # Nothing /\ outcome.op = "create_improvement_tasks" =>
          Covers(outcome.records, outcome.batch)

\* A call that begins has its tasks made.
LEMMA BeginTasks ==
    ASSUME TasksInv, NEW op, NEW records, NEW batch, NEW fresh,
           Begin(op, records, batch, fresh),
           op = "create_improvement_tasks" => Covers(records, batch)
    PROVE  TasksInv'
<1>1. call'.op = op /\ call'.records = records /\ call'.batch = batch /\ outcome' = Nothing
  BY DEF Begin
<1> QED
  BY <1>1 DEF TasksInv

\* A step that saves changes neither the tasks nor their batch.
LEMMA SavingTasks ==
    ASSUME Inv, TasksInv, call # Nothing, NEW todo, NEW stage, outcome' = outcome,
           call' = [call EXCEPT !.todo = todo] \/ call' = [call EXCEPT !.stage = stage]
    PROVE  TasksInv'
<1>1. call'.op = call.op /\ call'.records = call.records /\ call'.batch = call.batch
  BY CallFields
<1> QED
  BY <1>1 DEF TasksInv

\* A call that ends returns its tasks.
LEMMA EndsTasks ==
    ASSUME TasksInv, call # Nothing, NEW how, Ends(how)
    PROVE  TasksInv'
<1>1. /\ call' = Nothing /\ outcome'.op = call.op /\ outcome'.records = call.records
      /\ outcome'.batch = call.batch
  BY DEF Ends
<1> QED
  BY <1>1 DEF TasksInv

\* Every step keeps the tasks covering their batch.
LEMMA TasksStep == Inv /\ TasksInv /\ [Next]_vars => TasksInv'
<1> SUFFICES ASSUME Inv, TasksInv, [Next]_vars PROVE TasksInv'
  OBVIOUS
<1>1. CASE Calls
  <2>1. ASSUME NEW rating, NEW explicit, NEW text, NEW validation, NEW excluded,
               Capture(rating, explicit, text, validation, excluded)
        PROVE  TasksInv'
    <3>1. \E records : Begin("capture_feedback", records, <<>>, 1)
      BY <2>1 DEF Capture
    <3> QED
      BY <3>1, BeginTasks
  <2>2. ASSUME NEW batch, StoreTrace(batch) PROVE TasksInv'
    <3>1. \E records : Begin("store_evaluation_trace", records, batch, 1)
      BY <2>2 DEF StoreTrace
    <3> QED
      BY <3>1, BeginTasks
  <2>3. ASSUME NEW batch \in Batches(Of("feedback", held)), NEW low, CreateTasks(batch, low)
        PROVE  TasksInv'
    <3>1. PICK n \in 0..MaxBatch : batch \in [1..n -> Of("feedback", held)]
      BY DEF Batches
    <3>2. n \in Nat /\ DOMAIN batch = 1..n
      BY <3>1
    <3>3. Covers(Tasks(batch, low), batch)
      BY <3>2, TasksCover
    <3> QED
      BY <2>3, <3>3, BeginTasks DEF CreateTasks
  <2>4. ASSUME NEW cases, NEW tasks, EvaluateBatch(cases, tasks) PROVE TasksInv'
    <3>1. \E records : Begin("evaluate_batch", records, cases, 1)
      BY <2>4 DEF EvaluateBatch
    <3> QED
      BY <3>1, BeginTasks
  <2>5. ASSUME Observe PROVE TasksInv'
    <3>1. \E records : Begin("build_observability_report", records, <<>>, 1)
      BY <2>5 DEF Observe
    <3> QED
      BY <3>1, BeginTasks
  <2>6. ASSUME NEW feedback, BuildCase(feedback) PROVE TasksInv'
    BY <2>6 DEF BuildCase, TasksInv
  <2> QED
    BY <1>1, <2>1, <2>2, <2>3, <2>4, <2>5, <2>6, Zenon DEF Calls
<1>2. CASE Step
  <2>1. CASE Save
    BY <2>1, SavingTasks DEF Save, At
  <2>2. CASE SaveRaises
    BY <2>2, SavingTasks DEF SaveRaises, At, GiveUp
  <2>3. CASE SaveError
    BY <2>3, SavingTasks DEF SaveError, At
  <2>4. CASE ErrorRaises
    BY <2>4, EndsTasks DEF ErrorRaises, At
  <2>5. CASE AddLog
    BY <2>5, EndsTasks DEF AddLog, ReadyToLog
  <2>6. CASE LogRaises
    BY <2>6, EndsTasks DEF LogRaises, ReadyToLog
  <2> QED
    BY <1>2, <2>1, <2>2, <2>3, <2>4, <2>5, <2>6 DEF Step
<1>3. CASE UNCHANGED vars
  BY <1>3 DEF vars, TasksInv
<1> QED
  BY <1>1, <1>2, <1>3 DEF Next, Stop

\* The tasks of a call that named no failure are kept, if there is a hook.
LEMMA CoveredAreKept == Inv /\ TasksInv => TasksCoverFailures
<1> SUFFICES ASSUME Inv, TasksInv, outcome # Nothing,
                    outcome.op = "create_improvement_tasks", outcome.how = "ok"
             PROVE  /\ Covers(outcome.records, outcome.batch)
                    /\ \A t \in RangeOf(outcome.records) :
                          "improvement_task" \in hooks => t \in kept
  <2>1. \A f : CategoryOf(f) = IF f.category = Nothing THEN CategoryOfRating(f.rating)
                               ELSE f.category
    BY DEF CategoryOf
  <2> QED
    BY <2>1 DEF TasksCoverFailures, Covers, HasItsFeedback
<1>1. Covers(outcome.records, outcome.batch)
  BY DEF TasksInv
<1>2. \A t \in RangeOf(outcome.records) : t.kind \in hooks => t \in kept
  BY DEF Inv, TelemetryIsTrue
<1> QED
  BY <1>1, <1>2 DEF Covers

\* The tasks of a call that returns without a failure cover the feedback that
\* it was given, and are kept.
THEOREM TasksCoverTheFailures == Spec => []TasksCoverFailures
<1>1. Init => Inv /\ TasksInv
  BY InitInv DEF Init, TasksInv
<1> QED
  BY <1>1, NextInv, TasksStep, CoveredAreKept, PTL DEF Spec
=============================================================================

-------------------------- MODULE DevelopmentScore --------------------------
(***************************************************************************)
(* How the answers of one repeat become its gate: the contract the paid    *)
(* runner holds a live result to (run_paid_evaluation.py) and the strict   *)
(* scorer of evaluation/development-v2/runner.py, case after case.         *)
(***************************************************************************)
EXTENDS Naturals, Sequences, FiniteSets, FiniteSetsExt, Nothing

CONSTANTS
  RuleIds, Blockers,    \* the rules, and those of severity blocker
  Locations, Actual,  \* artifacts and locations an answer names, and those that exist
  Truths,      \* sequence of the ground truths
  Minimum,     \* thresholds in per cent
  MaxFindings  \* bound: findings of one answer

Findings == [rule : RuleIds, place : Locations, quotes : BOOLEAN, valid : BOOLEAN]

\* What a case of the corpus may expect: _validate_case lets a rule have one finding, which exists.
GroundTruths ==
  {t \in [verdict : {"approve", "changes", "incomplete"},
          findings : Seq([rule : RuleIds, place : Actual])] :
     \A i, j \in DOMAIN t.findings : i # j => t.findings[i].rule # t.findings[j].rule}

\* An execution: what was run, with how many model calls, whether their cost is complete,
\* and what proves it.
Executions ==
  [kind : {"model", "host"}, calls : 0..1, cost : BOOLEAN,
   receipts : {None, "bound", "loose"}, host : {None, "exact", "more"}]

Answers ==
  [status : {"complete", "incomplete", "error"},
   verdict : {"approve", "changes", "incomplete"},
   findings : UNION {[1..n -> Findings] : n \in 0..MaxFindings}]

NothingScored ==
  [cases |-> 0, exact |-> 0, outcome |-> 0, schema |-> 0, tp |-> 0, fp |-> 0, fn |-> 0,
   fnBlocker |-> 0, unsafe |-> 0, invalid |-> 0]

ScoreAssumption ==
  /\ Truths \in Seq(GroundTruths) /\ Truths # <<>>
  /\ Minimum \in [precision : 0..100, recall : 0..100, outcome : 0..100, exact : 0..100]
  /\ None \notin Executions

VARIABLES
  execution,  \* of the case in hand, None between cases
  metrics,    \* what the scorer has added up
  truth,      \* history: what the answers really were
  gate        \* "open", "refused" by the runner, "passed" or "failed"

scoreVars == <<execution, metrics, truth, gate>>

ScoreInit ==
  /\ execution = None
  /\ metrics = NothingScored
  /\ truth = [unsafe |-> FALSE, missed |-> FALSE, madeup |-> FALSE, unproved |-> FALSE,
              exact |-> 0, best |-> 0]
  /\ gate = "open"

case == Truths[metrics.cases + 1]
Undecided == case.verdict = "incomplete"

-----------------------------------------------------------------------------

\* The part of the contract that is about the execution: _validate_case_execution.
ExecutionAccepted(e) ==
  /\ e.cost
  /\ IF Undecided
     THEN e.kind = "host" /\ e.receipts = None /\ e.host # None /\ e.calls = 0
     ELSE e.kind = "model" /\ e.receipts # None /\ e.host = None /\ e.calls >= 1

\* The scorer holds the same execution to more: bound receipts, and the exact host codes.
TrustedUsage(e) == e.cost /\ (IF Undecided THEN e.calls = 0 ELSE e.calls >= 1)

TrustedReceipts(e) == e.receipts = "bound"

TrustedHost(e) == e.host = "exact"

TrustedExecution(e) ==
  /\ TrustedUsage(e)
  /\ IF Undecided
     THEN e.kind = "host" /\ e.receipts = None /\ TrustedHost(e)
     ELSE e.kind = "model" /\ e.host = None /\ TrustedReceipts(e)

\* A host result must be the incomplete one, with the locked findings only.
FinalAccepted(a) == Undecided => a.status = "incomplete" /\ a.verdict = "incomplete" /\ a.findings = <<>>

SchemaValid(a) ==
  /\ (a.status = "complete") = (a.verdict # "incomplete")
  /\ \A i \in DOMAIN a.findings : a.findings[i].valid
  /\ \A i, j \in DOMAIN a.findings :
       i # j => \/ a.findings[i].rule # a.findings[j].rule
                \/ a.findings[i].place # a.findings[j].place

Predicted(a) == IF SchemaValid(a) THEN a.findings ELSE <<>>

Grounded(f) == f.place \in Actual

Matches(f, expected) == f.rule = expected.rule /\ f.place = expected.place /\ f.quotes

InPlace(a) ==   \* mutant
  LET p == Predicted(a) IN
  {m \in {<<n, n>> : n \in (DOMAIN p) \cap (DOMAIN case.findings)} :
     Grounded(p[m[1]]) /\ Matches(p[m[1]], case.findings[m[1]])}
\* The findings of the ground truth, in order, each take the first free grounded match.
Matching(a) ==
  LET p == Predicted(a)
      match[n \in 0..Len(case.findings)] ==
        IF n = 0 THEN {}
        ELSE LET free == {i \in (DOMAIN p) \ {m[2] : m \in match[n - 1]} :
                            Grounded(p[i]) /\ Matches(p[i], case.findings[n])} IN
             IF free = {} THEN match[n - 1] ELSE match[n - 1] \cup {<<n, Min(free)>>}
  IN match[Len(case.findings)]

\* Taken from the raw answer: one that fails the schema can still be unsafe.
UnsafeApprove(a) == a.verdict = "approve" /\ case.verdict # "approve"

Scored(a) ==
  LET p == Predicted(a)
      matched == Matching(a)
      found == {m[1] : m \in matched}
      fp == Len(p) - Cardinality(matched)
      fn == Len(case.findings) - Cardinality(matched)
      madeup == Cardinality({i \in DOMAIN p : ~Grounded(p[i])})
      distrusted == ~TrustedExecution(execution)
      exact == /\ SchemaValid(a)
               /\ a.verdict = case.verdict
               /\ (a.status = "incomplete") = Undecided
               /\ fp = 0 /\ fn = 0 /\ madeup = 0 /\ ~distrusted
      One(b) == IF b THEN 1 ELSE 0
  IN [cases |-> metrics.cases + 1,
      exact |-> metrics.exact + One(exact),
      outcome |-> metrics.outcome + One(a.verdict = case.verdict),
      schema |-> metrics.schema + One(SchemaValid(a)),
      tp |-> metrics.tp + Cardinality(matched),
      fp |-> metrics.fp + fp,
      fn |-> metrics.fn + fn,
      fnBlocker |-> metrics.fnBlocker
        + Cardinality({n \in DOMAIN case.findings : n \notin found /\ case.findings[n].rule \in Blockers}),
      unsafe |-> metrics.unsafe + One(UnsafeApprove(a)),
      invalid |-> metrics.invalid + madeup + One(distrusted)]

AtLeast(numerator, denominator, percent) ==
  denominator = 0 \/ 100 * numerator >= percent * denominator

GateOpens(m) ==
  /\ m.fnBlocker = 0 /\ m.unsafe = 0 /\ m.invalid = 0
  /\ m.schema = m.cases
  /\ AtLeast(m.tp, m.tp + m.fp, Minimum.precision)
  /\ AtLeast(m.tp, m.tp + m.fn, Minimum.recall)
  /\ AtLeast(m.outcome, m.cases, Minimum.outcome)
  /\ AtLeast(m.exact, m.cases, Minimum.exact)

-----------------------------------------------------------------------------

\* Independent of the scorer: how many findings of the ground truth can be paired off.
BestMatching(a) ==
  IF ~SchemaValid(a) THEN 0
  ELSE LET pairs == {x \in (DOMAIN case.findings) \X (DOMAIN a.findings) :
                       Grounded(a.findings[x[2]]) /\ Matches(a.findings[x[2]], case.findings[x[1]])}
           OneToOne(s) == \A x, y \in s : x # y => x[1] # y[1] /\ x[2] # y[2]
       IN Max({Cardinality(s) : s \in {s \in SUBSET pairs : OneToOne(s)}})

Reported(a, expected) ==
  \E i \in DOMAIN a.findings : a.findings[i].rule = expected.rule /\ a.findings[i].place = expected.place

RightAnswer(a) ==
  /\ a.verdict = case.verdict
  /\ a.status = IF Undecided THEN "incomplete" ELSE "complete"
  /\ Len(a.findings) = Len(case.findings)
  /\ \A n \in DOMAIN case.findings :
       \E i \in DOMAIN a.findings : a.findings[i].valid /\ Matches(a.findings[i], case.findings[n])

Proved(e) ==
  /\ e.cost
  /\ IF Undecided THEN e.kind = "host" /\ e.calls = 0 /\ e.host = "exact" /\ e.receipts = None
                  ELSE e.kind = "model" /\ e.calls > 0 /\ e.receipts = "bound" /\ e.host = None

RunCase(e) ==
  /\ gate = "open" /\ execution = None /\ metrics.cases < Len(Truths)
  /\ IF ExecutionAccepted(e)
     THEN execution' = e /\ UNCHANGED gate
     ELSE gate' = "refused" /\ UNCHANGED execution
  /\ UNCHANGED <<metrics, truth>>

AnswerCase(a) ==
  /\ gate = "open" /\ execution # None
  /\ IF FinalAccepted(a)
     THEN /\ metrics' = Scored(a)
          /\ truth' =
               [unsafe |-> truth.unsafe \/ (a.verdict = "approve" /\ case.verdict # "approve"),
                missed |-> truth.missed \/ \E n \in DOMAIN case.findings :
                  case.findings[n].rule \in Blockers /\ ~Reported(a, case.findings[n]),
                madeup |-> truth.madeup \/ \E i \in DOMAIN a.findings : a.findings[i].place \notin Actual,
                unproved |-> truth.unproved \/ ~Proved(execution),
                exact |-> truth.exact + IF RightAnswer(a) THEN 1 ELSE 0,
                best |-> truth.best + BestMatching(a)]
          /\ execution' = None
          /\ UNCHANGED gate
     ELSE gate' = "refused" /\ UNCHANGED <<execution, metrics, truth>>

Measure ==
  /\ gate = "open" /\ metrics.cases = Len(Truths)
  /\ gate' = IF GateOpens(metrics) THEN "passed" ELSE "failed"
  /\ UNCHANGED <<execution, metrics, truth>>

ScoreNext ==
  \/ \E e \in Executions : RunCase(e)
  \/ \E a \in Answers : AnswerCase(a)
  \/ Measure

ScoreSpec == ScoreInit /\ [][ScoreNext]_scoreVars

-----------------------------------------------------------------------------

\* A repeat that passes the gate approved no case it must not, missed no blocker, named no
\* place that does not exist, and every case of it is proved to be what it says it is.
GateIsSafe ==
  gate = "passed" => ~truth.unsafe /\ ~truth.missed /\ ~truth.madeup /\ ~truth.unproved

\* Taking the first free match loses nothing: as many findings are matched as can be.
MatchingIsBest == metrics.tp = truth.best

\* A proved repeat of right answers passes.
RightRepeatPasses ==
  gate \in {"passed", "failed"} /\ truth.exact = Len(Truths) /\ ~truth.unproved => gate = "passed"

\* What the gate of a repeat says is so, and no finding is lost to the order they are matched in.
RepeatIsScored == MatchingIsBest /\ GateIsSafe /\ RightRepeatPasses
=============================================================================

------------------------------ MODULE FitnessGate ------------------------------
(***************************************************************************)
(* The examination a candidate rule base must pass: evaluate and gate of   *)
(* aga-skill/evolver/fitness.py.                                           *)
(*                                                                         *)
(* A candidate changes one rule, the severity of what it reports or the    *)
(* cases it fires in, or deprecates it.  The corpus is read as             *)
(* golden/corpus.yaml is written: an expected finding names a rule and a   *)
(* severity, neither artifact nor location nor defect, so the matching is  *)
(* one of counts.  A rule's finding hides those of the rules it has        *)
(* precedence over (aga.deduplicate_findings).  The candidate that passes  *)
(* becomes the next base.  Ratios are compared exactly, where the code     *)
(* rounds them to four digits.                                             *)
(***************************************************************************)
EXTENDS Naturals, Sequences, FiniteSets, SequencesExt, FiniteSetsExt

CONSTANTS
  Rules, Cases,
  Precedence,  \* the pairs <<winner, loser>>
  Expected,    \* the ground truth of a case: a sequence of findings
  Outcome,     \* its expected verdict: the severity it follows from, or None
  Relevant,    \* the cases a rule's scope is reviewed in
  Most,        \* bound: findings of a rule in a case
  None

Severities == {"blocker", "major", "minor"}

GateAssumption ==
  /\ Precedence \subseteq Rules \X Rules
  /\ Expected \in [Cases -> Seq([rule : Rules, severity : Severities])]
  /\ Relevant \in [Rules -> SUBSET Cases]
  /\ Most \in Nat \ {0}

VARIABLES
  severity,  \* of each rule; None when it is deprecated
  detected   \* how often a rule's detector fires in a case

vars == <<severity, detected>>

TypeOK ==
  /\ severity \in [Rules -> Severities \cup {None}]
  /\ detected \in [Rules -> [Cases -> 0..Most]]

Init == TypeOK /\ \A r \in Rules : severity[r] # None

-----------------------------------------------------------------------------
(* The metrics of a rule base, b.severity and b.detected.                  *)

Base(sev, det) == [severity |-> sev, detected |-> det]

Fires(b, r, c) == b.severity[r] # None /\ b.detected[r][c] > 0

\* What the review reports of a rule in a case.
Reported(b, r, c) ==
  IF Fires(b, r, c) /\ ~\E w \in Rules : <<w, r>> \in Precedence /\ Fires(b, w, c)
    THEN b.detected[r][c] ELSE 0

Wanted(r, c, s) == Len(SelectSeq(Expected[c], LAMBDA e : e.rule = r /\ e.severity = s))

AtMost(m, n) == IF m <= n THEN m ELSE n

\* _match_findings: true positives, false positives and false negatives of a severity.
TP(b, r, c, s) == IF b.severity[r] = s THEN AtMost(Reported(b, r, c), Wanted(r, c, s)) ELSE 0
FP(b, r, c, s) == IF b.severity[r] = s THEN Reported(b, r, c) - TP(b, r, c, s) ELSE 0
FN(b, r, c, s) == Wanted(r, c, s) - TP(b, r, c, s)

\* The severities of the unmatched expected findings that a prediction left over stands
\* against: the first ones, in the order of the corpus.
Confused(b, r, c) ==
  LET others == SelectSeq(Expected[c], LAMBDA e : e.rule = r /\ e.severity # b.severity[r])
      spare  == IF b.severity[r] = None THEN 0 ELSE FP(b, r, c, b.severity[r])
  IN  SubSeq(others, 1, AtMost(spare, Len(others)))

Confusion(b) == MapThenSumSet(LAMBDA rc : Len(Confused(b, rc[1], rc[2])), Rules \X Cases)

Total(count(_, _, _), S) == MapThenSumSet(LAMBDA x : count(x[1], x[2], x[3]), Rules \X Cases \X S)

Found(b, S)  == LET count(r, c, s) == TP(b, r, c, s) IN Total(count, S)
False(b, S)  == LET count(r, c, s) == FP(b, r, c, s) IN Total(count, S)
Missed(b, S) == LET count(r, c, s) == FN(b, r, c, s) IN Total(count, S)

\* verdict_from, as the severity the verdict follows from.
Verdict(b, c) ==
  LET severities == {b.severity[r] : r \in {r \in Rules : Reported(b, r, c) > 0}}
  IN  CASE "blocker" \in severities -> "blocker"
        [] "blocker" \notin severities /\ "major" \in severities -> "major"
        [] severities = {"minor"} -> "minor"
        [] OTHER -> None

RightOutcomes(b) == Cardinality({c \in Cases : Verdict(b, c) = Outcome[c]})

\* A ratio with no denominator is one.
NotBelow(n1, d1, n0, d0) ==
  LET num(n, d) == IF d = 0 THEN 1 ELSE n
      den(d)    == IF d = 0 THEN 1 ELSE d
  IN  num(n1, d1) * den(d0) >= num(n0, d0) * den(d1)

\* deterministic_coverage
PositiveCases(r)    == {c \in Cases : \E s \in Severities : Wanted(r, c, s) > 0}
NegativeCases(b, r) == {c \in Relevant[r] : Reported(b, r, c) = 0} \ PositiveCases(r)

-----------------------------------------------------------------------------
(* The gate.                                                               *)

NoBlockerDowngrade(cand) ==
  \A r \in Rules, c \in Cases : \A i \in DOMAIN Confused(cand, r, c) :
    Confused(cand, r, c)[i].severity # "blocker"

NoSeverityGrows(base, cand) ==
  \A s \in Severities : False(cand, {s}) <= False(base, {s}) /\ Missed(cand, {s}) <= Missed(base, {s})

Recalls(base, cand) ==
  \A S \in {{"blocker"}, Severities} :
    NotBelow(Found(cand, S), Found(cand, S) + Missed(cand, S), Found(base, S), Found(base, S) + Missed(base, S))

Precision(base, cand) ==
  LET S == Severities
  IN  NotBelow(Found(cand, S), Found(cand, S) + False(cand, S), Found(base, S), Found(base, S) + False(base, S))

\* mutant
AnyChangeImproves(base, cand) == base # cand

StrictImprovement(base, cand) ==
  \/ False(cand, Severities) < False(base, Severities)
  \/ Missed(cand, Severities) < Missed(base, Severities)
  \/ RightOutcomes(cand) > RightOutcomes(base)
  \/ Confusion(cand) < Confusion(base)

Metrics(base, cand) ==
  /\ NoBlockerDowngrade(cand)
  /\ Recalls(base, cand)
  /\ Precision(base, cand)
  /\ RightOutcomes(cand) >= RightOutcomes(base)
  /\ NoSeverityGrows(base, cand)
  /\ StrictImprovement(base, cand)

\* changed_rule_coverage of a change that is no deprecation.
Covered(cand, r) == PositiveCases(r) # {} /\ NegativeCases(cand, r) # {}

\* deprecation_non_target_stability
OthersStable(base, cand, r) ==
  \A q \in Rules \ {r}, c \in Cases :
    /\ Reported(cand, q, c) = Reported(base, q, c)
    /\ cand.severity[q] = base.severity[q]

\* _target_cases
FiredIn(b, r) == {c \in Cases : Reported(b, r, c) > 0}

\* _deprecation_checks: the rule fires as a false positive only, and the mutation
\* declares exactly the cases the evaluation shows.
Deprecable(base, cand, r, positive, negative) ==
  /\ PositiveCases(r) = {}
  /\ FiredIn(cand, r) = {}
  /\ OthersStable(base, cand, r)
  /\ positive # {} /\ positive = FiredIn(base, r)
  /\ negative # {} /\ negative = NegativeCases(base, r)

-----------------------------------------------------------------------------
Install(cand) == severity' = cand.severity /\ detected' = cand.detected

\* A mutation that leaves the rule active.
Change(r, sev, fires) ==
  LET base == Base(severity, detected)
      cand == Base([severity EXCEPT ![r] = sev], [detected EXCEPT ![r] = fires])
  IN  /\ severity[r] # None
      /\ Covered(cand, r)
      /\ Metrics(base, cand)
      /\ Install(cand)

Deprecate(r, positive, negative) ==
  LET base == Base(severity, detected)
      cand == Base([severity EXCEPT ![r] = None], detected)
  IN  /\ severity[r] # None
      /\ Deprecable(base, cand, r, positive, negative)
      /\ Metrics(base, cand)
      /\ Install(cand)

Next ==
  \E r \in Rules :
    \/ \E sev \in Severities, fires \in [Cases -> 0..Most] : Change(r, sev, fires)
    \/ \E positive, negative \in SUBSET Cases : Deprecate(r, positive, negative)

Spec == Init /\ [][Next]_vars

-----------------------------------------------------------------------------
(* Properties.                                                             *)

Errors(b) == False(b, Severities) + Missed(b, Severities)

\* Candidates cannot take turns: each accepted one has fewer errors than its base, or as
\* many and more right verdicts, or as many of both and fewer confusions.
ImprovementsDoNotCycle ==
  LET base == Base(severity, detected)
      cand == Base(severity', detected')
  IN  \/ Errors(cand) < Errors(base)
      \/ /\ Errors(cand) = Errors(base)
         /\ \/ RightOutcomes(cand) > RightOutcomes(base)
            \/ /\ RightOutcomes(cand) = RightOutcomes(base)
               /\ Confusion(cand) < Confusion(base)

\* In what passes the gate no expected blocker is missed where the same rule reports
\* another severity.
BlockersAreNotSoftened ==
  LET cand == Base(severity', detected')
  IN  \A r \in Rules, c \in Cases :
        FN(cand, r, c, "blocker") > 0 /\ Reported(cand, r, c) > 0
          => cand.severity[r] = "blocker"

\* Deprecating a rule brings to light no finding it hid, of any case: its false positives
\* go and nothing else changes.
DeprecationChangesNothingElse ==
  \A r \in Rules : severity[r] # None /\ severity'[r] = None =>
    \A q \in Rules \ {r}, c \in Cases :
      Reported(Base(severity', detected'), q, c) = Reported(Base(severity, detected), q, c)
=============================================================================

------------------------------ MODULE ChangeProofs ------------------------------
(***************************************************************************)
(* Theorems about the ways a change is judged: by the review of a pull     *)
(* request (ReviewRun), whatever the detectors find and the model may      *)
(* answer; by the scenario that plays the architects (ArchScenario), for   *)
(* every graph of nodes and flows; by the learned rules (RuleMutations),   *)
(* for every sequence of mutations of a base of rules; and by the gate     *)
(* before a mutation becomes a branch (Evolver), for any number of cycles, *)
(* publishers and commits.                                                 *)
(*                                                                         *)
(* The review: versions only grow, so contents that were read again        *)
(* unchanged after the answer were there when it came; and merging keeps   *)
(* at every place a finding as serious as any.                             *)
(***************************************************************************)
EXTENDS ReviewRun, ArchScenario, RuleMutations, Evolver, Induction

-----------------------------------------------------------------------------
(* Findings and verdicts.                                                  *)

Findings ==
  [rule: STRING, severity: Severities, place: Nat, artifact: Files,
   origin: {"deterministic", "llm"}, confidence: {"low", "middle", "high"}]

Serious(f) == f.severity \in {"blocker", "major"}

LEMMA WeightIs ==
  ASSUME NEW f \in Findings
  PROVE  /\ Weight(f)[1] = Rank(f.severity) /\ Rank(f.severity) \in 1..3
         /\ Weight(f)[2] \in 0..1 /\ Weight(f)[3] \in 0..2
<1>1. Rank(f.severity) \in 1..3
  BY DEF Findings, Severities, Rank
<1>2. (IF f.origin = "deterministic" THEN 1 ELSE 0) \in 0..1
  OBVIOUS
<1>3. (CASE f.confidence = "low" -> 0 [] f.confidence = "middle" -> 1 [] f.confidence = "high" -> 2)
        \in 0..2
  BY DEF Findings
<1>4. QED
  BY <1>1, <1>2, <1>3 DEF Weight

\* The weights as one number.
Score(f) == 6 * Weight(f)[1] + 3 * Weight(f)[2] + Weight(f)[3]

LEMMA ScoreIs ==
  ASSUME NEW f \in Findings
  PROVE  /\ Score(f) \in 0..23
         /\ Score(f) >= 6 * Rank(f.severity) /\ Score(f) < 6 * Rank(f.severity) + 6
<1>1. PICK a \in 1..3, b \in 0..1, c \in 0..2 :
        a = Rank(f.severity) /\ Weight(f)[1] = a /\ Weight(f)[2] = b /\ Weight(f)[3] = c
  BY WeightIs
<1>2. Score(f) = 6 * a + 3 * b + c
  BY <1>1 DEF Score
<1>3. QED
  BY <1>1, <1>2

LEMMA OutweighsScores ==
  ASSUME NEW f \in Findings, NEW g \in Findings, Outweighs(g, f)
  PROVE  Score(g) > Score(f)
<1>1. PICK a \in 1..3, b \in 0..1, c \in 0..2 :
        Weight(f)[1] = a /\ Weight(f)[2] = b /\ Weight(f)[3] = c
  BY WeightIs
<1>2. PICK x \in 1..3, y \in 0..1, z \in 0..2 :
        Weight(g)[1] = x /\ Weight(g)[2] = y /\ Weight(g)[3] = z
  BY WeightIs
<1>3. PICK i \in 1..3 : /\ Weight(g)[i] > Weight(f)[i]
                        /\ \A j \in 1..(i - 1) : Weight(g)[j] = Weight(f)[j]
  BY DEF Outweighs
<1>4. Score(f) = 6 * a + 3 * b + c /\ Score(g) = 6 * x + 3 * y + z
  BY <1>1, <1>2 DEF Score
<1>5. CASE i = 1
  BY <1>1, <1>2, <1>3, <1>4, <1>5
<1>6. CASE i = 2
  <2>1. x = a
    BY <1>1, <1>2, <1>3, <1>6
  <2>2. QED
    BY <1>1, <1>2, <1>3, <1>4, <1>6, <2>1
<1>7. CASE i = 3
  <2>1. x = a /\ y = b
    BY <1>1, <1>2, <1>3, <1>7
  <2>2. QED
    BY <1>1, <1>2, <1>3, <1>4, <1>7, <2>1
<1>8. QED
  BY <1>5, <1>6, <1>7

\* What merging leaves at a place is as serious as what was there.
LEMMA MergeKeeps ==
  ASSUME NEW det \in SUBSET Findings, NEW llm \in SUBSET Findings, NEW d \in det \cup llm
  PROVE  \E m \in Merge(det, llm) : Rank(m.severity) >= Rank(d.severity)
<1> DEFINE all == det \cup llm
           S == {n \in Nat : \E g \in all : SamePlace(g, d) /\ n = 23 - Score(g)}
<1>1. d \in all /\ SamePlace(d, d) /\ 23 - Score(d) \in Nat
  BY ScoreIs DEF SamePlace
<1>2. S \in SUBSET Nat /\ S # {}
  BY <1>1
<1>3. PICK n \in S : \A k \in S : n <= k
  BY <1>2, LeastIn
<1>4. PICK m \in all : SamePlace(m, d) /\ n = 23 - Score(m)
  BY <1>3
<1>5. ASSUME NEW g \in all, SamePlace(m, g) PROVE Score(g) <= Score(m) /\ ~Outweighs(g, m)
  <2>1. SamePlace(g, d)
    BY <1>4, <1>5 DEF SamePlace
  <2>2. Score(g) \in 0..23 /\ Score(m) \in 0..23 /\ 23 - Score(g) \in Nat
    BY ScoreIs
  <2>3. n <= 23 - Score(g)
    BY <1>3, <2>1, <2>2
  <2>4. Score(g) <= Score(m)
    BY <1>4, <2>2, <2>3
  <2>5. QED
    BY <2>2, <2>4, OutweighsScores
<1>6. m \in Merge(det, llm)
  BY <1>5 DEF Merge
<1>7. Score(d) <= Score(m)
  BY <1>1, <1>4, <1>5 DEF SamePlace
<1>8. Rank(m.severity) >= Rank(d.severity)
  <2>1. PICK r \in 1..3, s \in 1..3 : r = Rank(m.severity) /\ s = Rank(d.severity)
    BY WeightIs
  <2>2. Score(m) < 6 * r + 6 /\ Score(d) >= 6 * s /\ Score(m) \in 0..23 /\ Score(d) \in 0..23
    BY <2>1, ScoreIs
  <2>3. QED
    BY <1>7, <2>1, <2>2
<1>9. QED
  BY <1>6, <1>8

LEMMA SeriousRank ==
  ASSUME NEW f \in Findings
  PROVE  /\ Serious(f) <=> Rank(f.severity) >= 2
         /\ Rank(f.severity) \in 1..3
BY DEF Findings, Severities, Serious, Rank

LEMMA VerdictIs ==
  ASSUME NEW fs \in SUBSET Findings
  PROVE  /\ (\E f \in fs : Serious(f)) => VerdictFrom(fs) = "request_changes_escalate"
         /\ fs # {} /\ ~(\E f \in fs : Serious(f)) => VerdictFrom(fs) = "approve_with_warnings"
         /\ fs = {} => VerdictFrom(fs) = "approve"
<1>1. CASE \E f \in fs : Serious(f)
  <2>1. {f.severity : f \in fs} \cap {"blocker", "major"} # {}
    BY <1>1 DEF Serious
  <2>2. "minor" \notin {"blocker", "major"}
    OBVIOUS
  <2>3. {f.severity : f \in fs} # {"minor"}
    BY <2>1, <2>2
  <2>4. QED
    BY <1>1, <2>1, <2>3 DEF VerdictFrom
<1>2. CASE ~(\E f \in fs : Serious(f))
  <2>1. {f.severity : f \in fs} \cap {"blocker", "major"} = {}
    BY <1>2 DEF Serious
  <2>2. \A f \in fs : f.severity = "minor"
    BY <1>2 DEF Serious, Findings, Severities
  <2>3. fs # {} => {f.severity : f \in fs} = {"minor"}
    BY <2>2
  <2>4. fs = {} => {f.severity : f \in fs} # {"minor"}
    OBVIOUS
  <2>5. QED
    BY <1>2, <2>1, <2>3, <2>4 DEF VerdictFrom
<1>3. QED
  BY <1>1, <1>2

\* A set of findings is judged at least as harshly as one it has a match in seriousness for.
LEMMA HarsherThan ==
  ASSUME NEW fs \in SUBSET Findings, NEW gs \in SUBSET Findings,
         \A f \in fs : \E g \in gs : Rank(g.severity) >= Rank(f.severity)
  PROVE  Harshness(VerdictFrom(gs)) >= Harshness(VerdictFrom(fs))
<1>1. /\ Harshness("approve") = 0 /\ Harshness("approve_with_warnings") = 1
      /\ Harshness("request_changes_escalate") = 2
  BY DEF Harshness
<1>2. CASE \E f \in fs : Serious(f)
  <2>1. \E g \in gs : Serious(g)
    BY <1>2, SeriousRank
  <2>2. VerdictFrom(fs) = "request_changes_escalate" /\ VerdictFrom(gs) = "request_changes_escalate"
    BY <1>2, <2>1, VerdictIs
  <2>3. QED
    BY <1>1, <2>2
<1>3. CASE fs # {} /\ ~(\E f \in fs : Serious(f))
  <2>1. gs # {}
    BY <1>3
  <2>2. /\ VerdictFrom(fs) = "approve_with_warnings"
        /\ VerdictFrom(gs) \in {"approve_with_warnings", "request_changes_escalate"}
    BY <1>3, <2>1, VerdictIs
  <2>3. QED
    BY <1>1, <2>2
<1>4. CASE fs = {}
  <2>1. VerdictFrom(fs) = "approve"
    BY <1>4, VerdictIs
  <2>2. VerdictFrom(gs) \in {"approve", "approve_with_warnings", "request_changes_escalate"}
    BY VerdictIs
  <2>3. QED
    BY <1>1, <2>1, <2>2
<1>5. QED
  BY <1>2, <1>3, <1>4

-----------------------------------------------------------------------------
(* What the engine and the model find.                                     *)

Snapshots == [Files -> 0..MaxEdits]

LEMMA FoundAre ==
  ASSUME RunAssumption, NEW s \in Snapshots
  PROVE  Deterministic(s) \in SUBSET Findings
<1>1. ASSUME NEW f \in Files, NEW d \in Detected[f][s[f]]
      PROVE  [rule |-> d.rule, severity |-> d.severity, place |-> d.place, artifact |-> f,
              origin |-> "deterministic", confidence |-> "high"] \in Findings
  <2>1. s[f] \in 0..MaxEdits
    BY DEF Snapshots
  <2>2. d \in [rule: STRING, severity: Severities, place: Nat]
    BY <1>1, <2>1 DEF RunAssumption
  <2>3. QED
    BY <2>2 DEF Findings
<1>2. QED
  BY <1>1 DEF Deterministic, Kept

LEMMA AnswersAre ==
  ASSUME RunAssumption, NEW all \in Answers, NEW s, NEW a, a = Kept(all, s)
  PROVE  a \in SUBSET Findings /\ Accepted(a) \in SUBSET Findings
<1>1. a \in SUBSET Findings
  BY DEF RunAssumption, Findings, Kept
<1>2. ASSUME NEW f \in a
      PROVE  [f EXCEPT !.severity = IF f.severity = "blocker" /\ f.confidence = "middle"
                                    THEN "major" ELSE @] \in Findings
  <2>1. f \in Findings
    BY <1>1
  <2>2. QED
    BY <2>1 DEF Findings, Severities
<1>3. QED
  BY <1>1, <1>2 DEF Accepted, Observations

\* A serious answer the model was sure enough of is accepted as it is.
LEMMA SeriousAccepted ==
  ASSUME RunAssumption, NEW all \in Answers, NEW s, NEW a, a = Kept(all, s), Signals(a) = {},
         NEW f \in a, Serious(f)
  PROVE  \E g \in Accepted(a) : g \in Findings /\ Serious(g)
<1>1. f \in Findings
  BY AnswersAre
<1>2. /\ f.confidence # "low"
      /\ ~(f.severity = "blocker" /\ f.confidence = "middle")
  BY DEF Signals, Serious
<1>3. PICK g : g = [f EXCEPT !.severity = IF f.severity = "blocker" /\ f.confidence = "middle"
                                          THEN "major" ELSE @]
  OBVIOUS
<1>4. g.severity = f.severity
  BY <1>1, <1>2, <1>3 DEF Findings
<1>5. f \in a \ Observations(a)
  BY <1>2 DEF Observations
<1>6. g \in Accepted(a)
  BY <1>3, <1>5 DEF Accepted
<1>7. QED
  BY <1>4, <1>6, AnswersAre DEF Serious

\* The verdict over both.
LEMMA MergedIs ==
  ASSUME RunAssumption, NEW s \in Snapshots, NEW all \in Answers, NEW a, a = Kept(all, s)
  PROVE  /\ Harshness(VerdictFrom(Merge(Deterministic(s), Accepted(a))))
              >= Harshness(VerdictFrom(Deterministic(s)))
         /\ Signals(a) = {} /\ (\E f \in a : Serious(f)) =>
              VerdictFrom(Merge(Deterministic(s), Accepted(a))) = "request_changes_escalate"
<1>1. PICK det : det = Deterministic(s)
  OBVIOUS
<1>2. PICK llm : llm = Accepted(a)
  OBVIOUS
<1>3. det \in SUBSET Findings /\ llm \in SUBSET Findings
  BY <1>1, <1>2, FoundAre, AnswersAre
<1>4. Merge(det, llm) \in SUBSET Findings
  BY <1>3 DEF Merge
<1>5. \A d \in det \cup llm : \E m \in Merge(det, llm) : Rank(m.severity) >= Rank(d.severity)
  BY <1>3, MergeKeeps
<1>6. Harshness(VerdictFrom(Merge(det, llm))) >= Harshness(VerdictFrom(det))
  BY <1>3, <1>4, <1>5, HarsherThan
<1>7. ASSUME Signals(a) = {}, \E f \in a : Serious(f)
      PROVE  VerdictFrom(Merge(det, llm)) = "request_changes_escalate"
  <2>1. PICK g \in llm : g \in Findings /\ Serious(g)
    BY <1>2, <1>7, SeriousAccepted
  <2>2. PICK m \in Merge(det, llm) : Rank(m.severity) >= Rank(g.severity)
    BY <1>5, <2>1
  <2>3. m \in Findings /\ Serious(m)
    <3>1. m \in Findings
      BY <1>4
    <3>2. Rank(m.severity) \in 1..3 /\ Rank(g.severity) \in 1..3 /\ Rank(g.severity) >= 2
      BY <2>1, <3>1, SeriousRank
    <3>3. Rank(m.severity) >= 2
      BY <2>2, <3>2
    <3>4. QED
      BY <3>1, <3>3, SeriousRank
  <2>4. QED
    BY <1>4, <2>3, VerdictIs
<1>8. QED
  BY <1>1, <1>2, <1>6, <1>7

LEMMA HarshnessIs ==
  ASSUME NEW fs \in SUBSET Findings
  PROVE  Harshness(VerdictFrom(fs)) >= Harshness(VerdictFrom(fs))
BY HarsherThan, SeriousRank

-----------------------------------------------------------------------------
(* The inductive invariant.                                                *)

Below(s, t) == \A f \in Files : s[f] <= t[f]

Types ==
  /\ tree \in Snapshots /\ since \in SUBSET Snapshots
  /\ reading \in [Files -> 0..MaxEdits \cup {None}]
  /\ phase \in {"engine", "request", "model", "validate", "log", "done"}

\* The version that was read is not newer than the one there is.
ReadingOK == \A f \in Files : reading[f] # None => reading[f] <= tree[f]

\* A tree there was after what was reviewed and before what is being read.
Between(t) ==
  /\ Below(reviewed, t) /\ Below(t, tree)
  /\ \A f \in Files : reading[f] # None => t[f] <= reading[f]

PhaseOK ==
  /\ phase \in {"engine", "request", "model"} => raw = None /\ since = {}
  /\ phase \in {"request", "model", "validate"} => reviewed \in Snapshots /\ Below(reviewed, tree)
  /\ phase \in {"model", "validate"} => request = reviewed
  /\ phase = "model" => reading = NothingRead
  /\ phase = "validate" => raw \in Answers /\ \E t \in since : Between(t)

IInv == Types /\ ReadingOK /\ PhaseOK /\ ReviewIsTrue

-----------------------------------------------------------------------------
(* The steps.                                                              *)

LEMMA Unset == /\ NothingRead \in [Files -> 0..MaxEdits \cup {None}]
               /\ \A f \in Files : NothingRead[f] = None
BY DEF NothingRead

\* A pass that is complete has read every file.
LEMMA PassIs ==
  ASSUME Types, Unread = {}
  PROVE  reading \in Snapshots /\ \A f \in Files : reading[f] # None
<1>1. \A f \in Files : \E i \in DOMAIN Artifacts : Artifacts[i] = f
  BY DEF Files, Range
<1>2. \A f \in Files : reading[f] # None
  BY <1>1 DEF Unread
<1>3. QED
  BY <1>2 DEF Types, Snapshots

LEMMA InitIInv == ASSUME RunAssumption, ReviewInit PROVE IInv
<1>1. Types
  BY Unset DEF ReviewInit, Types, Snapshots, RunAssumption
<1>2. ReadingOK
  BY Unset DEF ReviewInit, ReadingOK
<1>3. PhaseOK
  BY DEF ReviewInit, PhaseOK
<1>4. ~Complete
  BY DEF ReviewInit, Complete
<1>5. QED
  BY <1>1, <1>2, <1>3, <1>4 DEF IInv, ReviewIsTrue, ReviewIsOfOneTree, ModelNeverSoftens,
       SeriousAnswerEscalates, WithModel

LEMMA EditStep ==
  ASSUME RunAssumption, IInv, Edit
  PROVE  IInv'
<1>1. /\ Types /\ ReadingOK /\ PhaseOK
  BY DEF IInv
<1>2. PICK f \in Files : tree[f] < MaxEdits /\ tree' = [tree EXCEPT ![f] = @ + 1]
  BY DEF Edit
<1>3. UNCHANGED run /\ since' = IF since = {} THEN {} ELSE since \cup {tree'}
  BY DEF Edit
<1>4. UNCHANGED <<phase, reading, reviewed, request, raw, findings, verdict, logged>>
  BY <1>3 DEF run
<1>5. tree[f] \in Nat /\ MaxEdits \in Nat /\ tree[f] + 1 \in 0..MaxEdits
  BY <1>1, <1>2 DEF Types, Snapshots, RunAssumption
<1>6. /\ tree' \in Snapshots
      /\ \A g \in Files : tree[g] \in Nat /\ tree'[g] \in Nat /\ tree[g] <= tree'[g]
  BY <1>1, <1>2, <1>5 DEF Types, Snapshots
<1>7. since' \in SUBSET Snapshots /\ since \subseteq since' /\ (since = {} => since' = {})
  BY <1>1, <1>3, <1>6 DEF Types
<1>8. Types'
  BY <1>1, <1>4, <1>6, <1>7 DEF Types
<1>9. ReadingOK'
  <2>1. ASSUME NEW g \in Files, reading[g] # None PROVE reading[g] <= tree'[g]
    <3>1. reading[g] \in 0..MaxEdits /\ reading[g] <= tree[g]
      BY <1>1, <2>1 DEF Types, ReadingOK
    <3>2. QED
      BY <1>5, <1>6, <3>1
  <2>2. QED
    BY <1>4, <2>1 DEF ReadingOK
<1>10. \A s \in Snapshots : Below(s, tree) => Below(s, tree')
  <2>1. ASSUME NEW s \in Snapshots, Below(s, tree), NEW g \in Files PROVE s[g] <= tree'[g]
    <3>1. s[g] \in 0..MaxEdits /\ s[g] <= tree[g]
      BY <2>1 DEF Snapshots, Below
    <3>2. QED
      BY <1>5, <1>6, <3>1
  <2>2. QED
    BY <2>1 DEF Below
<1>11. PhaseOK'
  <2>1. phase' \in {"engine", "request", "model"} => raw' = None /\ since' = {}
    BY <1>1, <1>4, <1>7 DEF PhaseOK
  <2>2. phase' \in {"request", "model", "validate"} => reviewed' \in Snapshots /\ Below(reviewed', tree')
    BY <1>1, <1>4, <1>10 DEF PhaseOK
  <2>3. phase' = "validate" => raw' \in Answers /\ \E t \in since' : Between(t)'
    <3>1. ASSUME phase = "validate" PROVE raw \in Answers /\ \E t \in since' : Between(t)'
      <4>1. PICK t \in since : Between(t)
        BY <1>1, <3>1 DEF PhaseOK
      <4>2. t \in Snapshots
        BY <1>1 DEF Types
      <4>3. Between(t)'
        BY <1>4, <1>10, <4>1, <4>2 DEF Between
      <4>4. QED
        BY <1>1, <1>7, <3>1, <4>3 DEF PhaseOK
    <3>2. QED
      BY <1>4, <3>1
  <2>4. QED
    BY <1>1, <1>4, <2>1, <2>2, <2>3 DEF PhaseOK
<1>12. ReviewIsTrue'
  BY <1>4, <1>7 DEF IInv, ReviewIsTrue, ReviewIsOfOneTree, ModelNeverSoftens,
       SeriousAnswerEscalates, WithModel, Complete
<1>13. QED
  BY <1>8, <1>9, <1>11, <1>12 DEF IInv

LEMMA ReadNextStep ==
  ASSUME RunAssumption, IInv, ReadNext
  PROVE  IInv'
<1>1. /\ Types /\ ReadingOK /\ PhaseOK
  BY DEF IInv
<1>2. UNCHANGED <<tree, since, phase, reviewed, request, raw, findings, verdict, logged>>
  BY DEF ReadNext
<1>3. PICK g : reading' = [reading EXCEPT ![g] = tree[g]]
  BY DEF ReadNext
<1>4. \A f \in Files : reading'[f] \in {reading[f], tree[f]}
  BY <1>1, <1>3 DEF Types
<1>5. Types'
  BY <1>1, <1>2, <1>3 DEF Types, Snapshots
<1>6. \A f \in Files : tree[f] \in Nat /\ tree[f] <= tree[f]
  BY <1>1 DEF Types, Snapshots
<1>7. ReadingOK'
  BY <1>1, <1>2, <1>4, <1>6 DEF ReadingOK
<1>8. \A t : Between(t) => Between(t)'
  BY <1>2, <1>4 DEF Between, Below
<1>9. phase # "model"
  BY DEF ReadNext
<1>10. PhaseOK'
  BY <1>1, <1>2, <1>8, <1>9 DEF PhaseOK
<1>11. ReviewIsTrue'
  BY <1>2 DEF IInv, ReviewIsTrue, ReviewIsOfOneTree, ModelNeverSoftens, SeriousAnswerEscalates,
       WithModel, Complete
<1>12. QED
  BY <1>5, <1>7, <1>10, <1>11 DEF IInv

\* A review that ends without a verdict promises nothing.
LEMMA EndsIncomplete ==
  ASSUME IInv, UNCHANGED tree, since' \in SUBSET Snapshots, phase' \in {"log", "done"},
         reading' = NothingRead, verdict' \in {"incomplete", "input_error"}
  PROVE  IInv'
<1>1. Types' /\ ReadingOK' /\ PhaseOK'
  BY Unset DEF IInv, Types, ReadingOK, PhaseOK
<1>2. ~Complete'
  BY DEF Complete
<1>3. QED
  BY <1>1, <1>2 DEF IInv, ReviewIsTrue, ReviewIsOfOneTree, ModelNeverSoftens,
       SeriousAnswerEscalates, WithModel

LEMMA EngineStep ==
  ASSUME RunAssumption, IInv, Engine
  PROVE  IInv'
<1>1. /\ Types /\ ReadingOK /\ PhaseOK /\ phase = "engine"
  BY DEF IInv, Engine
<1>2. /\ UNCHANGED <<tree, since, request, raw, logged>> /\ reading' = NothingRead
      /\ raw = None /\ since = {}
  BY <1>1 DEF Engine, PhaseOK
<1>3. CASE verdict' = "input_error" /\ phase' = "log"
  BY <1>1, <1>2, <1>3, EndsIncomplete DEF Types
<1>4. CASE /\ Unread = {}
           /\ reviewed' = reading
           /\ findings' = Deterministic(reading)
           /\ verdict' = VerdictFrom(findings')
           /\ phase' \in {"request", "log"}
  <2>1. reading \in Snapshots /\ \A f \in Files : reading[f] # None
    BY <1>1, <1>4, PassIs
  <2>2. reviewed' \in Snapshots /\ Below(reviewed', tree')
    BY <1>1, <1>2, <1>4, <2>1 DEF ReadingOK, Below
  <2>3. Types' /\ ReadingOK'
    BY <1>1, <1>2, <1>4, Unset DEF Types, ReadingOK
  <2>4. PhaseOK'
    BY <1>2, <1>4, <2>2 DEF PhaseOK
  <2>5. ~WithModel'
    BY <1>2 DEF WithModel
  <2>6. Harshness(verdict') >= Harshness(VerdictFrom(Deterministic(reviewed')))
    BY <1>4, <2>1, FoundAre, HarshnessIs
  <2>7. ReviewIsTrue'
    BY <2>5, <2>6 DEF ReviewIsTrue, ReviewIsOfOneTree, ModelNeverSoftens, SeriousAnswerEscalates
  <2>8. QED
    BY <2>3, <2>4, <2>7 DEF IInv
<1>5. QED
  BY <1>3, <1>4 DEF Engine

LEMMA RequestStep ==
  ASSUME RunAssumption, IInv, Request
  PROVE  IInv'
<1>1. /\ Types /\ ReadingOK /\ PhaseOK /\ phase = "request"
      /\ UNCHANGED <<tree, since, reviewed, raw, findings, logged>>
  BY DEF IInv, Request
<1>2. CASE Incomplete
  BY <1>1, <1>2, EndsIncomplete DEF Incomplete, Types
<1>3. CASE /\ Unread = {} /\ reading = reviewed
           /\ request' = reading /\ phase' = "model" /\ reading' = NothingRead
  <2>1. Types' /\ ReadingOK'
    BY <1>1, <1>3, Unset DEF Types, ReadingOK
  <2>2. PhaseOK'
    BY <1>1, <1>3 DEF PhaseOK
  <2>3. ~Complete'
    BY <1>3 DEF Complete
  <2>4. QED
    BY <2>1, <2>2, <2>3 DEF IInv, ReviewIsTrue, ReviewIsOfOneTree, ModelNeverSoftens,
         SeriousAnswerEscalates, WithModel
<1>4. QED
  BY <1>2, <1>3 DEF Request, ReviewedSnapshot

\* The tree at the moment of the answer is the one the review turns out to be of.
LEMMA ModelStep ==
  ASSUME RunAssumption, IInv, Model
  PROVE  IInv'
<1>1. /\ Types /\ ReadingOK /\ PhaseOK /\ phase = "model"
      /\ UNCHANGED <<tree, reviewed, request, findings, logged>>
  BY DEF IInv, Model
<1>2. CASE Incomplete /\ UNCHANGED since
  BY <1>1, <1>2, EndsIncomplete DEF Incomplete, Types
<1>3. CASE /\ raw' \in Answers /\ since' = {tree} /\ phase' = "validate"
           /\ UNCHANGED <<verdict, reading>>
  <2>1. Types' /\ ReadingOK'
    BY <1>1, <1>3 DEF Types, ReadingOK
  <2>2. Below(tree, tree)
    BY <1>1 DEF Below, Types, Snapshots
  <2>3. Between(tree)'
    BY <1>1, <1>3, <2>2, Unset DEF Between, PhaseOK
  <2>4. \E t \in since' : Between(t)'
    BY <1>1, <1>3, <2>3
  <2>5. PhaseOK'
    BY <1>1, <1>3, <2>4 DEF PhaseOK
  <2>6. ~Complete'
    BY <1>3 DEF Complete
  <2>7. QED
    BY <2>1, <2>5, <2>6 DEF IInv, ReviewIsTrue, ReviewIsOfOneTree, ModelNeverSoftens,
         SeriousAnswerEscalates, WithModel
<1>4. QED
  BY <1>2, <1>3 DEF Model

LEMMA ValidateStep ==
  ASSUME RunAssumption, IInv, Validate
  PROVE  IInv'
<1>1. /\ Types /\ ReadingOK /\ PhaseOK /\ phase = "validate"
      /\ UNCHANGED <<tree, since, reviewed, request, raw, logged>>
  BY DEF IInv, Validate
<1>2. CASE Incomplete
  BY <1>1, <1>2, EndsIncomplete DEF Incomplete, Types
<1>3. CASE /\ Unread = {} /\ reading = request
           /\ findings' = Merge(Deterministic(reviewed), Accepted(Kept(raw, reading)))
           /\ verdict' = IF Signals(Kept(raw, reading)) # {} THEN "incomplete"
                         ELSE VerdictFrom(findings')
           /\ phase' = "log" /\ reading' = NothingRead
  <2>1. /\ reviewed \in Snapshots /\ raw \in Answers
        /\ reading = reviewed /\ \A f \in Files : reading[f] # None
    BY <1>1, <1>3, PassIs DEF PhaseOK
  <2>2. reviewed \in since
    <3>1. PICK t \in since : Between(t)
      BY <1>1 DEF PhaseOK
    <3>2. t \in Snapshots
      BY <1>1 DEF Types
    <3>3. ASSUME NEW f \in Files PROVE t[f] = reviewed[f]
      <4>1. t[f] \in Nat /\ reviewed[f] \in Nat
        BY <2>1, <3>2 DEF Snapshots
      <4>2. reviewed[f] <= t[f] /\ t[f] <= reviewed[f]
        BY <2>1, <3>1 DEF Between, Below
      <4>3. QED
        BY <4>1, <4>2
    <3>4. t = reviewed
      BY <2>1, <3>2, <3>3 DEF Snapshots
    <3>5. QED
      BY <3>4
  <2>3. Types' /\ ReadingOK' /\ PhaseOK'
    BY <1>1, <1>3, Unset DEF Types, ReadingOK, PhaseOK
  <2>4. Complete' =>
          /\ Signals(Kept(raw, reviewed)) = {}
          /\ verdict' = VerdictFrom(Merge(Deterministic(reviewed), Accepted(Kept(raw, reviewed))))
    BY <1>3, <2>1 DEF Complete
  <2>5. ReviewIsOfOneTree'
    BY <1>1, <2>2 DEF ReviewIsOfOneTree
  <2>6. ModelNeverSoftens'
    BY <1>1, <2>1, <2>4, MergedIs DEF ModelNeverSoftens
  <2>7. SeriousAnswerEscalates'
    BY <1>1, <2>1, <2>4, MergedIs DEF SeriousAnswerEscalates, WithModel, Serious
  <2>8. QED
    BY <2>3, <2>5, <2>6, <2>7 DEF IInv, ReviewIsTrue
<1>4. QED
  BY <1>2, <1>3 DEF Validate

LEMMA LogStep ==
  ASSUME RunAssumption, IInv, Log
  PROVE  IInv'
<1>1. /\ Types /\ ReadingOK /\ PhaseOK /\ phase = "log"
      /\ UNCHANGED <<tree, since, reviewed, request, raw, findings>>
      /\ phase' = "done" /\ reading' = NothingRead
  BY DEF IInv, Log
<1>2. CASE verdict' = "incomplete"
  BY <1>1, <1>2, EndsIncomplete DEF Types
<1>3. CASE UNCHANGED verdict
  <2>1. Types' /\ ReadingOK' /\ PhaseOK'
    BY <1>1, Unset DEF Types, ReadingOK, PhaseOK
  <2>2. Complete' => Complete
    BY <1>1, <1>3 DEF Complete
  <2>3. ReviewIsTrue'
    BY <1>1, <1>3, <2>2 DEF IInv, ReviewIsTrue, ReviewIsOfOneTree, ModelNeverSoftens,
         SeriousAnswerEscalates, WithModel
  <2>4. QED
    BY <2>1, <2>3 DEF IInv
<1>4. QED
  BY <1>2, <1>3 DEF Log

LEMMA IdleStep ==
  ASSUME IInv, UNCHANGED reviewVars
  PROVE  IInv'
BY DEF reviewVars, run, IInv, Types, ReadingOK, PhaseOK, Between, Below, ReviewIsTrue, ReviewIsOfOneTree,
     ModelNeverSoftens, SeriousAnswerEscalates, WithModel, Complete

-----------------------------------------------------------------------------
(* The theorems.                                                           *)

\* The invariant holds in every state.
THEOREM InvariantHolds == ASSUME RunAssumption PROVE ReviewSpec => []IInv
<1>1. ReviewInit => IInv
  BY InitIInv
<1>2. IInv /\ [ReviewNext]_reviewVars => IInv'
  BY EditStep, ReadNextStep, EngineStep, RequestStep, ModelStep, ValidateStep, LogStep, IdleStep
     DEF ReviewNext
<1>3. QED
  BY <1>1, <1>2, PTL DEF ReviewSpec

\* A review that is complete with the model is of one state the workspace really had after
\* the answer, is no milder than what the engine found, and escalates a serious answer
\* (run_review.execute_review, llm.merge_findings, llm.apply_confidence_policy).
THEOREM CompleteReviewsAreTrue == ASSUME RunAssumption PROVE ReviewSpec => []ReviewIsTrue
<1>1. IInv => ReviewIsTrue
  BY DEF IInv
<1>2. QED
  BY <1>1, InvariantHolds, PTL

-----------------------------------------------------------------------------
(* The scenario.  From validation on there is one declared edge, its       *)
(* target is to be eliminated and its replacement stays; all the flows of  *)
(* the head are new in the review, so that what is found is every          *)
(* eliminated endpoint of the graph.                                       *)

AcceptedGraph == ValidGraph /\ Repairable
Flows == [e \in Edges |-> Flow(e)]
Wires == [Edges -> [from : Nodes, to : Nodes]]
Target == [rule |-> Rule, edge |-> TheDeclared, endpoint |-> "to"]

FoundAt(e, k) == [rule |-> Rule, edge |-> e, endpoint |-> k]

\* The findings of a graph without dangling flows.
Defects(flows) ==
  {FoundAt(e, "from") : e \in {d \in Edges : doc.status[flows[d].from] = Eliminate}}
  \cup {FoundAt(e, "to") : e \in {d \in Edges : doc.status[flows[d].to] = Eliminate}}

Stages == {"given", "valid", "materialized", "handed_over", "reviewed", "patched", "rereviewed",
           "completed", "gate_failed", "failed"}
Patched == {"patched", "rereviewed", "completed", "gate_failed"}
Again == {"rereviewed", "completed", "gate_failed"}

DocOK == doc \in Docs(Nodes, Edges) /\ stage \in Stages
AcceptedOK == stage \notin {"given", "failed"} => AcceptedGraph
CommitsOK ==
  /\ stage \in {"materialized", "reviewed"} \cup Patched => DOMAIN repo.base = {} /\ repo.head = Flows
  /\ stage \in Patched => repo.patched = Reroute(Flows)
FoundOK ==
  /\ stage \in {"reviewed"} \cup Patched => found = Defects(Flows) /\ OnDeclared(found) = {Target}
  /\ stage \in Again => again = Defects(repo.patched)
  /\ stage = "completed" => again = {}
ShownOK == shown = None \/ (shown = Target /\ stage = "completed")

ScenarioInv ==
  DocOK /\ AcceptedOK /\ CommitsOK /\ FoundOK /\ ShownOK /\ HonestNeverRefused

\* What acceptance says of the declared edge.
LEMMA TheDeclaredIs ==
  ASSUME ScenarioAssumption, doc \in Docs(Nodes, Edges), AcceptedGraph
  PROVE  /\ DeclaredEdges = {TheDeclared} /\ TheDeclared \in Edges
         /\ Declared.from \in Nodes /\ Declared.to \in Nodes /\ Declared.replacement \in Nodes
         /\ Declared.replacement # Declared.from
         /\ doc.status[Declared.to] = Eliminate /\ doc.status[Declared.replacement] = Stays
         /\ doc.successor[Declared.to] = Declared.replacement
<1>1. IsFiniteSet(DeclaredEdges)
  BY FS_Subset DEF ScenarioAssumption, DeclaredEdges
<1>2. Cardinality(DeclaredEdges) = 1
  BY DEF AcceptedGraph, Repairable
<1>3. PICK d : DeclaredEdges = {d}
  BY <1>1, <1>2, FS_Singleton
<1>4. TheDeclared = d
  BY <1>3 DEF TheDeclared
<1>5. d \in Edges /\ doc.edges[d].expected
  BY <1>3 DEF DeclaredEdges
<1>6. {doc.edges[d].from, doc.edges[d].to} \subseteq Nodes
  BY <1>5 DEF AcceptedGraph, ValidGraph, Resolved
<1>7. doc.edges[d].replacement \in Nodes \ {doc.edges[d].from}
  BY <1>5 DEF AcceptedGraph, ValidGraph
<1>8. QED
  BY <1>3, <1>4, <1>5, <1>6, <1>7 DEF AcceptedGraph, Repairable, Declared

LEMMA FlowsAre ==
  ASSUME doc \in Docs(Nodes, Edges), AcceptedGraph
  PROVE  /\ Flows \in Wires
         /\ \A e \in Edges : Flows[e] = [from |-> doc.edges[e].from, to |-> doc.edges[e].to]
         /\ \A e \in Edges : Flows[e].from = doc.edges[e].from /\ Flows[e].to = doc.edges[e].to
         /\ Resolved(Flows)
<1>1. \A e \in Edges : {doc.edges[e].from, doc.edges[e].to} \subseteq Nodes /\ doc.edges[e].from # doc.edges[e].to
  BY DEF AcceptedGraph, ValidGraph, Resolved
<1>2. \A e \in Edges : Flows[e] = [from |-> doc.edges[e].from, to |-> doc.edges[e].to]
  BY DEF Flows, Flow
<1>3. Flows \in Wires
  <2>1. \A e \in Edges : Flow(e) \in [from : Nodes, to : Nodes]
    BY <1>1 DEF Flow
  <2>2. QED
    BY <2>1 DEF Flows, Wires
<1>4. ASSUME NEW e \in Edges
      PROVE  Flows[e].from = doc.edges[e].from /\ Flows[e].to = doc.edges[e].to
  <2>1. Flows[e] = [from |-> doc.edges[e].from, to |-> doc.edges[e].to]
    BY <1>2
  <2>2. QED
    BY <2>1
<1>5. Resolved(Flows)
  BY <1>1, <1>4 DEF Resolved
<1>6. QED
  BY <1>2, <1>3, <1>4, <1>5

\* The repair moves the target of the declared edge to its replacement, and no other endpoint.
LEMMA ReroutedIs ==
  ASSUME ScenarioAssumption, doc \in Docs(Nodes, Edges), AcceptedGraph
  PROVE  /\ Reroute(Flows) \in Wires
         /\ Reroute(Flows)[TheDeclared] = [from |-> Declared.from, to |-> Declared.replacement]
         /\ \A e \in Edges \ {TheDeclared} : Reroute(Flows)[e] = Flows[e]
         /\ Resolved(Reroute(Flows))
<1>1. Flows \in Wires /\ Resolved(Flows)
  BY FlowsAre
<1>2. TheDeclared \in Edges /\ Flows[TheDeclared] = [from |-> Declared.from, to |-> Declared.to]
  BY FlowsAre, TheDeclaredIs DEF Declared
<1>3. /\ Declared.from \in Nodes /\ Declared.replacement \in Nodes
      /\ Declared.replacement # Declared.from
      /\ doc.successor[Declared.to] = Declared.replacement
  BY TheDeclaredIs
<1>4. doc.successor[Flows[TheDeclared].to] = Declared.replacement
  BY <1>2, <1>3
<1>5. Reroute(Flows) = [Flows EXCEPT ![TheDeclared].to = Declared.replacement]
  BY <1>4 DEF Reroute
<1>6. [Flows[TheDeclared] EXCEPT !.to = Declared.replacement] = [from |-> Declared.from, to |-> Declared.replacement]
  BY <1>2
<1>7. Reroute(Flows) = [Flows EXCEPT ![TheDeclared] = [from |-> Declared.from, to |-> Declared.replacement]]
  BY <1>5, <1>6
<1>8. [from |-> Declared.from, to |-> Declared.replacement] \in [from : Nodes, to : Nodes]
  BY <1>3
<1>9. /\ Reroute(Flows) \in Wires
      /\ Reroute(Flows)[TheDeclared] = [from |-> Declared.from, to |-> Declared.replacement]
      /\ \A e \in Edges \ {TheDeclared} : Reroute(Flows)[e] = Flows[e]
  <2> DEFINE w == [from |-> Declared.from, to |-> Declared.replacement]
  <2>1. Reroute(Flows) = [Flows EXCEPT ![TheDeclared] = w] /\ w \in [from : Nodes, to : Nodes]
    BY <1>7, <1>8
  <2> HIDE DEF w
  <2>2. /\ Reroute(Flows) \in Wires /\ Reroute(Flows)[TheDeclared] = w
        /\ \A e \in Edges \ {TheDeclared} : Reroute(Flows)[e] = Flows[e]
    BY <1>1, <1>2, <2>1 DEF Wires
  <2>3. QED
    BY <2>2 DEF w
<1>10. Resolved(Reroute(Flows))
  <2> DEFINE p == Reroute(Flows)
  <2>1. p[TheDeclared].from = Declared.from /\ p[TheDeclared].to = Declared.replacement
    BY <1>9
  <2>2. ASSUME NEW e \in Edges PROVE {p[e].from, p[e].to} \subseteq Nodes /\ p[e].from # p[e].to
    <3>1. CASE e = TheDeclared
      BY <1>3, <2>1, <3>1
    <3>2. CASE e # TheDeclared
      BY <1>1, <1>9, <3>2 DEF Resolved
    <3>3. QED
      BY <3>1, <3>2
  <2>3. QED
    BY <2>2 DEF Resolved
<1>11. QED
  BY <1>9, <1>10

\* Against a base without flows, a review finds the eliminated endpoints.
LEMMA FindingsAre ==
  ASSUME doc \in Docs(Nodes, Edges), NEW base, DOMAIN base = {}, NEW tip \in Wires
  PROVE  ReviewFindings(base, tip) = Defects(tip)
<1>1. Changed(base, tip) = Edges
  <2>1. DOMAIN tip = Edges
    BY DEF Wires
  <2>2. \A e : e \notin DOMAIN base
    OBVIOUS
  <2>3. QED
    BY <2>1, <2>2, Zenon DEF Changed
<1>2. ASSUME NEW e, NEW k, NEW n \in Nodes
      PROVE  FindingsAt(e, k, n) = IF doc.status[n] = Eliminate THEN {FoundAt(e, k)} ELSE {}
  BY DEF FindingsAt, DefectAt, FoundAt
<1>3. \A e \in Edges : tip[e].from \in Nodes /\ tip[e].to \in Nodes
  BY DEF Wires
<1>4. ASSUME NEW x PROVE x \in ReviewFindings(base, tip) <=> x \in Defects(tip)
  <2>1. x \in ReviewFindings(base, tip) <=>
          \E e \in Edges : \/ x \in FindingsAt(e, "from", tip[e].from)
                           \/ x \in FindingsAt(e, "to", tip[e].to)
    BY <1>1 DEF ReviewFindings
  <2>2. \A e \in Edges :
          /\ x \in FindingsAt(e, "from", tip[e].from) <=>
               doc.status[tip[e].from] = Eliminate /\ x = FoundAt(e, "from")
          /\ x \in FindingsAt(e, "to", tip[e].to) <=>
               doc.status[tip[e].to] = Eliminate /\ x = FoundAt(e, "to")
    BY <1>2, <1>3
  <2>3. x \in Defects(tip) <=>
          \E e \in Edges : \/ doc.status[tip[e].from] = Eliminate /\ x = FoundAt(e, "from")
                           \/ doc.status[tip[e].to] = Eliminate /\ x = FoundAt(e, "to")
    BY DEF Defects
  <2>4. QED
    BY <2>1, <2>2, <2>3
<1>5. QED
  BY <1>4

LEMMA DefectsAre ==
  ASSUME NEW flows, NEW x
  PROVE  x \in Defects(flows) <=>
           \E e \in Edges : \/ doc.status[flows[e].from] = Eliminate /\ x = FoundAt(e, "from")
                            \/ doc.status[flows[e].to] = Eliminate /\ x = FoundAt(e, "to")
BY DEF Defects

LEMMA TargetFound ==
  ASSUME ScenarioAssumption, doc \in Docs(Nodes, Edges), AcceptedGraph
  PROVE  /\ Target \in Defects(Flows) /\ Target \in OnDeclared(Defects(Flows))
         /\ Target \notin Defects(Reroute(Flows))
<1>1. TheDeclared \in Edges /\ Flows[TheDeclared].to = Declared.to /\ doc.status[Declared.to] = Eliminate
  <2>1. TheDeclared \in Edges /\ doc.status[Declared.to] = Eliminate
    BY TheDeclaredIs
  <2>2. Flows[TheDeclared].to = doc.edges[TheDeclared].to
    BY <2>1, FlowsAre
  <2>3. QED
    BY <2>1, <2>2 DEF Declared
<1>2. Target = FoundAt(TheDeclared, "to")
  BY DEF Target, FoundAt
<1>3. Target \in Defects(Flows)
  BY <1>1, <1>2, DefectsAre
<1>4. Target \in OnDeclared(Defects(Flows))
  BY <1>3 DEF OnDeclared, Target
<1>5. doc.status[Reroute(Flows)[TheDeclared].to] # Eliminate
  BY ReroutedIs, TheDeclaredIs DEF Stays, Eliminate
<1>6. Target \notin Defects(Reroute(Flows))
  <2>1. ASSUME NEW e \in Edges PROVE (Target = FoundAt(e, "to") => e = TheDeclared) /\ Target # FoundAt(e, "from")
    BY DEF Target, FoundAt
  <2>2. QED
    BY <1>5, <2>1, DefectsAre
<1>7. QED
  BY <1>3, <1>4, <1>6

\* Whatever else was found is still there after the repair.
LEMMA RestIsLeft ==
  ASSUME ScenarioAssumption, doc \in Docs(Nodes, Edges), AcceptedGraph
  PROVE  Defects(Flows) \subseteq Defects(Reroute(Flows)) \cup {Target}
<1>1. ASSUME NEW x \in Defects(Flows), x # Target PROVE x \in Defects(Reroute(Flows))
  <2>1. PICK e \in Edges : \/ doc.status[Flows[e].from] = Eliminate /\ x = FoundAt(e, "from")
                           \/ doc.status[Flows[e].to] = Eliminate /\ x = FoundAt(e, "to")
    BY <1>1, DefectsAre
  <2>2. CASE e # TheDeclared
    <3>1. Reroute(Flows)[e] = Flows[e]
      BY <2>2, ReroutedIs
    <3>2. QED
      BY <2>1, <3>1, DefectsAre
  <2>3. CASE e = TheDeclared
    <3>1. x = FoundAt(e, "from") /\ doc.status[Flows[e].from] = Eliminate
      BY <1>1, <2>1, <2>3 DEF Target, FoundAt
    <3>2. Flows[e].from = Declared.from
      BY <2>3, FlowsAre DEF Declared
    <3>3. Reroute(Flows)[e].from = Declared.from
      BY <2>3, ReroutedIs
    <3>4. QED
      BY <3>1, <3>2, <3>3, DefectsAre
  <2>4. QED
    BY <2>2, <2>3
<1>2. QED
  BY <1>1

\* An honest scenario has the one finding, and none after the repair.
LEMMA HonestIs ==
  ASSUME ScenarioAssumption, doc \in Docs(Nodes, Edges), Honest
  PROVE  /\ AcceptedGraph /\ doc.counted
         /\ Defects(Flows) = {Target} /\ Defects(Reroute(Flows)) = {}
<1>1. AcceptedGraph /\ doc.counted /\ doc.status[Declared.from] = Stays
  BY DEF Honest, AcceptedGraph
<1>2. Defective(Flows) = {TheDeclared}
  BY DEF Honest, Flows
<1>3. \A e \in Edges \ {TheDeclared} :
        doc.status[Flows[e].from] # Eliminate /\ doc.status[Flows[e].to] # Eliminate
  BY <1>2 DEF Defective
<1>4. TheDeclared \in Edges /\ Flows[TheDeclared].from = Declared.from
  BY <1>1, TheDeclaredIs, FlowsAre DEF Declared
<1>5. Stays # Eliminate
  BY DEF Stays, Eliminate
<1>6. ASSUME NEW x \in Defects(Flows) PROVE x = Target
  <2>1. PICK e \in Edges : \/ doc.status[Flows[e].from] = Eliminate /\ x = FoundAt(e, "from")
                           \/ doc.status[Flows[e].to] = Eliminate /\ x = FoundAt(e, "to")
    BY <1>6, DefectsAre
  <2>2. e = TheDeclared
    BY <1>3, <2>1
  <2>3. QED
    BY <1>1, <1>4, <1>5, <2>1, <2>2 DEF Target, FoundAt
<1>7. ASSUME NEW x \in Defects(Reroute(Flows)) PROVE FALSE
  <2> DEFINE p == Reroute(Flows)
  <2>1. PICK e \in Edges : \/ doc.status[p[e].from] = Eliminate /\ x = FoundAt(e, "from")
                           \/ doc.status[p[e].to] = Eliminate /\ x = FoundAt(e, "to")
    <3>1. x \in Defects(p)
      BY <1>7
    <3> HIDE DEF p
    <3>2. QED
      BY <3>1, DefectsAre
  <2>2. CASE e # TheDeclared
    BY <1>1, <1>3, <2>1, <2>2, ReroutedIs
  <2>3. CASE e = TheDeclared
    <3>1. p[e].from = Declared.from /\ p[e].to = Declared.replacement
      BY <1>1, <2>3, ReroutedIs
    <3>2. doc.status[Declared.replacement] = Stays
      BY <1>1, TheDeclaredIs
    <3>3. QED
      BY <1>1, <1>5, <2>1, <3>1, <3>2
  <2>4. QED
    BY <2>2, <2>3
<1>8. QED
  BY <1>1, <1>6, <1>7, TargetFound

\* A step leaves the document alone, and what is said of it.
LEMMA DocStays ==
  ASSUME doc' = doc
  PROVE  /\ AcceptedGraph' = AcceptedGraph /\ Honest' = Honest
         /\ Flows' = Flows /\ Reroute(Flows)' = Reroute(Flows) /\ Target' = Target
         /\ \A f : Defects(f)' = Defects(f) /\ OnDeclared(f)' = OnDeclared(f)
<1>1. DeclaredEdges' = DeclaredEdges
  BY DEF DeclaredEdges
<1>2. TheDeclared' = TheDeclared
  BY <1>1 DEF TheDeclared
<1>3. Declared' = Declared
  BY <1>2 DEF Declared
<1>4. ValidGraph' = ValidGraph
  BY DEF ValidGraph, Resolved
<1>5. Repairable' = Repairable
  BY <1>1, <1>3 DEF Repairable
<1>6. AcceptedGraph' = AcceptedGraph
  BY <1>4, <1>5 DEF AcceptedGraph
<1>7. Flows' = Flows
  BY DEF Flows, Flow
<1>8. Reroute(Flows)' = Reroute(Flows)
  BY <1>2, <1>7 DEF Reroute
<1>9. Target' = Target
  BY <1>2 DEF Target
<1>10. ASSUME NEW f PROVE Defects(f)' = Defects(f)
  BY DEF Defects, FoundAt
<1>11. ASSUME NEW f PROVE OnDeclared(f)' = OnDeclared(f)
  BY <1>2 DEF OnDeclared
<1>12. Honest' = Honest
  <2>1. Defective([e \in Edges |-> Flow(e)])' = Defective([e \in Edges |-> Flow(e)])
    BY DEF Defective, Flow
  <2>2. QED
    BY <1>2, <1>3, <1>4, <1>5, <2>1 DEF Honest
<1>13. QED
  BY <1>6, <1>7, <1>8, <1>9, <1>10, <1>11, <1>12

\* The invariant after a step, in terms of the document there was.
LEMMA InvFrom ==
  ASSUME doc' = doc, doc \in Docs(Nodes, Edges), stage' \in Stages,
         stage' \notin {"given", "failed"} => AcceptedGraph,
         stage' \in {"materialized", "reviewed"} \cup Patched =>
           DOMAIN repo'.base = {} /\ repo'.head = Flows,
         stage' \in Patched => repo'.patched = Reroute(Flows),
         stage' \in {"reviewed"} \cup Patched =>
           found' = Defects(Flows) /\ OnDeclared(found') = {Target},
         stage' \in Again => again' = Defects(repo'.patched),
         stage' = "completed" => again' = {},
         shown' = None \/ (shown' = Target /\ stage' = "completed"),
         Honest => stage' \notin {"failed", "gate_failed"}
  PROVE  ScenarioInv'
<1>1. /\ AcceptedGraph' = AcceptedGraph /\ Honest' = Honest /\ Flows' = Flows
      /\ Reroute(Flows)' = Reroute(Flows) /\ Target' = Target /\ Defects(Flows)' = Defects(Flows)
  <2>1. Defects(Flows)' = Defects(Flows)
    <3>1. Flows' = Flows
      BY DocStays
    <3>2. QED
      BY <3>1 DEF Defects, FoundAt
  <2>2. QED
    BY <2>1, DocStays
<1>2. OnDeclared(found)' = OnDeclared(found')
  <2>1. TheDeclared' = TheDeclared
    BY DEF TheDeclared, DeclaredEdges
  <2>2. QED
    BY <2>1 DEF OnDeclared
<1>3. Defects(repo.patched)' = Defects(repo'.patched)
  BY DEF Defects, FoundAt
<1>4. DocOK'
  <2>1. Docs(Nodes, Edges)' = Docs(Nodes, Edges)
    BY DEF Docs
  <2>2. QED
    BY <2>1 DEF DocOK, Stages
<1>5. AcceptedOK'
  BY <1>1 DEF AcceptedOK
<1>6. CommitsOK'
  BY <1>1 DEF CommitsOK, Patched
<1>7. FoundOK'
  BY <1>1, <1>2, <1>3 DEF FoundOK, Patched, Again
<1>8. ShownOK'
  BY <1>1 DEF ShownOK
<1>9. HonestNeverRefused'
  BY <1>1 DEF HonestNeverRefused
<1>10. QED
  BY <1>4, <1>5, <1>6, <1>7, <1>8, <1>9 DEF ScenarioInv

LEMMA ScenarioStarts ==
  ASSUME ScenarioInit
  PROVE  ScenarioInv
BY DEF ScenarioInit, ScenarioInv, DocOK, AcceptedOK, CommitsOK, FoundOK, ShownOK, HonestNeverRefused,
       Stages, Patched, Again

\* Validation refuses what is not accepted.
LEMMA ValidateScenarioStep ==
  ASSUME ScenarioInv, ValidateScenario
  PROVE  ScenarioInv'
<1>1. doc' = doc /\ doc \in Docs(Nodes, Edges) /\ repo' = repo /\ found' = found /\ again' = again /\ shown' = shown
  BY DEF ValidateScenario, Fail, ScenarioInv, DocOK
<1>2. \/ stage' = "valid" /\ AcceptedGraph
      \/ stage' = "failed" /\ ~AcceptedGraph
  BY DEF ValidateScenario, Fail, AcceptedGraph
<1>3. Honest => AcceptedGraph
  BY DEF Honest, AcceptedGraph
<1>4. shown' = None
  BY <1>1 DEF ValidateScenario, ScenarioInv, ShownOK
<1>5. QED
  BY <1>1, <1>2, <1>3, <1>4, InvFrom DEF Stages, Patched, Again

LEMMA MaterializeStep ==
  ASSUME ScenarioInv, MaterializeLocal \/ MaterializeLive
  PROVE  ScenarioInv'
<1>1. doc' = doc /\ doc \in Docs(Nodes, Edges) /\ found' = found /\ again' = again /\ shown' = None
  BY DEF MaterializeLocal, MaterializeLive, Materialize, Fail, ScenarioInv, DocOK, ShownOK
<1>2. AcceptedGraph
  BY DEF MaterializeLocal, MaterializeLive, Materialize, ScenarioInv, AcceptedOK
<1>3. \/ stage' = "materialized" /\ repo' = LocalCommits
      \/ stage' = "handed_over"
      \/ stage' = "failed" /\ ~doc.counted
  BY DEF MaterializeLocal, MaterializeLive, Materialize, Fail
<1>4. DOMAIN LocalCommits.base = {} /\ LocalCommits.head = Flows
  BY DEF LocalCommits, Commits, Flows
<1>5. Honest => doc.counted
  BY DEF Honest
<1>6. QED
  BY <1>1, <1>2, <1>3, <1>4, <1>5, InvFrom DEF Stages, Patched, Again

\* What is found is every eliminated endpoint; of the declared edge it is the target.
LEMMA ReviewStep ==
  ASSUME ScenarioAssumption, ScenarioInv, Review
  PROVE  ScenarioInv'
<1>1. doc' = doc /\ doc \in Docs(Nodes, Edges) /\ repo' = repo /\ again' = again /\ shown' = None
  BY DEF Review, ScenarioInv, DocOK, ShownOK
<1>2. AcceptedGraph /\ DOMAIN repo.base = {} /\ repo.head = Flows
  BY DEF Review, ScenarioInv, AcceptedOK, CommitsOK
<1>3. found' = Defects(Flows)
  BY <1>1, <1>2, FindingsAre, FlowsAre DEF Review
<1>5. OnDeclared(found') = OnDeclared(Defects(Flows))
  BY <1>3
<1>6. \/ /\ stage' = "reviewed"
         /\ Cardinality(OnDeclared(Defects(Flows))) = 1
         /\ \A f \in OnDeclared(Defects(Flows)) : f.endpoint = "to"
      \/ /\ stage' = "failed"
         /\ ~(/\ Cardinality(OnDeclared(Defects(Flows))) = 1
              /\ \A f \in OnDeclared(Defects(Flows)) : f.endpoint = "to")
  BY <1>5 DEF Review
<1>7. (\A f \in OnDeclared(Defects(Flows)) : f.endpoint = "to") => OnDeclared(Defects(Flows)) = {Target}
  <2>1. ASSUME NEW f \in OnDeclared(Defects(Flows)), f.endpoint = "to" PROVE f = Target
    <3>1. f \in Defects(Flows) /\ f.edge = TheDeclared
      BY <2>1 DEF OnDeclared
    <3>2. PICK e \in Edges : f = FoundAt(e, "from") \/ f = FoundAt(e, "to")
      BY <3>1, DefectsAre
    <3>3. QED
      BY <2>1, <3>1, <3>2 DEF FoundAt, Target
  <2>2. QED
    BY <1>1, <1>2, <2>1, TargetFound
<1>8. Honest => stage' # "failed"
  <2>1. SUFFICES ASSUME Honest PROVE stage' # "failed"
    OBVIOUS
  <2>2. Defects(Flows) = {Target}
    BY <1>1, <2>1, HonestIs
  <2>3. OnDeclared(Defects(Flows)) = {Target}
    BY <1>1, <1>2, <2>2, TargetFound DEF OnDeclared
  <2>4. Cardinality({Target}) = 1 /\ Target.endpoint = "to"
    BY FS_Singleton DEF Target
  <2>5. QED
    BY <1>6, <2>3, <2>4
<1>9. stage' = "reviewed" => OnDeclared(found') = {Target}
  BY <1>3, <1>6, <1>7
<1>10. QED
  BY <1>1, <1>2, <1>3, <1>6, <1>8, <1>9, InvFrom DEF Stages, Patched, Again

LEMMA RepairStep ==
  ASSUME ScenarioAssumption, ScenarioInv, Repair
  PROVE  ScenarioInv'
<1>1. doc' = doc /\ doc \in Docs(Nodes, Edges) /\ found' = found /\ again' = again /\ shown' = None
  BY DEF Repair, Fail, ScenarioInv, DocOK, ShownOK
<1>2. /\ AcceptedGraph /\ DOMAIN repo.base = {} /\ repo.head = Flows
      /\ found = Defects(Flows) /\ OnDeclared(found) = {Target}
  BY DEF Repair, ScenarioInv, AcceptedOK, CommitsOK, FoundOK
<1>3. Resolved(Reroute(repo.head))
  BY <1>1, <1>2, ReroutedIs
<1>4. /\ repo' = [base |-> repo.base, head |-> repo.head, patched |-> Reroute(repo.head)]
      /\ stage' = "patched"
  BY <1>3 DEF Repair
<1>5. repo'.base = repo.base /\ repo'.head = Flows /\ repo'.patched = Reroute(Flows)
  BY <1>2, <1>4
<1>6. QED
  BY <1>1, <1>2, <1>4, <1>5, InvFrom DEF Stages, Patched, Again

LEMMA RereviewStep ==
  ASSUME ScenarioAssumption, ScenarioInv, Rereview
  PROVE  ScenarioInv'
<1>1. doc' = doc /\ doc \in Docs(Nodes, Edges) /\ repo' = repo /\ found' = found /\ shown' = None /\ stage' = "rereviewed"
  BY DEF Rereview, ScenarioInv, DocOK, ShownOK
<1>2. /\ AcceptedGraph /\ DOMAIN repo.base = {} /\ repo.head = Flows /\ repo.patched = Reroute(Flows)
      /\ found = Defects(Flows) /\ OnDeclared(found) = {Target}
  BY DEF Rereview, ScenarioInv, AcceptedOK, CommitsOK, FoundOK, Patched
<1>3. again' = Defects(repo.patched)
  BY <1>1, <1>2, FindingsAre, ReroutedIs DEF Rereview
<1>4. QED
  BY <1>1, <1>2, <1>3, InvFrom DEF Stages, Patched, Again

\* The gate lets a graph through that has no defect left; what an honest scenario comes to passes.
LEMMA PassGateStep ==
  ASSUME ScenarioAssumption, ScenarioInv, PassGate
  PROVE  ScenarioInv'
<1>1. /\ doc' = doc /\ doc \in Docs(Nodes, Edges) /\ repo' = repo /\ found' = found /\ again' = again
      /\ shown' = None
  BY DEF PassGate, ScenarioInv, DocOK, ShownOK
<1>2. /\ AcceptedGraph /\ DOMAIN repo.base = {} /\ repo.head = Flows /\ repo.patched = Reroute(Flows)
      /\ found = Defects(Flows) /\ OnDeclared(found) = {Target} /\ again = Defects(repo.patched)
  BY DEF PassGate, ScenarioInv, AcceptedOK, CommitsOK, FoundOK, Patched, Again
<1>3. stage' = IF Passed(Checks) THEN "completed" ELSE "gate_failed"
  BY DEF PassGate
<1>4. Passed(Checks) <=>
        /\ OnlyDeclaredChanged /\ TheFinding \notin again /\ again \subseteq found
        /\ \A f \in again : f.rule # Rule
  BY DEF Passed, Checks
<1>5. \A f \in again : f.rule = Rule
  BY <1>2, DefectsAre DEF FoundAt
<1>6. stage' = "completed" => again = {}
  BY <1>3, <1>4, <1>5
<1>7. Honest => Passed(Checks)
  <2>1. SUFFICES ASSUME Honest PROVE Passed(Checks)
    OBVIOUS
  <2>2. again = {}
    BY <1>1, <1>2, <2>1, HonestIs
  <2>3. OnlyDeclaredChanged
    <3>1. TheDeclared \in Edges
      BY <1>1, <1>2, TheDeclaredIs
    <3>2. [Flow(TheDeclared) EXCEPT !.to = Declared.replacement]
            = [from |-> Declared.from, to |-> Declared.replacement]
      BY DEF Flow, Declared
    <3>3. repo.patched[TheDeclared] = [from |-> Declared.from, to |-> Declared.replacement]
      BY <1>1, <1>2, ReroutedIs
    <3>4. \A e \in Edges \ {TheDeclared} : repo.patched[e] = repo.head[e]
      BY <1>1, <1>2, ReroutedIs
    <3>5. QED
      BY <3>2, <3>3, <3>4 DEF OnlyDeclaredChanged
  <2>4. QED
    BY <1>4, <2>2, <2>3
<1>8. stage' \in {"completed", "gate_failed"} /\ (Honest => stage' = "completed")
  BY <1>3, <1>7
<1>9. QED
  BY <1>1, <1>2, <1>6, <1>8, InvFrom DEF Stages, Patched, Again

\* Nothing is left, so that nothing but the target was found: it is what is shown.
LEMMA CompletedFound ==
  ASSUME ScenarioAssumption, ScenarioInv, stage = "completed"
  PROVE  found = {Target} /\ again = {} /\ Defects(Reroute(Flows)) = {}
<1>1. /\ doc \in Docs(Nodes, Edges) /\ AcceptedGraph /\ repo.patched = Reroute(Flows) /\ found = Defects(Flows)
      /\ again = Defects(repo.patched) /\ again = {}
  BY DEF ScenarioInv, DocOK, AcceptedOK, CommitsOK, FoundOK, Patched, Again
<1>2. QED
  BY <1>1, RestIsLeft, TargetFound

LEMMA ShowStep ==
  ASSUME ScenarioAssumption, ScenarioInv, Show
  PROVE  ScenarioInv'
<1>1. /\ doc' = doc /\ doc \in Docs(Nodes, Edges) /\ repo' = repo /\ found' = found /\ again' = again
      /\ stage = "completed" /\ stage' = "completed"
  BY DEF Show, ScenarioInv, DocOK
<1>2. /\ AcceptedGraph /\ DOMAIN repo.base = {} /\ repo.head = Flows /\ repo.patched = Reroute(Flows)
      /\ found = Defects(Flows) /\ OnDeclared(found) = {Target} /\ again = Defects(repo.patched)
      /\ again = {}
  BY <1>1 DEF ScenarioInv, AcceptedOK, CommitsOK, FoundOK, Patched, Again
<1>3. found = {Target}
  BY <1>1, CompletedFound
<1>4. First({Target}) = Target
  <2>1. TheDeclared \in Nat
    BY <1>1, <1>2, TheDeclaredIs DEF ScenarioAssumption
  <2>2. ~Precedes(Target, Target)
    BY <2>1 DEF Precedes, Target
  <2>3. QED
    BY <2>2 DEF First
<1>5. shown' = Target
  BY <1>3, <1>4 DEF Show
<1>6. QED
  BY <1>1, <1>2, <1>5, InvFrom DEF Stages, Patched, Again

LEMMA ScenarioInvNext ==
  ASSUME ScenarioAssumption, ScenarioInv, [ScenarioNext]_scenarioVars
  PROVE  ScenarioInv'
<1>1. CASE UNCHANGED scenarioVars
  <2>1. doc' = doc /\ stage' = stage /\ repo' = repo /\ found' = found /\ again' = again /\ shown' = shown
    BY <1>1 DEF scenarioVars
  <2>2. QED
    BY <2>1, InvFrom DEF ScenarioInv, DocOK, AcceptedOK, CommitsOK, FoundOK, ShownOK, HonestNeverRefused
<1>2. CASE ScenarioNext
  BY <1>2, ValidateScenarioStep, MaterializeStep, ReviewStep, RepairStep, RereviewStep, PassGateStep, ShowStep
  DEF ScenarioNext
<1>3. QED
  BY <1>1, <1>2

\* The invariant says what the run checks.
LEMMA ScenarioInvSays ==
  ASSUME ScenarioAssumption, ScenarioInv
  PROVE  ScenarioIsTrue
<1>1. CompletedIsClean
  <2>1. SUFFICES ASSUME stage = "completed"
                 PROVE  /\ Defective(repo.patched) = {}
                        /\ {e \in Edges : repo.patched[e] # Flow(e)} = {TheDeclared}
                        /\ repo.patched[TheDeclared].from = Declared.from
    BY DEF CompletedIsClean
  <2>2. /\ doc \in Docs(Nodes, Edges) /\ AcceptedGraph /\ repo.patched = Reroute(Flows)
    BY <2>1 DEF ScenarioInv, DocOK, AcceptedOK, CommitsOK, Patched
  <2>3. Defects(Reroute(Flows)) = {}
    BY <2>1, CompletedFound
  <2>4. Defective(Reroute(Flows)) = {}
    <3>1. ASSUME NEW e \in Defective(Reroute(Flows)) PROVE FALSE
      BY <2>3, <3>1, DefectsAre DEF Defective
    <3>2. QED
      BY <3>1
  <2>5. /\ Reroute(Flows)[TheDeclared] = [from |-> Declared.from, to |-> Declared.replacement]
        /\ \A e \in Edges \ {TheDeclared} : Reroute(Flows)[e] = Flows[e]
    BY <2>2, ReroutedIs
  <2>6. TheDeclared \in Edges /\ Declared.replacement # Declared.to
    BY <2>2, TheDeclaredIs DEF Stays, Eliminate
  <2>7. Flow(TheDeclared) = [from |-> Declared.from, to |-> Declared.to]
    BY DEF Flow, Declared
  <2>8. Reroute(Flows)[TheDeclared] # Flow(TheDeclared)
    BY <2>5, <2>6, <2>7
  <2>9. \A e \in Edges : Flows[e] = Flow(e)
    BY DEF Flows
  <2>10. {e \in Edges : Reroute(Flows)[e] # Flow(e)} = {TheDeclared}
    BY <2>5, <2>6, <2>8, <2>9
  <2>11. Reroute(Flows)[TheDeclared].from = Declared.from
    BY <2>5
  <2>12. QED
    BY <2>2, <2>4, <2>10, <2>11
<1>2. ShownIsRepaired
  BY DEF ScenarioInv, ShownOK, ShownIsRepaired, Target
<1>3. QED
  BY <1>1, <1>2 DEF ScenarioInv, ScenarioIsTrue

\* For every scenario document: a completed run has repaired the whole graph by one endpoint,
\* the finding the interface shows is the one repaired, and an honest scenario is refused by no
\* stage (run_self_evolution_architecture_scenario.py, self_evolution_ui.py).
THEOREM ScenarioTrue == ASSUME ScenarioAssumption PROVE ScenarioSpec => []ScenarioIsTrue
<1>1. ScenarioInit => ScenarioInv
  BY ScenarioStarts
<1>2. ScenarioInv /\ [ScenarioNext]_scenarioVars => ScenarioInv'
  BY ScenarioInvNext
<1>3. ScenarioInv => ScenarioIsTrue
  BY ScenarioInvSays
<1>4. QED
  BY <1>1, <1>2, <1>3, PTL DEF ScenarioSpec

-----------------------------------------------------------------------------
(* The rules.                                                              *)

Exceptions == [id : 1..MaxExceptions, when : Conditions, ref : Approved, waived : BOOLEAN]
RuleRecords == [severity : RuleSeverities, status : Statuses, exceptions : Seq(Exceptions)]
Bases == [Rules -> RuleRecords \cup {Absent}]

RulesInv ==
  /\ rules \in Bases /\ decided \subseteq Rules /\ enforced \subseteq Rules
  /\ \A r \in Rules : RuleValid(rules[r]) /\ Len(rules[r].exceptions) <= MaxExceptions
  /\ BlockerNeedsCommittee

LEMMA AbsentIs ==
  /\ Absent.status = None /\ Absent.severity = None /\ Absent.exceptions = <<>>
  /\ RuleValid(Absent)
BY DEF Absent, RuleValid, Range

LEMMA RecordIs ==
  ASSUME NEW rule \in RuleRecords
  PROVE  /\ rule.severity \in RuleSeverities /\ rule.status \in Statuses
         /\ rule.exceptions \in Seq(Exceptions)
BY DEF RuleRecords

\* What installing a rule does to the base.
LEMMA InstallKeeps ==
  ASSUME MutationAssumption, RulesInv, NEW r \in Rules, NEW rule \in RuleRecords,
         rule.status # None, Len(rule.exceptions) <= MaxExceptions, Install(r, rule),
         decided' \subseteq Rules,
         \A q \in Rules \ {r} : q \in decided => q \in decided',
         r \in enforced => ActiveBlocker(rule) \/ r \in decided'
  PROVE  RulesInv'
<1>1. /\ rules' = [rules EXCEPT ![r] = rule] /\ Loads(rules')
      /\ enforced' = IF ActiveBlocker(rule) THEN enforced \cup {r} ELSE enforced
  BY DEF Install
<1>2. rules' \in Bases /\ rules'[r] = rule /\ \A q \in Rules \ {r} : rules'[q] = rules[q]
  BY <1>1 DEF RulesInv, Bases
<1>3. decided' \subseteq Rules /\ enforced' \subseteq Rules
  BY <1>1 DEF RulesInv
<1>4. RuleValid(rule)
  BY <1>1, <1>2 DEF Loads
<1>5. \A q \in Rules : RuleValid(rules'[q]) /\ Len(rules'[q].exceptions) <= MaxExceptions
  BY <1>2, <1>4 DEF RulesInv
<1>6. ASSUME NEW q \in enforced' PROVE ActiveBlocker(rules'[q]) \/ q \in decided'
  <2>1. CASE q = r
    BY <1>1, <1>2, <1>6, <2>1
  <2>2. CASE q # r
    <3>1. q \in enforced /\ q \in Rules
      BY <1>1, <1>6, <2>2 DEF RulesInv
    <3>2. ActiveBlocker(rules[q]) \/ q \in decided
      BY <3>1 DEF RulesInv, BlockerNeedsCommittee
    <3>3. rules'[q] = rules[q]
      BY <1>2, <2>2, <3>1
    <3>4. QED
      BY <2>2, <3>1, <3>2, <3>3
  <2>3. QED
    BY <2>1, <2>2
<1>7. BlockerNeedsCommittee'
  BY <1>6 DEF BlockerNeedsCommittee, ActiveBlocker
<1>8. QED
  BY <1>2, <1>3, <1>5, <1>7 DEF RulesInv, RuleValid, ExceptionValid, Bases


LEMMA RulesStart ==
  ASSUME MutationAssumption, RulesInit
  PROVE  RulesInv
<1> DEFINE Bare == [severity : RuleSeverities, status : Statuses, exceptions : {<<>>}]
<1>1. rules \in [Rules -> {Absent} \cup Bare]
  BY DEF RulesInit
<1>2. <<>> \in Seq(Exceptions)
  OBVIOUS
<1>3. ASSUME NEW x \in {Absent} \cup Bare
      PROVE  x \in RuleRecords \cup {Absent} /\ x.exceptions = <<>>
  <2>1. CASE x = Absent
    BY <2>1, AbsentIs
  <2>2. CASE x \in Bare
    BY <1>2, <2>2 DEF RuleRecords
  <2>3. QED
    BY <2>1, <2>2
<1>4. ASSUME NEW r \in Rules PROVE RuleValid(rules[r]) /\ Len(rules[r].exceptions) <= MaxExceptions
  <2>1. rules[r].exceptions = <<>>
    BY <1>1, <1>3
  <2>2. Range(<<>>) = {} /\ DOMAIN <<>> = {} /\ Len(<<>>) = 0
    BY DEF Range
  <2>3. QED
    BY <2>1, <2>2 DEF RuleValid, MutationAssumption
<1>5. rules \in Bases
  BY <1>1, <1>3 DEF Bases
<1>6. decided \subseteq Rules /\ enforced \subseteq Rules /\ BlockerNeedsCommittee
  BY DEF RulesInit, BlockerNeedsCommittee
<1>7. QED
  BY <1>4, <1>5, <1>6 DEF RulesInv

LEMMA PresentRule ==
  ASSUME MutationAssumption, RulesInv, NEW r \in Rules, rules[r].status \in Statuses \/ Present(r)
  PROVE  /\ rules[r] \in RuleRecords /\ rules[r].status # None
         /\ Len(rules[r].exceptions) <= MaxExceptions
<1>1. rules[r] \in RuleRecords \cup {Absent}
  BY DEF RulesInv, Bases
<1>2. rules[r] # Absent
  BY AbsentIs DEF Present, MutationAssumption
<1>3. QED
  BY <1>1, <1>2, RecordIs DEF RulesInv, MutationAssumption

\* Whoever was an active blocker and is not one any more was decided on.
LEMMA WasDecided ==
  ASSUME RulesInv, NEW r \in enforced
  PROVE  ActiveBlocker(rules[r]) \/ r \in decided
BY DEF RulesInv, BlockerNeedsCommittee

LEMMA AddExceptionStep ==
  ASSUME MutationAssumption, RulesInv, NEW r \in Rules, NEW ref \in Refs, NEW when \in Conditions,
         NEW id \in {None} \cup 1..MaxExceptions, NEW waived \in BOOLEAN,
         AddException(r, ref, when, id, waived)
  PROVE  RulesInv'
<1> DEFINE old == rules[r].exceptions
           given == IF id = None THEN Len(old) + 1 ELSE id
           e == [id |-> given, when |-> when, ref |-> ref, waived |-> waived]
           rule == [rules[r] EXCEPT !.exceptions = Append(@, e)]
<1>1. /\ Present(r) /\ ref \in Approved /\ Len(old) < MaxExceptions
      /\ Install(r, rule) /\ decided' = decided
  BY DEF AddException, Provenance
<1>2. rules[r] \in RuleRecords /\ rules[r].status # None /\ old \in Seq(Exceptions)
  BY <1>1, PresentRule, RecordIs
<1>3. given \in 1..MaxExceptions
  BY <1>1, <1>2 DEF MutationAssumption
<1>4. e \in Exceptions
  BY <1>1, <1>3 DEF Exceptions
<1> HIDE DEF e
<1>5. Append(old, e) \in Seq(Exceptions) /\ Len(Append(old, e)) <= MaxExceptions
  BY <1>1, <1>2, <1>4 DEF MutationAssumption
<1>6. /\ rule \in RuleRecords /\ rule.status = rules[r].status /\ rule.severity = rules[r].severity
      /\ rule.exceptions = Append(old, e)
  <2>1. ASSUME NEW x \in RuleRecords, NEW s \in Seq(Exceptions)
        PROVE  /\ [x EXCEPT !.exceptions = s] \in RuleRecords
               /\ [x EXCEPT !.exceptions = s].status = x.status
               /\ [x EXCEPT !.exceptions = s].severity = x.severity
               /\ [x EXCEPT !.exceptions = s].exceptions = s
    BY DEF RuleRecords
  <2>2. rule = [rules[r] EXCEPT !.exceptions = Append(old, e)]
    OBVIOUS
  <2>3. QED
    BY <1>2, <1>5, <2>1, <2>2
<1>7. r \in enforced => ActiveBlocker(rule) \/ r \in decided'
  BY <1>1, <1>6, WasDecided DEF ActiveBlocker
<1>8. decided' \subseteq Rules
  BY <1>1 DEF RulesInv
<1> HIDE DEF rule
<1>9. QED
  BY <1>1, <1>2, <1>5, <1>6, <1>7, <1>8, InstallKeeps

\* A rule whose severity or status is set is still a rule.
LEMMA RuleSet ==
  ASSUME NEW x \in RuleRecords
  PROVE  /\ \A s \in RuleSeverities :
              /\ [x EXCEPT !.severity = s] \in RuleRecords
              /\ [x EXCEPT !.severity = s].status = x.status
              /\ [x EXCEPT !.severity = s].severity = s
              /\ [x EXCEPT !.severity = s].exceptions = x.exceptions
         /\ \A t \in Statuses :
              /\ [x EXCEPT !.status = t] \in RuleRecords
              /\ [x EXCEPT !.status = t].status = t
              /\ [x EXCEPT !.status = t].severity = x.severity
              /\ [x EXCEPT !.status = t].exceptions = x.exceptions
BY DEF RuleRecords

\* The effect of a decision: it stays until the rule is an active blocker again.
LEMMA DecisionIs ==
  ASSUME RulesInv, NEW r \in Rules, NEW committee \in BOOLEAN, NEW rule,
         RecordDecision(r, committee, rule),
         r \in decided \/ ~ActiveBlocker(rules[r]) \/ committee
  PROVE  /\ decided' \subseteq Rules
         /\ \A q \in Rules \ {r} : q \in decided => q \in decided'
         /\ r \in enforced => ActiveBlocker(rule) \/ r \in decided'
BY WasDecided DEF RecordDecision, RulesInv

LEMMA AdjustSeverityStep ==
  ASSUME MutationAssumption, RulesInv, NEW r \in Rules, NEW ref \in Refs,
         NEW s \in RuleSeverities, NEW committee \in BOOLEAN, AdjustSeverity(r, ref, s, committee)
  PROVE  RulesInv'
<1> DEFINE rule == [rules[r] EXCEPT !.severity = s]
<1>1. /\ Present(r) /\ Install(r, rule) /\ RecordDecision(r, committee, rule)
      /\ rules[r].severity = "blocker" => committee
  BY DEF AdjustSeverity
<1>2. rules[r] \in RuleRecords /\ rules[r].status # None /\ Len(rules[r].exceptions) <= MaxExceptions
  BY <1>1, PresentRule
<1>3. rule \in RuleRecords /\ rule.status # None /\ Len(rule.exceptions) <= MaxExceptions
  BY <1>2, RuleSet
<1>4. r \in decided \/ ~ActiveBlocker(rules[r]) \/ committee
  BY <1>1 DEF ActiveBlocker
<1> HIDE DEF rule
<1>5. QED
  BY <1>1, <1>3, <1>4, DecisionIs, InstallKeeps

LEMMA AddRuleStep ==
  ASSUME MutationAssumption, RulesInv, NEW r \in Rules, NEW ref \in Refs,
         NEW s \in RuleSeverities, NEW t \in Statuses, AddRule(r, ref, s, t)
  PROVE  RulesInv'
<1> DEFINE rule == [severity |-> s, status |-> t, exceptions |-> <<>>]
<1>1. ~Present(r) /\ Install(r, rule) /\ decided' = decided
  BY DEF AddRule
<1>2. <<>> \in Seq(Exceptions) /\ Len(<<>>) = 0
  OBVIOUS
<1>3. rule \in RuleRecords /\ rule.status # None /\ Len(rule.exceptions) <= MaxExceptions
  BY <1>2 DEF RuleRecords, MutationAssumption
<1>4. r \in enforced => r \in decided
  <2>1. ~ActiveBlocker(rules[r])
    BY <1>1 DEF Present, ActiveBlocker, MutationAssumption, Statuses
  <2>2. QED
    BY <2>1, WasDecided
<1>5. decided \subseteq Rules
  BY DEF RulesInv
<1> HIDE DEF rule
<1>6. QED
  BY <1>1, <1>3, <1>4, <1>5, InstallKeeps

LEMMA ActivateRuleStep ==
  ASSUME MutationAssumption, RulesInv, NEW r \in Rules, NEW ref \in Refs, NEW human \in BOOLEAN,
         ActivateRule(r, ref, human)
  PROVE  RulesInv'
<1> DEFINE rule == [rules[r] EXCEPT !.status = "active"]
<1>1. rules[r].status = "candidate" /\ Install(r, rule) /\ RecordDecision(r, FALSE, rule)
  BY DEF ActivateRule
<1>2. rules[r] \in RuleRecords /\ Len(rules[r].exceptions) <= MaxExceptions
  BY <1>1, PresentRule DEF Statuses
<1>3. rule \in RuleRecords /\ rule.status # None /\ Len(rule.exceptions) <= MaxExceptions
  BY <1>2, RuleSet DEF Statuses, MutationAssumption
<1>4. r \in decided \/ ~ActiveBlocker(rules[r]) \/ FALSE
  BY <1>1 DEF ActiveBlocker
<1> HIDE DEF rule
<1>5. QED
  BY <1>1, <1>3, <1>4, DecisionIs, InstallKeeps

LEMMA DeprecateRuleStep ==
  ASSUME MutationAssumption, RulesInv, NEW r \in Rules, NEW ref \in Refs, NEW committee \in BOOLEAN,
         DeprecateRule(r, ref, committee)
  PROVE  RulesInv'
<1> DEFINE rule == [rules[r] EXCEPT !.status = "deprecated"]
<1>1. /\ Present(r) /\ Install(r, rule) /\ RecordDecision(r, committee, rule)
      /\ rules[r].severity = "blocker" => committee
  BY DEF DeprecateRule
<1>2. rules[r] \in RuleRecords /\ Len(rules[r].exceptions) <= MaxExceptions
  BY <1>1, PresentRule
<1>3. rule \in RuleRecords /\ rule.status # None /\ Len(rule.exceptions) <= MaxExceptions
  BY <1>2, RuleSet DEF Statuses, MutationAssumption
<1>4. r \in decided \/ ~ActiveBlocker(rules[r]) \/ committee
  BY <1>1 DEF ActiveBlocker
<1> HIDE DEF rule
<1>5. QED
  BY <1>1, <1>3, <1>4, DecisionIs, InstallKeeps

LEMMA RulesInvNext ==
  ASSUME MutationAssumption, RulesInv, [Mutate]_ruleVars
  PROVE  RulesInv'
<1>1. CASE UNCHANGED ruleVars
  BY <1>1 DEF ruleVars, RulesInv, Bases, RuleValid, ExceptionValid, BlockerNeedsCommittee, ActiveBlocker
<1>2. CASE Mutate
  BY <1>2, AddExceptionStep, AdjustSeverityStep, AddRuleStep, ActivateRuleStep, DeprecateRuleStep
  DEF Mutate, NarrowRule, ChangeRule
<1>3. QED
  BY <1>1, <1>2

\* The conditions two validators accept are leaves and groups of leaves.
LEMMA LeavesAre ==
  ASSUME NEW c \in Conditions
  PROVE  LeavesOf(c) \subseteq Leaves
<1>1. ASSUME NEW op \in {"all", "any"}, c \in Groups(op) PROVE LeavesOf(c) \subseteq Leaves
  <2>1. PICK cs \in SUBSET Leaves : c = [op |-> op, field |-> None, values |-> {}, clauses |-> cs]
    BY <1>1 DEF Groups
  <2>2. c.op = op /\ c.clauses = cs
    BY <2>1
  <2>3. QED
    BY <1>1, <2>1, <2>2 DEF LeavesOf
<1>2. ASSUME c \in Leaves PROVE LeavesOf(c) \subseteq Leaves
  <2>1. c.op = "leaf"
    BY <1>2 DEF Leaves, Leaf
  <2>2. QED
    BY <1>2, <2>1 DEF LeavesOf
<1>3. QED
  BY <1>1, <1>2 DEF Conditions

\* Of a document whose other field says nothing that the condition asks for, the engine reads
\* what the validator reads of the trigger alone.
LEMMA ReadAlike ==
  ASSUME MutationAssumption, NEW c \in Conditions, NEW v \in Values, NEW p, p \notin Named(c)
  PROVE  Matches(c, Document(v, p)) = MatchesStated(c, Document(v, None))
<1> DEFINE d == Document(v, p)
           e == Document(v, None)
<1>1. d.trigger = v /\ d.other = p /\ e.trigger = v /\ e.other = None /\ v # None
  BY DEF Document, MutationAssumption
<1>2. ASSUME NEW l \in LeavesOf(c)
      PROVE  FieldOf(d, l) \in l.values <=> FieldOf(e, l) # None /\ FieldOf(e, l) \in l.values
  <2>1. l \in Leaves
    BY LeavesAre
  <2>2. l.field = "trigger" \/ l.field = "other"
    BY <2>1 DEF Leaves, Leaf
  <2>3. CASE l.field = "trigger"
    BY <1>1, <2>3 DEF FieldOf
  <2>4. CASE l.field = "other"
    <3>1. p \notin l.values
      BY <2>4 DEF Named
    <3>2. QED
      BY <1>1, <2>4, <3>1 DEF FieldOf
  <2>5. QED
    BY <2>2, <2>3, <2>4
<1>3. {l \in LeavesOf(c) : FieldOf(d, l) \in l.values}
        = {l \in LeavesOf(c) : FieldOf(e, l) # None /\ FieldOf(e, l) \in l.values}
  BY <1>2
<1>4. QED
  BY <1>3 DEF Matches, MatchesStated

LEMMA RulesInvSays ==
  ASSUME MutationAssumption, RulesInv
  PROVE  RulesTypeOK /\ BlockerNeedsCommittee /\ ExceptionNeedsMore /\ SuppressionIsNamed
<1>1. ASSUME NEW r \in Rules
      PROVE  /\ rules[r].severity \in RuleSeverities \cup {None}
             /\ rules[r].status \in Statuses \cup {None}
             /\ rules[r].exceptions \in Seq(Exceptions)
  <2>1. rules[r] \in RuleRecords \cup {Absent}
    BY DEF RulesInv, Bases
  <2>2. <<>> \in Seq(Exceptions)
    OBVIOUS
  <2>3. QED
    BY <2>1, <2>2, AbsentIs, RecordIs
<1>2. ASSUME NEW r \in Rules, NEW e \in Range(rules[r].exceptions)
      PROVE  e \in Exceptions /\ ExceptionValid(e) /\ \E i \in DOMAIN rules[r].exceptions : e = rules[r].exceptions[i]
  <2>1. PICK i \in DOMAIN rules[r].exceptions : e = rules[r].exceptions[i]
    BY <1>2 DEF Range
  <2>2. e \in Exceptions
    BY <1>1, <2>1
  <2>3. ExceptionValid(e)
    BY <1>2 DEF RulesInv, RuleValid
  <2>4. QED
    BY <2>1, <2>2, <2>3
<1>3. RulesTypeOK
  BY <1>1, <1>2 DEF RulesTypeOK, RulesInv, Exceptions
<1>4. SuppressionIsNamed
  <2>1. ASSUME NEW r \in Rules, NEW e \in Range(rules[r].exceptions), NEW f \in Range(rules[r].exceptions),
               e.id = f.id
        PROVE  e = f
    <3>1. PICK i \in DOMAIN rules[r].exceptions, j \in DOMAIN rules[r].exceptions :
            e = rules[r].exceptions[i] /\ f = rules[r].exceptions[j]
      BY <1>2
    <3>2. i = j
      BY <2>1, <3>1 DEF RulesInv, RuleValid
    <3>3. QED
      BY <3>1, <3>2
  <2>2. QED
    BY <2>1 DEF SuppressionIsNamed
<1>5. ExceptionNeedsMore
  <2>1. ASSUME NEW r \in Rules, NEW e \in Range(rules[r].exceptions), ~e.waived
        PROVE  \E v \in Values : \A p \in (Places \cup {None}) \ Named(e.when) :
                 ~Matches(e.when, Document(v, p))
    <3>1. e.when \in Conditions /\ ExceptionValid(e)
      BY <1>2, <2>1 DEF Exceptions
    <3>2. PICK v \in Values : ~MatchesStated(e.when, Document(v, None))
      BY <2>1, <3>1 DEF ExceptionValid, Disables
    <3>3. \A p \in (Places \cup {None}) \ Named(e.when) : ~Matches(e.when, Document(v, p))
      BY <3>1, <3>2, ReadAlike
    <3>4. QED
      BY <3>3
  <2>2. QED
    BY <2>1 DEF ExceptionNeedsMore
<1>6. QED
  BY <1>3, <1>4, <1>5 DEF RulesInv

THEOREM RulesInvHolds == ASSUME MutationAssumption PROVE RulesSpec => []RulesInv
<1>1. RulesInit => RulesInv
  BY RulesStart
<1>2. RulesInv /\ [Mutate]_ruleVars => RulesInv'
  BY RulesInvNext
<1>3. QED
  BY <1>1, <1>2, PTL DEF RulesSpec

\* For every set of rules and conditions, null among them: mutations keep an active blocker
\* unless the committee decides; an exception that is let in leaves its rule a trigger in every
\* document that does not say what it asks for; and a suppression names one exception
\* (evolver/mutations.py, tools/validation.py, tools/aga.py).
THEOREM RulesForceful ==
  ASSUME MutationAssumption PROVE RulesSpec => []RulesKeepForce
<1>1. RulesInv => RulesKeepForce
  BY RulesInvSays DEF RulesKeepForce
<1>2. RulesSpec => []RulesInv
  BY RulesInvHolds
<1>3. QED
  BY <1>1, <1>2, PTL

-----------------------------------------------------------------------------
(* The evolver.  What a publisher knows at each of its steps: from         *)
(* validation on, that its bundle passes the gate on the files it read;    *)
(* from the binding on, that a commit holds those files; and once it has   *)
(* committed, that its commit is the candidate of that one.  Commits are   *)
(* only added and a branch stands where it was put, so it stays true.      *)

\* One mutation of b, proposed by an approved precedent pending there, that passes the gate.
GatedBy(files, b, p, m) ==
  /\ ValidMutation(b.rules, m) /\ Applies(b.rules, m)
  /\ GatePasses(b.corpus, b.rules, b.rules \cup {m})
  /\ b.lock = b.corpus
  /\ files = [b EXCEPT !.rules = @ \cup {m}, !.version = @ + 1, !.pending = @ \ {p}]

GatedOn(files, b) ==
  \E p \in b.pending \cap ApprovedPrecedents : \E m \in Range(Proposed[p]) : GatedBy(files, b, p, m)

CommitRecords == [parent : Nat, files : ProtectedFiles]

HistoryOK(cs) ==
  /\ cs \in Seq(CommitRecords) /\ Len(cs) \in 1..MaxCommits
  /\ \A i \in 1..Len(cs) : cs[i].parent < i /\ cs[i].files.version <= i

BranchOK(r, cs) ==
  r # None => /\ r \in 1..Len(cs) /\ cs[r].parent \in 1..Len(cs)
              /\ GatedOn(cs[r].files, cs[cs[r].parent].files)

JobSteps == {"capture", "attempt", "apply", "diff", "evaluate", "texts", "drift", "manifest",
             "ready", "broken", "input_error", "nothing", "dead"}

JobRecords == [pc : JobSteps \cup {"idle"}, prec : Nat \cup {None}, base : ProtectedFiles \cup {None},
               version : Nat \cup {None}, attempt : Nat]

JobOK(j) ==
  /\ j.pc = "idle" => j.attempt = 1
  /\ j.prec # None => j.prec \in Precedents /\ j.attempt \in 1..Len(Proposed[j.prec])

AfterValidate == {"resolve", "begin", "commit", "recheck", "ref", "verify", "published"}
AfterBegin    == {"commit", "recheck", "ref", "verify", "published"}
AfterCommit   == {"recheck", "ref", "verify", "published"}

PubFields == {"pc", "manifest", "src", "mut", "base", "status", "existing", "commit"}

Delta(p) ==
  [p.src EXCEPT !.rules = @ \cup {p.mut}, !.version = p.manifest.from + 1,
                !.pending = @ \ {p.manifest.prec}]

ValidatedOK(p) ==
  /\ p.src \in ProtectedFiles /\ p.src.version = p.manifest.from
  /\ p.manifest.prec \in p.src.pending \cap ApprovedPrecedents
  /\ p.mut \in Range(Proposed[p.manifest.prec])
  /\ GatedBy(Delta(p), p.src, p.manifest.prec, p.mut)

BoundOK(p, cs) ==
  /\ p.base \in 1..Len(cs) /\ cs[p.base].files = p.src
  /\ p.existing # None => p.existing \in 1..Len(cs)

CommittedOK(p, cs) ==
  /\ p.commit \in 1..Len(cs)
  /\ cs[p.commit].parent = p.base /\ cs[p.commit].files = Delta(p)

PubOK(p, cs, rs) ==
  /\ DOMAIN p = PubFields
  /\ p.pc # "idle" => p.manifest.cycle \in Cycles
  /\ p.pc \in AfterValidate => ValidatedOK(p)
  /\ p.pc \in AfterBegin => BoundOK(p, cs)
  /\ p.pc \in AfterCommit => CommittedOK(p, cs)
  /\ p.pc = "published" => rs[p.manifest.cycle] = p.commit

WorkOK == work \in ProtectedFiles /\ work.version <= Len(commits) /\ head \in 1..Len(commits)
RefsOK == refs \in [Cycles -> Nat \cup {None}] /\ \A c \in Cycles : BranchOK(refs[c], commits)
BuildOK ==
  /\ "manifest" \in DOMAIN build
  /\ build.manifest # None => build.manifest.cycle \in Cycles
JobsOK == job \in [Cycles -> JobRecords] /\ \A c \in Cycles : JobOK(job[c])
PubsOK == DOMAIN pub = Publishers /\ \A v \in Publishers : PubOK(pub[v], commits, refs)

EvolverInv == HistoryOK(commits) /\ WorkOK /\ RefsOK /\ BuildOK /\ JobsOK /\ PubsOK

LEMMA FilesAre ==
  ASSUME NEW f \in ProtectedFiles
  PROVE  /\ f.rules \subseteq Mutations /\ f.version \in 1..(MaxCommits + 1)
         /\ f.pending \subseteq Precedents /\ f.corpus \in Corpora /\ f.lock \in Corpora
         /\ DOMAIN f = {"rules", "version", "pending", "corpus", "lock"}
BY DEF ProtectedFiles

-----------------------------------------------------------------------------
(* What a step does to the commits and the branches.                       *)

Grows == /\ Len(commits) <= Len(commits')
         /\ \A i \in 1..Len(commits) : commits'[i] = commits[i]
BranchesStand == \A c \in Cycles : refs[c] # None => refs'[c] = refs[c]

LEMMA BranchStays ==
  ASSUME HistoryOK(commits), HistoryOK(commits'), Grows, NEW r, BranchOK(r, commits)
  PROVE  BranchOK(r, commits')
BY DEF HistoryOK, BranchOK, Grows

LEMMA PubStays ==
  ASSUME EvolverAssumption, HistoryOK(commits), HistoryOK(commits'), Grows, BranchesStand,
         NEW p, PubOK(p, commits, refs)
  PROVE  PubOK(p, commits', refs')
<1>1. p.pc \in AfterBegin => BoundOK(p, commits')
  BY DEF PubOK, BoundOK, HistoryOK, Grows
<1>2. p.pc \in AfterCommit => CommittedOK(p, commits')
  BY DEF PubOK, CommittedOK, HistoryOK, Grows
<1>3. p.pc = "published" => refs'[p.manifest.cycle] = p.commit
  <2>1. p.pc = "published" => p.commit \in Nat /\ p.manifest.cycle \in Cycles /\ refs[p.manifest.cycle] = p.commit
    BY DEF PubOK, CommittedOK, AfterCommit, HistoryOK
  <2>2. QED
    BY <2>1 DEF BranchesStand, EvolverAssumption
<1>4. QED
  BY <1>1, <1>2, <1>3 DEF PubOK

\* Nothing but the commits, the tree and the cycles changes.
LEMMA OthersStay ==
  ASSUME EvolverAssumption, EvolverInv, HistoryOK(commits'), Grows, UNCHANGED <<refs, pub>>
  PROVE  RefsOK' /\ PubsOK'
<1>1. RefsOK'
  BY BranchStays DEF EvolverInv, RefsOK
<1>2. BranchesStand
  BY DEF BranchesStand
<1>3. PubsOK'
  BY <1>2, PubStays DEF EvolverInv, PubsOK
<1>4. QED
  BY <1>1, <1>3

\* A step of a cycle changes the build directory and the cycle.
CycleFrame == UNCHANGED <<work, commits, head, refs, pub>>

LEMMA CycleKeeps ==
  ASSUME EvolverInv, CycleFrame, BuildOK', JobsOK'
  PROVE  EvolverInv'
<1>1. HistoryOK(commits)' /\ WorkOK' /\ RefsOK' /\ PubsOK'
  BY DEF EvolverInv, CycleFrame, WorkOK, RefsOK, PubsOK
<1>2. QED
  BY <1>1 DEF EvolverInv

LEMMA JobUpdate ==
  ASSUME JobsOK, NEW c \in Cycles, NEW j \in JobRecords, JobOK(j), job' = [job EXCEPT ![c] = j]
  PROVE  JobsOK'
BY DEF JobsOK

LEMMA GotoKeeps ==
  ASSUME JobsOK, NEW c \in Cycles, NEW pc \in JobSteps, Goto(c, pc)
  PROVE  JobsOK'
<1> DEFINE j == [job[c] EXCEPT !.pc = pc]
<1>1. job[c] \in JobRecords /\ JobOK(job[c])
  BY DEF JobsOK
<1>2. j.prec = job[c].prec /\ j.attempt = job[c].attempt /\ j.pc = pc /\ pc # "idle"
  BY <1>1 DEF JobRecords, JobSteps
<1>3. JobOK(j)
  BY <1>1, <1>2 DEF JobOK
<1>4. job' = [job EXCEPT ![c] = j]
  BY DEF Goto
<1>5. j \in JobRecords
  <2>1. 0 \in Nat
    OBVIOUS
  <2>2. QED
    BY <1>1 DEF JobRecords
<1>6. QED
  BY <1>3, <1>4, <1>5, JobUpdate

LEMMA NextAttemptKeeps ==
  ASSUME EvolverAssumption, JobsOK, NEW c \in Cycles, NextAttempt(c)
  PROVE  JobsOK'
<1>1. CASE ~(job[c].attempt < Len(Proposed[job[c].prec]))
  <2>1. Goto(c, "broken")
    BY <1>1 DEF NextAttempt
  <2>2. "broken" \in JobSteps
    BY DEF JobSteps
  <2>3. QED
    BY <2>1, <2>2, GotoKeeps
<1>2. CASE job[c].attempt < Len(Proposed[job[c].prec])
  <2> DEFINE a == job[c].attempt + 1
             j == [job[c] EXCEPT !.pc = "attempt", !.attempt = a]
  <2>1. job[c] \in JobRecords /\ JobOK(job[c])
    BY DEF JobsOK
  <2>2. /\ job[c].attempt + 1 \in Nat
        /\ j.prec = job[c].prec /\ j.attempt = job[c].attempt + 1 /\ j.pc = "attempt"
        /\ j.base = job[c].base /\ j.version = job[c].version
    BY <2>1 DEF JobRecords
  <2>3. JobOK(j)
    <3>1. ASSUME j.prec # None PROVE Len(Proposed[j.prec]) \in Nat /\ j.prec \in Precedents
      BY <2>1, <2>2, <3>1 DEF JobOK, EvolverAssumption
    <3>2. QED
      BY <1>2, <2>1, <2>2, <3>1 DEF JobOK
  <2>4. job' = [job EXCEPT ![c] = j]
    BY <1>2 DEF NextAttempt
  <2>5. j \in JobRecords
    <3>1. "attempt" \in JobSteps /\ a \in Nat
      BY <2>2 DEF JobSteps
    <3> HIDE DEF a
    <3>2. QED
      BY <2>1, <3>1 DEF JobRecords
  <2>6. QED
    BY <2>3, <2>4, <2>5, JobUpdate
<1>3. QED
  BY <1>1, <1>2

LEMMA StartStep ==
  ASSUME EvolverAssumption, EvolverInv, NEW c \in Cycles, Start(c)
  PROVE  EvolverInv'
<1>1. work \in ProtectedFiles /\ job[c] \in JobRecords /\ JobOK(job[c]) /\ job[c].pc = "idle"
  BY DEF EvolverInv, WorkOK, JobsOK, Start, At
<1>4. CycleFrame /\ BuildOK'
  BY DEF Start, CycleFrame, EvolverInv, BuildOK
<1>2. CASE work.pending = {}
  <2>1. Goto(c, "nothing")
    BY <1>2 DEF Start, Goto
  <2>2. "nothing" \in JobSteps
    BY DEF JobSteps
  <2>3. JobsOK'
    BY <2>1, <2>2, GotoKeeps DEF EvolverInv
  <2>4. QED
    BY <1>4, <2>3, CycleKeeps
<1>3. CASE work.pending # {}
  <2> DEFINE p == Min(work.pending)
             pc == IF p \in ApprovedPrecedents THEN "capture" ELSE "input_error"
             j == [job[c] EXCEPT !.pc = pc, !.prec = p, !.version = work.version]
  <2>1. p \in Precedents
    <3>1. work.pending \in SUBSET Nat /\ work.pending \subseteq Precedents
      BY <1>1, FilesAre DEF EvolverAssumption
    <3>2. QED
      BY <1>3, <3>1, LeastIn DEF Min
  <2>2. work.version \in Nat /\ p \in Nat /\ pc \in JobSteps
    <3>1. work.version \in 1..(MaxCommits + 1)
      BY <1>1, FilesAre
    <3>2. work.version \in Nat
      BY <3>1
    <3>3. p \in Nat /\ pc \in JobSteps
      BY <2>1 DEF EvolverAssumption, JobSteps
    <3>4. QED
      BY <3>2, <3>3
  <2> HIDE DEF p, pc
  <2>3. /\ j.prec = p /\ j.attempt = job[c].attempt /\ j.pc = pc /\ j.base = job[c].base
        /\ j.version = work.version
    BY <1>1 DEF JobRecords
  <2> DEFINE n == work.version
  <2> HIDE DEF n
  <2>4. j \in JobRecords
    <3>1. n \in Nat
      BY <2>2 DEF n
    <3>2. [job[c] EXCEPT !.pc = pc, !.prec = p, !.version = n] \in JobRecords
      BY <1>1, <2>2, <3>1 DEF JobRecords
    <3>3. QED
      BY <3>2 DEF n
  <2>5. JobOK(j)
    BY <1>1, <2>1, <2>2, <2>3 DEF JobOK, EvolverAssumption
  <2>6. job' = [job EXCEPT ![c] = j]
    BY <1>3 DEF Start, p, pc
  <2>7. JobsOK'
    BY <2>4, <2>5, <2>6, JobUpdate DEF EvolverInv
  <2>8. QED
    BY <1>4, <2>7, CycleKeeps
<1>5. QED
  BY <1>2, <1>3

LEMMA CaptureStep ==
  ASSUME EvolverAssumption, EvolverInv, NEW c \in Cycles, Capture(c)
  PROVE  EvolverInv'
<1>1. work \in ProtectedFiles /\ job[c] \in JobRecords /\ JobOK(job[c]) /\ JobsOK
  BY DEF EvolverInv, WorkOK, JobsOK
<1>2. CycleFrame /\ BuildOK'
  BY DEF Capture, CycleFrame, EvolverInv, BuildOK
<1>3. CASE CorpusLocked
  <2> DEFINE j == [job[c] EXCEPT !.pc = "attempt", !.base = work]
  <2>1. j.pc = "attempt" /\ j.prec = job[c].prec /\ j.attempt = job[c].attempt
    BY <1>1 DEF JobRecords
  <2>2. j \in JobRecords
    BY <1>1 DEF JobRecords, JobSteps
  <2>3. JobOK(j)
    BY <1>1, <2>1 DEF JobOK
  <2>4. job' = [job EXCEPT ![c] = j]
    BY <1>3 DEF Capture
  <2>5. QED
    BY <1>1, <1>2, <2>2, <2>3, <2>4, JobUpdate, CycleKeeps
<1>4. CASE ~CorpusLocked
  <2>1. Goto(c, "input_error") /\ "input_error" \in JobSteps
    BY <1>4 DEF Capture, JobSteps
  <2>2. QED
    BY <1>1, <1>2, <2>1, GotoKeeps, CycleKeeps
<1>5. QED
  BY <1>3, <1>4

\* The other steps of a cycle: on to the next step, or to the next attempt.
LEMMA MovesOn ==
  ASSUME EvolverAssumption, EvolverInv, CycleFrame, BuildOK', NEW c \in Cycles,
         NextAttempt(c) \/ \E pc \in JobSteps : Goto(c, pc)
  PROVE  EvolverInv'
<1>1. JobsOK
  BY DEF EvolverInv
<1>2. JobsOK'
  BY <1>1, GotoKeeps, NextAttemptKeeps
<1>3. QED
  BY <1>2, CycleKeeps

LEMMA CycleStepKeeps ==
  ASSUME EvolverAssumption, EvolverInv, NEW c \in Cycles, CycleStep(c) \/ Crash(c)
  PROVE  EvolverInv'
<1>1. CASE Capture(c)
  BY <1>1, CaptureStep
<1> USE DEF EvolverInv, BuildOK, CycleFrame, JobSteps
<1>2. CASE Attempt(c)
  <2>1. CycleFrame /\ BuildOK' /\ (NextAttempt(c) \/ Goto(c, "apply"))
    BY <1>2 DEF Attempt
  <2>2. QED
    BY <2>1, MovesOn
<1>3. CASE Apply(c)
  <2>1. CycleFrame /\ BuildOK' /\ (NextAttempt(c) \/ Goto(c, "diff"))
    BY <1>3 DEF Apply
  <2>2. QED
    BY <2>1, MovesOn
<1>4. CASE Diff(c)
  <2>1. CycleFrame /\ BuildOK' /\ (NextAttempt(c) \/ Goto(c, "evaluate"))
    BY <1>4 DEF Diff
  <2>2. QED
    BY <2>1, MovesOn
<1>5. CASE Evaluate(c)
  <2>1. CycleFrame /\ BuildOK' /\ (NextAttempt(c) \/ Goto(c, "texts"))
    BY <1>5 DEF Evaluate
  <2>2. QED
    BY <2>1, MovesOn
<1>6. CASE WriteTexts(c)
  <2>1. CycleFrame /\ BuildOK' /\ (NextAttempt(c) \/ Goto(c, "drift"))
    BY <1>6 DEF WriteTexts
  <2>2. QED
    BY <2>1, MovesOn
<1>7. CASE CheckDrift(c)
  <2>1. CycleFrame /\ BuildOK' /\ (NextAttempt(c) \/ Goto(c, "manifest"))
    BY <1>7 DEF CheckDrift
  <2>2. QED
    BY <2>1, MovesOn
<1>8. CASE WriteManifest(c)
  <2>1. CycleFrame /\ BuildOK' /\ (NextAttempt(c) \/ Goto(c, "ready"))
    BY <1>8 DEF WriteManifest
  <2>2. QED
    BY <2>1, MovesOn
<1>9. CASE Crash(c)
  <2>1. CycleFrame /\ BuildOK' /\ Goto(c, "dead")
    BY <1>9 DEF Crash
  <2>2. QED
    BY <2>1, MovesOn
<1>10. QED
  BY <1>1, <1>2, <1>3, <1>4, <1>5, <1>6, <1>7, <1>8, <1>9 DEF CycleStep

-----------------------------------------------------------------------------
(* The architect.                                                          *)

LEMMA AppendCommit ==
  ASSUME EvolverAssumption, HistoryOK(commits), Len(commits) < MaxCommits,
         NEW k \in CommitRecords, k.parent \in 1..Len(commits), k.files.version <= Len(commits) + 1,
         commits' = Append(commits, k)
  PROVE  /\ HistoryOK(commits') /\ Grows
         /\ Len(commits') = Len(commits) + 1 /\ commits'[Len(commits) + 1] = k
<1>1. commits \in Seq(CommitRecords) /\ Len(commits) \in 1..MaxCommits /\ MaxCommits \in Nat
  BY DEF HistoryOK, EvolverAssumption
<1>2. /\ commits' \in Seq(CommitRecords) /\ Len(commits') = Len(commits) + 1
      /\ commits'[Len(commits) + 1] = k
      /\ \A i \in 1..Len(commits) : commits'[i] = commits[i]
  BY <1>1
<1>3. \A i \in 1..Len(commits) : commits[i].parent < i /\ commits[i].files.version <= i
  BY DEF HistoryOK
<1>4. \A i \in 1..Len(commits') : commits'[i].parent < i /\ commits'[i].files.version <= i
  <2> SUFFICES ASSUME NEW i \in 1..Len(commits') PROVE commits'[i].parent < i /\ commits'[i].files.version <= i
    OBVIOUS
  <2>1. CASE i \in 1..Len(commits)
    BY <1>2, <1>3, <2>1
  <2>2. CASE i = Len(commits) + 1
    <3>1. commits'[i] = k
      BY <1>2, <2>2
    <3>2. k.parent < i
      BY <1>1, <2>2
    <3>3. QED
      BY <2>2, <3>1, <3>2
  <2>3. QED
    BY <1>1, <1>2, <2>1, <2>2
<1>5. Len(commits') \in 1..MaxCommits /\ Len(commits) <= Len(commits')
  BY <1>1, <1>2
<1>6. QED
  BY <1>2, <1>4, <1>5 DEF HistoryOK, Grows

LEMMA EditWorkStep ==
  ASSUME EvolverAssumption, EvolverInv, EditWork
  PROVE  EvolverInv'
<1>1. work \in ProtectedFiles /\ UNCHANGED <<commits, head, refs, build, job, pub>>
  BY DEF EvolverInv, WorkOK, EditWork
<1>2. work' \in ProtectedFiles /\ work'.version = work.version
  <2>1. ASSUME NEW m \in Mutations, work' = [work EXCEPT !.rules = @ \cup {m}]
        PROVE  work' \in ProtectedFiles /\ work'.version = work.version
    BY <1>1, <2>1 DEF ProtectedFiles
  <2>2. ASSUME NEW k \in Corpora, work' = [work EXCEPT !.corpus = k]
        PROVE  work' \in ProtectedFiles /\ work'.version = work.version
    BY <1>1, <2>2 DEF ProtectedFiles
  <2>3. ASSUME work' = [work EXCEPT !.lock = work.corpus]
        PROVE  work' \in ProtectedFiles /\ work'.version = work.version
    BY <1>1, <2>3 DEF ProtectedFiles
  <2>4. QED
    BY <2>1, <2>2, <2>3 DEF EditWork
<1>3. WorkOK'
  BY <1>1, <1>2 DEF EvolverInv, WorkOK
<1>4. HistoryOK(commits)' /\ RefsOK' /\ BuildOK' /\ JobsOK' /\ PubsOK'
  BY <1>1 DEF EvolverInv, RefsOK, BuildOK, JobsOK, PubsOK
<1>5. QED
  BY <1>3, <1>4 DEF EvolverInv

LEMMA CommitWorkStep ==
  ASSUME EvolverAssumption, EvolverInv, CommitWork
  PROVE  EvolverInv' /\ Grows
<1> DEFINE k == [parent |-> head, files |-> work]
<1>1. /\ work \in ProtectedFiles /\ work.version <= Len(commits) /\ head \in 1..Len(commits)
      /\ HistoryOK(commits) /\ Len(commits) < MaxCommits /\ commits' = Append(commits, k)
      /\ head' = Len(commits) + 1 /\ UNCHANGED <<work, refs, build, job, pub>>
  BY DEF EvolverInv, WorkOK, CommitWork
<1>2. Len(commits) \in Nat /\ work.version \in Nat
  <2>1. work.version \in 1..(MaxCommits + 1)
    BY <1>1, FilesAre
  <2>2. QED
    BY <1>1, <2>1 DEF HistoryOK
<1>3. k \in CommitRecords /\ k.parent \in 1..Len(commits) /\ k.files.version <= Len(commits) + 1
  BY <1>1, <1>2 DEF CommitRecords
<1> HIDE DEF k
<1>4. HistoryOK(commits') /\ Grows /\ Len(commits') = Len(commits) + 1
  BY <1>1, <1>3, AppendCommit
<1>5. WorkOK'
  BY <1>1, <1>2, <1>4 DEF WorkOK
<1>6. RefsOK' /\ PubsOK'
  BY <1>1, <1>4, OthersStay
<1>7. BuildOK' /\ JobsOK'
  BY <1>1 DEF EvolverInv, BuildOK, JobsOK
<1>8. QED
  BY <1>4, <1>5, <1>6, <1>7 DEF EvolverInv

LEMMA MergeStep ==
  ASSUME EvolverAssumption, EvolverInv, NEW c \in Cycles, MergeBranch(c)
  PROVE  EvolverInv'
<1>1. /\ refs[c] \in 1..Len(commits) /\ HistoryOK(commits) /\ head' = refs[c]
      /\ work' = commits[refs[c]].files /\ UNCHANGED <<commits, refs, build, job, pub>>
  BY DEF EvolverInv, RefsOK, BranchOK, MergeBranch
<1>2. work' \in ProtectedFiles /\ work'.version <= refs[c]
  <2> DEFINE k == commits[refs[c]]
  <2>1. k \in CommitRecords /\ k.files.version <= refs[c]
    BY <1>1 DEF HistoryOK
  <2> HIDE DEF k
  <2>2. k.files \in ProtectedFiles
    BY <2>1 DEF CommitRecords
  <2>3. work' = k.files
    BY <1>1 DEF k
  <2>4. QED
    BY <2>1, <2>2, <2>3
<1>3. work'.version \in Nat
  <2>1. work'.version \in 1..(MaxCommits + 1)
    BY <1>2, FilesAre
  <2>2. QED
    BY <2>1
<1>4. WorkOK'
  <2>1. Len(commits) \in Nat
    BY <1>1 DEF HistoryOK
  <2>2. work'.version <= Len(commits)
    BY <1>1, <1>2, <1>3, <2>1
  <2>3. QED
    BY <1>1, <1>2, <2>2 DEF WorkOK
<1>5. HistoryOK(commits)' /\ RefsOK' /\ BuildOK' /\ JobsOK' /\ PubsOK'
  BY <1>1 DEF EvolverInv, RefsOK, BuildOK, JobsOK, PubsOK
<1>6. QED
  BY <1>4, <1>5 DEF EvolverInv

-----------------------------------------------------------------------------
(* The publishers.                                                         *)

LEMMA PubUpdate ==
  ASSUME EvolverInv, UNCHANGED <<work, commits, head, refs, build, job>>,
         NEW v \in Publishers, NEW p, pub' = [pub EXCEPT ![v] = p], PubOK(p, commits, refs)
  PROVE  EvolverInv'
<1>1. PubsOK'
  BY DEF EvolverInv, PubsOK
<1>2. HistoryOK(commits)' /\ WorkOK' /\ RefsOK' /\ BuildOK' /\ JobsOK'
  BY DEF EvolverInv, WorkOK, RefsOK, BuildOK, JobsOK
<1>3. QED
  BY <1>1, <1>2 DEF EvolverInv

\* A publisher of which only the step changes.
LEMMA PubMoved ==
  ASSUME NEW p, PubOK(p, commits, refs), p.pc # "idle", NEW pc,
         pc \in AfterValidate => p.pc \in AfterValidate,
         pc \in AfterBegin => p.pc \in AfterBegin,
         pc \in AfterCommit => p.pc \in AfterCommit,
         pc = "published" => refs[p.manifest.cycle] = p.commit
  PROVE  PubOK([p EXCEPT !.pc = pc], commits, refs)
<1> DEFINE q == [p EXCEPT !.pc = pc]
<1>1. /\ DOMAIN q = PubFields /\ q.pc = pc /\ q.manifest = p.manifest /\ q.src = p.src /\ q.mut = p.mut
      /\ q.base = p.base /\ q.existing = p.existing /\ q.commit = p.commit
  BY DEF PubOK, PubFields
<1> HIDE DEF q
<1>2. Delta(q) = Delta(p)
  BY <1>1 DEF Delta
<1>3. ValidatedOK(p) => ValidatedOK(q)
  BY <1>1, <1>2 DEF ValidatedOK
<1>4. BoundOK(p, commits) => BoundOK(q, commits)
  BY <1>1 DEF BoundOK
<1>5. CommittedOK(p, commits) => CommittedOK(q, commits)
  BY <1>1, <1>2 DEF CommittedOK
<1>6. PubOK(q, commits, refs)
  BY <1>1, <1>3, <1>4, <1>5 DEF PubOK
<1>7. QED
  BY <1>6 DEF q

LEMMA PubOf ==
  ASSUME EvolverInv, NEW v \in Publishers
  PROVE  PubOK(pub[v], commits, refs) /\ DOMAIN pub = Publishers /\ v \in DOMAIN pub
BY DEF EvolverInv, PubsOK

LEMMA PubGoes ==
  ASSUME NEW v, NEW pc, PubGoto(v, pc)
  PROVE  pub' = [pub EXCEPT ![v] = [pub[v] EXCEPT !.pc = pc]]
BY DEF PubGoto

LEMMA PubMoves ==
  ASSUME EvolverInv, UNCHANGED <<work, commits, head, refs, build, job>>,
         NEW v \in Publishers, pub[v].pc # "idle", NEW pc, PubGoto(v, pc),
         pc \in AfterValidate => pub[v].pc \in AfterValidate,
         pc \in AfterBegin => pub[v].pc \in AfterBegin,
         pc \in AfterCommit => pub[v].pc \in AfterCommit,
         pc = "published" => refs[pub[v].manifest.cycle] = pub[v].commit
  PROVE  EvolverInv'
<1>1. PubOK(pub[v], commits, refs)
  BY PubOf
<1>2. PubOK([pub[v] EXCEPT !.pc = pc], commits, refs)
  BY <1>1, PubMoved
<1>3. QED
  BY <1>2, PubGoes, PubUpdate

LEMMA ReadStep ==
  ASSUME EvolverInv, NEW v \in Publishers, ReadManifest(v) \/ ReadBundle(v)
  PROVE  EvolverInv'
<1>1. CASE ReadManifest(v)
  <2> DEFINE m == build.manifest
             p == [pub[v] EXCEPT !.pc = "bundle", !.manifest = m]
  <2>1. m.cycle \in Cycles
    BY <1>1 DEF ReadManifest, EvolverInv, BuildOK
  <2>2. DOMAIN pub[v] = PubFields
    BY PubOf DEF PubOK
  <2>3. DOMAIN p = PubFields /\ p.pc = "bundle" /\ p.manifest = m
    BY <2>2 DEF PubFields
  <2>4. pub' = [pub EXCEPT ![v] = p] /\ UNCHANGED <<work, commits, head, refs, build, job>>
    BY <1>1 DEF ReadManifest
  <2> HIDE DEF p
  <2>5. PubOK(p, commits, refs)
    BY <2>1, <2>3 DEF PubOK, AfterValidate, AfterBegin, AfterCommit
  <2>6. QED
    BY <2>4, <2>5, PubUpdate
<1>2. CASE ReadBundle(v)
  <2>1. /\ PubGoto(v, "tree") \/ PubGoto(v, "refused")
        /\ pub[v].pc # "idle" /\ UNCHANGED <<work, commits, head, refs, build, job>>
    BY <1>2 DEF ReadBundle, PubAt
  <2>2. \A pc \in {"tree", "refused"} : pc \notin AfterValidate /\ pc \notin AfterBegin /\ pc \notin AfterCommit /\ pc # "published"
    BY DEF AfterValidate, AfterBegin, AfterCommit
  <2>3. QED
    BY <2>1, <2>2, PubMoves
<1>3. QED
  BY <1>1, <1>2

\* A publisher that gives up.
LEMMA GivesUp ==
  ASSUME EvolverInv, UNCHANGED <<work, commits, head, refs, build, job>>,
         NEW v \in Publishers, pub[v].pc # "idle", PubGoto(v, "refused") \/ PubGoto(v, "error")
  PROVE  EvolverInv'
<1>1. \A pc \in {"error", "refused"} : pc \notin AfterValidate /\ pc \notin AfterBegin /\ pc \notin AfterCommit /\ pc # "published"
  BY DEF AfterValidate, AfterBegin, AfterCommit
<1>2. QED
  BY <1>1, PubMoves

LEMMA OneIsSome ==
  ASSUME NEW S, Cardinality(S) = 1
  PROVE  S # {}
<1>1. Cardinality({}) = 0
  BY FS_EmptySet, Zenon
<1>2. QED
  BY <1>1

LEMMA ValidateCandidateStep ==
  ASSUME EvolverAssumption, EvolverInv, NEW v \in Publishers, ValidateCandidate(v)
  PROVE  EvolverInv'
<1> DEFINE m == pub[v].manifest
           proposed == Proposed[m.prec]
           matches == Reproducing(m, work)
           x == proposed[CHOOSE i \in matches : TRUE]
           p == [pub[v] EXCEPT !.pc = "resolve", !.src = work, !.mut = x]
<1>1. pub[v].pc = "tree" /\ UNCHANGED <<work, commits, head, refs, build, job>>
  BY DEF ValidateCandidate, PubAt
<1>2. CASE PubGoto(v, "refused")
  BY <1>1, <1>2, GivesUp
<1>3. CASE /\ work.rules = m.base /\ work.version = m.from
           /\ m.prec \in work.pending \cap ApprovedPrecedents /\ CorpusLocked
           /\ Raising(m, work) = {}
           /\ Cardinality(matches) = 1
           /\ \A i \in matches : Replay(m, work, proposed[i])
           /\ pub' = [pub EXCEPT ![v].pc = "resolve", ![v].src = work, ![v].mut = x]
  <2>1. PICK i \in matches : x = proposed[i]
    <3>1. matches # {}
      <4>1. Cardinality(matches) = 1
        BY <1>3
      <4> HIDE DEF matches
      <4>2. QED
        BY <4>1, OneIsSome
    <3>2. (CHOOSE i \in matches : TRUE) \in matches
      BY <3>1
    <3>3. QED
      BY <3>2
  <2>2. /\ x \in Range(proposed) /\ ValidMutation(work.rules, x) /\ Applies(work.rules, x)
        /\ GatePasses(work.corpus, work.rules, work.rules \cup {x})
    <3>1. Replay(m, work, x)
      <4>1. Replay(m, work, proposed[i])
        BY <1>3
      <4>2. QED
        BY <2>1, <4>1
    <3>2. i \in Retried(m, work) /\ i \notin Raising(m, work)
      BY <1>3 DEF Reproducing
    <3> HIDE DEF m, x, matches
    <3>3. i \in DOMAIN proposed /\ ValidMutation(work.rules, x) /\ Applies(work.rules, x)
      BY <2>1, <3>2 DEF Retried, Raising
    <3>4. x \in Range(proposed)
      BY <2>1, <3>3 DEF Range
    <3>5. QED
      BY <3>1, <3>3, <3>4 DEF Replay
  <2>3. DOMAIN pub[v] = PubFields /\ m.cycle \in Cycles
    BY <1>1, PubOf DEF PubOK
  <2> HIDE DEF x, matches
  <2>4. DOMAIN p = PubFields /\ p.pc = "resolve" /\ p.manifest = m /\ p.src = work /\ p.mut = x
    BY <2>3 DEF PubFields
  <2>5. pub' = [pub EXCEPT ![v] = p]
    BY <1>3
  <2> HIDE DEF p, m
  <2>6. work \in ProtectedFiles /\ work.lock = work.corpus
    BY <1>3 DEF EvolverInv, WorkOK, CorpusLocked
  <2>7. Delta(p) = [work EXCEPT !.rules = @ \cup {x}, !.version = @ + 1, !.pending = @ \ {m.prec}]
    BY <1>3, <2>4 DEF Delta
  <2>8. ValidatedOK(p)
    BY <1>3, <2>2, <2>4, <2>6, <2>7 DEF ValidatedOK, GatedBy
  <2>9. PubOK(p, commits, refs)
    BY <2>3, <2>4, <2>8 DEF PubOK, AfterBegin, AfterCommit
  <2>10. QED
    BY <1>1, <2>5, <2>9, PubUpdate
<1>4. QED
  BY <1>1, <1>2, <1>3 DEF ValidateCandidate

LEMMA ResolveStep ==
  ASSUME EvolverInv, NEW v \in Publishers, Resolve(v)
  PROVE  EvolverInv'
<1> DEFINE p == [pub[v] EXCEPT !.pc = "begin", !.base = head]
<1>1. /\ PubOK(pub[v], commits, refs) /\ pub[v].pc = "resolve" /\ pub' = [pub EXCEPT ![v] = p]
      /\ UNCHANGED <<work, commits, head, refs, build, job>>
  BY PubOf DEF Resolve, PubAt
<1>2. /\ DOMAIN p = PubFields /\ p.pc = "begin" /\ p.manifest = pub[v].manifest /\ p.src = pub[v].src
      /\ p.mut = pub[v].mut
  BY <1>1 DEF PubOK, PubFields
<1> HIDE DEF p
<1>3. ValidatedOK(pub[v]) /\ pub[v].manifest.cycle \in Cycles
  BY <1>1 DEF PubOK, AfterValidate
<1>4. ValidatedOK(p)
  BY <1>2, <1>3 DEF ValidatedOK, Delta
<1>5. PubOK(p, commits, refs)
  BY <1>2, <1>3, <1>4 DEF PubOK, AfterBegin, AfterCommit
<1>6. QED
  BY <1>1, <1>5, PubUpdate

LEMMA BeginStep ==
  ASSUME EvolverInv, NEW v \in Publishers, Begin(v)
  PROVE  EvolverInv'
<1> DEFINE e == refs[pub[v].manifest.cycle]
           p == [pub[v] EXCEPT !.pc = "commit", !.status = Status, !.existing = e]
<1>1. /\ PubOK(pub[v], commits, refs) /\ pub[v].pc = "begin"
      /\ UNCHANGED <<work, commits, head, refs, build, job>>
  BY PubOf DEF Begin, PubAt
<1>2. ValidatedOK(pub[v]) /\ pub[v].manifest.cycle \in Cycles /\ DOMAIN pub[v] = PubFields
  BY <1>1 DEF PubOK, AfterValidate
<1>3. CASE PubGoto(v, "error")
  BY <1>1, <1>3, GivesUp
<1>4. CASE head = pub[v].base /\ commits[head].files = pub[v].src /\ pub' = [pub EXCEPT ![v] = p]
  <2>1. e # None => e \in 1..Len(commits)
    BY <1>2 DEF EvolverInv, RefsOK, BranchOK
  <2>2. head \in 1..Len(commits)
    BY DEF EvolverInv, WorkOK
  <2> HIDE DEF e
  <2>3. /\ DOMAIN p = PubFields /\ p.pc = "commit" /\ p.manifest = pub[v].manifest /\ p.src = pub[v].src
        /\ p.mut = pub[v].mut /\ p.base = pub[v].base /\ p.existing = e
    BY <1>2 DEF PubFields
  <2> HIDE DEF p
  <2>4. ValidatedOK(p)
    BY <1>2, <2>3 DEF ValidatedOK, Delta
  <2>5. BoundOK(p, commits)
    BY <1>4, <2>1, <2>2, <2>3 DEF BoundOK
  <2>6. PubOK(p, commits, refs)
    BY <1>2, <2>3, <2>4, <2>5 DEF PubOK, AfterCommit
  <2>7. QED
    BY <1>1, <1>4, <2>6, PubUpdate
<1>5. QED
  BY <1>1, <1>3, <1>4 DEF Begin

\* What the transaction writes is the candidate of the files that were validated.
LEMMA CandidateIs ==
  ASSUME EvolverAssumption, HistoryOK(commits),
         NEW v \in Publishers, ValidatedOK(pub[v]), BoundOK(pub[v], commits)
  PROVE  /\ Candidate(v) = Delta(pub[v]) /\ Candidate(v) \in ProtectedFiles
         /\ Candidate(v).version <= Len(commits) + 1
         /\ pub[v].base \in 1..Len(commits)
<1> DEFINE p == pub[v]
           s == p.src
           r == s.rules \cup {p.mut}
           n == s.version + 1
           q == s.pending \ {p.manifest.prec}
<1>1. /\ s \in ProtectedFiles /\ s.version = p.manifest.from /\ p.manifest.prec \in s.pending
      /\ p.mut \in Range(Proposed[p.manifest.prec]) /\ p.base \in 1..Len(commits)
      /\ commits[p.base].files = s
  BY DEF ValidatedOK, BoundOK
<1> HIDE DEF p
<1>2. Candidate(v) = [s EXCEPT !.rules = r, !.version = n, !.pending = q]
  BY <1>1 DEF Candidate, p
<1>3. Delta(p) = [s EXCEPT !.rules = r, !.version = n, !.pending = q]
  BY <1>1 DEF Delta
<1> HIDE DEF s
<1>4. r \subseteq Mutations
  <2>1. p.manifest.prec \in Precedents /\ s.rules \subseteq Mutations
    BY <1>1, FilesAre
  <2>2. Proposed[p.manifest.prec] \in Seq(Mutations)
    BY <2>1 DEF EvolverAssumption
  <2>3. p.mut \in Mutations
    BY <1>1, <2>2 DEF Range
  <2>4. QED
    BY <2>1, <2>3
<1>5. n \in 1..(MaxCommits + 1) /\ n <= Len(commits) + 1
  <2>1. s.version \in 1..(MaxCommits + 1) /\ s.version <= p.base /\ Len(commits) \in 1..MaxCommits
    BY <1>1, FilesAre DEF HistoryOK
  <2>2. MaxCommits \in Nat
    BY DEF EvolverAssumption
  <2>3. QED
    BY <1>1, <2>1, <2>2
<1>6. q \subseteq Precedents
  BY <1>1, FilesAre
<1> HIDE DEF r, n, q
<1>7. [s EXCEPT !.rules = r, !.version = n, !.pending = q] \in ProtectedFiles
  BY <1>1, <1>4, <1>5, <1>6 DEF ProtectedFiles
<1>8. [s EXCEPT !.rules = r, !.version = n, !.pending = q].version = n
  BY <1>1 DEF ProtectedFiles
<1>9. QED
  BY <1>1, <1>2, <1>3, <1>5, <1>7, <1>8 DEF p

LEMMA CommitStep ==
  ASSUME EvolverAssumption, EvolverInv, NEW v \in Publishers, Commit(v)
  PROVE  EvolverInv' /\ Grows
<1> DEFINE k == [parent |-> pub[v].base, files |-> Candidate(v)]
           p(i) == [pub[v] EXCEPT !.pc = "recheck", !.commit = i]
<1>1. /\ PubOK(pub[v], commits, refs) /\ pub[v].pc = "commit" /\ UNCHANGED <<work, head, refs, build, job>>
      /\ HistoryOK(commits)
  BY PubOf DEF Commit, PubAt, EvolverInv
<1>2. /\ ValidatedOK(pub[v]) /\ BoundOK(pub[v], commits)
      /\ pub[v].manifest.cycle \in Cycles /\ DOMAIN pub[v] = PubFields
  BY <1>1 DEF PubOK, AfterValidate, AfterBegin
<1>3. /\ Candidate(v) = Delta(pub[v]) /\ Candidate(v) \in ProtectedFiles
      /\ Candidate(v).version <= Len(commits) + 1 /\ pub[v].base \in 1..Len(commits)
  BY <1>1, <1>2, CandidateIs
<1>4. k.parent = pub[v].base /\ k.files = Candidate(v)
  OBVIOUS
<1>5. ASSUME NEW i, NEW cs, HistoryOK(cs), i \in 1..Len(cs), cs[i].parent = pub[v].base,
             cs[i].files = Candidate(v), BoundOK(pub[v], cs)
      PROVE  PubOK(p(i), cs, refs)
  <2> DEFINE q == p(i)
  <2>1. /\ DOMAIN q = PubFields /\ q.pc = "recheck" /\ q.manifest = pub[v].manifest /\ q.src = pub[v].src
        /\ q.mut = pub[v].mut /\ q.base = pub[v].base /\ q.existing = pub[v].existing /\ q.commit = i
    BY <1>2 DEF PubFields
  <2> HIDE DEF q
  <2>2. Delta(q) = Delta(pub[v])
    BY <2>1 DEF Delta
  <2>3. ValidatedOK(q)
    BY <1>2, <2>1, <2>2 DEF ValidatedOK
  <2>4. BoundOK(q, cs)
    BY <1>5, <2>1 DEF BoundOK
  <2>5. CommittedOK(q, cs)
    BY <1>3, <1>5, <2>1, <2>2 DEF CommittedOK
  <2>6. PubOK(q, cs, refs)
    BY <1>2, <2>1, <2>3, <2>4, <2>5 DEF PubOK
  <2>7. QED
    BY <2>6 DEF q
<1>6. CASE PubGoto(v, "error") /\ UNCHANGED commits
  BY <1>1, <1>6, GivesUp DEF Grows
<1>7. CASE /\ pub[v].existing # None /\ commits[pub[v].existing] = k
           /\ pub' = [pub EXCEPT ![v] = p(pub[v].existing)] /\ UNCHANGED commits
  <2> DEFINE i == pub[v].existing
  <2>1. i \in 1..Len(commits) /\ commits[i].parent = pub[v].base /\ commits[i].files = Candidate(v)
    BY <1>2, <1>4, <1>7 DEF BoundOK
  <2>2. pub' = [pub EXCEPT ![v] = p(i)]
    BY <1>7
  <2> HIDE DEF p, k, i
  <2>3. PubOK(p(i), commits, refs)
    BY <1>1, <1>2, <1>5, <2>1
  <2>4. EvolverInv'
    BY <1>1, <1>7, <2>2, <2>3, PubUpdate
  <2>5. QED
    BY <1>7, <2>4 DEF Grows
<1>8. CASE /\ Len(commits) < MaxCommits /\ commits' = Append(commits, k)
           /\ pub' = [pub EXCEPT ![v] = p(Len(commits) + 1)]
  <2> DEFINE i == Len(commits) + 1
  <2>1. k \in CommitRecords
    <3>1. pub[v].base \in Nat
      BY <1>1, <1>3 DEF HistoryOK
    <3>2. QED
      BY <1>3, <3>1 DEF CommitRecords
  <2> HIDE DEF k
  <2>2. HistoryOK(commits') /\ Grows /\ Len(commits') = Len(commits) + 1 /\ commits'[i] = k
    BY <1>1, <1>3, <1>4, <1>8, <2>1, AppendCommit
  <2>3. i \in 1..Len(commits') /\ Len(commits) <= Len(commits')
    BY <1>1, <2>2 DEF HistoryOK
  <2>4. BoundOK(pub[v], commits')
    BY <1>1, <1>2, <2>2 DEF BoundOK, Grows, HistoryOK
  <2> HIDE DEF i, p
  <2>5. PubOK(p(i), commits', refs)
    BY <1>4, <1>5, <2>2, <2>3, <2>4
  <2>6. BranchesStand /\ refs' = refs
    BY <1>1 DEF BranchesStand
  <2>7. PubsOK'
    <3>1. DOMAIN pub' = Publishers /\ pub'[v] = p(i) /\ \A u \in Publishers \ {v} : pub'[u] = pub[u]
      BY <1>8 DEF EvolverInv, PubsOK, i
    <3>2. ASSUME NEW u \in Publishers PROVE PubOK(pub'[u], commits', refs')
      <4>1. CASE u = v
        BY <2>5, <2>6, <3>1, <4>1
      <4>2. CASE u # v
        <5>1. PubOK(pub[u], commits, refs) /\ pub'[u] = pub[u]
          BY <3>1, <4>2, PubOf
        <5>2. QED
          BY <1>1, <2>2, <2>6, <5>1, PubStays
      <4>3. QED
        BY <4>1, <4>2
    <3>3. QED
      BY <3>1, <3>2 DEF PubsOK
  <2>8. RefsOK'
    BY <1>1, <2>2, <2>6, BranchStays DEF EvolverInv, RefsOK
  <2>9. WorkOK'
    <3>1. WorkOK /\ work.version \in Nat
      <4>1. WorkOK /\ work.version \in 1..(MaxCommits + 1)
        BY FilesAre DEF EvolverInv, WorkOK
      <4>2. QED
        BY <4>1
    <3>2. QED
      BY <1>1, <2>2, <3>1 DEF WorkOK, HistoryOK
  <2>10. BuildOK' /\ JobsOK'
    BY <1>1 DEF EvolverInv, BuildOK, JobsOK
  <2>11. QED
    BY <2>2, <2>7, <2>8, <2>9, <2>10 DEF EvolverInv
<1>9. QED
  BY <1>6, <1>7, <1>8 DEF Commit

LEMMA RecheckStep ==
  ASSUME EvolverInv, NEW v \in Publishers, Recheck(v) \/ Verify(v)
  PROVE  EvolverInv'
<1>1. CASE Recheck(v)
  <2>1. /\ pub[v].pc = "recheck" /\ UNCHANGED <<work, commits, head, refs, build, job>>
        /\ PubGoto(v, "error") \/ PubGoto(v, "ref") \/ PubGoto(v, "verify")
    BY <1>1 DEF Recheck, PubAt
  <2>2. "recheck" \in AfterValidate /\ "recheck" \in AfterBegin /\ "recheck" \in AfterCommit
    BY DEF AfterValidate, AfterBegin, AfterCommit
  <2>3. CASE PubGoto(v, "error")
    BY <2>1, <2>3, GivesUp
  <2>4. CASE PubGoto(v, "ref") \/ PubGoto(v, "verify")
    BY <2>1, <2>2, <2>4, PubMoves
  <2>5. QED
    BY <2>1, <2>3, <2>4
<1>2. CASE Verify(v)
  <2>1. /\ pub[v].pc = "verify" /\ UNCHANGED <<work, commits, head, refs, build, job>>
        /\ \/ PubGoto(v, "error")
           \/ PubGoto(v, "published") /\ refs[pub[v].manifest.cycle] = pub[v].commit
    BY <1>2 DEF Verify, PubAt
  <2>2. "verify" \in AfterValidate /\ "verify" \in AfterBegin /\ "verify" \in AfterCommit
    BY DEF AfterValidate, AfterBegin, AfterCommit
  <2>3. CASE PubGoto(v, "error")
    BY <2>1, <2>3, GivesUp
  <2>4. CASE PubGoto(v, "published") /\ refs[pub[v].manifest.cycle] = pub[v].commit
    BY <2>1, <2>2, <2>4, PubMoves
  <2>5. QED
    BY <2>1, <2>3, <2>4
<1>3. QED
  BY <1>1, <1>2

LEMMA UpdateRefStep ==
  ASSUME EvolverAssumption, EvolverInv, NEW v \in Publishers, UpdateRef(v)
  PROVE  EvolverInv' /\ BranchesStand
<1> DEFINE c == pub[v].manifest.cycle
           k == commits[pub[v].commit]
           p == [pub[v] EXCEPT !.pc = "verify"]
<1>1. /\ PubOK(pub[v], commits, refs) /\ pub[v].pc = "ref" /\ UNCHANGED <<work, commits, head, build, job>>
      /\ HistoryOK(commits) /\ RefsOK
  BY PubOf DEF UpdateRef, PubAt, EvolverInv
<1>2. /\ ValidatedOK(pub[v]) /\ BoundOK(pub[v], commits) /\ CommittedOK(pub[v], commits) /\ c \in Cycles
  BY <1>1 DEF PubOK, AfterValidate, AfterBegin, AfterCommit
<1>3. CASE PubGoto(v, "error") /\ UNCHANGED refs
  BY <1>1, <1>3, GivesUp DEF BranchesStand
<1>4. CASE refs[c] = None /\ refs' = [refs EXCEPT ![c] = pub[v].commit] /\ PubGoto(v, "verify")
  <2>1. BranchOK(pub[v].commit, commits)
    <3>1. /\ pub[v].commit \in 1..Len(commits) /\ k.parent = pub[v].base /\ k.files = Delta(pub[v])
          /\ pub[v].base \in 1..Len(commits) /\ commits[pub[v].base].files = pub[v].src
      BY <1>2 DEF CommittedOK, BoundOK
    <3>2. GatedOn(Delta(pub[v]), pub[v].src)
      BY <1>2 DEF ValidatedOK, GatedOn
    <3>3. QED
      BY <3>1, <3>2 DEF BranchOK
  <2>2. pub[v].commit \in Nat
    BY <1>1, <1>2 DEF CommittedOK, HistoryOK
  <2> HIDE DEF c
  <2>3. refs' \in [Cycles -> Nat \cup {None}] /\ refs'[c] = pub[v].commit
        /\ \A d \in Cycles \ {c} : refs'[d] = refs[d]
    BY <1>1, <1>2, <1>4, <2>2 DEF RefsOK
  <2>4. BranchesStand
    BY <1>4, <2>3 DEF BranchesStand
  <2>5. RefsOK'
    <3>1. \A d \in Cycles : BranchOK(refs'[d], commits)
      BY <1>1, <2>1, <2>3 DEF RefsOK
    <3>2. QED
      BY <1>1, <2>3, <3>1 DEF RefsOK
  <2>6. PubsOK'
    <3>1. Grows /\ HistoryOK(commits')
      BY <1>1 DEF Grows
    <3>2. pub' = [pub EXCEPT ![v] = p]
      BY <1>4, PubGoes
    <3>3. PubOK(p, commits, refs)
      <4>1. pub[v].pc \in AfterValidate /\ pub[v].pc \in AfterBegin /\ pub[v].pc \in AfterCommit /\ pub[v].pc # "idle"
        BY <1>1 DEF AfterValidate, AfterBegin, AfterCommit
      <4>2. QED
        BY <1>1, <4>1, PubMoved
    <3> HIDE DEF p
    <3>4. ASSUME NEW u \in Publishers PROVE PubOK(pub'[u], commits', refs')
      <4>1. pub'[u] = IF u = v THEN p ELSE pub[u]
        BY <3>2, PubOf
      <4>2. PubOK(pub'[u], commits, refs)
        BY <3>3, <4>1, PubOf
      <4>3. QED
        BY <1>1, <2>4, <3>1, <4>2, PubStays
    <3>5. QED
      BY <3>2, <3>4, PubOf DEF PubsOK
  <2>7. HistoryOK(commits)' /\ WorkOK' /\ BuildOK' /\ JobsOK'
    BY <1>1 DEF EvolverInv, WorkOK, BuildOK, JobsOK
  <2>8. QED
    BY <2>4, <2>5, <2>6, <2>7 DEF EvolverInv
<1>5. QED
  BY <1>1, <1>3, <1>4 DEF UpdateRef

-----------------------------------------------------------------------------
(* Every step keeps the invariant, and no branch moves.                    *)

LEMMA EvolverStarts ==
  ASSUME EvolverAssumption, EvolverInit
  PROVE  EvolverInv
<1>1. PICK k \in Corpora : work = [rules |-> {}, version |-> 1, pending |-> Precedents, corpus |-> k, lock |-> k]
  BY DEF EvolverInit
<1>2. work \in ProtectedFiles /\ work.version = 1
  <2>1. 1 \in 1..(MaxCommits + 1)
    BY DEF EvolverAssumption
  <2>2. QED
    BY <1>1, <2>1 DEF ProtectedFiles
<1> DEFINE first == [parent |-> 0, files |-> work]
<1>3. first \in CommitRecords /\ first.parent = 0 /\ first.files = work
  BY <1>2 DEF CommitRecords
<1>4. commits = <<first>>
  BY DEF EvolverInit
<1> HIDE DEF first
<1>5. commits \in Seq(CommitRecords) /\ Len(commits) = 1 /\ commits[1] = first
  BY <1>3, <1>4
<1>6. HistoryOK(commits)
  <2>1. 1 \in 1..MaxCommits
    BY DEF EvolverAssumption
  <2>2. QED
    BY <1>2, <1>3, <1>5, <2>1 DEF HistoryOK
<1>7. WorkOK
  BY <1>2, <1>5 DEF EvolverInit, WorkOK
<1>8. RefsOK
  BY DEF EvolverInit, RefsOK, BranchOK
<1>9. BuildOK
  BY DEF EvolverInit, BuildOK
<1>10. JobsOK
  <2>1. NoJob \in JobRecords /\ JobOK(NoJob)
    BY DEF NoJob, JobRecords, JobOK
  <2>2. QED
    BY <2>1 DEF EvolverInit, JobsOK
<1>11. PubsOK
  <2>1. DOMAIN NoPub = PubFields /\ NoPub.pc = "idle"
    BY DEF NoPub, PubFields
  <2>2. PubOK(NoPub, commits, refs)
    BY <2>1 DEF PubOK, AfterValidate, AfterBegin, AfterCommit
  <2>3. QED
    BY <2>2 DEF EvolverInit, PubsOK
<1>12. QED
  BY <1>6, <1>7, <1>8, <1>9, <1>10, <1>11 DEF EvolverInv

LEMMA EvolverInvNext ==
  ASSUME EvolverAssumption, EvolverInv, [EvolverNext]_evolverVars
  PROVE  EvolverInv' /\ [RefsNeverMove]_evolverVars
<1>1. ASSUME NEW c \in Cycles, Start(c) \/ CycleStep(c) \/ Crash(c)
      PROVE  EvolverInv' /\ UNCHANGED refs
  BY <1>1, StartStep, CycleStepKeeps
     DEF Start, CycleStep, Capture, Attempt, Apply, Diff, Evaluate, WriteTexts, CheckDrift, WriteManifest, Crash
<1>2. ASSUME NEW c \in Cycles, MergeBranch(c) PROVE EvolverInv' /\ UNCHANGED refs
  BY <1>2, MergeStep DEF MergeBranch
<1>3. CASE EditWork
  BY <1>3, EditWorkStep DEF EditWork, RefsNeverMove
<1>4. CASE CommitWork
  BY <1>4, CommitWorkStep DEF CommitWork, RefsNeverMove
<1>5. ASSUME NEW v \in Publishers, UpdateRef(v) PROVE EvolverInv' /\ BranchesStand
  BY <1>5, UpdateRefStep
<1>6. ASSUME NEW v \in Publishers, ReadManifest(v) \/ ReadBundle(v) \/ ValidateCandidate(v) \/ Resolve(v)
             \/ Begin(v) \/ Commit(v) \/ Recheck(v) \/ Verify(v)
      PROVE  EvolverInv' /\ UNCHANGED refs
  <2>1. EvolverInv'
    BY <1>6, ReadStep, ValidateCandidateStep, ResolveStep, BeginStep, CommitStep, RecheckStep
  <2>2. UNCHANGED refs
    BY <1>6 DEF ReadManifest, ReadBundle, ValidateCandidate, Resolve, Begin, Commit, Recheck, Verify
  <2>3. QED
    BY <2>1, <2>2
<1>7. CASE UNCHANGED evolverVars
  <2>1. EvolverInv'
    BY <1>7 DEF evolverVars, EvolverInv, WorkOK, RefsOK, BuildOK, JobsOK, PubsOK
  <2>2. QED
    BY <1>7, <2>1
<1>8. UNCHANGED refs => RefsNeverMove
  BY DEF RefsNeverMove
<1>9. BranchesStand => RefsNeverMove
  BY DEF RefsNeverMove, BranchesStand
<1>10. QED
  BY <1>1, <1>2, <1>3, <1>4, <1>5, <1>6, <1>7, <1>8, <1>9 DEF EvolverNext, PublisherStep

LEMMA EvolverInvShows ==
  ASSUME EvolverAssumption, EvolverInv
  PROVE  EvolverTypeOK /\ PublishedPassed /\ PublishedIsOwn
<1>1. /\ commits \in Seq(CommitRecords) /\ DOMAIN commits = 1..Len(commits)
      /\ \A i \in 1..Len(commits) : commits[i] \in CommitRecords /\ commits[i].parent < i
  BY DEF EvolverInv, HistoryOK
<1>2. EvolverTypeOK
  <2>1. \A i \in DOMAIN commits : commits[i].parent < i /\ commits[i].files \in ProtectedFiles
    BY <1>1 DEF CommitRecords
  <2>2. \A c \in Cycles : refs[c] \in DOMAIN commits \cup {None}
    BY <1>1 DEF EvolverInv, RefsOK, BranchOK
  <2>3. ASSUME NEW c \in Cycles, job[c].prec # None PROVE job[c].attempt \in DOMAIN Proposed[job[c].prec]
    <3>1. job[c].prec \in Precedents /\ job[c].attempt \in 1..Len(Proposed[job[c].prec])
      BY <2>3 DEF EvolverInv, JobsOK, JobOK
    <3>2. Proposed[job[c].prec] \in Seq(Mutations)
      BY <3>1 DEF EvolverAssumption
    <3>3. QED
      BY <3>1, <3>2
  <2>4. work \in ProtectedFiles /\ head \in DOMAIN commits
    BY <1>1 DEF EvolverInv, WorkOK
  <2>5. QED
    BY <2>1, <2>2, <2>3, <2>4 DEF EvolverTypeOK
<1>3. PublishedPassed
  <2> SUFFICES ASSUME NEW c \in Cycles, refs[c] # None
               PROVE  GatedOn(commits[refs[c]].files, commits[commits[refs[c]].parent].files)
    BY DEF PublishedPassed, GatedOn, GatedBy
  <2>1. QED
    BY DEF EvolverInv, RefsOK, BranchOK
<1>4. PublishedIsOwn
  <2> SUFFICES ASSUME NEW v \in Publishers, PubAt(v, "published")
               PROVE  /\ refs[pub[v].manifest.cycle] = pub[v].commit
                      /\ commits[pub[v].commit] = [parent |-> pub[v].base, files |-> Candidate(v)]
    BY DEF PublishedIsOwn
  <2>1. /\ ValidatedOK(pub[v]) /\ BoundOK(pub[v], commits) /\ CommittedOK(pub[v], commits)
        /\ refs[pub[v].manifest.cycle] = pub[v].commit
    BY PubOf DEF PubAt, PubOK, AfterValidate, AfterBegin, AfterCommit
  <2>2. Candidate(v) = Delta(pub[v])
    BY <2>1, CandidateIs DEF EvolverInv
  <2> DEFINE k == commits[pub[v].commit]
  <2>3. k \in CommitRecords /\ k.parent = pub[v].base /\ k.files = Delta(pub[v])
    BY <1>1, <2>1 DEF CommittedOK
  <2> HIDE DEF k
  <2>4. k = [parent |-> pub[v].base, files |-> Candidate(v)]
    BY <2>2, <2>3 DEF CommitRecords
  <2>5. QED
    BY <2>1, <2>4 DEF k
<1>5. QED
  BY <1>2, <1>3, <1>4

\* For any numbers of cycles, publishers, precedents and commits: a candidate branch is one
\* gated mutation of the commit it stands on, whatever was edited, built or killed meanwhile;
\* a publisher that reports a branch reports the commit of its own transaction; and a branch
\* never moves.
THEOREM BranchesAreGated ==
  ASSUME EvolverAssumption
  PROVE  EvolverSpec => PublishedIsGated
<1>1. EvolverInit => EvolverInv
  BY EvolverStarts
<1>2. EvolverInv /\ [EvolverNext]_evolverVars => EvolverInv' /\ [RefsNeverMove]_evolverVars
  BY EvolverInvNext
<1>3. EvolverInv => EvolverTypeOK /\ PublishedPassed /\ PublishedIsOwn
  BY EvolverInvShows
<1>4. QED
  BY <1>1, <1>2, <1>3, PTL DEF EvolverSpec, PublishedIsGated
=============================================================================

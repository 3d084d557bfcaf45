------------------------------- MODULE ReviewRun -------------------------------
(***************************************************************************)
(* One run of the review CLI: aga-skill/scripts/run_review.py              *)
(* (execute_review, _log_result), over the deterministic engine of         *)
(* aga-skill/tools/aga.py (review_pr) and the model boundary of            *)
(* aga-skill/tools/llm.py.                                                 *)
(*                                                                         *)
(* The workspace is read four times, one file after another: by the        *)
(* engine, for the model's request, after the model's answer and for the   *)
(* audit log, while an author may edit it.  An edit always makes new       *)
(* contents.                                                               *)
(***************************************************************************)
EXTENDS Naturals, Sequences, FiniteSets, SequencesExt, FiniteSetsExt, Nothing

CONSTANTS
  Artifacts,   \* the files of the pull request, a sequence
  MaxEdits,    \* bound: edits of the author
  Detected,    \* what the detectors find in each version of each artifact
  Excepted,    \* the rules with an exception that matches that version
  Answers      \* what the model may answer: sets of findings, raw

Files == Range(Artifacts)

Severities == {"blocker", "major", "minor"}

\* A model's answer that is no finding of a changed file is refused by Model or Validate.
RunAssumption ==
  /\ MaxEdits \in Nat
  /\ Detected \in [Files -> [0..MaxEdits ->
                     SUBSET [rule: STRING, severity: Severities, place: Nat]]]
  /\ Excepted \in [Files -> [0..MaxEdits -> SUBSET STRING]]
  /\ \A answer \in Answers :
       answer \subseteq [rule: STRING, severity: Severities, place: Nat, artifact: Files,
                         origin: {"llm"}, confidence: {"low", "middle", "high"}]

VARIABLES
  tree,      \* the version of each file in the workspace
  since,     \* the trees there have been since the model answered
  phase,     \* what the run is doing
  reading,   \* what the pass under way has read so far
  reviewed,  \* artifact_snapshot_sha256: what the engine has read
  request,   \* the snapshot the model was asked about
  raw,       \* the model's answer
  findings,  \* result["findings"]
  verdict,   \* result["verdict"]
  logged     \* input_revision of the audit event

run == <<phase, reading, reviewed, request, raw, findings, verdict, logged>>
reviewVars == <<tree, since, run>>

NothingRead == [f \in Files |-> None]

ReviewInit ==
  /\ tree = [f \in Files |-> 0]
  /\ since = {}
  /\ phase = "engine"
  /\ reading = NothingRead
  /\ reviewed = None
  /\ request = None
  /\ raw = None
  /\ findings = {}
  /\ verdict = None
  /\ logged = None

Edit ==
  /\ \E f \in Files :
       /\ tree[f] < MaxEdits
       /\ tree' = [tree EXCEPT ![f] = @ + 1]
  /\ since' = IF since = {} THEN {} ELSE since \cup {tree'}
  /\ UNCHANGED run

-----------------------------------------------------------------------------
(* Findings.                                                               *)

Rank(severity) == CASE severity = "blocker" -> 3 [] severity = "major" -> 2 [] severity = "minor" -> 1

\* exception_matches: the findings no exception of their rule suppresses.
Kept(fs, snapshot) == {f \in fs : f.rule \notin Excepted[f.artifact][snapshot[f.artifact]]}

\* The engine's findings on what it has read.
Deterministic(snapshot) ==
  Kept(UNION {{[rule |-> d.rule, severity |-> d.severity, place |-> d.place, artifact |-> f,
                origin |-> "deterministic", confidence |-> "high"] : d \in Detected[f][snapshot[f]]} :
              f \in Files}, snapshot)

\* apply_confidence_policy: below 0.40 an observation, a blocker below 0.70 a major.
Observations(fs) == {f \in fs : f.confidence = "low"}

Accepted(fs) ==
  {[f EXCEPT !.severity = IF f.severity = "blocker" /\ f.confidence = "middle" THEN "major" ELSE @] :
     f \in fs \ Observations(fs)}

\* Serious findings the model was not sure enough of.
Signals(fs) ==
  {f \in fs : \/ f.severity = "blocker" /\ f.confidence \in {"low", "middle"}
              \/ f.severity = "major" /\ f.confidence = "low"}

Weight(f) ==
  <<Rank(f.severity), IF f.origin = "deterministic" THEN 1 ELSE 0,
    CASE f.confidence = "low" -> 0 [] f.confidence = "middle" -> 1 [] f.confidence = "high" -> 2>>

Outweighs(f, g) ==
  \E i \in 1..3 : Weight(f)[i] > Weight(g)[i] /\ \A j \in 1..(i - 1) : Weight(f)[j] = Weight(g)[j]

SamePlace(f, g) == f.rule = g.rule /\ f.artifact = g.artifact /\ f.place = g.place

\* merge_findings: of the findings of one rule at one place the most serious stays, of two
\* as serious the deterministic one, of two of the model the surer one.
Merge(det, llm) ==
  {f \in det \cup llm : \A g \in det \cup llm : SamePlace(f, g) => ~Outweighs(g, f)}

VerdictFrom(fs) ==
  LET severities == {f.severity : f \in fs} IN
  CASE severities \cap {"blocker", "major"} # {} -> "request_changes_escalate"
    [] severities = {"minor"} -> "approve_with_warnings"
    [] OTHER -> "approve"

-----------------------------------------------------------------------------

\* One more file of the pass is read, or cannot be.
Unread == {i \in DOMAIN Artifacts : reading[Artifacts[i]] = None}

ReadNext ==
  /\ phase \in {"engine", "request", "validate", "log"}
  /\ Unread # {}
  /\ LET f == Artifacts[Min(Unread)] IN reading' = [reading EXCEPT ![f] = tree[f]]
  /\ UNCHANGED <<tree, since, phase, reviewed, request, raw, findings, verdict, logged>>

Incomplete ==
  /\ verdict' = "incomplete"
  /\ phase' = "log"
  /\ reading' = NothingRead

\* review_pr
Engine ==
  /\ phase = "engine"
  /\ \/ /\ verdict' = "input_error"
        /\ phase' = "log"
        /\ UNCHANGED <<reviewed, findings>>
     \/ /\ Unread = {}
        /\ reviewed' = reading
        /\ findings' = Deterministic(reading)
        /\ verdict' = VerdictFrom(findings')
        /\ phase' \in {"request", "log"}
  /\ reading' = NothingRead
  /\ UNCHANGED <<tree, since, request, raw, logged>>

ReviewNotCompared == reading   \* mutant
ReviewedSnapshot == reviewed

\* _build_llm_request_with_snapshot
Request ==
  /\ phase = "request"
  /\ \/ Incomplete /\ UNCHANGED request
     \/ /\ Unread = {}
        /\ IF reading # ReviewedSnapshot
           THEN Incomplete /\ UNCHANGED request
           ELSE request' = reading /\ phase' = "model" /\ reading' = NothingRead /\ UNCHANGED verdict
  /\ UNCHANGED <<tree, since, reviewed, raw, findings, logged>>

\* invoke_llm: an answer, or an error, a timeout or something that is no answer.
Model ==
  /\ phase = "model"
  /\ \/ Incomplete /\ UNCHANGED <<raw, since>>
     \/ /\ \E a \in Answers : raw' = a
        /\ since' = {tree}
        /\ phase' = "validate"
        /\ UNCHANGED <<verdict, reading>>
  /\ UNCHANGED <<tree, reviewed, request, findings, logged>>

\* _validated_llm_output and the verdict: an answer that does not bind is refused whole; of
\* one that does, what an exception suppresses is neither a finding nor a signal.
Validate ==
  /\ phase = "validate"
  /\ \/ Incomplete /\ UNCHANGED findings
     \/ /\ Unread = {}
        /\ IF reading # request
           THEN Incomplete /\ UNCHANGED findings
           ELSE LET kept == Kept(raw, reading) IN
                /\ findings' = Merge(Deterministic(reviewed), Accepted(kept))
                /\ verdict' = IF Signals(kept) # {} THEN "incomplete" ELSE VerdictFrom(findings')
                /\ phase' = "log"
                /\ reading' = NothingRead
  /\ UNCHANGED <<tree, since, reviewed, request, raw, logged>>

\* _log_result hashes the files as they are now; without a log the review is incomplete.
Log ==
  /\ phase = "log"
  /\ \/ verdict' = "incomplete" /\ UNCHANGED logged
     \/ Unread = {} /\ logged' = reading /\ UNCHANGED verdict
  /\ phase' = "done"
  /\ reading' = NothingRead
  /\ UNCHANGED <<tree, since, reviewed, request, raw, findings>>

ReviewNext == Edit \/ ReadNext \/ Engine \/ Request \/ Model \/ Validate \/ Log

ReviewSpec == ReviewInit /\ [][ReviewNext]_reviewVars

-----------------------------------------------------------------------------

Complete == phase \in {"log", "done"} /\ verdict \notin {None, "incomplete", "input_error"}

WithModel == Complete /\ raw # None

\* A complete review with the model, though it read file by file while the author went on
\* editing, is of one state the workspace really had after the model had answered.
ReviewIsOfOneTree == WithModel => reviewed \in since

\* The model never softens the engine's verdict.
Harshness(v) == CASE v = "approve" -> 0 [] v = "approve_with_warnings" -> 1 [] OTHER -> 2

ModelNeverSoftens == Complete => Harshness(verdict) >= Harshness(VerdictFrom(Deterministic(reviewed)))

\* Whatever confidence it comes with, the model's answer to a blocker or major rule ends in
\* an escalation or an incomplete review, and in an approval only where an exception of that
\* rule matches the contents that were reviewed.
SeriousAnswerEscalates ==
  WithModel /\ (\E f \in Kept(raw, reviewed) : f.severity \in {"blocker", "major"}) =>
    verdict = "request_changes_escalate"

\* What a review that calls itself complete says is about contents there were, and no milder
\* than the engine or the model found them.
ReviewIsTrue == ReviewIsOfOneTree /\ ModelNeverSoftens /\ SeriousAnswerEscalates

\* The revision in the audit log is that of the contents the verdict is about.
LoggedRevisionWasReviewed == Complete /\ logged # None => logged = reviewed
=============================================================================

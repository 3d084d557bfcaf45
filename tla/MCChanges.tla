------------------------------- MODULE MCChanges ------------------------------
(***************************************************************************)
(* What a change goes through: the snapshot of its commit                  *)
(* (RepositorySnapshot), its review (ReviewRun), the patch of a finding    *)
(* (RemediationPatch), its service and its task (RemediationService,       *)
(* RemediationTask), the rules that evolve from what architects decided    *)
(* (RuleMutations, FitnessGate, Evolver), and the whole loop on a scenario *)
(* (ArchScenario). They share no state; "part" says which of them a        *)
(* behaviour is of, in which instance. A component that is extended stays  *)
(* where it starts in the behaviours of the others, the rest has no state. *)
(***************************************************************************)
EXTENDS TLC, ReviewRun, RemediationService, RemediationTask, ArchScenario,
  RuleMutations, Evolver, RemediationPatch

CONSTANTS c1, c2

VARIABLES
  part,  \* the component this behaviour is of
  fitness_severity, fitness_detected,  \* FitnessGate
  snapshot_world, snapshot_now, snapshot_step, snapshot_commit, snapshot_pending,
  snapshot_queued, snapshot_blobs, snapshot_pins, snapshot_sides, snapshot_digest, snapshot_staged,
  snapshot_rules, snapshot_stack, snapshot_loaded, snapshot_outcome  \* RepositorySnapshot

fitnessVars == <<fitness_severity, fitness_detected>>
snapshotVars == <<snapshot_world, snapshot_now, snapshot_step, snapshot_commit,
  snapshot_pending, snapshot_queued, snapshot_blobs, snapshot_pins, snapshot_sides, snapshot_digest,
  snapshot_staged, snapshot_rules, snapshot_stack, snapshot_loaded, snapshot_outcome>>

vars == <<part, reviewVars, patchVars, remVars, taskVars, evolverVars, ruleVars, fitnessVars,
  scenarioVars,
  snapshotVars>>

-----------------------------------------------------------------------------
\* Of the two files under review, the first goes from clean to a minor to a blocker, the
\* second from a minor to clean.
TwoFiles == <<"flow", "adr">>

FoundIn ==
  ("flow" :> [v \in 0..2 |->
     IF v = 0 THEN {}
     ELSE {[rule |-> IF v = 1 THEN "det" ELSE "hybrid",
            severity |-> IF v = 1 THEN "minor" ELSE "blocker", place |-> 1]}])
  @@ ("adr" :> [v \in 0..2 |->
     IF v <= 1 THEN {[rule |-> "det", severity |-> "minor", place |-> 1]} ELSE {}])

\* The first edit of the first file brings an exception of the blocker, the second of the
\* major; the first edit of the second file one of the minor its detector finds.
ExceptedIn ==
  ("flow" :> [v \in 0..2 |-> CASE v = 0 -> {} [] v = 1 -> {"hybrid"} [] v = 2 -> {"major"}])
  @@ ("adr" :> [v \in 0..2 |-> IF v = 1 THEN {"det"} ELSE {}])

\* Any finding at the first place, a sure blocker at the second.
ModelFindings ==
  {f \in {[rule |-> r, severity |-> IF r = "hybrid" THEN "blocker" ELSE r, place |-> p,
           artifact |-> "flow", origin |-> "llm", confidence |-> c] :
             r \in {"hybrid", "major", "minor"}, p \in 1..2, c \in {"low", "middle", "high"}} :
     f.place = 2 => f.rule = "hybrid" /\ f.confidence = "high"}

PossibleAnswers == {S \in SUBSET ModelFindings : Cardinality(S) <= 2}

\* The request of the task, one for another finding under its id, and one of another task;
\* of three calls, two are needed to succeed.
TheRequest == [rid |-> "own", finding |-> "first"]

ThreeRequests ==
  {TheRequest, [rid |-> "own", finding |-> "second"], [rid |-> "other", finding |-> "first"]}

TwoCallers == {c1, c2}

\* Where the scenario is not what a behaviour is of.
OneDocument ==
  [status |-> [n \in Nodes |-> Stays], successor |-> [n \in Nodes |-> None],
   edges |-> [e \in Edges |-> [from |-> "a", to |-> "b", expected |-> FALSE, replacement |-> None]],
   counted |-> FALSE]

\* The rules there may be at first, and those where the rules are not what a behaviour is of.
PlainRules == {Absent} \cup [severity : RuleSeverities, status : Statuses, exceptions : {<<>>}]
PlainBase ==
  [r \in Rules |-> IF r \in Seed THEN [severity |-> "minor", status |-> "active", exceptions |-> <<>>]
                  ELSE Absent]

\* Bound: exceptions are added to one rule that does not change; without them, the rules do.
ActiveBase == {base \in [Rules -> PlainRules] : \A r \in Seed : base[r].status = "active"}

\* Where the patch is not what a behaviour is of.
PlainDocument ==
  <<[section |-> "integrations", lines |-> <<[key |-> "to", nested |-> FALSE, component |-> "new"]>>]>>
Unremarkable == [status |-> None, successor |-> None]

TwoCycles == {c1, c2}

\* Callers, ids and publishers differ in nothing but their name: c1 calls first, and with
\* "m1"; the first review registered is "v1"; and "publisher" goes before "second".
FirstNames ==
  /\ caller'[c2] # NoCall => caller'[c1] # NoCall
  /\ caller'[c1] # NoCall => caller'[c1].req.rid = "m1"
  /\ registered = <<>> => Ids(reviews') \subseteq {"v1"}
FirstPublisher == pub'["second"] # NoPub => pub'["publisher"] # NoPub

\* Bounds: two cycles and one publisher with one corpus, or two publishers and one cycle of
\* the first precedent.
OnePublisher ==
  /\ pub'["second"] = NoPub
  /\ work'.corpus = 1 /\ "weak" \notin work'.rules
  /\ job'[c2] # NoJob => job'[c1] # NoJob
OneCycle == job'[c2] = NoJob /\ "other" \notin work'.rules

\* Two precedents; the first proposes a mutation that fails the gate before one that passes.
TwoPrecedents == <<<<"weak", "good">>, <<"other">>>>

\* A mutation is valid where it changes something.
Valid(base, m) == m \notin base

\* "weak" cannot be applied once "other" is there; all raise the same part of the version.
AppliesTo(base, m) == m = "weak" => "other" \notin base
PartRaised(m) == "patch"

\* "weak" never passes; "good" passes on the first corpus, and not once "other" is there.
Gate(corpus, base, cand) ==
  /\ "weak" \notin cand \ base
  /\ "good" \in cand \ base => corpus = 1 /\ "other" \notin base

\* One case with a blocker, one with a major, one clean; "win" takes precedence over "lose".
FitnessCases == {"blocked", "flawed", "clean"}

Expected == ("blocked" :> <<[rule |-> "lose", severity |-> "blocker"]>>)
         @@ ("flawed" :> <<[rule |-> "lose", severity |-> "major"]>>)
         @@ ("clean" :> <<>>)

Outcome == ("blocked" :> "blocker") @@ ("flawed" :> "major") @@ ("clean" :> None)

\* A repository of a manifest, another YAML file and one more file, with a dependency: what
\* git diff says of the two files, the kind of the last, the imports of manifest and file,
\* what the manifest refers to, their pins on the dependency, and the scope of the review.
Repository(app, file, kind, first, second, mentions, pin, pin2, scope) ==
  [status |-> "manifest" :> "same" @@ "app" :> app @@ "file" :> file @@ "notes" :> "absent",
   kind |-> "file" :> kind @@ "notes" :> "text",
   imports |-> "manifest" :> first @@ "app" :> second @@ "core" :> {},
   refs |-> "manifest" :> mentions @@ "app" :> {} @@ "core" :> {},
   pin |-> "manifest" :> pin @@ "app" :> pin2 @@ "core" :> None,
   odd |-> {}, oddBase |-> {}, gitlink |-> "pinned", scope |-> scope]

Whole == {"manifest", "app", "file"}

Repositories ==
  {Repository(app, file, kind, first, second, mentions, pin, pin2, scope) :
     app \in {"same", "modified", "deleted"}, file \in {"absent", "added", "deleted"},
     kind \in {"diagram", "text", "other"},
     first \in {{}, {"app"}, {"core"}, {"app", "core"}, {"app", "file"}},
     second \in {{}, {"manifest"}, {"core"}}, mentions \in {{}, {"app"}, {"file"}},
     pin \in {None, "right"}, pin2 \in {None, "sum", "revision"},
     scope \in {Whole, Whole \ {"file"}}}
  \cup
  {[Repository(app, "same", "text", first, {}, {}, None, None, Whole) EXCEPT !.odd = {"app"}] :
     app \in {"same", "modified"}, first \in {{}, {"app"}}}
  \cup
  {[Repository(app, file, "text", {"app"}, {}, {}, None, None, Whole)
      EXCEPT !.oddBase = odd, !.gitlink = gitlink, !.status["notes"] = notes,
             !.status["manifest"] = first] :
     app \in {"same", "modified", "deleted", "retyped"}, file \in {"added", "deleted"},
     odd \in {{}, {"app"}, {"file"}}, gitlink \in {"pinned", "updated"},
     notes \in {"absent", "added", "retyped"}, first \in {"same", "modified"}}

OneRepository ==
  LET plain == Repository("modified", "added", "diagram", {"app", "core"}, {}, {"file"}, "right",
                          None, Whole)
  IN {plain, [plain EXCEPT !.gitlink = "other"]}

Fitness == INSTANCE FitnessGate WITH
  Rules <- {"win", "lose"}, Cases <- FitnessCases, Precedence <- {<<"win", "lose">>},
  Relevant <- [r \in {"win", "lose"} |-> FitnessCases], Most <- 1, severity <- fitness_severity,
  detected <- fitness_detected

Snapshot == INSTANCE RepositorySnapshot WITH
  Worlds <- Repositories, Manifest <- "manifest", Yaml <- {"manifest", "app"},
  Attached <- {"file", "notes"}, Core <- {"core"}, MaxDepth <- 1, MaxFiles <- 3, ResolverDepth <- 2,
  MaxEdits <- 0, Restores <- FALSE, world <- snapshot_world, now <- snapshot_now,
  step <- snapshot_step, commit <- snapshot_commit, pending <- snapshot_pending,
  queued <- snapshot_queued, blobs <- snapshot_blobs, pins <- snapshot_pins, sides <- snapshot_sides,
  digest <- snapshot_digest, staged <- snapshot_staged, rules <- snapshot_rules,
  stack <- snapshot_stack, loaded <- snapshot_loaded, outcome <- snapshot_outcome

Races == INSTANCE RepositorySnapshot WITH
  Worlds <- OneRepository, Manifest <- "manifest", Yaml <- {"manifest", "app"},
  Attached <- {"file", "notes"}, Core <- {"core"}, MaxDepth <- 1, MaxFiles <- 4, ResolverDepth <- 2,
  MaxEdits <- 2, Restores <- FALSE, world <- snapshot_world, now <- snapshot_now,
  step <- snapshot_step, commit <- snapshot_commit, pending <- snapshot_pending,
  queued <- snapshot_queued, blobs <- snapshot_blobs, pins <- snapshot_pins, sides <- snapshot_sides,
  digest <- snapshot_digest, staged <- snapshot_staged, rules <- snapshot_rules,
  stack <- snapshot_stack, loaded <- snapshot_loaded, outcome <- snapshot_outcome

ASSUME MCChangesAssumption ==
  /\ RunAssumption
  /\ ServiceAssumption
  /\ TaskAssumption
  /\ ScenarioAssumption
  /\ EvolverAssumption
  /\ MutationAssumption
  /\ PatchAssumption
  /\ Snapshot!SnapshotAssumption
  /\ Races!SnapshotAssumption

-----------------------------------------------------------------------------
Parts == {"review", "patch", "rem", "task", "publish", "branches", "blockers", "exceptions",
          "fitness", "scenario", "snapshot", "races"}

\* A component whose part it is not has no state.
fitnessIdle ==
  /\ fitness_severity = None /\ fitness_detected = None
snapshotIdle ==
  /\ snapshot_world = None /\ snapshot_now = None /\ snapshot_step = None
  /\ snapshot_commit = None /\ snapshot_pending = None /\ snapshot_queued = None
  /\ snapshot_blobs = None /\ snapshot_pins = None /\ snapshot_sides = None /\ snapshot_digest = None
  /\ snapshot_staged = None /\ snapshot_rules = None /\ snapshot_stack = None
  /\ snapshot_loaded = None /\ snapshot_outcome = None

Init ==
  /\ part \in Parts
  \* bound: either every finding has a patch or none
  /\ remediable \in IF part = "task" THEN {{}, Findings} ELSE {{}}
  \* bound: with no patch, the log is in one place
  /\ mirrored \in IF remediable = {} THEN {FALSE} ELSE BOOLEAN
  /\ rules \in CASE part = "blockers" -> [Rules -> PlainRules]
                  [] part = "exceptions" -> ActiveBase
                  [] OTHER -> {PlainBase}
  /\ ReviewInit
  /\ RemInit
  /\ TaskInit
  /\ RulesInit
  /\ doc \in IF part = "scenario" THEN Docs(Nodes, Edges) ELSE {OneDocument}
  /\ ScenarioInit
  /\ EvolverInit
  /\ part # "branches" => work.corpus = 1
  /\ document \in IF part = "patch" THEN FlowDocuments ELSE {PlainDocument}
  /\ PatchInit
  /\ part # "patch" => finding = "to" /\ \A k \in Components : components[k] = Unremarkable
  /\ IF part = "fitness" THEN Fitness!Init ELSE fitnessIdle
  /\ CASE part = "snapshot" -> Snapshot!Init
       [] part = "races" -> Races!Init
       [] OTHER -> snapshotIdle

Next ==
  \/ /\ part = "review" /\ ReviewNext
     /\ UNCHANGED <<part, patchVars, remVars, taskVars, evolverVars, ruleVars, fitnessVars, scenarioVars,
       snapshotVars>>
  \/ /\ part = "patch" /\ PatchNext
     /\ UNCHANGED <<part, reviewVars, remVars, taskVars, evolverVars, ruleVars, fitnessVars, scenarioVars,
       snapshotVars>>
  \/ /\ part = "rem" /\ RemNext /\ FirstNames
     /\ UNCHANGED <<part, reviewVars, patchVars, taskVars, evolverVars, ruleVars, fitnessVars, scenarioVars,
       snapshotVars>>
  \/ /\ part = "task" /\ TaskNext
     /\ UNCHANGED <<part, reviewVars, patchVars, remVars, evolverVars, ruleVars, fitnessVars, scenarioVars,
       snapshotVars>>
  \/ /\ part = "publish" /\ EvolverNext /\ OnePublisher
     /\ UNCHANGED <<part, reviewVars, patchVars, remVars, taskVars, ruleVars, fitnessVars, scenarioVars,
       snapshotVars>>
  \/ /\ part = "branches" /\ EvolverNext /\ OneCycle /\ FirstPublisher
     /\ UNCHANGED <<part, reviewVars, patchVars, remVars, taskVars, ruleVars, fitnessVars, scenarioVars,
       snapshotVars>>
  \/ /\ part = "blockers" /\ ChangeRule
     /\ UNCHANGED <<part, reviewVars, patchVars, remVars, taskVars, evolverVars, fitnessVars, scenarioVars,
       snapshotVars>>
  \/ /\ part = "exceptions" /\ NarrowRule
     /\ UNCHANGED <<part, reviewVars, patchVars, remVars, taskVars, evolverVars, fitnessVars, scenarioVars,
       snapshotVars>>
  \/ /\ part = "fitness" /\ Fitness!Next
     /\ UNCHANGED <<part, reviewVars, patchVars, remVars, taskVars, evolverVars, ruleVars, scenarioVars,
       snapshotVars>>
  \/ /\ part = "scenario" /\ ScenarioNext
     /\ UNCHANGED <<part, reviewVars, patchVars, remVars, taskVars, evolverVars, ruleVars, fitnessVars,
       snapshotVars>>
  \/ /\ part = "snapshot" /\ Snapshot!Next
     /\ UNCHANGED <<part, reviewVars, patchVars, remVars, taskVars, evolverVars, ruleVars, fitnessVars,
       scenarioVars>>
  \/ /\ part = "races" /\ Races!Next
     /\ UNCHANGED <<part, reviewVars, patchVars, remVars, taskVars, evolverVars, ruleVars, fitnessVars,
       scenarioVars>>

Spec == Init /\ [][Next]_vars

-----------------------------------------------------------------------------
\* RepositorySnapshot: a review is of the files of one commit that its manifest reaches and
\* the changed ones of the scope, no more and no fewer; its documents are the imports of the
\* manifest as they were captured, with every pin kept, and its rules those its provenance
\* names, whatever moves or is edited meanwhile. A sound repository nobody edits is not
\* refused.
SnapshotIsTrue ==
  part \in {"snapshot", "races"} =>
    /\ Snapshot!SnapshotIsExact
    /\ Snapshot!DocumentsAreCaptured
    /\ Snapshot!RulesAreNamed
    /\ part = "snapshot" => Snapshot!SoundAccepted

\* FitnessGate: candidates cannot take turns, since each accepted one has fewer errors than
\* its base, or as many and more right verdicts, or as many of both and fewer confusions. In
\* what passes no expected blocker is missed where the same rule reports another severity,
\* and deprecating a rule brings to light no finding it hid, of any case.
AcceptedIsBetter ==
  [][part = "fitness" => /\ Fitness!ImprovementsDoNotCycle
                         /\ Fitness!BlockersAreNotSoftened
                         /\ Fitness!DeprecationChangesNothingElse]_vars
=============================================================================

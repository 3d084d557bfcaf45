------------------------------- MODULE E2ERun -------------------------------
(***************************************************************************)
(* One e2e run of scripts/self_evolution_ui.py (JobManager._run_e2e).      *)
(*                                                                         *)
(* Three branches run in a pool: the architecture branch watches a child   *)
(* process that pays for three tasks, the workspace branch validates the   *)
(* generated graph, and the rules branch tests the baseline in shards,     *)
(* lets the evolver build a candidate in the shared build directory, and   *)
(* tests the candidate in shards.  The gate reads what they left and the   *)
(* artifacts are written for the human reviewer.                           *)
(*                                                                         *)
(* A rules version is a set of fixes it makes; the build directory holds   *)
(* [serial, rules] of its rules and of its manifest.                       *)
(***************************************************************************)
EXTENDS Naturals, Sequences, FiniteSets, Functions, SequencesExt, Nothing

CONSTANTS
  Failed,
  Golden,            \* the tests of the scenario, a sequence of cases
  TargetCase, ControlCase,   \* the case to be fixed and the one to be kept
  Workers,           \* parallel_workers
  Candidates,        \* the rule versions an evolver may come up with
  Outside,           \* another evolution cycle shares the build directory
  TaskCosts          \* what a task may cost

Cases == Range(Golden)

E2EAssumption ==
  /\ Golden \in Seq(Cases) /\ {TargetCase, ControlCase} \subseteq Cases
  /\ Workers \in Nat \ {0}
  /\ TaskCosts \subseteq Nat
  /\ None \notin {"ready", "failed", "killed"} \cup [status : {"ready", "failed"}, cost : Nat]

Baseline == [fixed |-> {}, broken |-> {}, silenced |-> {}]

VARIABLES
  at,         \* [main and the branches -> where they are]
  atWork,     \* the shards at work: {<<phase, worker>>}
  buildDir,   \* the candidate rules and manifest of the build directory
  since,      \* the manifest that was there before the run's evolver
  snap,       \* the run's snapshots of the rules
  tests,      \* [phase -> [case -> the recorded result]]
  agents,     \* [agent -> status]
  events,     \* the events of the architecture branch
  child,      \* the child process: stages done, paid cost, how it ended
  evidence,   \* the evidence file of the child
  cost,       \* cost_usd of the run
  delivered   \* None, Failed, or the result with its artifacts

e2eVars == <<at, atWork, buildDir, since, snap, tests, agents, events, child, evidence, cost, delivered>>

Branches == {"architecture", "workspace", "rules"}
Sole(a) == <<a, 0>>    \* the agents that are there once
Agents == ({"orchestrator", "architecture", "workspace", "evolver", "gate"} \X {0})
            \cup ({"baseline", "candidate"} \X (1..Workers))

\* _initialise_e2e_agents and the state of a run that was just started.
E2EInit ==
  /\ at = [p \in Branches \cup {"main"} |-> IF p = "main" THEN "plan" ELSE "off"]
  /\ atWork = {}
  /\ buildDir = [rules |-> None, manifest |-> None, serial |-> 0]
  /\ since = None
  /\ snap = [baseline |-> None, candidate |-> None]
  /\ tests = [p \in {"baseline", "candidate"} |-> [c \in Cases |-> None]]
  /\ agents = [a \in Agents |-> "queued"]
  /\ events = << >>
  /\ child = [stage |-> "none", paid |-> 0, end |-> None]
  /\ evidence = None
  /\ cost = 0
  /\ delivered = None

BranchGoto(p, to) == at' = [at EXCEPT ![p] = to]

\* _agent_started, _agent_finished.
Agent(a, status) == agents' = [agents EXCEPT ![a] = status]

\* EvolutionRun.append: an event is recorded once.
AppendOnce(seq, e) == IF Contains(seq, e) THEN seq ELSE Append(seq, e)

-----------------------------------------------------------------------------
\* The main thread.

\* begin, _persist_scenario and the fan-out.
Plan ==
  /\ at["main"] = "plan"
  /\ at' = [p \in Branches \cup {"main"} |->
              IF p = "main" THEN "join" ELSE IF p = "rules" THEN "baseline" ELSE "start"]
  /\ Agent(Sole("orchestrator"), "running")
  /\ UNCHANGED <<atWork, buildDir, since, snap, tests, events, child, evidence, cost, delivered>>

Ended(b) == at[b] \in {"done", "failed"}

\* mutant: the first branch to fail ends the run
JoinEarly == (\A b \in Branches : Ended(b)) \/ (\E b \in Branches : at[b] = "failed")

\* Leaving the pool waits for every branch, also when one of them raised.
Joined == \A b \in Branches : Ended(b)

Join ==
  /\ at["main"] = "join"
  /\ Joined
  /\ IF \E b \in Branches : at[b] = "failed"
       THEN BranchGoto("main", "failed") /\ delivered' = Failed /\ UNCHANGED agents
       ELSE BranchGoto("main", "gate") /\ Agent(Sole("gate"), "running") /\ UNCHANGED delivered
  /\ UNCHANGED <<atWork, buildDir, since, snap, tests, events, child, evidence, cost>>

-----------------------------------------------------------------------------
\* The gate and the artifacts.

Passed(r) == r # None /\ r.passed

\* The cases whose result is not the one of the baseline.
Changed == {c \in Cases : tests["baseline"][c] # tests["candidate"][c]}

TargetFixed ==
  /\ ~Passed(tests["baseline"][TargetCase])
  /\ Passed(tests["candidate"][TargetCase]) /\ tests["candidate"][TargetCase].suppressed
ControlKept == Passed(tests["baseline"][ControlCase]) /\ Passed(tests["candidate"][ControlCase])
PassCount(phase) == Cardinality({c \in Cases : Passed(tests[phase][c])})

GatePasses ==
  /\ \A c \in Cases : Passed(tests["candidate"][c])
  /\ TargetFixed /\ ControlKept /\ Changed = {TargetCase}
  /\ PassCount("candidate") > PassCount("baseline")

\* The manifest, the diff and the package for the reviewer are read from the build directory.
Gate ==
  /\ at["main"] = "gate"
  /\ IF GatePasses /\ buildDir.manifest # None
       THEN /\ delivered' = [baseline |-> snap.baseline, candidate |-> snap.candidate,
                           manifest |-> buildDir.manifest, cost |-> cost]
            /\ BranchGoto("main", "succeeded")
            /\ Agent(Sole("gate"), "succeeded")
       ELSE delivered' = Failed /\ BranchGoto("main", "failed") /\ UNCHANGED agents
  /\ UNCHANGED <<atWork, buildDir, since, snap, tests, events, child, evidence, cost>>

-----------------------------------------------------------------------------
\* The workspace branch.

Workspace ==
  /\ at["workspace"] = "start"
  /\ \/ BranchGoto("workspace", "done") /\ Agent(Sole("workspace"), "succeeded")
     \/ BranchGoto("workspace", "failed") /\ Agent(Sole("workspace"), "running")
  /\ UNCHANGED <<atWork, buildDir, since, snap, tests, events, child, evidence, cost, delivered>>

-----------------------------------------------------------------------------
\* The rules branch.

\* The cases are dealt out to the workers in turn.
Shard(w) == {Golden[i] : i \in {i \in DOMAIN Golden : (i - 1) % Workers = w - 1}}

\* Shards without a case are not submitted.
Shards == {w \in 1..Workers : Shard(w) # {}}

\* _snapshot_rules for the baseline.
Snapshot ==
  /\ at["rules"] = "baseline"
  /\ snap' = [snap EXCEPT !.baseline = Baseline]
  /\ atWork' = {"baseline"} \X Shards
  /\ agents' = [a \in Agents |-> IF a \in atWork' THEN "running" ELSE agents[a]]
  /\ BranchGoto("rules", "baselineShards")
  /\ UNCHANGED <<buildDir, since, tests, events, child, evidence, cost, delivered>>

\* review_pr under a version of the rules: every golden case but the target passes the baseline.
Result(rules, c) ==
  [passed     |-> (c # TargetCase \/ c \in rules.fixed) /\ c \notin rules.broken,
   suppressed |-> c \in rules.fixed \cup rules.silenced]

\* execute_shard refuses a directory that is not the one it was started for; here it is the
\* run's own snapshot.
Phase == IF at["rules"] = "baselineShards" THEN "baseline" ELSE "candidate"
Rules == IF Phase = "baseline" THEN snap.baseline ELSE snap.candidate

ShardDone(w) ==
  /\ <<Phase, w>> \in atWork
  /\ tests' = [tests EXCEPT ![Phase] = [c \in Cases |-> IF c \in Shard(w) THEN Result(Rules, c) ELSE @[c]]]
  /\ atWork' = atWork \ {<<Phase, w>>}
  /\ Agent(<<Phase, w>>, "succeeded")
  /\ UNCHANGED <<at, buildDir, since, snap, events, child, evidence, cost, delivered>>

\* A shard whose process fails raises when all shards of the phase have ended.
ShardFails(w) ==
  /\ <<Phase, w>> \in atWork
  /\ atWork' = atWork \ {<<Phase, w>>}
  /\ UNCHANGED <<at, buildDir, since, snap, tests, agents, events, child, evidence, cost, delivered>>

PhaseEnds ==
  /\ at["rules"] \in {"baselineShards", "candidateShards"}
  /\ atWork = {}
  /\ IF \E w \in Shards : agents[<<Phase, w>>] # "succeeded"
       THEN BranchGoto("rules", "failed") /\ UNCHANGED agents
       ELSE IF Phase = "baseline"
         THEN BranchGoto("rules", "evolve") /\ Agent(Sole("evolver"), "running")
         ELSE BranchGoto("rules", "done") /\ UNCHANGED agents
  /\ UNCHANGED <<atWork, buildDir, since, snap, tests, events, child, evidence, cost, delivered>>

\* A cycle replaces the rules first and writes the manifest of them last.
BuildRules(rules) == buildDir' = [buildDir EXCEPT !.rules = rules, !.serial = @ + 1]
BuildManifest == buildDir' = [buildDir EXCEPT !.manifest = [rules |-> buildDir.rules, serial |-> buildDir.serial]]

\* run_evolution.py, whose own gate may refuse the candidate.
EvolveBuild ==
  /\ at["rules"] = "evolve"
  /\ since' = buildDir.manifest
  /\ \/ BranchGoto("rules", "failed") /\ UNCHANGED buildDir
     \/ BranchGoto("rules", "manifest") /\ \E rules \in Candidates : BuildRules(rules)
  /\ UNCHANGED <<atWork, snap, tests, agents, events, child, evidence, cost, delivered>>

EvolveManifest ==
  /\ at["rules"] = "manifest"
  /\ BuildManifest
  /\ BranchGoto("rules", "snapshot")
  /\ Agent(Sole("evolver"), "succeeded")
  /\ UNCHANGED <<atWork, since, snap, tests, events, child, evidence, cost, delivered>>

SnapshotCandidate ==
  /\ at["rules"] = "snapshot"
  /\ snap' = [snap EXCEPT !.candidate = buildDir.rules]
  /\ BranchGoto("rules", "validate")
  /\ UNCHANGED <<atWork, buildDir, since, tests, agents, events, child, evidence, cost, delivered>>

\* _validate_evolution_manifest: newer than the one before, and of the rules in the snapshot.
ManifestFits ==
  /\ buildDir.manifest # None
  /\ buildDir.manifest # since
  /\ buildDir.manifest.rules = snap.candidate

ValidateManifest ==
  /\ at["rules"] = "validate"
  /\ IF ManifestFits
       THEN /\ BranchGoto("rules", "candidateShards")
            /\ atWork' = {"candidate"} \X Shards
            /\ agents' = [a \in Agents |-> IF a \in atWork' THEN "running" ELSE agents[a]]
       ELSE BranchGoto("rules", "failed") /\ UNCHANGED <<atWork, agents>>
  /\ UNCHANGED <<buildDir, since, snap, tests, events, child, evidence, cost, delivered>>

\* Another cycle on the same build directory, once.
OutsideBuild ==
  /\ Outside /\ buildDir.serial <= 1
  /\ \E rules \in Candidates : BuildRules(rules)
  /\ UNCHANGED <<at, atWork, since, snap, tests, agents, events, child, evidence, cost, delivered>>

OutsideManifest ==
  /\ Outside /\ buildDir.rules # None
  /\ BuildManifest /\ buildDir' # buildDir
  /\ UNCHANGED <<at, atWork, since, snap, tests, agents, events, child, evidence, cost, delivered>>

-----------------------------------------------------------------------------
\* The architecture branch of a live run.

\* The profile is stopped, synchronized and started, and the child is spawned.
Spawn ==
  /\ at["architecture"] = "start"
  /\ Agent(Sole("architecture"), "running")
  /\ \/ BranchGoto("architecture", "failed") /\ UNCHANGED <<child, events>>
     \/ /\ BranchGoto("architecture", "watch")
        /\ child' = [child EXCEPT !.stage = "started"]
        /\ events' = AppendOnce(events, "review started")
  /\ UNCHANGED <<atWork, buildDir, since, snap, tests, evidence, cost, delivered>>

Following == [started |-> "reviewed", reviewed |-> "remedied", remedied |-> "rereviewed"]

\* The child pays for a task and saves its phase.
ChildStage ==
  /\ child.stage \in DOMAIN Following /\ child.end = None
  /\ \E c \in TaskCosts :
       child' = [child EXCEPT !.stage = Following[@], !.paid = @ + c]
  /\ UNCHANGED <<at, atWork, buildDir, since, snap, tests, agents, events, evidence, cost, delivered>>

\* The child ends, with evidence of the candidate or of the failure; the evidence of a failure
\* has no cost when the budget endpoint does not answer.
ChildEnds ==
  /\ child.stage # "none" /\ child.end = None
  /\ IF child.stage = "rereviewed"
       THEN /\ child' = [child EXCEPT !.end = "ready"]
            /\ evidence' = [status |-> "ready", cost |-> child.paid]
       ELSE /\ child' = [child EXCEPT !.end = "failed"]
            /\ evidence' \in {None, [status |-> "failed", cost |-> child.paid],
                              [status |-> "failed", cost |-> 0]}
  /\ UNCHANGED <<at, atWork, buildDir, since, snap, tests, agents, events, cost, delivered>>

\* _observe_architecture: the events after a look at the stages that phases.json shows.
Seen ==
  LET found == IF child.stage \in {"reviewed", "remedied", "rereviewed"}
               THEN AppendOnce(events, "finding") ELSE events
  IN IF child.stage \in {"remedied", "rereviewed"} THEN AppendOnce(found, "patch") ELSE found

Observe ==
  /\ at["architecture"] = "watch" /\ child.end = None
  /\ events' = Seen
  /\ UNCHANGED <<at, atWork, buildDir, since, snap, tests, agents, child, evidence, cost, delivered>>

\* mutant: the watch has no deadline
TimeoutNever == FALSE /\ UNCHANGED e2eVars

\* The deadline of the watch: the child is killed, and nothing is recorded of its cost.
Timeout ==
  /\ at["architecture"] = "watch" /\ child.end = None
  /\ child' = [child EXCEPT !.end = "killed"]
  /\ BranchGoto("architecture", "failed")
  /\ UNCHANGED <<atWork, buildDir, since, snap, tests, agents, events, evidence, cost, delivered>>

\* What the last look after the end of the child adds.
SeenAtEnd == Seen

\* The child has failed: its stage and cost are taken from the evidence.
ChildFailed ==
  /\ at["architecture"] = "watch" /\ child.end = "failed"
  /\ events' = IF evidence # None THEN AppendOnce(SeenAtEnd, "failure") ELSE SeenAtEnd
  /\ cost' = IF evidence # None THEN evidence.cost ELSE cost
  /\ BranchGoto("architecture", "failed")
  /\ UNCHANGED <<atWork, buildDir, since, snap, tests, agents, child, evidence, delivered>>

\* _record_architecture_evidence_cost, before the evidence is projected for the browser.
CostOfEvidence == evidence.cost

ChildReady ==
  /\ at["architecture"] = "watch" /\ child.end = "ready"
  /\ events' = SeenAtEnd
  /\ cost' = CostOfEvidence
  /\ BranchGoto("architecture", "project")
  /\ UNCHANGED <<atWork, buildDir, since, snap, tests, agents, child, evidence, delivered>>

\* generate_from_paths and the projection of the graph may refuse the evidence.
Project ==
  /\ at["architecture"] = "project"
  /\ \/ BranchGoto("architecture", "failed") /\ UNCHANGED <<agents, events, cost>>
     \/ /\ events' = AppendOnce(events, "rereview passed")
        /\ cost' = evidence.cost
        /\ Agent(Sole("architecture"), "succeeded")
        /\ BranchGoto("architecture", "done")
  /\ UNCHANGED <<atWork, buildDir, since, snap, tests, child, evidence, delivered>>

-----------------------------------------------------------------------------

Over == at["main"] \in {"succeeded", "failed"}

Done == Over /\ UNCHANGED e2eVars

Architecture == Spawn \/ Observe \/ Timeout \/ ChildFailed \/ ChildReady \/ Project
RulesStep ==
  \/ Snapshot \/ PhaseEnds \/ EvolveBuild \/ EvolveManifest \/ SnapshotCandidate \/ ValidateManifest
  \/ \E w \in Shards : ShardDone(w) \/ ShardFails(w)
Main == Plan \/ Join \/ Gate
Child == ChildStage \/ ChildEnds

E2ENext ==
  \/ Main \/ Workspace \/ RulesStep \/ Architecture \/ Child
  \/ OutsideBuild \/ OutsideManifest \/ Done

E2ESpec == E2EInit /\ [][E2ENext]_e2eVars

\* Every process is scheduled; the child ends at last, or the watch does at its deadline.
E2EFairSpec ==
  /\ E2ESpec
  /\ WF_e2eVars(Main) /\ WF_e2eVars(Workspace) /\ WF_e2eVars(RulesStep)
  /\ WF_e2eVars(ChildFailed \/ ChildReady \/ Project \/ Spawn) /\ WF_e2eVars(Timeout)

-----------------------------------------------------------------------------

Results == delivered \notin {None, Failed}

\* The variables keep their types, and an agent that works belongs to a branch that does.
E2ETypeOK ==
  /\ \A p \in {"baseline", "candidate"} : \A c \in Cases :
       tests[p][c] # None => tests[p][c].passed \in BOOLEAN
  /\ \A a \in atWork : agents[a] = "running"
  /\ cost <= child.paid
  /\ IsInjective(events)
  /\ atWork # {} => at["rules"] \in {"baselineShards", "candidateShards"}

\* A run that succeeds was measured on the two rule sets it hands over: the candidate passes
\* every case, fixes the target, and changes nothing else.
SuccessIsMeasured ==
  Results =>
    /\ delivered.baseline = Baseline
    /\ \A c \in Cases : Result(delivered.candidate, c).passed
    /\ \A c \in Cases \ {TargetCase} : Result(delivered.candidate, c) = Result(Baseline, c)

\* When a run has ended, none of its branches, shards or child processes is still at work: the
\* next run may take the profile and the build directory.
NothingOutlivesTheRun ==
  Over => atWork = {} /\ \A b \in Branches : Ended(b)
            /\ (child.stage = "none" \/ child.end # None)

\* The reviewer never reads that the re-review passed without the finding and the patch before
\* it, however the polls of the phases fall.
StagesAreTold ==
  \A i \in DOMAIN events :
    /\ events[i] = "patch" => \E j \in 1..(i - 1) : events[j] = "finding"
    /\ events[i] = "rereview passed" => \E j \in 1..(i - 1) : events[j] = "patch"

\* A projection that fails after three paid tasks does not hide what they cost.
PaidIsShown ==
  (Over /\ evidence # None /\ evidence.status = "ready" /\ child.end = "ready") => cost = child.paid

\* The manifest handed to the reviewer is the one of the candidate rules that were tested.
ManifestOfCandidate == Results => delivered.manifest.rules = delivered.candidate

\* A run that succeeds was measured on the two rule sets it hands over; what has ended left
\* nothing at work; and the reviewer reads the stages in order and what they cost.
RunIsMeasured ==
  /\ E2ETypeOK
  /\ SuccessIsMeasured
  /\ NothingOutlivesTheRun
  /\ StagesAreTold
  /\ PaidIsShown

\* Every run ends, whichever branch or process fails.
E2EEnds == <>Over

=============================================================================

-------------------------------- MODULE MCRuns --------------------------------
(***************************************************************************)
(* The runs a user starts and the profile they run in: the job manager of  *)
(* the interface (JobManager), one of its e2e runs (E2ERun), the start of  *)
(* a live one (LiveStart), the scoring of a development repeat             *)
(* (DevelopmentScore), the launches of an architecture evolution           *)
(* (ArchEvolution), and the files and the gateway process of the profile   *)
(* (ProfileFiles, ProfileRuntime). They share no state; "part" says which  *)
(* of them a behaviour is of, in which instance. In the others,            *)
(* JobManager, E2ERun, LiveStart and DevelopmentScore stay where they      *)
(* start and the rest has no state.                                        *)
(***************************************************************************)
EXTENDS TLC, JobManager, LiveStart, E2ERun, DevelopmentScore

CONSTANTS r1, r2, s1, s2

VARIABLES
  part,  \* the component this behaviour is of
  arch_pc, arch_run, arch_launches, arch_repository, arch_source, arch_branch, arch_worktree,
  arch_commits, arch_phases, arch_live, arch_state, arch_failures, arch_evidence, arch_refused,
  arch_tasks,  \* ArchEvolution
  files_settings, files_skill, files_source, files_beside, files_trouble, files_cmd,  \* ProfileFiles
  gateway_pidFile, gateway_attest, gateway_proc, gateway_cmd, gateway_harmed  \* ProfileRuntime

archVars == <<arch_pc, arch_run, arch_launches, arch_repository, arch_source, arch_branch,
  arch_worktree, arch_commits, arch_phases, arch_live, arch_state, arch_failures, arch_evidence,
  arch_refused, arch_tasks>>
filesVars == <<files_settings, files_skill, files_source, files_beside, files_trouble, files_cmd>>
gatewayVars == <<gateway_pidFile, gateway_attest, gateway_proc, gateway_cmd, gateway_harmed>>

vars == <<part, jobVars, e2eVars, liveVars, scoreVars, archVars, filesVars, gatewayVars>>

-----------------------------------------------------------------------------
\* A good candidate, one that breaks the control case and one that silences another.
NoChange   == [fixed |-> {}, broken |-> {}, silenced |-> {}]
ThreeCandidates ==
  {[NoChange EXCEPT !.fixed = {"target"}], [NoChange EXCEPT !.fixed = {"target"}, !.broken = {"control"}],
   [NoChange EXCEPT !.fixed = {"target"}, !.silenced = {"other"}]}

\* A case that cannot be decided, a clean one and one to refuse.
ScoreCases == <<
  [verdict |-> "incomplete", findings |-> <<>>],
  [verdict |-> "approve", findings |-> <<>>],
  [verdict |-> "changes", findings |-> <<[rule |-> "blocker", place |-> "first"],
                                         [rule |-> "major", place |-> "second"]>>]>>
PlacesNamed == {"first", "second", "nowhere"}
PlacesThere == {"first", "second"}
Thresholds == [precision |-> 50, recall |-> 50, outcome |-> 60, exact |-> 60]

\* Bound: runs and scenarios of the interface.
TwoRuns == {r1, r2}
TwoScenarios == {s1, s2}

\* Two shards for three cases.
GoldenCases == <<"target", "control", "other">>

\* Requests for live runs of either model.
TwoModels == {"a", "b"}
TwoRequests == {1, 2}

\* Five launches with a ledger that keeps what is sent; three with one that does not; and
\* four on what an earlier version left.
Replays == INSTANCE ArchEvolution WITH
  MaxSpend <- 3, Limit <- 4, MaxCommits <- 2, MaxTasks <- 4, LateLanding <- FALSE, Demo <- TRUE,
  Legacy <- FALSE, OwnerActs <- TRUE, MaxLaunches <- 5, pc <- arch_pc, run <- arch_run, launches <- arch_launches,
  repository <- arch_repository, source <- arch_source, branch <- arch_branch,
  worktree <- arch_worktree, commits <- arch_commits, phases <- arch_phases, live <- arch_live,
  state <- arch_state, failures <- arch_failures, evidence <- arch_evidence,
  refused <- arch_refused, tasks <- arch_tasks

Slips == INSTANCE ArchEvolution WITH
  MaxSpend <- 3, Limit <- 4, MaxCommits <- 2, MaxTasks <- 4, LateLanding <- TRUE, Demo <- FALSE,
  Legacy <- FALSE, OwnerActs <- FALSE, MaxLaunches <- 3, pc <- arch_pc, run <- arch_run, launches <- arch_launches,
  repository <- arch_repository, source <- arch_source, branch <- arch_branch,
  worktree <- arch_worktree, commits <- arch_commits, phases <- arch_phases, live <- arch_live,
  state <- arch_state, failures <- arch_failures, evidence <- arch_evidence,
  refused <- arch_refused, tasks <- arch_tasks

Inherited == INSTANCE ArchEvolution WITH
  MaxSpend <- 3, Limit <- 4, MaxCommits <- 2, MaxTasks <- 4, LateLanding <- FALSE, Demo <- FALSE,
  Legacy <- TRUE, OwnerActs <- FALSE, MaxLaunches <- 4, pc <- arch_pc, run <- arch_run, launches <- arch_launches,
  repository <- arch_repository, source <- arch_source, branch <- arch_branch,
  worktree <- arch_worktree, commits <- arch_commits, phases <- arch_phases, live <- arch_live,
  state <- arch_state, failures <- arch_failures, evidence <- arch_evidence,
  refused <- arch_refused, tasks <- arch_tasks

ProfileDir == INSTANCE ProfileFiles WITH
  Syncs <- {"sync", "init"}, Keys <- {}, FirstKeys <- {None}, NewKey <- "new",
  MaxTroubles <- 2, settings <- files_settings, skill <- files_skill, source <- files_source,
  beside <- files_beside, trouble <- files_trouble, cmd <- files_cmd

\* One command of each kind, with a key at first or without one.
ProfileKey == INSTANCE ProfileFiles WITH
  Syncs <- {"sync"}, Keys <- {"configure"}, FirstKeys <- {"old", None}, NewKey <- "new",
  MaxTroubles <- 2, settings <- files_settings, skill <- files_skill, source <- files_source,
  beside <- files_beside, trouble <- files_trouble, cmd <- files_cmd

ProfileGateway == INSTANCE ProfileRuntime WITH
  Starts <- {"start", "again"}, Stops <- {"stop"}, Pids <- {1, 2}, Kills <- TRUE,
  WriteFails <- FALSE, Recycles <- TRUE, pidFile <- gateway_pidFile, attest <- gateway_attest,
  proc <- gateway_proc, cmd <- gateway_cmd, harmed <- gateway_harmed

ASSUME MCRunsAssumption ==
  /\ JobAssumption
  /\ E2EAssumption
  /\ ScoreAssumption

-----------------------------------------------------------------------------
\* A component whose part it is not has no state.
archIdle ==
  /\ arch_pc = None /\ arch_run = None /\ arch_launches = None /\ arch_repository = None
  /\ arch_source = None /\ arch_branch = None /\ arch_worktree = None /\ arch_commits = None
  /\ arch_phases = None /\ arch_live = None /\ arch_state = None /\ arch_failures = None
  /\ arch_evidence = None /\ arch_refused = None /\ arch_tasks = None
filesIdle ==
  /\ files_settings = None /\ files_skill = None /\ files_source = None /\ files_beside = None
  /\ files_trouble = None /\ files_cmd = None
gatewayIdle ==
  /\ gateway_pidFile = None /\ gateway_attest = None /\ gateway_proc = None
  /\ gateway_cmd = None /\ gateway_harmed = None

Init ==
  /\ JobInit
  /\ LiveInit
  /\ E2EInit
  /\ ScoreInit
  /\ \/ part = "jobs" /\ archIdle /\ filesIdle /\ gatewayIdle
     \/ part = "e2e" /\ archIdle /\ filesIdle /\ gatewayIdle
     \/ part = "live" /\ archIdle /\ filesIdle /\ gatewayIdle
     \/ part = "score" /\ archIdle /\ filesIdle /\ gatewayIdle
     \/ part = "replays" /\ Replays!Init /\ filesIdle /\ gatewayIdle
     \/ part = "slips" /\ Slips!Init /\ filesIdle /\ gatewayIdle
     \/ part = "legacy" /\ Inherited!Init /\ filesIdle /\ gatewayIdle
     \/ part = "files" /\ ProfileDir!Init /\ archIdle /\ gatewayIdle
     \/ part = "key" /\ ProfileKey!Init /\ archIdle /\ gatewayIdle
     \/ part = "gateway" /\ ProfileGateway!Init /\ archIdle /\ filesIdle
  /\ part # "live" => profile = None

Next ==
  \/ /\ part = "jobs" /\ JobNext
     /\ UNCHANGED <<part, e2eVars, liveVars, scoreVars, archVars, filesVars, gatewayVars>>
  \/ /\ part = "e2e" /\ E2ENext
     /\ UNCHANGED <<part, jobVars, liveVars, scoreVars, archVars, filesVars, gatewayVars>>
  \/ /\ part = "live" /\ LiveNext
     /\ UNCHANGED <<part, jobVars, e2eVars, scoreVars, archVars, filesVars, gatewayVars>>
  \/ /\ part = "score" /\ ScoreNext
     /\ UNCHANGED <<part, jobVars, e2eVars, liveVars, archVars, filesVars, gatewayVars>>
  \/ /\ part = "replays" /\ Replays!Next
     /\ UNCHANGED <<part, jobVars, e2eVars, liveVars, scoreVars, filesVars, gatewayVars>>
  \/ /\ part = "slips" /\ Slips!Next
     /\ UNCHANGED <<part, jobVars, e2eVars, liveVars, scoreVars, filesVars, gatewayVars>>
  \/ /\ part = "legacy" /\ Inherited!Next
     /\ UNCHANGED <<part, jobVars, e2eVars, liveVars, scoreVars, filesVars, gatewayVars>>
  \/ /\ part = "files" /\ ProfileDir!Next
     /\ UNCHANGED <<part, jobVars, e2eVars, liveVars, scoreVars, archVars, gatewayVars>>
  \/ /\ part = "key" /\ ProfileKey!Next
     /\ UNCHANGED <<part, jobVars, e2eVars, liveVars, scoreVars, archVars, gatewayVars>>
  \/ /\ part = "gateway" /\ ProfileGateway!Next
     /\ UNCHANGED <<part, jobVars, e2eVars, liveVars, scoreVars, archVars, filesVars>>

Spec == Init /\ [][Next]_vars

-----------------------------------------------------------------------------
\* ArchEvolution: however a launch ends and however often the key is replayed, a stage is
\* paid for again only if an earlier task of it landed after its launch, or left the window
\* of the ledger, and after two equal failures nothing is. The evidence calls a candidate
\* ready only for the very commit that a completed re-review passed, made from a remediation
\* that succeeded on a review that found the defect, and is never replaced. A commit is
\* re-reviewed only when it holds the patch together with its decision record, also on a
\* branch made by a version of the script that knew of no record.
LaunchesAreTrue ==
  /\ [](part \in {"replays", "slips"} =>
          Replays!TypeOK /\ Replays!PaidAgainForCause /\ Replays!EvidenceIsTrue)
  /\ [][(part \in {"replays", "slips"}) =>
          Replays!StoppedStaysStopped /\ Replays!EvidenceStays]_vars
  /\ [](part = "legacy" => Inherited!CandidateReviewed)

\* ProfileFiles and ProfileRuntime: when all commands have ended the profile has its skill
\* again, however they moved it away from under each other and whichever operation failed,
\* or the one that puts it back has failed and the old one is still beside it; it is a whole
\* version unless the removal of an old one failed half-way or the repository changed during
\* the copy; no copy stays beside it that could be removed; and the key is lost only to a
\* command that read the settings before another one changed them. A stop answers "stopped"
\* only when the gateway it found is gone, and a start that answers that it failed leaves no
\* gateway of its own behind.
ProfileIsKept ==
  /\ [](part = "files" => /\ ProfileDir!TypeOK
                          /\ ProfileDir!SkillNeverLost
                          /\ ProfileDir!SkillIsWhole
                          /\ ProfileDir!NothingLeftBeside)
  /\ [](part = "key" => ProfileKey!TypeOK)
  /\ [][(part = "key") => ProfileKey!KeyKept]_vars
  /\ [](part = "gateway" => /\ ProfileGateway!TypeOK
                            /\ ProfileGateway!StoppedIsGone
                            /\ ProfileGateway!FailedStartLeavesNothing)

\* Runs are interchangeable, and so are scenarios.
Symmetry == Permutations({r1, r2}) \cup Permutations({s1, s2})
=============================================================================

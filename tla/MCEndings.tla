------------------------------- MODULE MCEndings ------------------------------
(***************************************************************************)
(* The runs, cycles, requests and commands that must end, each component   *)
(* with the fairness its scheduling gives: those of the job manager, of    *)
(* the evolver, of an e2e run, of the live start and of the profile's      *)
(* gateway. They share no state; "part" says which of them a behaviour is  *)
(* of.                                                                     *)
(***************************************************************************)
EXTENDS Naturals, Sequences, FiniteSets, TLC

CONSTANTS None, Failed

VARIABLES
  part,  \* the component this behaviour is of
  jobs_run, jobs_active, jobs_scenarios, jobs_recorded, jobs_thread, jobs_disk, jobs_newer,
  jobs_outcome, jobs_restarts, jobs_faults,  \* JobManager
  evolver_work, evolver_commits, evolver_head, evolver_refs, evolver_build, evolver_job,
  evolver_pub,  \* Evolver
  e2e_at, e2e_atWork, e2e_buildDir, e2e_since, e2e_snap, e2e_tests, e2e_agents, e2e_events,
  e2e_child, e2e_evidence, e2e_cost, e2e_delivered,  \* E2ERun
  live_profile, live_cache, live_active, live_request, live_clock,  \* LiveStart
  gateway_pidFile, gateway_attest, gateway_proc, gateway_cmd, gateway_harmed  \* ProfileRuntime

jobsVars == <<jobs_run, jobs_active, jobs_scenarios, jobs_recorded, jobs_thread, jobs_disk,
  jobs_newer, jobs_outcome, jobs_restarts, jobs_faults>>
evolverVars == <<evolver_work, evolver_commits, evolver_head, evolver_refs, evolver_build,
  evolver_job, evolver_pub>>
e2eVars == <<e2e_at, e2e_atWork, e2e_buildDir, e2e_since, e2e_snap, e2e_tests, e2e_agents,
  e2e_events, e2e_child, e2e_evidence, e2e_cost, e2e_delivered>>
liveVars == <<live_profile, live_cache, live_active, live_request, live_clock>>
gatewayVars == <<gateway_pidFile, gateway_attest, gateway_proc, gateway_cmd, gateway_harmed>>

vars == <<part, jobsVars, evolverVars, e2eVars, liveVars, gatewayVars>>

-----------------------------------------------------------------------------
Pair == {"one", "other"}

NoChange   == [fixed |-> {}, broken |-> {}, silenced |-> {}]
Candidates ==
  {[NoChange EXCEPT !.fixed = {"target"}], [NoChange EXCEPT !.fixed = {"target"}, !.broken = {"control"}],
   [NoChange EXCEPT !.fixed = {"target"}, !.silenced = {"other"}]}

\* Two attempts that fail, one at the validation of the mutation, before one that passes.
ThreeAttempts == <<<<"unsafe", "weak", "good">>>>
\* The architect's edits: with "odd", the first attempt validates, and raises when it is
\* applied; with "clash", so does the second, which is of the same version as the third.
Valid(rules, m) == m \notin rules /\ (m = "unsafe" => "odd" \in rules)
AppliesTo(rules, m) == m # "unsafe" /\ (m = "weak" => "clash" \notin rules)
VersionOf(m) == IF m = "unsafe" THEN "major" ELSE "patch"
Gate(corpus, base, cand) ==
  /\ "weak" \notin cand \ base
  /\ "good" \in cand \ base => corpus = 1

Jobs == INSTANCE JobManager WITH
  Runs <- Pair, Scenarios <- {"scenario"}, MaxRestarts <- 1, MaxFaults <- 2, run <- jobs_run,
  active <- jobs_active, scenarios <- jobs_scenarios, recorded <- jobs_recorded,
  thread <- jobs_thread, disk <- jobs_disk, newer <- jobs_newer, outcome <- jobs_outcome,
  restarts <- jobs_restarts, faults <- jobs_faults

Evolution == INSTANCE Evolver WITH
  Cycles <- {"cycle"}, Publishers <- {"publisher"}, Mutations <- {"unsafe", "weak", "good", "odd", "clash"},
  Proposed <- ThreeAttempts, Corpora <- {1, 2}, ApprovedPrecedents <- {1}, ValidMutation <- Valid,
  Applies <- AppliesTo, Bump <- VersionOf, GatePasses <- Gate, ArchitectActs <- TRUE, MaxCommits <- 3, work <- evolver_work,
  commits <- evolver_commits, head <- evolver_head, refs <- evolver_refs,
  build <- evolver_build, job <- evolver_job, pub <- evolver_pub

E2E == INSTANCE E2ERun WITH
  TargetCase <- "target", ControlCase <- "control", Golden <- <<"target", "control", "other">>,
  Workers <- 2, Outside <- FALSE, TaskCosts <- {1}, at <- e2e_at, atWork <- e2e_atWork,
  buildDir <- e2e_buildDir, since <- e2e_since, snap <- e2e_snap, tests <- e2e_tests,
  agents <- e2e_agents, events <- e2e_events, child <- e2e_child, evidence <- e2e_evidence,
  cost <- e2e_cost, delivered <- e2e_delivered

Live == INSTANCE LiveStart WITH
  Models <- {"a", "b"}, Requests <- {1, 2}, CacheSeconds <- 1, MaxClock <- 1,
  profile <- live_profile, cache <- live_cache, liveRun <- live_active, request <- live_request,
  clock <- live_clock

ProfileGateway == INSTANCE ProfileRuntime WITH
  Starts <- {"start", "again"}, Stops <- {"stop"}, Pids <- {1, 2}, Kills <- FALSE,
  WriteFails <- FALSE, Recycles <- FALSE, pidFile <- gateway_pidFile, attest <- gateway_attest,
  proc <- gateway_proc, cmd <- gateway_cmd, harmed <- gateway_harmed

-----------------------------------------------------------------------------
\* A component whose part it is not stays where it starts.
Init ==
  /\ part \in {"jobs", "evolver", "e2e", "live", "gateway"}
  /\ Jobs!JobInit
  /\ Evolution!EvolverInit
  /\ E2E!E2EInit
  /\ Live!LiveInit
  /\ ProfileGateway!Init
  /\ part # "evolver" => evolver_work.corpus = 1
  /\ part # "live" => live_profile = None

Next ==
  \/ /\ part = "jobs" /\ Jobs!JobNext
     /\ UNCHANGED <<part, evolverVars, e2eVars, liveVars, gatewayVars>>
  \/ /\ part = "evolver" /\ Evolution!EvolverNext
     /\ UNCHANGED <<part, jobsVars, e2eVars, liveVars, gatewayVars>>
  \/ /\ part = "e2e" /\ E2E!E2ENext
     /\ UNCHANGED <<part, jobsVars, evolverVars, liveVars, gatewayVars>>
  \/ /\ part = "live" /\ Live!LiveNext
     /\ UNCHANGED <<part, jobsVars, evolverVars, e2eVars, gatewayVars>>
  \/ /\ part = "gateway" /\ ProfileGateway!Next
     /\ UNCHANGED <<part, jobsVars, evolverVars, e2eVars, liveVars>>

Spec == Init /\ [][Next]_vars

\* Each component under its own fairness.
FairSpec ==
  /\ Spec
  /\ \A r \in Pair : WF_jobsVars(part = "jobs" /\ Jobs!Step(r))
  /\ WF_evolverVars(part = "evolver" /\ Evolution!CycleStep("cycle"))
  /\ WF_e2eVars(part = "e2e" /\ E2E!Main)
     /\ WF_e2eVars(part = "e2e" /\ E2E!Workspace)
     /\ WF_e2eVars(part = "e2e" /\ E2E!RulesStep)
     /\ WF_e2eVars(part = "e2e" /\ (E2E!ChildFailed \/ E2E!ChildReady \/ E2E!Project \/ E2E!Spawn))
     /\ WF_e2eVars(part = "e2e" /\ E2E!Timeout)
  /\ \A r \in {1, 2} : WF_liveVars(part = "live" /\ Live!RequestStep(r))
  /\ \A c \in {"start", "again", "stop"} : WF_gatewayVars(part = "gateway" /\ ProfileGateway!Step(c))

-----------------------------------------------------------------------------
\* JobManager, E2ERun, LiveStart and ProfileRuntime: a run that was started ends and its
\* thread lets go, whatever the files do and whichever of its branches or processes fails;
\* every request for a live run is answered, and every start or stop of the profile ends,
\* whatever the profile and its gateway do.
RunsEnd ==
  /\ (part = "jobs") => Jobs!RunsEnd
  /\ (part = "e2e") => E2E!E2EEnds
  /\ (part = "live") => Live!RequestsAnswered
  /\ (part = "gateway") => ProfileGateway!CommandsEnd

=============================================================================

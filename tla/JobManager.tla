------------------------------- MODULE JobManager -------------------------------
(***************************************************************************)
(* The runs of the self-evolution workbench: scripts/self_evolution_ui.py, *)
(* JobManager.  A client starts a run, one at a time; a thread executes    *)
(* it, writes down how it ended in the run's own file and then in the      *)
(* latest-run file, and turns the run into a failed one when something     *)
(* goes wrong, the writing included.  A new server shows the newest valid  *)
(* file as recorded evidence.  What a run does is E2ERun.                  *)
(*                                                                         *)
(* External: the file system.  A write that fails may have replaced the    *)
(* file before it failed (the directory is synced after the rename).       *)
(***************************************************************************)
EXTENDS Naturals, Sequences, FiniteSets, SequencesExt, Nothing

CONSTANTS
  Runs,        \* bound: run ids
  Scenarios,   \* bound: scenario ids
  MaxRestarts, \* bound: times the server dies
  MaxFaults    \* bound: failed writes

VARIABLES
  run,        \* _runs: what the server knows of each run, None before it and after a restart
  active,     \* _active_run_id
  scenarios,  \* the ids of _scenarios
  recorded,   \* _recorded_run
  thread,     \* where the thread that executes each run is
  disk,       \* the files, with the public run each holds
  newer,       \* which file was written after which
  outcome,    \* ghost: how the stages of each run ended
  restarts, faults

jobVars == <<run, active, scenarios, recorded, thread, disk, newer, outcome, restarts, faults>>

Files == Runs \cup {"latest"}
Modes == {"local", "live", "replay"}   \* replay stands for the lanes that are not e2e
Active == {"queued", "running"}
Terminal == {"succeeded", "failed"}
Outcomes == {"begun", "passed", "broken"}
Threads == {"start", "execute", "save", "save_latest", "fail", "resave", "resave_latest", "done"}

PublicRuns ==
  [id: Runs, state: Active \cup Terminal, mode: Modes, scenario: Scenarios \cup {None},
   result: BOOLEAN, error: BOOLEAN]

RunRecords ==
  [state: Active \cup Terminal, mode: Modes, scenario: Scenarios \cup {None},
   result: BOOLEAN, error: BOOLEAN, ended: Seq({"run.completed", "run.failed"}),
   recovery: PublicRuns \cup {None}]

JobAssumption ==
  /\ MaxRestarts \in Nat /\ MaxFaults \in Nat
  /\ "latest" \notin Runs
  /\ None \notin Runs /\ None \notin Outcomes /\ None \notin PublicRuns /\ None \notin RunRecords

-----------------------------------------------------------------------------
(* Public runs and their files.                                            *)

Public(r) ==
  [id |-> r, state |-> run[r].state, mode |-> run[r].mode, scenario |-> run[r].scenario,
   result |-> run[r].result, error |-> run[r].error]

\* _strict_public_envelope and _public_run_semantics_valid: a failed run has an error and no
\* result, one that succeeded has a result and no error.
Valid(p) ==
  /\ p.mode \in {"local", "live"}
  /\ \/ p.state = "failed" /\ p.error /\ ~p.result
     \/ p.state = "succeeded" /\ p.result /\ ~p.error

\* _load_recorded_run: the newest file that is valid.
IsValid(p) == p # None /\ Valid(p)

NewestValid(image, order, f) ==
  IsValid(image[f]) /\ \A g \in Files : <<g, f>> \in order => ~IsValid(image[g])

Recorded(image, order) ==
  IF \E f \in Files : NewestValid(image, order, f)
  THEN image[CHOOSE f \in Files : NewestValid(image, order, f)]
  ELSE None

Stored == {f \in Files : disk[f] # None}

\* _atomic_write
Replaced(f, p) ==
  /\ disk' = [disk EXCEPT ![f] = p]
  /\ newer' = {pair \in newer : f \notin {pair[1], pair[2]}} \cup {<<f, g>> : g \in Stored \ {f}}

Written(f, p) == Replaced(f, p) /\ UNCHANGED faults

NotWritten(f, p) ==
  /\ faults < MaxFaults
  /\ faults' = faults + 1
  /\ Replaced(f, p) \/ UNCHANGED <<disk, newer>>

JobInit ==
  /\ run = [r \in Runs |-> None]
  /\ active = None
  /\ scenarios = {}
  /\ recorded = None
  /\ thread = [r \in Runs |-> "none"]
  /\ disk = [f \in Files |-> None]
  /\ newer = {}
  /\ outcome = [r \in Runs |-> None]
  /\ restarts = 0
  /\ faults = 0

-----------------------------------------------------------------------------
(* Requests.                                                               *)

CreateScenario ==
  /\ \E s \in Scenarios \ scenarios : scenarios' = scenarios \cup {s}
  /\ UNCHANGED <<run, active, recorded, thread, disk, newer, outcome, restarts, faults>>

\* get: the run the server knows, or the recorded one.
Get(r) ==
  IF run[r] # None THEN Public(r)
  ELSE IF recorded # None /\ recorded.id = r THEN recorded ELSE None

\* A local run may recover a live run of the same scenario that has failed.
Recovers(src, s) ==
  src # None /\ src.state = "failed" /\ src.mode = "live" /\ src.scenario = s

RunningIsActive == active # None /\ run[active] # None /\ run[active].state = "running"   \* mutant
Busy == active # None /\ run[active] # None /\ run[active].state \in Active

\* start, once the request and the readiness of the runtime have been checked.
Start(r) ==
  /\ run[r] = None /\ outcome[r] = None
  /\ ~Busy
  /\ \E mode \in Modes, s \in Scenarios \cup {None}, src \in Runs \cup {None} :
       /\ mode # "replay" => s \in scenarios
       /\ mode = "replay" => s = None
       /\ src # None => mode = "local" /\ Recovers(Get(src), s)
       /\ run' = [run EXCEPT ![r] =
                    [state |-> "queued", mode |-> mode, scenario |-> s, result |-> FALSE,
                     error |-> FALSE, ended |-> <<>>,
                     recovery |-> IF src = None THEN None ELSE Get(src)]]
  /\ active' = r
  /\ thread' = [thread EXCEPT ![r] = "start"]
  /\ outcome' = [outcome EXCEPT ![r] = "begun"]
  /\ UNCHANGED <<scenarios, recorded, disk, newer, restarts, faults>>

-----------------------------------------------------------------------------
(* The thread of a run.                                                    *)

Goto(r, pc) == thread' = [thread EXCEPT ![r] = pc]

Begin(r) ==
  /\ thread[r] = "start"
  /\ run' = [run EXCEPT ![r].state = "running"]
  /\ Goto(r, "execute")
  /\ UNCHANGED <<active, scenarios, recorded, disk, newer, outcome, restarts, faults>>

\* append: an event id is kept once.
Event(r, e) == IF e \in Range(run[r].ended) THEN run[r].ended ELSE Append(run[r].ended, e)

Lanes(r, pc) == IF run[r].mode = "replay" THEN "done" ELSE pc

Complete(r) ==
  /\ thread[r] = "execute"
  /\ run' = [run EXCEPT ![r].state = "succeeded", ![r].result = TRUE,
                        ![r].ended = Event(r, "run.completed")]
  /\ outcome' = [outcome EXCEPT ![r] = "passed"]
  /\ Goto(r, Lanes(r, "save"))
  /\ UNCHANGED <<active, scenarios, recorded, disk, newer, restarts, faults>>

Break(r) ==
  /\ thread[r] = "execute"
  /\ outcome' = [outcome EXCEPT ![r] = "broken"]
  /\ Goto(r, "fail")
  /\ UNCHANGED <<run, active, scenarios, recorded, disk, newer, restarts, faults>>

\* _persist_terminal_run: the run's own file, then the latest-run file.  A write that fails
\* fails the run; when the run has failed already the failure is dropped.
Save(r) ==
  /\ thread[r] \in {"save", "save_latest", "resave", "resave_latest"}
  /\ LET f == IF thread[r] \in {"save", "resave"} THEN r ELSE "latest" IN
     \/ /\ Written(f, Public(r))
        /\ Goto(r, CASE thread[r] = "save" -> "save_latest"
                     [] thread[r] = "resave" -> "resave_latest"
                     [] OTHER -> "done")
     \/ /\ NotWritten(f, Public(r))
        /\ Goto(r, IF thread[r] \in {"save", "save_latest"} THEN "fail" ELSE "done")
  /\ UNCHANGED <<run, active, scenarios, recorded, outcome, restarts>>

\* _fail_run
Fail(r) ==
  /\ thread[r] = "fail"
  /\ run' = [run EXCEPT ![r].state = "failed", ![r].error = TRUE,
                        ![r].ended = Event(r, "run.failed")]
  /\ Goto(r, Lanes(r, "resave"))
  /\ UNCHANGED <<active, scenarios, recorded, disk, newer, outcome, restarts, faults>>

-----------------------------------------------------------------------------

\* The server dies, at any point of any thread; the next one starts with what the files say.
Restart ==
  /\ restarts < MaxRestarts
  /\ restarts' = restarts + 1
  /\ run' = [r \in Runs |-> None]
  /\ thread' = [r \in Runs |-> "none"]
  /\ active' = None
  /\ recorded' = Recorded(disk, newer)
  /\ scenarios' = IF recorded' = None THEN {} ELSE {recorded'.scenario}
  /\ UNCHANGED <<disk, newer, outcome, faults>>

Step(r) == Begin(r) \/ Complete(r) \/ Break(r) \/ Save(r) \/ Fail(r)

JobNext == CreateScenario \/ Restart \/ \E r \in Runs : Start(r) \/ Step(r)

JobSpec == JobInit /\ [][JobNext]_jobVars

\* The stages of a run end (every process they start has a timeout) and its thread runs on.
JobFairSpec == JobSpec /\ \A r \in Runs : WF_jobVars(Step(r))

-----------------------------------------------------------------------------
Known == {r \in Runs : run[r] # None}

TypeOK ==
  /\ run \in [Runs -> RunRecords \cup {None}]
  /\ active \in Runs \cup {None}
  /\ scenarios \subseteq Scenarios
  /\ recorded \in PublicRuns \cup {None}
  /\ thread \in [Runs -> Threads \cup {"none"}]
  /\ disk \in [Files -> PublicRuns \cup {None}]
  /\ newer \subseteq Stored \X Stored
  /\ outcome \in [Runs -> Outcomes \cup {None}]
  /\ restarts \in 0..MaxRestarts /\ faults \in 0..MaxFaults
  /\ \A r \in Runs : run[r] = None <=> thread[r] = "none"

\* The stages of two runs never overlap: they share the rules, the build directory and the
\* runtime's profile.
OneRunExecutes == Cardinality({r \in Known : run[r].state \in Active}) <= 1

\* A run that passes for recorded evidence ended the way it says, through failed writes,
\* restarts and the races of two runs that save.
EvidenceIsTrue ==
  \A p \in {disk[f] : f \in Stored} \cup ({recorded} \ {None}) :
    Valid(p) => outcome[p.id] = IF p.state = "succeeded" THEN "passed" ELSE "broken"

\* A local run stands for a live run of its scenario that failed, and that run never turns
\* out to have succeeded.
RecoveryOfAFailure ==
  \A r \in Known :
    run[r].recovery # None =>
      LET src == run[r].recovery IN
      /\ run[r].mode = "local" /\ src.mode = "live" /\ src.scenario = run[r].scenario
      /\ src.id # r
      /\ src.id \in Known => run[src.id].state = "failed"

\* A failed run stays failed; one that succeeded changes only because it could not be saved.
EndsAreFinal ==
  \A r \in Known :
    /\ run[r].state = "failed" => run'[r] = None \/ run'[r] = run[r]
    /\ run[r].state = "succeeded" =>
         run'[r] = None \/ run'[r].state = "succeeded" \/ (run'[r].state = "failed" /\ faults > 0)

\* The workbench shows what happened: one run executes at a time, what is shown as recorded
\* ended as it says, a recovery is of a run that failed, and an end stands.
JobsAreTrue ==
  /\ [](TypeOK /\ OneRunExecutes /\ EvidenceIsTrue /\ RecoveryOfAFailure)
  /\ [][EndsAreFinal]_jobVars

\* A run that was started ends and its thread lets go, whatever the files do.
RunsEnd == \A r \in Runs : (thread[r] = "start") ~> (thread[r] \in {"done", "none"})

\* The comment on _fail_run: what a run has saved in its own file is never rewritten.
NeverRewritten ==
  [][\A r \in Runs : disk[r] # None => disk'[r] = disk[r]]_jobVars
=============================================================================

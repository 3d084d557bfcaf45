---------------------------- MODULE JobManagerProofs ----------------------------
(***************************************************************************)
(* Proofs about the runs of the workbench (JobManager): at most one of     *)
(* them executes, what is shown as recorded evidence ended as it says, a   *)
(* local run stands for a live one that failed, and an end stands, for any *)
(* number of runs, scenarios, restarts and failed writes.  And about one   *)
(* e2e run (E2ERun): what it hands over was measured, for any tests, rule  *)
(* sets, number of workers and costs.                                      *)
(***************************************************************************)
EXTENDS JobManager, LiveStart, E2ERun, FiniteSetTheorems, TLAPS

-----------------------------------------------------------------------------
(* The inductive invariant.                                                *)

Saving == {"save", "save_latest"}
Resaving == {"resave", "resave_latest"}
Ends == {"passed", "broken"}

\* What a run, its thread and how its stages ended say of each other, after n failed writes.
\* A run that succeeded fails later only because it could not be saved; it keeps its result,
\* so nothing it writes then is valid.
Flow(w, t, o, n) ==
  /\ o \in Outcomes
  /\ w.mode # "replay" => w.scenario \in Scenarios
  /\ t = "start" => w.state = "queued"
  /\ t = "execute" => w.state = "running"
  /\ t \in {"start", "execute"} => o = "begun" /\ ~w.result /\ ~w.error
  /\ t \in Saving => w.state = "succeeded"
  /\ t = "fail" => \/ w.state = "running" /\ o = "broken" /\ ~w.result
                   \/ w.state = "succeeded" /\ n > 0
  /\ t \in Resaving => w.state = "failed"
  /\ t = "done" => w.state \in Terminal
  /\ w.state = "succeeded" => w.result /\ ~w.error /\ o = "passed"
  /\ w.state = "failed" => w.error /\ o \in Ends /\ (~w.result => o = "broken")

FlowOK == \A r \in Runs : run[r] # None => Flow(run[r], thread[r], outcome[r], faults)

OneActive == \A r \in Known : run[r].state \in Active => active = r

\* A public run whose stages have ended, the way it says if it is valid.
Truthful(p) ==
  /\ p.mode # "replay" => p.scenario \in Scenarios
  /\ outcome[p.id] \in Ends
  /\ Valid(p) => outcome[p.id] = IF p.state = "succeeded" THEN "passed" ELSE "broken"

EvidenceOK ==
  /\ \A f \in Files : disk[f] # None => Truthful(disk[f])
  /\ recorded # None => Truthful(recorded)

\* What the recovered run was when it was recovered, and that it has not run since.
Recovered(f, o, r, src) ==
  /\ f[r].mode = "local" /\ src.mode = "live" /\ src.scenario = f[r].scenario
  /\ src.id # r
  /\ o[src.id] # None
  /\ f[src.id] # None => f[src.id].state = "failed"

RecoveryOK ==
  \A r \in Known : run[r].recovery # None => Recovered(run, outcome, r, run[r].recovery)

IInv == TypeOK /\ FlowOK /\ OneActive /\ EvidenceOK /\ RecoveryOK

-----------------------------------------------------------------------------
(* The first state.                                                        *)

\* What a new server shows is one of the files.
LEMMA RecordedIs ==
  ASSUME NEW image, NEW order, Recorded(image, order) # None
  PROVE  \E f \in Files : Recorded(image, order) = image[f] /\ IsValid(image[f])
<1>1. \E f \in Files : NewestValid(image, order, f)
  BY DEF Recorded
<1> DEFINE f == CHOOSE f \in Files : NewestValid(image, order, f)
<1>2. f \in Files /\ NewestValid(image, order, f)
  BY <1>1
<1>3. Recorded(image, order) = image[f]
  BY <1>1 DEF Recorded
<1>4. QED
  BY <1>2, <1>3 DEF NewestValid

LEMMA InitHolds == ASSUME JobAssumption PROVE JobInit => IInv
<1> SUFFICES ASSUME JobInit PROVE IInv
  OBVIOUS
<1>1. TypeOK
  BY DEF JobInit, TypeOK, JobAssumption, Stored
<1>2. Known = {}
  BY DEF JobInit, Known
<1>3. QED
  BY <1>1, <1>2 DEF JobInit, IInv, FlowOK, OneActive, EvidenceOK, RecoveryOK, Known

-----------------------------------------------------------------------------
(* The thread of a run.                                                    *)

\* The thread of r goes from its record and its place to w and t, and the stages have ended
\* as o says.
Goes(r, w, t, o) ==
  /\ run' = [run EXCEPT ![r] = w]
  /\ thread' = [thread EXCEPT ![r] = t]
  /\ outcome' = [outcome EXCEPT ![r] = o]
  /\ UNCHANGED <<active, scenarios, recorded, disk, newer, restarts, faults>>

LEMMA RunGoes ==
  ASSUME JobAssumption, IInv, NEW r \in Runs, run[r] # None,
         NEW w \in RunRecords, NEW t \in Threads, NEW o \in Outcomes,
         Goes(r, w, t, o), Flow(w, t, o, faults),
         w.mode = run[r].mode, w.scenario = run[r].scenario, w.recovery = run[r].recovery,
         w.state \in Active => run[r].state \in Active,
         run[r].state = "failed" => w.state = "failed",
         outcome[r] \in Ends => o = outcome[r]
  PROVE  IInv'
<1>1. /\ run' \in [Runs -> RunRecords \cup {None}] /\ run'[r] = w
      /\ \A q \in Runs \ {r} : run'[q] = run[q]
  BY DEF IInv, TypeOK, Goes
<1>2. /\ thread' \in [Runs -> Threads \cup {"none"}] /\ thread'[r] = t
      /\ \A q \in Runs \ {r} : thread'[q] = thread[q]
  BY DEF IInv, TypeOK, Goes
<1>3. /\ outcome' \in [Runs -> Outcomes \cup {None}] /\ outcome'[r] = o
      /\ \A q \in Runs \ {r} : outcome'[q] = outcome[q]
  BY DEF IInv, TypeOK, Goes
<1>4. UNCHANGED <<active, scenarios, recorded, disk, newer, restarts, faults>>
  BY DEF Goes
<1>5. w # None /\ t # "none"
  BY DEF JobAssumption, Threads
<1>6. TypeOK'
  BY <1>1, <1>2, <1>3, <1>4, <1>5 DEF Stored, IInv, TypeOK
<1>7. Known' = Known
  BY <1>1, <1>5 DEF Known
<1>8. FlowOK'
  BY <1>1, <1>2, <1>3, <1>4 DEF IInv, FlowOK
<1>9. OneActive'
  BY <1>1, <1>4, <1>7 DEF IInv, OneActive, Known
<1>10. \A q \in Runs : outcome[q] \in Ends => outcome'[q] = outcome[q]
  BY <1>3
<1>11. \A p \in PublicRuns : Truthful(p) => Truthful(p)'
  BY <1>10 DEF Truthful, PublicRuns
<1>12. EvidenceOK'
  BY <1>4, <1>11 DEF IInv, TypeOK, EvidenceOK
<1>13. RecoveryOK'
  <2> SUFFICES ASSUME NEW q \in Known, run'[q].recovery # None
               PROVE  Recovered(run', outcome', q, run'[q].recovery)
    BY <1>7 DEF RecoveryOK
  <2> DEFINE src == run[q].recovery
  <2>1. /\ run'[q].recovery = src /\ run'[q].mode = run[q].mode
        /\ run'[q].scenario = run[q].scenario
    BY <1>1 DEF Known
  <2>2. Recovered(run, outcome, q, src) /\ src \in PublicRuns
    BY <2>1 DEF IInv, TypeOK, RecoveryOK, Known, RunRecords
  <2>3. src.id \in Runs
    BY <2>2 DEF PublicRuns
  <2>4. outcome'[src.id] # None
    BY <1>3, <2>2, <2>3 DEF Recovered, JobAssumption
  <2>5. run'[src.id] # None => run'[src.id].state = "failed"
    BY <1>1, <2>2, <2>3 DEF Recovered
  <2>6. QED
    BY <1>7, <2>1, <2>2, <2>4, <2>5 DEF Recovered
<1>14. QED
  BY <1>6, <1>8, <1>9, <1>12, <1>13 DEF IInv

\* What is known of a run whose thread is under way.
LEMMA UnderWay ==
  ASSUME IInv, NEW r \in Runs, thread[r] # "none"
  PROVE  /\ run[r] # None /\ run[r] \in RunRecords /\ outcome[r] \in Outcomes
         /\ Flow(run[r], thread[r], outcome[r], faults)
BY DEF IInv, TypeOK, FlowOK, Flow

LEMMA EventTyped ==
  ASSUME NEW r \in Runs, run[r] \in RunRecords, NEW e \in {"run.completed", "run.failed"}
  PROVE  Event(r, e) \in Seq({"run.completed", "run.failed"})
BY DEF Event, RunRecords

LEMMA BeginStep ==
  ASSUME JobAssumption, IInv, NEW r \in Runs, Begin(r)
  PROVE  IInv'
<1> DEFINE w == [run[r] EXCEPT !.state = "running"]
<1>1. thread[r] = "start" /\ run[r] # None /\ run[r] \in RunRecords /\ outcome[r] \in Outcomes
      /\ Flow(run[r], thread[r], outcome[r], faults)
  BY UnderWay DEF Begin
<1>2. /\ w \in RunRecords /\ w.state = "running"
      /\ w.mode = run[r].mode /\ w.scenario = run[r].scenario /\ w.recovery = run[r].recovery
      /\ w.result = run[r].result /\ w.error = run[r].error
  BY <1>1 DEF RunRecords, Active
<1>3. Goes(r, w, "execute", outcome[r])
  BY DEF Begin, Goes, Goto, IInv, TypeOK
<1> HIDE DEF w
<1>4. Flow(w, "execute", outcome[r], faults)
  BY <1>1, <1>2 DEF Flow, Saving, Resaving
<1>5. run[r].state \in Active
  BY <1>1 DEF Flow, Active
<1>6. QED
  BY <1>1, <1>2, <1>3, <1>4, <1>5, RunGoes DEF Threads, Active

LEMMA CompleteStep ==
  ASSUME JobAssumption, IInv, NEW r \in Runs, Complete(r)
  PROVE  IInv'
<1> DEFINE w == [run[r] EXCEPT !.state = "succeeded", !.result = TRUE,
                               !.ended = Event(r, "run.completed")]
           t == Lanes(r, "save")
<1>1. thread[r] = "execute" /\ run[r] # None /\ run[r] \in RunRecords /\ outcome[r] \in Outcomes
      /\ Flow(run[r], thread[r], outcome[r], faults)
  BY UnderWay DEF Complete
<1>2. /\ w \in RunRecords /\ w.state = "succeeded"
      /\ w.mode = run[r].mode /\ w.scenario = run[r].scenario /\ w.recovery = run[r].recovery
      /\ w.result /\ w.error = run[r].error
  BY <1>1, EventTyped DEF RunRecords, Terminal
<1>3. Goes(r, w, t, "passed")
  BY DEF Complete, Goes, Goto
<1>4. t \in {"save", "done"}
  BY DEF Lanes
<1> HIDE DEF w, t
<1>5. Flow(w, t, "passed", faults)
  BY <1>1, <1>2, <1>4 DEF Flow, Saving, Resaving, Outcomes, Terminal
<1>6. run[r].state = "running" /\ outcome[r] = "begun"
  BY <1>1 DEF Flow
<1>7. QED
  BY <1>1, <1>2, <1>3, <1>4, <1>5, <1>6, RunGoes DEF Threads, Active, Outcomes, Ends

LEMMA BreakStep ==
  ASSUME JobAssumption, IInv, NEW r \in Runs, Break(r)
  PROVE  IInv'
<1>1. thread[r] = "execute" /\ run[r] # None /\ run[r] \in RunRecords /\ outcome[r] \in Outcomes
      /\ Flow(run[r], thread[r], outcome[r], faults)
  BY UnderWay DEF Break
<1>2. Goes(r, run[r], "fail", "broken")
  BY DEF Break, Goes, Goto, IInv, TypeOK
<1>3. run[r].state = "running" /\ outcome[r] = "begun"
  BY <1>1 DEF Flow
<1>4. Flow(run[r], "fail", "broken", faults)
  BY <1>1, <1>3 DEF Flow, Saving, Resaving, Outcomes
<1>5. QED
  BY <1>1, <1>2, <1>3, <1>4, RunGoes DEF Threads, Outcomes, Ends

LEMMA FailStep ==
  ASSUME JobAssumption, IInv, NEW r \in Runs, Fail(r)
  PROVE  IInv'
<1> DEFINE w == [run[r] EXCEPT !.state = "failed", !.error = TRUE,
                               !.ended = Event(r, "run.failed")]
           t == Lanes(r, "resave")
<1>1. thread[r] = "fail" /\ run[r] # None /\ run[r] \in RunRecords /\ outcome[r] \in Outcomes
      /\ Flow(run[r], thread[r], outcome[r], faults)
  BY UnderWay DEF Fail
<1>2. /\ w \in RunRecords /\ w.state = "failed"
      /\ w.mode = run[r].mode /\ w.scenario = run[r].scenario /\ w.recovery = run[r].recovery
      /\ w.result = run[r].result /\ w.error
  BY <1>1, EventTyped DEF RunRecords, Terminal
<1>3. Goes(r, w, t, outcome[r])
  BY DEF Fail, Goes, Goto, IInv, TypeOK
<1>4. t \in {"resave", "done"}
  BY DEF Lanes
<1> HIDE DEF w, t
<1>5. Flow(w, t, outcome[r], faults)
  BY <1>1, <1>2, <1>4 DEF Flow, Saving, Resaving, Outcomes, Terminal, Ends
<1>6. QED
  BY <1>1, <1>2, <1>3, <1>4, <1>5, RunGoes DEF Threads, Active

-----------------------------------------------------------------------------
(* The files.                                                              *)

\* What a run whose stages have ended writes is truthful.
LEMMA PublicTruthful ==
  ASSUME IInv, NEW r \in Runs, thread[r] \in Saving \cup Resaving
  PROVE  Public(r) \in PublicRuns /\ Truthful(Public(r))
<1>1. run[r] # None /\ run[r] \in RunRecords /\ Flow(run[r], thread[r], outcome[r], faults)
  BY UnderWay DEF Saving, Resaving
<1>2. Public(r) \in PublicRuns
  BY <1>1 DEF Public, PublicRuns, RunRecords
<1> DEFINE p == Public(r)
<1>3. /\ p.id = r /\ p.state = run[r].state /\ p.mode = run[r].mode
      /\ p.scenario = run[r].scenario /\ p.result = run[r].result /\ p.error = run[r].error
  BY DEF Public
<1> HIDE DEF p
<1>4. run[r].state \in {"succeeded", "failed"}
  BY <1>1 DEF Flow
<1>5. /\ run[r].mode # "replay" => run[r].scenario \in Scenarios
      /\ run[r].state = "succeeded" => outcome[r] = "passed"
      /\ run[r].state = "failed" => outcome[r] \in Ends
      /\ run[r].state = "failed" /\ ~run[r].result => outcome[r] = "broken"
  BY <1>1 DEF Flow
<1>6. outcome[r] \in Ends
  BY <1>4, <1>5 DEF Ends
<1>7. Valid(p) => outcome[r] = IF run[r].state = "succeeded" THEN "passed" ELSE "broken"
  BY <1>3, <1>4, <1>5 DEF Valid
<1>8. Truthful(p)
  BY <1>3, <1>5, <1>6, <1>7 DEF Truthful
<1>9. QED
  BY <1>2, <1>8 DEF p

LEMMA SaveStep ==
  ASSUME JobAssumption, IInv, NEW r \in Runs, Save(r)
  PROVE  IInv'
<1> DEFINE p == Public(r)
<1>1. thread[r] \in Saving \cup Resaving /\ p \in PublicRuns /\ Truthful(p) /\ p # None
  BY PublicTruthful DEF Save, Saving, Resaving, JobAssumption
<1> HIDE DEF p
<1>2. UNCHANGED <<run, active, scenarios, recorded, outcome, restarts>>
  BY DEF Save
<1>3. /\ \/ \E f \in Files : Replaced(f, p)
         \/ UNCHANGED <<disk, newer>>
      /\ faults' \in 0..MaxFaults /\ faults' >= faults
  <2>1. r \in Files /\ "latest" \in Files /\ faults \in 0..MaxFaults
    BY DEF Files, IInv, TypeOK
  <2>2. QED
    BY <2>1 DEF Save, Written, NotWritten, p, JobAssumption
<1>4. PICK t \in Threads :
        /\ thread' = [thread EXCEPT ![r] = t]
        /\ thread[r] \in Saving => t \in {"save_latest", "done"} \/ (t = "fail" /\ faults' > 0)
        /\ thread[r] \in Resaving => t \in {"resave_latest", "done"}
  <2>1. faults \in 0..MaxFaults
    BY DEF IInv, TypeOK
  <2>2. CASE Written(IF thread[r] \in {"save", "resave"} THEN r ELSE "latest", Public(r))
             /\ Goto(r, CASE thread[r] = "save" -> "save_latest"
                          [] thread[r] = "resave" -> "resave_latest"
                          [] OTHER -> "done")
    BY <1>1, <2>2 DEF Goto, Saving, Resaving, Threads
  <2>3. CASE NotWritten(IF thread[r] \in {"save", "resave"} THEN r ELSE "latest", Public(r))
             /\ Goto(r, IF thread[r] \in {"save", "save_latest"} THEN "fail" ELSE "done")
    <3>1. faults' > 0
      BY <2>1, <2>3 DEF NotWritten, JobAssumption
    <3>2. QED
      BY <1>1, <2>3, <3>1 DEF Goto, Saving, Resaving, Threads
  <2>4. QED
    BY <2>2, <2>3 DEF Save
<1>5. /\ thread' \in [Runs -> Threads \cup {"none"}] /\ thread'[r] = t /\ t # "none"
      /\ thread[r] # "none" /\ \A q \in Runs \ {r} : thread'[q] = thread[q]
  BY <1>1, <1>4 DEF IInv, TypeOK, Threads, Saving, Resaving
<1>6. /\ disk' \in [Files -> PublicRuns \cup {None}]
      /\ newer' \subseteq Stored' \X Stored'
      /\ \A f \in Files : disk'[f] \in {disk[f], p}
  <2>1. ASSUME UNCHANGED <<disk, newer>>
        PROVE  /\ disk' \in [Files -> PublicRuns \cup {None}]
               /\ newer' \subseteq Stored' \X Stored'
               /\ \A g \in Files : disk'[g] \in {disk[g], p}
    BY <2>1 DEF Stored, IInv, TypeOK
  <2>2. ASSUME NEW f \in Files, Replaced(f, p)
        PROVE  /\ disk' \in [Files -> PublicRuns \cup {None}]
               /\ newer' \subseteq Stored' \X Stored'
               /\ \A g \in Files : disk'[g] \in {disk[g], p}
    <3>1. /\ disk' \in [Files -> PublicRuns \cup {None}] /\ disk'[f] = p
          /\ \A g \in Files \ {f} : disk'[g] = disk[g]
      BY <1>1, <2>2 DEF Replaced, IInv, TypeOK
    <3>2. Stored' = Stored \cup {f}
      BY <1>1, <3>1 DEF Stored
    <3>3. newer \subseteq Stored \X Stored
      BY DEF IInv, TypeOK
    <3>4. newer' \subseteq Stored' \X Stored'
      BY <2>2, <3>2, <3>3 DEF Replaced
    <3>5. QED
      BY <3>1, <3>4
  <2>3. QED
    BY <1>3, <2>1, <2>2
<1>7. TypeOK'
  BY <1>2, <1>3, <1>5, <1>6 DEF IInv, TypeOK
<1>8. FlowOK'
  <2> SUFFICES ASSUME NEW q \in Runs, run'[q] # None
               PROVE  Flow(run'[q], thread'[q], outcome'[q], faults')
    BY DEF FlowOK
  <2>1. Flow(run[q], thread[q], outcome[q], faults)
    BY <1>2 DEF IInv, FlowOK
  <2>2. faults \in Nat /\ faults' \in Nat /\ faults' >= faults
    BY <1>3 DEF IInv, TypeOK
  <2>3. CASE q # r
    BY <1>2, <1>5, <2>1, <2>2, <2>3 DEF Flow
  <2>4. CASE q = r
    BY <1>1, <1>2, <1>4, <1>5, <2>1, <2>2, <2>4 DEF Flow, Saving, Resaving, Terminal
  <2>5. QED
    BY <2>3, <2>4
<1>9. EvidenceOK'
  BY <1>1, <1>2, <1>6 DEF IInv, EvidenceOK, Truthful
<1>10. OneActive' /\ RecoveryOK'
  BY <1>2 DEF IInv, OneActive, RecoveryOK, Recovered, Known
<1>11. QED
  BY <1>7, <1>8, <1>9, <1>10 DEF IInv

-----------------------------------------------------------------------------
(* Requests and restarts.                                                  *)

LEMMA CreateStep == ASSUME JobAssumption, IInv, CreateScenario PROVE IInv'
<1>1. UNCHANGED <<run, active, recorded, thread, disk, newer, outcome, restarts, faults>>
      /\ scenarios' \subseteq Scenarios
  BY DEF CreateScenario, IInv, TypeOK
<1>2. TypeOK'
  BY <1>1 DEF Stored, IInv, TypeOK
<1>3. FlowOK' /\ OneActive' /\ EvidenceOK' /\ RecoveryOK'
  BY <1>1 DEF IInv, FlowOK, OneActive, EvidenceOK, Truthful, RecoveryOK, Recovered, Known
<1>4. QED
  BY <1>2, <1>3 DEF IInv

\* What a request gets of a run has the id of the run, and a failed one has ended.
LEMMA GetOf ==
  ASSUME JobAssumption, IInv, NEW src \in Runs \cup {None}, Get(src) # None, src # None
  PROVE  /\ Get(src) \in PublicRuns /\ Get(src).id = src
         /\ outcome[src] # None
         /\ run[src] # None => run[src].state = Get(src).state
<1>1. CASE run[src] # None
  <2>1. run[src] \in RunRecords /\ outcome[src] \in Outcomes
    BY <1>1 DEF IInv, TypeOK, FlowOK, Flow
  <2>2. Get(src) = Public(src)
    BY <1>1 DEF Get
  <2>3. QED
    BY <2>1, <2>2 DEF Public, PublicRuns, RunRecords, JobAssumption
<1>2. CASE run[src] = None
  <2>1. Get(src) = recorded /\ recorded # None /\ recorded.id = src
    BY <1>2 DEF Get
  <2>2. recorded \in PublicRuns /\ outcome[src] \in Ends
    BY <2>1 DEF IInv, TypeOK, EvidenceOK, Truthful
  <2>3. QED
    BY <1>2, <2>1, <2>2 DEF Known, Ends, Outcomes, JobAssumption
<1>3. QED
  BY <1>1, <1>2

LEMMA StartStep ==
  ASSUME JobAssumption, IInv, NEW r \in Runs, Start(r)
  PROVE  IInv'
<1>1. PICK mode \in Modes, s \in Scenarios \cup {None}, src \in Runs \cup {None} :
       /\ mode # "replay" => s \in scenarios
       /\ src # None => mode = "local" /\ Recovers(Get(src), s)
       /\ run' = [run EXCEPT ![r] =
                    [state |-> "queued", mode |-> mode, scenario |-> s, result |-> FALSE,
                     error |-> FALSE, ended |-> <<>>,
                     recovery |-> IF src = None THEN None ELSE Get(src)]]
  BY DEF Start
<1> DEFINE rec == IF src = None THEN None ELSE Get(src)
           w == [state |-> "queued", mode |-> mode, scenario |-> s, result |-> FALSE,
                 error |-> FALSE, ended |-> <<>>, recovery |-> rec]
<1>2. /\ run[r] = None /\ outcome[r] = None /\ ~Busy /\ active' = r
      /\ thread' = [thread EXCEPT ![r] = "start"] /\ outcome' = [outcome EXCEPT ![r] = "begun"]
      /\ UNCHANGED <<scenarios, recorded, disk, newer, restarts, faults>>
  BY DEF Start
<1>3. /\ rec \in PublicRuns \cup {None}
      /\ rec # None => /\ mode = "local" /\ rec.mode = "live" /\ rec.scenario = s
                       /\ outcome[rec.id] # None
                       /\ run[rec.id] # None => run[rec.id].state = "failed"
  BY <1>1, GetOf DEF Recovers
<1>4. /\ w \in RunRecords /\ w.state = "queued" /\ w.mode = mode /\ w.scenario = s
      /\ ~w.result /\ ~w.error /\ w.recovery = rec
  BY <1>3 DEF RunRecords, Active
<1> HIDE DEF w, rec
<1>5. /\ run' \in [Runs -> RunRecords \cup {None}] /\ run'[r] = w /\ w # None
      /\ \A q \in Runs \ {r} : run'[q] = run[q]
  BY <1>1, <1>4 DEF IInv, TypeOK, JobAssumption, w, rec
<1>6. /\ thread' \in [Runs -> Threads \cup {"none"}] /\ thread'[r] = "start"
      /\ \A q \in Runs \ {r} : thread'[q] = thread[q]
  BY <1>2 DEF IInv, TypeOK, Threads
<1>7. /\ outcome' \in [Runs -> Outcomes \cup {None}] /\ outcome'[r] = "begun"
      /\ \A q \in Runs \ {r} : outcome'[q] = outcome[q]
  BY <1>2 DEF IInv, TypeOK, Outcomes
<1>8. TypeOK'
  BY <1>2, <1>5, <1>6, <1>7 DEF Stored, IInv, TypeOK
<1>9. Known' = Known \cup {r} /\ r \notin Known
  BY <1>2, <1>5 DEF Known
<1>10. FlowOK'
  <2>1. s \in Scenarios \/ mode = "replay"
    BY <1>1 DEF IInv, TypeOK
  <2>2. Flow(w, "start", "begun", faults)
    BY <1>4, <2>1 DEF Flow, Saving, Resaving, Outcomes
  <2>3. QED
    BY <1>2, <1>5, <1>6, <1>7, <2>2 DEF IInv, FlowOK
<1>11. OneActive'
  <2>1. \A q \in Known : run[q].state \notin Active
    BY <1>2 DEF IInv, OneActive, Busy, Known, TypeOK, JobAssumption
  <2>2. QED
    BY <1>2, <1>5, <1>9, <2>1 DEF OneActive, Known
<1>12. \A q \in Runs : outcome[q] # None => q # r /\ outcome'[q] = outcome[q]
  BY <1>2, <1>7
<1>13. \A p \in PublicRuns : Truthful(p) => Truthful(p)'
  BY <1>12 DEF Truthful, PublicRuns, Ends, Outcomes, JobAssumption
<1>14. EvidenceOK'
  BY <1>2, <1>13 DEF IInv, TypeOK, EvidenceOK
<1>15. RecoveryOK'
  <2> SUFFICES ASSUME NEW q \in Known \cup {r}, run'[q].recovery # None
               PROVE  Recovered(run', outcome', q, run'[q].recovery)
    BY <1>9 DEF RecoveryOK
  <2>1. CASE q = r
    <3>1. rec # None /\ rec.id \in Runs /\ rec.id # r
      BY <1>2, <1>3, <1>4, <1>5, <2>1 DEF PublicRuns
    <3>2. outcome'[rec.id] # None
      BY <1>3, <1>12, <3>1
    <3>3. run'[rec.id] # None => run'[rec.id].state = "failed"
      BY <1>3, <1>5, <1>9, <3>1
    <3>4. QED
      BY <1>3, <1>4, <1>5, <2>1, <3>1, <3>2, <3>3 DEF Recovered
  <2>2. CASE q # r
    <3> DEFINE old == run[q].recovery
    <3>1. q \in Known /\ run'[q] = run[q] /\ old # None
      BY <1>5, <2>2 DEF Known
    <3>2. Recovered(run, outcome, q, old) /\ old.id \in Runs
      BY <3>1 DEF IInv, TypeOK, RecoveryOK, Known, RunRecords, PublicRuns
    <3>3. old.id # r /\ outcome'[old.id] # None
      BY <1>12, <3>2 DEF Recovered
    <3>4. run'[old.id] # None => run'[old.id].state = "failed"
      BY <1>5, <1>9, <3>2, <3>3 DEF Recovered
    <3>5. QED
      BY <3>1, <3>2, <3>3, <3>4 DEF Recovered
  <2>3. QED
    BY <2>1, <2>2
<1>16. QED
  BY <1>8, <1>10, <1>11, <1>14, <1>15 DEF IInv

LEMMA RestartStep == ASSUME JobAssumption, IInv, Restart PROVE IInv'
<1>1. /\ run' = [r \in Runs |-> None] /\ thread' = [r \in Runs |-> "none"] /\ active' = None
      /\ recorded' = Recorded(disk, newer) /\ UNCHANGED <<disk, newer, outcome, faults>>
      /\ scenarios' = IF recorded' = None THEN {} ELSE {recorded'.scenario}
      /\ restarts' \in 0..MaxRestarts
  BY DEF Restart, IInv, TypeOK, JobAssumption
<1>2. Known' = {}
  BY <1>1 DEF Known
<1>3. recorded' # None => recorded' \in PublicRuns /\ Truthful(recorded') /\ Valid(recorded')
  <2> SUFFICES ASSUME recorded' # None
               PROVE  recorded' \in PublicRuns /\ Truthful(recorded') /\ Valid(recorded')
    OBVIOUS
  <2>1. PICK f \in Files : recorded' = disk[f] /\ IsValid(disk[f])
    BY <1>1, RecordedIs
  <2>2. QED
    BY <2>1 DEF IInv, TypeOK, EvidenceOK, IsValid
<1>4. scenarios' \subseteq Scenarios
  BY <1>1, <1>3 DEF Truthful, Valid
<1>5. TypeOK'
  BY <1>1, <1>3, <1>4 DEF Stored, IInv, TypeOK
<1>6. EvidenceOK'
  BY <1>1, <1>3 DEF IInv, EvidenceOK, Truthful
<1>7. FlowOK' /\ OneActive' /\ RecoveryOK'
  BY <1>1, <1>2 DEF FlowOK, OneActive, RecoveryOK
<1>8. QED
  BY <1>5, <1>6, <1>7 DEF IInv

-----------------------------------------------------------------------------
(* The theorems.                                                           *)

LEMMA NextHolds == ASSUME JobAssumption PROVE IInv /\ [JobNext]_jobVars => IInv'
<1> SUFFICES ASSUME IInv, [JobNext]_jobVars PROVE IInv'
  OBVIOUS
<1>1. CASE UNCHANGED jobVars
  BY <1>1 DEF Stored, jobVars, IInv, TypeOK, FlowOK, OneActive, EvidenceOK, Truthful, RecoveryOK,
     Recovered, Known
<1>2. CASE CreateScenario
  BY <1>2, CreateStep
<1>3. CASE Restart
  BY <1>3, RestartStep
<1>4. ASSUME NEW r \in Runs, Start(r) PROVE IInv'
  BY <1>4, StartStep
<1>5. ASSUME NEW r \in Runs, Step(r) PROVE IInv'
  BY <1>5, BeginStep, CompleteStep, BreakStep, SaveStep, FailStep DEF Step
<1>6. QED
  BY <1>1, <1>2, <1>3, <1>4, <1>5 DEF JobNext

\* The invariant holds in every state.
LEMMA InvariantHolds == ASSUME JobAssumption PROVE JobSpec => []IInv
<1>1. JobInit => IInv
  BY InitHolds
<1>2. IInv /\ [JobNext]_jobVars => IInv'
  BY NextHolds
<1>3. QED
  BY <1>1, <1>2, PTL DEF JobSpec

LEMMA InvariantMeans ==
  ASSUME JobAssumption, IInv
  PROVE  TypeOK /\ OneRunExecutes /\ EvidenceIsTrue /\ RecoveryOfAFailure
<1>1. OneRunExecutes
  <2> DEFINE S == {r \in Known : run[r].state \in Active}
  <2>1. S \subseteq {active}
    BY DEF IInv, OneActive
  <2>2. IsFiniteSet({active}) /\ Cardinality({active}) = 1
    BY FS_Singleton
  <2>3. Cardinality(S) <= 1
    BY <2>1, <2>2, FS_Subset
  <2>4. QED
    BY <2>3 DEF OneRunExecutes
<1>2. EvidenceIsTrue
  BY DEF Stored, IInv, EvidenceOK, Truthful, EvidenceIsTrue
<1>3. RecoveryOfAFailure
  BY DEF IInv, RecoveryOK, Recovered, RecoveryOfAFailure, Known
<1>4. QED
  BY <1>1, <1>2, <1>3 DEF IInv

\* A run that has ended is changed only by its own thread, and then only because it could
\* not be saved.
LEMMA EndsStand ==
  ASSUME JobAssumption
  PROVE  IInv /\ [JobNext]_jobVars => [EndsAreFinal]_jobVars
<1> SUFFICES ASSUME IInv, JobNext, NEW q \in Known
             PROVE  /\ run[q].state = "failed" => run'[q] = None \/ run'[q] = run[q]
                    /\ run[q].state = "succeeded" =>
                         \/ run'[q] = None \/ run'[q].state = "succeeded"
                         \/ run'[q].state = "failed" /\ faults > 0
  BY DEF EndsAreFinal
<1> DEFINE Stands == run'[q] = run[q]
<1>1. q \in Runs /\ run[q] # None /\ run[q] \in RunRecords
      /\ Flow(run[q], thread[q], outcome[q], faults)
  BY DEF Known, IInv, TypeOK, FlowOK
<1>2. CASE CreateScenario
  BY <1>2 DEF CreateScenario
<1>3. CASE Restart
  BY <1>1, <1>3 DEF Restart
<1>4. ASSUME NEW r \in Runs, Start(r) PROVE Stands
  <2>1. q # r /\ \E w : run' = [run EXCEPT ![r] = w]
    BY <1>1, <1>4 DEF Start
  <2>2. QED
    BY <1>1, <2>1 DEF IInv, TypeOK
<1>5. ASSUME NEW r \in Runs, r # q, Step(r) PROVE Stands
  BY <1>1, <1>5 DEF Step, Begin, Complete, Break, Save, Fail, IInv, TypeOK
<1>6. CASE Begin(q) \/ Complete(q)
  BY <1>1, <1>6 DEF Begin, Complete, Flow
<1>7. CASE Break(q) \/ Save(q)
  BY <1>7 DEF Break, Save
<1>8. CASE Fail(q)
  BY <1>1, <1>8 DEF Fail, Flow, IInv, TypeOK
<1>9. QED
  BY <1>2, <1>3, <1>4, <1>5, <1>6, <1>7, <1>8 DEF JobNext, Step

\* The workbench shows what happened (self_evolution_ui.JobManager): one run executes at a
\* time, recorded evidence ended as it says, a local run stands for a live one that failed,
\* and an end changes only because it could not be saved; through restarts, failed
\* writes and runs that save at the same time.
THEOREM WorkbenchIsTrue == ASSUME JobAssumption PROVE JobSpec => JobsAreTrue
<1>1. IInv => TypeOK /\ OneRunExecutes /\ EvidenceIsTrue /\ RecoveryOfAFailure
  BY InvariantMeans
<1>2. IInv /\ [JobNext]_jobVars => [EndsAreFinal]_jobVars
  BY EndsStand
<1>3. QED
  BY <1>1, <1>2, InvariantHolds, PTL DEF JobSpec, JobsAreTrue
-----------------------------------------------------------------------------
(* The live start.  A request is a record from its beginning, its answer   *)
(* is one of two where it has one, and so is every kept answer.            *)

Answers == {"ready", "failed"}
Probes == {"cache", "status", "preflight", "stop", "launch", "again", "tools"}
Answered == {"store", "answered"}

RequestRecords ==
  [pc : Probes \cup Answered \cup {"done"}, model : Models,
   kind : {"readiness", "forced", "start"}, answer : Answers \cup {None}]

Served(q) == q.pc \in Answered => q.answer \in Answers

CacheOK == \A m \in Models : cache[m] # None => cache[m].status \in Answers

LiveRuns == [model : Models, pc : {"stop", "launch", "work"}, by : Requests]

LiveInv ==
  /\ profile \in Models \cup {None}
  /\ request \in [Requests -> RequestRecords \cup {NoRequest}]
  /\ \A r \in Requests : Served(request[r])
  /\ DOMAIN cache = Models /\ CacheOK
  /\ liveRun # None => liveRun \in LiveRuns

LEMMA LiveStarts == LiveInit => LiveInv
BY DEF LiveInit, LiveInv, NoRequest, Served, Answered, CacheOK

\* A request that is anywhere but at its beginning is a record.
LEMMA RequestUnderWay ==
  ASSUME LiveInv, NEW r \in Requests, request[r].pc # "idle"
  PROVE  request[r] \in RequestRecords
BY DEF LiveInv, NoRequest

\* What becomes of the requests when one of them gets another record.
LEMMA RequestMoves ==
  ASSUME LiveInv, NEW r \in Requests, NEW q \in RequestRecords, Served(q),
         request' = [request EXCEPT ![r] = q]
  PROVE  /\ request' \in [Requests -> RequestRecords \cup {NoRequest}]
         /\ \A s \in Requests : Served(request'[s])
         /\ request'[r] = q
         /\ \A s \in Requests \ {r} : request'[s] = request[s]
BY DEF LiveInv

\* The two ways a request goes on: to another step, and with an answer.
LEMMA GoesOn ==
  ASSUME LiveInv, NEW r \in Requests, request[r].pc # "idle", NEW pc \in Probes \cup {"done"},
         GoOn(r, pc)
  PROVE  \E q \in RequestRecords :
           /\ Served(q) /\ q.pc = pc /\ q.model = request[r].model
           /\ request' = [request EXCEPT ![r] = q]
<1> DEFINE q == [request[r] EXCEPT !.pc = pc]
<1>1. request[r] \in RequestRecords
  BY RequestUnderWay
<1>2. q \in RequestRecords /\ q.pc = pc /\ q.model = request[r].model
  BY <1>1 DEF RequestRecords
<1>3. Served(q)
  BY <1>2 DEF Served, Answered, Probes
<1>4. request' = [request EXCEPT ![r] = q]
  BY DEF GoOn
<1>5. QED
  BY <1>2, <1>3, <1>4

LEMMA Answering ==
  ASSUME LiveInv, NEW r \in Requests, request[r].pc # "idle", NEW pc \in Answered,
         NEW status \in Answers,
         request' = [request EXCEPT ![r].pc = pc, ![r].answer = status]
  PROVE  \E q \in RequestRecords :
           Served(q) /\ q.pc = pc /\ request' = [request EXCEPT ![r] = q]
<1> DEFINE q == [request[r] EXCEPT !.pc = pc, !.answer = status]
<1>1. request[r] \in RequestRecords
  BY RequestUnderWay
<1>2. q \in RequestRecords /\ q.pc = pc /\ q.answer = status
  BY <1>1 DEF RequestRecords
<1>3. Served(q)
  BY <1>2 DEF Served
<1>4. request' = [request EXCEPT ![r] = q]
  BY DEF LiveInv
<1>5. QED
  BY <1>2, <1>3, <1>4

\* What the property says of one step.
LiveSafe == RunsStartReady /\ SwitchIsChecked

\* The requests keep what they are and only one that saw its model served goes to the tools.
RequestsMove ==
  /\ request' \in [Requests -> RequestRecords \cup {NoRequest}]
  /\ \A r \in Requests : Served(request'[r])
  /\ SwitchIsChecked

LEMMA RequestsKept ==
  ASSUME LiveInv, request' = request
  PROVE  RequestsMove
BY DEF LiveInv, RequestsMove, SwitchIsChecked

LEMMA OneMoves ==
  ASSUME LiveInv, NEW r \in Requests, NEW q \in RequestRecords, Served(q),
         request' = [request EXCEPT ![r] = q],
         q.pc = "tools" => profile = request[r].model
  PROVE  RequestsMove
<1>1. /\ request' \in [Requests -> RequestRecords \cup {NoRequest}]
      /\ \A s \in Requests : Served(request'[s])
      /\ request'[r] = q
      /\ \A s \in Requests \ {r} : request'[s] = request[s]
  BY RequestMoves
<1>2. SwitchIsChecked
  BY <1>1 DEF SwitchIsChecked
<1>3. QED
  BY <1>1, <1>2 DEF RequestsMove

\* A step of a probe that does not end it.
LEMMA ProbeMoves ==
  ASSUME LiveInv, NEW r \in Requests, request[r].pc # "idle", NEW pc \in Probes \cup {"done"},
         GoOn(r, pc), pc = "tools" => profile = request[r].model
  PROVE  RequestsMove
<1>1. PICK q \in RequestRecords :
        Served(q) /\ q.pc = pc /\ q.model = request[r].model /\ request' = [request EXCEPT ![r] = q]
  BY GoesOn
<1>2. QED
  BY <1>1, OneMoves

LEMMA AnswerMoves ==
  ASSUME LiveInv, NEW r \in Requests, request[r].pc # "idle", NEW pc \in Answered,
         NEW status \in Answers,
         request' = [request EXCEPT ![r].pc = pc, ![r].answer = status]
  PROVE  RequestsMove
<1>1. PICK q \in RequestRecords :
        Served(q) /\ q.pc = pc /\ request' = [request EXCEPT ![r] = q]
  BY Answering
<1>2. QED
  BY <1>1, OneMoves DEF Answered

\* What is left of a step: the profile, the kept answers and the run at work.
RestKept ==
  /\ profile' \in Models \cup {None}
  /\ DOMAIN cache' = Models /\ CacheOK'
  /\ liveRun' # None => liveRun' \in LiveRuns

RunIsKept == liveRun' = liveRun

LEMMA StepIsSafe ==
  ASSUME LiveInv, RequestsMove, RestKept, RunsStartReady
  PROVE  LiveInv' /\ LiveSafe
BY DEF LiveInv, RequestsMove, RestKept, LiveSafe

LEMMA QuietStepIsSafe ==
  ASSUME LiveInv, RequestsMove, RunIsKept, profile' \in Models \cup {None}, cache' = cache
  PROVE  LiveInv' /\ LiveSafe
<1>1. RunsStartReady
  BY DEF RunsStartReady, RunIsKept
<1>2. RestKept
  BY DEF RestKept, LiveInv, CacheOK, RunIsKept
<1>3. QED
  BY <1>1, <1>2, StepIsSafe

LEMMA AskStep ==
  ASSUME LiveInv, NEW r \in Requests, NEW m \in Models, Ask(r, m)
  PROVE  LiveInv' /\ LiveSafe
<1>1. PICK kind \in {"readiness", "forced", "start"} :
        request' = [request EXCEPT ![r] = [pc |-> "cache", model |-> m, kind |-> kind, answer |-> None]]
  BY DEF Ask
<1> DEFINE q == [pc |-> "cache", model |-> m, kind |-> kind, answer |-> None]
<1>2. q \in RequestRecords /\ Served(q) /\ q.pc = "cache"
  BY DEF RequestRecords, Served, Probes, Answered
<1>3. request' = [request EXCEPT ![r] = q]
  BY <1>1
<1> HIDE DEF q
<1>4. RequestsMove
  BY <1>2, <1>3, OneMoves
<1>5. QED
  BY <1>4, QuietStepIsSafe DEF Ask, RunIsKept, LiveInv

LEMMA ProbeStep ==
  ASSUME LiveInv, NEW r \in Requests,
         \/ ReadCache(r) \/ ProfileStatus(r) \/ Preflight(r) \/ StopProfile(r)
         \/ LaunchProfile(r) \/ PreflightAgain(r) \/ ToolsAndBudget(r)
  PROVE  LiveInv' /\ LiveSafe
<1>1. request[r].pc # "idle" /\ request[r] \in RequestRecords
  BY RequestUnderWay DEF ReadCache, ProfileStatus, Preflight, StopProfile, LaunchProfile, PreflightAgain,
     ToolsAndBudget
<1>2. request[r].model \in Models
  BY <1>1 DEF RequestRecords
<1>3. \/ \E pc \in Probes : GoOn(r, pc) /\ (pc = "tools" => profile = request[r].model)
      \/ \E pc \in Answered, status \in Answers :
           request' = [request EXCEPT ![r].pc = pc, ![r].answer = status]
  <2>1. CASE ReadCache(r)
    <3>1. CASE Fresh(request[r].model) /\ request[r].kind # "forced"
      <4>1. cache[request[r].model].status \in Answers
        BY <1>2, <3>1 DEF Fresh, LiveInv, CacheOK
      <4>2. "answered" \in Answered
        BY DEF Answered
      <4>3. request' = [request EXCEPT ![r].pc = "answered", ![r].answer = cache[request[r].model].status]
        BY <2>1, <3>1 DEF ReadCache
      <4>4. QED
        BY <4>1, <4>2, <4>3
    <3>2. CASE ~(Fresh(request[r].model) /\ request[r].kind # "forced")
      BY <2>1, <3>2 DEF ReadCache, Probes
    <3>3. QED
      BY <3>1, <3>2
  <2>2. CASE ProfileStatus(r)
    BY <2>2 DEF ProfileStatus, NoProfile, Answer, Probes, Answered, Answers
  <2>3. CASE Preflight(r)
    BY <2>3 DEF Preflight, Answer, Probes, Answered, Answers
  <2>4. CASE StopProfile(r)
    BY <2>4 DEF StopProfile, Answer, Probes, Answered, Answers
  <2>5. CASE LaunchProfile(r)
    BY <2>5 DEF LaunchProfile, AfterSwitch, Answer, Probes, Answered, Answers
  <2>6. CASE PreflightAgain(r)
    BY <2>6 DEF PreflightAgain, Answer, Probes, Answered, Answers
  <2>7. CASE ToolsAndBudget(r)
    BY <2>7 DEF ToolsAndBudget, Answer, Answered, Answers
  <2>8. QED
    BY <2>1, <2>2, <2>3, <2>4, <2>5, <2>6, <2>7
<1>4. RequestsMove
  BY <1>1, <1>3, ProbeMoves, AnswerMoves
<1>5. profile' \in Models \cup {None} /\ cache' = cache /\ RunIsKept
  BY <1>2 DEF ReadCache, ProfileStatus, Preflight, StopProfile, LaunchProfile, PreflightAgain,
     ToolsAndBudget, LiveInv, RunIsKept
<1>6. QED
  BY <1>4, <1>5, QuietStepIsSafe

LEMMA StoreAnswerStep ==
  ASSUME LiveInv, NEW r \in Requests, StoreAnswer(r)
  PROVE  LiveInv' /\ LiveSafe
<1> DEFINE kept == [status |-> request[r].answer, at |-> clock]
           m == request[r].model
<1>1. request[r].pc = "store" /\ request[r] \in RequestRecords
  BY RequestUnderWay DEF StoreAnswer
<1>2. m \in Models /\ request[r].answer \in Answers
  BY <1>1 DEF RequestRecords, LiveInv, Served, Answered
<1>3. request' = [request EXCEPT ![r].pc = "answered", ![r].answer = request[r].answer]
  BY <1>1 DEF StoreAnswer, GoOn, LiveInv, RequestRecords
<1>4. RequestsMove
  BY <1>1, <1>2, <1>3, AnswerMoves DEF Answered
<1>5. cache' = [cache EXCEPT ![m] = kept] /\ kept.status \in Answers
  BY <1>2 DEF StoreAnswer
<1>6. RestKept
  <2> HIDE DEF kept, m
  <2>1. DOMAIN cache' = Models /\ CacheOK'
    BY <1>2, <1>5 DEF LiveInv, CacheOK
  <2>2. QED
    BY <2>1 DEF StoreAnswer, RestKept, LiveInv
<1>7. RunsStartReady
  BY DEF StoreAnswer, RunsStartReady
<1>8. QED
  BY <1>4, <1>6, <1>7, StepIsSafe

LEMMA StartRunStep ==
  ASSUME LiveInv, NEW r \in Requests, StartRun(r)
  PROVE  LiveInv' /\ LiveSafe
<1>1. request[r].pc = "answered" /\ request[r] \in RequestRecords
  BY RequestUnderWay DEF StartRun
<1>2. RequestsMove
  BY <1>1, ProbeMoves DEF StartRun
<1>3. CASE liveRun' = liveRun
  BY <1>2, <1>3, QuietStepIsSafe DEF StartRun, RunIsKept, LiveInv
<1>4. CASE liveRun' # liveRun
  <2>1. /\ IsReady(r) /\ NoRun
        /\ liveRun' = [model |-> request[r].model, pc |-> "stop", by |-> r]
    BY <1>4 DEF StartRun
  <2>2. liveRun' \in LiveRuns /\ liveRun'.by = r /\ liveRun'.model = request[r].model
    BY <1>1, <2>1 DEF LiveRuns, RequestRecords
  <2>3. RunsStartReady
    BY <2>1, <2>2 DEF RunsStartReady, IsReady, NoRun
  <2>4. RestKept
    BY <2>2 DEF StartRun, RestKept, LiveInv, CacheOK
  <2>5. QED
    BY <1>2, <2>3, <2>4, StepIsSafe
<1>5. QED
  BY <1>3, <1>4

LEMMA RunStepStep ==
  ASSUME LiveInv, RunStep
  PROVE  LiveInv' /\ LiveSafe
<1>1. RequestsMove /\ liveRun # None /\ liveRun \in LiveRuns
  BY RequestsKept DEF RunStep, RunStops, RunLaunches, RunEnds, LiveInv
<1>2. /\ cache' = cache
      /\ profile' \in Models \cup {None}
      /\ liveRun' # None => liveRun' \in LiveRuns /\ liveRun'.by = liveRun.by
  BY <1>1 DEF RunStep, RunStops, RunLaunches, RunEnds, LiveInv, LiveRuns
<1>3. RunsStartReady
  BY <1>1, <1>2 DEF RunsStartReady
<1>4. RestKept
  BY <1>2 DEF RestKept, LiveInv, CacheOK
<1>5. QED
  BY <1>1, <1>3, <1>4, StepIsSafe

LEMMA LiveInvNext == LiveInv /\ [LiveNext]_liveVars => LiveInv' /\ [LiveSafe]_liveVars
<1> SUFFICES ASSUME LiveInv, [LiveNext]_liveVars PROVE LiveInv' /\ LiveSafe
  OBVIOUS
<1>1. CASE Tick \/ AllDone \/ UNCHANGED liveVars
  BY <1>1, RequestsKept, QuietStepIsSafe DEF Tick, AllDone, liveVars, RunIsKept, LiveInv
<1>2. CASE RunStep
  BY <1>2, RunStepStep
<1>3. ASSUME NEW r \in Requests, RequestStep(r) PROVE LiveInv' /\ LiveSafe
  BY <1>3, ProbeStep, StoreAnswerStep, StartRunStep DEF RequestStep
<1>4. ASSUME NEW r \in Requests, NEW m \in Models, Ask(r, m) PROVE LiveInv' /\ LiveSafe
  BY <1>4, AskStep
<1>5. QED
  BY <1>1, <1>2, <1>3, <1>4 DEF LiveNext

\* For any number of models, requests and seconds: a live run starts only where none is active
\* and the answer for its model is that it is ready, and a probe goes on only where the
\* profile serves its model, however the requests and the run at work switch it
\* (self_evolution_ui.live_readiness and start).
THEOREM LiveStartsReady == LiveSpec => StartsReady
<1>1. LiveInv => LiveTypeOK
  BY DEF LiveInv, LiveTypeOK, Served, Answered, Answers, LiveRuns
<1>2. LiveInv /\ [LiveNext]_liveVars => [RunsStartReady /\ SwitchIsChecked]_liveVars
  BY LiveInvNext DEF LiveSafe
<1>3. QED
  BY <1>1, <1>2, LiveStarts, LiveInvNext, PTL DEF LiveSpec, StartsReady

-----------------------------------------------------------------------------
(* The e2e run.  The rules branch and the architecture branch each keep an *)
(* invariant of their own; the main thread adds where they are when it     *)
(* joins them.                                                             *)

Phases == {"baseline", "candidate"}
Seeds == {"off", "baseline"}   \* the rules branch before its first snapshot
Tested == {"evolve", "manifest", "snapshot", "validate", "candidateShards", "done"}

Reports == [passed : BOOLEAN, suppressed : BOOLEAN]
Statuses == {"queued", "running", "succeeded"}
Places == {"plan", "join", "gate", "succeeded", "failed", "off", "start", "watch", "project", "done",
           "baseline", "baselineShards", "evolve", "manifest", "snapshot", "validate",
           "candidateShards"}
EventIds == {"review started", "finding", "patch", "failure", "rereview passed"}
Children == [stage : {"none", "started", "reviewed", "remedied", "rereviewed"}, paid : Nat,
             end : {None, "ready", "failed", "killed"}]

RunTyped ==
  /\ at \in [Branches \cup {"main"} -> Places]
  /\ tests \in [Phases -> [Cases -> Reports \cup {None}]]
  /\ agents \in [Agents -> Statuses]
  /\ snap = [baseline |-> snap.baseline, candidate |-> snap.candidate]
  /\ child \in Children
  /\ cost \in Nat
  /\ events \in Seq(EventIds)
  /\ evidence \in [status : {"ready", "failed"}, cost : Nat] \cup {None}

\* Every case of a shard that has succeeded has the result of the rules.
ShardsMeasured(phase, version) ==
  \A w \in Shards : agents[<<phase, w>>] = "succeeded" =>
    \A c \in Shard(w) : tests[phase][c] = Result(version, c)

AllSucceeded(phase) == \A w \in Shards : agents[<<phase, w>>] = "succeeded"

RulesOK ==
  /\ atWork \subseteq {Phase} \X Shards
  /\ \A a \in atWork : agents[a] = "running"
  /\ atWork # {} => at["rules"] \in {"baselineShards", "candidateShards"}
  /\ at["rules"] \notin Seeds => snap.baseline = Baseline /\ ShardsMeasured("baseline", Baseline)
  /\ at["rules"] \in Tested => AllSucceeded("baseline")
  /\ at["rules"] \in {"candidateShards", "done"} => ShardsMeasured("candidate", snap.candidate)
  /\ at["rules"] = "done" => AllSucceeded("candidate")

\* The child that is there, what its evidence says, and what the run shows of its cost.
ChildOK ==
  /\ at["architecture"] \in {"off", "start"} => child.stage = "none"
  /\ at["architecture"] = "watch" => child.stage # "none"
  /\ child.stage = "none" => child.end = None
  /\ at["architecture"] = "project" => child.end = "ready"
  /\ at["architecture"] \in {"project", "done", "failed"} => child.stage = "none" \/ child.end # None
  /\ evidence # None => child.end # None /\ evidence.cost <= child.paid
  /\ child.end = "ready" => /\ child.stage = "rereviewed"
                            /\ evidence # None /\ evidence.cost = child.paid
  /\ cost <= child.paid
  /\ at["architecture"] \in {"project", "done", "failed"} /\ child.end = "ready" => cost = child.paid

\* An event is told once, and after the one it stands for.
Told(seq) ==
  /\ IsInjective(seq)
  /\ \A i \in DOMAIN seq :
       /\ seq[i] = "patch" => \E j \in 1..(i - 1) : seq[j] = "finding"
       /\ seq[i] = "rereview passed" => \E j \in 1..(i - 1) : seq[j] = "patch"

EventsOK ==
  /\ Told(events)
  /\ at["architecture"] = "project" => Contains(events, "patch")

\* Where the branches are as the main thread goes on.
MainOK ==
  /\ at["main"] = "plan" => \A b \in Branches : at[b] = "off"
  /\ at["main"] \in {"gate", "succeeded", "failed"} => \A b \in Branches : Ended(b)
  /\ at["main"] = "gate" => \A b \in Branches : at[b] = "done"
  /\ SuccessIsMeasured

RunInv == RunTyped /\ RulesOK /\ ChildOK /\ EventsOK /\ MainOK

-----------------------------------------------------------------------------
(* Shards and events.                                                      *)

\* Every case is in a shard that is submitted.
LEMMA EveryCaseSharded ==
  ASSUME E2EAssumption, NEW c \in Cases
  PROVE  \E w \in Shards : c \in Shard(w)
<1>1. PICK i \in DOMAIN Golden : c = Golden[i]
  BY DEF Cases, Range
<1>2. i \in Nat /\ i >= 1 /\ Workers \in Nat /\ Workers >= 1
  BY DEF E2EAssumption
<1>3. (i - 1) % Workers \in 0..(Workers - 1)
  BY <1>2
<1> DEFINE w == ((i - 1) % Workers) + 1
<1>4. w \in 1..Workers /\ (i - 1) % Workers = w - 1
  BY <1>2, <1>3
<1>5. c \in Shard(w)
  BY <1>1, <1>4 DEF Shard
<1>6. QED
  BY <1>4, <1>5 DEF Shards

\* When all shards of a phase have succeeded, every case has its result.
LEMMA AllMeasured ==
  ASSUME E2EAssumption, NEW phase, NEW version,
         ShardsMeasured(phase, version), AllSucceeded(phase)
  PROVE  \A c \in Cases : tests[phase][c] = Result(version, c)
BY EveryCaseSharded DEF ShardsMeasured, AllSucceeded

LEMMA OneMoreIndex ==
  ASSUME NEW n \in Nat
  PROVE  /\ (n + 1) - 1 = n
         /\ \A i \in 1..(n + 1) : i \in 1..n \/ i = n + 1
         /\ \A i \in 1..n : \A j \in 1..(i - 1) : j \in 1..n
OBVIOUS

\* A sequence with one element more.
OneLonger(t, seq, e) ==
  /\ Len(seq) \in Nat /\ Len(t) = Len(seq) + 1
  /\ DOMAIN seq = 1..Len(seq) /\ DOMAIN t = 1..(Len(seq) + 1)
  /\ t[Len(seq) + 1] = e
  /\ \A i \in 1..Len(seq) : t[i] = seq[i]

LEMMA OneMore ==
  ASSUME NEW S, NEW seq \in Seq(S), NEW e \in S
  PROVE  \E t \in Seq(S) : t = Append(seq, e) /\ OneLonger(t, seq, e)
<1> DEFINE t == Append(seq, e)
<1>1. /\ t \in Seq(S) /\ Len(seq) \in Nat /\ Len(t) = Len(seq) + 1
      /\ DOMAIN seq = 1..Len(seq) /\ DOMAIN t = 1..(Len(seq) + 1)
      /\ t[Len(seq) + 1] = e
      /\ \A i \in 1..Len(seq) : t[i] = seq[i]
  OBVIOUS
<1>2. t = Append(seq, e)
  OBVIOUS
<1> HIDE DEF t
<1>3. QED
  BY <1>1, <1>2 DEF OneLonger

\* What is appended once stays, and the rest with it.
LEMMA AppendedOnce ==
  ASSUME NEW S, NEW seq \in Seq(S), NEW e \in S
  PROVE  /\ AppendOnce(seq, e) \in Seq(S)
         /\ Contains(AppendOnce(seq, e), e)
         /\ \A f : Contains(seq, f) => Contains(AppendOnce(seq, e), f)
<1>1. CASE Contains(seq, e)
  BY <1>1 DEF AppendOnce
<1>2. CASE ~Contains(seq, e)
  <2>1. PICK t \in Seq(S) : t = Append(seq, e) /\ OneLonger(t, seq, e)
    BY OneMore
  <2>4. /\ Len(seq) \in Nat /\ Len(t) = Len(seq) + 1
        /\ t[Len(seq) + 1] = e
        /\ \A i \in 1..Len(seq) : t[i] = seq[i]
    BY <2>1 DEF OneLonger
  <2>3. AppendOnce(seq, e) = t
    BY <1>2, <2>1 DEF AppendOnce
  <2>5. ASSUME NEW f, Contains(seq, f) PROVE Contains(t, f)
    <3>1. PICK i \in 1..Len(seq) : seq[i] = f
      BY <2>5 DEF Contains
    <3>2. i \in 1..Len(t) /\ t[i] = f
      BY <2>4, <3>1
    <3>3. QED
      BY <3>2 DEF Contains
  <2>6. Contains(t, e)
    <3>1. Len(seq) + 1 \in 1..Len(t)
      BY <2>4
    <3>2. QED
      BY <2>4, <3>1 DEF Contains
  <2>7. QED
    BY <2>4, <2>3, <2>5, <2>6
<1>3. QED
  BY <1>1, <1>2

\* One event more, new and with its cause before it.
LEMMA ToldMore ==
  ASSUME NEW seq, NEW t, NEW e, Told(seq), OneLonger(t, seq, e), ~Contains(seq, e),
         e = "patch" => Contains(seq, "finding"),
         e = "rereview passed" => Contains(seq, "patch")
  PROVE  Told(t)
<1> DEFINE n == Len(seq)
<1>1. /\ n \in Nat /\ DOMAIN seq = 1..n /\ DOMAIN t = 1..(n + 1) /\ t[n + 1] = e
      /\ \A i \in 1..n : t[i] = seq[i] /\ seq[i] # e
      /\ e = "patch" => \E j \in 1..n : seq[j] = "finding"
      /\ e = "rereview passed" => \E j \in 1..n : seq[j] = "patch"
  BY DEF OneLonger, Contains
<1> HIDE DEF n
<1>2. (n + 1) - 1 = n /\ \A i \in 1..(n + 1) : i \in 1..n \/ i = n + 1
  BY <1>1, OneMoreIndex
<1>3. IsInjective(t)
  <2> SUFFICES ASSUME NEW i \in 1..(n + 1), NEW j \in 1..(n + 1), t[i] = t[j] PROVE i = j
    BY <1>1 DEF IsInjective
  <2>1. CASE i \in 1..n /\ j \in 1..n
    BY <1>1, <2>1 DEF Told, IsInjective
  <2>2. QED
    BY <1>1, <1>2, <2>1
<1>4. ASSUME NEW i \in 1..n
      PROVE  /\ t[i] = "patch" => \E j \in 1..(i - 1) : t[j] = "finding"
             /\ t[i] = "rereview passed" => \E j \in 1..(i - 1) : t[j] = "patch"
  <2>1. \A j \in 1..(i - 1) : j \in 1..n
    BY <1>1, OneMoreIndex
  <2>2. QED
    BY <1>1, <2>1 DEF Told
<1>5. QED
  BY <1>1, <1>2, <1>3, <1>4 DEF Told

\* An event whose cause is there may be told.
LEMMA ToldOnce ==
  ASSUME NEW S, NEW seq \in Seq(S), NEW e \in S, Told(seq),
         e = "patch" => Contains(seq, "finding"),
         e = "rereview passed" => Contains(seq, "patch")
  PROVE  Told(AppendOnce(seq, e))
<1>1. CASE Contains(seq, e)
  BY <1>1 DEF AppendOnce
<1>2. CASE ~Contains(seq, e)
  <2>1. PICK t \in Seq(S) : t = Append(seq, e) /\ OneLonger(t, seq, e)
    BY OneMore
  <2>2. AppendOnce(seq, e) = t
    BY <1>2, <2>1 DEF AppendOnce
  <2>3. QED
    BY <1>2, <2>1, <2>2, ToldMore
<1>3. QED
  BY <1>1, <1>2

\* What a look at the stages adds is told, and all of it once the re-review is done.
LEMMA SeenTold ==
  ASSUME RunTyped, EventsOK
  PROVE  /\ Seen \in Seq(EventIds) /\ Told(Seen)
         /\ child.stage = "rereviewed" => Contains(Seen, "patch")
<1> DEFINE found == IF child.stage \in {"reviewed", "remedied", "rereviewed"}
                    THEN AppendOnce(events, "finding") ELSE events
<1>1. events \in Seq(EventIds) /\ Told(events) /\ "finding" \in EventIds /\ "patch" \in EventIds
  BY DEF RunTyped, EventsOK, EventIds
<1>2. found \in Seq(EventIds) /\ Told(found)
  BY <1>1, AppendedOnce, ToldOnce
<1>3. child.stage \in {"remedied", "rereviewed"} => Contains(found, "finding")
  BY <1>1, AppendedOnce
<1>4. Seen = IF child.stage \in {"remedied", "rereviewed"} THEN AppendOnce(found, "patch") ELSE found
  BY DEF Seen
<1> HIDE DEF found
<1>5. QED
  BY <1>1, <1>2, <1>3, <1>4, AppendedOnce, ToldOnce

-----------------------------------------------------------------------------
(* What a step leaves alone.                                               *)

\* Every branch but one stays where it is.
Stays(b) == at'[b] = at[b]

ShardAgentsStay == \A p \in Phases, w \in Shards : agents'[<<p, w>>] = agents[<<p, w>>]

LEMMA RulesStay ==
  ASSUME RulesOK, Stays("rules"), UNCHANGED <<atWork, snap, tests>>, ShardAgentsStay
  PROVE  RulesOK'
<1>1. Phase' = Phase /\ Phase \in Phases
  BY DEF Phase, Stays, Phases
<1>2. \A a \in atWork : agents'[a] = agents[a]
  <2> SUFFICES ASSUME NEW a \in atWork PROVE agents'[a] = agents[a]
    OBVIOUS
  <2>1. PICK p \in Phases, w \in Shards : a = <<p, w>>
    BY <1>1 DEF RulesOK
  <2>2. QED
    BY <2>1 DEF ShardAgentsStay
<1>3. \A p \in Phases : AllSucceeded(p) => AllSucceeded(p)'
  BY DEF AllSucceeded, ShardAgentsStay
<1>4. \A p \in Phases : \A v : ShardsMeasured(p, v) => ShardsMeasured(p, v)'
  BY DEF ShardsMeasured, ShardAgentsStay, Shard
<1>5. "baseline" \in Phases /\ "candidate" \in Phases
  BY DEF Phases
<1>6. \A a \in atWork' : agents'[a] = "running"
  BY <1>2 DEF RulesOK
<1>7. QED
  BY <1>1, <1>3, <1>4, <1>5, <1>6 DEF RulesOK, Stays

LEMMA ChildStays ==
  ASSUME ChildOK, Stays("architecture"), UNCHANGED <<child, evidence, cost>>
  PROVE  ChildOK'
BY DEF ChildOK, Stays

LEMMA EventsStay ==
  ASSUME EventsOK, Stays("architecture"), UNCHANGED events
  PROVE  EventsOK'
BY DEF EventsOK, Stays

\* What the main thread knows stays while a branch under way goes on.
LEMMA MainStays ==
  ASSUME MainOK, NEW b \in Branches, at[b] \notin {"off", "done", "failed"},
         Stays("main"), UNCHANGED delivered
  PROVE  MainOK'
<1>1. at["main"] \notin {"plan", "gate", "succeeded", "failed"}
  BY DEF MainOK, Ended
<1>2. SuccessIsMeasured'
  BY DEF MainOK, SuccessIsMeasured, Results
<1>3. QED
  BY <1>1, <1>2 DEF MainOK, Stays

LEMMA NothingMoves ==
  ASSUME MainOK, UNCHANGED <<at, delivered>>
  PROVE  MainOK' /\ \A b \in Branches \cup {"main"} : Stays(b)
BY DEF MainOK, Stays, SuccessIsMeasured, Results, Ended

\* One branch goes on.
LEMMA OneGoes ==
  ASSUME RunTyped, NEW b \in Branches \cup {"main"}, NEW to \in Places, BranchGoto(b, to)
  PROVE  /\ at' \in [Branches \cup {"main"} -> Places]
         /\ at'[b] = to
         /\ \A d \in (Branches \cup {"main"}) \ {b} : Stays(d)
BY DEF RunTyped, BranchGoto, Stays

\* An agent that is there once is none of a shard.
LEMMA SoleMoves ==
  ASSUME RunTyped, NEW x \in {"orchestrator", "architecture", "workspace", "evolver", "gate"},
         NEW status \in Statuses, Agent(Sole(x), status)
  PROVE  agents' \in [Agents -> Statuses] /\ ShardAgentsStay
<1>1. agents' \in [Agents -> Statuses]
  BY DEF Agent, RunTyped
<1>2. \A p \in Phases : p # x
  BY DEF Phases
<1>3. \A p \in Phases, w \in Shards : <<p, w>> \in Agents /\ <<p, w>> # Sole(x)
  BY <1>2 DEF Agents, Phases, Shards, Sole
<1>4. QED
  BY <1>1, <1>3 DEF Agent, RunTyped, ShardAgentsStay

LEMMA AgentsUnchanged == ASSUME UNCHANGED agents PROVE ShardAgentsStay
BY DEF ShardAgentsStay

-----------------------------------------------------------------------------
(* The steps.                                                              *)

LEMMA RunStarts == ASSUME E2EAssumption PROVE E2EInit => RunInv
<1> SUFFICES ASSUME E2EInit PROVE RunInv
  OBVIOUS
<1>1. RunTyped
  <2>1. at \in [Branches \cup {"main"} -> Places] /\ agents \in [Agents -> Statuses]
    BY DEF E2EInit, Places, Statuses
  <2>2. tests \in [Phases -> [Cases -> Reports \cup {None}]]
    BY DEF E2EInit, Phases
  <2>3. child \in Children /\ events \in Seq(EventIds)
    BY DEF E2EInit, Children
  <2>4. QED
    BY <2>1, <2>2, <2>3 DEF E2EInit, RunTyped
<1>2. RulesOK
  BY DEF E2EInit, RulesOK, Branches, Seeds, Tested
<1>3. at["architecture"] = "off" /\ at["main"] = "plan" /\ \A b \in Branches : at[b] = "off"
  BY DEF E2EInit, Branches
<1>4. ChildOK
  BY <1>3 DEF E2EInit, ChildOK, E2EAssumption
<1>5. EventsOK
  BY <1>3 DEF E2EInit, EventsOK, Told, IsInjective
<1>6. MainOK
  BY <1>3 DEF E2EInit, MainOK, SuccessIsMeasured, Results
<1>7. QED
  BY <1>1, <1>2, <1>4, <1>5, <1>6 DEF RunInv

LEMMA PlanStep == ASSUME RunInv, Plan PROVE RunInv'
<1>1. /\ at' \in [Branches \cup {"main"} -> Places]
      /\ at'["architecture"] = "start" /\ at'["workspace"] = "start"
      /\ at'["rules"] = "baseline" /\ at'["main"] = "join"
  BY DEF Plan, Branches, Places
<1>2. \A b \in Branches : at[b] = "off"
  BY DEF RunInv, MainOK, Plan
<1>3. agents' \in [Agents -> Statuses] /\ ShardAgentsStay
  BY SoleMoves DEF Plan, RunInv, Statuses
<1>4. RunTyped'
  BY <1>1, <1>3 DEF Plan, RunInv, RunTyped
<1>5. RulesOK'
  <2>1. atWork = {} /\ atWork' = {}
    BY <1>2 DEF RunInv, RulesOK, Plan, Branches
  <2>2. QED
    BY <1>1, <2>1 DEF RulesOK, Seeds, Tested
<1>6. ChildOK'
  BY <1>1, <1>2 DEF RunInv, ChildOK, Plan, Branches
<1>7. EventsOK'
  BY <1>1 DEF RunInv, EventsOK, Plan
<1>8. MainOK'
  BY <1>1 DEF RunInv, MainOK, Plan, SuccessIsMeasured, Results
<1>9. QED
  BY <1>4, <1>5, <1>6, <1>7, <1>8 DEF RunInv

LEMMA JoinStep == ASSUME RunInv, Join PROVE RunInv'
<1> DEFINE over == \E b \in Branches : at[b] = "failed"
<1>1. /\ over => BranchGoto("main", "failed") /\ delivered' = Failed /\ UNCHANGED agents
      /\ ~over => BranchGoto("main", "gate") /\ Agent(Sole("gate"), "running") /\ UNCHANGED delivered
      /\ at["main"] = "join" /\ \A b \in Branches : Ended(b)
      /\ UNCHANGED <<atWork, buildDir, since, snap, tests, events, child, evidence, cost>>
  BY DEF Join, Joined
<1> HIDE DEF over
<1>2. /\ at' \in [Branches \cup {"main"} -> Places]
      /\ at'["main"] = IF over THEN "failed" ELSE "gate"
      /\ \A b \in Branches : Stays(b)
  BY <1>1, OneGoes DEF RunInv, Places, Branches
<1>3. agents' \in [Agents -> Statuses] /\ ShardAgentsStay
  BY <1>1, SoleMoves, AgentsUnchanged DEF RunInv, RunTyped, Statuses
<1>4. RunTyped'
  BY <1>1, <1>2, <1>3 DEF RunInv, RunTyped
<1>5. RulesOK' /\ ChildOK' /\ EventsOK'
  BY <1>1, <1>2, <1>3, RulesStay, ChildStays, EventsStay DEF RunInv, Branches
<1>6. MainOK'
  <2>1. \A b \in Branches : Ended(b)' /\ (~over => at'[b] = "done")
    BY <1>1, <1>2 DEF Ended, Stays, over
  <2>2. SuccessIsMeasured'
    BY <1>1 DEF SuccessIsMeasured, Results, RunInv, MainOK
  <2>3. QED
    BY <1>2, <2>1, <2>2 DEF MainOK
<1>7. QED
  BY <1>4, <1>5, <1>6 DEF RunInv

\* The gate lets through what changes the target and nothing else, from all to all.
LEMMA GateMeasures ==
  ASSUME E2EAssumption, RunInv, at["main"] = "gate", GatePasses
  PROVE  /\ snap.baseline = Baseline
         /\ \A c \in Cases : Result(snap.candidate, c).passed
         /\ \A c \in Cases \ {TargetCase} : Result(snap.candidate, c) = Result(Baseline, c)
<1>1. at["rules"] = "done"
  BY DEF RunInv, MainOK, Branches
<1>2. snap.baseline = Baseline
  BY <1>1 DEF RunInv, RulesOK, Seeds
<1>3. \A c \in Cases : /\ tests["baseline"][c] = Result(Baseline, c)
                       /\ tests["candidate"][c] = Result(snap.candidate, c)
  BY <1>1, AllMeasured DEF RunInv, RulesOK, Seeds, Tested
<1>4. \A c \in Cases : Result(snap.candidate, c).passed
  BY <1>3 DEF GatePasses, Passed
<1>5. \A c \in Cases \ {TargetCase} : tests["baseline"][c] = tests["candidate"][c]
  BY DEF GatePasses, Changed
<1>6. QED
  BY <1>2, <1>3, <1>4, <1>5

LEMMA GateStep == ASSUME E2EAssumption, RunInv, Gate PROVE RunInv'
<1> DEFINE passes == GatePasses /\ buildDir.manifest # None
<1>1. /\ passes => /\ delivered' = [baseline |-> snap.baseline, candidate |-> snap.candidate,
                                    manifest |-> buildDir.manifest, cost |-> cost]
                   /\ BranchGoto("main", "succeeded")
                   /\ Agent(Sole("gate"), "succeeded")
      /\ ~passes => delivered' = Failed /\ BranchGoto("main", "failed") /\ UNCHANGED agents
      /\ at["main"] = "gate"
      /\ UNCHANGED <<atWork, buildDir, since, snap, tests, events, child, evidence, cost>>
  BY DEF Gate
<1>2. passes => GatePasses
  OBVIOUS
<1> HIDE DEF passes
<1>3. /\ at' \in [Branches \cup {"main"} -> Places]
      /\ at'["main"] = IF passes THEN "succeeded" ELSE "failed"
      /\ \A b \in Branches : Stays(b)
  BY <1>1, OneGoes DEF RunInv, Places, Branches
<1>4. agents' \in [Agents -> Statuses] /\ ShardAgentsStay
  BY <1>1, SoleMoves, AgentsUnchanged DEF RunInv, RunTyped, Statuses
<1>5. RunTyped'
  BY <1>1, <1>3, <1>4 DEF RunInv, RunTyped
<1>6. RulesOK' /\ ChildOK' /\ EventsOK'
  BY <1>1, <1>3, <1>4, RulesStay, ChildStays, EventsStay DEF RunInv, Branches
<1>7. MainOK'
  <2>1. \A b \in Branches : Ended(b)'
    BY <1>1, <1>3 DEF Ended, Stays, RunInv, MainOK
  <2>2. SuccessIsMeasured'
    <3>1. CASE passes
      BY <1>1, <1>2, <3>1, GateMeasures DEF SuccessIsMeasured, Results
    <3>2. CASE ~passes
      BY <1>1, <3>2 DEF SuccessIsMeasured, Results
    <3>3. QED
      BY <3>1, <3>2
  <2>3. QED
    BY <1>3, <2>1, <2>2 DEF MainOK
<1>8. QED
  BY <1>5, <1>6, <1>7 DEF RunInv

LEMMA WorkspaceStep == ASSUME RunInv, Workspace PROVE RunInv'
<1>1. PICK to \in {"done", "failed"}, status \in {"succeeded", "running"} :
        BranchGoto("workspace", to) /\ Agent(Sole("workspace"), status)
  BY DEF Workspace
<1>2. /\ at["workspace"] = "start"
      /\ UNCHANGED <<atWork, buildDir, since, snap, tests, events, child, evidence, cost, delivered>>
  BY DEF Workspace
<1>3. /\ at' \in [Branches \cup {"main"} -> Places]
      /\ Stays("rules") /\ Stays("architecture") /\ Stays("main")
  BY <1>1, OneGoes DEF RunInv, Places, Branches
<1>4. agents' \in [Agents -> Statuses] /\ ShardAgentsStay
  BY <1>1, SoleMoves DEF RunInv, Statuses
<1>5. RunTyped'
  BY <1>2, <1>3, <1>4 DEF RunInv, RunTyped
<1>6. RulesOK' /\ ChildOK' /\ EventsOK'
  BY <1>2, <1>3, <1>4, RulesStay, ChildStays, EventsStay DEF RunInv
<1>7. MainOK'
  BY <1>2, <1>3, MainStays DEF RunInv, Branches
<1>8. QED
  BY <1>5, <1>6, <1>7 DEF RunInv

-----------------------------------------------------------------------------
(* The child and the branch that watches it.                               *)

\* Where the architecture branch goes while the rules branch and the main thread stay.
LEMMA WatchGoes ==
  ASSUME RunInv, at["architecture"] \in {"start", "watch", "project"},
         NEW to \in {"watch", "project", "done", "failed"}, BranchGoto("architecture", to),
         agents' \in [Agents -> Statuses], ShardAgentsStay,
         UNCHANGED <<atWork, snap, tests, delivered>>
  PROVE  /\ at' \in [Branches \cup {"main"} -> Places] /\ at'["architecture"] = to
         /\ RulesOK' /\ MainOK'
<1>1. /\ at' \in [Branches \cup {"main"} -> Places] /\ at'["architecture"] = to
      /\ Stays("rules") /\ Stays("main")
  BY OneGoes DEF RunInv, Places, Branches
<1>2. QED
  BY <1>1, RulesStay, MainStays DEF RunInv, Branches

\* A branch that reports: what is typed stays typed.
LEMMA WatchTyped ==
  ASSUME RunTyped, at' \in [Branches \cup {"main"} -> Places],
         agents' \in [Agents -> Statuses], child' \in Children, cost' \in Nat,
         events' \in Seq(EventIds), UNCHANGED <<snap, tests, evidence>>
  PROVE  RunTyped'
BY DEF RunTyped

LEMMA SpawnStep == ASSUME E2EAssumption, RunInv, Spawn PROVE RunInv'
<1>1. PICK to \in {"watch", "failed"} :
        /\ BranchGoto("architecture", to)
        /\ to = "failed" => UNCHANGED <<child, events>>
        /\ to = "watch" => /\ child' = [child EXCEPT !.stage = "started"]
                           /\ events' = AppendOnce(events, "review started")
  BY DEF Spawn
<1>2. /\ at["architecture"] = "start" /\ Agent(Sole("architecture"), "running")
      /\ UNCHANGED <<atWork, buildDir, since, snap, tests, evidence, cost, delivered>>
  BY DEF Spawn
<1>3. agents' \in [Agents -> Statuses] /\ ShardAgentsStay
  BY <1>2, SoleMoves DEF RunInv, Statuses
<1>4. /\ at' \in [Branches \cup {"main"} -> Places] /\ at'["architecture"] = to
      /\ RulesOK' /\ MainOK'
  BY <1>1, <1>2, <1>3, WatchGoes
<1>5. child \in Children /\ child.stage = "none" /\ child.end = None
  BY <1>2 DEF RunInv, RunTyped, ChildOK
<1>6. /\ child' \in Children /\ child'.end = None /\ child'.paid = child.paid
      /\ to = "failed" => child'.stage = "none"
      /\ to = "watch" => child'.stage = "started"
  <2>1. CASE to = "failed"
    BY <1>1, <1>5, <2>1
  <2>2. CASE to = "watch"
    BY <1>1, <1>5, <2>2 DEF Children
  <2>3. QED
    BY <2>1, <2>2
<1>7. events' \in Seq(EventIds) /\ Told(events')
  <2>1. events \in Seq(EventIds) /\ Told(events) /\ "review started" \in EventIds
    BY DEF RunInv, RunTyped, EventsOK, EventIds
  <2>2. CASE to = "failed"
    BY <1>1, <2>1, <2>2
  <2>3. CASE to = "watch"
    <3>1. events' = AppendOnce(events, "review started")
      BY <1>1, <2>3
    <3>2. QED
      BY <2>1, <3>1, AppendedOnce, ToldOnce
  <2>4. QED
    BY <2>2, <2>3
<1>8. cost \in Nat /\ cost <= child.paid /\ evidence = None
  BY <1>5 DEF RunInv, RunTyped, ChildOK
<1>81. RunTyped'
  BY <1>2, <1>3, <1>4, <1>6, <1>7, <1>8, WatchTyped DEF RunInv
<1>9. ChildOK'
  <2>1. cost' = cost /\ evidence' = None
    BY <1>2, <1>8
  <2>2. QED
    BY <1>4, <1>6, <1>8, <2>1 DEF ChildOK, E2EAssumption
<1>10. EventsOK'
  BY <1>4, <1>7 DEF EventsOK
<1>11. QED
  BY <1>4, <1>81, <1>9, <1>10 DEF RunInv

\* The child goes on by itself.
LEMMA ChildGoes ==
  ASSUME RunInv, UNCHANGED <<at, atWork, snap, tests, agents, events, cost, delivered>>,
         child' \in Children, evidence' \in [status : {"ready", "failed"}, cost : Nat] \cup {None},
         ChildOK'
  PROVE  RunInv'
<1>1. MainOK' /\ Stays("rules") /\ Stays("architecture")
  BY NothingMoves DEF RunInv, Branches
<1>2. RulesOK' /\ EventsOK'
  BY <1>1, RulesStay, EventsStay, AgentsUnchanged DEF RunInv
<1>3. RunTyped'
  BY DEF RunInv, RunTyped
<1>4. QED
  BY <1>1, <1>2, <1>3 DEF RunInv

LEMMA ChildStageStep == ASSUME E2EAssumption, RunInv, ChildStage PROVE RunInv'
<1>1. PICK c \in TaskCosts :
        child' = [child EXCEPT !.stage = Following[@], !.paid = @ + c]
  BY DEF ChildStage
<1>2. /\ child.stage \in {"started", "reviewed", "remedied"} /\ child.end = None
      /\ UNCHANGED <<at, atWork, buildDir, since, snap, tests, agents, events, evidence, cost, delivered>>
  BY DEF ChildStage, Following
<1>3. Following[child.stage] \in {"reviewed", "remedied", "rereviewed"}
  BY <1>2 DEF Following
<1>4. c \in Nat /\ child \in Children
  BY DEF E2EAssumption, RunInv, RunTyped
<1>5. /\ child' \in Children /\ child'.end = None /\ child'.paid = child.paid + c
      /\ child'.stage \in {"reviewed", "remedied", "rereviewed"}
  <2>1. child.paid + c \in Nat
    BY <1>4 DEF Children
  <2>2. /\ child' = [child EXCEPT !.stage = Following[child.stage], !.paid = child.paid + c]
        /\ child.end = None
    BY <1>1, <1>2
  <2>3. QED
    BY <1>3, <1>4, <2>1, <2>2 DEF Children
<1>6. evidence = None /\ child.paid \in Nat /\ cost \in Nat
  BY <1>2, <1>4 DEF RunInv, ChildOK, RunTyped, Children
<1>7. ChildOK'
  BY <1>2, <1>4, <1>5, <1>6 DEF RunInv, ChildOK, E2EAssumption
<1>8. QED
  BY <1>2, <1>5, <1>7, ChildGoes DEF RunInv, RunTyped

LEMMA ChildEndsStep == ASSUME E2EAssumption, RunInv, ChildEnds PROVE RunInv'
<1>1. /\ child.stage # "none" /\ child.end = None /\ child \in Children
      /\ UNCHANGED <<at, atWork, buildDir, since, snap, tests, agents, events, cost, delivered>>
  BY DEF ChildEnds, RunInv, RunTyped
<1>2. at["architecture"] \notin {"off", "start", "project", "done", "failed"}
  BY <1>1 DEF RunInv, ChildOK, E2EAssumption
<1>3. child.paid \in Nat /\ cost \in Nat /\ cost <= child.paid
  BY <1>1 DEF RunInv, ChildOK, RunTyped, Children
<1>4. CASE child.stage = "rereviewed"
  <2>1. child' = [child EXCEPT !.end = "ready"] /\ evidence' = [status |-> "ready", cost |-> child.paid]
    BY <1>4 DEF ChildEnds
  <2>2. /\ child' \in Children /\ child'.end = "ready" /\ child'.paid = child.paid
        /\ child'.stage = "rereviewed"
    BY <1>1, <1>4, <2>1 DEF Children
  <2>3. ChildOK'
    <3>1. /\ evidence'.cost = child.paid /\ evidence' # None
          /\ cost' = cost /\ at' = at
      BY <1>1, <1>3, <2>1 DEF E2EAssumption
    <3>2. QED
      BY <1>2, <1>3, <2>2, <3>1 DEF ChildOK, E2EAssumption
  <2>4. QED
    BY <1>1, <1>3, <2>1, <2>2, <2>3, ChildGoes
<1>5. CASE child.stage # "rereviewed"
  <2>1. /\ child' = [child EXCEPT !.end = "failed"]
        /\ evidence' \in {None, [status |-> "failed", cost |-> child.paid],
                          [status |-> "failed", cost |-> 0]}
    BY <1>5 DEF ChildEnds
  <2>2. /\ child' \in Children /\ child'.end = "failed" /\ child'.paid = child.paid
        /\ child'.stage = child.stage
    BY <1>1, <2>1 DEF Children
  <2>3. /\ evidence' \in [status : {"ready", "failed"}, cost : Nat] \cup {None}
        /\ evidence' # None => evidence'.cost <= child.paid
    BY <1>3, <2>1
  <2>4. ChildOK'
    BY <1>1, <1>2, <1>3, <2>2, <2>3 DEF ChildOK, RunInv, E2EAssumption
  <2>5. QED
    BY <1>1, <2>2, <2>3, <2>4, ChildGoes
<1>6. QED
  BY <1>4, <1>5

LEMMA ObserveStep == ASSUME RunInv, Observe PROVE RunInv'
<1>1. events' \in Seq(EventIds) /\ Told(events')
  BY SeenTold DEF RunInv, Observe
<1>2. MainOK' /\ Stays("rules") /\ Stays("architecture")
  BY NothingMoves DEF RunInv, Observe, Branches
<1>3. RulesOK' /\ ChildOK'
  BY <1>2, RulesStay, ChildStays, AgentsUnchanged DEF RunInv, Observe
<1>4. EventsOK'
  BY <1>1, <1>2 DEF EventsOK, Observe, Stays
<1>5. RunTyped'
  BY <1>1 DEF RunInv, RunTyped, Observe
<1>6. QED
  BY <1>2, <1>3, <1>4, <1>5 DEF RunInv

LEMMA TimeoutStep == ASSUME E2EAssumption, RunInv, Timeout PROVE RunInv'
<1>1. /\ at["architecture"] = "watch" /\ child.end = None /\ child \in Children
      /\ child' = [child EXCEPT !.end = "killed"] /\ BranchGoto("architecture", "failed")
      /\ UNCHANGED <<atWork, buildDir, since, snap, tests, agents, events, evidence, cost, delivered>>
  BY DEF Timeout, RunInv, RunTyped
<1>2. /\ at' \in [Branches \cup {"main"} -> Places] /\ at'["architecture"] = "failed"
      /\ RulesOK' /\ MainOK'
  BY <1>1, WatchGoes, AgentsUnchanged DEF RunInv, RunTyped
<1>3. /\ child' \in Children /\ child'.end = "killed" /\ child'.paid = child.paid
      /\ child'.stage = child.stage
  BY <1>1 DEF Children
<1>4. ChildOK'
  BY <1>1, <1>2, <1>3 DEF RunInv, ChildOK, E2EAssumption
<1>5. RunTyped' /\ EventsOK'
  BY <1>1, <1>2, <1>3 DEF RunInv, RunTyped, EventsOK
<1>6. QED
  BY <1>2, <1>4, <1>5 DEF RunInv

LEMMA ChildFailedStep == ASSUME E2EAssumption, RunInv, ChildFailed PROVE RunInv'
<1>1. /\ at["architecture"] = "watch" /\ child.end = "failed"
      /\ cost' = IF evidence # None THEN evidence.cost ELSE cost
      /\ BranchGoto("architecture", "failed")
      /\ UNCHANGED <<atWork, buildDir, since, snap, tests, agents, child, evidence, delivered>>
  BY DEF ChildFailed
<1>2. /\ at' \in [Branches \cup {"main"} -> Places] /\ at'["architecture"] = "failed"
      /\ RulesOK' /\ MainOK'
  BY <1>1, WatchGoes, AgentsUnchanged DEF RunInv, RunTyped
<1>3. events' \in Seq(EventIds) /\ Told(events')
  <2>1. events' = IF evidence # None THEN AppendOnce(Seen, "failure") ELSE Seen
    BY DEF ChildFailed, SeenAtEnd
  <2>2. Seen \in Seq(EventIds) /\ Told(Seen) /\ "failure" \in EventIds
    BY SeenTold DEF RunInv, EventIds
  <2>3. QED
    BY <2>1, <2>2, AppendedOnce, ToldOnce
<1>4. cost' \in Nat /\ cost' <= child.paid
  BY <1>1 DEF RunInv, RunTyped, ChildOK
<1>5. ChildOK'
  BY <1>1, <1>2, <1>4 DEF RunInv, ChildOK, E2EAssumption
<1>6. RunTyped' /\ EventsOK'
  BY <1>1, <1>2, <1>3, <1>4 DEF RunInv, RunTyped, EventsOK
<1>7. QED
  BY <1>2, <1>5, <1>6 DEF RunInv

LEMMA ChildReadyStep == ASSUME E2EAssumption, RunInv, ChildReady PROVE RunInv'
<1>1. /\ at["architecture"] = "watch" /\ child.end = "ready" /\ events' = Seen
      /\ cost' = evidence.cost /\ BranchGoto("architecture", "project")
      /\ UNCHANGED <<atWork, buildDir, since, snap, tests, agents, child, evidence, delivered>>
  BY DEF ChildReady, SeenAtEnd, CostOfEvidence
<1>2. /\ at' \in [Branches \cup {"main"} -> Places] /\ at'["architecture"] = "project"
      /\ RulesOK' /\ MainOK'
  BY <1>1, WatchGoes, AgentsUnchanged DEF RunInv, RunTyped
<1>3. child.stage = "rereviewed" /\ evidence # None /\ evidence.cost = child.paid
  BY <1>1 DEF RunInv, ChildOK
<1>4. events' \in Seq(EventIds) /\ Told(events') /\ Contains(events', "patch")
  BY <1>1, <1>3, SeenTold DEF RunInv
<1>5. cost' \in Nat /\ cost' = child.paid
  BY <1>1, <1>3 DEF RunInv, RunTyped, Children
<1>6. ChildOK'
  BY <1>1, <1>2, <1>3, <1>5 DEF RunInv, ChildOK, E2EAssumption
<1>7. RunTyped' /\ EventsOK'
  BY <1>1, <1>2, <1>4, <1>5 DEF RunInv, RunTyped, EventsOK
<1>8. QED
  BY <1>2, <1>6, <1>7 DEF RunInv

LEMMA ProjectStep == ASSUME E2EAssumption, RunInv, Project PROVE RunInv'
<1>1. PICK to \in {"done", "failed"} :
        /\ BranchGoto("architecture", to)
        /\ to = "failed" => UNCHANGED <<agents, events, cost>>
        /\ to = "done" => /\ events' = AppendOnce(events, "rereview passed")
                          /\ cost' = evidence.cost
                          /\ Agent(Sole("architecture"), "succeeded")
  BY DEF Project
<1>2. /\ at["architecture"] = "project"
      /\ UNCHANGED <<atWork, buildDir, since, snap, tests, child, evidence, delivered>>
  BY DEF Project
<1>3. agents' \in [Agents -> Statuses] /\ ShardAgentsStay
  BY <1>1, SoleMoves, AgentsUnchanged DEF RunInv, RunTyped, Statuses
<1>4. /\ at' \in [Branches \cup {"main"} -> Places] /\ at'["architecture"] = to
      /\ RulesOK' /\ MainOK'
  BY <1>1, <1>2, <1>3, WatchGoes DEF RunInv, RunTyped
<1>5. /\ child.end = "ready" /\ evidence # None /\ evidence.cost = child.paid
      /\ cost' \in Nat /\ cost' <= child.paid /\ cost' = child.paid
  BY <1>1, <1>2 DEF RunInv, RunTyped, ChildOK, Children
<1>6. events' \in Seq(EventIds) /\ Told(events')
  <2>1. /\ events \in Seq(EventIds) /\ Told(events) /\ "rereview passed" \in EventIds
        /\ Contains(events, "patch")
    BY <1>2 DEF RunInv, RunTyped, EventsOK, EventIds
  <2>2. CASE to = "failed"
    BY <1>1, <2>1, <2>2
  <2>3. CASE to = "done"
    <3>1. events' = AppendOnce(events, "rereview passed")
      BY <1>1, <2>3
    <3>2. QED
      BY <2>1, <3>1, AppendedOnce, ToldOnce
  <2>4. QED
    BY <2>2, <2>3
<1>7. ChildOK'
  BY <1>2, <1>4, <1>5 DEF RunInv, ChildOK, E2EAssumption
<1>8. RunTyped' /\ EventsOK'
  BY <1>2, <1>3, <1>4, <1>5, <1>6 DEF RunInv, RunTyped, EventsOK
<1>9. QED
  BY <1>4, <1>7, <1>8 DEF RunInv

-----------------------------------------------------------------------------
(* The rules branch and the build directory it shares.                     *)

\* Where the rules branch goes while the architecture branch and the main thread stay.
LEMMA RulesGoes ==
  ASSUME RunInv, at["rules"] \notin {"off", "done", "failed"},
         NEW to \in Places, BranchGoto("rules", to),
         UNCHANGED <<events, child, evidence, cost, delivered>>
  PROVE  /\ at' \in [Branches \cup {"main"} -> Places] /\ at'["rules"] = to
         /\ ChildOK' /\ EventsOK' /\ MainOK'
<1>1. /\ at' \in [Branches \cup {"main"} -> Places] /\ at'["rules"] = to
      /\ Stays("architecture") /\ Stays("main")
  BY OneGoes DEF RunInv, Branches
<1>2. QED
  BY <1>1, ChildStays, EventsStay, MainStays DEF RunInv, Branches

\* The rules branch tests, waits and goes on.
LEMMA RulesTyped ==
  ASSUME RunTyped, at' \in [Branches \cup {"main"} -> Places],
         agents' \in [Agents -> Statuses], tests' \in [Phases -> [Cases -> Reports \cup {None}]],
         snap' = [baseline |-> snap'.baseline, candidate |-> snap'.candidate],
         UNCHANGED <<child, cost, events, evidence>>
  PROVE  RunTyped'
BY DEF RunTyped

\* Between the phases the branch keeps what the shards have measured.
LEMMA RulesGoOn ==
  ASSUME RulesOK, at["rules"] \notin Seeds, at'["rules"] \notin Seeds,
         at'["rules"] # "candidateShards", atWork' = {},
         snap'.baseline = snap.baseline, UNCHANGED tests, ShardAgentsStay,
         at'["rules"] \in Tested => AllSucceeded("baseline"),
         at'["rules"] = "done" => /\ at["rules"] = "candidateShards" /\ AllSucceeded("candidate")
                                  /\ snap' = snap
  PROVE  RulesOK'
<1>1. "baseline" \in Phases /\ "candidate" \in Phases
  BY DEF Phases
<1>2. \A p \in Phases : AllSucceeded(p) => AllSucceeded(p)'
  BY DEF AllSucceeded, ShardAgentsStay
<1>3. \A p \in Phases : \A v : ShardsMeasured(p, v) => ShardsMeasured(p, v)'
  BY DEF ShardsMeasured, ShardAgentsStay, Shard
<1>4. snap.baseline = Baseline /\ ShardsMeasured("baseline", Baseline)
  BY DEF RulesOK
<1>5. at'["rules"] = "done" => ShardsMeasured("candidate", snap.candidate)'
  <2> SUFFICES ASSUME at'["rules"] = "done" PROVE ShardsMeasured("candidate", snap.candidate)'
    OBVIOUS
  <2>1. ShardsMeasured("candidate", snap.candidate)
    BY DEF RulesOK
  <2>2. QED
    BY <1>1, <2>1 DEF ShardsMeasured, ShardAgentsStay, Shard
<1>6. QED
  BY <1>1, <1>2, <1>3, <1>4, <1>5 DEF RulesOK

\* The shards of a phase are started.
LEMMA ShardsStart ==
  ASSUME RunTyped, NEW phase \in Phases, atWork' = {phase} \X Shards,
         agents' = [a \in Agents |-> IF a \in atWork' THEN "running" ELSE agents[a]]
  PROVE  /\ agents' \in [Agents -> Statuses]
         /\ \A a \in atWork' : agents'[a] = "running"
         /\ \A w \in Shards : agents'[<<phase, w>>] = "running"
         /\ \A p \in Phases \ {phase}, w \in Shards : agents'[<<p, w>>] = agents[<<p, w>>]
<1>1. agents' \in [Agents -> Statuses]
  BY DEF RunTyped, Statuses
<1>2. \A p \in Phases, w \in Shards : <<p, w>> \in Agents
  BY DEF Agents, Phases, Shards
<1>3. \A a \in atWork' : a \in Agents
  BY <1>2
<1>4. \A p \in Phases \ {phase}, w \in Shards : <<p, w>> \notin atWork'
  OBVIOUS
<1>5. \A w \in Shards : <<phase, w>> \in atWork'
  OBVIOUS
<1>6. QED
  BY <1>1, <1>2, <1>3, <1>4, <1>5

LEMMA SnapshotStep == ASSUME RunInv, Snapshot PROVE RunInv'
<1>1. /\ at["rules"] = "baseline" /\ BranchGoto("rules", "baselineShards")
      /\ snap' = [snap EXCEPT !.baseline = Baseline] /\ atWork' = {"baseline"} \X Shards
      /\ agents' = [a \in Agents |-> IF a \in atWork' THEN "running" ELSE agents[a]]
      /\ UNCHANGED <<buildDir, since, tests, events, child, evidence, cost, delivered>>
  BY DEF Snapshot
<1>2. /\ at' \in [Branches \cup {"main"} -> Places] /\ at'["rules"] = "baselineShards"
      /\ ChildOK' /\ EventsOK' /\ MainOK'
  BY <1>1, RulesGoes DEF Places
<1>3. "baseline" \in Phases /\ RunTyped
  BY DEF Phases, RunInv
<1>4. /\ agents' \in [Agents -> Statuses]
      /\ \A a \in atWork' : agents'[a] = "running"
      /\ \A w \in Shards : agents'[<<"baseline", w>>] = "running"
  BY <1>1, <1>3, ShardsStart
<1>5. /\ snap'.baseline = Baseline
      /\ snap' = [baseline |-> snap'.baseline, candidate |-> snap'.candidate]
  BY <1>1, <1>3 DEF RunTyped
<1>6. RunTyped'
  BY <1>1, <1>2, <1>3, <1>4, <1>5, RulesTyped DEF RunTyped
<1>7. ShardsMeasured("baseline", Baseline)'
  <2>1. Shards' = Shards
    BY DEF Shards, Shard
  <2>2. QED
    BY <1>4, <2>1 DEF ShardsMeasured
<1>8. Phase' = "baseline"
  BY <1>2 DEF Phase
<1>9. RulesOK'
  BY <1>1, <1>2, <1>4, <1>5, <1>7, <1>8 DEF RulesOK, Seeds, Tested
<1>10. QED
  BY <1>2, <1>6, <1>9 DEF RunInv

\* What a shard at work tests, and where the branch is meanwhile.
LEMMA AtWork ==
  ASSUME RunInv, NEW w, <<Phase, w>> \in atWork
  PROVE  /\ w \in Shards /\ Phase \in Phases /\ <<Phase, w>> \in Agents
         /\ at["rules"] \in {"baselineShards", "candidateShards"}
         /\ Phase = IF at["rules"] = "baselineShards" THEN "baseline" ELSE "candidate"
         /\ ShardsMeasured(Phase, Rules)
         /\ Rules = IF Phase = "baseline" THEN Baseline ELSE snap.candidate
<1>1. /\ w \in Shards /\ at["rules"] \in {"baselineShards", "candidateShards"}
      /\ Phase = IF at["rules"] = "baselineShards" THEN "baseline" ELSE "candidate"
  BY DEF RunInv, RulesOK, Phase
<1>2. Phase \in Phases /\ <<Phase, w>> \in Agents
  BY <1>1 DEF Phases, Agents, Shards
<1>3. snap.baseline = Baseline /\ ShardsMeasured("baseline", Baseline)
  BY <1>1 DEF RunInv, RulesOK, Seeds
<1>4. at["rules"] = "candidateShards" => ShardsMeasured("candidate", snap.candidate)
  BY DEF RunInv, RulesOK
<1>5. QED
  BY <1>1, <1>2, <1>3, <1>4 DEF Rules

LEMMA ResultReports == ASSUME NEW rules, NEW c PROVE Result(rules, c) \in Reports
BY DEF Result, Reports

\* A shard that reports has the results of its cases; the others keep theirs.
LEMMA ShardMeasured ==
  ASSUME RunInv, NEW w, <<Phase, w>> \in atWork, ShardDone(w)
  PROVE  /\ tests' \in [Phases -> [Cases -> Reports \cup {None}]]
         /\ agents' \in [Agents -> Statuses]
         /\ ShardsMeasured(Phase, Rules)'
         /\ \A p \in Phases \ {Phase} : tests'[p] = tests[p]
         /\ \A p \in Phases \ {Phase}, v \in Shards : agents'[<<p, v>>] = agents[<<p, v>>]
         /\ \A a \in atWork \ {<<Phase, w>>} : agents'[a] = agents[a]
<1>1. /\ tests' = [tests EXCEPT ![Phase] = [c \in Cases |-> IF c \in Shard(w) THEN Result(Rules, c) ELSE @[c]]]
      /\ agents' = [agents EXCEPT ![<<Phase, w>>] = "succeeded"]
      /\ UNCHANGED <<at, snap>>
  BY DEF ShardDone, Agent
<1>2. /\ w \in Shards /\ Phase \in Phases /\ <<Phase, w>> \in Agents
      /\ ShardsMeasured(Phase, Rules)
  BY AtWork
<1>3. Phase' = Phase /\ Rules' = Rules /\ Shards' = Shards
  BY <1>1 DEF Phase, Rules, Shards, Shard
<1>4. tests \in [Phases -> [Cases -> Reports \cup {None}]] /\ agents \in [Agents -> Statuses]
  BY DEF RunInv, RunTyped
<1>5. \A c \in Cases : Result(Rules, c) \in Reports
  BY ResultReports
<1>6. tests' \in [Phases -> [Cases -> Reports \cup {None}]]
  BY <1>1, <1>2, <1>4, <1>5
<1>7. agents' \in [Agents -> Statuses]
  BY <1>1, <1>4 DEF Statuses
<1>8. \A c \in Cases : tests'[Phase][c] = IF c \in Shard(w) THEN Result(Rules, c) ELSE tests[Phase][c]
  BY <1>1, <1>2, <1>4
<1>9. \A v \in Shards : v # w => agents'[<<Phase, v>>] = agents[<<Phase, v>>]
  <2>1. \A v \in Shards : <<Phase, v>> \in Agents
    BY <1>2 DEF Agents, Phases, Shards
  <2>2. QED
    BY <1>1, <1>4, <2>1
<1>10. \A v \in Shards : \A c \in Shard(v) : c \in Cases
  BY DEF Shard, Cases, Range
<1>11. ShardsMeasured(Phase, Rules)'
  <2> SUFFICES ASSUME NEW v \in Shards, agents'[<<Phase, v>>] = "succeeded", NEW c \in Shard(v)
               PROVE  tests'[Phase][c] = Result(Rules, c)
    BY <1>3 DEF ShardsMeasured, Shard
  <2>1. CASE v = w
    BY <1>8, <1>10, <2>1
  <2>2. CASE v # w
    BY <1>2, <1>8, <1>9, <1>10, <2>2 DEF ShardsMeasured
  <2>3. QED
    BY <2>1, <2>2
<1>12. \A p \in Phases \ {Phase} : tests'[p] = tests[p]
  BY <1>1, <1>4
<1>13. \A p \in Phases \ {Phase}, v \in Shards :
         <<p, v>> \in Agents /\ agents'[<<p, v>>] = agents[<<p, v>>]
  <2>1. \A p \in Phases, v \in Shards : <<p, v>> \in Agents
    BY DEF Agents, Phases, Shards
  <2>2. QED
    BY <1>1, <1>4, <2>1
<1>14. \A a \in atWork \ {<<Phase, w>>} : agents'[a] = agents[a]
  <2>1. \A a \in atWork : a \in Agents
    BY DEF RunInv, RulesOK, Agents, Shards, Phase
  <2>2. QED
    BY <1>1, <1>4, <2>1
<1>15. QED
  BY <1>6, <1>7, <1>11, <1>12, <1>13, <1>14

LEMMA ShardDoneStep == ASSUME RunInv, NEW w, ShardDone(w) PROVE RunInv'
<1>1. /\ <<Phase, w>> \in atWork /\ atWork' = atWork \ {<<Phase, w>>}
      /\ UNCHANGED <<at, buildDir, since, snap, events, child, evidence, cost, delivered>>
  BY DEF ShardDone
<1>2. /\ at["rules"] \in {"baselineShards", "candidateShards"} /\ Phase \in Phases
      /\ Phase = IF at["rules"] = "baselineShards" THEN "baseline" ELSE "candidate"
      /\ Rules = IF Phase = "baseline" THEN Baseline ELSE snap.candidate
  BY <1>1, AtWork
<1>3. /\ tests' \in [Phases -> [Cases -> Reports \cup {None}]]
      /\ agents' \in [Agents -> Statuses]
      /\ ShardsMeasured(Phase, Rules)'
      /\ \A p \in Phases \ {Phase} : tests'[p] = tests[p]
      /\ \A p \in Phases \ {Phase}, v \in Shards : agents'[<<p, v>>] = agents[<<p, v>>]
      /\ \A a \in atWork \ {<<Phase, w>>} : agents'[a] = agents[a]
  BY <1>1, ShardMeasured
<1>4. MainOK' /\ Stays("rules") /\ Stays("architecture")
  BY <1>1, NothingMoves DEF RunInv, Branches
<1>5. ChildOK' /\ EventsOK'
  BY <1>1, <1>4, ChildStays, EventsStay DEF RunInv
<1>6. RunTyped'
  BY <1>1, <1>3, RulesTyped DEF RunInv, RunTyped
<1>7. Phase' = Phase /\ Shards' = Shards
  BY <1>1 DEF Phase, Shards, Shard
<1>8. atWork' \subseteq {Phase} \X Shards /\ \A a \in atWork' : agents'[a] = "running"
  BY <1>1, <1>3 DEF RunInv, RulesOK
<1>9. CASE at["rules"] = "baselineShards"
  <2>1. ShardsMeasured("baseline", Baseline)'
    BY <1>1, <1>2, <1>3, <1>9 DEF ShardsMeasured, Rules, Phase
  <2>2. QED
    BY <1>1, <1>5, <1>6, <1>4, <1>7, <1>8, <1>9, <2>1 DEF RunInv, RulesOK, Tested
<1>10. CASE at["rules"] = "candidateShards"
  <2>1. ShardsMeasured("candidate", snap.candidate)'
    BY <1>1, <1>2, <1>3, <1>10 DEF ShardsMeasured, Rules, Phase
  <2>2. /\ \A v \in Shards : agents'[<<"baseline", v>>] = agents[<<"baseline", v>>]
        /\ tests'["baseline"] = tests["baseline"]
    BY <1>2, <1>3, <1>10 DEF Phases
  <2>3. snap.baseline = Baseline /\ ShardsMeasured("baseline", Baseline) /\ AllSucceeded("baseline")
    BY <1>10 DEF RunInv, RulesOK, Seeds, Tested
  <2>4. ShardsMeasured("baseline", Baseline)' /\ AllSucceeded("baseline")'
    BY <1>7, <2>2, <2>3 DEF ShardsMeasured, AllSucceeded, Shard
  <2>5. QED
    BY <1>1, <1>5, <1>6, <1>4, <1>7, <1>8, <1>10, <2>1, <2>3, <2>4 DEF RunInv, RulesOK
<1>11. QED
  BY <1>2, <1>9, <1>10

LEMMA ShardFailsStep == ASSUME RunInv, NEW w, ShardFails(w) PROVE RunInv'
<1>1. /\ atWork' = atWork \ {<<Phase, w>>}
      /\ UNCHANGED <<at, buildDir, since, snap, tests, agents, events, child, evidence, cost, delivered>>
  BY DEF ShardFails
<1>2. MainOK' /\ Stays("rules") /\ Stays("architecture")
  BY <1>1, NothingMoves DEF RunInv, Branches
<1>3. ChildOK' /\ EventsOK' /\ RunTyped'
  BY <1>1, <1>2, ChildStays, EventsStay DEF RunInv, RunTyped
<1>4. RulesOK'
  BY <1>1 DEF RunInv, RulesOK, Phase, ShardsMeasured, AllSucceeded, Shards, Shard
<1>5. QED
  BY <1>2, <1>3, <1>4 DEF RunInv

LEMMA PhaseEndsStep == ASSUME RunInv, PhaseEnds PROVE RunInv'
<1>1. /\ at["rules"] \in {"baselineShards", "candidateShards"} /\ atWork' = {}
      /\ UNCHANGED <<atWork, buildDir, since, snap, tests, events, child, evidence, cost, delivered>>
  BY DEF PhaseEnds
<1>2. PICK to \in {"failed", "evolve", "done"} :
        /\ BranchGoto("rules", to)
        /\ to = "evolve" => Phase = "baseline" /\ Agent(Sole("evolver"), "running")
        /\ to # "evolve" => UNCHANGED agents
        /\ to # "failed" => AllSucceeded(Phase)
        /\ to = "done" => Phase # "baseline"
  BY DEF PhaseEnds, AllSucceeded
<1>3. /\ at' \in [Branches \cup {"main"} -> Places] /\ at'["rules"] = to
      /\ ChildOK' /\ EventsOK' /\ MainOK'
  BY <1>1, <1>2, RulesGoes DEF Places
<1>4. agents' \in [Agents -> Statuses] /\ ShardAgentsStay
  BY <1>2, SoleMoves, AgentsUnchanged DEF RunInv, RunTyped, Statuses
<1>5. RunTyped'
  BY <1>1, <1>3, <1>4, RulesTyped DEF RunInv, RunTyped
<1>6. /\ at["rules"] \notin Seeds /\ at'["rules"] \notin Seeds /\ at'["rules"] # "candidateShards"
  BY <1>1, <1>3 DEF Seeds
<1>7. at'["rules"] \in Tested => AllSucceeded("baseline")
  <2>1. CASE to = "evolve"
    BY <1>2, <2>1
  <2>2. CASE to = "done"
    BY <1>1, <1>2, <2>2 DEF Phase, RunInv, RulesOK, Tested
  <2>3. CASE to = "failed"
    BY <1>3, <2>3 DEF Tested
  <2>4. QED
    BY <2>1, <2>2, <2>3
<1>8. at'["rules"] = "done" => /\ at["rules"] = "candidateShards" /\ AllSucceeded("candidate")
                               /\ snap' = snap
  BY <1>1, <1>2, <1>3 DEF Phase
<1>9. RulesOK'
  BY <1>1, <1>4, <1>6, <1>7, <1>8, RulesGoOn DEF RunInv
<1>10. QED
  BY <1>3, <1>5, <1>9 DEF RunInv

\* Nothing is at work while the evolver and the snapshot go on.
LEMMA EvolverGoes ==
  ASSUME RunInv, at["rules"] \in {"evolve", "manifest", "snapshot", "validate"},
         NEW to \in {"failed", "manifest", "snapshot", "validate"}, BranchGoto("rules", to),
         agents' \in [Agents -> Statuses], ShardAgentsStay, snap'.baseline = snap.baseline,
         snap' = [baseline |-> snap'.baseline, candidate |-> snap'.candidate],
         UNCHANGED <<atWork, tests, events, child, evidence, cost, delivered>>
  PROVE  RunInv'
<1>1. /\ at' \in [Branches \cup {"main"} -> Places] /\ at'["rules"] = to
      /\ ChildOK' /\ EventsOK' /\ MainOK'
  BY RulesGoes DEF Places
<1>2. RunTyped'
  BY <1>1, RulesTyped DEF RunInv, RunTyped
<1>3. atWork' = {} /\ at["rules"] \notin Seeds /\ AllSucceeded("baseline")
  BY DEF RunInv, RulesOK, Seeds, Tested
<1>4. RulesOK'
  BY <1>1, <1>3, RulesGoOn DEF RunInv, Seeds
<1>5. QED
  BY <1>1, <1>2, <1>4 DEF RunInv

LEMMA EvolveBuildStep == ASSUME RunInv, EvolveBuild PROVE RunInv'
<1>1. PICK to \in {"failed", "manifest"} : BranchGoto("rules", to)
  BY DEF EvolveBuild
<1>2. /\ at["rules"] = "evolve"
      /\ UNCHANGED <<atWork, snap, tests, agents, events, child, evidence, cost, delivered>>
  BY DEF EvolveBuild
<1>3. QED
  BY <1>1, <1>2, EvolverGoes, AgentsUnchanged DEF RunInv, RunTyped

LEMMA EvolveManifestStep == ASSUME RunInv, EvolveManifest PROVE RunInv'
<1>1. /\ at["rules"] = "manifest" /\ BranchGoto("rules", "snapshot")
      /\ Agent(Sole("evolver"), "succeeded")
      /\ UNCHANGED <<atWork, since, snap, tests, events, child, evidence, cost, delivered>>
  BY DEF EvolveManifest
<1>2. agents' \in [Agents -> Statuses] /\ ShardAgentsStay
  BY <1>1, SoleMoves DEF RunInv, Statuses
<1>3. QED
  BY <1>1, <1>2, EvolverGoes DEF RunInv, RunTyped

LEMMA SnapshotCandidateStep == ASSUME RunInv, SnapshotCandidate PROVE RunInv'
<1>1. /\ at["rules"] = "snapshot" /\ BranchGoto("rules", "validate")
      /\ snap' = [snap EXCEPT !.candidate = buildDir.rules]
      /\ UNCHANGED <<atWork, buildDir, since, tests, agents, events, child, evidence, cost, delivered>>
  BY DEF SnapshotCandidate
<1>2. /\ snap'.baseline = snap.baseline
      /\ snap' = [baseline |-> snap'.baseline, candidate |-> snap'.candidate]
  BY <1>1 DEF RunInv, RunTyped
<1>3. QED
  BY <1>1, <1>2, EvolverGoes, AgentsUnchanged DEF RunInv, RunTyped

LEMMA ValidateManifestStep == ASSUME RunInv, ValidateManifest PROVE RunInv'
<1>1. /\ at["rules"] = "validate"
      /\ UNCHANGED <<buildDir, since, snap, tests, events, child, evidence, cost, delivered>>
  BY DEF ValidateManifest
<1>2. CASE ManifestFits
  <2>1. /\ BranchGoto("rules", "candidateShards") /\ atWork' = {"candidate"} \X Shards
        /\ agents' = [a \in Agents |-> IF a \in atWork' THEN "running" ELSE agents[a]]
    BY <1>2 DEF ValidateManifest
  <2>2. /\ at' \in [Branches \cup {"main"} -> Places] /\ at'["rules"] = "candidateShards"
        /\ ChildOK' /\ EventsOK' /\ MainOK'
    BY <1>1, <2>1, RulesGoes DEF Places
  <2>3. "candidate" \in Phases /\ "baseline" \in Phases \ {"candidate"} /\ RunTyped
    BY DEF Phases, RunInv
  <2>4. /\ agents' \in [Agents -> Statuses]
        /\ \A a \in atWork' : agents'[a] = "running"
        /\ \A w \in Shards : agents'[<<"candidate", w>>] = "running"
        /\ \A w \in Shards : agents'[<<"baseline", w>>] = agents[<<"baseline", w>>]
    BY <2>1, <2>3, ShardsStart
  <2>5. RunTyped'
    BY <1>1, <2>2, <2>3, <2>4, RulesTyped DEF RunTyped
  <2>6. snap.baseline = Baseline /\ ShardsMeasured("baseline", Baseline) /\ AllSucceeded("baseline")
    BY <1>1 DEF RunInv, RulesOK, Seeds, Tested
  <2>7. Shards' = Shards
    BY DEF Shards, Shard
  <2>8. ShardsMeasured("candidate", snap.candidate)'
    BY <2>4, <2>7 DEF ShardsMeasured
  <2>9. ShardsMeasured("baseline", Baseline)' /\ AllSucceeded("baseline")'
    BY <1>1, <2>4, <2>6, <2>7 DEF ShardsMeasured, AllSucceeded, Shard
  <2>10. Phase' = "candidate"
    BY <2>2 DEF Phase
  <2>11. RulesOK'
    BY <1>1, <2>1, <2>2, <2>4, <2>6, <2>7, <2>8, <2>9, <2>10 DEF RulesOK
  <2>12. QED
    BY <2>2, <2>5, <2>11 DEF RunInv
<1>3. CASE ~ManifestFits
  <2>1. BranchGoto("rules", "failed") /\ UNCHANGED <<atWork, agents>>
    BY <1>3 DEF ValidateManifest
  <2>2. QED
    BY <1>1, <2>1, EvolverGoes, AgentsUnchanged DEF RunInv, RunTyped
<1>4. QED
  BY <1>2, <1>3

\* Another evolution cycle, or no step at all: what the run has is left alone.
LEMMA OutsideSteps ==
  ASSUME RunInv,
         UNCHANGED <<at, atWork, snap, tests, agents, events, child, evidence, cost, delivered>>
  PROVE  RunInv'
<1>1. MainOK' /\ Stays("rules") /\ Stays("architecture")
  BY NothingMoves DEF RunInv, Branches
<1>2. RulesOK' /\ ChildOK' /\ EventsOK'
  BY <1>1, RulesStay, ChildStays, EventsStay, AgentsUnchanged DEF RunInv
<1>3. RunTyped'
  BY DEF RunInv, RunTyped
<1>4. QED
  BY <1>1, <1>2, <1>3 DEF RunInv

LEMMA RunGoesOn == ASSUME E2EAssumption, RunInv, [E2ENext]_e2eVars PROVE RunInv'
<1>1. CASE Main
  BY <1>1, PlanStep, JoinStep, GateStep DEF Main
<1>2. CASE Workspace
  BY <1>2, WorkspaceStep
<1>3. CASE RulesStep
  BY <1>3, SnapshotStep, PhaseEndsStep, EvolveBuildStep, EvolveManifestStep, SnapshotCandidateStep,
     ValidateManifestStep, ShardDoneStep, ShardFailsStep DEF RulesStep
<1>4. CASE Architecture
  BY <1>4, SpawnStep, ObserveStep, TimeoutStep, ChildFailedStep, ChildReadyStep, ProjectStep
  DEF Architecture
<1>5. CASE Child
  BY <1>5, ChildStageStep, ChildEndsStep DEF Child
<1>6. CASE OutsideBuild
  BY <1>6, OutsideSteps DEF OutsideBuild
<1>7. CASE OutsideManifest
  BY <1>7, OutsideSteps DEF OutsideManifest
<1>8. CASE Done
  BY <1>8, OutsideSteps DEF Done, e2eVars
<1>9. CASE UNCHANGED e2eVars
  BY <1>9, OutsideSteps DEF e2eVars
<1>10. QED
  BY <1>1, <1>2, <1>3, <1>4, <1>5, <1>6, <1>7, <1>8, <1>9 DEF E2ENext

LEMMA RunIsWell == ASSUME RunInv PROVE RunIsMeasured
<1>1. SuccessIsMeasured
  BY DEF RunInv, MainOK
<1>2. E2ETypeOK
  <2>1. \A p \in {"baseline", "candidate"} : \A c \in Cases :
          tests[p][c] # None => tests[p][c].passed \in BOOLEAN
    BY DEF RunInv, RunTyped, Reports, Phases
  <2>2. QED
    BY <2>1 DEF RunInv, RulesOK, ChildOK, EventsOK, Told, E2ETypeOK
<1>3. NothingOutlivesTheRun
  <2> SUFFICES ASSUME Over
               PROVE  /\ atWork = {} /\ \A b \in Branches : Ended(b)
                      /\ child.stage = "none" \/ child.end # None
    BY DEF NothingOutlivesTheRun
  <2>1. \A b \in Branches : Ended(b)
    BY DEF RunInv, MainOK, Over
  <2>2. Ended("rules") /\ Ended("architecture")
    BY <2>1 DEF Branches
  <2>3. QED
    BY <2>1, <2>2 DEF Ended, RunInv, RulesOK, ChildOK
<1>4. StagesAreTold
  BY DEF RunInv, EventsOK, Told, StagesAreTold
<1>5. PaidIsShown
  <2> SUFFICES ASSUME Over, child.end = "ready" PROVE cost = child.paid
    BY DEF PaidIsShown
  <2>1. Ended("architecture")
    BY DEF RunInv, MainOK, Over, Branches
  <2>2. QED
    BY <2>1 DEF Ended, RunInv, ChildOK
<1>6. QED
  BY <1>1, <1>2, <1>3, <1>4, <1>5 DEF RunIsMeasured

\* A run that succeeds was measured on the two rule sets it hands over, whatever the branches,
\* the shards and another evolution cycle do meanwhile; a run that is over has nothing at work;
\* and the reviewer reads the stages in order, and what they cost.
THEOREM RunsAreMeasured == ASSUME E2EAssumption PROVE E2ESpec => []RunIsMeasured
<1>1. E2EInit => RunInv
  BY RunStarts
<1>2. RunInv /\ [E2ENext]_e2eVars => RunInv'
  BY RunGoesOn
<1>3. RunInv => RunIsMeasured
  BY RunIsWell
<1>4. QED
  BY <1>1, <1>2, <1>3, PTL DEF E2ESpec

=============================================================================

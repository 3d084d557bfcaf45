--------------------------- MODULE ArchEvolution ---------------------------
(***************************************************************************)
(* scripts/run_architecture_evolution.py: one correlation key from a paid  *)
(* review of a head, through a paid remediation and a candidate commit, to *)
(* a paid re-review of the candidate and the evidence.                     *)
(*                                                                         *)
(* A launch may fail at any stage or be killed between any two writes, and *)
(* the operator launches again with the same key: the checkpoints, the git *)
(* repository, the failure counts and the gateway's ledger survive, the    *)
(* variables of the process do not, and what its backend knows of a task   *)
(* that was sent is among these.  A task may land in the ledger after the  *)
(* launch that sent it is over, and the ledger is read in a window.        *)
(***************************************************************************)
EXTENDS Naturals, Sequences, FiniteSets

CONSTANTS
  None, Failed,
  Demo,          \* the launches review the demo repository, made on the first one
  Legacy,        \* the candidate branch an earlier version may have left
  LateLanding,   \* a task may land after its launch, and leave the window of the ledger
  OwnerActs,     \* the owner may move the source branch and remove the worktree
  MaxSpend,      \* MAX_IMPLEMENTATION_SPEND_USD, in tasks
  Limit,         \* the limit of the provider's account, in tasks
  MaxLaunches, MaxCommits, MaxTasks    \* bounds

VARIABLES
  pc, run,       \* the running launch: where it is, its variables
  launches,      \* launches so far
  repository,    \* the reviewed repository: absent, partly made, ready
  source,        \* the caller's branch: how often the owner moved it
  branch,        \* the commit of the candidate branch
  worktree,      \* the candidate worktree: its commit, uncommitted work, and whether it is on the branch
  commits,       \* commits made so far
  phases,        \* phases.json
  live,          \* the stored results of the live review: [head -> result]
  state,         \* state.json
  failures,      \* failures.json: [code -> count]
  evidence,      \* the public evidence
  refused,       \* why the last launch ended without a candidate
  tasks          \* the paid tasks, in the order they were sent

disk == <<phases, live, state, failures, evidence>>
git == <<repository, source, branch, worktree, commits>>
vars == <<pc, run, launches, repository, source, branch, worktree, commits, phases, live, state, failures,
          evidence, refused, tasks>>

Stages == {"before", "remediation", "after"}

\* Codes that _transport_or_tool_failure counts, and codes it does not.
Counted == {"ouroboros_transport_failed", "remediation_transport_failed"}
Uncounted == {"aga_incomplete", "budget_api_unavailable", "git_command_failed"}

Commits == [tree : {"head", "patch", "full"}, n : 0..MaxCommits]
ReviewedHead == [tree |-> "head", n |-> 0]
Patch == [tree |-> "patch", n |-> 0]

\* What has landed is paid.
Usage == Cardinality({i \in DOMAIN tasks : tasks[i].place # "sent"})

NoRun == [making |-> FALSE, initial |-> 0, source |-> 0, before |-> None, commit |-> None, task |-> None]

Init ==
  /\ pc = "idle" /\ run = NoRun /\ launches = 0
  /\ repository = IF Demo THEN "absent" ELSE "ready"
  /\ source = 0 /\ commits = 0
  /\ \/ branch = None /\ worktree = None
     \/ /\ Legacy
        /\ branch = Patch
        /\ worktree \in {None, [at |-> Patch, dirty |-> FALSE, attached |-> TRUE]}
  /\ phases = [before |-> None, remediation |-> FALSE]
  /\ live = [h \in {} |-> None]
  /\ state = None /\ evidence = None /\ refused = None
  /\ failures = [c \in Counted |-> 0]
  /\ tasks = <<>>

-----------------------------------------------------------------------------
\* Ending a launch.

\* What is raised before the first budget checkpoint is not recorded.
Refuse(code) ==
  /\ pc' = "idle" /\ run' = NoRun /\ refused' = code
  /\ UNCHANGED <<launches, git, disk, tasks>>

\* Nobody waits any more for what was sent and has not landed.
Adrift == [i \in DOMAIN tasks |-> [tasks[i] EXCEPT !.adrift = @ \/ tasks[i].place = "sent"]]

\* _record_failed_batch: the count is kept and the public evidence becomes the failure.
Record(code) ==
  /\ pc' = "idle" /\ run' = NoRun /\ refused' = code
  /\ failures' = IF code \in Counted THEN [failures EXCEPT ![code] = @ + 1] ELSE failures
  /\ evidence' = Failed
  /\ UNCHANGED <<launches, git, phases, live, state>>

Fail(code) == Record(code) /\ tasks' = Adrift

Crash ==
  /\ pc # "idle"
  /\ pc' = "idle" /\ run' = NoRun /\ refused' = "killed"
  /\ tasks' = Adrift
  /\ UNCHANGED <<launches, git, disk>>

\* Any stage may meet a failing tool, a failing transport or an unavailable budget endpoint.
Trouble ==
  /\ pc \notin {"idle", "scenario", "start", "publish", "announce"}
  /\ \E code \in Counted \cup Uncounted : Fail(code)

-----------------------------------------------------------------------------
\* The start of a launch.

Launch ==
  /\ pc = "idle" /\ launches < MaxLaunches
  /\ launches' = launches + 1
  /\ pc' = "scenario"
  /\ refused' = None
  /\ UNCHANGED <<run, git, disk, tasks>>

\* _materialize_demo: the repository is made first, and demo.json says last that it is ready.
MakeDemo ==
  /\ pc = "scenario" /\ repository # "ready"
  /\ IF repository = "partial" /\ ~run.making
       THEN Refuse("demo_state_conflict")
       ELSE /\ repository' = IF repository = "absent" THEN "partial" ELSE "ready"
            /\ run' = [run EXCEPT !.making = TRUE]
            /\ UNCHANGED <<pc, launches, source, branch, worktree, commits, disk, refused, tasks>>

\* _existing_scenario: the head of the caller's branch as it is now.
Bind ==
  /\ pc = "scenario" /\ repository = "ready"
  /\ pc' = "start"
  /\ run' = [NoRun EXCEPT !.source = source]
  /\ UNCHANGED <<launches, git, disk, refused, tasks>>

\* _cached_result: the saved result, while the branch is still at the commit it names and the
\* caller's branch where it was.
Reusable == state.source = run.source /\ branch # None /\ branch = state.commit

\* _failure_guard.
Repeated == \E c \in Counted : failures[c] >= 2

\* _budget_checkpoint: what the account has left, and what was spent since a launch began.
Affordable(initial) == Limit - Usage >= 1 /\ Usage - initial < MaxSpend

Start ==
  /\ pc = "start"
  /\ \/ /\ state # None
        /\ IF Reusable
             THEN /\ evidence' = state
                  /\ pc' = "idle" /\ run' = NoRun
                  /\ UNCHANGED <<launches, git, phases, live, state, failures, refused, tasks>>
             ELSE Refuse("cached_candidate_missing")
     \/ /\ state = None
        /\ \/ phases.before = "incomplete" /\ Refuse("phase_state_invalid")
           \/ phases.before # "incomplete" /\ Repeated /\ Refuse("repeated_transport_tool_failure_stop")
           \/ /\ phases.before # "incomplete" /\ ~Repeated
              /\ \/ Refuse("budget_api_unavailable")
                 \/ ~Affordable(Usage) /\ Refuse("remaining_budget_below_minimum")
                 \/ /\ Affordable(Usage)
                    /\ run' = [run EXCEPT !.initial = Usage, !.before = phases.before]
                    /\ pc' = IF phases.before = None THEN "before" ELSE "select"
                    /\ UNCHANGED <<launches, git, disk, refused, tasks>>

-----------------------------------------------------------------------------
\* A task of the gateway.

Key(s, h) == <<s, h>>

\* mutant: the ledger is not read
LedgerUnread(s, h) == {}

\* _reconcile_schedule: the tasks of this very request, among the newest of the ledger.
Known(s, h) == {i \in DOMAIN tasks : tasks[i].key = Key(s, h) /\ tasks[i].place = "listed"}

Wait(i, next) == pc' = next /\ run' = [run EXCEPT !.task = i]

\* schedule_task: a task that is there is adopted; of two, each is cancelled unless it has
\* ended.  Otherwise one is sent.  If its command fails, the ledger is read again, and without
\* the task there the launch fails (Trouble): only its process knows that the key is ambiguous.
Schedule(s, h, next) ==
  LET found == Known(s, h) IN
  \/ /\ Cardinality(found) = 1
     /\ \E i \in found : Wait(i, next)
     /\ UNCHANGED <<launches, git, disk, refused, tasks>>
  \/ /\ Cardinality(found) > 1
     /\ Record("idempotency_conflict")
     /\ tasks' = [i \in DOMAIN tasks |->
                    IF i \in found /\ tasks[i].outcome = None
                    THEN [tasks[i] EXCEPT !.outcome = "failed"] ELSE tasks[i]]
  \/ /\ found = {} /\ Len(tasks) < MaxTasks
     /\ Wait(Len(tasks) + 1, next)
     /\ \E place \in IF LateLanding THEN {"sent", "listed"} ELSE {"listed"} :
          tasks' = Append(tasks, [key |-> Key(s, h), outcome |-> None, place |-> place, adrift |-> FALSE])
     /\ UNCHANGED <<launches, git, disk, refused>>

\* What was sent lands in the ledger, whether or not anybody waits for it.
Land ==
  /\ \E i \in DOMAIN tasks :
       tasks[i].place = "sent" /\ tasks' = [tasks EXCEPT ![i].place = "listed"]
  /\ UNCHANGED <<pc, run, launches, git, disk, refused>>

\* Tasks of others come after it, until it is out of the window.  Bound: between two launches;
\* a launch looks for a task once.
Leave ==
  /\ LateLanding /\ pc = "idle"
  /\ \E i \in DOMAIN tasks :
       tasks[i].place = "listed" /\ tasks' = [tasks EXCEPT ![i].place = "past"]
  /\ UNCHANGED <<pc, run, launches, git, disk, refused>>

\* A task that has landed ends, or has ended.
Ended(i, outcome) ==
  /\ tasks[i].place # "sent"
  /\ tasks[i].outcome \in {None, outcome}
  /\ tasks' = [tasks EXCEPT ![i].outcome = outcome]

-----------------------------------------------------------------------------
\* run_live_review, of the head or of the candidate.

Stored(h) == IF h \in DOMAIN live THEN live[h] ELSE None

Target == IF pc \in {"before", "beforeWait"} THEN ReviewedHead ELSE run.commit
Reviewing == IF pc \in {"before", "beforeWait"} THEN "before" ELSE "after"

\* bind_repository: the review is of a clean checkout.
Clean == Reviewing = "before" \/ (worktree # None /\ ~worktree.dirty)

\* _persist_result of a result for this repository, head and key.
Persist(h, result) == live' = [x \in DOMAIN live \cup {h} |-> IF x = h THEN result ELSE live[x]]

\* The review answers; the first answer is saved among the phases by a later write.
Answered(status) ==
  /\ run' = [run EXCEPT !.before = IF Reviewing = "before" THEN status ELSE @, !.task = None]
  /\ pc' = IF Reviewing = "before" THEN "saveBefore" ELSE "gate"

ReviewCached ==
  /\ pc \in {"before", "after"}
  /\ Stored(Target) # None
  /\ Clean
  /\ Answered(IF Stored(Target) = "incomplete" THEN "incomplete" ELSE "completed")
  /\ UNCHANGED <<launches, git, disk, refused, tasks>>

\* A preparation that is incomplete is finalized by the host, and no model is asked.
ReviewIncomplete ==
  /\ pc \in {"before", "after"}
  /\ Stored(Target) = None
  /\ Clean
  /\ Persist(Target, "incomplete")
  /\ Answered("incomplete")
  /\ UNCHANGED <<launches, git, phases, state, failures, evidence, refused, tasks>>

ReviewSchedule ==
  /\ pc \in {"before", "after"}
  /\ Stored(Target) = None
  /\ Clean
  /\ Affordable(run.initial)
  /\ Schedule(Reviewing, Target, IF Reviewing = "before" THEN "beforeWait" ELSE "afterWait")

ReviewRefused ==
  /\ pc \in {"before", "after"}
  /\ \/ ~Clean /\ Fail("repository_not_clean")
     \/ ~Affordable(run.initial) /\ Fail("implementation_spend_stop_reached")

ReviewReply ==
  /\ pc \in {"beforeWait", "afterWait"}
  /\ \E outcome \in {"good", "bad", "failed"} :
       /\ Ended(run.task, outcome)
       /\ IF outcome = "failed"
            THEN Record("aga_incomplete")
            ELSE /\ Persist(Target, outcome)
                 /\ Answered("completed")
                 /\ UNCHANGED <<launches, git, phases, state, failures, evidence, refused>>

SaveBefore ==
  /\ pc = "saveBefore"
  /\ phases' = [phases EXCEPT !.before = run.before]
  /\ pc' = "select"
  /\ UNCHANGED <<run, launches, git, live, state, failures, evidence, refused, tasks>>

\* The review must be complete, with exactly one finding the remediation supports.
Supported == run.before = "completed" /\ Stored(ReviewedHead) = "good"

Select ==
  /\ pc = "select"
  /\ IF ~Supported
       THEN Fail(IF run.before = "completed" THEN "supported_finding_not_unique"
                 ELSE "initial_review_incomplete")
       ELSE IF ~Affordable(run.initial)
         THEN Fail("implementation_spend_stop_reached")
         ELSE /\ pc' = IF phases.remediation THEN "materialize" ELSE "remedy"
              /\ UNCHANGED <<run, launches, git, disk, refused, tasks>>

-----------------------------------------------------------------------------
\* _run_remediation_task.

RemedySchedule ==
  /\ pc = "remedy"
  /\ Schedule("remediation", ReviewedHead, "remedyWait")

RemedyReply ==
  /\ pc = "remedyWait"
  /\ \E outcome \in {"good", "failed"} :
       /\ Ended(run.task, outcome)
       /\ IF outcome = "failed"
            THEN Record("remediation_incomplete")
            ELSE /\ phases' = [phases EXCEPT !.remediation = TRUE]
                 /\ pc' = "materialize"
                 /\ UNCHANGED <<run, launches, git, live, state, failures, evidence, refused>>

-----------------------------------------------------------------------------
\* _materialize_candidate.

\* A branch of its own in a worktree of its own.
MaterializeNew ==
  /\ pc = "materialize" /\ branch = None
  /\ IF worktree # None
       THEN Fail("candidate_worktree_conflict")
       ELSE /\ branch' = ReviewedHead
            /\ worktree' = [at |-> ReviewedHead, dirty |-> FALSE, attached |-> TRUE]
            /\ pc' = "commit"
            /\ UNCHANGED <<run, launches, repository, source, commits, disk, refused, tasks>>

\* A branch that is there must hold the patch, alone or with its decision record.
Adoptable == branch.tree \in {"patch", "full"}
\* The decision record is still to be committed.
Unrecorded == branch.tree = "patch"
WorktreeFits == worktree = None \/ (worktree.at = branch /\ ~worktree.dirty)

MaterializeAgain ==
  /\ pc = "materialize" /\ branch # None
  /\ IF ~Adoptable THEN Fail("candidate_branch_conflict")
     ELSE IF ~WorktreeFits THEN Fail("candidate_worktree_conflict")
     ELSE LET checkout == IF worktree # None THEN worktree
                          ELSE [at |-> branch, dirty |-> FALSE, attached |-> FALSE] IN
          /\ worktree' = [checkout EXCEPT !.dirty = Unrecorded]
          /\ run' = [run EXCEPT !.commit = branch]
          /\ pc' = IF Unrecorded THEN "commit" ELSE "after"
          /\ UNCHANGED <<launches, repository, source, branch, commits, disk, refused, tasks>>

\* The commit moves the branch only when the worktree is on it.
Commit ==
  /\ pc = "commit" /\ commits < MaxCommits
  /\ LET new == [tree |-> "full", n |-> commits + 1] IN
     /\ commits' = commits + 1
     /\ worktree' = [worktree EXCEPT !.at = new, !.dirty = FALSE]
     /\ branch' = IF worktree.attached THEN new ELSE branch
     /\ IF run.commit = None /\ source # run.source
          THEN /\ pc' = "idle" /\ run' = NoRun /\ refused' = "source_head_changed"
               /\ evidence' = Failed
          ELSE /\ pc' = "after"
               /\ run' = [run EXCEPT !.commit = new]
               /\ UNCHANGED <<refused, evidence>>
     /\ UNCHANGED <<launches, repository, source, phases, live, state, failures, tasks>>

-----------------------------------------------------------------------------
\* The gate, the saved result and the evidence.

\* _gate: a completed review with the target closed and no blocker or major finding.
GatePasses == Stored(run.commit) = "good"

Gate ==
  /\ pc = "gate"
  /\ IF ~GatePasses THEN Fail("remediation_gate_failed")
     ELSE IF ~Affordable(run.initial) THEN Fail("implementation_spend_stop_reached")
     ELSE /\ pc' = "publish"
          /\ UNCHANGED <<run, launches, git, disk, refused, tasks>>

SaveState ==
  /\ pc = "publish"
  /\ state' = [commit |-> run.commit, source |-> run.source]
  /\ pc' = "announce"
  /\ UNCHANGED <<run, launches, git, phases, live, failures, evidence, refused, tasks>>

Announce ==
  /\ pc = "announce"
  /\ evidence' = state
  /\ pc' = "idle" /\ run' = NoRun
  /\ UNCHANGED <<launches, git, phases, live, state, failures, refused, tasks>>

-----------------------------------------------------------------------------
\* The owner.

MoveSource ==
  /\ OwnerActs /\ source = 0
  /\ source' = 1
  /\ UNCHANGED <<pc, run, launches, repository, branch, worktree, commits, disk, refused, tasks>>

RemoveWorktree ==
  /\ OwnerActs /\ pc = "idle" /\ worktree # None
  /\ worktree' = None
  /\ UNCHANGED <<pc, run, launches, repository, source, branch, commits, disk, refused, tasks>>

Done == pc = "idle" /\ launches = MaxLaunches /\ UNCHANGED vars

Next ==
  \/ Launch \/ MakeDemo \/ Bind \/ Start \/ Crash \/ Trouble
  \/ ReviewCached \/ ReviewIncomplete \/ ReviewSchedule \/ ReviewRefused \/ ReviewReply
  \/ SaveBefore \/ Select \/ RemedySchedule \/ RemedyReply
  \/ MaterializeNew \/ MaterializeAgain \/ Commit \/ Gate \/ SaveState \/ Announce
  \/ Land \/ Leave \/ MoveSource \/ RemoveWorktree \/ Done

Spec == Init /\ [][Next]_vars

-----------------------------------------------------------------------------

Tasks == [key : Stages \X Commits, outcome : {"good", "bad", "failed", None},
          place : {"sent", "listed", "past"}, adrift : BOOLEAN]
Evidence == [commit : Commits, source : 0..1]

\* The variables keep their types, and each saved phase its predecessor: a remediation only
\* after a completed review (_load_phases), a saved result only after a remediation.
TypeOK ==
  /\ branch \in Commits \cup {None}
  /\ worktree \in [at : Commits, dirty : BOOLEAN, attached : BOOLEAN] \cup {None}
  /\ tasks \in Seq(Tasks)
  /\ DOMAIN live \subseteq Commits
  /\ state \in Evidence \cup {None}
  /\ evidence \in Evidence \cup {None, Failed}
  /\ phases.remediation => phases.before = "completed"
  /\ state # None => phases.remediation

TasksOf(s) == {i \in DOMAIN tasks : tasks[i].key[1] = s}

\* However a launch ends and however often the key is replayed, a stage is paid for again
\* only if an earlier task of it had not landed when its launch was over, or has left the
\* window of the ledger: the checkpoints, the stored reviews and the reconciliation cover
\* every other point of death.
PaidAgainForCause ==
  \A s \in Stages : \A last \in TasksOf(s) :
    \A i \in TasksOf(s) : i < last => tasks[i].adrift \/ tasks[i].place = "past"

Succeeded(s, h) == \E i \in DOMAIN tasks : tasks[i].key = Key(s, h) /\ tasks[i].outcome = "good"

\* The evidence calls a candidate ready only for the very commit that a completed re-review
\* passed, made from a remediation that succeeded on a review that found the defect.
EvidenceIsTrue ==
  evidence \in Evidence =>
    /\ evidence.commit.tree = "full"
    /\ Succeeded("after", evidence.commit) /\ Succeeded("remediation", ReviewedHead) /\ Succeeded("before", ReviewedHead)

\* A commit is re-reviewed only when it holds the patch together with its decision record,
\* also when the branch was made by a version of the script that knew of no record.
CandidateReviewed == \A i \in TasksOf("after") : tasks[i].key[2].tree = "full"

\* After two equal transport or tool failures no later launch pays for anything.
StoppedStaysStopped == (\E c \in Counted : failures[c] >= 2) => Len(tasks') = Len(tasks)

\* Evidence of a ready candidate is never replaced, by a failure or by another candidate.
EvidenceStays == (evidence \in Evidence) => (evidence' = evidence)

-----------------------------------------------------------------------------
(* What does not hold.                                                     *)

\* No stage is paid for twice: not if a task lands after the launch that sent it is over, or
\* has left the window of the ledger when the key is replayed.
PaidOnce == \A s \in Stages : Cardinality(TasksOf(s)) <= 1

\* What a launch left behind is no obstacle to the next one with the same key.
ReplayAccepted ==
  refused \notin {"candidate_branch_conflict", "phase_state_invalid", "demo_state_conflict"}

\* The commit that new evidence names is the one its candidate branch is at.
EvidenceOnBranch ==
  [][(evidence' # evidence /\ evidence' \in Evidence) => branch' = evidence'.commit]_vars

=============================================================================

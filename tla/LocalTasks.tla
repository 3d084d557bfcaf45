------------------------------- MODULE LocalTasks -------------------------------
(***************************************************************************)
(* The local task backend: aga-skill/tools/a2a.py, LocalTaskBackend,       *)
(* run_task_group and aggregate_task_results.  Callers schedule a group of *)
(* tasks in a thread pool and wait for each with a timeout, other callers  *)
(* wait for the same tasks or look at them, and the backend is shut down.  *)
(*                                                                         *)
(* External: concurrent.futures; a future that is finished or cancelled    *)
(* wakes its waiters before it runs its callback.                          *)
(***************************************************************************)
EXTENDS Naturals, Sequences, FiniteSets, SequencesExt

CONSTANTS
  Groups,      \* callers of run_task_group
  Watchers,    \* callers of wait_for_task and get_task_result
  Tasks,       \* bound: task ids
  GroupSize,   \* tasks of a group
  MaxWorkers,  \* max_workers
  None

LocalAssumption == GroupSize \in Nat \ {0} /\ MaxWorkers \in Nat \ {0}

VARIABLES
  future,  \* the future of each task: its state, its outcome, whether its callback has run
  record,  \* the result of each task's _TaskRecord
  closed,  \* _closed
  caller,  \* what each caller is doing
  mine,    \* the tasks each group has scheduled
  got      \* the results each group has got, in order

vars == <<future, record, closed, caller, mine, got>>

Clients == Groups \cup Watchers

Idle == [pc |-> "idle", task |-> None, reply |-> None]

Init ==
  /\ future = [t \in Tasks |-> None]
  /\ record = [t \in Tasks |-> None]
  /\ closed = FALSE
  /\ caller = [c \in Clients |-> Idle]
  /\ mine = [g \in Groups |-> <<>>]
  /\ got = [g \in Groups |-> <<>>]

Known == {t \in Tasks : future[t] # None}

At(c, pc) == caller[c].pc = pc

Goto(c, pc) == caller' = [caller EXCEPT ![c].pc = pc]

-----------------------------------------------------------------------------
(* The thread pool.                                                        *)

Done(t) == future[t].state \in {"finished", "cancelled"}

Start(t) ==
  /\ t \in Known
  /\ future[t].state = "queued"
  /\ Cardinality({u \in Known : future[u].state = "running"}) < MaxWorkers
  /\ future' = [future EXCEPT ![t].state = "running"]
  /\ UNCHANGED <<record, closed, caller, mine, got>>

\* A handler returns no findings, a blocker, a result of another status or shape, or raises.
Finish(t) ==
  /\ t \in Known
  /\ future[t].state = "running"
  /\ \E o \in {"clean", "blocker", "failed"} :
       future' = [future EXCEPT ![t].state = "finished", ![t].outcome = o]
  /\ UNCHANGED <<record, closed, caller, mine, got>>

-----------------------------------------------------------------------------
(* The backend.                                                            *)

Outcome(t) == IF future[t].state = "cancelled" THEN "failed" ELSE future[t].outcome

LastResultWins(t) == record' = [record EXCEPT ![t] = Outcome(t)]   \* mutant
\* _complete: the first result of a task is its result.
Complete(t) == record' = [record EXCEPT ![t] = IF @ = None THEN Outcome(t) ELSE @]

Callback(t) ==
  /\ t \in Known
  /\ Done(t)
  /\ ~future[t].called
  /\ future' = [future EXCEPT ![t].called = TRUE]
  /\ Complete(t)
  /\ UNCHANGED <<closed, caller, mine, got>>

\* schedule_task; run_task_group schedules the whole group before it waits.
Schedule(g) ==
  /\ At(g, "idle") \/ At(g, "scheduling")
  /\ \/ /\ closed
        /\ Goto(g, "raised")
        /\ UNCHANGED <<future, mine>>
     \/ /\ ~closed
        /\ \E t \in Tasks \ Known :
             /\ future' = [future EXCEPT ![t] =
                             [state |-> "queued", outcome |-> None, called |-> FALSE]]
             /\ mine' = [mine EXCEPT ![g] = Append(@, t)]
             /\ caller' = [caller EXCEPT
                             ![g].pc = IF Len(mine[g]) + 1 = GroupSize THEN "wait" ELSE "scheduling",
                             ![g].task = IF mine[g] = <<>> THEN t ELSE @]
  /\ UNCHANGED <<record, closed, got>>

Watch(w, t) ==
  /\ At(w, "idle")
  /\ t \in Known
  /\ \E pc \in {"wait", "get"} : caller' = [caller EXCEPT ![w].pc = pc, ![w].task = t]
  /\ UNCHANGED <<future, record, closed, mine, got>>

\* wait_for_task returns r, or get_task_result does: a group goes on with its next task.
Returns(c, r) ==
  IF c \in Watchers
  THEN caller' = [caller EXCEPT ![c].pc = "returned", ![c].reply = r] /\ UNCHANGED got
  ELSE /\ got' = [got EXCEPT ![c] = Append(@, r)]
       /\ caller' = [caller EXCEPT
                       ![c].pc = IF Len(got[c]) + 1 = GroupSize THEN "aggregate" ELSE "wait",
                       ![c].task = IF Len(got[c]) + 1 = GroupSize THEN @
                                   ELSE mine[c][Len(got[c]) + 2]]

Wait(c) ==
  LET t == caller[c].task IN
  /\ At(c, "wait")
  /\ \/ record[t] # None /\ Returns(c, record[t])
     \/ record[t] = None /\ Goto(c, "blocked") /\ UNCHANGED got
  /\ UNCHANGED <<future, record, closed, mine>>

Get(w) ==
  LET t == caller[w].task IN
  /\ At(w, "get")
  /\ \/ record[t] # None /\ Returns(w, record[t])
     \/ record[t] = None /\ ~Done(t) /\ Returns(w, "pending")
     \/ record[t] = None /\ Done(t) /\ Goto(w, "complete") /\ UNCHANGED got
  /\ UNCHANGED <<future, record, closed, mine>>

\* future.exception(timeout): a cancelled future raises CancelledError.
Blocked(c) ==
  LET t == caller[c].task IN
  /\ At(c, "blocked")
  /\ \/ future[t].state = "finished" /\ Goto(c, "complete")
     \/ future[t].state = "cancelled" /\ Goto(c, "raised")
     \/ ~Done(t) /\ Goto(c, "expired")
  /\ UNCHANGED <<future, record, closed, mine, got>>

\* The timeout is recorded over what the callback of the cancelled future has recorded,
\* and the lock is held over both.
Expire(c) ==
  LET t == caller[c].task IN
  /\ At(c, "expired")
  /\ IF record[t] # None
     THEN Returns(c, record[t]) /\ UNCHANGED <<future, record>>
     ELSE /\ future' = IF future[t].state = "queued"
                       THEN [future EXCEPT ![t].state = "cancelled", ![t].called = TRUE]
                       ELSE future
          /\ record' = [record EXCEPT ![t] = "timed_out"]
          /\ Returns(c, "timed_out")
  /\ UNCHANGED <<closed, mine>>

CompleteBy(c) ==
  LET t == caller[c].task IN
  /\ At(c, "complete")
  /\ Complete(t)
  /\ Returns(c, record'[t])
  /\ UNCHANGED <<future, closed, mine>>

\* aggregate_task_results: one task that did not succeed makes the group incomplete.
AnyError(rs) == ~ rs \subseteq {"clean", "blocker"}

Aggregate(g) ==
  LET rs == Range(got[g]) IN
  /\ At(g, "aggregate")
  /\ caller' = [caller EXCEPT
                  ![g].pc = "returned",
                  ![g].reply = CASE AnyError(rs) -> "incomplete_error"
                                 [] ~AnyError(rs) /\ "blocker" \in rs -> "request_changes_escalate"
                                 [] OTHER -> "approve"]
  /\ UNCHANGED <<future, record, closed, mine, got>>

Close ==
  /\ ~closed
  /\ closed' = TRUE
  /\ UNCHANGED <<future, record, caller, mine, got>>

\* shutdown(cancel_futures=True)
Drain(t) ==
  /\ closed
  /\ t \in Known
  /\ future[t].state = "queued"
  /\ future' = [future EXCEPT ![t].state = "cancelled"]
  /\ UNCHANGED <<record, closed, caller, mine, got>>

\* What happens to a task by itself, and what a caller does.
TaskStep(t) == Start(t) \/ Finish(t) \/ Callback(t) \/ Drain(t)

Step(c) ==
  \/ Wait(c) \/ Blocked(c) \/ Expire(c) \/ CompleteBy(c)
  \/ c \in Groups /\ (Schedule(c) \/ Aggregate(c))

Next ==
  \/ \E t \in Tasks : TaskStep(t)
  \/ \E c \in Clients : Step(c)
  \/ \E w \in Watchers : Get(w) \/ \E t \in Tasks : Watch(w, t)
  \/ Close

Spec == Init /\ [][Next]_vars

\* The pool hands out its threads, handlers return, and the callers run.
Fairness == (\A t \in Tasks : WF_vars(TaskStep(t))) /\ (\A c \in Clients : WF_vars(Step(c)))

FairSpec == Spec /\ Fairness

-----------------------------------------------------------------------------

\* The result of a task never changes: not when its handler returns after a timeout, nor
\* when a cancelled future's callback runs late.
FirstResultWins == \A t \in Tasks : record[t] # None => record'[t] = record[t]

\* A group is approved only when every one of its tasks is recorded as clean, and stays so.
ApprovalStands ==
  \A g \in Groups : caller[g].reply = "approve" =>
    \A i \in 1..GroupSize : record[mine[g][i]] = "clean"

\* Every task that was scheduled gets a result, whether anyone waits for it or not, and
\* through a shutdown.
TasksResolved == \A t \in Tasks : (t \in Known) ~> (record[t] # None)

\* A group that has scheduled its tasks ends.
GroupsEnd == \A g \in Groups : (caller[g].pc = "wait") ~> (caller[g].pc \in {"returned", "raised"})

\* What happens to a task comes back as data: waiting for a known task never raises.
WaitAnswersWithData ==
  \A c \in Clients : At(c, "raised") => c \in Groups /\ Len(mine[c]) < GroupSize
=============================================================================

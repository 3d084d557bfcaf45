------------------------------ MODULE TaskBackend ------------------------------
(***************************************************************************)
(* The task backend: aga-skill/tools/ouroboros_backend.py, class           *)
(* OuroborosTaskBackend.  Threads schedule a paid review in the Ouroboros  *)
(* runtime, poll it and wait for it; the runtime is reached through CLI    *)
(* commands whose answers may be lost or late, and the process may restart *)
(* and lose everything it remembers about the tasks it has paid for.       *)
(*                                                                         *)
(* External: the runtime's ledger and the progress of its tasks, as far as *)
(* the backend tells their states apart.                                   *)
(***************************************************************************)
EXTENDS Naturals, Sequences, FiniteSets, Nothing

CONSTANTS
  Callers,      \* threads of the process
  Keys,         \* idempotency keys (review ids)
  Inputs,       \* the immutable inputs a key may be scheduled with: the fingerprint
  Tasks,        \* bound: task ids the runtime can give out
  Window,       \* TASK_RECONCILIATION_LIMIT
  MaxRestarts,  \* bound: restarts of the process
  LateLanding   \* whether a creation may land after its command has failed

VARIABLES
  runtime,    \* the external tasks
  ledger,     \* the order in which they were created, oldest first
  record,     \* _tasks
  bound,      \* _idempotency
  ambiguous,  \* _ambiguous_idempotency
  lock,       \* who holds _schedule_lock
  call,       \* the call each thread is in
  life        \* restarts so far

external == <<runtime, ledger>>
memory   == <<record, bound, ambiguous>>
backendVars == <<external, memory, lock, call, life>>

Reviews == [key: Keys, input: Inputs]

Complete == {"succeeded", "failed", "timed_out"}

Statuses == {"in_flight", "running", "finalizing", "costing", "done", "failed"}

PaidTasks == [review: Reviews, genuine: BOOLEAN, life: 0..MaxRestarts, status: Statuses]
Records   == [frozen: Complete \cup {None}, cancelled: BOOLEAN, terminal: BOOLEAN, costing: BOOLEAN]
Bindings  == [review: Reviews, task: Tasks]

BackendAssumption ==
  /\ Window \in Nat \ {0}
  /\ MaxRestarts \in Nat
  /\ LateLanding \in BOOLEAN
  /\ None \notin Callers /\ None \notin Inputs /\ None \notin Complete
  /\ None \notin PaidTasks /\ None \notin Records /\ None \notin Bindings

NoRecord == [frozen |-> None, cancelled |-> FALSE, terminal |-> FALSE, costing |-> FALSE]

Idle == [pc |-> "idle", review |-> None, task |-> None,
         waits |-> FALSE, late |-> FALSE, reply |-> None]

BackendInit ==
  /\ runtime = [t \in Tasks |-> None]
  /\ ledger = <<>>
  /\ record = [t \in Tasks |-> None]
  /\ bound = [k \in Keys |-> None]
  /\ ambiguous = [k \in Keys |-> None]
  /\ lock = None
  /\ call = [c \in Callers |-> Idle]
  /\ life = 0

At(c, pc) == call[c].pc = pc

Goto(c, pc) == call' = [call EXCEPT ![c].pc = pc]

Answer(c, reply) == call' = [call EXCEPT ![c].pc = "answered", ![c].reply = reply]

-----------------------------------------------------------------------------
(* The runtime.                                                            *)

Spent == {t \in Tasks : runtime[t] # None}

Created(t, review, status) ==
  runtime' = [runtime EXCEPT ![t] =
                [review |-> review, status |-> status, genuine |-> FALSE, life |-> life]]

\* A creation whose command has failed reaches the ledger after all.
Land(t) ==
  /\ t \in Spent
  /\ runtime[t].status = "in_flight"
  /\ runtime' = [runtime EXCEPT ![t].status = "running"]
  /\ ledger' = Append(ledger, t)
  /\ UNCHANGED <<memory, lock, call, life>>

\* genuine: the tool log, the receipts and the answer agree on one finalized review.
Progress(t) ==
  /\ t \in Spent
  /\ \/ /\ runtime[t].status = "running"
        /\ \E s \in {"finalizing", "failed"}, g \in BOOLEAN :
             runtime' = [runtime EXCEPT ![t].status = s, ![t].genuine = g]
     \/ /\ runtime[t].status = "finalizing"
        /\ runtime' = [runtime EXCEPT ![t].status = "costing"]
     \/ /\ runtime[t].status = "costing"
        /\ runtime' = [runtime EXCEPT ![t].status = "done"]
  /\ UNCHANGED <<ledger, memory, lock, call, life>>

\* `tasks cancel`, of which some commands fail.
Cancelled(ts) ==
  runtime' = [t \in Tasks |-> IF t \in ts /\ runtime[t].status = "running"
                              THEN [runtime[t] EXCEPT !.status = "failed"]
                              ELSE runtime[t]]

-----------------------------------------------------------------------------
(* schedule_task: everything after the lookup runs under _schedule_lock.   *)

Schedule(c, review) ==
  /\ At(c, "idle")
  /\ call' = [call EXCEPT ![c] = [Idle EXCEPT !.pc = "schedule", !.review = review]]
  /\ UNCHANGED <<external, memory, lock, life>>

AmbiguousForgotten(k) == FALSE   \* mutant
IsAmbiguous(k) == ambiguous[k] # None

Lookup(c) ==
  LET k == call[c].review.key IN
  /\ At(c, "schedule")
  /\ lock = None
  /\ \/ /\ IsAmbiguous(k)
        /\ Answer(c, "refused")
        /\ UNCHANGED lock
     \/ /\ ~IsAmbiguous(k)
        /\ bound[k] # None
        /\ call' = [call EXCEPT
                      ![c].pc = "answered",
                      ![c].reply = IF bound[k].review = call[c].review
                                   THEN "scheduled" ELSE "refused",
                      ![c].task = IF bound[k].review = call[c].review
                                  THEN bound[k].task ELSE None]
        /\ UNCHANGED lock
     \/ /\ ~IsAmbiguous(k)
        /\ bound[k] = None
        /\ lock' = c
        /\ Goto(c, "reconcile")
  /\ UNCHANGED <<external, memory, life>>

Bind(c, t) ==
  /\ record' = [record EXCEPT ![t] = NoRecord]
  /\ bound' = [bound EXCEPT ![call[c].review.key] =
                 [review |-> call[c].review, task |-> t]]
  /\ call' = [call EXCEPT ![c].pc = "answered", ![c].reply = "scheduled", ![c].task = t]
  /\ lock' = None
  /\ UNCHANGED ambiguous

\* Every error of a reconciliation blocks the key for the life of the process.
Poison(c) ==
  /\ ambiguous' = [ambiguous EXCEPT ![call[c].review.key] = call[c].review.input]
  /\ lock' = None
  /\ Answer(c, "refused")
  /\ UNCHANGED <<record, bound>>

Newest == {ledger[i] : i \in {j \in 1..Len(ledger) : j > Len(ledger) - Window}}

Matches(review) == {t \in Newest : runtime[t].review = review}

\* `tasks list`: once before spending anything, once after a command of unknown outcome.
Reconcile(c) ==
  LET matches == Matches(call[c].review) IN
  /\ At(c, "reconcile") \/ At(c, "recheck")
  /\ \/ Poison(c) /\ UNCHANGED external              \* the command fails
     \/ /\ matches = {}
        /\ UNCHANGED external
        /\ \/ At(c, "reconcile") /\ Goto(c, "create") /\ UNCHANGED <<memory, lock>>
           \/ At(c, "recheck") /\ Poison(c)
     \/ /\ \E t \in matches :
             /\ matches = {t}
             /\ IF record[t] = None THEN Bind(c, t) ELSE Poison(c)
        /\ UNCHANGED external
     \/ /\ Cardinality(matches) > 1
        /\ \E ts \in SUBSET matches : Cancelled(ts)
        /\ Poison(c)
        /\ UNCHANGED ledger
  /\ UNCHANGED life

\* The project is registered, then `run --detach` creates the task.
Create(c) ==
  /\ At(c, "create")
  /\ \/ Answer(c, "refused") /\ lock' = None /\ UNCHANGED <<external, memory>>
     \/ Goto(c, "recheck") /\ UNCHANGED <<external, memory, lock>>
     \/ \E t \in Tasks \ Spent :
          \/ /\ Created(t, call[c].review, "running")
             /\ ledger' = Append(ledger, t)
             /\ \/ Bind(c, t)
                \/ Goto(c, "recheck") /\ UNCHANGED <<memory, lock>>
          \/ /\ LateLanding
             /\ Created(t, call[c].review, "in_flight")
             /\ Goto(c, "recheck")
             /\ UNCHANGED <<ledger, memory, lock>>
  /\ UNCHANGED life

-----------------------------------------------------------------------------
(* get_task_result and wait_for_task.                                      *)

Polling(c) == call[c].pc \in {"look", "show", "validate", "expire"}

Poll(c, t, waits) ==
  /\ At(c, "idle")
  /\ record[t] # None
  /\ call' = [call EXCEPT ![c] = [Idle EXCEPT !.pc = "look", !.task = t, !.waits = waits]]
  /\ UNCHANGED <<external, memory, lock, life>>

\* The wait's deadline passes.
Deadline(c) ==
  /\ Polling(c)
  /\ call[c].waits
  /\ ~call[c].late
  /\ call' = [call EXCEPT ![c].late = TRUE]
  /\ UNCHANGED <<external, memory, lock, life>>

IsFrozen(t) == record[t].frozen # None

Look(c) ==
  LET t == call[c].task IN
  /\ At(c, "look")
  /\ \/ call[c].late /\ Goto(c, "expire")
     \/ ~call[c].late /\ IsFrozen(t) /\ Answer(c, record[t].frozen)
     \/ ~call[c].late /\ ~IsFrozen(t) /\ Goto(c, "show")
  /\ UNCHANGED <<external, memory, lock, life>>

Pending(c) == IF call[c].waits THEN Goto(c, "look") ELSE Answer(c, "pending")

\* Whatever is frozen already is overwritten.
Freeze(c, result) ==
  /\ record' = [record EXCEPT ![call[c].task].frozen = result]
  /\ Answer(c, result)

\* A command fails, or is cut short at the wait's deadline.
CommandFails(c) ==
  \/ call[c].waits /\ Goto(c, "expire") /\ UNCHANGED memory
  \/ ~call[c].late /\ Freeze(c, "failed") /\ UNCHANGED <<bound, ambiguous>>

Show(c) ==
  LET t == call[c].task
      status == runtime[t].status IN
  /\ At(c, "show")
  /\ \/ CommandFails(c)
     \/ ~call[c].late /\ status = "running" /\ Pending(c) /\ UNCHANGED memory
     \/ ~call[c].late /\ status = "failed" /\ Freeze(c, "failed") /\ UNCHANGED <<bound, ambiguous>>
     \/ /\ ~call[c].late
        /\ status \in {"finalizing", "costing", "done"}
        /\ record' = [record EXCEPT ![t].terminal = TRUE,
                                    ![t].costing = @ \/ status # "done"]
        /\ IF status = "finalizing" THEN Pending(c) ELSE Goto(c, "validate")
        /\ UNCHANGED <<bound, ambiguous>>
  /\ UNCHANGED <<external, lock, life>>

CostPending(t) == runtime[t].status = "costing"

\* The tool log and the receipts, then the cost of the task.
Validate(c) ==
  LET t == call[c].task IN
  /\ At(c, "validate")
  /\ \/ CommandFails(c)
     \/ /\ ~call[c].late
        /\ ~runtime[t].genuine
        /\ Freeze(c, "failed")
        /\ UNCHANGED <<bound, ambiguous>>
     \/ /\ ~call[c].late
        /\ runtime[t].genuine
        /\ CostPending(t)
        /\ record' = [record EXCEPT ![t].costing = TRUE]
        /\ Pending(c)
        /\ UNCHANGED <<bound, ambiguous>>
     \/ /\ ~call[c].late
        /\ runtime[t].genuine
        /\ ~CostPending(t)
        /\ record' = [record EXCEPT ![t].costing = FALSE, ![t].frozen = "succeeded"]
        /\ Answer(c, "succeeded")
        /\ UNCHANGED <<bound, ambiguous>>
  /\ UNCHANGED <<external, lock, life>>

CancelDue(t) == ~record[t].cancelled

\* The task is cancelled, once, and its result frozen without a look at the result it
\* may have by now; the lock is held throughout.
Expire(c) ==
  LET t == call[c].task IN
  /\ At(c, "expire")
  /\ \/ CancelDue(t) /\ \E ts \in {{}, {t}} : Cancelled(ts)
     \/ ~CancelDue(t) /\ UNCHANGED runtime
  /\ record' = [record EXCEPT ![t].cancelled = TRUE, ![t].frozen = "timed_out"]
  /\ Answer(c, "timed_out")
  /\ UNCHANGED <<ledger, bound, ambiguous, lock, life>>

Return(c) ==
  /\ At(c, "answered")
  /\ call' = [call EXCEPT ![c] = Idle]
  /\ UNCHANGED <<external, memory, lock, life>>

-----------------------------------------------------------------------------

\* The process ends and a new one starts; the runtime goes on.
Restart ==
  /\ life < MaxRestarts
  /\ life' = life + 1
  /\ record' = [t \in Tasks |-> None]
  /\ bound' = [k \in Keys |-> None]
  /\ ambiguous' = [k \in Keys |-> None]
  /\ lock' = None
  /\ call' = [c \in Callers |-> Idle]
  /\ UNCHANGED external

Step(c) == Lookup(c) \/ Reconcile(c) \/ Create(c) \/ Look(c) \/ Show(c) \/ Validate(c)
           \/ Expire(c)

BackendNext ==
  \/ \E c \in Callers :
       \/ \E review \in Reviews : Schedule(c, review)
       \/ \E t \in Tasks, waits \in BOOLEAN : Poll(c, t, waits)
       \/ Step(c)
       \/ Deadline(c)
       \/ Return(c)
  \/ \E t \in Tasks : Land(t) \/ Progress(t)
  \/ Restart

BackendSpec == BackendInit /\ [][BackendNext]_backendVars

\* Every command is killed at its timeout, the clock passes every deadline, and a thread
\* that waits for a lock which keeps coming free gets it.
Fairness == \A c \in Callers :
  WF_backendVars(Step(c)) /\ SF_backendVars(Lookup(c)) /\ WF_backendVars(Deadline(c))

BackendFairSpec == BackendSpec /\ Fairness

-----------------------------------------------------------------------------
(* Properties.                                                             *)

Pcs == {"idle", "schedule", "reconcile", "create", "recheck", "look", "show", "validate",
        "expire", "answered"}

BackendTypeOK ==
  /\ runtime \in [Tasks -> {None} \cup PaidTasks]
  /\ ledger \in Seq(Spent)
  /\ record \in [Tasks -> {None} \cup Records]
  /\ bound \in [Keys -> {None} \cup Bindings]
  /\ ambiguous \in [Keys -> {None} \cup Inputs]
  /\ lock \in Callers \cup {None}
  /\ life \in 0..MaxRestarts
  /\ \A c \in Callers :
       /\ call[c].pc \in Pcs
       /\ call[c].pc \in {"schedule", "reconcile", "create", "recheck"} => call[c].review \in Reviews
       /\ call[c].pc \in {"reconcile", "create", "recheck"} <=> lock = c
       /\ Polling(c) => record[call[c].task] # None

\* One process never pays for two tasks with one key, however its threads retry and
\* whatever becomes of the commands (704-705).
SpendsOncePerKey ==
  \A k \in Keys : Cardinality({t \in Spent : runtime[t].life = life /\ runtime[t].review.key = k}) <= 1

\* A review has one paid task, restarts included.
OneTaskPerReview ==
  \A t, u \in Spent : runtime[t].review = runtime[u].review => t = u

\* As long as every command that fails has failed for good, a review is paid for again
\* only when its first task has left the window of the reconciliation (752-762).
PaidAgainOnlyOutOfWindow ==
  \A i, j \in 1..Len(ledger) :
    i < j /\ runtime[ledger[i]].review = runtime[ledger[j]].review => j - i > Window

\* A task this process has paid for is bound to its key, or the key is blocked, or the
\* schedule call that paid for it is still looking for it: nothing is spent and forgotten,
\* unless the reconciliation has found a task an earlier process paid for instead.
NothingSpentForgotten ==
  \A t \in Spent : runtime[t].life = life =>
    LET k == runtime[t].review.key IN
    \/ bound[k] # None /\ (bound[k].task = t \/ runtime[bound[k].task].life < life)
    \/ ambiguous[k] # None
    \/ \E c \in Callers : lock = c /\ At(c, "recheck") /\ call[c].review.key = k

\* A result is a success only when the runtime finished a genuine review and its cost.
SuccessIsTrusted ==
  \A t \in Tasks : record[t] # None /\ record[t].frozen = "succeeded" =>
    runtime[t].genuine /\ runtime[t].status = "done"

\* What the process pays for, it pays for once and accounts for.
PaysOnce ==
  /\ BackendTypeOK
  /\ SpendsOncePerKey
  /\ NothingSpentForgotten
  /\ SuccessIsTrusted
  /\ ~LateLanding => PaidAgainOnlyOutOfWindow

\* The threads that have found a task without a result and are still looking at it.
Racing(t) == {c \in Callers : call[c].pc \in {"show", "validate"} /\ call[c].task = t}

\* A frozen result settles. Besides a wait past its deadline, which looks at the clock before
\* it looks at the result, only a thread that was already looking when it froze takes its
\* place, and each of them once: none joins them afterwards, and none writes and stays. A
\* result that one thread alone has looked for changes no more but by a timeout.
FrozenSettles ==
  \A t \in Tasks : record[t] # None /\ record[t].frozen # None /\ life' = life =>
    /\ record'[t] # None /\ record'[t].frozen # None
    /\ Racing(t)' \subseteq Racing(t)
    /\ record'[t].frozen \in {record[t].frozen, "timed_out"} \/ Racing(t)' # Racing(t)

\* A late answer does not turn a review that has timed out into one with a verdict.
LateAnswerIgnored ==
  [][\A t \in Tasks : record[t] # None /\ record[t].frozen = "timed_out" /\ life' = life =>
       record'[t].frozen # "succeeded"]_backendVars

\* Every schedule, get and wait is answered, whatever the runtime does.
CallsAnswered == \A c \in Callers : (call[c].pc # "idle") ~> (call[c].pc \in {"answered", "idle"})
=============================================================================

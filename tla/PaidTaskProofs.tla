---------------------------- MODULE PaidTaskProofs ----------------------------
(***************************************************************************)
(* Theorems about a paid model task, for every value of the constants:     *)
(* how it is scheduled (TaskBackend), what of its answer is believed       *)
(* (TrustedResult) and what it is charged (TaskCost), which share no       *)
(* state.  The arguments:                                                  *)
(* - a key is free (neither bound nor blocked) as long as a thread that    *)
(*   has found it free holds the schedule lock, and a free key has nothing *)
(*   paid for that the holder is not about to look for; so what it creates *)
(*   is the first task of its key.  The ledger changes under that lock     *)
(*   only, unless a creation lands late;                                   *)
(* - the server pins the arguments of the first finalize it runs, so every *)
(*   receipt that says ok carries the one verdict (ServerOK, JournalOK),   *)
(*   every row of the tool log stands for a receipt (LogOK), and a         *)
(*   finalize that was refused lies between two that were accepted once a  *)
(*   clean task has finalized (AcceptedLast);                              *)
(* - an accounting that says it is final is that of the calls there are,   *)
(*   all of them settled, and no call follows it; and the counted rows of  *)
(*   a window without garbled rows are apart, so that their sum is the     *)
(*   cost of the calls seen.                                               *)
(***************************************************************************)
EXTENDS TaskBackend, TrustedResult, TaskCost, SequenceTheorems, Induction

-----------------------------------------------------------------------------
(* Scheduling: the inductive invariant.                                    *)

Scheduling == {"reconcile", "create", "recheck"}

Calls == [pc : Pcs, review : Reviews \cup {None}, task : Tasks \cup {None}, waits : BOOLEAN,
          late : BOOLEAN, reply : Complete \cup {"pending", "scheduled", "refused", None}]

Types ==
  /\ runtime \in [Tasks -> {None} \cup PaidTasks]
  /\ ledger \in Seq(Tasks)
  /\ record \in [Tasks -> {None} \cup Records]
  /\ bound \in [Keys -> {None} \cup Bindings]
  /\ ambiguous \in [Keys -> {None} \cup Inputs]
  /\ lock \in Callers \cup {None}
  /\ call \in [Callers -> Calls]
  /\ life \in 0..MaxRestarts

\* Only what was paid for is listed, remembered or bound, and by no later process.
MemoryOK ==
  /\ \A i \in 1..Len(ledger) : ledger[i] \in Spent
  /\ \A t \in Tasks : record[t] # None => t \in Spent
  /\ \A k \in Keys : bound[k] # None => bound[k].task \in Spent
  /\ \A t \in Spent : runtime[t].life <= life
  /\ ~LateLanding => \A t \in Spent : runtime[t].status # "in_flight"

Free(k) == bound[k] = None /\ ambiguous[k] = None

\* The holder of the schedule lock has a key that is free, and what it is about to create
\* is not in the window.
LockOK ==
  \A c \in Callers :
    /\ call[c].pc \in Scheduling <=> lock = c
    /\ call[c].pc \in Scheduling \cup {"schedule"} => call[c].review \in Reviews
    /\ lock = c => Free(call[c].review.key)
    /\ ~LateLanding /\ At(c, "create") => Matches(call[c].review) = {}

\* A thread polls a task it knows; one about to look at the receipts has seen the task done
\* or costing.
PollsOK ==
  \A c \in Callers :
    /\ Polling(c) => call[c].task \in Tasks /\ record[call[c].task] # None
    /\ At(c, "validate") => runtime[call[c].task].status \in {"costing", "done"}

OneOfLife(t, u) ==
  runtime[t].life = life /\ runtime[u].life = life /\ runtime[t].review.key = runtime[u].review.key
  => t = u

SpentOnce == \A t, u \in Spent : OneOfLife(t, u)

BackendInv ==
  /\ Types /\ MemoryOK /\ LockOK /\ PollsOK
  /\ SpentOnce /\ NothingSpentForgotten /\ SuccessIsTrusted
  /\ ~LateLanding => PaidAgainOnlyOutOfWindow

-----------------------------------------------------------------------------
(* What a step leaves alone.                                               *)

\* The tasks of the runtime go on; none is paid for.
Advanced ==
  /\ runtime' \in [Tasks -> {None} \cup PaidTasks]
  /\ \A t \in Tasks : runtime'[t] = None <=> runtime[t] = None
  /\ \A t \in Spent :
       /\ runtime'[t].review = runtime[t].review /\ runtime'[t].life = runtime[t].life
       /\ runtime'[t].status = "in_flight" => runtime[t].status = "in_flight"
       /\ runtime[t].status \in {"costing", "done"} => runtime'[t].status \in {"costing", "done"}
       /\ runtime[t].genuine /\ runtime[t].status = "done" =>
            runtime'[t].genuine /\ runtime'[t].status = "done"

LEMMA CallUpdate ==
  ASSUME Types, NEW c \in Callers, NEW v \in Calls, call' = [call EXCEPT ![c] = v]
  PROVE  /\ call' \in [Callers -> Calls] /\ call'[c] = v
         /\ \A d \in Callers \ {c} : call'[d] = call[d]
BY DEF Types

LEMMA SpentTyped ==
  ASSUME BackendAssumption, Types, NEW t \in Tasks
  PROVE  (t \in Spent) <=> runtime[t] \in PaidTasks
BY DEF Types, Spent, BackendAssumption

LEMMA SpentKept == ASSUME Advanced PROVE Spent' = Spent
BY DEF Advanced, Spent

LEMMA NoneAdvanced == ASSUME Types, UNCHANGED runtime PROVE Advanced
BY DEF Types, Advanced

LEMMA CancelledAdvanced ==
  ASSUME BackendAssumption, Types, NEW ts \in SUBSET Spent, Cancelled(ts) PROVE Advanced
<1>1. \A t \in ts : t \in Tasks /\ runtime[t] \in PaidTasks
  BY SpentTyped DEF Spent
<1>2. ASSUME NEW t \in ts
      PROVE  /\ [runtime[t] EXCEPT !.status = "failed"] \in PaidTasks
             /\ [runtime[t] EXCEPT !.status = "failed"].review = runtime[t].review
             /\ [runtime[t] EXCEPT !.status = "failed"].life = runtime[t].life
             /\ [runtime[t] EXCEPT !.status = "failed"].status = "failed"
  BY <1>1 DEF PaidTasks, Statuses
<1>3. runtime' = [t \in Tasks |-> IF t \in ts /\ runtime[t].status = "running"
                                 THEN [runtime[t] EXCEPT !.status = "failed"] ELSE runtime[t]]
  BY DEF Cancelled
<1>4. runtime' \in [Tasks -> {None} \cup PaidTasks]
  BY <1>2, <1>3 DEF Types
<1>5. \A t \in Tasks : runtime'[t] = None <=> runtime[t] = None
  BY <1>1, <1>2, <1>3 DEF BackendAssumption
<1>6. ASSUME NEW t \in Spent
      PROVE  /\ runtime'[t].review = runtime[t].review /\ runtime'[t].life = runtime[t].life
             /\ runtime'[t].status = "in_flight" => runtime[t].status = "in_flight"
             /\ runtime[t].status \in {"costing", "done"} => runtime'[t].status \in {"costing", "done"}
             /\ runtime[t].genuine /\ runtime[t].status = "done" =>
                  runtime'[t].genuine /\ runtime'[t].status = "done"
  <2>1. CASE t \in ts /\ runtime[t].status = "running"
    BY <1>2, <1>3, <2>1 DEF Spent
  <2>2. CASE ~(t \in ts /\ runtime[t].status = "running")
    BY <1>3, <2>2 DEF Spent
  <2>3. QED
    BY <2>1, <2>2
<1>7. QED
  BY <1>4, <1>5, <1>6 DEF Advanced

\* One task that was paid for becomes w.
LEMMA TaskAdvanced ==
  ASSUME Types, BackendAssumption, NEW t \in Spent, NEW w \in PaidTasks,
         runtime' = [runtime EXCEPT ![t] = w],
         w.review = runtime[t].review, w.life = runtime[t].life, w.status # "in_flight",
         runtime[t].status = "costing" => w.status = "done", runtime[t].status # "done"
  PROVE  Advanced
<1>1. t \in Tasks /\ w # None /\ runtime[t] # None
  BY DEF Spent, BackendAssumption
<1>2. runtime'[t] = w /\ \A u \in Tasks \ {t} : runtime'[u] = runtime[u]
  BY <1>1 DEF Types
<1>3. runtime' \in [Tasks -> {None} \cup PaidTasks]
  BY <1>1 DEF Types
<1>4. QED
  BY <1>1, <1>2, <1>3 DEF Advanced, Spent

\* What the window holds of a review is what it held.
LEMMA MatchesKept ==
  ASSUME MemoryOK, Advanced, ledger' = ledger
  PROVE  Newest' = Newest /\ \A rv : (Matches(rv))' = Matches(rv)
<1>1. Newest' = Newest /\ \A t \in Newest : t \in Spent
  BY DEF Newest, MemoryOK
<1>2. \A t \in Newest : runtime'[t].review = runtime[t].review
  BY <1>1 DEF Advanced
<1>3. QED
  BY <1>1, <1>2 DEF Matches

LEMMA WindowKept ==
  ASSUME MemoryOK, Advanced, ledger' = ledger, PaidAgainOnlyOutOfWindow
  PROVE  PaidAgainOnlyOutOfWindow'
<1>1. \A i \in 1..Len(ledger) : runtime'[ledger[i]].review = runtime[ledger[i]].review
  BY DEF MemoryOK, Advanced
<1>2. QED
  BY <1>1 DEF PaidAgainOnlyOutOfWindow

LEMMA SpentOnceKept ==
  ASSUME SpentOnce, Advanced, life' = life PROVE SpentOnce'
BY SpentKept DEF SpentOnce, OneOfLife, Advanced

LEMMA SuccessKept ==
  ASSUME MemoryOK, SuccessIsTrusted, Advanced,
         \A t \in Tasks : record'[t] # None /\ record'[t].frozen = "succeeded" =>
           \/ record[t] # None /\ record[t].frozen = "succeeded"
           \/ t \in Spent /\ runtime[t].genuine /\ runtime[t].status = "done"
  PROVE  SuccessIsTrusted'
<1> SUFFICES ASSUME NEW t \in Tasks, record'[t] # None, record'[t].frozen = "succeeded"
             PROVE  runtime'[t].genuine /\ runtime'[t].status = "done"
  BY DEF SuccessIsTrusted
<1>1. t \in Spent /\ runtime[t].genuine /\ runtime[t].status = "done"
  BY DEF SuccessIsTrusted, MemoryOK
<1>2. QED
  BY <1>1 DEF Advanced

\* Nothing is forgotten as long as no key is freed and no search given up.
LEMMA ForgottenKept ==
  ASSUME BackendAssumption, Types, MemoryOK, NothingSpentForgotten, Advanced,
         UNCHANGED <<bound, ambiguous, life>>,
         \A d \in Callers : lock = d /\ At(d, "recheck") =>
           lock' = d /\ call'[d].pc = "recheck" /\ call'[d].review = call[d].review
  PROVE  NothingSpentForgotten'
<1> SUFFICES ASSUME NEW t \in Spent', runtime'[t].life = life'
             PROVE  LET k == runtime'[t].review.key IN
                    \/ bound'[k] # None /\ (bound'[k].task = t \/ runtime'[bound'[k].task].life < life')
                    \/ ambiguous'[k] # None
                    \/ \E c \in Callers : lock' = c /\ At(c, "recheck")' /\ call'[c].review.key = k
  BY DEF NothingSpentForgotten
<1> DEFINE k == runtime[t].review.key
<1>1. t \in Spent /\ runtime[t].life = life /\ runtime'[t].review.key = k
  BY SpentKept DEF Advanced
<1>2. \/ bound[k] # None /\ (bound[k].task = t \/ runtime[bound[k].task].life < life)
      \/ ambiguous[k] # None
      \/ \E c \in Callers : lock = c /\ At(c, "recheck") /\ call[c].review.key = k
  BY <1>1 DEF NothingSpentForgotten
<1>3. CASE bound[k] # None /\ bound[k].task = t
  BY <1>1, <1>3
<1>4. CASE bound[k] # None /\ runtime[bound[k].task].life < life
  <2>1. runtime'[bound[k].task].life = runtime[bound[k].task].life
    <3>1. k \in Keys
      BY <1>1, SpentTyped DEF PaidTasks, Reviews, Spent
    <3>2. QED
      BY <1>4, <3>1 DEF Advanced, MemoryOK
  <2>2. QED
    BY <1>1, <1>4, <2>1
<1>5. CASE ambiguous[k] # None
  BY <1>1, <1>5
<1>6. CASE \E c \in Callers : lock = c /\ At(c, "recheck") /\ call[c].review.key = k
  BY <1>1, <1>6 DEF At
<1>7. QED
  BY <1>2, <1>3, <1>4, <1>5, <1>6

-----------------------------------------------------------------------------
(* The steps of a poll, and the runtime's.                                 *)

\* A thread that neither has nor takes the schedule lock.
LEMMA CallStep ==
  ASSUME BackendAssumption, BackendInv, NEW c \in Callers, NEW v \in Calls,
         call' = [call EXCEPT ![c] = v],
         call[c].pc \notin Scheduling, v.pc \notin Scheduling,
         v.pc = "schedule" => v.review \in Reviews,
         Advanced, UNCHANGED <<ledger, bound, ambiguous, lock, life>>,
         record' \in [Tasks -> {None} \cup Records],
         \A t \in Tasks : record'[t] # None <=> record[t] # None,
         v.pc \in {"look", "show", "validate", "expire"} =>
           v.task \in Tasks /\ record[v.task] # None,
         v.pc = "validate" => runtime[v.task].status \in {"costing", "done"},
         \A t \in Tasks : record'[t] # None /\ record'[t].frozen = "succeeded" =>
           \/ record[t] # None /\ record[t].frozen = "succeeded"
           \/ t \in Spent /\ runtime[t].genuine /\ runtime[t].status = "done"
  PROVE  BackendInv'
<1>1. /\ call' \in [Callers -> Calls] /\ call'[c] = v
      /\ \A d \in Callers \ {c} : call'[d] = call[d]
  BY CallUpdate DEF BackendInv
<1>2. Types'
  BY <1>1 DEF BackendInv, Types, Advanced
<1>3. MemoryOK'
  BY SpentKept DEF BackendInv, MemoryOK, Advanced
<1>4. LockOK'
  <2>1. \A rv : (Matches(rv))' = Matches(rv)
    BY MatchesKept DEF BackendInv
  <2>2. \A k : Free(k)' = Free(k)
    BY DEF Free
  <2>3. lock # c /\ c # None
    BY DEF BackendInv, LockOK, BackendAssumption
  <2>4. QED
    BY <1>1, <2>1, <2>2, <2>3 DEF BackendInv, LockOK, At, Scheduling
<1>5. PollsOK'
  <2> SUFFICES ASSUME NEW d \in Callers, Polling(d)'
               PROVE  /\ call'[d].task \in Tasks /\ record'[call'[d].task] # None
                      /\ At(d, "validate")' => runtime'[call'[d].task].status \in {"costing", "done"}
    BY DEF PollsOK, At, Polling
  <2>1. /\ call'[d].task \in Tasks /\ record[call'[d].task] # None
        /\ call'[d].pc = "validate" => runtime[call'[d].task].status \in {"costing", "done"}
    BY <1>1 DEF BackendInv, PollsOK, Polling, At
  <2>2. call'[d].task \in Spent
    BY <2>1 DEF BackendInv, MemoryOK
  <2>3. QED
    BY <2>1, <2>2 DEF Advanced, At
<1>6. SpentOnce' /\ SuccessIsTrusted'
  BY SpentOnceKept, SuccessKept DEF BackendInv
<1>7. NothingSpentForgotten'
  BY <1>1, ForgottenKept DEF BackendInv, At, Scheduling
<1>8. ~LateLanding => PaidAgainOnlyOutOfWindow'
  BY WindowKept DEF BackendInv
<1>9. QED
  BY <1>2, <1>3, <1>4, <1>5, <1>6, <1>7, <1>8 DEF BackendInv

\* A thread that changes nothing but its own call.
LEMMA QuietStep ==
  ASSUME BackendAssumption, BackendInv, NEW c \in Callers, NEW v \in Calls,
         call' = [call EXCEPT ![c] = v],
         call[c].pc \notin Scheduling, v.pc \notin Scheduling,
         v.pc = "schedule" => v.review \in Reviews,
         UNCHANGED <<external, memory, lock, life>>,
         v.pc \in {"look", "show", "validate", "expire"} => Polling(c) /\ v.task = call[c].task,
         v.pc = "validate" => At(c, "validate")
  PROVE  BackendInv'
<1>1. UNCHANGED <<runtime, ledger, record, bound, ambiguous, lock, life>>
  BY DEF external, memory
<1>2. Advanced
  BY <1>1, NoneAdvanced DEF BackendInv
<1>3. \A d \in Callers : Polling(d) => call[d].task \in Tasks /\ record[call[d].task] # None
  BY DEF BackendInv, PollsOK
<1>4. v.pc = "validate" => runtime[v.task].status \in {"costing", "done"}
  BY DEF BackendInv, PollsOK, Polling
<1>5. QED
  BY <1>1, <1>2, <1>3, <1>4, CallStep DEF BackendInv, Types

LEMMA IdleCall == Idle \in Calls /\ Idle.pc = "idle"
BY DEF Idle, Calls, Pcs

LEMMA ScheduleStep ==
  ASSUME BackendAssumption, BackendInv, NEW c \in Callers, NEW review \in Reviews, Schedule(c, review)
  PROVE  BackendInv'
<1> DEFINE v == [Idle EXCEPT !.pc = "schedule", !.review = review]
<1>1. v.pc = "schedule" /\ v.review = review
  BY IdleCall DEF Calls
<1>2. v \in Calls
  BY IdleCall DEF Calls, Pcs
<1>3. call' = [call EXCEPT ![c] = v] /\ UNCHANGED <<external, memory, lock, life>> /\ At(c, "idle")
  BY DEF Schedule
<1>4. QED
  BY <1>1, <1>2, <1>3, QuietStep DEF At, Scheduling

LEMMA ReturnStep ==
  ASSUME BackendAssumption, BackendInv, NEW c \in Callers, Return(c)
  PROVE  BackendInv'
BY IdleCall, QuietStep DEF Return, At, Scheduling

\* The call of c with other fields is a call.
LEMMA CallWith ==
  ASSUME Types, NEW c \in Callers, NEW pc \in Pcs
  PROVE  /\ [call[c] EXCEPT !.pc = pc] \in Calls
         /\ [call[c] EXCEPT !.pc = pc].pc = pc
         /\ [call[c] EXCEPT !.pc = pc].task = call[c].task
         /\ [call[c] EXCEPT !.pc = pc].review = call[c].review
         /\ Goto(c, pc) => call' = [call EXCEPT ![c] = [call[c] EXCEPT !.pc = pc]]
<1>1. call[c] \in Calls /\ call \in [Callers -> Calls]
  BY DEF Types
<1>2. QED
  BY <1>1 DEF Calls, Goto

LEMMA CallGoes ==
  ASSUME Types, NEW c \in Callers, NEW pc \in Pcs, Goto(c, pc)
  PROVE  \E v \in Calls : /\ v.pc = pc /\ v.task = call[c].task /\ v.review = call[c].review
                          /\ call' = [call EXCEPT ![c] = v]
<1> DEFINE v == [call[c] EXCEPT !.pc = pc]
<1>1. /\ v \in Calls /\ v.pc = pc /\ v.task = call[c].task /\ v.review = call[c].review
      /\ call' = [call EXCEPT ![c] = v]
  BY CallWith
<1> HIDE DEF v
<1>2. QED
  BY <1>1

LEMMA CallReplies ==
  ASSUME Types, NEW c \in Callers,
         NEW r \in Complete \cup {"pending", "scheduled", "refused", None}, Answer(c, r)
  PROVE  \E v \in Calls : v.pc = "answered" /\ call' = [call EXCEPT ![c] = v]
<1> DEFINE v == [call[c] EXCEPT !.pc = "answered", !.reply = r]
<1>1. call[c] \in Calls /\ call \in [Callers -> Calls]
  BY DEF Types
<1>2. v \in Calls /\ v.pc = "answered"
  BY <1>1 DEF Calls, Pcs
<1>3. call' = [call EXCEPT ![c] = v]
  BY <1>1 DEF Answer
<1>4. QED
  BY <1>2, <1>3

LEMMA DeadlineStep ==
  ASSUME BackendAssumption, BackendInv, NEW c \in Callers, Deadline(c)
  PROVE  BackendInv'
<1> DEFINE v == [call[c] EXCEPT !.late = TRUE]
<1>1. call[c] \in Calls /\ call \in [Callers -> Calls]
  BY DEF BackendInv, Types
<1>2. v \in Calls /\ v.pc = call[c].pc /\ v.task = call[c].task
  BY <1>1 DEF Calls
<1>3. call' = [call EXCEPT ![c] = v]
  BY <1>1 DEF Deadline
<1>4. Polling(c) /\ UNCHANGED <<external, memory, lock, life>>
  BY DEF Deadline
<1>5. QED
  BY <1>2, <1>3, <1>4, QuietStep DEF Polling, Scheduling, At

LEMMA LookStep ==
  ASSUME BackendAssumption, BackendInv, NEW c \in Callers, Look(c)
  PROVE  BackendInv'
<1> DEFINE t == call[c].task
<1>1. At(c, "look") /\ Polling(c) /\ UNCHANGED <<external, memory, lock, life>> /\ Types
  BY DEF Look, Polling, At, BackendInv
<1>2. CASE Goto(c, "expire")
  <2> DEFINE v == [call[c] EXCEPT !.pc = "expire"]
  <2>1. v \in Calls /\ v.pc = "expire" /\ v.task = t /\ call' = [call EXCEPT ![c] = v]
    BY <1>1, <1>2, CallWith DEF Pcs
  <2>2. QED
    BY <1>1, <2>1, QuietStep DEF At, Scheduling
<1>3. CASE IsFrozen(t) /\ Answer(c, record[t].frozen)
  <2>1. t \in Tasks /\ record[t] # None
    BY <1>1 DEF BackendInv, PollsOK
  <2>2. record[t].frozen \in Complete
    BY <1>3, <2>1 DEF BackendInv, Types, Records, IsFrozen
  <2>3. PICK v \in Calls : v.pc = "answered" /\ call' = [call EXCEPT ![c] = v]
    BY <1>1, <1>3, <2>2, CallReplies
  <2>4. QED
    BY <1>1, <2>3, QuietStep DEF At, Scheduling
<1>4. CASE ~IsFrozen(t) /\ Goto(c, "show")
  <2> DEFINE v == [call[c] EXCEPT !.pc = "show"]
  <2>1. v \in Calls /\ v.pc = "show" /\ v.task = t /\ call' = [call EXCEPT ![c] = v]
    BY <1>1, <1>4, CallWith DEF Pcs
  <2>2. QED
    BY <1>1, <1>4, <2>1, QuietStep DEF At, Scheduling, IsFrozen
<1>5. QED
  BY <1>2, <1>3, <1>4 DEF Look

LEMMA PollStep ==
  ASSUME BackendAssumption, BackendInv, NEW c \in Callers, NEW t \in Tasks, NEW waits \in BOOLEAN,
         Poll(c, t, waits)
  PROVE  BackendInv'
<1> DEFINE v == [Idle EXCEPT !.pc = "look", !.task = t, !.waits = waits]
<1>1. v.pc = "look" /\ v.task = t
  BY IdleCall DEF Calls
<1>2. v \in Calls
  BY IdleCall DEF Calls, Pcs
<1>3. /\ call' = [call EXCEPT ![c] = v] /\ At(c, "idle") /\ record[t] # None
      /\ UNCHANGED <<runtime, ledger, record, bound, ambiguous, lock, life>>
  BY DEF Poll, external, memory
<1>4. call'[c] = v /\ \A d \in Callers \ {c} : call'[d] = call[d]
  BY <1>2, <1>3, CallUpdate DEF BackendInv
<1>5. Advanced
  BY <1>3, NoneAdvanced DEF BackendInv
<1>6. QED
  BY <1>1, <1>2, <1>3, <1>5, CallStep DEF BackendInv, Types, At, Scheduling

\* A poll is over, or the wait goes on.
LEMMA PendingCall ==
  ASSUME Types, NEW c \in Callers, Pending(c)
  PROVE  \E v \in Calls : /\ v.pc \in {"look", "answered"} /\ v.task = call[c].task
                          /\ call' = [call EXCEPT ![c] = v]
<1>1. call[c] \in Calls /\ call \in [Callers -> Calls]
  BY DEF Types
<1>2. CASE Goto(c, "look")
  <2> DEFINE v == [call[c] EXCEPT !.pc = "look"]
  <2>1. v \in Calls /\ v.pc = "look" /\ v.task = call[c].task
    BY CallWith DEF Pcs
  <2>2. call' = [call EXCEPT ![c] = v]
    BY <1>2, CallWith DEF Pcs
  <2>3. QED
    BY <2>1, <2>2
<1>3. CASE Answer(c, "pending")
  <2> DEFINE v == [call[c] EXCEPT !.pc = "answered", !.reply = "pending"]
  <2>1. v \in Calls /\ v.pc = "answered" /\ v.task = call[c].task
    BY <1>1 DEF Calls, Pcs
  <2>2. call' = [call EXCEPT ![c] = v]
    BY <1>1, <1>3 DEF Answer
  <2>3. QED
    BY <2>1, <2>2
<1>4. QED
  BY <1>2, <1>3 DEF Pending

\* The poll of c writes w into the record of its task.
LEMMA RecordStep ==
  ASSUME BackendAssumption, BackendInv, NEW c \in Callers, NEW v \in Calls, NEW w \in Records,
         Polling(c), call' = [call EXCEPT ![c] = v],
         record' = [record EXCEPT ![call[c].task] = w],
         Advanced, UNCHANGED <<ledger, bound, ambiguous, lock, life>>,
         v.pc \in {"look", "validate", "answered", "expire"},
         v.pc # "answered" => v.task = call[c].task,
         v.pc = "validate" => runtime[call[c].task].status \in {"costing", "done"},
         w.frozen = "succeeded" =>
           \/ record[call[c].task].frozen = "succeeded"
           \/ runtime[call[c].task].genuine /\ runtime[call[c].task].status = "done"
  PROVE  BackendInv'
<1> DEFINE t == call[c].task
<1>1. t \in Tasks /\ record[t] # None /\ t \in Spent
  BY DEF BackendInv, PollsOK, MemoryOK
<1>2. /\ record'[t] = w /\ \A u \in Tasks \ {t} : record'[u] = record[u]
      /\ record' \in [Tasks -> {None} \cup Records] /\ w # None
  BY <1>1 DEF BackendInv, Types, BackendAssumption
<1>3. \A u \in Tasks : record'[u] # None <=> record[u] # None
  BY <1>1, <1>2
<1>4. \A u \in Tasks : record'[u] # None /\ record'[u].frozen = "succeeded" =>
        \/ record[u] # None /\ record[u].frozen = "succeeded"
        \/ u \in Spent /\ runtime[u].genuine /\ runtime[u].status = "done"
  BY <1>1, <1>2
<1>5. call[c].pc \notin Scheduling /\ v.pc \notin Scheduling \cup {"schedule"}
  BY DEF Polling, Scheduling
<1>6. QED
  BY <1>1, <1>2, <1>3, <1>3, <1>4, <1>5, CallStep

\* A record with other fields is a record.
LEMMA FrozenRecord ==
  ASSUME BackendAssumption, BackendInv, NEW c \in Callers, Polling(c),
         NEW r \in Complete, Freeze(c, r)
  PROVE  /\ [record[call[c].task] EXCEPT !.frozen = r] \in Records
         /\ [record[call[c].task] EXCEPT !.frozen = r].frozen = r
         /\ record' = [record EXCEPT ![call[c].task] = [record[call[c].task] EXCEPT !.frozen = r]]
         /\ \E v \in Calls : v.pc = "answered" /\ call' = [call EXCEPT ![c] = v]
<1>1. call[c].task \in Tasks /\ record[call[c].task] \in Records
  BY DEF BackendInv, PollsOK, Types
<1>2. record \in [Tasks -> {None} \cup Records]
  BY DEF BackendInv, Types
<1>3. QED
  BY <1>1, <1>2, CallReplies DEF Freeze, Records, BackendInv

LEMMA FailStep ==
  ASSUME BackendAssumption, BackendInv, NEW c \in Callers, Polling(c), Freeze(c, "failed"),
         UNCHANGED <<runtime, ledger, bound, ambiguous, lock, life>>
  PROVE  BackendInv'
<1> DEFINE w == [record[call[c].task] EXCEPT !.frozen = "failed"]
<1>1. "failed" \in Complete
  BY DEF Complete
<1>2. /\ w \in Records /\ w.frozen = "failed"
      /\ record' = [record EXCEPT ![call[c].task] = w]
      /\ \E v \in Calls : v.pc = "answered" /\ call' = [call EXCEPT ![c] = v]
  BY <1>1, FrozenRecord
<1>3. PICK v \in Calls : v.pc = "answered" /\ call' = [call EXCEPT ![c] = v]
  BY <1>2
<1>4. Advanced
  BY NoneAdvanced DEF BackendInv
<1>5. QED
  BY <1>2, <1>3, <1>4, RecordStep

LEMMA CommandFailsStep ==
  ASSUME BackendAssumption, BackendInv, NEW c \in Callers, Polling(c), CommandFails(c),
         UNCHANGED <<external, lock, life>>
  PROVE  BackendInv'
<1>1. CASE Goto(c, "expire") /\ UNCHANGED memory
  <2> DEFINE v == [call[c] EXCEPT !.pc = "expire"]
  <2>1. v \in Calls /\ v.pc = "expire" /\ v.task = call[c].task /\ call' = [call EXCEPT ![c] = v]
    BY <1>1, CallWith DEF Pcs, BackendInv
  <2>2. QED
    BY <1>1, <2>1, QuietStep DEF Polling, Scheduling
<1>2. CASE Freeze(c, "failed") /\ UNCHANGED <<bound, ambiguous>>
  BY <1>2, FailStep DEF external
<1>3. QED
  BY <1>1, <1>2 DEF CommandFails

LEMMA ShowStep ==
  ASSUME BackendAssumption, BackendInv, NEW c \in Callers, Show(c)
  PROVE  BackendInv'
<1> DEFINE t == call[c].task
<1>1. At(c, "show") /\ Polling(c) /\ UNCHANGED <<external, lock, life>> /\ Types
  BY DEF Show, Polling, At, BackendInv
<1>2. /\ t \in Tasks /\ record[t] \in Records /\ record \in [Tasks -> {None} \cup Records]
      /\ UNCHANGED <<runtime, ledger, lock, life>> /\ Advanced
  BY <1>1, NoneAdvanced DEF BackendInv, Types, PollsOK, external
<1>3. CASE CommandFails(c)
  BY <1>1, <1>3, CommandFailsStep
<1>4. CASE Pending(c) /\ UNCHANGED memory
  <2>1. PICK v \in Calls : /\ v.pc \in {"look", "answered"} /\ v.task = t
                           /\ call' = [call EXCEPT ![c] = v]
    BY <1>1, <1>4, PendingCall
  <2>2. QED
    BY <1>1, <1>4, <2>1, QuietStep DEF Polling, Scheduling
<1>5. CASE Freeze(c, "failed") /\ UNCHANGED <<bound, ambiguous>>
  BY <1>1, <1>2, <1>5, FailStep
<1>6. CASE /\ runtime[t].status \in {"finalizing", "costing", "done"}
           /\ record' = [record EXCEPT ![t].terminal = TRUE,
                                       ![t].costing = @ \/ runtime[t].status # "done"]
           /\ IF runtime[t].status = "finalizing" THEN Pending(c) ELSE Goto(c, "validate")
           /\ UNCHANGED <<bound, ambiguous>>
  <2>1. PICK w \in Records : w.frozen = record[t].frozen /\ record' = [record EXCEPT ![t] = w]
    <3> DEFINE x == [record[t] EXCEPT !.terminal = TRUE, !.costing = @ \/ runtime[t].status # "done"]
    <3>1. x \in Records /\ x.frozen = record[t].frozen /\ record' = [record EXCEPT ![t] = x]
      BY <1>2, <1>6 DEF Records
    <3>2. QED
      BY <3>1
  <2>2. \E v \in Calls : /\ v.pc \in {"look", "answered", "validate"} /\ v.task = t
                         /\ v.pc = "validate" => runtime[t].status \in {"costing", "done"}
                         /\ call' = [call EXCEPT ![c] = v]
    <3>1. CASE runtime[t].status = "finalizing"
      <4>1. Pending(c)
        BY <1>6, <3>1
      <4>2. QED
        BY <1>1, <4>1, PendingCall
    <3>2. CASE runtime[t].status # "finalizing"
      <4> DEFINE v == [call[c] EXCEPT !.pc = "validate"]
      <4>1. v \in Calls /\ v.pc = "validate" /\ v.task = t /\ call' = [call EXCEPT ![c] = v]
        BY <1>1, <1>6, <3>2, CallWith DEF Pcs
      <4>2. runtime[t].status \in {"costing", "done"}
        BY <1>6, <3>2
      <4>3. QED
        BY <4>1, <4>2
    <3>3. QED
      BY <3>1, <3>2
  <2>3. PICK v \in Calls : /\ v.pc \in {"look", "answered", "validate"} /\ v.task = t
                           /\ v.pc = "validate" => runtime[t].status \in {"costing", "done"}
                           /\ call' = [call EXCEPT ![c] = v]
    BY <2>2
  <2>4. UNCHANGED <<ledger, bound, ambiguous, lock, life>> /\ Polling(c) /\ Advanced
    BY <1>1, <1>2, <1>6
  <2>5. v.pc \in {"look", "validate", "answered", "expire"} /\ v.task = call[c].task
    BY <2>3
  <2>6. v.pc = "validate" => runtime[call[c].task].status \in {"costing", "done"}
    BY <2>3
  <2>7. w.frozen = "succeeded" => record[call[c].task].frozen = "succeeded"
    BY <2>1
  <2>8. record' = [record EXCEPT ![call[c].task] = w] /\ call' = [call EXCEPT ![c] = v]
    BY <2>1, <2>3
  <2>9. QED
    BY <2>4, <2>5, <2>6, <2>7, <2>8, RecordStep
<1>7. QED
  BY <1>3, <1>4, <1>5, <1>6 DEF Show

LEMMA ValidateStep ==
  ASSUME BackendAssumption, BackendInv, NEW c \in Callers, Validate(c)
  PROVE  BackendInv'
<1> DEFINE t == call[c].task
<1>1. At(c, "validate") /\ Polling(c) /\ UNCHANGED <<external, lock, life>> /\ Types
  BY DEF Validate, Polling, At, BackendInv
<1>2. /\ t \in Tasks /\ record[t] \in Records /\ record \in [Tasks -> {None} \cup Records]
      /\ UNCHANGED <<runtime, ledger, lock, life>> /\ Advanced
      /\ runtime[t].status \in {"costing", "done"}
  BY <1>1, NoneAdvanced DEF BackendInv, Types, PollsOK, external
<1>3. CASE CommandFails(c)
  BY <1>1, <1>3, CommandFailsStep
<1>4. CASE Freeze(c, "failed") /\ UNCHANGED <<bound, ambiguous>>
  BY <1>1, <1>2, <1>4, FailStep
<1>5. CASE /\ record' = [record EXCEPT ![t].costing = TRUE] /\ Pending(c)
           /\ UNCHANGED <<bound, ambiguous>>
  <2> DEFINE w == [record[t] EXCEPT !.costing = TRUE]
  <2>1. w \in Records /\ w.frozen = record[t].frozen /\ record' = [record EXCEPT ![t] = w]
    BY <1>2, <1>5 DEF Records
  <2>2. PICK v \in Calls : /\ v.pc \in {"look", "answered"} /\ v.task = t
                           /\ call' = [call EXCEPT ![c] = v]
    BY <1>1, <1>5, PendingCall
  <2> HIDE DEF w
  <2>3. UNCHANGED <<bound, ambiguous>>
    BY <1>5
  <2>4. QED
    BY <1>1, <1>2, <2>1, <2>2, <2>3, RecordStep
<1>6. CASE /\ runtime[t].genuine /\ ~CostPending(t)
           /\ record' = [record EXCEPT ![t].costing = FALSE, ![t].frozen = "succeeded"]
           /\ Answer(c, "succeeded")
           /\ UNCHANGED <<bound, ambiguous>>
  <2> DEFINE w == [record[t] EXCEPT !.costing = FALSE, !.frozen = "succeeded"]
  <2>1. w \in Records /\ w.frozen = "succeeded" /\ record' = [record EXCEPT ![t] = w]
    BY <1>2, <1>6 DEF Records, Complete
  <2>2. PICK v \in Calls : v.pc = "answered" /\ call' = [call EXCEPT ![c] = v]
    BY <1>1, <1>6, CallReplies DEF Complete
  <2> HIDE DEF w
  <2>3. UNCHANGED <<bound, ambiguous>> /\ runtime[t].genuine /\ runtime[t].status = "done"
    BY <1>2, <1>6 DEF CostPending
  <2>4. QED
    BY <1>1, <1>2, <2>1, <2>2, <2>3, RecordStep
<1>7. QED
  BY <1>3, <1>4, <1>5, <1>6 DEF Validate

LEMMA ExpireStep ==
  ASSUME BackendAssumption, BackendInv, NEW c \in Callers, Expire(c)
  PROVE  BackendInv'
<1> DEFINE t == call[c].task
<1>1. Polling(c) /\ Types /\ UNCHANGED <<ledger, bound, ambiguous, lock, life>>
  BY DEF Expire, Polling, At, BackendInv
<1>2. t \in Tasks /\ t \in Spent /\ record[t] \in Records /\ record \in [Tasks -> {None} \cup Records]
  BY <1>1 DEF BackendInv, Types, PollsOK, MemoryOK
<1>3. Advanced
  <2>1. CASE \E ts \in {{}, {t}} : Cancelled(ts)
    <3>1. PICK ts \in {{}, {t}} : Cancelled(ts)
      BY <2>1
    <3>2. ts \in SUBSET Spent
      BY <1>2
    <3>3. QED
      BY <1>1, <3>1, <3>2, CancelledAdvanced
  <2>2. CASE UNCHANGED runtime
    BY <1>1, <2>2, NoneAdvanced
  <2>3. QED
    BY <2>1, <2>2 DEF Expire
<1> DEFINE w == [record[t] EXCEPT !.cancelled = TRUE, !.frozen = "timed_out"]
<1>4. w \in Records /\ w.frozen = "timed_out" /\ record' = [record EXCEPT ![t] = w]
  BY <1>2 DEF Records, Complete, Expire
<1>5. PICK v \in Calls : v.pc = "answered" /\ call' = [call EXCEPT ![c] = v]
  BY <1>1, CallReplies DEF Complete, Expire
<1> HIDE DEF w
<1>6. QED
  BY <1>1, <1>2, <1>3, <1>4, <1>5, RecordStep

\* The runtime by itself; a creation that lands late is listed now.
LEMMA RuntimeStep ==
  ASSUME BackendAssumption, BackendInv, Advanced, UNCHANGED <<memory, lock, call, life>>,
         \/ ledger' = ledger
         \/ LateLanding /\ \E t \in Spent : ledger' = Append(ledger, t)
  PROVE  BackendInv'
<1>1. UNCHANGED <<record, bound, ambiguous, lock, call, life>>
  BY DEF memory
<1>2. /\ ledger' \in Seq(Tasks) /\ \A i \in 1..Len(ledger') : ledger'[i] \in Spent
      /\ LateLanding \/ ledger' = ledger
  <2>1. ledger \in Seq(Tasks) /\ \A i \in 1..Len(ledger) : ledger[i] \in Spent
    BY DEF BackendInv, Types, MemoryOK
  <2>2. \A t \in Spent : t \in Tasks
    BY DEF Spent
  <2>3. QED
    BY <2>1, <2>2
<1>3. Types' /\ MemoryOK'
  BY <1>1, <1>2, SpentKept DEF BackendInv, Types, MemoryOK, Advanced
<1>4. LockOK'
  <2>1. ~LateLanding => \A rv : (Matches(rv))' = Matches(rv)
    BY <1>2, MatchesKept DEF BackendInv
  <2>2. \A k : Free(k)' = Free(k)
    BY <1>1 DEF Free
  <2>3. QED
    BY <1>1, <2>1, <2>2 DEF BackendInv, LockOK, At
<1>5. PollsOK'
  BY <1>1 DEF BackendInv, PollsOK, Polling, At, Advanced, MemoryOK
<1>6. SpentOnce' /\ SuccessIsTrusted' /\ NothingSpentForgotten'
  BY <1>1, SpentOnceKept, SuccessKept, ForgottenKept DEF BackendInv, At
<1>7. ~LateLanding => PaidAgainOnlyOutOfWindow'
  BY <1>2, WindowKept DEF BackendInv
<1>8. QED
  BY <1>3, <1>4, <1>5, <1>6, <1>7 DEF BackendInv

LEMMA LandStep ==
  ASSUME BackendAssumption, BackendInv, NEW t \in Tasks, Land(t)
  PROVE  BackendInv'
<1> DEFINE w == [runtime[t] EXCEPT !.status = "running"]
<1>1. t \in Spent /\ runtime[t] \in PaidTasks /\ runtime[t].status = "in_flight"
  BY SpentTyped DEF Land, BackendInv
<1>2. /\ w \in PaidTasks /\ w.review = runtime[t].review /\ w.life = runtime[t].life
      /\ w.status = "running" /\ runtime' = [runtime EXCEPT ![t] = w]
  BY <1>1 DEF PaidTasks, Statuses, Land, BackendInv, Types
<1> HIDE DEF w
<1>3. Advanced
  BY <1>1, <1>2, TaskAdvanced DEF BackendInv
<1>4. LateLanding
  BY <1>1 DEF BackendInv, MemoryOK
<1>5. QED
  BY <1>1, <1>3, <1>4, RuntimeStep DEF Land

LEMMA ProgressStep ==
  ASSUME BackendAssumption, BackendInv, NEW t \in Tasks, Progress(t)
  PROVE  BackendInv'
<1>1. t \in Spent /\ runtime[t] \in PaidTasks /\ UNCHANGED <<ledger, memory, lock, call, life>>
  BY SpentTyped DEF Progress, BackendInv
<1>2. PICK s \in {"finalizing", "failed", "costing", "done"}, g \in BOOLEAN :
        /\ runtime' = [runtime EXCEPT ![t] = [runtime[t] EXCEPT !.status = s, !.genuine = g]]
        /\ runtime[t].status = "costing" => s = "done"
        /\ runtime[t].status \in {"running", "finalizing", "costing"}
  <2>1. CASE /\ runtime[t].status = "running"
             /\ \E s \in {"finalizing", "failed"}, g \in BOOLEAN :
                  runtime' = [runtime EXCEPT ![t].status = s, ![t].genuine = g]
    <3>1. PICK s \in {"finalizing", "failed"}, g \in BOOLEAN :
            runtime' = [runtime EXCEPT ![t].status = s, ![t].genuine = g]
      BY <2>1
    <3>2. runtime' = [runtime EXCEPT ![t] = [runtime[t] EXCEPT !.status = s, !.genuine = g]]
      BY <1>1, <3>1 DEF BackendInv, Types
    <3>3. QED
      BY <2>1, <3>2
  <2>2. CASE /\ runtime[t].status = "finalizing"
             /\ runtime' = [runtime EXCEPT ![t].status = "costing"]
    <3>1. [runtime[t] EXCEPT !.status = "costing", !.genuine = runtime[t].genuine]
            = [runtime[t] EXCEPT !.status = "costing"] /\ runtime[t].genuine \in BOOLEAN
      BY <1>1 DEF PaidTasks
    <3>2. runtime' = [runtime EXCEPT ![t] = [runtime[t] EXCEPT !.status = "costing"]]
      BY <1>1, <2>2 DEF BackendInv, Types
    <3>3. QED
      BY <2>2, <3>1, <3>2
  <2>3. CASE /\ runtime[t].status = "costing"
             /\ runtime' = [runtime EXCEPT ![t].status = "done"]
    <3>1. [runtime[t] EXCEPT !.status = "done", !.genuine = runtime[t].genuine]
            = [runtime[t] EXCEPT !.status = "done"] /\ runtime[t].genuine \in BOOLEAN
      BY <1>1 DEF PaidTasks
    <3>2. runtime' = [runtime EXCEPT ![t] = [runtime[t] EXCEPT !.status = "done"]]
      BY <1>1, <2>3 DEF BackendInv, Types
    <3>3. QED
      BY <2>3, <3>1, <3>2
  <2>4. QED
    BY <2>1, <2>2, <2>3 DEF Progress
<1> DEFINE w == [runtime[t] EXCEPT !.status = s, !.genuine = g]
<1>3. /\ w \in PaidTasks /\ w.review = runtime[t].review /\ w.life = runtime[t].life
      /\ w.status = s /\ runtime' = [runtime EXCEPT ![t] = w]
  BY <1>1, <1>2 DEF PaidTasks, Statuses
<1> HIDE DEF w
<1>4. s # "in_flight" /\ runtime[t].status # "done" /\ (runtime[t].status = "costing" => s = "done")
  BY <1>2
<1>5. Advanced
  BY <1>1, <1>3, <1>4, TaskAdvanced DEF BackendInv
<1>6. QED
  BY <1>1, <1>5, RuntimeStep DEF Progress

LEMMA RestartStep ==
  ASSUME BackendAssumption, BackendInv, Restart
  PROVE  BackendInv'
<1>1. /\ UNCHANGED <<runtime, ledger>> /\ life' = life + 1 /\ life' \in 0..MaxRestarts
      /\ record' = [t \in Tasks |-> None] /\ bound' = [k \in Keys |-> None]
      /\ ambiguous' = [k \in Keys |-> None] /\ lock' = None
      /\ call' = [c \in Callers |-> Idle]
  BY DEF Restart, external, BackendInv, Types, BackendAssumption
<1>2. \A c \in Callers : call'[c].pc = "idle"
  BY <1>1, IdleCall
<1>3. Types'
  BY <1>1, IdleCall DEF BackendInv, Types
<1>4. Spent' = Spent /\ \A t \in Spent : runtime[t].life <= life /\ runtime[t].life \in Nat
  BY <1>1, SpentTyped DEF Spent, BackendInv, MemoryOK, PaidTasks
<1>5. life' \in Nat /\ \A t \in Spent : runtime'[t].life < life' /\ runtime'[t].life \in Nat
  BY <1>1, <1>4 DEF BackendInv, Types, BackendAssumption
<1>6. MemoryOK'
  BY <1>1, <1>4, <1>5 DEF BackendInv, MemoryOK, Types, BackendAssumption
<1>7. LockOK' /\ PollsOK'
  BY <1>1, <1>2 DEF LockOK, PollsOK, Polling, At, Scheduling, BackendAssumption
<1>8. SpentOnce' /\ NothingSpentForgotten'
  BY <1>4, <1>5 DEF SpentOnce, OneOfLife, NothingSpentForgotten
<1>9. SuccessIsTrusted' /\ (~LateLanding => PaidAgainOnlyOutOfWindow')
  BY <1>1 DEF SuccessIsTrusted, PaidAgainOnlyOutOfWindow, BackendInv
<1>10. QED
  BY <1>3, <1>6, <1>7, <1>8, <1>9 DEF BackendInv

-----------------------------------------------------------------------------
(* What the schedule lock protects.                                        *)

LEMMA HolderKnows ==
  ASSUME BackendAssumption, BackendInv, NEW c \in Callers, call[c].pc \in Scheduling
  PROVE  /\ lock = c /\ c # None /\ call[c].review \in Reviews
         /\ call[c].review.key \in Keys /\ call[c].review.input \in Inputs
         /\ Free(call[c].review.key)
         /\ \A d \in Callers \ {c} : call[d].pc \notin Scheduling
BY DEF BackendInv, LockOK, BackendAssumption, Reviews

\* A free key whose holder has not spent yet has no task of this process.
LEMMA NothingBefore ==
  ASSUME BackendAssumption, BackendInv, NEW c \in Callers, call[c].pc \in {"reconcile", "create"},
         NEW t \in Spent, runtime[t].life = life
  PROVE  runtime[t].review.key # call[c].review.key
<1>1. lock = c /\ Free(call[c].review.key) /\ ~At(c, "recheck")
  BY HolderKnows DEF Scheduling, At
<1>2. QED
  BY <1>1 DEF BackendInv, NothingSpentForgotten, Free

\* Who holds or takes the lock, and pays for nothing.
LEMMA HolderStep ==
  ASSUME BackendAssumption, BackendInv, NEW c \in Callers, NEW v \in Calls,
         call' = [call EXCEPT ![c] = v],
         call[c].pc \in Scheduling \cup {"schedule"}, lock \in {None, c},
         \/ v.pc \in Scheduling /\ lock' = c /\ v.review \in Reviews /\ Free(v.review.key)'
         \/ v.pc = "answered" /\ lock' = None,
         ~LateLanding /\ v.pc = "create" => Matches(v.review) = {},
         Advanced, UNCHANGED <<ledger, life>>,
         record' \in [Tasks -> {None} \cup Records],
         bound' \in [Keys -> {None} \cup Bindings],
         ambiguous' \in [Keys -> {None} \cup Inputs],
         \A t \in Tasks : record[t] # None => record'[t] = record[t],
         \A t \in Tasks : record[t] = None /\ record'[t] # None =>
           t \in Spent /\ record'[t].frozen # "succeeded",
         \A k \in Keys : bound'[k] # None => bound'[k].task \in Spent,
         NothingSpentForgotten'
  PROVE  BackendInv'
<1>1. /\ call' \in [Callers -> Calls] /\ call'[c] = v
      /\ \A d \in Callers \ {c} : call'[d] = call[d]
  BY CallUpdate DEF BackendInv
<1>2. Types'
  BY <1>1 DEF BackendInv, Types, Advanced
<1>3. MemoryOK'
  <2>1. \A t \in Tasks : record'[t] # None => t \in Spent
    BY DEF BackendInv, MemoryOK
  <2>2. QED
    BY <2>1, SpentKept DEF BackendInv, MemoryOK, Advanced
<1>4. \A d \in Callers \ {c} : call[d].pc \notin Scheduling
  BY DEF BackendInv, LockOK, BackendAssumption
<1>5. LockOK'
  <2> SUFFICES ASSUME NEW d \in Callers
               PROVE  /\ call'[d].pc \in Scheduling <=> lock' = d
                      /\ call'[d].pc \in Scheduling \cup {"schedule"} => call'[d].review \in Reviews
                      /\ lock' = d => Free(call[d].review.key)'
                      /\ ~LateLanding /\ At(d, "create")' => (Matches(call[d].review))' = {}
    BY DEF LockOK
  <2>1. CASE d # c
    <3>1. lock' # d
      BY <2>1 DEF BackendAssumption
    <3>2. QED
      BY <1>1, <1>4, <2>1, <3>1 DEF BackendInv, LockOK, At, Scheduling
  <2>2. CASE d = c
    <3>1. c # None
      BY DEF BackendAssumption
    <3>2. (Matches(call[c].review))' = Matches(v.review)
      <4>1. (Matches(call[c].review))' = {t \in Newest' : runtime'[t].review = v.review}
        BY <1>1 DEF Matches
      <4>2. Newest' = Newest /\ \A t \in Newest : runtime'[t].review = runtime[t].review
        <5>1. Newest' = Newest /\ \A t \in Newest : t \in Spent
          BY DEF Newest, BackendInv, MemoryOK
        <5>2. QED
          BY <5>1 DEF Advanced
      <4>3. QED
        BY <4>1, <4>2 DEF Matches
    <3>3. call'[c] = v /\ (Free(call[c].review.key)' <=> Free(v.review.key)')
      BY <1>1 DEF Free
    <3>4. QED
      BY <2>2, <3>1, <3>2, <3>3 DEF At, Scheduling
  <2>3. QED
    BY <2>1, <2>2
<1>6. \A d \in Callers : Polling(d)' => d # c /\ Polling(d) /\ call'[d] = call[d]
  BY <1>1 DEF Polling, Scheduling
<1>7. PollsOK'
  <2> SUFFICES ASSUME NEW d \in Callers, Polling(d)'
               PROVE  /\ call'[d].task \in Tasks /\ record'[call'[d].task] # None
                      /\ At(d, "validate")' => runtime'[call'[d].task].status \in {"costing", "done"}
    BY DEF PollsOK, At, Polling
  <2>1. /\ call[d].task \in Tasks /\ record[call[d].task] # None /\ call'[d] = call[d]
        /\ call[d].pc = "validate" => runtime[call[d].task].status \in {"costing", "done"}
    BY <1>6 DEF BackendInv, PollsOK, At
  <2>2. call[d].task \in Spent
    BY <2>1 DEF BackendInv, MemoryOK
  <2>3. QED
    BY <2>1, <2>2 DEF Advanced, At
<1>8. SpentOnce' /\ SuccessIsTrusted' /\ (~LateLanding => PaidAgainOnlyOutOfWindow')
  BY SpentOnceKept, SuccessKept, WindowKept DEF BackendInv
<1>9. QED
  BY <1>2, <1>3, <1>5, <1>7, <1>8 DEF BackendInv

LEMMA LookupStep ==
  ASSUME BackendAssumption, BackendInv, NEW c \in Callers, Lookup(c)
  PROVE  BackendInv'
<1> DEFINE k == call[c].review.key
<1>1. /\ At(c, "schedule") /\ lock = None /\ UNCHANGED <<external, memory, life>>
      /\ Types /\ call[c].review \in Reviews /\ k \in Keys
  BY DEF Lookup, BackendInv, LockOK, At, Reviews
<1>2. CASE IsAmbiguous(k) /\ Answer(c, "refused") /\ UNCHANGED lock
  <2>1. PICK v \in Calls : v.pc = "answered" /\ call' = [call EXCEPT ![c] = v]
    BY <1>1, <1>2, CallReplies
  <2>2. QED
    BY <1>1, <1>2, <2>1, QuietStep DEF At, Scheduling
<1>3. CASE /\ bound[k] # None
           /\ call' = [call EXCEPT
                         ![c].pc = "answered",
                         ![c].reply = IF bound[k].review = call[c].review
                                      THEN "scheduled" ELSE "refused",
                         ![c].task = IF bound[k].review = call[c].review
                                     THEN bound[k].task ELSE None]
           /\ UNCHANGED lock
  <2> DEFINE r == IF bound[k].review = call[c].review THEN "scheduled" ELSE "refused"
             u == IF bound[k].review = call[c].review THEN bound[k].task ELSE None
             w == [call[c] EXCEPT !.pc = "answered", !.reply = r, !.task = u]
  <2>1. bound[k] \in Bindings
    BY <1>1, <1>3 DEF Types
  <2>2. u \in Tasks \cup {None}
    BY <2>1 DEF Bindings
  <2>3. call \in [Callers -> Calls] /\ call[c] \in Calls /\ r \in {"scheduled", "refused"}
    BY <1>1 DEF Types
  <2>4. call' = [call EXCEPT ![c] = w]
    BY <1>3, <2>3
  <2> HIDE DEF r, u
  <2>5. w \in Calls /\ w.pc = "answered"
    BY <2>2, <2>3 DEF Calls, Pcs
  <2> HIDE DEF w
  <2>6. QED
    BY <1>1, <1>3, <2>4, <2>5, QuietStep DEF At, Scheduling
<1>4. CASE ~IsAmbiguous(k) /\ bound[k] = None /\ lock' = c /\ Goto(c, "reconcile")
  <2>1. PICK v \in Calls : /\ v.pc = "reconcile" /\ v.review = call[c].review
                           /\ call' = [call EXCEPT ![c] = v]
    BY <1>1, <1>4, CallGoes DEF Pcs
  <2>2. UNCHANGED <<runtime, ledger, record, bound, ambiguous, life>> /\ Advanced
    BY <1>1, NoneAdvanced DEF external, memory
  <2>3. Free(v.review.key)'
    BY <1>4, <2>1, <2>2 DEF Free, IsAmbiguous
  <2>4. NothingSpentForgotten'
    BY <1>1, <2>2, ForgottenKept DEF BackendInv, BackendAssumption
  <2>5. QED
    BY <1>1, <1>4, <2>1, <2>2, <2>3, <2>4, HolderStep DEF At, Scheduling, BackendInv, Types, MemoryOK
<1>5. QED
  BY <1>2, <1>3, <1>4 DEF Lookup

LEMMA PoisonStep ==
  ASSUME BackendAssumption, BackendInv, NEW c \in Callers, call[c].pc \in Scheduling,
         Advanced, UNCHANGED <<ledger, life>>, Poison(c)
  PROVE  BackendInv'
<1> DEFINE k == call[c].review.key
<1>1. /\ ambiguous' = [ambiguous EXCEPT ![k] = call[c].review.input] /\ lock' = None
      /\ UNCHANGED <<record, bound>>
  BY DEF Poison
<1>2. PICK v \in Calls : v.pc = "answered" /\ call' = [call EXCEPT ![c] = v]
  BY CallReplies DEF Poison, BackendInv
<1>3. lock = c /\ k \in Keys /\ call[c].review.input \in Inputs
  BY HolderKnows
<1>4. /\ ambiguous' \in [Keys -> {None} \cup Inputs] /\ ambiguous'[k] # None
      /\ \A j \in Keys : ambiguous[j] # None => ambiguous'[j] # None
  BY <1>1, <1>3 DEF BackendInv, Types, BackendAssumption
<1>5. NothingSpentForgotten'
  <2> SUFFICES ASSUME NEW t \in Spent', runtime'[t].life = life'
               PROVE  LET j == runtime'[t].review.key IN
                      \/ bound'[j] # None /\ (bound'[j].task = t \/ runtime'[bound'[j].task].life < life')
                      \/ ambiguous'[j] # None
    BY DEF NothingSpentForgotten
  <2> DEFINE j == runtime[t].review.key
  <2>1. t \in Spent /\ runtime[t].life = life /\ runtime'[t].review.key = j /\ j \in Keys
    BY SpentKept, SpentTyped DEF Advanced, BackendInv, PaidTasks, Reviews, Spent
  <2>2. CASE bound[j] # None /\ (bound[j].task = t \/ runtime[bound[j].task].life < life)
    <3>1. bound[j].task \in Spent
      BY <2>1, <2>2 DEF BackendInv, MemoryOK
    <3>2. bound'[j] = bound[j]
      BY <1>1
    <3>3. runtime'[bound[j].task].life = runtime[bound[j].task].life
      BY <3>1 DEF Advanced
    <3>4. life' = life
      OBVIOUS
    <3>5. QED
      BY <2>1, <2>2, <3>2, <3>3, <3>4
  <2>3. CASE ambiguous[j] # None
    BY <1>4, <2>1, <2>3
  <2>4. CASE \E d \in Callers : lock = d /\ At(d, "recheck") /\ call[d].review.key = j
    BY <1>3, <1>4, <2>1, <2>4
  <2>5. QED
    BY <2>1, <2>2, <2>3, <2>4 DEF BackendInv, NothingSpentForgotten
<1>6. QED
  BY <1>1, <1>2, <1>3, <1>4, <1>5, HolderStep DEF BackendInv, Types, MemoryOK, Scheduling

LEMMA NoRecordOK == NoRecord \in Records /\ NoRecord.frozen = None
BY DEF NoRecord, Records

LEMMA BindCall ==
  ASSUME Types, NEW c \in Callers, NEW t \in Tasks, Bind(c, t)
  PROVE  \E v \in Calls : v.pc = "answered" /\ call' = [call EXCEPT ![c] = v]
<1> DEFINE v == [call[c] EXCEPT !.pc = "answered", !.reply = "scheduled", !.task = t]
<1>1. call[c] \in Calls /\ call \in [Callers -> Calls]
  BY DEF Types
<1>2. v \in Calls /\ v.pc = "answered"
  BY <1>1 DEF Calls, Pcs
<1>3. call' = [call EXCEPT ![c] = v]
  BY <1>1 DEF Bind
<1> HIDE DEF v
<1>4. QED
  BY <1>2, <1>3

\* What Bind does to the memory.
LEMMA BindMemory ==
  ASSUME BackendAssumption, BackendInv, NEW c \in Callers, call[c].pc \in Scheduling,
         NEW t \in Tasks, Bind(c, t)
  PROVE  LET k == call[c].review.key IN
         /\ record'[t] = NoRecord /\ \A u \in Tasks \ {t} : record'[u] = record[u]
         /\ record' \in [Tasks -> {None} \cup Records]
         /\ bound'[k] # None /\ bound'[k].task = t
         /\ \A j \in Keys \ {k} : bound'[j] = bound[j]
         /\ bound' \in [Keys -> {None} \cup Bindings]
         /\ UNCHANGED ambiguous /\ lock' = None
<1> DEFINE k == call[c].review.key
           b == [review |-> call[c].review, task |-> t]
<1>1. b \in Bindings /\ b.task = t /\ b # None /\ k \in Keys
  BY HolderKnows DEF Bindings, BackendAssumption
<1>2. record' = [record EXCEPT ![t] = NoRecord] /\ bound' = [bound EXCEPT ![k] = b]
  BY DEF Bind
<1> HIDE DEF b
<1>3. QED
  BY <1>1, <1>2, NoRecordOK DEF Bind, BackendInv, Types

\* A task of the review is in the window, and no record of this process is of it.
LEMMA BindStep ==
  ASSUME BackendAssumption, BackendInv, NEW c \in Callers, call[c].pc \in Scheduling,
         NEW t \in Matches(call[c].review), record[t] = None, Bind(c, t),
         UNCHANGED <<external, life>>
  PROVE  BackendInv'
<1> DEFINE k == call[c].review.key
<1>1. t \in Spent /\ t \in Tasks /\ runtime[t].review = call[c].review
  <2>1. t \in Newest /\ runtime[t].review = call[c].review
    BY DEF Matches
  <2>2. t \in Spent
    BY <2>1 DEF Newest, BackendInv, MemoryOK
  <2>3. QED
    BY <2>1, <2>2 DEF Spent
<1>2. UNCHANGED <<runtime, ledger, life>> /\ Advanced /\ lock = c /\ k \in Keys
  BY NoneAdvanced, HolderKnows DEF external, BackendInv
<1>3. PICK v \in Calls : v.pc = "answered" /\ call' = [call EXCEPT ![c] = v]
  BY <1>1, BindCall DEF BackendInv
<1>4. /\ record'[t] = NoRecord /\ \A u \in Tasks \ {t} : record'[u] = record[u]
      /\ record' \in [Tasks -> {None} \cup Records]
      /\ bound'[k] # None /\ bound'[k].task = t
      /\ \A j \in Keys \ {k} : bound'[j] = bound[j]
      /\ bound' \in [Keys -> {None} \cup Bindings]
      /\ UNCHANGED ambiguous /\ lock' = None
  BY <1>1, BindMemory
<1>5. NothingSpentForgotten'
  <2> SUFFICES ASSUME NEW u \in Spent', runtime'[u].life = life'
               PROVE  LET j == runtime'[u].review.key IN
                      \/ bound'[j] # None /\ (bound'[j].task = u \/ runtime'[bound'[j].task].life < life')
                      \/ ambiguous'[j] # None
    BY DEF NothingSpentForgotten
  <2> DEFINE j == runtime[u].review.key
  <2>1. u \in Spent /\ runtime[u].life = life /\ runtime'[u].review.key = j /\ j \in Keys
    BY <1>2, SpentTyped DEF Spent, BackendInv, PaidTasks, Reviews
  <2>2. CASE j = k
    <3>1. runtime[t].life <= life /\ runtime[t].life \in Nat /\ life \in Nat
      BY <1>1, SpentTyped DEF BackendInv, MemoryOK, Types, PaidTasks, BackendAssumption
    <3>2. runtime[t].life = life => u = t
      BY <1>1, <2>1, <2>2 DEF BackendInv, SpentOnce, OneOfLife
    <3>3. QED
      BY <1>2, <1>4, <2>1, <2>2, <3>1, <3>2
  <2>3. CASE j # k
    <3>1. ~(\E d \in Callers : lock = d /\ At(d, "recheck") /\ call[d].review.key = j)
      BY <1>2, <2>3
    <3>2. QED
      BY <1>2, <1>4, <2>1, <2>3, <3>1 DEF BackendInv, NothingSpentForgotten
  <2>4. QED
    BY <2>2, <2>3
<1>6. \A u \in Tasks : record[u] = None /\ record'[u] # None =>
        u \in Spent /\ record'[u].frozen # "succeeded"
  BY <1>1, <1>4, NoRecordOK DEF BackendAssumption, Complete
<1>7. \A j \in Keys : bound'[j] # None => bound'[j].task \in Spent
  BY <1>1, <1>4 DEF BackendInv, MemoryOK
<1>8. \A u \in Tasks : record[u] # None => record'[u] = record[u]
  BY <1>1, <1>4
<1>9. QED
  BY <1>2, <1>3, <1>4, <1>5, <1>6, <1>7, <1>8, HolderStep DEF BackendInv, Types, Scheduling

LEMMA GoesOnStep ==
  ASSUME BackendAssumption, BackendInv, NEW c \in Callers, call[c].pc \in Scheduling, ~At(c, "recheck"),
         UNCHANGED <<external, memory, lock, life>>,
         \/ Goto(c, "create") /\ Matches(call[c].review) = {}
         \/ Goto(c, "recheck")
  PROVE  BackendInv'
<1>1. UNCHANGED <<runtime, ledger, record, bound, ambiguous, lock, life>> /\ Advanced
  BY NoneAdvanced DEF external, memory, BackendInv
<1>2. PICK v \in Calls : /\ v.pc \in {"create", "recheck"} /\ v.review = call[c].review
                         /\ v.pc = "create" => Matches(call[c].review) = {}
                         /\ call' = [call EXCEPT ![c] = v]
  <2>1. CASE Goto(c, "create") /\ Matches(call[c].review) = {}
    <3>1. PICK v \in Calls : /\ v.pc = "create" /\ v.review = call[c].review
                             /\ call' = [call EXCEPT ![c] = v]
      BY <2>1, CallGoes DEF Pcs, BackendInv
    <3>2. QED
      BY <2>1, <3>1
  <2>2. CASE Goto(c, "recheck")
    <3>1. PICK v \in Calls : /\ v.pc = "recheck" /\ v.review = call[c].review
                             /\ call' = [call EXCEPT ![c] = v]
      BY <2>2, CallGoes DEF Pcs, BackendInv
    <3>2. QED
      BY <3>1
  <2>3. QED
    BY <2>1, <2>2
<1>3. lock = c /\ Free(call[c].review.key) /\ call[c].review \in Reviews
  BY HolderKnows
<1>4. Free(v.review.key)'
  BY <1>1, <1>2, <1>3 DEF Free
<1>5. NothingSpentForgotten'
  BY <1>1, <1>3, ForgottenKept DEF BackendInv, At
<1>6. QED
  BY <1>1, <1>2, <1>3, <1>4, <1>5, HolderStep DEF BackendInv, Types, MemoryOK, Scheduling

LEMMA ReconcileStep ==
  ASSUME BackendAssumption, BackendInv, NEW c \in Callers, Reconcile(c)
  PROVE  BackendInv'
<1> DEFINE matches == Matches(call[c].review)
<1>1. call[c].pc \in {"reconcile", "recheck"} /\ call[c].pc \in Scheduling /\ life' = life
  BY DEF Reconcile, At, Scheduling
<1>2. CASE Poison(c) /\ UNCHANGED external
  BY <1>1, <1>2, NoneAdvanced, PoisonStep DEF external, BackendInv
<1>3. CASE matches = {} /\ UNCHANGED <<external, memory, lock>> /\ At(c, "reconcile") /\ Goto(c, "create")
  BY <1>1, <1>3, GoesOnStep DEF At
<1>4. CASE UNCHANGED external /\ \E t \in matches :
             matches = {t} /\ IF record[t] = None THEN Bind(c, t) ELSE Poison(c)
  <2>1. PICK t \in matches : IF record[t] = None THEN Bind(c, t) ELSE Poison(c)
    BY <1>4
  <2>2. CASE record[t] = None
    BY <1>1, <1>4, <2>1, <2>2, BindStep
  <2>3. CASE record[t] # None
    BY <1>1, <1>2, <1>4, <2>1, <2>3
  <2>4. QED
    BY <2>2, <2>3
<1>5. CASE (\E ts \in SUBSET matches : Cancelled(ts)) /\ Poison(c) /\ UNCHANGED ledger
  <2>1. PICK ts \in SUBSET matches : Cancelled(ts)
    BY <1>5
  <2>2. ts \in SUBSET Spent
    BY DEF Matches, Newest, BackendInv, MemoryOK
  <2>3. Advanced
    BY <2>1, <2>2, CancelledAdvanced DEF BackendInv
  <2>4. QED
    BY <1>1, <1>5, <2>3, PoisonStep
<1>6. QED
  BY <1>1, <1>2, <1>3, <1>4, <1>5 DEF Reconcile

LEMMA RefusedStep ==
  ASSUME BackendAssumption, BackendInv, NEW c \in Callers, At(c, "create"),
         Answer(c, "refused"), lock' = None, UNCHANGED <<external, memory, life>>
  PROVE  BackendInv'
<1>1. UNCHANGED <<runtime, ledger, record, bound, ambiguous, life>> /\ Advanced
  BY NoneAdvanced DEF external, memory, BackendInv
<1>2. PICK v \in Calls : v.pc = "answered" /\ call' = [call EXCEPT ![c] = v]
  BY CallReplies DEF BackendInv
<1>3. call[c].pc = "create" /\ lock = c
  BY HolderKnows DEF At, Scheduling
<1>4. NothingSpentForgotten'
  BY <1>1, <1>3, ForgottenKept DEF BackendInv, At
<1>5. QED
  BY <1>1, <1>2, <1>3, <1>4, HolderStep DEF BackendInv, Types, MemoryOK, Scheduling

\* A task is created, and bound, or looked for because the command failed: the first of its
\* key in this process, and of its review in the window.
LEMMA SpendStep ==
  ASSUME BackendAssumption, BackendInv, NEW c \in Callers, At(c, "create"), NEW t \in Tasks \ Spent,
         NEW status \in {"running", "in_flight"}, Created(t, call[c].review, status),
         \/ status = "running" /\ ledger' = Append(ledger, t)
         \/ LateLanding /\ ledger' = ledger,
         \/ Bind(c, t)
         \/ Goto(c, "recheck") /\ UNCHANGED <<memory, lock>>,
         LateLanding \/ status = "running", life' = life
  PROVE  BackendInv'
<1> DEFINE k == call[c].review.key
           w == [review |-> call[c].review, status |-> status, genuine |-> FALSE, life |-> life]
<1>1. /\ call[c].pc = "create" /\ lock = c /\ c # None /\ call[c].review \in Reviews /\ k \in Keys
      /\ Free(k) /\ \A d \in Callers \ {c} : call[d].pc \notin Scheduling
      /\ ~LateLanding => Matches(call[c].review) = {}
  BY HolderKnows DEF At, Scheduling, BackendInv, LockOK
<1>2. \A u \in Spent : runtime[u].life = life => runtime[u].review.key # k
  BY <1>1, NothingBefore
<1>3. /\ w \in PaidTasks /\ w # None /\ w.review = call[c].review /\ w.life = life
      /\ w.status = status /\ runtime' = [runtime EXCEPT ![t] = w]
  <2>1. life \in 0..MaxRestarts /\ status \in Statuses
    BY DEF BackendInv, Types, Statuses
  <2>2. w \in PaidTasks
    BY <1>1, <2>1 DEF PaidTasks
  <2>3. QED
    BY <2>2 DEF Created, BackendAssumption
<1> HIDE DEF w
<1>4. /\ runtime'[t] = w /\ \A u \in Tasks \ {t} : runtime'[u] = runtime[u]
      /\ runtime' \in [Tasks -> {None} \cup PaidTasks]
  BY <1>3 DEF BackendInv, Types
<1>5. Spent' = Spent \cup {t} /\ \A u \in Spent : u \in Tasks /\ u # t
  BY <1>3, <1>4 DEF Spent
<1>6. /\ ledger \in Seq(Tasks) /\ ledger' \in Seq(Tasks)
      /\ \A i \in 1..Len(ledger) : ledger[i] \in Spent
      /\ ~LateLanding => ledger' = Append(ledger, t)
      /\ \A i \in 1..Len(ledger') : ledger'[i] \in Spent \cup {t}
  <2>1. ledger \in Seq(Tasks) /\ \A i \in 1..Len(ledger) : ledger[i] \in Spent
    BY DEF BackendInv, Types, MemoryOK
  <2>2. CASE ledger' = Append(ledger, t)
    BY <2>1, <2>2
  <2>3. CASE LateLanding /\ ledger' = ledger
    BY <2>1, <2>3
  <2>4. QED
    BY <2>2, <2>3
<1>7. PICK v \in Calls : /\ v.pc \in {"answered", "recheck"} /\ call' = [call EXCEPT ![c] = v]
                         /\ v.pc = "answered" => Bind(c, t)
                         /\ v.pc = "recheck" => v.review = call[c].review /\ UNCHANGED <<memory, lock>>
  <2>1. CASE Bind(c, t)
    <3>1. PICK v \in Calls : v.pc = "answered" /\ call' = [call EXCEPT ![c] = v]
      BY <2>1, BindCall DEF BackendInv
    <3>2. QED
      BY <2>1, <3>1
  <2>2. CASE Goto(c, "recheck") /\ UNCHANGED <<memory, lock>>
    <3>1. PICK v \in Calls : /\ v.pc = "recheck" /\ v.review = call[c].review
                             /\ call' = [call EXCEPT ![c] = v]
      BY <2>2, CallGoes DEF Pcs, BackendInv
    <3>2. QED
      BY <2>2, <3>1
  <2>3. QED
    BY <2>1, <2>2
<1>8. /\ call' \in [Callers -> Calls] /\ call'[c] = v
      /\ \A d \in Callers \ {c} : call'[d] = call[d]
  BY <1>7, CallUpdate DEF BackendInv
<1>9. /\ \A u \in Tasks \ {t} : record'[u] = record[u]
      /\ record'[t] # None => record'[t].frozen = None
      /\ record' \in [Tasks -> {None} \cup Records]
      /\ \A j \in Keys \ {k} : bound'[j] = bound[j]
      /\ bound' \in [Keys -> {None} \cup Bindings]
      /\ UNCHANGED ambiguous /\ lock' \in {None, c}
      /\ v.pc = "answered" => bound'[k] # None /\ bound'[k].task = t /\ lock' = None
      /\ v.pc = "recheck" => UNCHANGED bound /\ lock' = c
  <2>1. CASE v.pc = "answered"
    BY <1>1, <1>7, <2>1, BindMemory, NoRecordOK DEF Scheduling
  <2>2. CASE v.pc = "recheck"
    <3>1. record[t] = None
      BY DEF BackendInv, MemoryOK
    <3>2. QED
      BY <1>1, <1>7, <2>2, <3>1 DEF memory, BackendInv, Types
  <2>3. QED
    BY <1>7, <2>1, <2>2
<1>10. Types'
  BY <1>4, <1>6, <1>8, <1>9 DEF BackendInv, Types
<1>11. MemoryOK'
  <2>1. \A u \in Tasks : record'[u] # None => u \in Spent'
    BY <1>5, <1>9 DEF BackendInv, MemoryOK
  <2>2. \A j \in Keys : bound'[j] # None => bound'[j].task \in Spent'
    BY <1>5, <1>7, <1>9 DEF BackendInv, MemoryOK
  <2>3. \A u \in Spent' : runtime'[u].life <= life'
    BY <1>3, <1>4, <1>5 DEF BackendInv, MemoryOK, Types, BackendAssumption
  <2>4. ~LateLanding => \A u \in Spent' : runtime'[u].status # "in_flight"
    BY <1>3, <1>4, <1>5 DEF BackendInv, MemoryOK
  <2>5. QED
    BY <1>5, <1>6, <2>1, <2>2, <2>3, <2>4 DEF MemoryOK
<1>12. LockOK'
  <2> SUFFICES ASSUME NEW d \in Callers
               PROVE  /\ call'[d].pc \in Scheduling <=> lock' = d
                      /\ call'[d].pc \in Scheduling \cup {"schedule"} => call'[d].review \in Reviews
                      /\ lock' = d => Free(call[d].review.key)'
                      /\ call'[d].pc # "create"
    BY DEF LockOK, At
  <2>1. CASE d # c
    BY <1>1, <1>8, <1>9, <2>1 DEF BackendInv, LockOK, Scheduling, BackendAssumption
  <2>2. CASE d = c
    <3>1. v.pc = "recheck" => Free(call[c].review.key)'
      BY <1>1, <1>7, <1>8, <1>9 DEF Free
    <3>2. QED
      BY <1>1, <1>7, <1>8, <1>9, <2>2, <3>1 DEF Scheduling
  <2>3. QED
    BY <2>1, <2>2
<1>13. \A d \in Callers : Polling(d)' =>
         /\ Polling(d) /\ call'[d] = call[d] /\ call[d].task \in Tasks \ {t} /\ call[d].task \in Spent
         /\ record[call[d].task] # None
         /\ record'[call[d].task] = record[call[d].task] /\ runtime'[call[d].task] = runtime[call[d].task]
  BY <1>4, <1>5, <1>7, <1>8, <1>9 DEF Polling, BackendInv, PollsOK, MemoryOK
<1>14. PollsOK'
  BY <1>13 DEF BackendInv, PollsOK, At, Polling
<1>15. SpentOnce'
  BY <1>2, <1>3, <1>4, <1>5 DEF BackendInv, SpentOnce, OneOfLife
<1>16. NothingSpentForgotten'
  <2> SUFFICES ASSUME NEW u \in Spent', runtime'[u].life = life'
               PROVE  LET j == runtime'[u].review.key IN
                      \/ bound'[j] # None /\ (bound'[j].task = u \/ runtime'[bound'[j].task].life < life')
                      \/ ambiguous'[j] # None
                      \/ \E d \in Callers : lock' = d /\ At(d, "recheck")' /\ call'[d].review.key = j
    BY DEF NothingSpentForgotten
  <2>1. CASE u = t
    <3>1. runtime'[u].review.key = k
      BY <1>3, <1>4, <2>1
    <3>2. CASE v.pc = "answered"
      BY <1>9, <2>1, <3>1, <3>2
    <3>3. CASE v.pc = "recheck"
      BY <1>7, <1>8, <1>9, <3>1, <3>3 DEF At
    <3>4. QED
      BY <1>7, <3>2, <3>3
  <2>2. CASE u # t
    <3> DEFINE j == runtime[u].review.key
    <3>1. u \in Spent /\ runtime'[u] = runtime[u] /\ runtime[u].life = life /\ j # k
      BY <1>2, <1>4, <1>5, <2>2
    <3>2. j \in Keys
      BY <3>1, SpentTyped DEF Spent, BackendInv, PaidTasks, Reviews
    <3>3. ~(\E d \in Callers : lock = d /\ At(d, "recheck") /\ call[d].review.key = j)
      BY <1>1, <3>1
    <3>4. \/ bound[j] # None /\ (bound[j].task = u \/ runtime[bound[j].task].life < life)
          \/ ambiguous[j] # None
      BY <3>1, <3>3 DEF BackendInv, NothingSpentForgotten
    <3>5. bound'[j] = bound[j] /\ (bound[j] # None => runtime'[bound[j].task] = runtime[bound[j].task])
      BY <1>4, <1>5, <1>9, <3>1, <3>2 DEF BackendInv, MemoryOK
    <3>6. ambiguous[j] # None => ambiguous'[j] # None
      BY <1>9, <3>1
    <3>7. bound[j] # None => bound'[j] # None
      BY <3>5
    <3>8. runtime'[u].review.key = j /\ life' = life
      BY <1>9, <3>1
    <3>9. \/ bound'[j] # None /\ (bound'[j].task = u \/ runtime'[bound'[j].task].life < life')
          \/ ambiguous'[j] # None
      BY <3>4, <3>5, <3>6, <3>7, <3>8
    <3>10. QED
      BY <3>8, <3>9
  <2>3. QED
    BY <2>1, <2>2
<1>17. SuccessIsTrusted'
  BY <1>4, <1>9 DEF BackendInv, SuccessIsTrusted, BackendAssumption, Complete
<1>18. ASSUME ~LateLanding PROVE PaidAgainOnlyOutOfWindow'
  <2>1. /\ ledger' = Append(ledger, t) /\ Len(ledger) \in Nat /\ Len(ledger') = Len(ledger) + 1
        /\ ledger'[Len(ledger) + 1] = t /\ \A i \in 1..Len(ledger) : ledger'[i] = ledger[i]
    BY <1>6, <1>18
  <2>2. \A i \in 1..Len(ledger) : runtime'[ledger'[i]] = runtime[ledger[i]]
    BY <1>4, <1>5, <1>6, <2>1
  <2> SUFFICES ASSUME NEW i \in 1..Len(ledger'), NEW j \in 1..Len(ledger'), i < j,
                      runtime'[ledger'[i]].review = runtime'[ledger'[j]].review
               PROVE  j - i > Window
    BY DEF PaidAgainOnlyOutOfWindow
  <2>3. CASE j <= Len(ledger)
    <3>1. i \in 1..Len(ledger) /\ j \in 1..Len(ledger)
      BY <2>1, <2>3
    <3>2. runtime[ledger[i]].review = runtime[ledger[j]].review
      BY <2>2, <3>1
    <3>3. QED
      BY <1>18, <3>1, <3>2 DEF BackendInv, PaidAgainOnlyOutOfWindow
  <2>4. CASE j = Len(ledger) + 1
    <3>1. i \in 1..Len(ledger) /\ runtime[ledger[i]].review = call[c].review
      BY <1>3, <1>4, <2>1, <2>2, <2>4
    <3>2. ledger[i] \notin Newest
      BY <1>1, <1>18, <3>1 DEF Matches
    <3>3. ~(i > Len(ledger) - Window)
      BY <3>1, <3>2 DEF Newest
    <3>4. QED
      BY <2>1, <2>4, <3>1, <3>3 DEF BackendAssumption
  <2>5. QED
    BY <2>1, <2>3, <2>4
<1>19. QED
  BY <1>10, <1>11, <1>12, <1>14, <1>15, <1>16, <1>17, <1>18 DEF BackendInv

LEMMA CreateStep ==
  ASSUME BackendAssumption, BackendInv, NEW c \in Callers, Create(c)
  PROVE  BackendInv'
<1>1. At(c, "create") /\ life' = life
  BY DEF Create
<1>2. CASE Answer(c, "refused") /\ lock' = None /\ UNCHANGED <<external, memory>>
  BY <1>1, <1>2, RefusedStep
<1>3. CASE Goto(c, "recheck") /\ UNCHANGED <<external, memory, lock>>
  BY <1>1, <1>3, GoesOnStep DEF At, Scheduling
<1>4. CASE \E t \in Tasks \ Spent :
             \/ /\ Created(t, call[c].review, "running")
                /\ ledger' = Append(ledger, t)
                /\ \/ Bind(c, t)
                   \/ Goto(c, "recheck") /\ UNCHANGED <<memory, lock>>
             \/ /\ LateLanding
                /\ Created(t, call[c].review, "in_flight")
                /\ Goto(c, "recheck")
                /\ UNCHANGED <<ledger, memory, lock>>
  BY <1>1, <1>4, SpendStep
<1>5. QED
  BY <1>2, <1>3, <1>4 DEF Create

-----------------------------------------------------------------------------
(* The theorems.                                                           *)

LEMMA InitBackendInv == ASSUME BackendAssumption, BackendInit PROVE BackendInv
<1>1. \A c \in Callers : call[c] = Idle /\ call[c].pc = "idle"
  BY IdleCall DEF BackendInit
<1>2. Types
  BY IdleCall DEF Types, BackendInit, BackendAssumption
<1>3. Spent = {} /\ ledger = << >>
  BY DEF Spent, BackendInit
<1>4. MemoryOK /\ SpentOnce /\ NothingSpentForgotten /\ SuccessIsTrusted /\ PaidAgainOnlyOutOfWindow
  BY <1>3 DEF MemoryOK, SpentOnce, NothingSpentForgotten, SuccessIsTrusted,
              PaidAgainOnlyOutOfWindow, BackendInit
<1>5. LockOK /\ PollsOK
  BY <1>1 DEF LockOK, PollsOK, Polling, At, Scheduling, BackendInit, BackendAssumption
<1>6. QED
  BY <1>2, <1>4, <1>5 DEF BackendInv

LEMMA StepBackendInv == ASSUME BackendAssumption, BackendInv, [BackendNext]_backendVars PROVE BackendInv'
<1>1. CASE UNCHANGED backendVars
  <2>1. UNCHANGED <<memory, lock, call, life, ledger>> /\ Advanced
    BY <1>1, NoneAdvanced DEF backendVars, external, BackendInv
  <2>2. QED
    BY <2>1, RuntimeStep
<1>2. ASSUME NEW c \in Callers, NEW review \in Reviews, Schedule(c, review) PROVE BackendInv'
  BY <1>2, ScheduleStep
<1>3. ASSUME NEW c \in Callers, NEW t \in Tasks, NEW waits \in BOOLEAN, Poll(c, t, waits)
      PROVE  BackendInv'
  BY <1>3, PollStep
<1>4. ASSUME NEW c \in Callers, Step(c) \/ Deadline(c) \/ Return(c) PROVE BackendInv'
  BY <1>4, LookupStep, ReconcileStep, CreateStep, LookStep, ShowStep, ValidateStep, ExpireStep,
     DeadlineStep, ReturnStep DEF Step
<1>5. ASSUME NEW t \in Tasks, Land(t) \/ Progress(t) PROVE BackendInv'
  BY <1>5, LandStep, ProgressStep
<1>6. CASE Restart
  BY <1>6, RestartStep
<1>7. QED
  BY <1>1, <1>2, <1>3, <1>4, <1>5, <1>6 DEF BackendNext

\* The invariant holds in every behaviour: threads that race, commands that fail, creations
\* that land late, and restarts.
THEOREM BackendInvHolds == ASSUME BackendAssumption PROVE BackendSpec => []BackendInv
<1>1. BackendInit => BackendInv
  BY InitBackendInv
<1>2. BackendInv /\ [BackendNext]_backendVars => BackendInv'
  BY StepBackendInv
<1>3. QED
  BY <1>1, <1>2, PTL DEF BackendSpec

\* A set with no two elements has at most one.
LEMMA AtMostOne ==
  ASSUME NEW S, \A t, u \in S : t = u
  PROVE  Cardinality(S) <= 1
<1>1. CASE S = {}
  BY <1>1, FS_EmptySet
<1>2. CASE S # {}
  <2>1. PICK t : t \in S
    BY <1>2
  <2>2. S = {t}
    BY <2>1
  <2>3. Cardinality(S) = 1
    BY <2>2, FS_Singleton
  <2>4. QED
    BY <2>3
<1>3. QED
  BY <1>1, <1>2

LEMMA InvariantMeans == ASSUME BackendAssumption, BackendInv PROVE PaysOnce
<1>1. BackendTypeOK
  <2>1. ledger \in Seq(Spent)
    BY DEF BackendInv, Types, MemoryOK
  <2>2. \A c \in Callers :
          /\ call[c].pc \in Pcs
          /\ call[c].pc \in {"schedule", "reconcile", "create", "recheck"} => call[c].review \in Reviews
          /\ call[c].pc \in {"reconcile", "create", "recheck"} <=> lock = c
          /\ Polling(c) => record[call[c].task] # None
    BY DEF BackendInv, Types, Calls, LockOK, PollsOK, Scheduling
  <2>3. QED
    BY <2>1, <2>2 DEF BackendTypeOK, BackendInv, Types
<1>2. SpendsOncePerKey
  BY AtMostOne DEF SpendsOncePerKey, BackendInv, SpentOnce, OneOfLife
<1>3. QED
  BY <1>1, <1>2 DEF PaysOnce, BackendInv

\* One process never pays for two tasks with one key, whatever becomes of its commands, and
\* never forgets one it has paid for; a success is a genuine review whose cost is known; and
\* where every failed creation has failed for good, a review is paid for again only when its
\* first task is out of the window (schedule_task, _reconcile_task, get_task_result).
THEOREM PaidOnceAndKept == ASSUME BackendAssumption PROVE BackendSpec => []PaysOnce
<1>1. BackendInv => PaysOnce
  BY InvariantMeans
<1>2. QED
  BY <1>1, BackendInvHolds, PTL

\* Who replaces its own call, and has not just found the task t without a result, adds
\* nobody to those that race for it.
LEMMA RacingShrinks ==
  ASSUME Types, NEW t \in Tasks, NEW c \in Callers,
         \A d \in Callers \ {c} : call'[d] = call[d],
         call'[c].pc \in {"show", "validate"} /\ call'[c].task = t => c \in Racing(t)
  PROVE  Racing(t)' \subseteq Racing(t)
BY DEF Racing

\* What a thread that looks at the runtime does to its call and to the record of its task:
\* where it writes a result, it is answered.
LEMMA RacerWrites ==
  ASSUME BackendAssumption, BackendInv, NEW c \in Callers, Show(c) \/ Validate(c)
  PROVE  \E v \in Calls, w \in Records :
           /\ call' = [call EXCEPT ![c] = v]
           /\ record' = [record EXCEPT ![call[c].task] = w]
           /\ v.pc # "show" /\ (v.pc = "validate" => v.task = call[c].task)
           /\ v.pc = "answered" \/ w.frozen = record[call[c].task].frozen
           /\ record[call[c].task].frozen # None => w.frozen # None
<1> DEFINE u == call[c].task
<1>1. /\ Types /\ Polling(c) /\ u \in Tasks
      /\ record[u] \in Records /\ record \in [Tasks -> {None} \cup Records]
  BY DEF Show, Validate, At, BackendInv, Types, PollsOK, Polling
<1>2. CASE UNCHANGED record /\ \E v \in Calls : /\ v.pc # "show" /\ v.pc # "validate"
                                                /\ call' = [call EXCEPT ![c] = v]
  <2>1. record' = [record EXCEPT ![u] = record[u]]
    BY <1>1, <1>2
  <2>2. QED
    BY <1>1, <1>2, <2>1
<1>3. ASSUME NEW r \in Complete, Freeze(c, r)
      PROVE  \E v \in Calls, w \in Records :
               /\ call' = [call EXCEPT ![c] = v] /\ record' = [record EXCEPT ![u] = w]
               /\ v.pc = "answered" /\ w.frozen # None
  <2>1. /\ [record[u] EXCEPT !.frozen = r] \in Records /\ [record[u] EXCEPT !.frozen = r].frozen = r
        /\ record' = [record EXCEPT ![u] = [record[u] EXCEPT !.frozen = r]]
        /\ \E v \in Calls : v.pc = "answered" /\ call' = [call EXCEPT ![c] = v]
    BY <1>1, <1>3, FrozenRecord
  <2>2. r # None
    BY DEF BackendAssumption
  <2>3. QED
    BY <2>1, <2>2
<1>4. ASSUME NEW w \in Records, w.frozen = record[u].frozen, record' = [record EXCEPT ![u] = w],
             Pending(c) \/ Goto(c, "validate")
      PROVE  \E v \in Calls :
               /\ call' = [call EXCEPT ![c] = v]
               /\ v.pc # "show" /\ (v.pc = "validate" => v.task = u)
  BY <1>1, <1>4, PendingCall, CallGoes DEF Pcs
<1>5. CASE CommandFails(c)
  <2>1. CASE Goto(c, "expire") /\ UNCHANGED memory
    BY <1>1, <1>2, <2>1, CallGoes DEF Pcs, memory
  <2>2. CASE Freeze(c, "failed")
    BY <1>3, <2>2 DEF Complete
  <2>3. QED
    BY <1>5, <2>1, <2>2 DEF CommandFails
<1>6. CASE Freeze(c, "failed")
  BY <1>3, <1>6 DEF Complete
<1>7. CASE Pending(c) /\ UNCHANGED memory
  BY <1>1, <1>2, <1>7, PendingCall DEF memory
<1>8. CASE /\ record' = [record EXCEPT ![u].terminal = TRUE,
                                       ![u].costing = @ \/ runtime[u].status # "done"]
           /\ Pending(c) \/ Goto(c, "validate")
  <2> DEFINE w == [record[u] EXCEPT !.terminal = TRUE, !.costing = @ \/ runtime[u].status # "done"]
  <2>1. w \in Records /\ w.frozen = record[u].frozen /\ record' = [record EXCEPT ![u] = w]
    BY <1>1, <1>8 DEF Records
  <2> HIDE DEF w
  <2>2. QED
    BY <1>4, <1>8, <2>1
<1>9. CASE record' = [record EXCEPT ![u].costing = TRUE] /\ Pending(c)
  <2> DEFINE w == [record[u] EXCEPT !.costing = TRUE]
  <2>1. w \in Records /\ w.frozen = record[u].frozen /\ record' = [record EXCEPT ![u] = w]
    BY <1>1, <1>9 DEF Records
  <2> HIDE DEF w
  <2>2. QED
    BY <1>4, <1>9, <2>1
<1>10. CASE /\ record' = [record EXCEPT ![u].costing = FALSE, ![u].frozen = "succeeded"]
            /\ Answer(c, "succeeded")
  <2> DEFINE w == [record[u] EXCEPT !.costing = FALSE, !.frozen = "succeeded"]
  <2>1. w \in Records /\ w.frozen = "succeeded" /\ record' = [record EXCEPT ![u] = w]
    BY <1>1, <1>10 DEF Records, Complete
  <2>2. "succeeded" # None /\ "succeeded" \in Complete
    BY DEF BackendAssumption, Complete
  <2>3. PICK v \in Calls : v.pc = "answered" /\ call' = [call EXCEPT ![c] = v]
    BY <1>1, <1>10, <2>2, CallReplies
  <2> HIDE DEF w
  <2>4. QED
    BY <2>1, <2>2, <2>3
<1>11. CASE Show(c)
  <2>1. \/ CommandFails(c) \/ Freeze(c, "failed") \/ (Pending(c) /\ UNCHANGED memory)
        \/ /\ record' = [record EXCEPT ![u].terminal = TRUE,
                                       ![u].costing = @ \/ runtime[u].status # "done"]
           /\ Pending(c) \/ Goto(c, "validate")
    BY <1>11 DEF Show
  <2>2. QED
    BY <1>5, <1>6, <1>7, <1>8, <2>1
<1>12. CASE Validate(c)
  <2>1. \/ CommandFails(c) \/ Freeze(c, "failed")
        \/ record' = [record EXCEPT ![u].costing = TRUE] /\ Pending(c)
        \/ /\ record' = [record EXCEPT ![u].costing = FALSE, ![u].frozen = "succeeded"]
           /\ Answer(c, "succeeded")
    BY <1>12 DEF Validate
  <2>2. QED
    BY <1>5, <1>6, <1>9, <1>10, <2>1
<1>13. QED
  BY <1>11, <1>12

\* Those that write a result leave the race, and those that stay in it write none.
LEMMA RacerStep ==
  ASSUME BackendAssumption, BackendInv, NEW c \in Callers, Show(c) \/ Validate(c),
         NEW t \in Tasks, record[t] # None, record[t].frozen # None
  PROVE  /\ record'[t] # None /\ record'[t].frozen # None
         /\ Racing(t)' \subseteq Racing(t)
         /\ record'[t].frozen # record[t].frozen => Racing(t)' # Racing(t)
<1> DEFINE u == call[c].task
<1>1. /\ Types /\ call[c].pc \in {"show", "validate"} /\ u \in Tasks
      /\ record \in [Tasks -> {None} \cup Records] /\ None \notin Records
  BY DEF Show, Validate, At, BackendInv, Types, PollsOK, Polling, BackendAssumption
<1>2. PICK v \in Calls, w \in Records :
        /\ call' = [call EXCEPT ![c] = v]
        /\ record' = [record EXCEPT ![u] = w]
        /\ v.pc # "show" /\ (v.pc = "validate" => v.task = u)
        /\ v.pc = "answered" \/ w.frozen = record[u].frozen
        /\ record[u].frozen # None => w.frozen # None
  BY RacerWrites
<1>3. /\ call'[c] = v /\ (\A d \in Callers \ {c} : call'[d] = call[d])
      /\ record'[u] = w /\ (\A x \in Tasks \ {u} : record'[x] = record[x])
  BY <1>1, <1>2, CallUpdate
<1>4. Racing(t)' \subseteq Racing(t)
  <2>1. v.pc \in {"show", "validate"} /\ v.task = t => c \in Racing(t)
    BY <1>1, <1>2 DEF Racing
  <2>2. QED
    BY <1>1, <1>3, <2>1, RacingShrinks
<1>5. CASE t = u
  <2>1. record'[t].frozen # record[t].frozen => c \notin Racing(t)' /\ c \in Racing(t)
    BY <1>1, <1>2, <1>3, <1>5 DEF Racing
  <2>2. QED
    BY <1>1, <1>2, <1>3, <1>4, <1>5, <2>1
<1>6. CASE t # u
  BY <1>3, <1>4, <1>6
<1>7. QED
  BY <1>5, <1>6

\* A frozen result changes by a wait past its deadline, or once by each thread that was
\* looking at the task when it froze; nobody joins them (get_task_result, wait_for_task).
LEMMA FrozenStep ==
  ASSUME BackendAssumption, BackendInv, [BackendNext]_backendVars
  PROVE  FrozenSettles
<1> SUFFICES ASSUME NEW t \in Tasks, record[t] # None, record[t].frozen # None, life' = life
             PROVE  /\ record'[t] # None /\ record'[t].frozen # None
                    /\ Racing(t)' \subseteq Racing(t)
                    /\ record'[t].frozen \in {record[t].frozen, "timed_out"} \/ Racing(t)' # Racing(t)
  BY DEF FrozenSettles
<1> DEFINE Stands == /\ record'[t] # None /\ record'[t].frozen # None
                     /\ Racing(t)' \subseteq Racing(t)
                     /\ record'[t].frozen \in {record[t].frozen, "timed_out"} \/ Racing(t)' # Racing(t)
<1>1. /\ Types /\ record[t] \in Records /\ record \in [Tasks -> {None} \cup Records] /\ life \in Nat
      /\ None \notin Records /\ "timed_out" # None /\ call \in [Callers -> Calls]
  BY DEF BackendInv, Types, BackendAssumption, Complete
<1>2. ASSUME NEW c \in Callers, NEW v, call' = [call EXCEPT ![c] = v], v.pc \notin {"show", "validate"},
             record'[t] = record[t]
      PROVE  Stands
  <2>1. call'[c] = v /\ \A d \in Callers \ {c} : call'[d] = call[d]
    BY <1>1, <1>2
  <2>2. Racing(t)' \subseteq Racing(t)
    BY <1>1, <1>2, <2>1, RacingShrinks
  <2>3. QED
    BY <1>1, <1>2, <2>2
<1> HIDE DEF Stands
<1>3. ASSUME NEW c \in Callers, NEW pc, Goto(c, pc), pc \notin {"show", "validate"},
             record'[t] = record[t]
      PROVE  Stands
  <2> DEFINE v == [call[c] EXCEPT !.pc = pc]
  <2>1. v.pc = pc /\ call' = [call EXCEPT ![c] = v]
    BY <1>1, <1>3 DEF Goto, Calls
  <2> HIDE DEF v
  <2>2. QED
    BY <1>2, <1>3, <2>1
<1>4. ASSUME NEW c \in Callers, NEW reply, Answer(c, reply), record'[t] = record[t]
      PROVE  Stands
  <2> DEFINE v == [call[c] EXCEPT !.pc = "answered", !.reply = reply]
  <2>1. v.pc = "answered" /\ call' = [call EXCEPT ![c] = v]
    BY <1>1, <1>4 DEF Answer, Calls
  <2> HIDE DEF v
  <2>2. QED
    BY <1>2, <1>4, <2>1
<1>5. ASSUME NEW c \in Callers, NEW u \in Tasks, Bind(c, u), record[u] = None
      PROVE  Stands
  <2>1. record'[t] = record[t]
    BY <1>1, <1>5 DEF Bind
  <2> DEFINE v == [call[c] EXCEPT !.pc = "answered", !.reply = "scheduled", !.task = u]
  <2>2. v.pc = "answered" /\ call' = [call EXCEPT ![c] = v]
    BY <1>1, <1>5 DEF Bind, Calls
  <2> HIDE DEF v
  <2>3. QED
    BY <1>2, <2>1, <2>2
<1>6. ASSUME NEW c \in Callers, Reconcile(c) PROVE Stands
  <2>1. Matches(call[c].review) \subseteq Tasks
    BY DEF Matches, Newest, BackendInv, Types
  <2>2. QED
    BY <1>3, <1>4, <1>5, <1>6, <2>1 DEF Reconcile, Poison, memory
<1>7. ASSUME NEW c \in Callers, Create(c) PROVE Stands
  <2>1. \A u \in Tasks \ Spent : record[u] = None
    BY DEF BackendInv, MemoryOK
  <2>2. QED
    BY <1>3, <1>4, <1>5, <1>7, <2>1 DEF Create, memory
<1>8. ASSUME NEW c \in Callers, Show(c) \/ Validate(c) PROVE Stands
  BY <1>8, RacerStep DEF Stands
<1>9. ASSUME NEW c \in Callers, Expire(c) PROVE Stands
  <2>1. record' = [record EXCEPT ![call[c].task].cancelled = TRUE, ![call[c].task].frozen = "timed_out"]
    BY <1>9 DEF Expire
  <2>2. record'[t] # None /\ record'[t].frozen \in {record[t].frozen, "timed_out"}
    <3>1. CASE call[c].task = t
      BY <1>1, <2>1, <3>1 DEF Records, Complete
    <3>2. CASE call[c].task # t
      BY <1>1, <2>1, <3>2
    <3>3. QED
      BY <3>1, <3>2
  <2>3. Racing(t)' \subseteq Racing(t)
    BY <1>1, <1>9, RacingShrinks DEF Expire, Answer, Calls
  <2>4. QED
    BY <1>1, <2>2, <2>3 DEF Stands
<1>10. ASSUME NEW c \in Callers, Look(c) PROVE Stands
  <2>1. UNCHANGED record
    BY <1>10 DEF Look, memory
  <2>2. CASE Goto(c, "expire") \/ Answer(c, record[call[c].task].frozen)
    BY <1>3, <1>4, <2>1, <2>2
  <2>3. CASE ~IsFrozen(call[c].task) /\ Goto(c, "show")
    <3>1. call[c].task # t
      BY <2>3 DEF IsFrozen
    <3>2. /\ call'[c].task # t /\ \A d \in Callers \ {c} : call'[d] = call[d]
      BY <1>1, <2>3, <3>1 DEF Goto, Calls
    <3>3. Racing(t)' \subseteq Racing(t)
      BY <1>1, <3>2, RacingShrinks
    <3>4. QED
      BY <1>1, <2>1, <3>3 DEF Stands
  <2>4. QED
    BY <1>10, <2>2, <2>3 DEF Look
<1>11. ASSUME NEW c \in Callers, Deadline(c) PROVE Stands
  <2>1. /\ call'[c].pc = call[c].pc /\ call'[c].task = call[c].task
        /\ \A d \in Callers \ {c} : call'[d] = call[d]
    BY <1>1, <1>11 DEF Deadline, Calls
  <2>2. Racing(t)' \subseteq Racing(t)
    BY <1>1, <2>1, RacingShrinks DEF Racing
  <2>3. QED
    BY <1>1, <1>11, <2>2 DEF Deadline, memory, Stands
<1>12. ASSUME NEW c \in Callers,
              \/ \E review \in Reviews : Schedule(c, review)
              \/ \E u \in Tasks, waits \in BOOLEAN : Poll(c, u, waits)
              \/ Lookup(c) \/ Return(c)
       PROVE  Stands
  <2>1. UNCHANGED record
    BY <1>12 DEF Schedule, Poll, Lookup, Return, memory
  <2>2. \A d \in Callers \ {c} : call'[d] = call[d]
    BY <1>1, <1>12 DEF Schedule, Poll, Lookup, Return, Goto, Answer
  <2>3. call'[c].pc \notin {"show", "validate"}
    <3>1. CASE \E review \in Reviews : Schedule(c, review)
      BY <1>1, <3>1 DEF Schedule, Idle
    <3>2. CASE \E u \in Tasks, waits \in BOOLEAN : Poll(c, u, waits)
      BY <1>1, <3>2 DEF Poll, Idle
    <3>3. CASE Lookup(c)
      BY <1>1, <3>3 DEF Lookup, Goto, Answer, Calls
    <3>4. CASE Return(c)
      BY <1>1, <3>4 DEF Return, Idle
    <3>5. QED
      BY <1>12, <3>1, <3>2, <3>3, <3>4
  <2>4. Racing(t)' \subseteq Racing(t)
    BY <1>1, <2>2, <2>3, RacingShrinks
  <2>5. QED
    BY <1>1, <2>1, <2>4 DEF Stands
<1>13. ASSUME UNCHANGED <<record, call>> PROVE Stands
  BY <1>1, <1>13 DEF Racing, Stands
<1>14. ASSUME NEW u \in Tasks, Land(u) \/ Progress(u) PROVE Stands
  BY <1>13, <1>14 DEF Land, Progress, memory
<1>15. ~Restart
  BY <1>1 DEF Restart
<1>16. CASE UNCHANGED backendVars
  BY <1>13, <1>16 DEF backendVars, memory, Stands
<1>17. CASE BackendNext
  BY <1>6, <1>7, <1>8, <1>9, <1>10, <1>11, <1>12, <1>14, <1>15, <1>17 DEF BackendNext, Step, Stands
<1>18. QED
  BY <1>16, <1>17

THEOREM FrozenStands ==
  ASSUME BackendAssumption PROVE BackendSpec => [][FrozenSettles]_backendVars
<1>1. BackendInv /\ [BackendNext]_backendVars => [FrozenSettles]_backendVars
  BY FrozenStep
<1>2. QED
  BY <1>1, BackendInvHolds, PTL DEF BackendSpec
-----------------------------------------------------------------------------
(* The trusted result: the inductive invariant.                            *)

\* The receipt of a finalize that ran with the pinned arguments.
Reached(k) ==
  /\ journal[k].tool = "finalize"
  /\ journal[k].args = pinned
  /\ journal[k].status \in {"ok", "mismatch"}

ServerOK ==
  /\ verdict # None => pinned # None /\ verdict = pinned.payload
  /\ pending # None => pending = pinned
  /\ pinned # None => \E k \in 1..Len(journal) : Reached(k)

FinalizeOK(r) ==
  /\ pinned # None
  /\ r.args \in Args
  /\ r.digest = r.args.digest
  /\ \/ /\ r.status = "ok"
        /\ r.digest = Prepared
        /\ r.args.payload = pinned.payload
        /\ r.out = pinned.payload
        /\ verdict = pinned.payload
     \/ r.status = "mismatch" /\ r.digest # Prepared
     \/ r.status = "transport" /\ r.args # pinned

ReceiptOK(r) ==
  \/ r.tool = "prepare" /\ r.digest = Prepared /\ r.status \in {"ok", "incomplete"}
  \/ r.tool = "finalize" /\ FinalizeOK(r)

JournalOK ==
  /\ \A i \in 1..Len(journal) : ReceiptOK(journal[i])
  /\ Len(journal) > 0 => journal[1].tool = "prepare"
  /\ \A i \in 1..Len(journal) :
       journal[i].status = "transport" => \E k \in 1..(i - 1) : Reached(k)

\* A row is the copy of the one its call wrote, and so are those between them.
CopiesOK ==
  \A j \in 1..Len(log) :
    /\ log[j].call \in 0..(j - 1)
    /\ \A k \in (log[j].call + 1)..j : log[k] = log[j]

HasReceipt(args) ==
  \E k \in 1..Len(journal) : journal[k].tool = "finalize" /\ journal[k].args = args

FinalizeRowOK(r) ==
  /\ pinned # None
  /\ r.args \in Args
  /\ HasReceipt(r.args)
  /\ \/ r.seen = "transport"
     \/ r.seen = "digest" /\ r.args = pinned /\ pinned.digest # Prepared
     \/ r.seen = "ok" /\ r.args = pinned /\ pinned.digest = Prepared /\ verdict = pinned.payload

RowOK(r) ==
  \/ r.tool = "prepare"
  \/ r.tool = "lookup" /\ (r.seen = "ok" => r.args.digest = Prepared)
  \/ r.tool = "finalize" /\ FinalizeRowOK(r)

Lost(r) == r.tool = "finalize" /\ r.seen = "transport"

LostOne == \E i \in 1..Len(log) : Lost(log[i])

AcceptedOne == \E j \in 1..Len(log) : log[j].tool = "finalize" /\ log[j].seen = "ok"

AcceptedAfter(k) ==
  \E m \in (k + 1)..Len(journal) :
    journal[m].tool = "finalize" /\ journal[m].args = pinned /\ journal[m].status = "ok"

\* Every refused finalize was followed by one that was accepted.
AcceptedLast ==
  \A k \in 1..Len(journal) : journal[k].status = "transport" => AcceptedAfter(k)

LogOK ==
  /\ CopiesOK
  /\ \A j \in 1..Len(log) : RowOK(log[j])
  /\ AcceptedOne => LostOne \/ AcceptedLast

PhaseOK == answer = None => result = None

TrustInv ==
  /\ TrustTypeOK /\ ServerOK /\ JournalOK /\ LogOK /\ PhaseOK
  /\ OnlyTheTasksVerdict
  /\ CleanReviewAccepted

-----------------------------------------------------------------------------
(* What a log keeps.                                                       *)

LEMMA SameArgs ==
  ASSUME NEW a \in Args, NEW b \in Args, a.payload = b.payload, a.digest = b.digest
  PROVE  a = b
BY DEF Args

-----------------------------------------------------------------------------
(* What a step does to the journal and to the log.                         *)

\* The journal gets one or two copies of a receipt.
Grows(r) ==
  /\ journal' \in Seq(Receipts)
  /\ Len(journal') \in (Len(journal) + 1)..(Len(journal) + 2)
  /\ \A i \in 1..Len(journal) : journal'[i] = journal[i]
  /\ \A i \in (Len(journal) + 1)..Len(journal') : journal'[i] = r

\* What is pinned and what is bound stays, and so do the receipts.
Keeps ==
  /\ Len(journal) <= Len(journal')
  /\ \A i \in 1..Len(journal) : journal'[i] = journal[i]
  /\ pinned # None => pinned' = pinned /\ (verdict = pinned.payload => verdict' = verdict)

LEMMA AppendGrows ==
  ASSUME journal \in Seq(Receipts), NEW r \in Receipts, journal' = Append(journal, r)
  PROVE  Grows(r)
<1>1. Len(journal) \in Nat /\ Len(journal') = Len(journal) + 1 /\ journal' \in Seq(Receipts)
  BY LenProperties, AppendProperties
<1>2. \A i \in 1..Len(journal) : journal'[i] = journal[i]
  BY AppendProperties
<1>3. journal'[Len(journal) + 1] = r
  BY AppendProperties
<1>4. \A i \in (Len(journal) + 1)..Len(journal') : i = Len(journal) + 1
  BY <1>1
<1>5. QED
  BY <1>1, <1>2, <1>3, <1>4 DEF Grows

LEMMA CopiesGrow ==
  ASSUME journal \in Seq(Receipts), NEW r \in Receipts, NEW n \in {1, 2},
         journal' = journal \o [i \in 1..n |-> r]
  PROVE  Grows(r)
<1> DEFINE more == [i \in 1..n |-> r]
<1>1. more \in Seq(Receipts) /\ Len(more) = n
  <2>1. more \in [1..n -> Receipts] /\ n \in Nat
    OBVIOUS
  <2>2. more \in Seq(Receipts)
    BY <2>1, SeqDef
  <2>3. DOMAIN more = 1..Len(more) /\ DOMAIN more = 1..n /\ Len(more) \in Nat
    BY <2>1, <2>2, LenProperties
  <2>4. QED
    BY <2>1, <2>2, <2>3
<1>2. Len(journal) \in Nat
  BY LenProperties
<1>3. \A i \in 1..n : more[i] = r
  OBVIOUS
<1> HIDE DEF more
<1>4. /\ journal' \in Seq(Receipts)
      /\ Len(journal') = Len(journal) + n
      /\ \A i \in 1..(Len(journal) + n) :
           journal'[i] = IF i <= Len(journal) THEN journal[i] ELSE more[i - Len(journal)]
  BY <1>1, ConcatProperties DEF more
<1>5. \A i \in 1..Len(journal) : journal'[i] = journal[i]
  BY <1>2, <1>4
<1>6. ASSUME NEW i \in (Len(journal) + 1)..Len(journal')
      PROVE  journal'[i] = r
  <2>1. i \in 1..(Len(journal) + n) /\ ~(i <= Len(journal)) /\ i - Len(journal) \in 1..n
    BY <1>2, <1>4
  <2>2. QED
    BY <1>3, <1>4, <2>1
<1>7. QED
  BY <1>2, <1>4, <1>5, <1>6 DEF Grows

\* A row is added to the log: a row of a new call, or a copy of the last one.
Adds(r) ==
  /\ log' \in Seq(LogRows)
  /\ Len(log') = Len(log) + 1
  /\ \A i \in 1..Len(log) : log'[i] = log[i]
  /\ log'[Len(log) + 1] = r

LEMMA AppendAdds ==
  ASSUME log \in Seq(LogRows), NEW r \in LogRows, log' = Append(log, r)
  PROVE  Adds(r)
BY AppendProperties, LenProperties DEF Adds

LEMMA LoggedAdds ==
  ASSUME log \in Seq(LogRows),
         NEW tool \in {"prepare", "lookup", "finalize"},
         NEW args \in Args \cup [digest: Digests],
         NEW seen \in {"ok", "transport", "digest", "service"},
         Logged(tool, args, seen)
  PROVE  Adds([tool |-> tool, args |-> args, seen |-> seen, call |-> Len(log)])
<1>1. [tool |-> tool, args |-> args, seen |-> seen, call |-> Len(log)] \in LogRows
  BY LenProperties DEF LogRows
<1>2. QED
  BY <1>1, AppendAdds DEF Logged

LEMMA CopiesKept ==
  ASSUME CopiesOK, log \in Seq(LogRows), NEW r, Adds(r),
         \/ r.call = Len(log)
         \/ Len(log) > 0 /\ r = log[Len(log)]
  PROVE  CopiesOK'
<1> DEFINE n == Len(log)
<1>1. n \in Nat
  BY LenProperties
<1>2. ASSUME NEW j \in 1..n
      PROVE  /\ log'[j].call \in 0..(j - 1)
             /\ \A k \in (log'[j].call + 1)..j : log'[k] = log'[j]
  <2>1. log'[j] = log[j] /\ log[j].call \in 0..(j - 1)
    BY DEF Adds, CopiesOK
  <2>2. ASSUME NEW k \in (log[j].call + 1)..j PROVE log'[k] = log[j]
    <3>1. k \in 1..n
      BY <1>1, <2>1
    <3>2. QED
      BY <3>1 DEF Adds, CopiesOK
  <2>3. QED
    BY <2>1, <2>2
<1>3. log'[n + 1] = r
  BY DEF Adds
<1>4. r.call \in 0..n /\ \A k \in (r.call + 1)..(n + 1) : log'[k] = r
  <2>1. CASE r.call = n
    BY <1>1, <1>3, <2>1
  <2>2. CASE n > 0 /\ r = log[n]
    <3>1. r.call \in 0..(n - 1) /\ \A k \in (r.call + 1)..n : log[k] = r
      BY <1>1, <2>2 DEF CopiesOK
    <3>2. ASSUME NEW k \in (r.call + 1)..(n + 1) PROVE log'[k] = r
      <4>0. PICK c \in 0..(n - 1) : c = r.call
        BY <3>1
      <4>1. k \in (c + 1)..(n + 1)
        BY <4>0
      <4> HIDE DEF n
      <4>2. k = n + 1 \/ k \in (c + 1)..n
        BY <1>1, <4>1
      <4>3. k \in (c + 1)..n => k \in 1..n
        BY <1>1, <4>0
      <4>4. QED
        BY <1>3, <3>1, <4>0, <4>2, <4>3 DEF Adds, n
    <3>3. QED
      BY <1>1, <3>1, <3>2
  <2>3. QED
    BY <2>1, <2>2
<1>5. \A j \in 1..Len(log') : j \in 1..n \/ j = n + 1
  BY <1>1 DEF Adds
<1>6. QED
  BY <1>1, <1>2, <1>3, <1>4, <1>5 DEF CopiesOK

-----------------------------------------------------------------------------
(* The server.                                                             *)

ServerTyped ==
  /\ journal \in Seq(Receipts)
  /\ pinned \in Args \cup {None}
  /\ pending \in Args \cup {None}
  /\ verdict \in Payloads \cup {None}

ServerInv == ServerTyped /\ ServerOK /\ JournalOK

LEMMA ReceiptKept ==
  ASSUME NEW r, ReceiptOK(r), Keeps
  PROVE  ReceiptOK(r)'
BY DEF ReceiptOK, FinalizeOK, Keeps

LEMMA ReachedKept ==
  ASSUME NEW k \in 1..Len(journal), Reached(k), Keeps, pinned # None
  PROVE  Reached(k)'
BY DEF Reached, Keeps

LEMMA GrowsLength ==
  ASSUME ServerTyped, NEW r, Grows(r)
  PROVE  /\ Len(journal) \in Nat /\ Len(journal') \in Nat
         /\ Len(journal) < Len(journal')
         /\ \A i \in 1..Len(journal) : i \in 1..Len(journal')
         /\ \A i \in 1..Len(journal') : i \in 1..Len(journal) \/ i \in (Len(journal) + 1)..Len(journal')
<1>1. PICK n \in Nat : n = Len(journal)
  BY LenProperties DEF ServerTyped
<1>2. PICK m \in (n + 1)..(n + 2) : m = Len(journal')
  BY <1>1 DEF Grows
<1>3. QED
  BY <1>1, <1>2

LEMMA JournalGrows ==
  ASSUME ServerTyped, JournalOK, NEW r, Grows(r), Keeps, ReceiptOK(r)',
         Len(journal) = 0 => r.tool = "prepare",
         r.status = "transport" => pinned # None /\ \E k \in 1..Len(journal) : Reached(k)
  PROVE  JournalOK'
<1>1. /\ Len(journal) \in Nat /\ Len(journal') \in Nat
      /\ Len(journal) < Len(journal')
      /\ \A i \in 1..Len(journal') : i \in 1..Len(journal) \/ i \in (Len(journal) + 1)..Len(journal')
  BY GrowsLength
<1>2. ASSUME NEW i \in 1..Len(journal')
      PROVE  \/ i \in 1..Len(journal) /\ journal'[i] = journal[i]
             \/ i \in (Len(journal) + 1)..Len(journal') /\ journal'[i] = r
  BY <1>1 DEF Grows
<1>3. ASSUME NEW i \in 1..Len(journal')
      PROVE  ReceiptOK(journal[i])'
  <2>1. PICK s : s = journal'[i]
    OBVIOUS
  <2>2. ASSUME i \in 1..Len(journal) /\ journal'[i] = journal[i]
        PROVE  ReceiptOK(s)'
    <3>1. ReceiptOK(s)
      BY <2>1, <2>2 DEF JournalOK
    <3>2. QED
      BY <3>1, ReceiptKept
  <2>3. ASSUME journal'[i] = r
        PROVE  ReceiptOK(s)'
    BY <2>1, <2>3
  <2>4. ReceiptOK(s)'
    BY <1>2, <2>2, <2>3
  <2>5. QED
    BY <2>1, <2>4 DEF ReceiptOK, FinalizeOK
<1>4. Len(journal') > 0 => journal'[1].tool = "prepare"
  <2>1. CASE Len(journal) = 0
    <3>1. 1 \in (Len(journal) + 1)..Len(journal')
      BY <1>1, <2>1
    <3>2. QED
      BY <2>1, <3>1 DEF Grows
  <2>2. CASE Len(journal) > 0
    <3>1. 1 \in 1..Len(journal)
      BY <1>1, <2>2
    <3>2. QED
      BY <2>2, <3>1 DEF Grows, JournalOK
  <2>3. QED
    BY <1>1, <2>1, <2>2
<1>5. ASSUME NEW i \in 1..Len(journal'), journal'[i].status = "transport"
      PROVE  \E k \in 1..(i - 1) : Reached(k)'
  <2>1. CASE i \in 1..Len(journal) /\ journal'[i] = journal[i]
    <3>1. PICK k \in 1..(i - 1) : Reached(k)
      BY <1>5, <2>1 DEF JournalOK
    <3>2. k \in 1..Len(journal)
      BY <1>1, <2>1
    <3>3. pinned # None
      BY <1>5, <2>1 DEF JournalOK, ReceiptOK, FinalizeOK
    <3>4. QED
      BY <3>1, <3>2, <3>3, ReachedKept
  <2>2. CASE i \in (Len(journal) + 1)..Len(journal') /\ journal'[i] = r
    <3>1. PICK k \in 1..Len(journal) : Reached(k)
      BY <1>5, <2>2
    <3>2. k \in 1..(i - 1)
      BY <1>1, <2>2
    <3>3. QED
      BY <1>5, <2>2, <3>1, <3>2, ReachedKept
  <2>3. QED
    BY <1>2, <2>1, <2>2
<1>6. QED
  BY <1>3, <1>4, <1>5 DEF JournalOK

\* An unchanged server keeps its invariant.
LEMMA ServerStands ==
  ASSUME ServerInv, UNCHANGED server
  PROVE  ServerInv' /\ Keeps
<1>1. Len(journal) \in Nat
  BY LenProperties DEF ServerInv, ServerTyped
<1>2. QED
  BY <1>1 DEF ServerInv, ServerTyped, ServerOK, JournalOK, Keeps, server, Reached, ReceiptOK,
       FinalizeOK

\* A receipt that binds nothing: of a prepare, or of a finalize that was refused.
LEMMA UnboundReceipt ==
  ASSUME ServerInv, NEW r, Grows(r), UNCHANGED <<pinned, pending, verdict>>,
         ReceiptOK(r), Len(journal) = 0 => r.tool = "prepare"
  PROVE  ServerInv' /\ Keeps
<1>1. Len(journal) \in Nat /\ Len(journal') \in Nat /\ Len(journal) < Len(journal')
  BY GrowsLength DEF ServerInv
<1>2. Keeps
  BY <1>1 DEF Grows, Keeps
<1>3. r.status = "transport" => pinned # None /\ \E k \in 1..Len(journal) : Reached(k)
  BY DEF ReceiptOK, FinalizeOK, ServerInv, ServerOK
<1>4. JournalOK'
  BY <1>2, <1>3, ReceiptKept, JournalGrows DEF ServerInv
<1>5. pinned # None => \E k \in 1..Len(journal') : Reached(k)'
  <2>1. SUFFICES ASSUME pinned # None PROVE \E k \in 1..Len(journal') : Reached(k)'
    OBVIOUS
  <2>2. PICK k \in 1..Len(journal) : Reached(k)
    BY <2>1 DEF ServerInv, ServerOK
  <2>3. QED
    BY <1>2, <2>1, <2>2, ReachedKept, GrowsLength DEF ServerInv
<1>6. QED
  BY <1>2, <1>4, <1>5 DEF ServerInv, ServerTyped, ServerOK, Grows

\* A finalize that runs: with the arguments that are pinned now, or as a repair.
Runs(args) ==
  /\ args \in Args
  /\ Len(journal) > 0
  /\ Grows(FinalizeReceipt(args))
  /\ Binds(args)
  /\ \/ pinned \in {None, args} /\ pinned' = args
     \/ /\ pinned # None /\ pinned' = pinned
        /\ args.payload = pinned.payload /\ args.digest = Prepared
  /\ pending' \in {pending, None} \/ pending' = pinned'

LEMMA FinalizeRuns ==
  ASSUME TrustAssumption, ServerInv, NEW args, Runs(args)
  PROVE  /\ ServerInv' /\ Keeps
         /\ pinned' # None
         /\ ~Mismatch(args) =>
              FinalizeReceipt(args).status = "ok" /\ verdict' = args.payload /\ verdict' = pinned'.payload
         /\ ~Conflict(args)
<1>0. PICK r : r = FinalizeReceipt(args)
  OBVIOUS
<1>1. Len(journal) \in Nat /\ Len(journal') \in Nat /\ Len(journal) < Len(journal')
  BY GrowsLength DEF ServerInv, Runs
<1>2. args.payload \in Payloads /\ args.digest \in Digests /\ args \in Args /\ args # None
  BY DEF Runs, Args, TrustAssumption
<1>3. pinned' # None /\ pinned' \in Args /\ args.payload = pinned'.payload
  BY <1>2 DEF Runs, ServerInv, ServerTyped
<1>4. pinned # None => pinned' = pinned
  BY DEF Runs
<1>5. ~Conflict(args)
  BY <1>3, <1>4 DEF Conflict, ServerInv, ServerOK
<1>6. verdict' = IF Mismatch(args) THEN verdict ELSE args.payload
  BY <1>5 DEF Runs, Binds
<1>7. verdict' # None => verdict' = pinned'.payload
  BY <1>3, <1>4, <1>6 DEF ServerInv, ServerOK
<1>8. Keeps
  BY <1>1, <1>3, <1>4, <1>6 DEF Keeps, Runs, Grows
<1>9. /\ r.tool = "finalize" /\ r.args = args /\ r.digest = args.digest
      /\ r.status = IF Mismatch(args) THEN "mismatch" ELSE "ok"
      /\ r.out = IF Mismatch(args) THEN None ELSE args.payload
  BY <1>0, <1>5 DEF FinalizeReceipt, Receipt
<1>10. ~Mismatch(args) => r.status = "ok" /\ verdict' = args.payload /\ verdict' = pinned'.payload
  BY <1>3, <1>6, <1>9
<1>11. ReceiptOK(r)'
  <2>1. CASE Mismatch(args)
    BY <1>2, <1>3, <1>9, <2>1 DEF ReceiptOK, FinalizeOK, Mismatch
  <2>2. CASE ~Mismatch(args)
    BY <1>2, <1>3, <1>9, <1>10, <2>2 DEF ReceiptOK, FinalizeOK, Mismatch
  <2>3. QED
    BY <2>1, <2>2
<1>12. JournalOK'
  <2>1. Grows(r) /\ Len(journal) > 0
    BY <1>0 DEF Runs
  <2>2. r.status # "transport"
    BY <1>9
  <2>3. QED
    BY <1>8, <1>11, <2>1, <2>2, JournalGrows DEF ServerInv
<1>13. \E k \in 1..Len(journal') : Reached(k)'
  <2>1. CASE pinned # None
    <3>1. PICK k \in 1..Len(journal) : Reached(k)
      BY <2>1 DEF ServerInv, ServerOK
    <3>2. QED
      BY <1>1, <1>8, <2>1, <3>1, ReachedKept
  <2>2. CASE pinned = None
    <3>1. pinned' = args
      BY <2>2 DEF Runs
    <3>2. Len(journal') \in 1..Len(journal') /\ Len(journal') \in (Len(journal) + 1)..Len(journal')
      BY <1>1
    <3>3. PICK k \in 1..Len(journal') : k \in (Len(journal) + 1)..Len(journal')
      BY <3>2
    <3>4. journal'[k] = r
      BY <1>0, <3>3 DEF Runs, Grows
    <3>5. Reached(k)'
      BY <1>9, <3>1, <3>4 DEF Reached
    <3>6. QED
      BY <3>5
  <2>3. QED
    BY <2>1, <2>2
<1>14. pending' # None => pending' = pinned'
  BY <1>3, <1>4 DEF Runs, ServerInv, ServerOK
<1>15. ServerTyped'
  BY <1>2, <1>3, <1>6, <1>14 DEF Runs, Grows, ServerInv, ServerTyped
<1>16. QED
  BY <1>0, <1>3, <1>5, <1>7, <1>8, <1>10, <1>12, <1>13, <1>14, <1>15 DEF ServerInv, ServerOK

-----------------------------------------------------------------------------
(* The log of the task.                                                    *)

LogInv == log \in Seq(LogRows) /\ LogOK

LEMMA RowKept ==
  ASSUME ServerInv, Keeps, NEW r, RowOK(r)
  PROVE  RowOK(r)'
<1>1. Len(journal) \in Nat
  BY LenProperties DEF ServerInv, ServerTyped
<1>2. ASSUME NEW args, HasReceipt(args) PROVE HasReceipt(args)'
  <2>1. PICK k \in 1..Len(journal) : journal[k].tool = "finalize" /\ journal[k].args = args
    BY <1>2 DEF HasReceipt
  <2>2. k \in 1..Len(journal') /\ journal'[k] = journal[k]
    BY <1>1 DEF Keeps
  <2>3. QED
    BY <2>1, <2>2 DEF HasReceipt
<1>3. CASE r.tool = "finalize" /\ FinalizeRowOK(r)
  <2>1. pinned' = pinned /\ (verdict = pinned.payload => verdict' = verdict)
    BY <1>3 DEF FinalizeRowOK, Keeps
  <2>2. HasReceipt(r.args)'
    BY <1>2, <1>3 DEF FinalizeRowOK
  <2>3. QED
    BY <1>3, <2>1, <2>2 DEF RowOK, FinalizeRowOK
<1>4. QED
  BY <1>3 DEF RowOK

NoneRefused ==
  \A i \in (Len(journal) + 1)..Len(journal') : journal'[i].status # "transport"

LEMMA AcceptedLastKept ==
  ASSUME ServerInv, ServerInv', Keeps, pinned # None, AcceptedLast, NoneRefused
  PROVE  AcceptedLast'
<1>1. Len(journal) \in Nat /\ Len(journal') \in Nat /\ Len(journal) <= Len(journal')
  BY LenProperties DEF ServerInv, ServerTyped, Keeps
<1>2. ASSUME NEW k \in 1..Len(journal'), journal'[k].status = "transport"
      PROVE  AcceptedAfter(k)'
  <2>1. k \in 1..Len(journal) /\ journal[k].status = "transport"
    <3>1. k \in 1..Len(journal) \/ k \in (Len(journal) + 1)..Len(journal')
      BY <1>1
    <3>2. QED
      BY <1>2, <3>1 DEF NoneRefused, Keeps
  <2>2. PICK m \in (k + 1)..Len(journal) :
           journal[m].tool = "finalize" /\ journal[m].args = pinned /\ journal[m].status = "ok"
    BY <2>1 DEF AcceptedLast, AcceptedAfter
  <2>3. m \in 1..Len(journal) /\ m \in (k + 1)..Len(journal')
    BY <1>1, <2>1
  <2>4. journal'[m] = journal[m] /\ pinned' = pinned
    BY <2>3 DEF Keeps
  <2>5. QED
    BY <2>2, <2>3, <2>4 DEF AcceptedAfter
<1>3. QED
  BY <1>2 DEF AcceptedLast

LEMMA LogStands ==
  ASSUME ServerInv, ServerInv', Keeps, NoneRefused, LogInv, UNCHANGED log
  PROVE  LogInv'
<1>1. CopiesOK'
  BY DEF LogInv, LogOK, CopiesOK
<1>2. ASSUME NEW j \in 1..Len(log)
      PROVE  RowOK(log[j])'
  <2>1. PICK r : r = log[j]
    OBVIOUS
  <2>2. RowOK(r)'
    BY <2>1, RowKept DEF LogInv, LogOK
  <2>3. QED
    BY <2>1, <2>2 DEF RowOK, FinalizeRowOK, HasReceipt
<1>3. AcceptedOne' => LostOne' \/ AcceptedLast'
  <2>1. SUFFICES ASSUME AcceptedOne PROVE LostOne \/ AcceptedLast'
    BY DEF AcceptedOne, LostOne, Lost
  <2>2. pinned # None
    BY <2>1 DEF AcceptedOne, LogInv, LogOK, RowOK, FinalizeRowOK
  <2>3. QED
    BY <2>1, <2>2, AcceptedLastKept DEF LogInv, LogOK
<1>4. QED
  BY <1>1, <1>2, <1>3 DEF LogInv, LogOK

Copies(r) == Len(log) > 0 /\ r = log[Len(log)]

\* The row accounts for what the step has done to the journal.
Accounted(r) ==
  \/ Lost(r)
  \/ AcceptedLast'
  \/ NoneRefused /\ (r.tool = "finalize" /\ r.seen = "ok" => Copies(r))

LEMMA LogAdds ==
  ASSUME ServerInv, ServerInv', Keeps, LogInv, NEW r, Adds(r), RowOK(r)',
         r.call = Len(log) \/ Copies(r), Accounted(r)
  PROVE  LogInv'
<1>1. Len(log) \in Nat /\ Len(log') = Len(log) + 1
  BY LenProperties DEF LogInv, Adds
<1>2. CopiesOK'
  BY CopiesKept DEF LogInv, LogOK, Copies
<1>3. ASSUME NEW j \in 1..Len(log')
      PROVE  \/ j \in 1..Len(log) /\ log'[j] = log[j]
             \/ j = Len(log) + 1 /\ log'[j] = r
  BY <1>1 DEF Adds
<1>4. ASSUME NEW j \in 1..Len(log')
      PROVE  RowOK(log[j])'
  <2>1. PICK s : s = log'[j]
    OBVIOUS
  <2>2. ASSUME j \in 1..Len(log), s = log[j] PROVE RowOK(s)'
    BY <2>2, RowKept DEF LogInv, LogOK
  <2>3. RowOK(s)'
    BY <1>3, <2>1, <2>2
  <2>4. QED
    BY <2>1, <2>3 DEF RowOK, FinalizeRowOK, HasReceipt
<1>5. AcceptedOne' => LostOne' \/ AcceptedLast'
  <2>1. SUFFICES ASSUME AcceptedOne', ~AcceptedLast' PROVE LostOne'
    OBVIOUS
  <2>2. CASE Lost(r)
    <3>1. Len(log) + 1 \in 1..Len(log') /\ log'[Len(log) + 1] = r
      BY <1>1 DEF Adds
    <3>2. QED
      BY <2>2, <3>1 DEF LostOne, Lost
  <2>3. CASE NoneRefused /\ (r.tool = "finalize" /\ r.seen = "ok" => Copies(r))
    <3>1. PICK j \in 1..Len(log') : log'[j].tool = "finalize" /\ log'[j].seen = "ok"
      BY <2>1 DEF AcceptedOne
    <3>2. \E i \in 1..Len(log) : log[i].tool = "finalize" /\ log[i].seen = "ok"
      <4>1. CASE j \in 1..Len(log) /\ log'[j] = log[j]
        BY <3>1, <4>1
      <4>2. CASE log'[j] = r
        <5>1. Len(log) \in 1..Len(log) /\ log[Len(log)] = r
          BY <1>1, <2>3, <3>1, <4>2 DEF Copies
        <5>2. QED
          BY <3>1, <4>2, <5>1
      <4>3. QED
        BY <1>3, <4>1, <4>2
    <3>3. pinned # None
      BY <3>2 DEF LogInv, LogOK, RowOK, FinalizeRowOK
    <3>4. ~AcceptedLast
      BY <2>1, <2>3, <3>3, AcceptedLastKept
    <3>5. PICK i \in 1..Len(log) : Lost(log[i])
      BY <3>2, <3>4 DEF LogInv, LogOK, AcceptedOne, LostOne
    <3>6. i \in 1..Len(log') /\ log'[i] = log[i]
      BY <1>1 DEF Adds
    <3>7. QED
      BY <3>5, <3>6 DEF LostOne, Lost
  <2>4. QED
    BY <2>1, <2>2, <2>3 DEF Accounted
<1>6. QED
  BY <1>2, <1>4, <1>5 DEF LogInv, LogOK, Adds

-----------------------------------------------------------------------------
(* The steps before the backend reads the answer.                          *)

Core == ServerInv /\ LogInv

LEMMA ServerUnchanged ==
  ASSUME Core, UNCHANGED server
  PROVE  ServerInv' /\ Keeps /\ NoneRefused
<1>1. Len(journal) \in Nat
  BY LenProperties DEF Core, ServerInv, ServerTyped
<1>2. NoneRefused
  BY <1>1 DEF NoneRefused, server
<1>3. QED
  BY <1>2, ServerStands DEF Core

LEMMA PrepareKeeps ==
  ASSUME TrustAssumption, Core, Prepare
  PROVE  Core'
<1>1. PICK status \in {"ok", "incomplete"}, seen \in {"ok", "transport"} :
        /\ journal' = Append(journal, Receipt("prepare", None, Prepared, status, None))
        /\ Logged("prepare", [digest |-> Prepared], seen)
  BY DEF Prepare
<1>2. PICK r : r = Receipt("prepare", None, Prepared, status, None)
  OBVIOUS
<1>3. /\ r \in Receipts /\ r.tool = "prepare" /\ r.digest = Prepared
      /\ r.status \in {"ok", "incomplete"}
  BY <1>2 DEF Receipt, Receipts, ReceiptStatus, TrustAssumption
<1>4. Grows(r)
  BY <1>1, <1>2, <1>3, AppendGrows DEF Core, ServerInv, ServerTyped
<1>5. ServerInv' /\ Keeps
  BY <1>3, <1>4, UnboundReceipt DEF Core, ReceiptOK, Prepare
<1>6. NoneRefused
  BY <1>3, <1>4 DEF Grows, NoneRefused
<1>7. PICK row : row = [tool |-> "prepare", args |-> [digest |-> Prepared], seen |-> seen,
                        call |-> Len(log)]
  OBVIOUS
<1>8. Adds(row) /\ row.tool = "prepare" /\ row.call = Len(log)
  BY <1>1, <1>7, LoggedAdds DEF Core, LogInv, TrustAssumption
<1>9. RowOK(row)'
  BY <1>8 DEF RowOK
<1>10. Accounted(row)
  BY <1>6, <1>8 DEF Accounted
<1>11. QED
  BY <1>5, <1>8, <1>9, <1>10, LogAdds DEF Core

LEMMA LookupKeeps ==
  ASSUME TrustAssumption, Core, SeafLookup
  PROVE  Core'
<1>1. PICK d \in Digests :
        Logged("lookup", [digest |-> d], IF d = Prepared THEN "ok" ELSE "service")
  BY DEF SeafLookup
<1>2. ServerInv' /\ Keeps /\ NoneRefused
  BY ServerUnchanged DEF SeafLookup
<1>3. PICK row : row = [tool |-> "lookup", args |-> [digest |-> d],
                        seen |-> IF d = Prepared THEN "ok" ELSE "service", call |-> Len(log)]
  OBVIOUS
<1>4. Adds(row)
  <2>1. PICK seen \in {"ok", "transport", "digest", "service"} :
           seen = IF d = Prepared THEN "ok" ELSE "service"
    OBVIOUS
  <2>2. Logged("lookup", [digest |-> d], seen)
    BY <1>1, <2>1
  <2>3. QED
    BY <1>3, <2>1, <2>2, LoggedAdds DEF Core, LogInv
<1>5. row.tool = "lookup" /\ row.call = Len(log) /\ (row.seen = "ok" => row.args.digest = Prepared)
  BY <1>3
<1>6. RowOK(row)'
  BY <1>5 DEF RowOK
<1>7. Accounted(row)
  BY <1>2, <1>5 DEF Accounted
<1>8. QED
  BY <1>2, <1>4, <1>5, <1>6, <1>7, LogAdds DEF Core

LEMMA MirrorKeeps ==
  ASSUME Core, Mirror
  PROVE  Core'
<1>1. ServerInv' /\ Keeps /\ NoneRefused
  BY ServerUnchanged DEF Mirror
<1>2. PICK r : r = log[Len(log)]
  OBVIOUS
<1>3. Len(log) \in Nat /\ Len(log) > 0 /\ Len(log) \in 1..Len(log)
  BY LenProperties DEF Core, LogInv, Mirror
<1>4. r \in LogRows /\ RowOK(r)
  BY <1>2, <1>3, ElementOfSeq DEF Core, LogInv, LogOK
<1>5. Adds(r)
  BY <1>2, <1>4, AppendAdds DEF Core, LogInv, Mirror
<1>6. RowOK(r)'
  BY <1>1, <1>4, RowKept DEF Core
<1>7. Copies(r) /\ Accounted(r)
  BY <1>1, <1>2, <1>3 DEF Copies, Accounted
<1>8. QED
  BY <1>1, <1>5, <1>6, <1>7, LogAdds DEF Core

\* A receipt of a finalize stands for the row of it.
LEMMA ReceiptOfRow ==
  ASSUME ServerTyped, NEW r, Grows(r), r.tool = "finalize"
  PROVE  HasReceipt(r.args)'
<1>1. Len(journal) \in Nat /\ Len(journal') \in Nat /\ Len(journal) < Len(journal')
  BY GrowsLength
<1>2. PICK k \in 1..Len(journal') : k \in (Len(journal) + 1)..Len(journal')
  <2>1. Len(journal') \in 1..Len(journal') /\ Len(journal') \in (Len(journal) + 1)..Len(journal')
    BY <1>1
  <2>2. QED
    BY <2>1
<1>3. journal'[k] = r
  BY <1>2 DEF Grows
<1>4. QED
  BY <1>3 DEF HasReceipt

\* An accepted receipt at the end of the journal follows every refused one.
LEMMA AcceptedAtEnd ==
  ASSUME ServerTyped, NEW r, Grows(r), r.tool = "finalize", r.status = "ok", r.args = pinned'
  PROVE  AcceptedLast'
<1>1. Len(journal) \in Nat /\ Len(journal') \in Nat /\ Len(journal) < Len(journal')
  BY GrowsLength
<1>2. ASSUME NEW k \in 1..Len(journal'), journal'[k].status = "transport"
      PROVE  AcceptedAfter(k)'
  <2>1. Len(journal') \in (Len(journal) + 1)..Len(journal')
    BY <1>1
  <2>2. journal'[Len(journal')] = r
    BY <2>1 DEF Grows
  <2>3. k # Len(journal')
    BY <1>2, <2>2
  <2>4. Len(journal') \in (k + 1)..Len(journal')
    BY <1>1, <2>3
  <2>5. QED
    BY <2>2, <2>4 DEF AcceptedAfter
<1>3. QED
  BY <1>2 DEF AcceptedLast

LEMMA RefusedKeeps ==
  ASSUME TrustAssumption, Core, NEW args \in Args, Finalize(args), pinned \notin {None, args}
  PROVE  Core'
<1>1. /\ journal' = Append(journal, Receipt("finalize", args, args.digest, "transport", None))
      /\ Logged("finalize", args, "transport")
      /\ UNCHANGED <<pinned, pending, verdict>>
      /\ \E p \in Range(journal) : p.tool = "prepare"
  BY DEF Finalize
<1>2. PICK r : r = Receipt("finalize", args, args.digest, "transport", None)
  OBVIOUS
<1>3. /\ r \in Receipts /\ r.tool = "finalize" /\ r.digest = args.digest
      /\ r.args = args /\ r.status = "transport"
  BY <1>2 DEF Receipt, Receipts, ReceiptStatus, Args
<1>4. Grows(r)
  BY <1>1, <1>2, <1>3, AppendGrows DEF Core, ServerInv, ServerTyped
<1>5. ReceiptOK(r)
  BY <1>3 DEF ReceiptOK, FinalizeOK
<1>6. Len(journal) # 0
  BY <1>1, LenProperties DEF Core, ServerInv, ServerTyped, Range
<1>7. ServerInv' /\ Keeps
  BY <1>1, <1>4, <1>5, <1>6, UnboundReceipt DEF Core
<1>8. PICK row : row = [tool |-> "finalize", args |-> args, seen |-> "transport", call |-> Len(log)]
  OBVIOUS
<1>9. Adds(row) /\ Lost(row) /\ row.args = args /\ row.call = Len(log)
  BY <1>1, <1>8, LoggedAdds DEF Core, LogInv, Lost
<1>10. HasReceipt(args)'
  BY <1>3, <1>4, ReceiptOfRow DEF Core, ServerInv
<1>11. RowOK(row)'
  BY <1>1, <1>9, <1>10 DEF RowOK, FinalizeRowOK, Lost
<1>12. Accounted(row)
  BY <1>9 DEF Accounted
<1>13. QED
  BY <1>7, <1>9, <1>11, <1>12, LogAdds DEF Core

LEMMA FinalizeKeeps ==
  ASSUME TrustAssumption, Core, NEW args \in Args, Finalize(args), pinned \in {None, args}
  PROVE  Core'
<1>1. /\ pinned' = args
      /\ Binds(args)
      /\ pending' = IF Mismatch(args) /\ pending = None THEN args ELSE pending
      /\ \E p \in Range(journal) : p.tool = "prepare"
  BY DEF Finalize
<1>2. PICK again \in BOOLEAN, lost \in BOOLEAN :
        /\ journal' = journal \o [i \in 1..(IF again THEN 2 ELSE 1) |-> FinalizeReceipt(args)]
        /\ Logged("finalize", args,
             IF lost THEN "transport"
             ELSE CASE Mismatch(args) -> "digest"
                    [] Conflict(args) /\ ~Mismatch(args) -> "service"
                    [] OTHER -> "ok")
  BY DEF Finalize
<1>3. PICK r : r = FinalizeReceipt(args)
  OBVIOUS
<1>4. /\ r \in Receipts
      /\ r.tool = "finalize" /\ r.args = args
      /\ r.status \in {"mismatch", "conflict", "ok"}
  BY <1>3 DEF FinalizeReceipt, Receipt, Receipts, ReceiptStatus, Args
<1>5. Grows(r)
  <2>1. PICK n \in {1, 2} : n = IF again THEN 2 ELSE 1
    OBVIOUS
  <2>2. journal' = journal \o [i \in 1..n |-> r]
    BY <1>2, <1>3, <2>1
  <2>3. QED
    BY <1>4, <2>2, CopiesGrow DEF Core, ServerInv, ServerTyped
<1>6. Len(journal) > 0
  BY <1>1, LenProperties DEF Core, ServerInv, ServerTyped, Range
<1>7. Runs(args)
  BY <1>1, <1>3, <1>5, <1>6 DEF Runs
<1>8. /\ ServerInv' /\ Keeps
      /\ pinned' # None
      /\ ~Mismatch(args) => r.status = "ok" /\ verdict' = pinned'.payload
      /\ ~Conflict(args)
  BY <1>3, <1>7, FinalizeRuns DEF Core
<1>9. PICK seen \in {"transport", "digest", "ok"} :
        /\ Logged("finalize", args, seen)
        /\ seen = "digest" => Mismatch(args)
        /\ seen = "ok" => ~Mismatch(args)
  BY <1>2, <1>8
<1>10. PICK row : row = [tool |-> "finalize", args |-> args, seen |-> seen, call |-> Len(log)]
  OBVIOUS
<1>11. /\ Adds(row) /\ row.tool = "finalize" /\ row.args = args /\ row.seen = seen
       /\ row.call = Len(log)
  BY <1>9, <1>10, LoggedAdds DEF Core, LogInv
<1>12. RowOK(row)'
  <2>1. HasReceipt(args)'
    BY <1>4, <1>5, ReceiptOfRow DEF Core, ServerInv
  <2>2. QED
    BY <1>1, <1>8, <1>9, <1>11, <2>1 DEF RowOK, FinalizeRowOK, Mismatch
<1>13. Accounted(row)
  <2>1. CASE seen = "transport"
    BY <1>11, <2>1 DEF Accounted, Lost
  <2>2. CASE seen = "ok"
    <3>1. AcceptedLast'
      BY <1>1, <1>4, <1>5, <1>8, <1>9, <2>2, AcceptedAtEnd DEF Core, ServerInv
    <3>2. QED
      BY <3>1 DEF Accounted
  <2>3. CASE seen = "digest"
    <3>1. NoneRefused
      BY <1>4, <1>5 DEF Grows, NoneRefused
    <3>2. QED
      BY <1>11, <2>3, <3>1 DEF Accounted
  <2>4. QED
    BY <2>1, <2>2, <2>3
<1>14. QED
  BY <1>8, <1>11, <1>12, <1>13, LogAdds DEF Core

LEMMA CoreUnchanged ==
  ASSUME Core, UNCHANGED <<server, log>>
  PROVE  Core'
<1>1. ServerInv' /\ Keeps /\ NoneRefused
  BY ServerUnchanged
<1>2. QED
  BY <1>1, LogStands DEF Core

LEMMA NextTaskKeeps ==
  ASSUME Core, NextTask
  PROVE  Core'
<1>1. ServerInv'
  BY ServerUnchanged DEF NextTask
<1>2. log' \in Seq(LogRows) /\ Len(log') = 0
  BY EmptySeq DEF NextTask
<1>3. LogInv'
  BY <1>2 DEF LogInv, LogOK, CopiesOK, AcceptedOne
<1>4. QED
  BY <1>1, <1>3 DEF Core

-----------------------------------------------------------------------------
(* What the backend finds in the log and in the journal.                   *)

LEMMA LogLength ==
  ASSUME Core
  PROVE  /\ Len(log) \in Nat /\ Len(journal) \in Nat
         /\ Row("finalize") \in SUBSET Nat /\ Row("prepare") \in SUBSET Nat
         /\ ClaimedFinalizes \in SUBSET Nat
         /\ ClaimedFinalizes \in SUBSET (1..Len(journal))
         /\ Prepares \in SUBSET (1..Len(journal))
         /\ IsFiniteSet(ClaimedFinalizes) /\ IsFiniteSet(Row("finalize"))
<1>1. Len(log) \in Nat /\ Len(journal) \in Nat
  BY LenProperties DEF Core, ServerInv, ServerTyped, LogInv
<1>2. /\ Row("finalize") \in SUBSET (1..Len(log)) /\ Row("prepare") \in SUBSET (1..Len(log))
      /\ ClaimedFinalizes \in SUBSET (1..Len(journal))
      /\ Prepares \in SUBSET (1..Len(journal))
  BY DEF Row, Rows, ClaimedFinalizes, Prepares, ReceiptsOf
<1>3. IsFiniteSet(1..Len(log)) /\ IsFiniteSet(1..Len(journal))
  BY <1>1, FS_Interval
<1>4. IsFiniteSet(ClaimedFinalizes) /\ IsFiniteSet(Row("finalize"))
  BY <1>2, <1>3, FS_Subset
<1>5. (1..Len(log)) \subseteq Nat /\ (1..Len(journal)) \subseteq Nat
  OBVIOUS
<1>6. QED
  BY <1>1, <1>2, <1>4, <1>5

\* The finalize the flow shows has a receipt; unless its response was lost, it ran with the
\* pinned arguments, and either bound the verdict or presented other digests.
LEMMA TheFinalize ==
  ASSUME Core, FlowAccepted
  PROVE  /\ pinned # None /\ Claimed \in Args /\ HasReceipt(Claimed)
         /\ ~LostResponse =>
              /\ Claimed = pinned
              /\ pinned.digest = Prepared => verdict = pinned.payload
<1>1. Row("finalize") # {}
  BY LogLength, FS_EmptySet DEF FlowAccepted
<1>2. PICK i \in Row("finalize") : i = Min(Row("finalize"))
  BY <1>1, LogLength, MinIs
<1>3. i \in 1..Len(log) /\ log[i].tool = "finalize"
  BY <1>2 DEF Row, Rows
<1>4. FinalizeRowOK(log[i])
  BY <1>3 DEF Core, LogInv, LogOK, RowOK
<1>5. QED
  BY <1>2, <1>4 DEF FinalizeRowOK, Claimed, LostResponse

\* The prepare and the finalize the receipts show.
LEMMA TheReceipts ==
  ASSUME Core, ReceiptsFound
  PROVE  /\ Min(ClaimedFinalizes) \in ClaimedFinalizes
         /\ FirstFinalize.digest = Claimed.digest
         /\ FinalizeOK(FirstFinalize)
         /\ journal[Max(Prepares)].digest = Prepared
         /\ Len(journal) > 0
<1>1. ClaimedFinalizes # {}
  BY LogLength, FS_EmptySet DEF ReceiptsFound
<1>2. Min(ClaimedFinalizes) \in ClaimedFinalizes
  BY <1>1, LogLength, MinIs
<1>3. /\ Min(ClaimedFinalizes) \in 1..Len(journal)
      /\ FirstFinalize.tool = "finalize" /\ FirstFinalize.digest = Claimed.digest
  BY <1>2 DEF ClaimedFinalizes, ReceiptsOf, FirstFinalize
<1>4. FinalizeOK(FirstFinalize)
  BY <1>3 DEF FirstFinalize, Core, ServerInv, JournalOK, ReceiptOK
<1>5. Max(Prepares) \in Prepares
  BY LogLength, MaxIs DEF ReceiptsFound
<1>6. Max(Prepares) \in 1..Len(journal) /\ journal[Max(Prepares)].tool = "prepare"
  BY <1>5 DEF Prepares, ReceiptsOf
<1>7. journal[Max(Prepares)].digest = Prepared
  BY <1>6 DEF Core, ServerInv, JournalOK, ReceiptOK
<1>8. Len(journal) > 0
  BY <1>6, LogLength
<1>9. QED
  BY <1>2, <1>3, <1>4, <1>7, <1>8

-----------------------------------------------------------------------------
(* What a poll returns.                                                    *)

\* The result the poll leaves is none, a refusal or the verdict of this task.
Returned ==
  /\ result' \in Payloads \cup {None, "rejected"}
  /\ polls' \in 0..MaxPending
  /\ override' \in Payloads \cup {None}
  /\ result' \in Payloads => result' = verdict' /\ result' = Claimed.payload

LEMMA Refuses ==
  ASSUME TrustAssumption, polls \in 0..MaxPending, override \in Payloads \cup {None},
         result = None, Conclude("rejected"), override' = override
  PROVE  Returned /\ result' = "rejected"
BY DEF Conclude, Returned, TrustAssumption

LEMMA Gives ==
  ASSUME TrustAssumption, polls \in 0..MaxPending, override' \in Payloads \cup {None},
         result = None, NEW p \in Payloads, Conclude(p), p = verdict', p = Claimed.payload
  PROVE  Returned /\ result' # "rejected"
<1>1. \/ result' = p /\ polls' = polls
      \/ result' = None /\ polls' = polls + 1 /\ polls < MaxPending
  <2>1. Conclude(p)
    OBVIOUS
  <2>2. QED
    BY <2>1, Zenon DEF Conclude
<1>2. polls' \in 0..MaxPending
  BY <1>1 DEF TrustAssumption
<1>3. p # "rejected" /\ None \notin Payloads /\ None # "rejected"
  BY DEF TrustAssumption
<1>4. QED
  BY <1>1, <1>2, <1>3 DEF Returned

PollTyped ==
  /\ polls \in 0..MaxPending
  /\ override \in Payloads \cup {None}
  /\ result = None
  /\ answer \in [payload: Payloads, whole: BOOLEAN]

\* A finalize that answered is believed when the answer of the task is its output.
LEMMA PlainReturned ==
  ASSUME TrustAssumption, Core, PollTyped, FlowAccepted, ReceiptsFound, ~LostResponse,
         Conclude(IF PlainAccepted /\ IsOutput(FirstFinalize.out)
                THEN answer.payload ELSE "rejected"),
         UNCHANGED <<server, override, log>>
  PROVE  Returned
<1>1. CASE PlainAccepted /\ IsOutput(FirstFinalize.out)
  <2>1. PICK p \in Payloads : p = answer.payload
    BY DEF PollTyped
  <2>2. FirstFinalize.status = "ok" /\ p = FirstFinalize.out
    BY <1>1, <2>1 DEF PlainAccepted, IsOutput
  <2>3. p = pinned.payload /\ p = verdict
    BY <2>2, TheReceipts DEF FinalizeOK
  <2>4. p = Claimed.payload
    BY <2>3, TheFinalize
  <2>5. Conclude(p) /\ p = verdict' /\ override' \in Payloads \cup {None}
    BY <1>1, <2>1, <2>3 DEF server, PollTyped
  <2>6. QED
    BY <2>4, <2>5, Gives DEF PollTyped
<1>2. CASE ~(PlainAccepted /\ IsOutput(FirstFinalize.out))
  BY <1>2, Refuses DEF PollTyped
<1>3. QED
  BY <1>1, <1>2

\* A repair returns the verdict it leaves bound, or refuses.
LEMMA RepairReturned ==
  ASSUME TrustAssumption, Core, PollTyped, NEW args \in Args, NEW expected,
         RepairWith(args, expected), UNCHANGED <<pinned, log>>,
         Len(journal) > 0, pinned # None, pending' \in {pending, None},
         args.payload = pinned.payload, args.digest = Prepared, args.payload = Claimed.payload
  PROVE  Core' /\ Returned
<1>1. PICK r : r = FinalizeReceipt(args)
  OBVIOUS
<1>2. /\ r \in Receipts
      /\ r.status \in {"mismatch", "conflict", "ok"}
  BY <1>1 DEF FinalizeReceipt, Receipt, Receipts, ReceiptStatus, Args
<1>3. Grows(r)
  BY <1>1, <1>2, AppendGrows DEF RepairWith, Core, ServerInv, ServerTyped
<1>4. Runs(args)
  BY <1>1, <1>3 DEF Runs, RepairWith
<1>5. /\ ServerInv' /\ Keeps
      /\ r.status = "ok" /\ verdict' = args.payload
  BY <1>1, <1>4, FinalizeRuns DEF Core, Mismatch
<1>6. NoneRefused
  BY <1>2, <1>3 DEF Grows, NoneRefused
<1>7. Core'
  BY <1>5, <1>6, LogStands DEF Core
<1>8. PICK p \in Payloads : p = args.payload
  BY DEF Args
<1>9. /\ override' = p
      /\ Conclude(IF Cardinality(ReceiptsOf("finalize")) = expected THEN p ELSE "rejected")
  BY <1>1, <1>5, <1>8 DEF RepairWith
<1>10. CASE Cardinality(ReceiptsOf("finalize")) = expected
  BY <1>5, <1>7, <1>8, <1>9, <1>10, Gives DEF PollTyped
<1>11. CASE Cardinality(ReceiptsOf("finalize")) # expected
  <2>1. Conclude("rejected")
    BY <1>9, <1>11
  <2>2. result' = "rejected" /\ polls' = polls
    BY <2>1 DEF Conclude
  <2>3. QED
    BY <1>7, <1>9, <2>2 DEF Returned, PollTyped, TrustAssumption
<1>12. QED
  BY <1>10, <1>11

LEMMA DigestReturned ==
  ASSUME TrustAssumption, Core, PollTyped, FlowAccepted, ReceiptsFound, ~LostResponse,
         pending # None,
         RepairWith([payload |-> pending.payload, digest |-> Prepared], 1),
         pending' = None, UNCHANGED <<pinned, log>>
  PROVE  Core' /\ Returned
<1>1. pinned # None /\ pending = pinned /\ pinned \in Args /\ Claimed = pinned /\ Len(journal) > 0
  BY TheFinalize, TheReceipts DEF Core, ServerInv, ServerOK, ServerTyped
<1>2. PICK args : args = [payload |-> pending.payload, digest |-> Prepared]
  OBVIOUS
<1>3. args \in Args /\ args.payload = pinned.payload /\ args.digest = Prepared
  BY <1>1, <1>2 DEF Args, TrustAssumption
<1>4. RepairWith(args, 1)
  BY <1>2
<1>5. QED
  BY <1>1, <1>3, <1>4, RepairReturned

LEMMA TransportReturned ==
  ASSUME TrustAssumption, Core, PollTyped, FlowAccepted, ReceiptsFound,
         TransportRepairable, pinned = FirstFinalize.args,
         RepairWith(pinned, Cardinality(ClaimedFinalizes)),
         UNCHANGED <<pinned, pending, log>>
  PROVE  Core' /\ Returned
<1>1. pinned # None /\ pinned \in Args /\ HasReceipt(Claimed) /\ Len(journal) > 0
  BY TheFinalize, TheReceipts DEF Core, ServerInv, ServerTyped
<1>2. Claimed.digest = Prepared
  BY TheReceipts DEF TransportRepairable
<1>3. PICK k \in 1..Len(journal) : journal[k].tool = "finalize" /\ journal[k].args = Claimed
  BY <1>1 DEF HasReceipt
<1>4. journal[k].digest = Claimed.digest
  BY <1>3 DEF Core, ServerInv, JournalOK, ReceiptOK, FinalizeOK
<1>5. Claimed = pinned
  BY <1>3, <1>4 DEF ClaimedFinalizes, ReceiptsOf, TransportRepairable
<1>6. PICK n : n = Cardinality(ClaimedFinalizes)
  OBVIOUS
<1>7. RepairWith(pinned, n)
  BY <1>6
<1>8. pending' \in {pending, None}
  OBVIOUS
<1>9. QED
  BY <1>1, <1>2, <1>5, <1>7, <1>8, RepairReturned

LEMMA PollReturned ==
  ASSUME TrustAssumption, Core, PollTyped, PollResult
  PROVE  Core' /\ Returned
<1>0. UNCHANGED <<log, answer, tasks>>
  BY DEF PollResult
<1>1. ASSUME UNCHANGED <<server, override>>, Conclude("rejected")
      PROVE  Core' /\ Returned
  BY <1>0, <1>1, CoreUnchanged, Refuses DEF PollTyped
<1>2. CASE ~(FlowAccepted /\ ReceiptsFound) /\ Conclude("rejected") /\ UNCHANGED <<server, override>>
  BY <1>1, <1>2
<1>3. CASE /\ FlowAccepted /\ ReceiptsFound /\ ~LostResponse
           /\ Conclude(IF PlainAccepted /\ IsOutput(FirstFinalize.out)
                     THEN answer.payload ELSE "rejected")
           /\ UNCHANGED <<server, override>>
  BY <1>0, <1>3, CoreUnchanged, PlainReturned
<1>4. CASE /\ FlowAccepted /\ ReceiptsFound /\ ~LostResponse
           /\ IF DigestRepairable /\ pending # None
              THEN /\ RepairWith([payload |-> pending.payload, digest |-> Prepared], 1)
                   /\ pending' = None
                   /\ UNCHANGED pinned
              ELSE Conclude("rejected") /\ UNCHANGED <<server, override>>
  <2>1. CASE DigestRepairable /\ pending # None
    BY <1>0, <1>4, <2>1, DigestReturned
  <2>2. CASE ~(DigestRepairable /\ pending # None)
    BY <1>1, <1>4, <2>2
  <2>3. QED
    BY <2>1, <2>2
<1>5. CASE /\ FlowAccepted /\ ReceiptsFound /\ LostResponse
           /\ IF TransportRepairable /\ pinned = FirstFinalize.args
              THEN /\ RepairWith(pinned, Cardinality(ClaimedFinalizes))
                   /\ UNCHANGED <<pinned, pending>>
              ELSE Conclude("rejected") /\ UNCHANGED <<server, override>>
  <2>1. CASE TransportRepairable /\ pinned = FirstFinalize.args
    BY <1>0, <1>5, <2>1, TransportReturned
  <2>2. CASE ~(TransportRepairable /\ pinned = FirstFinalize.args)
    BY <1>1, <1>5, <2>2
  <2>3. QED
    BY <2>1, <2>2
<1>6. QED
  BY <1>2, <1>3, <1>4, <1>5 DEF PollResult

-----------------------------------------------------------------------------
(* A clean task is not refused.                                            *)

\* The rows of a clean task are those of one prepare, of its lookups and of one finalize.
LEMMA CleanRows ==
  ASSUME Core, CleanTask
  PROVE  /\ Row("prepare") = {1}
         /\ \E f \in 1..Len(log) :
              /\ Row("finalize") = {f}
              /\ log[f].tool = "finalize" /\ log[f].seen = "ok"
              /\ \A i \in Rows : 1 <= i /\ i <= f
<1>1. Len(log) \in Nat /\ Len(log) >= 2 /\ 1 \in 1..Len(log) /\ Len(log) \in 1..Len(log)
  BY LogLength DEF CleanTask
<1>2. ASSUME NEW j \in 1..Len(log)
      PROVE  /\ log[j].call \in 0..(j - 1)
             /\ log[j].call + 1 \in 1..j
             /\ \A k \in (log[j].call + 1)..j : log[k] = log[j]
             /\ log[log[j].call + 1] = log[j]
  <2>1. PICK c \in 0..(j - 1) : c = log[j].call
    BY DEF Core, LogInv, LogOK, CopiesOK
  <2>2. c + 1 \in 1..j /\ c + 1 \in (c + 1)..j
    BY <2>1
  <2>3. \A k \in (c + 1)..j : log[k] = log[j]
    BY <2>1 DEF Core, LogInv, LogOK, CopiesOK
  <2>4. QED
    BY <2>1, <2>2, <2>3
<1>3. ASSUME NEW i \in 1..Len(log), NEW j \in 1..Len(log), i < j, log[i] = log[j]
      PROVE  j \notin Rows
  <2>1. i \in 1..(j - 1)
    BY <1>3
  <2>2. QED
    BY <1>3, <2>1 DEF Rows
<1>4. Row("prepare") = {1}
  <2>1. log[1].call = 0
    BY <1>1, <1>2
  <2>2. ASSUME NEW i \in Row("prepare") PROVE i = 1
    <3>1. i \in 1..Len(log) /\ i \in Rows /\ log[i].tool = "prepare"
      BY <2>2 DEF Row, Rows
    <3>2. log[i].call = 0
      BY <1>1, <2>1, <3>1 DEF CleanTask
    <3>3. log[1] = log[i]
      BY <1>2, <3>1, <3>2
    <3>4. QED
      BY <1>1, <1>3, <3>1, <3>3
  <2>3. 1 \in Row("prepare")
    <3>1. 1..(1 - 1) = {}
      OBVIOUS
    <3>2. QED
      BY <1>1, <3>1 DEF Row, Rows, CleanTask
  <2>4. QED
    BY <2>2, <2>3
<1>5. PICK f \in 1..Len(log) : f = log[Len(log)].call + 1
  BY <1>1, <1>2
<1>6. /\ log[f] = log[Len(log)] /\ log[f].call = f - 1
      /\ log[f].tool = "finalize" /\ log[f].seen = "ok"
  <2>1. PICK c \in 0..(Len(log) - 1) : c = log[Len(log)].call
    BY <1>1, <1>2
  <2>2. log[f] = log[Len(log)] /\ f = c + 1
    BY <1>1, <1>2, <1>5, <2>1
  <2>3. QED
    BY <2>1, <2>2 DEF CleanTask
<1>7. f \in Rows
  <2>1. ASSUME NEW j \in 1..(f - 1) PROVE log[j] # log[f]
    <3>1. j \in 1..Len(log)
      BY <1>1
    <3>2. PICK c \in 0..(j - 1) : c = log[j].call
      BY <1>2, <3>1
    <3>3. c # f - 1
      BY <3>2
    <3>4. QED
      BY <1>6, <3>2, <3>3
  <2>2. QED
    BY <2>1 DEF Rows
<1>8. ASSUME NEW i \in Rows PROVE 1 <= i /\ i <= f /\ i \in 1..Len(log)
  <2>1. i \in 1..Len(log)
    BY DEF Rows
  <2>2. ASSUME f < i PROVE FALSE
    <3>1. i \in (log[Len(log)].call + 1)..Len(log)
      BY <1>1, <1>5, <2>1, <2>2
    <3>2. log[i] = log[Len(log)]
      BY <1>1, <1>2, <3>1
    <3>3. QED
      BY <1>3, <1>6, <2>1, <2>2, <3>2
  <2>3. QED
    BY <2>1, <2>2
<1>9. Row("finalize") = {f}
  <2>1. ASSUME NEW i \in Row("finalize") PROVE i = f
    <3>1. i \in Rows /\ i \in 1..Len(log) /\ log[i].tool = "finalize"
      BY <1>8 DEF Row
    <3>2. log[i].call = f - 1
      BY <1>6, <3>1 DEF CleanTask
    <3>3. log[f] = log[i]
      BY <1>2, <3>1, <3>2
    <3>4. f <= i
      <4>1. log[i].call \in 0..(i - 1)
        BY <1>2, <3>1
      <4>2. QED
        BY <3>1, <3>2, <4>1
    <3>5. QED
      BY <1>3, <3>1, <3>3, <3>4
  <2>2. f \in Row("finalize")
    BY <1>6, <1>7 DEF Row
  <2>3. QED
    BY <2>1, <2>2
<1>10. QED
  BY <1>4, <1>6, <1>8, <1>9

LEMMA MinOfOne ==
  ASSUME NEW i \in Nat
  PROVE  Min({i}) = i
BY MinIs

LEMMA CleanFlow ==
  ASSUME Core, CleanTask
  PROVE  /\ FlowAccepted /\ ~LostResponse
         /\ Claimed = pinned /\ pinned \in Args /\ pinned.digest = Prepared
         /\ verdict = pinned.payload /\ HasReceipt(pinned)
         /\ AcceptedLast
<1>1. Row("prepare") = {1}
  BY CleanRows
<1>2. PICK f \in 1..Len(log) :
        /\ Row("finalize") = {f}
        /\ log[f].tool = "finalize" /\ log[f].seen = "ok"
        /\ \A i \in Rows : 1 <= i /\ i <= f
  BY CleanRows
<1>3. Min(Row("prepare")) = 1 /\ Min(Row("finalize")) = f
  BY <1>1, <1>2, MinOfOne
<1>4. Cardinality(Row("prepare")) = 1 /\ Cardinality(Row("finalize")) = 1
  BY <1>1, <1>2, FS_Singleton
<1>5. FinalizeRowOK(log[f])
  BY <1>2 DEF Core, LogInv, LogOK, RowOK
<1>6. /\ log[f].args = pinned /\ pinned \in Args /\ pinned.digest = Prepared
      /\ verdict = pinned.payload /\ HasReceipt(pinned)
  BY <1>2, <1>5 DEF FinalizeRowOK
<1>7. \A i \in Rows : log[i].seen = "ok"
  BY DEF Rows, CleanTask
<1>8. ASSUME NEW i \in Row("lookup") PROVE log[i].args.digest = Prepared
  <2>1. i \in 1..Len(log) /\ log[i].tool = "lookup" /\ log[i].seen = "ok"
    BY DEF Row, Rows, CleanTask
  <2>2. QED
    BY <2>1 DEF Core, LogInv, LogOK, RowOK
<1>9. FlowAccepted
  BY <1>2, <1>3, <1>4, <1>6, <1>7, <1>8 DEF FlowAccepted
<1>10. AcceptedOne /\ ~LostOne
  BY <1>2 DEF AcceptedOne, LostOne, Lost, CleanTask
<1>11. AcceptedLast
  BY <1>10 DEF Core, LogInv, LogOK
<1>12. QED
  BY <1>2, <1>3, <1>6, <1>9, <1>11 DEF Claimed, LostResponse

LEMMA OneMore ==
  ASSUME NEW P, IsFiniteSet(P), NEW x, x \notin P
  PROVE  IsFiniteSet(P \cup {x}) /\ Cardinality(P \cup {x}) = Cardinality(P) + 1
BY FS_AddElement

LEMMA ThreeInSet ==
  ASSUME NEW S, IsFiniteSet(S), NEW a \in S, NEW b \in S, NEW c \in S, a # b, b # c, a # c
  PROVE  Cardinality(S) > 2
<1>1. IsFiniteSet({a}) /\ Cardinality({a}) = 1
  BY FS_Singleton
<1>2. IsFiniteSet({a} \cup {b}) /\ Cardinality({a} \cup {b}) = 2
  <2>1. b \notin {a}
    OBVIOUS
  <2>2. QED
    BY <1>1, <2>1, OneMore
<1>3. IsFiniteSet(({a} \cup {b}) \cup {c}) /\ Cardinality(({a} \cup {b}) \cup {c}) = 3
  <2> DEFINE P == {a} \cup {b}
  <2>1. IsFiniteSet(P) /\ Cardinality(P) = 2 /\ c \notin P
    BY <1>2
  <2> HIDE DEF P
  <2>2. IsFiniteSet(P \cup {c}) /\ Cardinality(P \cup {c}) = Cardinality(P) + 1
    BY <2>1, OneMore
  <2>3. Cardinality(P \cup {c}) = 3
    BY <2>1, <2>2
  <2>4. QED
    BY <2>2, <2>3 DEF P
<1>4. Cardinality(({a} \cup {b}) \cup {c}) <= Cardinality(S)
  BY FS_Subset
<1>5. Cardinality(S) \in Nat
  BY FS_CardinalityType
<1>6. QED
  BY <1>3, <1>4, <1>5

\* With at most two receipts of the finalize, both are the same accepted one: a refused one
\* would lie between two accepted ones.
LEMMA CleanFinalizes ==
  ASSUME Core, CleanTask, CleanReceipts
  PROVE  /\ ReceiptsFound /\ PlainAccepted
         /\ FirstFinalize.status = "ok" /\ FirstFinalize.out = verdict
<1>0. /\ Len(journal) \in Nat /\ Claimed = pinned /\ pinned \in Args /\ pinned.digest = Prepared
      /\ verdict = pinned.payload
  BY LogLength, CleanFlow
<1>1. ASSUME NEW k \in 1..Len(journal), journal[k].tool = "finalize", journal[k].args = pinned
      PROVE  k \in ClaimedFinalizes /\ journal[k].status # "mismatch"
  <2>1. FinalizeOK(journal[k])
    BY <1>1 DEF Core, ServerInv, JournalOK, ReceiptOK
  <2>2. journal[k].digest = Prepared
    BY <1>0, <1>1, <2>1 DEF FinalizeOK
  <2>3. QED
    BY <1>0, <1>1, <2>1, <2>2 DEF FinalizeOK, ClaimedFinalizes, ReceiptsOf
<1>2. ASSUME NEW k \in ClaimedFinalizes
      PROVE  k \in 1..Len(journal) /\ journal[k].tool = "finalize" /\ FinalizeOK(journal[k])
             /\ journal[k].digest = Prepared
  BY <1>0 DEF ClaimedFinalizes, ReceiptsOf, Core, ServerInv, JournalOK, ReceiptOK
<1>3. ASSUME NEW k \in ClaimedFinalizes PROVE journal[k].status = "ok"
  <2>1. SUFFICES ASSUME journal[k].status = "transport" PROVE FALSE
    BY <1>2 DEF FinalizeOK
  <2>2. k \in 1..Len(journal)
    BY <1>2
  <2>3. PICK i \in 1..(k - 1) : Reached(i)
    BY <2>1, <2>2 DEF Core, ServerInv, JournalOK
  <2>4. PICK m \in (k + 1)..Len(journal) :
           journal[m].tool = "finalize" /\ journal[m].args = pinned /\ journal[m].status = "ok"
    BY <2>1, <2>2, CleanFlow DEF AcceptedLast, AcceptedAfter
  <2>5. i \in 1..Len(journal) /\ m \in 1..Len(journal) /\ i # k /\ k # m /\ i # m
    BY <1>0, <2>2, <2>3, <2>4
  <2>6. i \in ClaimedFinalizes /\ m \in ClaimedFinalizes
    BY <1>1, <2>3, <2>4, <2>5 DEF Reached
  <2>7. Cardinality(ClaimedFinalizes) > 2
    BY <2>5, <2>6, LogLength, ThreeInSet
  <2>8. QED
    BY <2>7, LogLength, FS_CardinalityType DEF CleanReceipts
<1>4. ASSUME NEW k \in ClaimedFinalizes
      PROVE  journal[k] = Receipt("finalize", pinned, Prepared, "ok", verdict)
  <2>1. /\ journal[k] \in Receipts /\ journal[k].tool = "finalize" /\ journal[k].status = "ok"
        /\ journal[k].args \in Args /\ journal[k].digest = Prepared
        /\ journal[k].args.digest = Prepared
        /\ journal[k].args.payload = pinned.payload /\ journal[k].out = verdict
    BY <1>0, <1>2, <1>3, ElementOfSeq DEF FinalizeOK, Core, ServerInv, ServerTyped
  <2>2. journal[k].args = pinned
    BY <1>0, <2>1, SameArgs
  <2>3. QED
    BY <2>1, <2>2 DEF Receipts, Receipt
<1>5. ClaimedFinalizes # {}
  BY <1>1, CleanFlow DEF HasReceipt
<1>6. Cardinality(ClaimedFinalizes) \in {1, 2}
  <2>1. Cardinality(ClaimedFinalizes) \in Nat /\ Cardinality(ClaimedFinalizes) # 0
    BY <1>5, LogLength, FS_CardinalityType, FS_EmptySet
  <2>2. QED
    BY <2>1 DEF CleanReceipts
<1>7. Prepares # {}
  <2>1. PICK k \in ClaimedFinalizes : TRUE
    BY <1>5
  <2>2. 1 \in 1..Len(journal) /\ journal[1].tool = "prepare"
    BY <1>0, <1>2, <2>1 DEF Core, ServerInv, JournalOK
  <2>3. ASSUME NEW j \in ClaimedFinalizes PROVE 1 < j
    <3>1. j \in 1..Len(journal) /\ j # 1
      BY <1>2, <2>2
    <3>2. QED
      BY <3>1
  <2>4. 1 \in Prepares
    BY <2>2, <2>3 DEF Prepares, ReceiptsOf
  <2>5. QED
    BY <2>4
<1>8. ReceiptsFound
  BY <1>6, <1>7 DEF ReceiptsFound, CleanReceipts
<1>9. FirstFinalize = Receipt("finalize", pinned, Prepared, "ok", verdict)
  BY <1>4, <1>8, TheReceipts DEF FirstFinalize
<1>10. FirstFinalize.status = "ok" /\ FirstFinalize.out = verdict
  BY <1>9 DEF Receipt
<1>11. PlainAccepted
  BY <1>0, <1>4, <1>8, <1>9, <1>10, TheReceipts DEF PlainAccepted
<1>12. QED
  BY <1>8, <1>10, <1>11

\* A poll that refuses a task did not find it clean.
LEMMA PollAccepts ==
  ASSUME TrustAssumption, Core, Core', PollTyped, PollResult, result' = "rejected",
         CleanTask', CleanReceipts', CleanAnswer'
  PROVE  FALSE
<1>0. UNCHANGED <<log, answer, tasks>>
  BY DEF PollResult
<1>1. CleanTask
  BY <1>0 DEF CleanTask
<1>2. FlowAccepted /\ ~LostResponse /\ Claimed = pinned /\ pinned.digest = Prepared
  BY <1>1, CleanFlow
<1>3. ASSUME UNCHANGED server
      PROVE  CleanReceipts /\ CleanAnswer
  <2>1. Row("finalize")' = Row("finalize")
    BY <1>0 DEF Row, Rows
  <2>2. Claimed' = Claimed
    BY <1>0, <2>1 DEF Claimed
  <2>3. ClaimedFinalizes' = ClaimedFinalizes
    BY <1>3, <2>2 DEF ClaimedFinalizes, ReceiptsOf, server
  <2>4. Prepares' = Prepares
    BY <1>3, <2>3 DEF Prepares, ReceiptsOf, server
  <2>5. QED
    BY <1>0, <1>3, <2>3, <2>4 DEF CleanReceipts, CleanAnswer, server
<1>4. ASSUME UNCHANGED server
      PROVE  /\ ReceiptsFound /\ FirstFinalize.status = "ok"
             /\ PlainAccepted /\ IsOutput(FirstFinalize.out)
  BY <1>1, <1>3, <1>4, CleanFinalizes DEF CleanAnswer, IsOutput
<1>5. CASE ~(FlowAccepted /\ ReceiptsFound) /\ UNCHANGED server
  BY <1>2, <1>4, <1>5
<1>6. CASE /\ UNCHANGED server
           /\ Conclude(IF PlainAccepted /\ IsOutput(FirstFinalize.out)
                     THEN answer.payload ELSE "rejected")
  <2>1. Conclude(answer.payload)
    BY <1>4, <1>6
  <2>2. PICK p \in Payloads : p = answer.payload
    BY DEF PollTyped
  <2>3. Conclude(p)
    BY <2>1, <2>2
  <2>4. result' = p \/ result' = None
    BY <2>3 DEF Conclude, PollTyped
  <2>5. QED
    BY <2>4 DEF TrustAssumption
<1>7. CASE /\ FlowAccepted /\ ReceiptsFound
           /\ FirstFinalize.status # "ok"
           /\ IF DigestRepairable /\ pending # None
              THEN /\ RepairWith([payload |-> pending.payload, digest |-> Prepared], 1)
                   /\ pending' = None
                   /\ UNCHANGED pinned
              ELSE Conclude("rejected") /\ UNCHANGED <<server, override>>
  <2>1. CASE DigestRepairable
    <3>1. FirstFinalize.status = "mismatch" /\ FirstFinalize.digest = Prepared
      BY <1>2, <1>7, <2>1, TheReceipts DEF DigestRepairable
    <3>2. QED
      BY <1>7, <3>1, TheReceipts DEF FinalizeOK
  <2>2. CASE ~DigestRepairable
    BY <1>4, <1>7, <2>2
  <2>3. QED
    BY <2>1, <2>2
<1>8. QED
  BY <1>2, <1>5, <1>6, <1>7 DEF PollResult

-----------------------------------------------------------------------------
(* The theorems.                                                           *)

LEMMA InvSplits ==
  TrustInv <=> /\ Core
           /\ override \in Payloads \cup {None}
           /\ result \in Payloads \cup {None, "rejected"}
           /\ answer \in [payload: Payloads, whole: BOOLEAN] \cup {None}
           /\ tasks \in 1..MaxTasks
           /\ polls \in 0..MaxPending
           /\ PhaseOK /\ OnlyTheTasksVerdict /\ CleanReviewAccepted
BY DEF TrustInv, TrustTypeOK, Core, ServerInv, ServerTyped, LogInv

\* While the backend has returned nothing, nothing is claimed of what it returned.
LEMMA NothingReturned ==
  ASSUME TrustAssumption, result = None
  PROVE  OnlyTheTasksVerdict /\ CleanReviewAccepted
BY DEF TrustAssumption, OnlyTheTasksVerdict, CleanReviewAccepted

LEMMA InitHolds == TrustAssumption /\ TrustInit => TrustInv
<1> SUFFICES ASSUME TrustAssumption, TrustInit PROVE TrustInv
  OBVIOUS
<1>1. Len(journal) = 0 /\ Len(log) = 0 /\ journal \in Seq(Receipts) /\ log \in Seq(LogRows)
  BY EmptySeq DEF TrustInit
<1>2. ServerInv
  BY <1>1 DEF ServerInv, ServerTyped, ServerOK, JournalOK, TrustInit
<1>3. LogInv
  BY <1>1 DEF LogInv, LogOK, CopiesOK, AcceptedOne
<1>4. OnlyTheTasksVerdict /\ CleanReviewAccepted
  BY NothingReturned DEF TrustInit
<1>5. tasks \in 1..MaxTasks /\ polls \in 0..MaxPending
  BY DEF TrustInit, TrustAssumption
<1>6. QED
  BY <1>2, <1>3, <1>4, <1>5, InvSplits DEF Core, TrustInit, PhaseOK

\* The steps of a task that has not answered.
LEMMA RunningHolds ==
  ASSUME TrustAssumption, TrustInv, Running, Core', UNCHANGED <<backend, tasks>>,
         \/ UNCHANGED answer
         \/ answer' \in [payload: Payloads, whole: BOOLEAN]
  PROVE  TrustInv'
<1>1. result = None
  BY DEF TrustInv, PhaseOK, Running
<1>2. UNCHANGED <<override, result, polls, tasks>>
  BY DEF backend
<1>3. OnlyTheTasksVerdict' /\ CleanReviewAccepted'
  BY <1>1, <1>2 DEF TrustAssumption, OnlyTheTasksVerdict, CleanReviewAccepted
<1>4. PhaseOK'
  BY <1>1, <1>2 DEF PhaseOK
<1>5. answer' \in [payload: Payloads, whole: BOOLEAN] \cup {None}
  BY InvSplits
<1>6. QED
  BY <1>2, <1>3, <1>4, <1>5, InvSplits DEF TrustInv, TrustTypeOK, Core, ServerInv, ServerTyped, LogInv

LEMMA PollHolds ==
  ASSUME TrustAssumption, TrustInv, PollResult
  PROVE  TrustInv'
<1>1. Core /\ PollTyped
  BY InvSplits DEF PollTyped, PollResult
<1>2. UNCHANGED <<log, answer, tasks>> /\ answer # None
  BY DEF PollResult
<1>3. Core' /\ Returned
  BY <1>1, PollReturned
<1>4. Claimed' = Claimed
  <2>1. Row("finalize")' = Row("finalize")
    BY <1>2 DEF Row, Rows
  <2>2. QED
    BY <1>2, <2>1 DEF Claimed
<1>5. OnlyTheTasksVerdict'
  BY <1>3, <1>4 DEF Returned, OnlyTheTasksVerdict
<1>6. CleanReviewAccepted'
  BY <1>1, <1>3, PollAccepts DEF CleanReviewAccepted
<1>7. PhaseOK'
  BY <1>2 DEF PhaseOK
<1>8. QED
  BY <1>2, <1>3, <1>5, <1>6, <1>7, InvSplits DEF Returned, TrustInv, TrustTypeOK, Core, ServerInv,
     ServerTyped, LogInv

LEMMA NextTaskHolds ==
  ASSUME TrustAssumption, TrustInv, NextTask
  PROVE  TrustInv'
<1>1. Core'
  BY InvSplits, NextTaskKeeps
<1>2. answer' = None /\ override' = None /\ result' = None /\ polls' = 0 /\ tasks' = tasks + 1
      /\ tasks < MaxTasks
  BY DEF NextTask
<1>3. OnlyTheTasksVerdict' /\ CleanReviewAccepted'
  BY <1>2 DEF TrustAssumption, OnlyTheTasksVerdict, CleanReviewAccepted
<1>4. tasks' \in 1..MaxTasks /\ polls' \in 0..MaxPending
  BY <1>2, InvSplits DEF TrustAssumption
<1>5. QED
  BY <1>1, <1>2, <1>3, <1>4 DEF TrustInv, TrustTypeOK, Core, ServerInv, ServerTyped, LogInv, PhaseOK

LEMMA NextHolds ==
  ASSUME TrustAssumption, TrustInv, [TrustNext]_trustVars
  PROVE  TrustInv'
<1>0. Core
  BY InvSplits
<1>1. CASE Prepare
  BY <1>0, <1>1, PrepareKeeps, RunningHolds DEF Prepare
<1>2. CASE SeafLookup
  BY <1>0, <1>2, LookupKeeps, RunningHolds DEF SeafLookup
<1>3. CASE Mirror
  BY <1>0, <1>3, MirrorKeeps, RunningHolds DEF Mirror
<1>4. CASE TaskAnswers
  <2>1. Core'
    BY <1>0, <1>4, CoreUnchanged DEF TaskAnswers
  <2>2. answer' \in [payload: Payloads, whole: BOOLEAN]
    BY <1>4 DEF TaskAnswers
  <2>3. QED
    BY <1>4, <2>1, <2>2, RunningHolds DEF TaskAnswers
<1>5. CASE NextTask
  BY <1>5, NextTaskHolds
<1>6. CASE PollResult
  BY <1>6, PollHolds
<1>7. CASE \E args \in Args : Finalize(args)
  <2>1. PICK args \in Args : Finalize(args)
    BY <1>7
  <2>2. Core'
    BY <1>0, <2>1, RefusedKeeps, FinalizeKeeps
  <2>3. Running /\ UNCHANGED <<answer, backend, tasks>>
    BY <2>1 DEF Finalize
  <2>4. QED
    BY <2>2, <2>3, RunningHolds
<1>8. CASE UNCHANGED trustVars
  <2>1. Core'
    BY <1>0, <1>8, CoreUnchanged DEF trustVars
  <2>2. UNCHANGED <<journal, pinned, pending, verdict, log, answer, override, result, tasks, polls>>
    BY <1>8 DEF trustVars, server, backend
  <2>3. Row("finalize")' = Row("finalize")
    BY <2>2 DEF Row, Rows
  <2>4. Claimed' = Claimed
    BY <2>2, <2>3 DEF Claimed
  <2>5. OnlyTheTasksVerdict'
    BY <2>2, <2>4 DEF TrustInv, OnlyTheTasksVerdict
  <2>6. ClaimedFinalizes' = ClaimedFinalizes
    BY <2>2, <2>4 DEF ClaimedFinalizes, ReceiptsOf
  <2>7. Prepares' = Prepares
    BY <2>2, <2>6 DEF Prepares, ReceiptsOf
  <2>8. CleanReviewAccepted'
    BY <2>2, <2>6, <2>7 DEF TrustInv, CleanReviewAccepted, CleanTask, CleanReceipts, CleanAnswer
  <2>9. QED
    BY <2>1, <2>2, <2>5, <2>8, InvSplits DEF TrustInv, TrustTypeOK, Core, ServerInv, ServerTyped, LogInv,
       PhaseOK
<1>9. QED
  BY <1>1, <1>2, <1>3, <1>4, <1>5, <1>6, <1>7, <1>8 DEF TrustNext

\* The inductive invariant holds in every reachable state.
THEOREM TrustInvHolds ==
  ASSUME TrustAssumption
  PROVE  TrustSpec => []TrustInv
<1>1. TrustInit => TrustInv
  BY InitHolds
<1>2. TrustInv /\ [TrustNext]_trustVars => TrustInv'
  BY NextHolds
<1>3. QED
  BY <1>1, <1>2, PTL DEF TrustSpec

\* What get_task_result returns is the verdict the review service has bound and the one
\* this very task finalized, and a clean task is not refused, for any number of payloads,
\* digests, receipts, rows, tasks of the review and polls.
THEOREM TrustedResultsAreExact ==
  ASSUME TrustAssumption
  PROVE  TrustSpec => []TrustIsExact
<1>1. TrustInv => TrustIsExact
  BY DEF TrustInv, TrustIsExact
<1>2. QED
  BY <1>1, TrustInvHolds, PTL

-----------------------------------------------------------------------------
(* The cost: what a set of calls costs, and what the rows of the window    *)
(* that are not garbled add up to.                                         *)

\* The cost of some calls c.
CostAmong(c, ids) == MapThenSumSet(LAMBDA i : c[i].cost, ids)

CostWeights(c, ids) == [i \in ids |-> c[i].cost]

LEMMA CostIsSum ==
  ASSUME NEW c, NEW S, IsFiniteSet(S)
  PROVE  CostAmong(c, S) = Sum(CostWeights(c, S), S)
<1> DEFINE w == CostWeights(c, S)
           T(g) == g = [s \in SUBSET S |-> IF s = {} THEN 0
                          ELSE c[CHOOSE x \in s : TRUE].cost + g[s \ {CHOOSE x \in s : TRUE}]]
<1>1. CostAmong(c, S) = (CHOOSE g : T(g))[S]
  BY DEF CostAmong, MapThenSumSet, MapThenFoldSet
<1>2. ASSUME NEW g PROVE T(g) <=> SumsUp(g, w, S)
  <2>1. ASSUME NEW s \in SUBSET S, s # {} PROVE w[Chosen(s)] = c[Chosen(s)].cost
    BY <2>1, ChosenIn DEF CostWeights
  <2> HIDE DEF w
  <2>2. [s \in SUBSET S |-> IF s = {} THEN 0 ELSE c[Chosen(s)].cost + g[s \ {Chosen(s)}]]
        = [s \in SUBSET S |-> IF s = {} THEN 0 ELSE w[Chosen(s)] + g[s \ {Chosen(s)}]]
    BY <2>1
  <2>3. QED
    BY <2>2 DEF SumsUp, Chosen
<1>3. PICK h : SumsUp(h, w, S) /\ Sum(w, S) = h[S]
  BY SumIsSum
<1> HIDE DEF T, w
<1>4. T(CHOOSE g : T(g))
  BY <1>2, <1>3
<1>5. SumsUp(CHOOSE g : T(g), w, S)
  BY <1>2, <1>4
<1>6. \A s \in SUBSET S : (CHOOSE g : T(g))[s] = h[s]
  BY <1>3, <1>5, SumsAgree
<1>7. QED
  BY <1>1, <1>3, <1>6 DEF w

\* The cost is that of each call and of nothing else.
LEMMA CostSame ==
  ASSUME NEW c, NEW d, NEW S, IsFiniteSet(S), \A i \in S : c[i].cost = d[i].cost
  PROVE  CostAmong(c, S) = CostAmong(d, S)
<1>1. CostWeights(c, S) = CostWeights(d, S)
  BY DEF CostWeights
<1>2. QED
  BY <1>1, CostIsSum

LEMMA CostOfIs ==
  /\ \A ids : CostOf(ids) = CostAmong(modelCalls, ids)
  /\ \A ids : CostOf(ids)' = CostAmong(modelCalls', ids)
<1>1. ASSUME NEW ids PROVE CostOf(ids) = CostAmong(modelCalls, ids)
  BY DEF CostOf, CostAmong, MapThenSumSet, MapThenFoldSet
<1>2. ASSUME NEW ids PROVE CostOf(ids)' = CostAmong(modelCalls', ids)
  BY DEF CostOf, CostAmong, MapThenSumSet, MapThenFoldSet
<1>3. QED
  BY <1>1, <1>2

LEMMA ObservedIs == ObservedCost = CostAmong(ShownEvents, CountedRows)
BY DEF ObservedCost, CostAmong, MapThenSumSet, MapThenFoldSet

LEMMA RoundedNear ==
  ASSUME NEW c \in Int
  PROVE  Rounded(c) \in Int /\ Rounded(c) - c \in -2..2
BY DEF Rounded

-----------------------------------------------------------------------------
(* The cost: its inductive invariant.                                      *)

PhysicalCall == [cost : Costs, settled : BOOLEAN]

Accountings == [cost : Int, rounds : Nat, final : BOOLEAN]

CostRows == [type : {"llm_usage"}, ids : SUBSET Nat, cost : Nat]

CostCheckpoints == [type : {"task_cost_finalized"}, accounting : Accountings]

\* A final accounting is the accounting of every call there is or will be.
Exact(accounting) == accounting.final => Settled /\ accounting = Accounting(TRUE)

AllSeen == \A i \in Ids : \E j \in DOMAIN events : events[j].type = "llm_usage" /\ i \in events[j].ids

CostTypes ==
  /\ routesPinned \in BOOLEAN
  /\ modelCalls \in Seq(PhysicalCall)
  /\ events \in Seq(CostRows \cup CostCheckpoints)
  /\ terminal # None => terminal \in Accountings
  /\ decision \in {"pending", "rejected", "accepted"}

CostInv ==
  /\ CostTypes
  /\ \A i \in DOMAIN events : events[i].type = "llm_usage" => events[i].ids \subseteq Ids
  /\ \A i \in DOMAIN events : events[i].type = "task_cost_finalized" => Exact(events[i].accounting)
  /\ terminal # None => Exact(terminal)
  /\ Accepted => LastWord /\ charged = Accounting(TRUE) /\ Settled
  /\ Accepted /\ ~routesPinned => AllSeen

\* The calls are a finite set, and none costs less than nothing.
LEMMA CallsAre ==
  ASSUME CostAssumption, CostTypes
  PROVE  /\ Len(modelCalls) \in Nat /\ Ids = 1..Len(modelCalls) /\ DOMAIN modelCalls = Ids
         /\ IsFiniteSet(Ids) /\ Cardinality(Ids) = Len(modelCalls)
         /\ \A i \in Ids : modelCalls[i].cost \in Nat /\ modelCalls[i].settled \in BOOLEAN
<1>1. Len(modelCalls) \in Nat /\ DOMAIN modelCalls = 1..Len(modelCalls)
      /\ \A i \in 1..Len(modelCalls) : modelCalls[i] \in PhysicalCall
  BY DEF CostTypes
<1>2. IsFiniteSet(1..Len(modelCalls)) /\ Cardinality(1..Len(modelCalls)) = Len(modelCalls)
  <2>1. 1 \in Int /\ Len(modelCalls) \in Int /\ (1 > Len(modelCalls) => Len(modelCalls) = 0)
        /\ Len(modelCalls) - 1 + 1 = Len(modelCalls)
    BY <1>1
  <2>2. QED
    BY <2>1, FS_Interval
<1>3. \A i \in 1..Len(modelCalls) : modelCalls[i].cost \in Nat /\ modelCalls[i].settled \in BOOLEAN
  BY <1>1 DEF CostAssumption, PhysicalCall
<1>4. Ids = 1..Len(modelCalls)
  BY DEF Ids
<1>5. QED
  BY <1>1, <1>2, <1>3, <1>4

LEMMA SomeCost ==
  ASSUME CostAssumption, CostTypes, NEW S \in SUBSET Ids
  PROVE  IsFiniteSet(S) /\ CostOf(S) \in Nat /\ CostOf(S) <= CostOf(Ids) /\ Cardinality(S) <= Len(modelCalls)
         /\ (Cardinality(S) = Len(modelCalls) => S = Ids) /\ Cardinality(S) \in Nat
<1> DEFINE w == CostWeights(modelCalls, Ids)
           v == CostWeights(modelCalls, S)
<1>1. /\ IsFiniteSet(Ids) /\ Cardinality(Ids) = Len(modelCalls)
      /\ \A i \in Ids : modelCalls[i].cost \in Nat
  BY CallsAre
<1>2. IsFiniteSet(S) /\ Cardinality(S) <= Cardinality(Ids)
      /\ (Cardinality(S) = Cardinality(Ids) => S = Ids)
  BY <1>1, FS_Subset
<1>3. Cardinality(S) \in Nat
  BY <1>2, FS_CardinalityType
<1>4. \A i \in Ids : w[i] \in Nat
  BY <1>1 DEF CostWeights
<1>5. \A i \in S : v[i] = w[i]
  BY DEF CostWeights
<1> HIDE DEF w, v
<1>6. Sum(w, S) = Sum(v, S)
  BY <1>2, <1>5, SumAgrees
<1>7. Sum(w, S) <= Sum(w, Ids)
  BY <1>1, <1>4, SumOfPart
<1>8. Sum(w, S) \in Nat
  <2>1. \A i \in S : w[i] \in Nat
    BY <1>4
  <2>2. QED
    BY <1>2, <2>1, SumType
<1>9. CostOf(S) = Sum(v, S) /\ CostOf(Ids) = Sum(w, Ids)
  BY <1>1, <1>2, CostIsSum, CostOfIs DEF v, w
<1>10. QED
  BY <1>1, <1>2, <1>3, <1>6, <1>7, <1>8, <1>9

LEMMA AccountingIs ==
  ASSUME CostAssumption, CostTypes, NEW final \in BOOLEAN
  PROVE  Accounting(final) \in Accountings
<1>1. CostOf(Ids) \in Nat /\ Len(modelCalls) \in Nat
  BY SomeCost, CallsAre
<1>2. Rounded(CostOf(Ids)) \in Int
  BY <1>1, RoundedNear
<1>3. QED
  BY <1>1, <1>2 DEF Accounting, Accountings

\* One event more.
LEMMA EventAdded ==
  ASSUME CostTypes, NEW e \in CostRows \cup CostCheckpoints, events' = Append(events, e)
  PROVE  /\ events' \in Seq(CostRows \cup CostCheckpoints)
         /\ DOMAIN events \subseteq DOMAIN events'
         /\ \A i \in DOMAIN events : events'[i] = events[i]
         /\ \A i \in DOMAIN events' : i \in DOMAIN events \/ events'[i] = e
         /\ \E i \in DOMAIN events' : events'[i] = e
BY DEF CostTypes

\* What is settled for good is not disturbed by the rest.
LEMMA QuietCost ==
  ASSUME CostAssumption, CostInv, UNCHANGED <<modelCalls, terminal, decided>>,
         NEW e \in CostRows \cup CostCheckpoints, events' = Append(events, e),
         e.type = "llm_usage" => e.ids \subseteq Ids,
         e.type = "task_cost_finalized" => Exact(e.accounting)
  PROVE  CostInv'
<1>1. /\ Ids' = Ids /\ Settled' = Settled /\ Accounting(TRUE)' = Accounting(TRUE)
      /\ UNCHANGED <<modelCalls, terminal, decision, charged, routesPinned>>
  BY DEF decided, Ids, Settled, Accounting, CostOf, MapThenSumSet, MapThenFoldSet, Rounded
<1>2. \A a : Exact(a)' <=> Exact(a)
  BY <1>1 DEF Exact
<1>3. /\ events' \in Seq(CostRows \cup CostCheckpoints)
      /\ DOMAIN events \subseteq DOMAIN events'
      /\ \A i \in DOMAIN events : events'[i] = events[i]
      /\ \A i \in DOMAIN events' : i \in DOMAIN events \/ events'[i] = e
  BY EventAdded DEF CostInv
<1>4. CostTypes'
  BY <1>1, <1>3 DEF CostInv, CostTypes, Accountings, PhysicalCall
<1>5. LastWord => LastWord'
  BY <1>1, <1>3 DEF LastWord
<1>6. AllSeen => AllSeen'
  BY <1>1, <1>3 DEF AllSeen
<1>7. Accepted' = Accepted
  BY <1>1 DEF Accepted
<1>8. QED
  BY <1>1, <1>2, <1>3, <1>4, <1>5, <1>6, <1>7 DEF CostInv

LEMMA CostStarts == ASSUME CostAssumption PROVE CostInit => CostInv
BY DEF CostInit, CostInv, CostTypes, PhysicalCall, Accepted

LEMMA SettleStep == ASSUME CostAssumption, CostInv, SettleCall PROVE CostInv'
<1>1. PICK i \in Ids : ~modelCalls[i].settled /\ modelCalls' = [modelCalls EXCEPT ![i].settled = TRUE]
  BY DEF SettleCall
<1>2. UNCHANGED <<events, terminal, decision, charged, routesPinned>>
  BY DEF SettleCall, decided
<1>3. /\ Len(modelCalls) \in Nat /\ DOMAIN modelCalls = Ids /\ Ids = 1..Len(modelCalls)
      /\ modelCalls \in Seq(PhysicalCall) /\ IsFiniteSet(Ids)
  BY CallsAre DEF CostInv, CostTypes
<1> DEFINE c == [modelCalls[i] EXCEPT !.settled = TRUE]
<1>4. \A j \in Ids : modelCalls[j] \in PhysicalCall
  BY <1>3
<1>5. c \in PhysicalCall /\ c.cost = modelCalls[i].cost /\ c.settled
  BY <1>4 DEF PhysicalCall
<1> HIDE DEF c
<1>6. modelCalls' = [modelCalls EXCEPT ![i] = c]
  BY <1>1 DEF c
<1>7. modelCalls' \in Seq(PhysicalCall) /\ Len(modelCalls') = Len(modelCalls)
  BY <1>3, <1>5, <1>6
<1>8. /\ \A j \in Ids : modelCalls'[j].cost = modelCalls[j].cost
      /\ \A j \in Ids : modelCalls[j].settled => modelCalls'[j].settled
  BY <1>3, <1>5, <1>6
<1>9. Ids' = Ids
  BY <1>7 DEF Ids
<1>10. CostOf(Ids)' = CostOf(Ids)
  <2>1. CostOf(Ids)' = CostAmong(modelCalls', Ids)
    BY <1>9, CostOfIs DEF CostOf, CostAmong, MapThenSumSet, MapThenFoldSet
  <2>2. QED
    BY <1>3, <1>8, <2>1, CostSame, CostOfIs
<1>11. Accounting(TRUE)' = Accounting(TRUE)
  BY <1>7, <1>10 DEF Accounting, Rounded
<1>12. Settled => Settled'
  BY <1>8, <1>9 DEF Settled
<1>13. \A a : Exact(a) => Exact(a)'
  BY <1>11, <1>12 DEF Exact
<1>14. LastWord' = LastWord /\ AllSeen' = AllSeen /\ Accepted' = Accepted
  BY <1>2, <1>9 DEF LastWord, AllSeen, Accepted
<1>15. CostTypes'
  BY <1>2, <1>7 DEF CostInv, CostTypes, PhysicalCall
<1>16. QED
  BY <1>2, <1>9, <1>11, <1>12, <1>13, <1>14, <1>15 DEF CostInv

LEMMA TaskEndsStep == ASSUME CostAssumption, CostInv, TaskEnds PROVE CostInv'
<1>1. PICK final \in BOOLEAN : (final => Settled) /\ terminal' = Accounting(final)
  BY DEF TaskEnds
<1>2. terminal = None /\ UNCHANGED <<modelCalls, events, decision, charged, routesPinned>>
  BY DEF TaskEnds, decided
<1>3. terminal' \in Accountings /\ terminal'.final = final
  BY <1>1, AccountingIs DEF CostInv, Accounting
<1>4. Exact(terminal')
  BY <1>1, <1>3 DEF Exact
<1>5. /\ Ids' = Ids /\ Settled' = Settled /\ Accounting(TRUE)' = Accounting(TRUE)
  BY <1>2 DEF Ids, Settled, Accounting, CostOf, MapThenSumSet, MapThenFoldSet, Rounded
<1>6. \A a : Exact(a)' <=> Exact(a)
  BY <1>5 DEF Exact
<1>7. (LastWord => LastWord') /\ AllSeen' = AllSeen /\ Accepted' = Accepted
  BY <1>2, <1>5 DEF LastWord, AllSeen, Accepted
<1>8. CostTypes'
  BY <1>2, <1>3 DEF CostInv, CostTypes, Accountings, PhysicalCall
<1>9. terminal' # None => Exact(terminal)'
  BY <1>4, <1>5 DEF Exact
<1>10. QED
  BY <1>2, <1>5, <1>6, <1>7, <1>8, <1>9 DEF CostInv

LEMMA CheckpointStep == ASSUME CostAssumption, CostInv, WriteCheckpoint PROVE CostInv'
<1> DEFINE e == Checkpoint(Accounting(Settled))
<1>1. events' = Append(events, e) /\ UNCHANGED <<modelCalls, terminal, decided>>
  BY DEF WriteCheckpoint
<1>2. Settled \in BOOLEAN
  BY DEF Settled
<1>3. Accounting(Settled) \in Accountings /\ Accounting(Settled).final = Settled
  BY <1>2, AccountingIs DEF CostInv, Accounting
<1>4. Settled => Settled = TRUE
  BY <1>2
<1>5. Exact(Accounting(Settled))
  BY <1>3, <1>4 DEF Exact
<1>6. e \in CostCheckpoints /\ e.type = "task_cost_finalized" /\ e.accounting = Accounting(Settled)
  BY <1>3 DEF Checkpoint, CostCheckpoints
<1> HIDE DEF e
<1>7. QED
  BY <1>1, <1>5, <1>6, QuietCost

LEMMA MirrorRowStep == ASSUME CostAssumption, CostInv, MirrorRow PROVE CostInv'
<1>1. PICK i \in DOMAIN events : events[i].type = "llm_usage" /\ events' = Append(events, events[i])
  BY DEF MirrorRow
<1>2. UNCHANGED <<modelCalls, terminal, decided>>
  BY DEF MirrorRow
<1>3. events[i] \in CostRows \cup CostCheckpoints /\ events[i].ids \subseteq Ids
  BY <1>1 DEF CostInv, CostTypes
<1>4. QED
  BY <1>1, <1>2, <1>3, QuietCost

LEMMA GarbleStep == ASSUME CostAssumption, CostInv, Garble PROVE CostInv'
<1>1. PICK ids \in SUBSET Ids, cost \in Costs : events' = Append(events, Usage(ids, cost))
  BY DEF Garble
<1>2. UNCHANGED <<modelCalls, terminal, decided>>
  BY DEF Garble
<1>3. /\ Usage(ids, cost) \in CostRows /\ Usage(ids, cost).type = "llm_usage"
      /\ Usage(ids, cost).ids \subseteq Ids
  BY CallsAre DEF Usage, CostRows, CostAssumption, CostInv
<1>4. QED
  BY <1>1, <1>2, <1>3, QuietCost

LEMMA CallStepCost == ASSUME CostAssumption, CostInv, ModelCall PROVE CostInv'
<1>1. PICK cost \in Costs, n \in 1..2, settled \in BOOLEAN, shown \in BOOLEAN :
        LET ids == (Len(modelCalls) + 1)..(Len(modelCalls) + n) IN
        /\ modelCalls' = modelCalls \o [i \in 1..n |-> [cost |-> cost, settled |-> settled]]
        /\ IF shown THEN events' = Append(events, Usage(ids, n * cost)) ELSE UNCHANGED events
  BY DEF ModelCall
<1>2. ~LastWord /\ UNCHANGED <<terminal, decision, charged, routesPinned>>
  BY DEF ModelCall, decided
<1> DEFINE ids == (Len(modelCalls) + 1)..(Len(modelCalls) + n)
           row == Usage(ids, n * cost)
           more == [i \in 1..n |-> [cost |-> cost, settled |-> settled]]
<1>3. Len(modelCalls) \in Nat /\ Ids = 1..Len(modelCalls) /\ modelCalls \in Seq(PhysicalCall)
  BY CallsAre DEF CostInv, CostTypes
<1>4. modelCalls' \in Seq(PhysicalCall) /\ Len(modelCalls') = Len(modelCalls) + n
  <2>1. more \in Seq(PhysicalCall) /\ Len(more) = n
    BY DEF PhysicalCall
  <2> HIDE DEF more
  <2>2. modelCalls' = modelCalls \o more
    BY <1>1 DEF more
  <2>3. QED
    BY <1>3, <2>1, <2>2 DEF PhysicalCall
<1>5. Ids \subseteq Ids' /\ ids \subseteq Ids' /\ ids \subseteq Nat
  BY <1>3, <1>4 DEF Ids
<1>6. row \in CostRows /\ row.type = "llm_usage" /\ row.ids \subseteq Ids'
  <2>1. n * cost \in Nat
    BY DEF CostAssumption
  <2>2. QED
    BY <1>5, <2>1 DEF Usage, CostRows
<1>7. events' = Append(events, row) \/ events' = events
  BY <1>1
<1> HIDE DEF ids, row, more
<1>8. /\ events' \in Seq(CostRows \cup CostCheckpoints)
      /\ \A i \in DOMAIN events : i \in DOMAIN events' /\ events'[i] = events[i]
      /\ \A i \in DOMAIN events' : (i \in DOMAIN events /\ events'[i] = events[i]) \/ events'[i] = row
  <2>1. CASE events' = events
    BY <2>1 DEF CostInv, CostTypes
  <2>2. CASE events' = Append(events, row)
    BY <1>6, <2>2, EventAdded DEF CostInv
  <2>3. QED
    BY <1>7, <2>1, <2>2
<1>9. \A i \in DOMAIN events : events[i].type = "task_cost_finalized" => ~events[i].accounting.final
  BY <1>2 DEF LastWord
<1>10. terminal # None => ~terminal.final
  BY <1>2 DEF LastWord
<1>11. ~Accepted /\ Accepted' = Accepted
  BY <1>2 DEF CostInv, Accepted
<1>12. CostTypes'
  BY <1>2, <1>4, <1>8 DEF CostInv, CostTypes, PhysicalCall, Accountings
<1>13. \A i \in DOMAIN events' : events'[i].type = "llm_usage" => events'[i].ids \subseteq Ids'
  BY <1>5, <1>6, <1>8 DEF CostInv
<1>14. \A i \in DOMAIN events' : events'[i].type = "task_cost_finalized" => ~events'[i].accounting.final
  BY <1>6, <1>8, <1>9
<1>15. QED
  BY <1>2, <1>10, <1>11, <1>12, <1>13, <1>14 DEF CostInv, Exact

-----------------------------------------------------------------------------
(* The cost: what the validation decides.                                  *)

\* The window shows the end of the log.
LEMMA ShownAre ==
  ASSUME CostAssumption, CostTypes
  PROVE  /\ ShownEvents \in Seq(CostRows \cup CostCheckpoints)
         /\ Len(ShownEvents) \in Nat /\ DOMAIN ShownEvents = 1..Len(ShownEvents)
         /\ \A i \in DOMAIN ShownEvents : \E j \in DOMAIN events : ShownEvents[i] = events[j]
<1> DEFINE n == Len(events)
           k == IF n > Limit THEN n - Limit + 1 ELSE 1
<1>1. n \in Nat /\ DOMAIN events = 1..n /\ k \in Nat /\ k >= 1
      /\ \A i \in 1..n : events[i] \in CostRows \cup CostCheckpoints
  BY DEF CostTypes, CostAssumption
<1>2. ShownEvents = SubSeq(events, k, n)
  BY DEF ShownEvents
<1> HIDE DEF n, k
<1>3. \A i \in k..n : events[i] \in CostRows \cup CostCheckpoints
  BY <1>1
<1>4. /\ ShownEvents \in Seq(CostRows \cup CostCheckpoints)
      /\ Len(ShownEvents) = IF k <= n THEN n - k + 1 ELSE 0
      /\ \A i \in 1..(n - k + 1) : ShownEvents[i] = events[k + i - 1]
  BY <1>1, <1>2, <1>3, SubSeqProperties
<1>5. Len(ShownEvents) \in Nat /\ DOMAIN ShownEvents = 1..Len(ShownEvents)
  BY <1>4
<1>6. ASSUME NEW i \in DOMAIN ShownEvents
      PROVE  k + i - 1 \in DOMAIN events /\ ShownEvents[i] = events[k + i - 1]
  <2>1. i \in 1..(n - k + 1)
    BY <1>1, <1>4, <1>5
  <2>2. QED
    BY <1>1, <1>4, <2>1
<1>7. QED
  BY <1>4, <1>5, <1>6

LEMMA RowsAre ==
  ASSUME CostAssumption, CostInv
  PROVE  /\ UsageRows \subseteq 1..Len(ShownEvents) /\ Len(ShownEvents) \in Nat
         /\ \A i \in UsageRows :
              /\ ShownEvents[i] \in CostRows /\ ShownEvents[i].ids \subseteq Ids
              /\ \E j \in DOMAIN events : events[j].type = "llm_usage" /\ ShownEvents[i] = events[j]
<1>1. /\ ShownEvents \in Seq(CostRows \cup CostCheckpoints)
      /\ Len(ShownEvents) \in Nat /\ DOMAIN ShownEvents = 1..Len(ShownEvents)
      /\ \A i \in DOMAIN ShownEvents : \E j \in DOMAIN events : ShownEvents[i] = events[j]
  BY ShownAre DEF CostInv
<1>2. ASSUME NEW i \in UsageRows
      PROVE  /\ ShownEvents[i] \in CostRows /\ ShownEvents[i].ids \subseteq Ids
             /\ \E j \in DOMAIN events : events[j].type = "llm_usage" /\ ShownEvents[i] = events[j]
  <2>1. i \in DOMAIN ShownEvents /\ ShownEvents[i].type = "llm_usage"
    BY DEF UsageRows
  <2>2. ShownEvents[i] \in CostRows
    BY <1>1, <2>1 DEF CostCheckpoints
  <2>3. PICK j \in DOMAIN events : ShownEvents[i] = events[j]
    BY <1>1, <2>1
  <2>4. QED
    BY <2>1, <2>2, <2>3 DEF CostInv
<1>3. QED
  BY <1>1, <1>2 DEF UsageRows

\* The calls the window shows.
SeenCalls == UNION {ShownEvents[i].ids : i \in UsageRows}

LEMMA SeenAre ==
  ASSUME CostAssumption, CostInv
  PROVE  SeenCalls \in SUBSET Ids /\ ObservedCalls = Cardinality(SeenCalls)
BY RowsAre DEF SeenCalls, ObservedCalls

\* A row counts once, and so does every call of it.
LEMMA CountedAre ==
  ASSUME CostAssumption, CostInv, ~Garbled
  PROVE  /\ CountedRows \subseteq UsageRows /\ IsFiniteSet(CountedRows)
         /\ \A i, j \in CountedRows : i # j => ShownEvents[i].ids \cap ShownEvents[j].ids = {}
         /\ SeenCalls = UNION {ShownEvents[i].ids : i \in CountedRows}
         /\ \A i \in CountedRows : ShownEvents[i].cost = CostOf(ShownEvents[i].ids)
<1>1. /\ UsageRows \subseteq 1..Len(ShownEvents) /\ Len(ShownEvents) \in Nat
      /\ \A i \in UsageRows :
           \E j \in DOMAIN events : events[j].type = "llm_usage" /\ ShownEvents[i] = events[j]
  BY RowsAre
<1>2. CountedRows \subseteq UsageRows
  BY DEF CountedRows
<1>3. IsFiniteSet(CountedRows)
  <2>1. IsFiniteSet(1..Len(ShownEvents))
    BY <1>1, FS_Interval
  <2>2. CountedRows \subseteq 1..Len(ShownEvents)
    BY <1>1, <1>2
  <2>3. QED
    BY <2>1, <2>2, FS_Subset
<1>4. ASSUME NEW i \in UsageRows, NEW j \in UsageRows, ShownEvents[i] # ShownEvents[j]
      PROVE  ShownEvents[i].ids \cap ShownEvents[j].ids = {}
  BY <1>1, <1>4 DEF Garbled
<1>5. ASSUME NEW i \in CountedRows, NEW j \in CountedRows, i # j
      PROVE  ShownEvents[i] # ShownEvents[j]
  <2>1. i \in Nat /\ j \in Nat /\ i \in UsageRows /\ j \in UsageRows
    BY <1>1, <1>2
  <2>2. i < j \/ j < i
    BY <1>5, <2>1
  <2>3. QED
    BY <2>1, <2>2 DEF CountedRows
<1>6. ASSUME NEW r \in UsageRows
      PROVE  \E i \in CountedRows : ShownEvents[i] = ShownEvents[r]
  <2> DEFINE same == {i \in UsageRows : ShownEvents[i] = ShownEvents[r]}
  <2>1. same \in SUBSET Nat /\ r \in same
    BY <1>1
  <2>2. PICK i \in same : \A j \in same : i <= j
    <3> HIDE DEF same
    <3>1. QED
      BY <2>1, LeastIn
  <2>3. ASSUME NEW j \in UsageRows, j < i PROVE ShownEvents[j] # ShownEvents[i]
    BY <1>1, <2>2, <2>3
  <2>4. QED
    BY <2>2, <2>3 DEF CountedRows
<1>7. SeenCalls = UNION {ShownEvents[i].ids : i \in CountedRows}
  BY <1>2, <1>6 DEF SeenCalls
<1>8. ASSUME NEW i \in CountedRows PROVE ShownEvents[i].cost = CostOf(ShownEvents[i].ids)
  BY <1>1, <1>2 DEF Garbled
<1>9. QED
  BY <1>2, <1>3, <1>4, <1>5, <1>7, <1>8

\* What is seen is what it costs.
LEMMA HonestSum ==
  ASSUME CostAssumption, CostInv, ~Garbled
  PROVE  ObservedCost = CostOf(SeenCalls)
<1> DEFINE w == CostWeights(modelCalls, Ids)
           v == CostWeights(ShownEvents, CountedRows)
           ids == [i \in CountedRows |-> ShownEvents[i].ids]
<1>1. /\ CountedRows \subseteq UsageRows /\ IsFiniteSet(CountedRows)
      /\ \A i, j \in CountedRows : i # j => ShownEvents[i].ids \cap ShownEvents[j].ids = {}
      /\ SeenCalls = UNION {ShownEvents[i].ids : i \in CountedRows}
      /\ \A i \in CountedRows : ShownEvents[i].cost = CostOf(ShownEvents[i].ids)
  BY CountedAre
<1>2. \A i \in CountedRows : ids[i] = ShownEvents[i].ids /\ ids[i] \subseteq Ids
  BY <1>1, RowsAre
<1>3. IsFiniteSet(Ids) /\ \A i \in Ids : w[i] \in Nat
  BY CallsAre DEF CostInv, CostWeights
<1>4. ASSUME NEW S \in SUBSET Ids PROVE IsFiniteSet(S) /\ CostOf(S) = Sum(w, S)
  <2>1. IsFiniteSet(S)
    BY <1>3, FS_Subset
  <2>2. CostOf(S) = Sum(CostWeights(modelCalls, S), S)
    BY <2>1, CostIsSum, CostOfIs
  <2>3. \A i \in S : CostWeights(modelCalls, S)[i] = w[i]
    BY DEF CostWeights
  <2> HIDE DEF w
  <2>4. Sum(CostWeights(modelCalls, S), S) = Sum(w, S)
    BY <2>1, <2>3, SumAgrees
  <2>5. QED
    BY <2>1, <2>2, <2>4
<1>5. \A i \in CountedRows : v[i] = ShownEvents[i].cost
  BY DEF CostWeights
<1>6. SeenCalls = Whole(ids, CountedRows) /\ SeenCalls \in SUBSET Ids
  BY <1>1, <1>2, SeenAre DEF Whole
<1>7. ObservedCost = Sum(v, CountedRows)
  BY <1>1, ObservedIs, CostIsSum
<1>8. \A i \in CountedRows : IsFiniteSet(ids[i]) /\ v[i] = Sum(w, ids[i])
  BY <1>1, <1>2, <1>4, <1>5
<1>9. \A i \in CountedRows : \A x \in ids[i] : w[x] \in Nat
  BY <1>2, <1>3
<1>10. \A i, j \in CountedRows : i # j => ids[i] \cap ids[j] = {}
  BY <1>1, <1>2
<1> HIDE DEF w, v, ids
<1>11. Sum(v, CountedRows) = Sum(w, Whole(ids, CountedRows))
  BY <1>1, <1>8, <1>9, <1>10, SumOfParts
<1>12. QED
  BY <1>4, <1>6, <1>7, <1>11

\* The accounting the validation goes by is the last word.
LEMMA AuthorityIs ==
  ASSUME CostAssumption, CostInv, terminal # None, ~CostUnknown
  PROVE  LastWord /\ Settled /\ Authority = Accounting(TRUE)
<1>1. CASE terminal.final
  <2>1. Exact(terminal) /\ Authority = terminal
    BY <1>1 DEF CostInv, Authority
  <2>2. QED
    BY <1>1, <2>1 DEF Exact, LastWord
<1>2. CASE ~terminal.final
  <2>1. Checkpoints # {} /\ LatestEvent.final /\ Authority = LatestEvent
    BY <1>2 DEF CostUnknown, Authority
  <2>2. /\ Len(ShownEvents) \in Nat /\ DOMAIN ShownEvents = 1..Len(ShownEvents)
        /\ \A i \in DOMAIN ShownEvents : \E j \in DOMAIN events : ShownEvents[i] = events[j]
    BY ShownAre DEF CostInv
  <2>3. Checkpoints \in SUBSET (1..Len(ShownEvents))
    BY <2>2 DEF Checkpoints
  <2>4. Max(Checkpoints) \in Checkpoints
    BY <2>1, <2>2, <2>3, MaxIs
  <2>5. PICK j \in DOMAIN events : ShownEvents[Max(Checkpoints)] = events[j]
    BY <2>2, <2>3, <2>4
  <2>6. events[j].type = "task_cost_finalized" /\ LatestEvent = events[j].accounting
    BY <2>4, <2>5 DEF Checkpoints, LatestEvent
  <2>7. Exact(LatestEvent)
    BY <2>6 DEF CostInv
  <2>8. QED
    BY <2>1, <2>6, <2>7 DEF Exact, LastWord
<1>3. QED
  BY <1>1, <1>2

LEMMA ValidateUsageStep == ASSUME CostAssumption, CostInv, ValidateUsage PROVE CostInv'
<1>1. /\ terminal # None /\ decision = "pending"
      /\ UNCHANGED <<modelCalls, events, terminal, routesPinned>>
      /\ decision' \in {"pending", "rejected", "accepted"}
  BY DEF ValidateUsage
<1>2. /\ Ids' = Ids /\ Settled' = Settled /\ Accounting(TRUE)' = Accounting(TRUE)
      /\ LastWord' = LastWord /\ AllSeen' = AllSeen
  BY <1>1 DEF Ids, Settled, Accounting, CostOf, MapThenSumSet, MapThenFoldSet, Rounded, LastWord,
              AllSeen
<1>3. \A a : Exact(a)' <=> Exact(a)
  BY <1>2 DEF Exact
<1>4. CostTypes'
  BY <1>1 DEF CostInv, CostTypes
<1>5. ASSUME Accepted'
      PROVE  /\ LastWord /\ charged' = Accounting(TRUE) /\ Settled
             /\ ~routesPinned => AllSeen
  <2>1. ~CostUnknown /\ ~CallCountMismatch(Authority) /\ charged' = Authority
    BY <1>5 DEF ValidateUsage, Accepted
  <2>2. LastWord /\ Settled /\ Authority = Accounting(TRUE)
    BY <1>1, <2>1, AuthorityIs
  <2>3. Authority.rounds = Len(modelCalls)
    BY <2>2 DEF Accounting
  <2>4. ASSUME ~routesPinned PROVE AllSeen
    <3>1. /\ SeenCalls \in SUBSET Ids /\ ObservedCalls = Cardinality(SeenCalls)
          /\ ObservedCalls \in Nat /\ ObservedCalls <= Len(modelCalls)
          /\ (ObservedCalls = Len(modelCalls) => SeenCalls = Ids)
      BY SeenAre, SomeCost DEF CostInv
    <3>2. Len(modelCalls) \in Nat
      BY CallsAre DEF CostInv
    <3>3. ObservedCalls = Len(modelCalls)
      BY <2>1, <2>3, <2>4, <3>1, <3>2 DEF CallCountMismatch
    <3>4. SeenCalls = Ids
      BY <3>1, <3>3
    <3>5. QED
      BY <3>4, RowsAre DEF SeenCalls, AllSeen
  <2>5. QED
    BY <2>1, <2>2, <2>4
<1>6. QED
  BY <1>1, <1>2, <1>3, <1>4, <1>5 DEF CostInv

LEMMA CostGoesOn == ASSUME CostAssumption, CostInv, [CostNext]_costVars PROVE CostInv'
<1>1. CASE UNCHANGED costVars
  <2>1. /\ UNCHANGED <<modelCalls, events, terminal, decision, charged, routesPinned>>
        /\ Ids' = Ids /\ Settled' = Settled /\ Accounting(TRUE)' = Accounting(TRUE)
    BY <1>1 DEF costVars, decided, Ids, Settled, Accounting, CostOf, MapThenSumSet, MapThenFoldSet,
                Rounded
  <2>2. \A a : Exact(a)' <=> Exact(a)
    BY <2>1 DEF Exact
  <2>3. CostTypes' /\ (LastWord' <=> LastWord) /\ (AllSeen' <=> AllSeen) /\ (Accepted' <=> Accepted)
    BY <2>1 DEF CostInv, CostTypes, LastWord, AllSeen, Accepted
  <2>4. QED
    BY <2>1, <2>2, <2>3 DEF CostInv
<1>2. CASE CostNext
  BY <1>2, CallStepCost, SettleStep, TaskEndsStep, CheckpointStep, MirrorRowStep, GarbleStep,
     ValidateUsageStep DEF CostNext
<1>3. QED
  BY <1>1, <1>2

\* A refusal has one of three causes.
LEMMA RefusedForCause ==
  ASSUME CostAssumption, CostInv, ValidateUsage, decision' = "rejected"
  PROVE  Garbled \/ UsageRows = {} \/ (ObservedCalls # Len(modelCalls) /\ ~routesPinned)
<1> SUFFICES ASSUME ~Garbled, UsageRows # {}, ObservedCalls = Len(modelCalls) \/ routesPinned
             PROVE  FALSE
  OBVIOUS
<1>1. ~RowsConflict
  BY RowsAre DEF RowsConflict, Garbled
<1>2. terminal # None /\ ~CostUnknown /\ (CallCountMismatch(Authority) \/ TotalsMismatch(Authority))
  BY <1>1 DEF ValidateUsage
<1>3. Authority = Accounting(TRUE)
  BY <1>2, AuthorityIs
<1>4. Authority.rounds = Len(modelCalls) /\ Authority.cost = Rounded(CostOf(Ids))
  BY <1>3 DEF Accounting
<1>5. /\ SeenCalls \in SUBSET Ids /\ ObservedCalls = Cardinality(SeenCalls)
      /\ ObservedCalls \in Nat /\ ObservedCalls <= Len(modelCalls)
      /\ (ObservedCalls = Len(modelCalls) => SeenCalls = Ids)
      /\ ObservedCost \in Nat /\ ObservedCost <= CostOf(Ids) /\ CostOf(Ids) \in Nat
      /\ (SeenCalls = Ids => ObservedCost = CostOf(Ids))
  <2>1. SeenCalls \in SUBSET Ids /\ ObservedCalls = Cardinality(SeenCalls)
    BY SeenAre
  <2>2. ObservedCost = CostOf(SeenCalls)
    BY HonestSum
  <2>3. CostOf(Ids) \in Nat
    BY SomeCost DEF CostInv
  <2>4. QED
    BY <2>1, <2>2, <2>3, SomeCost DEF CostInv
<1>6. Len(modelCalls) \in Nat
  BY CallsAre DEF CostInv
<1>7. ~CallCountMismatch(Authority)
  BY <1>4, <1>5, <1>6 DEF CallCountMismatch
<1>8. Rounded(CostOf(Ids)) \in Int /\ Rounded(CostOf(Ids)) - CostOf(Ids) \in -2..2
  BY <1>5, RoundedNear
<1>9. ~TotalsMismatch(Authority)
  <2>1. CASE ObservedCalls = Len(modelCalls)
    BY <1>4, <1>5, <1>8, <2>1 DEF TotalsMismatch
  <2>2. CASE ObservedCalls # Len(modelCalls)
    <3>1. ~(Rounded(CostOf(Ids)) + 2 < ObservedCost)
      BY <1>5, <1>8
    <3>2. QED
      BY <1>4, <2>2, <3>1 DEF TotalsMismatch
  <2>3. QED
    BY <2>1, <2>2
<1>10. QED
  BY <1>2, <1>7, <1>9

LEMMA NothingRefused ==
  ASSUME CostAssumption, CostInv, [CostNext]_costVars
  PROVE  [HonestCostAccepted]_costVars
<1>1. CASE ValidateUsage
  BY <1>1, RefusedForCause DEF HonestCostAccepted
<1>2. CASE UNCHANGED costVars
  BY <1>2
<1>3. CASE CostNext /\ ~ValidateUsage
  BY <1>3 DEF CostNext, ModelCall, SettleCall, TaskEnds, WriteCheckpoint, MirrorRow, Garble, decided,
              HonestCostAccepted
<1>4. QED
  BY <1>1, <1>2, <1>3

\* What a review costs (ouroboros_backend.py): it is charged the cost of every call it made,
\* nothing is paid in silence, and nothing honest is refused; for any calls, costs, log and window.
THEOREM CostsAreExact == ASSUME CostAssumption PROVE CostSpec => CostIsExact
<1>1. CostInit => CostInv
  BY CostStarts
<1>2. CostInv /\ [CostNext]_costVars => CostInv' /\ [HonestCostAccepted]_costVars
  BY CostGoesOn, NothingRefused
<1>3. CostInv => ChargedForEveryCall /\ NoHiddenCallPaid
  BY DEF CostInv, ChargedForEveryCall, NoHiddenCallPaid, AllSeen, Accounting
<1>4. QED
  BY <1>1, <1>2, <1>3, PTL DEF CostSpec, CostIsExact
=============================================================================

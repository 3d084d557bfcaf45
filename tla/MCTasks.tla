-------------------------------- MODULE MCTasks -------------------------------
(***************************************************************************)
(* The paid model tasks: how one is scheduled and bound to its review      *)
(* (TaskBackend), what of its answer is believed (TrustedResult), what it  *)
(* is found to have cost (TaskCost), how a group of local ones ends        *)
(* (LocalTasks), what the private journal keeps of it (ReceiptJournal) and *)
(* the log of reviews of what architects did (FeedbackLog), and how a      *)
(* series of paid repeats is reserved and qualified (PaidSeries). They     *)
(* share no state; "part" says which of them a behaviour is of, in which   *)
(* instance, and the others stay where they start.                         *)
(***************************************************************************)
EXTENDS TLC, TaskBackend, TrustedResult, ReceiptJournal, FeedbackLog, PaidSeries,
  TaskCost

CONSTANTS c1, c2, t1, t2

VARIABLES
  part,  \* the component this behaviour is of
  local_future, local_record, local_closed, local_caller, local_mine, local_got,  \* LocalTasks
  restart_runtime, restart_ledger, restart_record, restart_bound, restart_ambiguous,
  restart_lock, restart_call, restart_life,  \* TaskBackend over restarts
  series_source, series_lock, series_ledger, series_captures, series_run, series_attempts,
  series_paid, series_clock  \* PaidSeries with a series that qualifies

localVars == <<local_future, local_record, local_closed, local_caller, local_mine, local_got>>
restartVars == <<restart_runtime, restart_ledger, restart_record, restart_bound,
  restart_ambiguous, restart_lock, restart_call, restart_life>>
qualifiedVars == <<series_source, series_lock, series_ledger, series_captures, series_run,
  series_attempts, series_paid, series_clock>>

-----------------------------------------------------------------------------
PaidCases == <<"clean", "flawed">>
Decided   == "clean" :> "approve"
Undecided == "clean" :> "approve" @@ "flawed" :> "incomplete"

Local == INSTANCE LocalTasks WITH
  Groups <- {"group"}, Watchers <- {"watcher"}, Tasks <- {"first", "second"}, GroupSize <- 2,
  MaxWorkers <- 1, future <- local_future, record <- local_record, closed <- local_closed,
  caller <- local_caller, mine <- local_mine, got <- local_got

Restarts == INSTANCE TaskBackend WITH
  Callers <- {"caller"}, Keys <- {"k1"}, Inputs <- {"i1", "i2"}, Tasks <- {t1, t2, "t3"}, Window <- 1,
  MaxRestarts <- 1, LateLanding <- FALSE, runtime <- restart_runtime,
  ledger <- restart_ledger, record <- restart_record, bound <- restart_bound,
  ambiguous <- restart_ambiguous, lock <- restart_lock, call <- restart_call,
  life <- restart_life

Qualified == INSTANCE PaidSeries WITH
  Runs <- {"run"}, Ordinals <- {1, 2}, Series <- {"series"}, CaptureIds <- {t1, t2},
  Cases <- <<"clean">>, Expected <- Decided, Tolerated <- 1, TaskIds <- {"first"},
  MaxAttempts <- 3, MaxVersion <- 1, MaxClock <- 1, source <- series_source,
  corpusLock <- series_lock, attemptLedger <- series_ledger, captures <- series_captures,
  run <- series_run, attempts <- series_attempts, paid <- series_paid, clock <- series_clock

ASSUME MCTasksAssumption ==
  /\ BackendAssumption
  /\ Restarts!BackendAssumption
  /\ TrustAssumption
  /\ CostAssumption
  /\ Local!LocalAssumption
  /\ JournalAssumption
  /\ SeriesAssumption
  /\ Qualified!SeriesAssumption
  /\ FeedbackAssumption

-----------------------------------------------------------------------------
\* An instance whose part it is not has no state.
localIdle ==
  /\ local_future = None /\ local_record = None /\ local_closed = None /\ local_caller = None
  /\ local_mine = None /\ local_got = None
restartIdle ==
  /\ restart_runtime = None /\ restart_ledger = None /\ restart_record = None
  /\ restart_bound = None /\ restart_ambiguous = None /\ restart_lock = None
  /\ restart_call = None /\ restart_life = None
qualifiedIdle ==
  /\ series_source = None /\ series_lock = None /\ series_ledger = None
  /\ series_captures = None /\ series_run = None /\ series_attempts = None
  /\ series_paid = None /\ series_clock = None

Init ==
  /\ BackendInit /\ TrustInit /\ JournalInit /\ LogInit /\ SeriesInit /\ CostInit
  /\ \/ /\ part \in {"schedule", "trust", "journal", "feedback", "ledger", "cost"}
        /\ localIdle /\ restartIdle /\ qualifiedIdle
     \/ part = "local" /\ Local!Init /\ restartIdle /\ qualifiedIdle
     \/ part = "restart" /\ Restarts!BackendInit /\ localIdle /\ qualifiedIdle
     \/ part = "qualified" /\ Qualified!SeriesInit /\ localIdle /\ restartIdle
  /\ part # "cost" => ~routesPinned

vars == <<part, backendVars, trustVars, journalVars, logVars, seriesVars,
  costVars, localVars, restartVars, qualifiedVars>>

Next ==
  \/ /\ part = "schedule" /\ BackendNext
     /\ UNCHANGED <<part, trustVars, journalVars, logVars, seriesVars, costVars, localVars,
                    restartVars, qualifiedVars>>
  \/ /\ part = "restart" /\ Restarts!BackendNext
     /\ UNCHANGED <<part, backendVars, trustVars, journalVars, logVars, seriesVars,
                    costVars, localVars, qualifiedVars>>
  \/ /\ part = "trust" /\ TrustNext
     /\ UNCHANGED <<part, backendVars, journalVars, logVars, seriesVars, costVars,
                    localVars, restartVars, qualifiedVars>>
  \/ /\ part = "cost" /\ CostNext
     /\ UNCHANGED <<part, backendVars, trustVars, journalVars, logVars, seriesVars,
                    localVars, restartVars, qualifiedVars>>
  \/ /\ part = "local" /\ Local!Next
     /\ UNCHANGED <<part, backendVars, trustVars, journalVars, logVars, seriesVars,
                    costVars, restartVars, qualifiedVars>>
  \/ /\ part = "journal" /\ JournalNext
     /\ UNCHANGED <<part, backendVars, trustVars, logVars, seriesVars, costVars, localVars,
                    restartVars, qualifiedVars>>
  \/ /\ part = "ledger" /\ SeriesNext
     /\ UNCHANGED <<part, backendVars, trustVars, journalVars, logVars, costVars, localVars,
                    restartVars, qualifiedVars>>
  \/ /\ part = "qualified" /\ Qualified!SeriesNext
     /\ UNCHANGED <<part, backendVars, trustVars, journalVars, logVars, seriesVars,
                    costVars, localVars, restartVars>>
  \/ /\ part = "feedback" /\ LogNext
     /\ UNCHANGED <<part, backendVars, trustVars, journalVars, seriesVars, costVars,
                    localVars, restartVars, qualifiedVars>>

Spec == Init /\ [][Next]_vars

-----------------------------------------------------------------------------
\* PaysOnce of TaskBackend: a paid task is paid for once and accounted for. TrustIsExact of
\* TrustedResult: what the backend returns is the verdict the review service has bound, and
\* the one this very task finalized. ReceiptsKept of ReceiptJournal, FeedbackIsKept of
\* FeedbackLog and SeriesIsTrue of PaidSeries: what was confirmed is kept, and what is said
\* of a series is true of what was paid for. CostIsExact of TaskCost: a review is charged the
\* cost of every call it made, those no row shows and those that settled after the task had
\* ended included; without pinned routes a call hidden from the log is never paid for in
\* silence; and what is refused is garbled, or hidden by the window. They stand there.

\* A result stands. The frozen result of a paid task changes only by a timeout, or once by
\* each thread that was already looking at the task when it froze (TaskBackend). The
\* result of a local task never changes, not when its handler returns after a timeout nor
\* when a cancelled future's callback runs late; so a group is approved only while every
\* task of it is recorded as clean (LocalTasks). And a series that qualifies stands on the
\* only repeats ever paid for, with every case approved by all of them or none (PaidSeries).
\* Over restarts, when every failed command has failed for good, a review is paid for again
\* only when its first task has left the window of the reconciliation (TaskBackend, 704-705,
\* 752-762).
ResultsStand ==
  /\ [][part = "schedule" => FrozenSettles]_vars
  /\ [][part = "local" => Local!FirstResultWins]_vars
  /\ [](part = "local" => Local!ApprovalStands)
  /\ [](part = "qualified" => Qualified!SeriesIsTrue)
  /\ [](part = "restart" => Restarts!PaysOnce)

\* Callers are interchangeable, and so are task ids, runs and captures.
Symmetry == Permutations({c1, c2}) \cup Permutations({t1, t2})
=============================================================================

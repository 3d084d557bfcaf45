------------------------------- MODULE MCAnswers ------------------------------
(***************************************************************************)
(* The calls that must be answered, each component with the fairness its   *)
(* scheduling gives: those of the review service, of the task backend, of  *)
(* a group of local tasks and of the remediation service. They share no    *)
(* state; "part" says which of them a behaviour is of.                     *)
(***************************************************************************)
EXTENDS Naturals, Sequences, FiniteSets, TLC

CONSTANTS None

VARIABLES
  part,  \* the component this behaviour is of
  service_review, service_live, service_recency, service_horizon, service_phase,
  service_permits, service_strays, service_call,  \* ReviewService
  backend_runtime, backend_ledger, backend_record, backend_bound, backend_ambiguous,
  backend_lock, backend_call, backend_life,  \* TaskBackend
  local_future, local_record, local_closed, local_caller, local_mine, local_got,  \* LocalTasks
  rem_reviews, rem_rems, rem_closed, rem_slots, rem_worker, rem_caller, rem_registered  \* RemediationService

serviceVars == <<service_review, service_live, service_recency, service_horizon, service_phase,
  service_permits, service_strays, service_call>>
backendVars == <<backend_runtime, backend_ledger, backend_record, backend_bound,
  backend_ambiguous, backend_lock, backend_call, backend_life>>
localVars == <<local_future, local_record, local_closed, local_caller, local_mine, local_got>>
remVars == <<rem_reviews, rem_rems, rem_closed, rem_slots, rem_worker, rem_caller,
  rem_registered>>

vars == <<part, serviceVars, backendVars, localVars, remVars>>

-----------------------------------------------------------------------------
Pair == {"one", "other"}

Service == INSTANCE ReviewService WITH
  Callers <- Pair, ReviewIds <- {"review"}, Requests <- {"flawed"},
  Payloads <- {"approve", "invalid"}, Meaning <- [p \in {"approve", "invalid"} |-> p],
  Analysis <- [q \in {"flawed"} |-> "flawed"], HookSlots <- 1, MaxReviews <- 1,
  MaxReviewBytes <- 3, MaxStoreBytes <- 4,
  PreparedBytes <- [degraded |-> 1, clean |-> 2, blocked |-> 3, flawed |-> 4], FinalBytes <- 1,
  MaxPrepared <- 2, Tools <- {"prepare", "finalize", "read"}, review <- service_review,
  live <- service_live, recency <- service_recency, horizon <- service_horizon,
  phase <- service_phase, permits <- service_permits, strays <- service_strays,
  call <- service_call

Backend == INSTANCE TaskBackend WITH
  Callers <- Pair, Keys <- {"key"}, Inputs <- {"input"}, Tasks <- {"task"}, Window <- 1,
  MaxRestarts <- 0, LateLanding <- FALSE, runtime <- backend_runtime,
  ledger <- backend_ledger, record <- backend_record, bound <- backend_bound,
  ambiguous <- backend_ambiguous, lock <- backend_lock, call <- backend_call,
  life <- backend_life

Local == INSTANCE LocalTasks WITH
  Groups <- {"group"}, Watchers <- {"watcher"}, Tasks <- Pair, GroupSize <- 2, MaxWorkers <- 1,
  future <- local_future, record <- local_record, closed <- local_closed,
  caller <- local_caller, mine <- local_mine, got <- local_got

Remedy == INSTANCE RemediationService WITH
  Callers <- Pair, ReviewIds <- {"review"}, RemediationIds <- {"remedy"}, Finals <- {"final"},
  Remediable <- {"final"}, MaxReviews <- 1, MaxRemediations <- 1, MaxStore <- 3,
  MaxWorkers <- 1, MaxRegistered <- 2, reviews <- rem_reviews, rems <- rem_rems,
  closed <- rem_closed, slots <- rem_slots, worker <- rem_worker, caller <- rem_caller,
  registered <- rem_registered

-----------------------------------------------------------------------------
\* A component whose part it is not stays where it starts.
Init ==
  /\ part \in {"service", "backend", "local", "rem"}
  /\ Service!Init
  /\ Backend!BackendInit
  /\ Local!Init
  /\ Remedy!RemInit

Next ==
  \/ /\ part = "service" /\ Service!Next
     /\ UNCHANGED <<part, backendVars, localVars, remVars>>
  \/ /\ part = "backend" /\ Backend!BackendNext
     /\ UNCHANGED <<part, serviceVars, localVars, remVars>>
  \/ /\ part = "local" /\ Local!Next
     /\ UNCHANGED <<part, serviceVars, backendVars, remVars>>
  \/ /\ part = "rem" /\ Remedy!RemNext
     /\ UNCHANGED <<part, serviceVars, backendVars, localVars>>

Spec == Init /\ [][Next]_vars

\* Each component under its own fairness.
FairSpec ==
  /\ Spec
  /\ \A c \in Pair : WF_serviceVars(part = "service" /\ Service!Proceed(c))
  /\ \A c \in Pair : WF_backendVars(part = "backend" /\ Backend!Step(c))
                     /\ WF_backendVars(part = "backend" /\ Backend!Deadline(c))
                     /\ SF_backendVars(part = "backend" /\ Backend!Lookup(c))
  /\ \A t \in Pair : WF_localVars(part = "local" /\ Local!TaskStep(t))
  /\ \A c \in {"group", "watcher"} : WF_localVars(part = "local" /\ Local!Step(c))
  /\ \A c \in Pair : WF_remVars(part = "rem" /\ Remedy!CallerStep(c))
                     /\ WF_remVars(part = "rem" /\ Remedy!WorkerStep(c))

-----------------------------------------------------------------------------
\* ReviewService, TaskBackend and LocalTasks: every call is answered, although a trusted hook
\* may hang for ever (_invoke_prepare_callback 891-900) and whatever the runtime does to a
\* task; every local task that was scheduled gets a result, whether anyone waits for it or
\* not and through a shutdown, and a group that has scheduled its tasks ends.
CallsAnswered ==
  /\ (part = "service") => Service!CallsAnswered
  /\ (part = "backend") => Backend!CallsAnswered
  /\ (part = "local") => Local!TasksResolved /\ Local!GroupsEnd

\* RemediationService: every slot comes back, also of a worker nobody waits for and of one
\* that raises.
SlotsComeBack == (part = "rem") => Remedy!SlotsComeBack
=============================================================================

------------------------------- MODULE TaskCost -------------------------------
(***************************************************************************)
(* The cost of a paid review: aga-skill/tools/ouroboros_backend.py,        *)
(* _terminal_accounting_is_final, _validated_finalized_cost_event and      *)
(* _validated_model_usage.                                                 *)
(*                                                                         *)
(* The runtime makes physical model calls and logs them: a row may stand   *)
(* for several calls, may be mirrored by a child log or be garbled, some   *)
(* calls are never logged, and a call that settles late makes the root     *)
(* write its cost again.  The backend reads a window of the log and        *)
(* decides whether the cost is known, is still unknown, or cannot be       *)
(* trusted.  Costs are in quarters of the last of the ledger's six         *)
(* decimals.                                                               *)
(***************************************************************************)
EXTENDS Integers, Sequences, FiniteSets, FiniteSetsExt, SequencesExt, Nothing

CONSTANTS
  Costs,          \* what one physical call may cost
  MaxModelCalls,  \* bound: physical calls of a task
  MaxEvents,      \* bound: rows of the event log
  Limit           \* `logs tail --limit`

CostAssumption ==
  /\ Costs \subseteq Nat
  /\ MaxModelCalls \in Nat /\ MaxEvents \in Nat /\ Limit \in Nat \ {0}

VARIABLES
  routesPinned,  \* config.all_model_routes_pinned
  modelCalls,    \* the physical calls, with their cost and whether they have settled
  events,        \* the event log of the task
  terminal,      \* the terminal accounting of the task
  decision,      \* what the last validation returned
  charged        \* the accounting it has accepted

decided == <<decision, charged, routesPinned>>
costVars == <<modelCalls, events, terminal, decided>>

Ids == 1..Len(modelCalls)

CostOf(ids) == MapThenSumSet(LAMBDA i : modelCalls[i].cost, ids)

\* The ledger's projection keeps six decimals.
Rounded(c) == ((c + 2) \div 4) * 4

Settled == \A i \in Ids : modelCalls[i].settled

Accounting(final) == [cost |-> Rounded(CostOf(Ids)), rounds |-> Len(modelCalls), final |-> final]

CostInit ==
  /\ routesPinned \in BOOLEAN
  /\ modelCalls = <<>>
  /\ events = <<>>
  /\ terminal = None
  /\ decision = "pending"
  /\ charged = None

-----------------------------------------------------------------------------
(* The runtime.                                                            *)

Usage(ids, cost) == [type |-> "llm_usage", ids |-> ids, cost |-> cost]

Checkpoint(accounting) == [type |-> "task_cost_finalized", accounting |-> accounting]

LastWord == \/ terminal # None /\ terminal.final
            \/ \E i \in DOMAIN events :
                 events[i].type = "task_cost_finalized" /\ events[i].accounting.final

\* One call, or a call and its retry; a call may come after the terminal state.
ModelCall ==
  /\ ~LastWord
  /\ \E cost \in Costs, n \in 1..2, settled \in BOOLEAN, shown \in BOOLEAN :
       LET ids == (Len(modelCalls) + 1)..(Len(modelCalls) + n) IN
       /\ Len(modelCalls) + n <= MaxModelCalls
       /\ modelCalls' = modelCalls \o [i \in 1..n |-> [cost |-> cost, settled |-> settled]]
       /\ IF shown
          THEN /\ Len(events) < MaxEvents
               /\ events' = Append(events, Usage(ids, n * cost))
          ELSE UNCHANGED events
  /\ UNCHANGED <<terminal, decided>>

SettleCall ==
  /\ \E i \in Ids : ~modelCalls[i].settled /\ modelCalls' = [modelCalls EXCEPT ![i].settled = TRUE]
  /\ UNCHANGED <<events, terminal, decided>>

TaskEnds ==
  /\ terminal = None
  /\ Len(modelCalls) > 0
  /\ \E final \in BOOLEAN : (final => Settled) /\ terminal' = Accounting(final)
  /\ UNCHANGED <<modelCalls, events, decided>>

\* The root writes its cost, and refreshes it.
WriteCheckpoint ==
  /\ terminal # None
  /\ Len(events) < MaxEvents
  /\ ~LastWord
  /\ events' = Append(events, Checkpoint(Accounting(Settled)))
  /\ UNCHANGED <<modelCalls, terminal, decided>>

\* A row of a child log, mirrored, or garbled: other cost, or other ids.
MirrorRow ==
  /\ Len(events) < MaxEvents
  /\ \E i \in DOMAIN events :
       /\ events[i].type = "llm_usage"
       /\ events' = Append(events, events[i])
  /\ UNCHANGED <<modelCalls, terminal, decided>>

Garble ==
  /\ Len(events) < MaxEvents
  /\ \E ids \in SUBSET Ids \ {{}}, cost \in Costs :
       /\ cost # CostOf(ids)
       /\ \E i \in DOMAIN events : events[i].type = "llm_usage" /\ events[i].ids \cap ids # {}
       /\ events' = Append(events, Usage(ids, cost))
  /\ UNCHANGED <<modelCalls, terminal, decided>>

-----------------------------------------------------------------------------
(* The validation.                                                         *)

ShownEvents == SubSeq(events, IF Len(events) > Limit THEN Len(events) - Limit + 1 ELSE 1, Len(events))

UsageRows == {i \in DOMAIN ShownEvents : ShownEvents[i].type = "llm_usage"}

\* A row that repeats a whole earlier row is skipped; one that shares a call with an
\* earlier row and differs from it refuses the log.
CountedRows == {i \in UsageRows : \A j \in UsageRows : j < i => ShownEvents[j] # ShownEvents[i]}

RowsConflict ==
  \E i, j \in UsageRows : ShownEvents[i] # ShownEvents[j] /\ ShownEvents[i].ids \cap ShownEvents[j].ids # {}

ObservedCost == MapThenSumSet(LAMBDA i : ShownEvents[i].cost, CountedRows)

ObservedCalls == Cardinality(UNION {ShownEvents[i].ids : i \in UsageRows})

Checkpoints == {i \in DOMAIN ShownEvents : ShownEvents[i].type = "task_cost_finalized"}

LatestEvent == ShownEvents[Max(Checkpoints)].accounting

\* Half a unit of the last decimal is the most that rounding makes of it.
TotalsMismatch(accounting) ==
  IF accounting.rounds = ObservedCalls
  THEN accounting.cost - ObservedCost \notin -2..2
  ELSE accounting.cost + 2 < ObservedCost

CallCountMismatch(accounting) ==
  \/ accounting.rounds < ObservedCalls
  \/ accounting.rounds > ObservedCalls /\ ~routesPinned

ProvisionalAccepted == ~terminal.final /\ Checkpoints = {}   \* mutant
CostUnknown == ~terminal.final /\ (Checkpoints = {} \/ ~LatestEvent.final)

Authority == IF terminal.final THEN terminal ELSE LatestEvent

ValidateUsage ==
  /\ terminal # None
  /\ decision = "pending"
  /\ decision' =
       IF RowsConflict THEN "rejected"
       ELSE IF CostUnknown THEN "pending"
       ELSE IF UsageRows = {} \/ CallCountMismatch(Authority) \/ TotalsMismatch(Authority)
       THEN "rejected"
       ELSE "accepted"
  /\ charged' = IF decision' = "accepted" THEN Authority ELSE charged
  /\ UNCHANGED <<modelCalls, events, terminal, routesPinned>>

CostNext ==
  \/ ModelCall \/ SettleCall \/ TaskEnds \/ WriteCheckpoint \/ MirrorRow \/ Garble
  \/ ValidateUsage

CostSpec == CostInit /\ [][CostNext]_costVars

-----------------------------------------------------------------------------

Accepted == decision = "accepted"

\* The cost a review is charged is the cost of every call it made, those no row shows and
\* those that settled after the task had ended included.
ChargedForEveryCall ==
  Accepted => Settled /\ charged.rounds = Len(modelCalls) /\ charged.cost = Rounded(CostOf(Ids))

Garbled ==
  \E i \in DOMAIN events :
    /\ events[i].type = "llm_usage"
    /\ \/ events[i].cost # CostOf(events[i].ids)
       \/ \E j \in DOMAIN events :
            /\ events[j].type = "llm_usage"
            /\ events[i] # events[j]
            /\ events[i].ids \cap events[j].ids # {}

\* A review is refused for its cost only when a row is garbled, or when the window shows
\* too little of its calls: mirrored rows, refreshes and rounding refuse nothing.
HonestCostAccepted ==
  decision # "rejected" /\ decision' = "rejected" =>
    \/ Garbled
    \/ UsageRows = {}
    \/ ObservedCalls # Len(modelCalls) /\ ~routesPinned

\* Without pinned routes every call must be seen: a call hidden from the log, which may
\* have gone to another model, is never paid for in silence.
NoHiddenCallPaid ==
  Accepted /\ ~routesPinned =>
    \A i \in Ids : \E j \in DOMAIN events : events[j].type = "llm_usage" /\ i \in events[j].ids

\* What a review costs: nothing is paid in silence, and nothing honest is refused.
CostIsExact ==
  /\ [](ChargedForEveryCall /\ NoHiddenCallPaid)
  /\ [][HonestCostAccepted]_costVars
=============================================================================

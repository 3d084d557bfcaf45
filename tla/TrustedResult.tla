----------------------------- MODULE TrustedResult -----------------------------
(***************************************************************************)
(* What makes the answer of a paid review task trusted:                    *)
(* aga-skill/tools/ouroboros_backend.py, _tool_flow, _aga_receipts and     *)
(* _validate_final, with the two repairs they may ask of the MCP server.   *)
(*                                                                         *)
(* A task calls the MCP server; the server writes a receipt of each call   *)
(* to its journal, the runtime writes what the task saw of it to the tool  *)
(* log.  Responses get lost, digests are miscopied, log rows are mirrored, *)
(* receipts of an earlier task of the review remain, and the answer may be *)
(* anything.  The backend compares the three and returns the verdict, or   *)
(* refuses; a poll that finds the cost unsettled is repeated.              *)
(***************************************************************************)
EXTENDS Naturals, Sequences, FiniteSets, SequencesExt, FiniteSetsExt, Nothing

CONSTANTS
  Payloads,     \* semantic results
  WithErrors,   \* the payloads whose analysis_errors is not empty
  Digests,      \* what a task may present as the digests of the prepared review
  Prepared,     \* the digests aga_prepare_review returned
  MaxReceipts,  \* bound: receipts in the journal
  MaxRows,      \* bound: rows of a tool log
  MaxTasks,     \* bound: tasks of the review, one after another
  MaxPending,   \* bound: polls that find the cost unsettled
  DigestRepair, TransportRepair  \* whether the two repairs are configured

Args == [payload: Payloads, digest: Digests]

TrustAssumption ==
  /\ WithErrors \subseteq Payloads
  /\ Prepared \in Digests
  /\ DigestRepair \in BOOLEAN /\ TransportRepair \in BOOLEAN
  /\ None \notin Args \cup {"rejected"} /\ {None, "rejected"} \cap Payloads = {}
  /\ MaxTasks \in Nat \ {0} /\ MaxPending \in Nat

VARIABLES
  journal,   \* the receipts of the review id, in order
  pinned,    \* _finalize_transport_arguments of the server
  pending,   \* _pending_finalize_repairs of the server
  verdict,   \* the payload the review service has bound
  log,       \* the tool log of the current task
  answer,    \* the current task's terminal answer
  override,  \* _trusted_final_overrides
  result,    \* what the backend returned: a payload, "rejected", or None while polling
  tasks,     \* tasks so far
  polls      \* polls that found the cost unsettled

server  == <<journal, pinned, pending, verdict>>
backend == <<override, result, polls>>
trustVars == <<server, log, answer, backend, tasks>>

TrustInit ==
  /\ journal = <<>>
  /\ pinned = None
  /\ pending = None
  /\ verdict = None
  /\ log = <<>>
  /\ answer = None
  /\ override = None
  /\ result = None
  /\ tasks = 1
  /\ polls = 0

Running == answer = None

Receipt(tool, args, digest, status, out) ==
  [tool |-> tool, args |-> args, digest |-> digest, status |-> status, out |-> out]

Logged(tool, args, seen) ==
  log' = Append(log, [tool |-> tool, args |-> args, seen |-> seen, call |-> Len(log)])

-----------------------------------------------------------------------------
(* The server and the task.                                                *)

\* The receipt of a finalize with these arguments, and what it leaves bound.
Mismatch(args) == args.digest # Prepared
Conflict(args) == verdict \notin {None, args.payload}

FinalizeReceipt(args) ==
  Receipt("finalize", args, args.digest,
          IF Mismatch(args) THEN "mismatch" ELSE IF Conflict(args) THEN "conflict" ELSE "ok",
          IF Mismatch(args) \/ Conflict(args) THEN None ELSE args.payload)

Binds(args) ==
  verdict' = IF Mismatch(args) \/ Conflict(args) THEN verdict ELSE args.payload

Prepare ==
  /\ Running
  /\ Len(journal) < MaxReceipts
  /\ Len(log) < MaxRows
  /\ \E status \in {"ok", "incomplete"} :
       journal' = Append(journal, Receipt("prepare", None, Prepared, status, None))
  /\ \E seen \in {"ok", "transport"} : Logged("prepare", [digest |-> Prepared], seen)
  /\ UNCHANGED <<pinned, pending, verdict, answer, backend, tasks>>

SeafLookup ==
  /\ Running
  /\ Len(log) < MaxRows
  /\ \E d \in Digests : Logged("lookup", [digest |-> d], IF d = Prepared THEN "ok" ELSE "service")
  /\ UNCHANGED <<server, answer, backend, tasks>>

\* A finalize whose arguments are not the pinned ones is refused without reaching the
\* service; a response that is lost may be sent for again by the client.
Finalize(args) ==
  /\ Running
  /\ Len(journal) + 1 < MaxReceipts
  /\ Len(log) < MaxRows
  /\ \E p \in Range(journal) : p.tool = "prepare"
  /\ IF pinned \notin {None, args}
     THEN /\ journal' = Append(journal, Receipt("finalize", args, args.digest, "transport", None))
          /\ Logged("finalize", args, "transport")
          /\ UNCHANGED <<pinned, pending, verdict>>
     ELSE /\ pinned' = args
          /\ Binds(args)
          /\ \E again \in BOOLEAN, lost \in BOOLEAN :
               /\ journal' = journal \o [i \in 1..(IF again THEN 2 ELSE 1) |-> FinalizeReceipt(args)]
               /\ Logged("finalize", args,
                    IF lost THEN "transport"
                    ELSE CASE Mismatch(args) -> "digest"
                           [] Conflict(args) /\ ~Mismatch(args) -> "service"
                           [] OTHER -> "ok")
          /\ pending' = IF Mismatch(args) /\ pending = None THEN args ELSE pending
  /\ UNCHANGED <<answer, backend, tasks>>

\* The gateway merges root and child logs: a row may appear twice.
Mirror ==
  /\ Running
  /\ Len(log) \in 1..(MaxRows - 1)
  /\ log' = Append(log, log[Len(log)])
  /\ UNCHANGED <<server, answer, backend, tasks>>

TaskAnswers ==
  /\ Running
  /\ \E p \in Payloads, whole \in BOOLEAN :
       /\ p \in WithErrors \/ whole
       /\ answer' = [payload |-> p, whole |-> whole]
  /\ UNCHANGED <<server, log, backend, tasks>>

\* Another task takes up a review that was refused.
NextTask ==
  /\ result = "rejected"
  /\ tasks < MaxTasks
  /\ tasks' = tasks + 1
  /\ log' = <<>>
  /\ answer' = None
  /\ override' = None
  /\ result' = None
  /\ polls' = 0
  /\ UNCHANGED server

-----------------------------------------------------------------------------
(* _tool_flow                                                              *)

Rows == {i \in 1..Len(log) : \A j \in 1..(i - 1) : log[j] # log[i]}

Row(tool) == {i \in Rows : log[i].tool = tool}

FlowAccepted ==
  /\ Cardinality(Row("prepare")) = 1
  /\ Cardinality(Row("finalize")) = 1
  /\ \A i \in Rows : Min(Row("prepare")) <= i /\ i <= Min(Row("finalize"))
  /\ \A i \in Rows :
       LET seen == log[i].seen IN
       \/ seen = "ok"
       \/ log[i].tool = "finalize" /\ seen = "digest" /\ DigestRepair
       \/ log[i].tool = "finalize" /\ seen = "transport" /\ TransportRepair
  /\ LET args == log[Min(Row("finalize"))].args
         seen == log[Min(Row("finalize"))].seen IN
     seen = "ok" => \A i \in Row("lookup") : log[i].args.digest = args.digest

Claimed == log[Min(Row("finalize"))].args

LostResponse == log[Min(Row("finalize"))].seen = "transport"

-----------------------------------------------------------------------------
(* _aga_receipts                                                           *)

ReceiptsOf(tool) == {i \in 1..Len(journal) : journal[i].tool = tool}

ClaimedFinalizes == {i \in ReceiptsOf("finalize") : journal[i].digest = Claimed.digest}

\* The closest prepare before the first finalize with the digests the log shows.
Prepares == {i \in ReceiptsOf("prepare") : \A j \in ClaimedFinalizes : i < j}

ReceiptsFound ==
  /\ Cardinality(ClaimedFinalizes) \in {1, 2}
  /\ Prepares # {}
  /\ journal[Max(Prepares)].status = "ok"

FirstFinalize == journal[Min(ClaimedFinalizes)]

\* One finalize, or a byte-identical replay of it.
PlainAccepted ==
  /\ \A i \in ClaimedFinalizes : journal[i] = FirstFinalize
  /\ journal[Max(Prepares)].digest = Claimed.digest
  /\ FirstFinalize.status = "ok"

DigestRepairable ==
  /\ FirstFinalize.status = "mismatch"
  /\ journal[Max(Prepares)].digest # Claimed.digest
  /\ Cardinality(ClaimedFinalizes) = 1
  /\ DigestRepair

AnyArgsRepairable ==   \* mutant
  \A i \in ClaimedFinalizes : journal[i].status \in {"transport", "ok"}
TransportRepairable ==
  /\ \A i \in ClaimedFinalizes :
       journal[i].status \in {"transport", "ok"} /\ journal[i].args = FirstFinalize.args
  /\ journal[Max(Prepares)].digest = Claimed.digest

\* A trusted result is returned only when the cost is settled; until then the task is
\* pending and will be polled again.
Conclude(r) ==
  \/ result' = r /\ UNCHANGED polls
  \/ /\ r # "rejected"
     /\ polls < MaxPending
     /\ polls' = polls + 1
     /\ UNCHANGED result

\* A repair runs a finalize in the server and leaves its receipt; the receipts are read
\* again and there must be exactly one more than before, whatever their digests.
RepairWith(args, expected) ==
  /\ Binds(args)
  /\ journal' = Append(journal, FinalizeReceipt(args))
  /\ IF FinalizeReceipt(args).status = "ok"
     THEN /\ override' = args.payload
          /\ Conclude(IF Cardinality(ReceiptsOf("finalize")) = expected
                    THEN args.payload ELSE "rejected")
     ELSE Conclude("rejected") /\ UNCHANGED override

-----------------------------------------------------------------------------
(* get_task_result, from the receipts to the cost                          *)

\* The answer is the finalize output, up to an empty field the runtime drops.
AnyAnswer(out) == TRUE   \* mutant
IsOutput(out) == answer.payload = out /\ answer.whole

PollResult ==
  /\ answer # None
  /\ result = None
  /\ \/ /\ ~(FlowAccepted /\ ReceiptsFound)
        /\ Conclude("rejected")
        /\ UNCHANGED <<server, override>>
     \/ /\ FlowAccepted /\ ReceiptsFound
        /\ ~LostResponse
        /\ FirstFinalize.status = "ok"
        /\ Conclude(IF PlainAccepted /\ IsOutput(FirstFinalize.out)
                  THEN answer.payload ELSE "rejected")
        /\ UNCHANGED <<server, override>>
     \/ /\ FlowAccepted /\ ReceiptsFound
        /\ ~LostResponse
        /\ FirstFinalize.status # "ok"
        /\ IF DigestRepairable /\ pending # None
           THEN /\ RepairWith([payload |-> pending.payload, digest |-> Prepared], 1)
                /\ pending' = None
                /\ UNCHANGED pinned
           ELSE Conclude("rejected") /\ UNCHANGED <<server, override>>
     \/ /\ FlowAccepted /\ ReceiptsFound
        /\ LostResponse
        /\ IF TransportRepairable /\ pinned = FirstFinalize.args
           THEN /\ RepairWith(pinned, Cardinality(ClaimedFinalizes))
                /\ UNCHANGED <<pinned, pending>>
           ELSE Conclude("rejected") /\ UNCHANGED <<server, override>>
  /\ UNCHANGED <<log, answer, tasks>>

TrustNext ==
  \/ Prepare \/ SeafLookup \/ Mirror \/ TaskAnswers \/ NextTask \/ PollResult
  \/ \E args \in Args : Finalize(args)

TrustSpec == TrustInit /\ [][TrustNext]_trustVars

-----------------------------------------------------------------------------

ReceiptStatus == {"ok", "incomplete", "mismatch", "conflict", "transport"}

Receipts ==
  [tool: {"prepare", "finalize"}, args: Args \cup {None}, digest: Digests,
   status: ReceiptStatus, out: Payloads \cup {None}]

LogRows ==
  [tool: {"prepare", "lookup", "finalize"}, args: Args \cup [digest: Digests],
   seen: {"ok", "transport", "digest", "service"}, call: Nat]

TrustTypeOK ==
  /\ journal \in Seq(Receipts)
  /\ log \in Seq(LogRows)
  /\ pinned \in Args \cup {None}
  /\ pending \in Args \cup {None}
  /\ verdict \in Payloads \cup {None}
  /\ override \in Payloads \cup {None}
  /\ result \in Payloads \cup {None, "rejected"}
  /\ answer \in [payload: Payloads, whole: BOOLEAN] \cup {None}
  /\ tasks \in 1..MaxTasks
  /\ polls \in 0..MaxPending

\* What the backend returns is the verdict the review service has bound, and the one this
\* very task finalized, whatever was lost, replayed, miscopied or left by an earlier task.
OnlyTheTasksVerdict ==
  result \in Payloads => result = verdict /\ result = Claimed.payload

\* The task prepared once, looked up with the right digests and finalized once.
CleanTask ==
  /\ \A i \in 1..Len(log) : log[i].seen = "ok"
  /\ \A i, j \in 1..Len(log) :
       log[i].tool = log[j].tool /\ log[i].call # log[j].call => log[i].tool = "lookup"
  /\ Len(log) >= 2
  /\ log[1].tool = "prepare"
  /\ log[Len(log)].tool = "finalize"

CleanReceipts ==
  /\ journal[Max(Prepares)].status = "ok"
  /\ Cardinality(ClaimedFinalizes) <= 2

CleanAnswer == answer.whole /\ answer.payload = verdict

\* A task that prepared once, looked up with the right digests, finalized once and
\* answered with the output is not refused because a row was mirrored, its finalize was
\* replayed or an earlier task of the review left receipts.
CleanReviewAccepted == ~(result = "rejected" /\ CleanTask /\ CleanReceipts /\ CleanAnswer)

\* The trusted result of a review is exact: what the backend returns is the verdict that
\* stands, and a clean task is not refused.
TrustIsExact == TrustTypeOK /\ OnlyTheTasksVerdict /\ CleanReviewAccepted

\* A review whose finalize the host has repaired is not refused by a later poll, which
\* there is whenever the repair comes before the cost is final.
RepairSurvivesPolling == override # None => result # "rejected"
=============================================================================

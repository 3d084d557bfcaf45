---------------------------- MODULE RemediationTask ----------------------------
(***************************************************************************)
(* A remediation task: aga-skill/tools/ouroboros_remediation_backend.py.   *)
(* A worker model calls the two remediation tools through the gateway and  *)
(* answers; the backend believes the tool log of the runtime, the receipts *)
(* of the gateway and the answer only where the three agree.               *)
(*                                                                         *)
(* Data: digests and hashes are the values they are computed from.  The    *)
(* requests differ in the remediation id or only in the finding.           *)
(***************************************************************************)
EXTENDS Naturals, Sequences, Functions, Nothing

CONSTANTS
  TaskRequests,  \* requests: a remediation id and a finding
  OwnRequest,    \* the request of the task
  MaxCalls       \* bound: receipts of the worker's calls

TaskRids == {q.rid : q \in TaskRequests}
Findings == {q.finding : q \in TaskRequests}

Outputs == [req: TaskRequests, candidate: TaskRequests \cup {None}, errors: BOOLEAN]

TaskAssumption ==
  /\ OwnRequest \in TaskRequests
  /\ None \notin TaskRequests /\ None \notin Outputs /\ None \notin {"succeeded", "failed"}

VARIABLES
  remediable,  \* the findings with a patch
  prepared,    \* what the service has prepared under each id
  final,       \* what it has finalized under each id
  mirrored,    \* the tool log is written in two places
  log,         \* the tool log
  receipts,    \* the receipts of the gateway
  answer,      \* the answer of the worker
  result,      \* what the backend made of it
  honest       \* the worker has made no call but those of its task (history)

taskVars == <<remediable, mirrored, prepared, final, log, receipts, answer, result, honest>>

TaskInit ==
  /\ remediable \in SUBSET Findings
  /\ mirrored \in BOOLEAN
  /\ prepared = [r \in TaskRids |-> None]
  /\ final = [r \in TaskRids |-> None]
  /\ log = <<>>
  /\ receipts = <<>>
  /\ answer = None
  /\ result = None
  /\ honest = TRUE

CandidateOf(req) == IF req.finding \in remediable THEN req ELSE None

FinalOutput(req) ==
  [req |-> req, candidate |-> CandidateOf(req), errors |-> TRUE]

\* An entry is logged once in each log root; a call of a child task is logged as such.
Entry(tool, args, ok, root) ==
  [tool |-> tool, args |-> args, ok |-> ok, root |-> root, call |-> Len(receipts)]

Logged(e) == log' = log \o IF mirrored THEN <<e, e>> ELSE <<e>>

CanCall == answer = None /\ Len(receipts) < MaxCalls

PrepareReceipt(req, ok) ==
  [tool |-> "prepare", rid |-> req.rid, args |-> req, ok |-> ok,
   ready |-> ok /\ CandidateOf(req) # None,
   digest |-> req, candidate |-> CandidateOf(req), output |-> None]

CallPrepare(req, root) ==
  LET ok == prepared[req.rid] \in {None, req} IN
  /\ CanCall
  /\ prepared' = [prepared EXCEPT ![req.rid] = IF ok THEN req ELSE @]
  /\ receipts' = Append(receipts, PrepareReceipt(req, ok))
  /\ Logged(Entry("prepare", req, ok, root))
  /\ honest' = (honest /\ req = OwnRequest /\ root /\ log = <<>>)
  /\ UNCHANGED <<remediable, mirrored, final, answer, result>>

FinalizeArgs(digest, candidate) ==
  [rid |-> digest.rid, digest |-> digest, candidate |-> candidate]

FinalizeReceipt(digest, candidate, ok) ==
  [tool |-> "finalize", rid |-> digest.rid, args |-> FinalizeArgs(digest, candidate), ok |-> ok,
   ready |-> ok /\ candidate # None, digest |-> digest, candidate |-> candidate,
   output |-> IF ok THEN FinalOutput(digest) ELSE None]

\* The worker names the digest and the candidate; the gateway may have sent the call twice.
CallFinalize(digest, candidate, root) ==
  LET ok == prepared[digest.rid] = digest /\ candidate = CandidateOf(digest) IN
  /\ CanCall
  /\ final' = [final EXCEPT ![digest.rid] = IF ok THEN FinalOutput(digest) ELSE @]
  /\ \/ receipts' = receipts \o <<FinalizeReceipt(digest, candidate, ok)>>
     \/ receipts' = receipts \o <<FinalizeReceipt(digest, candidate, ok),
                                  FinalizeReceipt(digest, candidate, ok)>>
  /\ Logged(Entry("finalize", FinalizeArgs(digest, candidate), ok, root))
  /\ honest' = (honest /\ digest.rid = OwnRequest.rid /\ ok /\ root
                       /\ \A e \in Range(log) : e.tool = "prepare")
  /\ UNCHANGED <<remediable, mirrored, prepared, answer, result>>

\* The worker answers what a finalize of any id returned, leaves out the empty error list, or
\* makes a final output up.
Answer ==
  /\ answer = None
  /\ \E a \in ({final[r] : r \in TaskRids} \ {None})
               \cup {[FinalOutput(OwnRequest) EXCEPT !.candidate = c] : c \in TaskRequests},
          errors \in BOOLEAN :
       /\ answer' = [a EXCEPT !.errors = errors]
       /\ honest' = (honest /\ final[OwnRequest.rid] # None
                            /\ answer' \in {final[OwnRequest.rid],
                                            [final[OwnRequest.rid] EXCEPT !.errors = FALSE]})
  /\ UNCHANGED <<remediable, mirrored, prepared, final, log, receipts, result>>

-----------------------------------------------------------------------------
(* The backend.                                                            *)

\* _tool_flow: prepare and then finalize, once each, without errors, in the root task, with
\* the arguments of the request.  Mirrored entries of one call are one.
FlowHolds(p, f) ==
  /\ Range(log) = {p, f}
  /\ p.call < f.call
  /\ p.tool = "prepare" /\ p.root /\ p.ok /\ p.args = OwnRequest
  /\ f.tool = "finalize" /\ f.root /\ f.ok /\ f.args.rid = OwnRequest.rid

Matching(tool) ==
  {i \in DOMAIN receipts : receipts[i].rid = OwnRequest.rid /\ receipts[i].tool = tool}

\* One prepare, before the first of at most two finalizes: one that was sent again counts as
\* one if it says the same.
ReceiptsCount(i, j) ==
  /\ Matching("prepare") = {i}
  /\ \E k \in Matching("finalize") :
       /\ Matching("finalize") = {j, k}
       /\ j <= k
       /\ receipts[k] = receipts[j]
  /\ i < j

\* _aga_receipts: complete, and each bound to the arguments that were logged.
ReceiptsHold(p, f, args) ==
  /\ p.args = OwnRequest /\ p.ok /\ p.ready
  /\ f.args = args /\ f.ok /\ f.ready
  /\ p.candidate = f.candidate
  /\ f.digest = args.digest /\ p.digest = args.digest

AnyAnswer(f) ==   \* mutant
  /\ answer.req = OwnRequest
  /\ answer.candidate # None
\* _validate_final: the answer is the finalize output, or would be with its empty error list.
FinalHolds(f) ==
  LET repaired == [answer EXCEPT !.errors = TRUE] IN
  /\ answer = f.output \/ (~answer.errors /\ repaired = f.output)
  /\ answer.req = OwnRequest
  /\ answer.candidate # None /\ answer.candidate = f.candidate

Believed ==
  \E p, f \in Range(log) :
    /\ FlowHolds(p, f)
    /\ \E i, j \in DOMAIN receipts :
         /\ ReceiptsCount(i, j)
         /\ ReceiptsHold(receipts[i], receipts[j], f.args)
         /\ FinalHolds(receipts[j])

Decide ==
  /\ answer # None
  /\ result = None
  /\ result' = IF Believed THEN "succeeded" ELSE "failed"
  /\ UNCHANGED <<remediable, mirrored, prepared, final, log, receipts, answer, honest>>

TaskNext ==
  \/ \E req \in TaskRequests, root \in BOOLEAN : CallPrepare(req, root)
  \/ \E d \in TaskRequests, root \in BOOLEAN : \E c \in {d, None} : CallFinalize(d, c, root)
  \/ Answer
  \/ Decide

TaskSpec == TaskInit /\ [][TaskNext]_taskVars

-----------------------------------------------------------------------------

\* A task that succeeds answers the candidate the service finalized for the very request of
\* the task, from a finding that has one.
OnlyTheServicesCandidate ==
  result = "succeeded" =>
    /\ prepared[OwnRequest.rid] = OwnRequest
    /\ final[OwnRequest.rid] # None
    /\ answer.candidate = final[OwnRequest.rid].candidate
    /\ answer.candidate = CandidateOf(OwnRequest)
    /\ answer.candidate # None

\* It succeeds only if the worker did nothing else under the id of the task: no second
\* prepare, nothing in another task, and nothing after the finalize.
NothingElseWasCalled == result = "succeeded" => honest

\* A worker that made the two calls of its task and answered what it was told is believed,
\* also when the gateway had to send the finalize again, if there was a candidate.
HonestWorkerBelieved ==
  honest /\ result = "failed" => CandidateOf(OwnRequest) = None

\* A task that succeeds answers the candidate the service finalized for its very request, and
\* its worker did nothing else under its id: no second prepare, nothing in another task,
\* nothing after the finalize. A worker that made its two calls and answered what it was told
\* is believed, also when the gateway had to send the finalize again.
WorkerIsBelieved ==
  /\ OnlyTheServicesCandidate
  /\ NothingElseWasCalled
  /\ HonestWorkerBelieved
=============================================================================

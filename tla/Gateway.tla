------------------------------- MODULE Gateway -------------------------------
(***************************************************************************)
(* The MCP server in front of the review service:                          *)
(* aga-skill/tools/mcp_server.py, classes MCPApplication, _MCPHTTPServer   *)
(* and MCPServer, composed with ReviewService.                             *)
(*                                                                         *)
(* A worker is an HTTP request thread.  It holds a request slot, passes    *)
(* dispatch, queues for a tool permit, runs one service call in its own    *)
(* thread (prepare, finalize) or hands it to a reader thread (lookups) and *)
(* replies.  A host is the trusted orchestrator, which may repair a        *)
(* finalize from outside the HTTP path.                                    *)
(***************************************************************************)
EXTENDS ReviewService

CONSTANTS
  Hosts,          \* callers of the two repair methods; the other callers are workers
  MaxConcurrency  \* max_concurrency: request slots and tool permits

ASSUME GatewayAssumption ==
  /\ Hosts \subseteq Callers
  /\ MaxConcurrency \in Nat \ {0}

Workers == Callers \ Hosts

VARIABLES
  server,   \* how far MCPServer.shutdown has got
  slots,    \* free permits of _request_slots
  tokens,   \* free permits of the tool semaphore
  active,   \* _active_workers
  readers,  \* reader threads that outlive the reply to their request
  lost,     \* permits of reader threads that could not be started
  pinned,   \* _finalize_transport_arguments
  pending,  \* _pending_finalize_repairs
  front     \* the request each worker serves

httpVars    == <<slots, tokens, active, readers, lost>>
repairVars  == <<pinned, pending>>
gatewayVars == <<server, httpVars, repairVars, front>>
allVars     == <<vars, gatewayVars>>

NoRequest == [stage |-> "idle", msg |-> NoArgs, reply |-> "none"]

GatewayInit ==
  /\ Init
  /\ server = "serving"
  /\ slots = MaxConcurrency
  /\ tokens = MaxConcurrency
  /\ active = 0
  /\ readers = 0
  /\ lost = 0
  /\ pinned = [id \in ReviewIds |-> NoArgs]
  /\ pending = [id \in ReviewIds |-> NoArgs]
  /\ front = [w \in Workers |-> NoRequest]

Messages == {m \in PrepareArgs \cup FinalizeArgs \cup ReadArgs : m.tool \in Tools}

Stage(w, stage) == front' = [front EXCEPT ![w].stage = stage]

Respond(w, reply) == front' = [front EXCEPT ![w].stage = "replied", ![w].reply = reply]

-----------------------------------------------------------------------------
(* One request.                                                            *)

\* Bound: prepare requests whose object is not built yet.
Preparing == {w \in Workers : front[w].msg.tool = "prepare" /\ call[w].pc \in
                {"idle", "prepare", "hook"}}

\* A connection finds a free slot; without one it is refused with 503.
Receive(w, msg) ==
  /\ front[w].stage = "idle"
  /\ server \in {"serving", "draining"}
  /\ slots > 0
  /\ msg.tool = "prepare" => RoomFor(Cardinality(Preparing))
  /\ slots' = slots - 1
  /\ front' = [front EXCEPT ![w] = [stage |-> "received", msg |-> msg, reply |-> "none"]]
  /\ UNCHANGED <<vars, server, tokens, active, readers, lost, repairVars>>

PinConflictForgotten(msg) == FALSE   \* mutant
PinConflict(msg) == pinned[msg.id] \notin {NoArgs, msg}

\* dispatch and the head of _execute_tool: the first schema-valid finalize of a
\* review_id pins its arguments for the life of the process.
Dispatch(w) ==
  LET msg == front[w].msg IN
  /\ front[w].stage = "received"
  /\ \/ /\ server # "serving"
        /\ Respond(w, "shutting_down")
        /\ UNCHANGED pinned
     \/ /\ server = "serving"
        /\ msg.tool # "finalize"
        /\ Stage(w, "queued")
        /\ UNCHANGED pinned
     \/ /\ server = "serving"
        /\ msg.tool = "finalize"
        /\ ~PinConflict(msg)
        /\ pinned' = [pinned EXCEPT ![msg.id] = IF @ = NoArgs THEN msg ELSE @]
        /\ Stage(w, "queued")
     \/ /\ server = "serving"
        /\ msg.tool = "finalize"
        /\ PinConflict(msg)
        /\ Respond(w, "finalize_retry_conflict")
        /\ UNCHANGED pinned
  /\ UNCHANGED <<vars, server, httpVars, pending>>

\* _semaphore.acquire(timeout=request_timeout_seconds)
Admit(w) ==
  /\ front[w].stage = "queued"
  /\ tokens > 0
  /\ tokens' = tokens - 1
  /\ active' = active + 1
  /\ Stage(w, "running")
  /\ UNCHANGED <<vars, server, slots, readers, lost, repairVars>>

BusyNever(w) == FALSE   \* mutant

Busy(w) ==
  /\ front[w].stage = "queued"
  /\ tokens = 0
  /\ Respond(w, "server_busy")
  /\ UNCHANGED <<vars, server, httpVars, repairVars>>

Start(w) ==
  LET msg == front[w].msg IN
  /\ front[w].stage = "running"
  /\ \/ msg.tool = "prepare"  /\ PrepareBegin(w, msg.id, msg.req)
     \/ msg.tool = "finalize" /\ FinalizeBegin(w, msg.id, msg.digest, msg.payload)
  /\ UNCHANGED gatewayVars

\* worker_finished gives the permit back before the worker looks at the answer.
WorkerFinished(w) ==
  /\ front[w].stage = "running"
  /\ call[w].pc = "answered"
  /\ tokens' = tokens + 1
  /\ active' = active - 1
  /\ Stage(w, "retired")
  /\ UNCHANGED <<vars, server, slots, readers, lost, repairVars>>

\* A rejected copy of the digests is kept for the host, the first one only.
Answer(w) ==
  LET msg == front[w].msg IN
  /\ front[w].stage = "retired"
  /\ IF /\ msg.tool = "finalize"
        /\ call[w].answer = "digest_mismatch"
        /\ pending[msg.id] = NoArgs
       THEN pending' = [pending EXCEPT ![msg.id] = msg]
       ELSE UNCHANGED pending
  /\ Respond(w, call[w].answer)
  /\ UNCHANGED <<vars, server, httpVars, pinned>>

\* The reader thread queues its result before it gives its permit back, so both
\* a reply and a tool_timeout leave it behind.
Read(w) ==
  LET msg == front[w].msg IN
  /\ front[w].stage = "running"
  /\ msg.tool = "read"
  /\ ReadReview(w, msg.id, msg.digest)
  /\ readers' = readers + 1
  /\ Stage(w, "retired")
  /\ UNCHANGED <<server, slots, tokens, active, lost, repairVars>>

ReadTimeoutFreesPermit(w) ==   \* mutant
  /\ front[w].stage = "running"
  /\ front[w].msg.tool = "read"
  /\ readers' = readers + 1
  /\ tokens' = tokens + 1
  /\ Respond(w, "tool_timeout")
  /\ UNCHANGED <<vars, server, slots, active, lost, repairVars>>

ReadTimeout(w) ==
  /\ front[w].stage = "running"
  /\ front[w].msg.tool = "read"
  /\ readers' = readers + 1
  /\ Respond(w, "tool_timeout")
  /\ UNCHANGED <<vars, server, slots, tokens, active, lost, repairVars>>

\* Thread.start may fail.  The permit and the count were taken before it and only
\* the thread would have given them back; the request itself ends in an error.
ReaderNotStarted(w) ==
  /\ front[w].stage = "running"
  /\ front[w].msg.tool = "read"
  /\ lost' = lost + 1
  /\ Respond(w, "internal_error")
  /\ UNCHANGED <<vars, server, slots, tokens, active, readers, repairVars>>

\* A reader that was late may still purge the store and mark a review as used.
ReaderExits ==
  /\ readers > 0
  /\ readers' = readers - 1
  /\ tokens' = tokens + 1
  /\ active' = active - 1
  /\ \/ UNCHANGED storeVars
     \/ SetStore(Fresh(live), recency)
     \/ \E o \in Fresh(live) : Get(o)
  /\ UNCHANGED <<review, horizon, phase, hookVars, call, server, slots, lost, repairVars, front>>

\* The response is written and the thread gives its slot back.
Finish(w) ==
  /\ front[w].stage = "replied"
  /\ slots' = slots + 1
  /\ front' = [front EXCEPT ![w] = NoRequest]
  /\ call' = [call EXCEPT ![w] = Idle]
  /\ UNCHANGED <<review, storeVars, horizon, phase, hookVars, server, tokens, active,
                 readers, lost, repairVars>>

-----------------------------------------------------------------------------
(* The host's repairs.                                                     *)

\* repair_finalize_digest_mismatch: one shot, the digests replaced, the
\* semantic result kept.
RepairDigest(h, id, digest) ==
  LET kept == pending[id] IN
  /\ call[h].pc = "idle"
  /\ kept # NoArgs
  /\ pending' = [pending EXCEPT ![id] = NoArgs]
  /\ IF kept.digest = digest THEN UNCHANGED vars
                             ELSE FinalizeBegin(h, id, digest, kept.payload)
  /\ UNCHANGED <<server, httpVars, pinned, front>>

RepairWithAnyPayload(h, id) ==   \* mutant
  /\ call[h].pc = "idle"
  /\ pinned[id] # NoArgs
  /\ \E p \in Payloads : FinalizeBegin(h, id, pinned[id].digest, p)
  /\ UNCHANGED gatewayVars

\* repair_finalize_transport_error: replay of the pinned arguments.
RepairTransport(h, id) ==
  /\ call[h].pc = "idle"
  /\ pinned[id] # NoArgs
  /\ FinalizeBegin(h, id, pinned[id].digest, pinned[id].payload)
  /\ UNCHANGED gatewayVars

-----------------------------------------------------------------------------
(* MCPServer.shutdown                                                      *)

BeginShutdown ==
  /\ server = "serving"
  /\ server' = "draining"
  /\ UNCHANGED <<vars, httpVars, repairVars, front>>

StopAccepting ==
  /\ server = "draining"
  /\ server' = "unbound"
  /\ UNCHANGED <<vars, httpVars, repairVars, front>>

WaitForIdleForEver ==   \* mutant
  /\ server = "unbound"
  /\ active = 0
  /\ server' = "closing"
  /\ UNCHANGED <<vars, httpVars, repairVars, front>>

\* wait_for_idle returns when no worker is active or when its timeout expires.
WaitForIdle ==
  /\ server = "unbound"
  /\ server' = "closing"
  /\ UNCHANGED <<vars, httpVars, repairVars, front>>

CloseService ==
  /\ server = "closing"
  /\ BeginClose \/ ClearStore
  /\ UNCHANGED gatewayVars

-----------------------------------------------------------------------------

Serve(w) ==
  \/ Dispatch(w) \/ Admit(w) \/ Busy(w) \/ Start(w) \/ WorkerFinished(w)
  \/ Answer(w) \/ Read(w) \/ ReadTimeout(w) \/ ReaderNotStarted(w) \/ Finish(w)

Work(c) == Proceed(c) /\ UNCHANGED gatewayVars

HostReturn(h) == Return(h) /\ UNCHANGED gatewayVars

Repair(h) ==
  \/ \E id \in ReviewIds, d \in Digests : RepairDigest(h, id, d)
  \/ \E id \in ReviewIds : RepairTransport(h, id)

Shutdown == BeginShutdown \/ StopAccepting \/ WaitForIdle \/ CloseService

GatewayNext ==
  \/ \E w \in Workers : Serve(w) \/ \E msg \in Messages : Receive(w, msg)
  \/ \E h \in Hosts : Repair(h) \/ HostReturn(h)
  \/ \E c \in Callers : Work(c)
  \/ ReaderExits
  \/ Environment /\ UNCHANGED gatewayVars
  \/ Shutdown

GatewaySpec == GatewayInit /\ [][GatewayNext]_allVars

\* Threads are scheduled, locks are held briefly and every wait has a timeout;
\* nothing makes a client call, a hook answer, a reader exit or a shutdown begin.
GatewayFairness ==
  /\ \A w \in Workers : WF_allVars(Serve(w))
  /\ \A c \in Callers : WF_allVars(Work(c))
  /\ \A h \in Hosts : WF_allVars(HostReturn(h))
  /\ WF_allVars(StopAccepting \/ WaitForIdle \/ CloseService)

FairGatewaySpec == GatewaySpec /\ GatewayFairness

-----------------------------------------------------------------------------
(* Correctness.                                                            *)

\* A review_id is decided with one semantic payload for the life of the
\* process: neither concurrent finalizes, nor the host's repairs, nor a review
\* that expired or was evicted and then prepared again can bind two different
\* model outputs under one id (mcp_server 611-635, 440-466, 499-520).
SinglePayload ==
  \A o \in 1..built : review[o].final # Undecided =>
    /\ pinned[review[o].id] # NoArgs
    /\ review[o].final = Meaning[pinned[review[o].id].payload]

\* Permits are accounted for: every free slot is one no thread holds, no tool
\* permit is given back twice, and one that is neither free nor held was lost with
\* a reader thread that could not be started (mcp_server 627, 669, 703).  Shutdown
\* counts that reader as active for ever (637-676, 892-920).
PermitsConserved ==
  LET holding == {w \in Workers : front[w].stage = "running"}
      serving == {w \in Workers : front[w].stage # "idle"}
  IN
  /\ slots + Cardinality(serving) = MaxConcurrency
  /\ tokens + Cardinality(holding) + readers + lost = MaxConcurrency
  /\ active = Cardinality(holding) + readers + lost

\* What does not hold: the first reader that cannot be started takes its permit
\* with it, and MaxConcurrency such failures leave every later request "server_busy".
PermitsComeBack == lost = 0

\* Whoever holds a reply with a verdict holds the verdict that stands: two
\* clients that were told a verdict under one review_id and one digest were told
\* the same, whichever path and whichever incarnation answered them.
VerdictOf(o) ==
  CASE review[o].outcome \in {"flawed", "degraded"} \/ review[o].final = "partial" -> "incomplete"
    [] review[o].outcome = "blocked" \/ review[o].final = "block" -> "request_changes_escalate"
    [] OTHER -> "approve"

OneVerdictPerDigest ==
  \A a, b \in {o \in 1..built : review[o].final # Undecided} :
    review[a].id = review[b].id /\ Digest(a) = Digest(b) => VerdictOf(a) = VerdictOf(b)

\* Nothing is decided and nothing is stored after MCPServer.shutdown has
\* returned, although request threads and repairs may still be running then
\* (mcp_server 1332-1343, review_service 529-533).
NothingAfterShutdown ==
  [][phase = "closed" => /\ live = {} /\ live' = {}
                         /\ \A o \in 1..built : review'[o].final = review[o].final]_allVars

\* Every accepted request is replied to although hooks and readers may hang.
RequestsReplied ==
  \A w \in Workers : (front[w].stage = "received") ~> (front[w].stage = "idle")

\* A shutdown that began completes, whatever the hooks, readers and clients do.
ShutdownCompletes == (server = "draining") ~> (phase = "closed")

-----------------------------------------------------------------------------
(* What docs/MCP-CONTRACT.md 90-93 says of finalization.                   *)

\* "An identical semantic retry returns the stored result": a finalize for a
\* review that is stored, decided and addressed by its digests, whose payload
\* means the same as the one decided with, is not turned away at the door.
SemanticRetryGetsStored ==
  [][\A w \in Workers : LET msg == front[w].msg IN
       /\ front[w].stage = "received"
       /\ msg.tool = "finalize"
       /\ \E o \in Found(msg) : review[o].final = Meaning[msg.payload]
       => front'[w].reply # "finalize_retry_conflict"]_allVars

\* "Missing, timed-out, invalid or incomplete semantic work yields `incomplete`
\* at the AGA finalize boundary": a finalize that found its review is never
\* refused for what the semantic agent wrote.
InvalidWorkYieldsVerdict ==
  \A w \in Workers : front[w].reply # "invalid_arguments"
=============================================================================

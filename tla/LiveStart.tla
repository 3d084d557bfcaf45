----------------------------- MODULE LiveStart -----------------------------
(***************************************************************************)
(* Readiness and start of live runs in scripts/self_evolution_ui.py.       *)
(*                                                                         *)
(* Requests of the browser ask for the readiness of a model or start a     *)
(* live run of it.  A probe runs the profile's status and preflight and,   *)
(* when the profile serves another model, stops it and starts it for the   *)
(* asked one.  One profile serves all requests and the run at work; the    *)
(* lock of the manager is not held during a probe.                         *)
(***************************************************************************)
EXTENDS Naturals, Nothing

CONSTANTS
  Models,        \* SUPPORTED_MODELS
  Requests,      \* requests the browser makes, one thread each
  CacheSeconds,  \* LIVE_READINESS_CACHE_SECONDS
  MaxClock       \* bound

VARIABLES
  profile,    \* the model the running profile serves, None when it is stopped
  cache,      \* _readiness_cache: [model -> the last answer]
  liveRun,    \* the live run that is queued or running: its model and where it is
  request,    \* [request -> where it is]
  clock

liveVars == <<profile, cache, liveRun, request, clock>>

NoRequest == [pc |-> "idle"]

LiveInit ==
  /\ profile \in Models \cup {None}
  /\ cache = [m \in Models |-> None]
  /\ liveRun = None
  /\ request = [r \in Requests |-> NoRequest]
  /\ clock = 0

Tick == clock < MaxClock /\ clock' = clock + 1 /\ UNCHANGED <<profile, cache, liveRun, request>>

GoOn(r, pc) == request' = [request EXCEPT ![r].pc = pc]
Answer(r, status) == request' = [request EXCEPT ![r].pc = "store", ![r].answer = status]

-----------------------------------------------------------------------------
\* A request: readiness of a model, forced or not, or the start of a live run of it.

Ask(r, m) ==
  /\ request[r].pc = "idle"
  /\ \E kind \in {"readiness", "forced", "start"} :
       request' = [request EXCEPT ![r] = [pc |-> "cache", model |-> m, kind |-> kind, answer |-> None]]
  /\ UNCHANGED <<profile, cache, liveRun, clock>>

Fresh(m) == cache[m] # None /\ clock <= cache[m].at + CacheSeconds

\* live_readiness: a fresh answer is given again, unless the request forces a probe.
ReadCache(r) ==
  /\ request[r].pc = "cache"
  /\ IF Fresh(request[r].model) /\ request[r].kind # "forced"
       THEN request' = [request EXCEPT ![r].pc = "answered", ![r].answer = cache[request[r].model].status]
       ELSE GoOn(r, "status")
  /\ UNCHANGED <<profile, cache, liveRun, clock>>

NoProfile(r) == Answer(r, "failed")

\* The status of the profile: only a running one is probed further.
ProfileStatus(r) ==
  /\ request[r].pc = "status"
  /\ IF profile = None THEN NoProfile(r) ELSE GoOn(r, "preflight")
  /\ UNCHANGED <<profile, cache, liveRun, clock>>

\* The preflight of a model: a profile of another one answers that it is not configured.
Preflight(r) ==
  /\ request[r].pc = "preflight"
  /\ \/ profile = request[r].model /\ GoOn(r, "tools")
     \/ profile # None /\ profile # request[r].model /\ GoOn(r, "stop")
     \/ Answer(r, "failed")
  /\ UNCHANGED <<profile, cache, liveRun, clock>>

\* _switch_profile_model: stop, synchronize and start, each of which may fail.
StopProfile(r) ==
  /\ request[r].pc = "stop"
  /\ \/ profile' = None /\ GoOn(r, "launch")
     \/ Answer(r, "failed") /\ UNCHANGED profile
  /\ UNCHANGED <<cache, liveRun, clock>>

\* mutant: a profile that was switched is not probed again
AfterSwitchReady == "tools"

\* A switched profile is probed once more.
AfterSwitch == "again"

\* A profile that is running already is taken as it is.
LaunchProfile(r) ==
  /\ request[r].pc = "launch"
  /\ \/ /\ profile' = IF profile = None THEN request[r].model ELSE profile
        /\ GoOn(r, AfterSwitch)
     \/ Answer(r, "failed") /\ UNCHANGED profile
  /\ UNCHANGED <<cache, liveRun, clock>>

PreflightAgain(r) ==
  /\ request[r].pc = "again"
  /\ \/ profile = request[r].model /\ GoOn(r, "tools")
     \/ Answer(r, "failed")
  /\ UNCHANGED <<profile, cache, liveRun, clock>>

\* The inventories of tools in the preflight, and the budget endpoint.
ToolsAndBudget(r) ==
  /\ request[r].pc = "tools"
  /\ \E status \in {"ready", "failed"} : Answer(r, status)
  /\ UNCHANGED <<profile, cache, liveRun, clock>>

\* Every answer is kept, also the one of a probe that began before a later one.
StoreAnswer(r) ==
  /\ request[r].pc = "store"
  /\ cache' = [cache EXCEPT ![request[r].model] = [status |-> request[r].answer, at |-> clock]]
  /\ GoOn(r, "answered")
  /\ UNCHANGED <<profile, liveRun, clock>>

-----------------------------------------------------------------------------
\* Starting a run.

IsReady(r) == request[r].answer = "ready"

\* The readiness comes before the check that no run is active.
NoRun == liveRun = None

StartRun(r) ==
  /\ request[r].pc = "answered"
  /\ IF request[r].kind = "start" /\ IsReady(r) /\ NoRun
       THEN liveRun' = [model |-> request[r].model, pc |-> "stop", by |-> r]
       ELSE UNCHANGED liveRun
  /\ GoOn(r, "done")
  /\ UNCHANGED <<profile, cache, clock>>

\* _run_architecture: the run stops and starts the profile for its model before its child works.
RunStops ==
  /\ liveRun # None /\ liveRun.pc = "stop"
  /\ profile' = None
  /\ liveRun' = [liveRun EXCEPT !.pc = "launch"]
  /\ UNCHANGED <<cache, request, clock>>

RunLaunches ==
  /\ liveRun # None /\ liveRun.pc = "launch"
  /\ profile' = IF profile = None THEN liveRun.model ELSE profile
  /\ liveRun' = [liveRun EXCEPT !.pc = "work"]
  /\ UNCHANGED <<cache, request, clock>>

RunEnds ==
  /\ liveRun # None
  /\ liveRun' = None
  /\ UNCHANGED <<profile, cache, request, clock>>

-----------------------------------------------------------------------------

RequestStep(r) ==
  \/ ReadCache(r) \/ ProfileStatus(r) \/ Preflight(r) \/ StopProfile(r) \/ LaunchProfile(r)
  \/ PreflightAgain(r) \/ ToolsAndBudget(r) \/ StoreAnswer(r) \/ StartRun(r)

RunStep == RunStops \/ RunLaunches \/ RunEnds

AllDone == (\A r \in Requests : request[r].pc = "done") /\ liveRun = None /\ UNCHANGED liveVars

LiveNext == Tick \/ RunStep \/ AllDone \/ \E r \in Requests : RequestStep(r) \/ \E m \in Models : Ask(r, m)

LiveSpec == LiveInit /\ [][LiveNext]_liveVars

LiveFairSpec == LiveSpec /\ \A r \in Requests : WF_liveVars(RequestStep(r))

-----------------------------------------------------------------------------

\* The variables keep their types; a request that was answered has an answer.
LiveTypeOK ==
  /\ profile \in Models \cup {None}
  /\ \A r \in Requests : request[r].pc \in {"store", "answered"} => request[r].answer \in {"ready", "failed"}
  /\ liveRun # None => liveRun.model \in Models

\* A live run starts only where none is active and the answer for its model is that it is
\* ready, however many requests race: the active run is never replaced by another one.
RunsStartReady ==
  \A r \in Requests :
    (liveRun' # None /\ (liveRun = None \/ liveRun'.by # liveRun.by) /\ liveRun'.by = r)
      => /\ liveRun = None
         /\ request[r].answer = "ready" /\ request[r].model = liveRun'.model

\* A probe goes on to the tools and the budget only while the profile serves the model it was
\* asked about, although another request or the run may switch the profile between any two of
\* its steps: that a switch was asked for is not taken as its success.
SwitchIsChecked ==
  \A r \in Requests :
    (request[r].pc # "tools" /\ request'[r].pc = "tools") => profile = request[r].model

\* However many requests race with each other and with the run at work: a run starts only
\* where its model is ready, a probe goes on only where the profile serves the model it was
\* asked about, and a request that was answered has an answer.
StartsReady ==
  /\ []LiveTypeOK
  /\ [][RunsStartReady /\ SwitchIsChecked]_liveVars

\* Every request is answered, whatever the profile does.
RequestsAnswered == \A r \in Requests : (request[r].pc = "cache") ~> (request[r].pc = "done")

\* A live run at work keeps the profile of its model.
RunKeepsProfile == (liveRun # None /\ liveRun.pc = "work") => profile = liveRun.model

=============================================================================

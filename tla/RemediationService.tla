-------------------------- MODULE RemediationService --------------------------
(***************************************************************************)
(* The remediation service: aga-skill/tools/remediation_service.py.  The   *)
(* host registers trusted final reviews; callers prepare a candidate for a *)
(* finding of one of them and finalize it.  A candidate is computed by a   *)
(* worker thread outside the lock, under a time limit, while other callers *)
(* prepare, entries expire and are trimmed, and the service is closed.     *)
(*                                                                         *)
(* Data: a digest is the material it is computed from.  Sizes: a review, a *)
(* prepared and a final remediation count one unit each.                   *)
(***************************************************************************)
EXTENDS Naturals, Sequences, FiniteSets, FiniteSetsExt, SequencesExt, Nothing

CONSTANTS
  Callers,
  ReviewIds, RemediationIds,
  Finals,          \* final reviews, which the digests and the hash of a review stand for
  Remediable,      \* the finals whose finding has a patch
  MaxReviews, MaxRemediations, MaxStore, MaxWorkers,
  MaxRegistered    \* bound: registrations

ServiceAssumption ==
  /\ {MaxReviews, MaxRemediations, MaxWorkers} \subseteq Nat \ {0}
  /\ MaxStore \in Nat \ {0, 1}

VARIABLES
  reviews,     \* _reviews, the oldest first
  rems,        \* _remediations, the oldest first
  closed,
  slots,       \* _prepare_slots: how many are free
  worker,      \* the worker thread of each caller
  caller,      \* the call of each caller
  registered   \* what the host has registered so far (history)

remVars == <<reviews, rems, closed, slots, worker, caller, registered>>

Requests == [rid : RemediationIds, review : ReviewIds, final : Finals]

Preparations == [req: Requests, output: Finals, candidate: Finals \cup {None}]

TrustedReviews == [id: ReviewIds, final: Finals, reg: Nat]

Remediations == [id: RemediationIds, prepared: Preparations,
                 result: {None, "hitl_required", "candidate_ready"}]

CallStates ==
  [pc: {"idle", "lookup", "trust", "acquire", "wait", "store", "replied", "failed"},
   req: Requests \cup {None}, trusted: TrustedReviews \cup {None},
   answer: {"none", "answered", "raised"}, reply: Preparations \cup {None}]

NoCall == [pc |-> "idle", req |-> None, trusted |-> None, answer |-> "none", reply |-> None]

RemInit ==
  /\ reviews = <<>>
  /\ rems = <<>>
  /\ closed = FALSE
  /\ slots = MaxWorkers
  /\ worker = [c \in Callers |-> "none"]
  /\ caller = [c \in Callers |-> NoCall]
  /\ registered = <<>>

-----------------------------------------------------------------------------
(* The stores.                                                             *)

Ids(s) == {e.id : e \in Range(s)}
Place(s, id) == CHOOSE i \in DOMAIN s : s[i].id = id
Get(s, id) == s[Place(s, id)]
Without(s, id) == RemoveAt(s, Place(s, id))
MoveToEnd(s, id) == Append(Without(s, id), Get(s, id))

Finished(rm) == {e \in Range(rm) : e.result # None}

Bytes(rv, rm) == Len(rv) + Len(rm) + Cardinality(Finished(rm))

Fits(rv, rm) ==
  /\ Len(rv) <= MaxReviews
  /\ Len(rm) <= MaxRemediations
  /\ Bytes(rv, rm) <= MaxStore

Tail_(s, n) == SubSeq(s, n + 1, Len(s))

\* The oldest reviews go first, then the oldest remediations; the entry that was just
\* written, the youngest of its store, stays.
Trim(rv, rm, kind) ==
  LET most(s, k) == IF kind = k THEN Len(s) - 1 ELSE Len(s)
      i == Min({i \in 0..most(rv, "review") : Fits(Tail_(rv, i), rm) \/ i = most(rv, "review")})
      kept == Tail_(rv, i)
      j == Min({j \in 0..most(rm, "remediation") :
                  Fits(kept, Tail_(rm, j)) \/ j = most(rm, "remediation")}) IN
  <<kept, Tail_(rm, j)>>

Store(rv, rm, kind) == LET t == Trim(rv, rm, kind) IN reviews' = t[1] /\ rems' = t[2]

-----------------------------------------------------------------------------
(* The host.                                                               *)

\* register_trusted_review: the same review again only becomes the youngest.
Register(id, final) ==
  /\ ~closed
  /\ Len(registered) < MaxRegistered
  /\ \/ /\ id \notin Ids(reviews)
        /\ registered' = Append(registered, final)
        /\ Store(Append(reviews, [id |-> id, final |-> final, reg |-> Len(registered) + 1]),
                 rems, "review")
     \/ /\ id \in Ids(reviews)
        /\ Get(reviews, id).final = final
        /\ reviews' = MoveToEnd(reviews, id)
        /\ UNCHANGED <<rems, registered>>
  /\ UNCHANGED <<closed, slots, worker, caller>>

\* The time to live of an entry is over: every operation drops it before it looks.
Expire ==
  /\ \/ \E id \in Ids(reviews) : reviews' = Without(reviews, id) /\ UNCHANGED rems
     \/ \E id \in Ids(rems) : rems' = Without(rems, id) /\ UNCHANGED reviews
  /\ UNCHANGED <<closed, slots, worker, caller, registered>>

Close ==
  /\ ~closed
  /\ closed' = TRUE
  /\ reviews' = <<>>
  /\ rems' = <<>>
  /\ UNCHANGED <<slots, worker, caller, registered>>

-----------------------------------------------------------------------------
(* prepare_remediation                                                     *)

CallerAt(c, pc) == caller[c].pc = pc
CallerGoto(c, pc) == caller' = [caller EXCEPT ![c].pc = pc]
Fails(c) == CallerGoto(c, "failed")
Replies(c, r) == caller' = [caller EXCEPT ![c].pc = "replied", ![c].reply = r]

Call(c, req) ==
  /\ CallerAt(c, "idle")
  /\ ~closed
  /\ caller' = [caller EXCEPT ![c].pc = "lookup", ![c].req = req]
  /\ UNCHANGED <<reviews, rems, closed, slots, worker, registered>>

Lookup(c) ==
  LET id == caller[c].req.rid IN
  /\ CallerAt(c, "lookup")
  /\ IF id \in Ids(rems)
     THEN IF Get(rems, id).prepared.req = caller[c].req
          THEN rems' = MoveToEnd(rems, id) /\ Replies(c, Get(rems, id).prepared)
          ELSE Fails(c) /\ UNCHANGED rems
     ELSE CallerGoto(c, "trust") /\ UNCHANGED rems
  /\ UNCHANGED <<reviews, closed, slots, worker, registered>>

\* _get_trusted_review, and the checks on the finding, which the review alone decides.
Trust(c) ==
  LET id == caller[c].req.review IN
  /\ CallerAt(c, "trust")
  /\ IF ~closed /\ id \in Ids(reviews) /\ Get(reviews, id).final = caller[c].req.final
     THEN /\ reviews' = MoveToEnd(reviews, id)
          /\ caller' = [caller EXCEPT ![c].pc = "acquire", ![c].trusted = Get(reviews, id)]
     ELSE Fails(c) /\ UNCHANGED reviews
  /\ UNCHANGED <<rems, closed, slots, worker, registered>>

Acquire(c) ==
  /\ CallerAt(c, "acquire")
  /\ IF slots = 0
     THEN Fails(c) /\ UNCHANGED <<slots, worker>>
     ELSE /\ slots' = slots - 1
          /\ worker' = [worker EXCEPT ![c] = "running"]
          /\ CallerGoto(c, "wait")
  /\ UNCHANGED <<reviews, rems, closed, registered>>

\* The worker thread: it answers, and then gives its slot back.
Compute(c) ==
  /\ worker[c] = "running"
  /\ \E outcome \in {"answered", "raised"} :
       /\ worker' = [worker EXCEPT ![c] = outcome]
       /\ caller' = [caller EXCEPT ![c].answer = outcome]
  /\ UNCHANGED <<reviews, rems, closed, slots, registered>>

ReleaseOnSuccess(c) ==   \* mutant
  /\ worker[c] = "answered"
  /\ worker' = [worker EXCEPT ![c] = "none"]
  /\ slots' = slots + 1
  /\ UNCHANGED <<reviews, rems, closed, caller, registered>>
Release(c) ==
  /\ worker[c] \in {"answered", "raised"}
  /\ worker' = [worker EXCEPT ![c] = "none"]
  /\ slots' = slots + 1
  /\ UNCHANGED <<reviews, rems, closed, caller, registered>>

\* The caller waits for a while; a worker it no longer waits for goes on.
Wait(c) ==
  /\ CallerAt(c, "wait")
  /\ \/ caller[c].answer = "answered" /\ CallerGoto(c, "store")
     \/ caller[c].answer = "raised" /\ Fails(c)
     \/ caller[c].answer = "none" /\ Fails(c)
  /\ UNCHANGED <<reviews, rems, closed, slots, worker, registered>>

Prepared(req, final) ==
  [req |-> req, output |-> final, candidate |-> IF final \in Remediable THEN final ELSE None]

Bound(e, req) == e.prepared.req = req

AnyRegistration(c) == caller[c].req.review \in Ids(reviews)   \* mutant
\* The registered review is still the very one the candidate was computed from.
StillTrusted(c) ==
  /\ caller[c].req.review \in Ids(reviews)
  /\ Get(reviews, caller[c].req.review) = caller[c].trusted

\* The lock is taken again and everything that could have changed is looked at again.
StorePrepared(c) ==
  LET req == caller[c].req
      p == Prepared(req, caller[c].trusted.final) IN
  /\ CallerAt(c, "store")
  /\ IF closed
     THEN Fails(c) /\ UNCHANGED <<reviews, rems>>
     ELSE IF req.rid \in Ids(rems)
     THEN /\ IF Bound(Get(rems, req.rid), req)
             THEN Replies(c, Get(rems, req.rid).prepared)
             ELSE Fails(c)
          /\ UNCHANGED <<reviews, rems>>
     ELSE IF StillTrusted(c)
     THEN /\ Store(reviews, Append(rems, [id |-> req.rid, prepared |-> p, result |-> None]),
                   "remediation")
          /\ Replies(c, p)
     ELSE Fails(c) /\ UNCHANGED <<reviews, rems>>
  /\ UNCHANGED <<closed, slots, worker, registered>>

-----------------------------------------------------------------------------
(* finalize_remediation                                                    *)

Grow(e) == Store(reviews, Append(Without(rems, e.id), e), "remediation")

\* With the digest of the prepared remediation and its exact candidate, or none where there
\* is none; a second time it answers the same.
Finalize(id, digest, candidate) ==
  /\ id \in Ids(rems)
  /\ LET e == Get(rems, id) IN
     /\ e.prepared = digest
     /\ e.prepared.candidate = candidate
     /\ IF e.result # None
        THEN UNCHANGED <<reviews, rems>>
        ELSE Grow([e EXCEPT !.result = IF candidate = None THEN "hitl_required" ELSE "candidate_ready"])
  /\ UNCHANGED <<closed, slots, worker, caller, registered>>

CallerStep(c) ==
  \/ Lookup(c) \/ Trust(c) \/ Acquire(c) \/ Wait(c) \/ StorePrepared(c)

WorkerStep(c) == Compute(c) \/ Release(c)

RemNext ==
  \/ \E id \in ReviewIds, f \in Finals : Register(id, f)
  \/ Expire
  \/ Close
  \/ \E c \in Callers : (\E req \in Requests : Call(c, req)) \/ CallerStep(c) \/ WorkerStep(c)
  \/ \E c \in Callers : /\ CallerAt(c, "replied")
                        /\ Finalize(caller[c].req.rid, caller[c].reply, caller[c].reply.candidate)

RemSpec == RemInit /\ [][RemNext]_remVars

-----------------------------------------------------------------------------

RemTypeOK ==
  /\ reviews \in Seq(TrustedReviews)
  /\ rems \in Seq(Remediations)
  /\ \A i, j \in DOMAIN reviews : reviews[i].id = reviews[j].id => i = j
  /\ \A i, j \in DOMAIN rems : rems[i].id = rems[j].id => i = j
  /\ closed \in BOOLEAN
  /\ slots \in 0..MaxWorkers
  /\ worker \in [Callers -> {"none", "running", "answered", "raised"}]
  /\ caller \in [Callers -> CallStates]
  /\ registered \in Seq(Finals)

\* No more candidates are computed at once than there are slots, although callers give up
\* on workers that go on.
WorkersBounded == Cardinality({c \in Callers : worker[c] = "running"}) <= MaxWorkers

\* Both stores stay within their limits, whatever grows.
StoreBounded == Fits(reviews, rems)

\* What a caller is told is prepared is what it asked for, and is derived from a review that
\* the host has registered: never what another caller has bound to the same id meanwhile.
ReplyIsOwn ==
  \A c \in Callers : CallerAt(c, "replied") =>
    /\ caller[c].reply = Prepared(caller[c].req, caller[c].req.final)
    /\ caller[c].req.final \in Range(registered)

\* A remediation is stored only while the registration it was computed from stands: one that
\* expired, or was trimmed and registered again while the worker ran, does not count.
StoredWhileTrusted ==
  \A c \in Callers : CallerAt(c, "store") /\ rems' # rems /\ caller'[c] # caller[c] =>
    \E i \in DOMAIN reviews : reviews[i].reg = caller[c].trusted.reg

\* A caller that is told a new remediation is prepared can finalize it: trimming for the
\* entry does not take the entry.
PreparedIsStored ==
  \A c \in Callers : ~CallerAt(c, "replied") /\ caller'[c].pc = "replied" =>
    \E i \in DOMAIN rems' : rems'[i].prepared = caller'[c].reply

\* Callers that give up on workers that go on never make more of them than there are slots,
\* and what a caller is told is prepared is what it asked for, derived from a review the host
\* has registered. A remediation is stored only while the registration it was computed from
\* stands; one that a caller is told is new can be finalized, since trimming for it does not
\* take it; both stores stay within their limits.
RemediationIsTrusted ==
  /\ [](RemTypeOK /\ WorkersBounded /\ StoreBounded /\ ReplyIsOwn)
  /\ [][StoredWhileTrusted /\ PreparedIsStored]_remVars

\* Every slot comes back, also of a worker nobody waits for and of one that raises.
SlotsComeBack == <>[](slots = MaxWorkers)
=============================================================================

---------------------------- MODULE ReviewService ----------------------------
(***************************************************************************)
(* The bounded store of prepared reviews behind the MCP tools:             *)
(* aga-skill/tools/review_service.py, class ReviewService.                 *)
(*                                                                         *)
(* A caller is a thread inside prepare_review, finalize_review or one of   *)
(* the read-only lookups.  The service lock is an RLock held for a few     *)
(* statements at a time, so every locked section is one step here and the  *)
(* trusted hook and the validation of a semantic result run between two    *)
(* such steps.  A _StoredReview is an entry of a heap, because a finalize  *)
(* keeps its reference to the object while the store may drop it.          *)
(***************************************************************************)
EXTENDS Naturals, Sequences, FiniteSets, FiniteSetsExt

CONSTANTS
  Callers,         \* threads that may be inside the service
  ReviewIds,       \* review_id values
  Requests,        \* everything else a prepare is asked for: repository, base, head, entities
  Payloads,        \* raw semantic results, as the caller sent them
  Meaning,         \* what the validation of a payload normalises it to, or "invalid"
  Analysis,        \* what the trusted hook finds for a request when it answers
  HookSlots,       \* max_prepare_workers
  MaxReviews,      \* max_reviews
  MaxReviewBytes,  \* max_review_bytes
  MaxStoreBytes,   \* max_store_bytes
  PreparedBytes,   \* size of a prepared review, by its outcome
  FinalBytes,      \* size of a final result
  Tools,           \* bound: the tools the callers use
  MaxPrepared      \* bound: _StoredReview objects ever built

(***************************************************************************)
(* "approve" and "block" are complete semantic results without and with a  *)
(* blocker or major finding; "partial" stands for every other accepted one *)
(* (missing rules, failed agent, low confidence, unbound evidence).        *)
(* "degraded" is what the service stores when the hook is busy, late or    *)
(* fails; "flawed" is an answer of the hook that is itself incomplete.     *)
(***************************************************************************)
Meanings == {"approve", "block", "partial"}
Outcomes == {"clean", "blocked", "flawed", "degraded"}

ASSUME ServiceAssumption ==
  /\ Meaning \in [Payloads -> Meanings \cup {"invalid"}]
  /\ Analysis \in [Requests -> Outcomes \ {"degraded"}]
  /\ HookSlots \in Nat \ {0}
  /\ MaxReviews \in Nat \ {0}
  /\ MaxReviewBytes \in Nat
  /\ MaxStoreBytes \in Nat
  /\ MaxReviewBytes <= MaxStoreBytes
  /\ PreparedBytes \in [Outcomes -> Nat]
  /\ FinalBytes \in Nat
  /\ MaxPrepared \in Nat

VARIABLES
  review,   \* the _StoredReview objects ever built, in the order of expires_at
  live,     \* the objects in _reviews
  recency,  \* position of a live object in the OrderedDict, 1 = oldest
  horizon,  \* objects 1..horizon have passed their expires_at
  phase,    \* "closing" once close() has set _closed, "closed" once it cleared the store
  permits,  \* free permits of _prepare_slots
  strays,   \* hook threads nobody waits for that still hold a permit
  call      \* what each caller is doing

storeVars == <<live, recency>>
hookVars  == <<permits, strays>>
vars == <<review, live, recency, horizon, phase, permits, strays, call>>

built     == Len(review)
NoObject  == 0
Undecided == "undecided"
NoArgs    == [tool |-> "none"]

Review == [id : ReviewIds, req : Requests, outcome : Outcomes, bytes : Nat,
           final : Meanings \cup {Undecided}]

\* The opaque review and task digests are HMACs over the review material: they
\* tell apart requests, and a degraded preparation from one with evidence.
Digests   == [req : Requests, degraded : BOOLEAN]
DigestOfRequestOnly(o) == [req |-> review[o].req, degraded |-> FALSE]   \* mutant
Digest(o) == [req |-> review[o].req, degraded |-> review[o].outcome = "degraded"]

PrepareArgs  == [tool : {"prepare"}, id : ReviewIds, req : Requests]
FinalizeArgs == [tool : {"finalize"}, id : ReviewIds, digest : Digests, payload : Payloads]
ReadArgs     == [tool : {"read"}, id : ReviewIds, digest : Digests]

PrepareSteps  == {"prepare", "hook", "store"}
FinalizeSteps == {"lookup", "validate", "commit"}
Answers == {"none", "prepared", "verdict", "read", "service_stopped", "review_conflict",
            "prepare_limit", "review_not_found", "digest_mismatch", "invalid_arguments",
            "finalization_conflict", "review_store_limit"}

Idle == [pc |-> "idle", args |-> NoArgs, obj |-> NoObject, answer |-> "none"]

Init ==
  /\ review = <<>>
  /\ live = {}
  /\ recency = [o \in {} |-> 0]
  /\ horizon = 0
  /\ phase = "open"
  /\ permits = HookSlots
  /\ strays = 0
  /\ call = [c \in Callers |-> Idle]

-----------------------------------------------------------------------------
(* The store: an OrderedDict bounded by age, count and bytes.              *)

Fresh(L) == {o \in L : o > horizon}
Holders(id) == {o \in Fresh(live) : review[o].id = id}

Reindexed(u, L) == [o \in L |-> Cardinality({w \in L : u[w] <= u[o]})]

MovedToEnd(o) ==
  [x \in live \cup {o} |-> IF x = o THEN Cardinality(live) + 1 ELSE recency[x]]

SetStore(L, u) == live' = L /\ recency' = Reindexed(u, L)

TotalBytes(rv, L) == MapThenSumSet(LAMBDA o : rv[o].bytes, L)

Fits(rv, L) == Cardinality(L) <= MaxReviews /\ TotalBytes(rv, L) <= MaxStoreBytes

TrimForgotten(rv, u, L, protected) == L   \* mutant

\* Drop the least recently used objects, never the protected one, until the rest fit.
Trimmed(rv, u, L, protected) ==
  LET Kept(age) == {o \in L : o = protected \/ u[o] > age}
  IN  Kept(Min({age \in {0} \cup {u[o] : o \in L} : Fits(rv, Kept(age))}))

Reply(c, args, o, answer) ==
  call' = [call EXCEPT ![c] = [pc |-> "answered", args |-> args, obj |-> o, answer |-> answer]]

Refuse(c, why) == Reply(c, NoArgs, NoObject, why)

Go(c, pc, args, o) ==
  call' = [call EXCEPT ![c] = [pc |-> pc, args |-> args, obj |-> o, answer |-> "none"]]

-----------------------------------------------------------------------------
(* The checks made under the lock; each has a mutant that gets it wrong.   *)

StoppedForgotten == FALSE   \* mutant
Stopped == phase # "open"

SameRequestForgotten(o, args) == TRUE   \* mutant
SameRequest(o, args) == review[o].req = args.req

RacedForgotten(id) == {}   \* mutant
Raced(id) == Holders(id)

HasVerdictForgotten(o) == FALSE   \* mutant
HasVerdict(o) == review[o].final # Undecided

StillStoredById(o) == \E x \in live : review[x].id = review[o].id   \* mutant
StillStored(o) == o \in live

-----------------------------------------------------------------------------
(* prepare_review                                                          *)

\* The review_id is already in the store: the same request gets the stored
\* preparation back, another one is refused.
Rejoin(c, args, o) ==
  IF SameRequest(o, args)
    THEN SetStore(Fresh(live), MovedToEnd(o)) /\ Reply(c, args, o, "prepared")
    ELSE SetStore(Fresh(live), recency) /\ Refuse(c, "review_conflict")

PrepareBegin(c, id, req) ==
  LET args == [tool |-> "prepare", id |-> id, req |-> req] IN
  /\ call[c].pc = "idle"
  /\ \/ /\ Stopped
        /\ Refuse(c, "service_stopped")
        /\ UNCHANGED storeVars
     \/ /\ ~Stopped
        /\ \E o \in Holders(id) : Rejoin(c, args, o)
     \/ /\ ~Stopped
        /\ Holders(id) = {}
        /\ SetStore(Fresh(live), recency)
        /\ Go(c, "prepare", args, NoObject)
  /\ UNCHANGED <<review, horizon, phase, hookVars>>

\* The result of the hook becomes an object with its expiry time, or is refused
\* for its size; it is not in the store yet.
Build(c, outcome) ==
  LET args == call[c].args
  IN  IF PreparedBytes[outcome] > MaxReviewBytes
        THEN /\ Refuse(c, "prepare_limit")
             /\ UNCHANGED review
        ELSE /\ review' = Append(review,
                  [id |-> args.id, req |-> args.req, outcome |-> outcome,
                   bytes |-> PreparedBytes[outcome], final |-> Undecided])
             /\ Go(c, "store", args, built + 1)

HookStart(c) ==
  /\ call[c].pc = "prepare"
  /\ permits > 0
  /\ permits' = permits - 1
  /\ Go(c, "hook", call[c].args, NoObject)
  /\ UNCHANGED <<review, storeVars, horizon, phase, strays>>

HookBusy(c) ==
  /\ call[c].pc = "prepare"
  /\ permits = 0
  /\ Build(c, "degraded")
  /\ UNCHANGED <<storeVars, horizon, phase, hookVars>>

\* The hook's answer is queued before its thread releases the permit.
HookReturns(c) ==
  /\ call[c].pc = "hook"
  /\ \E outcome \in {Analysis[call[c].args.req], "degraded"} : Build(c, outcome)
  /\ strays' = strays + 1
  /\ UNCHANGED <<storeVars, horizon, phase, permits>>

HookTimeoutFreesPermit(c) ==   \* mutant
  /\ call[c].pc = "hook"
  /\ Build(c, "degraded")
  /\ strays' = strays + 1
  /\ permits' = permits + 1
  /\ UNCHANGED <<storeVars, horizon, phase>>

HookTimeout(c) ==
  /\ call[c].pc = "hook"
  /\ Build(c, "degraded")
  /\ strays' = strays + 1
  /\ UNCHANGED <<storeVars, horizon, phase, permits>>

StrayHookExitsTwice ==   \* mutant
  /\ strays' = strays - 1
  /\ permits' = permits + 1
  /\ permits <= HookSlots
  /\ UNCHANGED <<review, storeVars, horizon, phase, call>>

StrayHookExits ==
  /\ strays > 0
  /\ strays' = strays - 1
  /\ permits' = permits + 1
  /\ UNCHANGED <<review, storeVars, horizon, phase, call>>

\* The second locked section of prepare_review.
PrepareStore(c) ==
  LET args == call[c].args
      o    == call[c].obj
      kept == {x \in Fresh(live) : review[x].id # args.id} \cup {o}
  IN
  /\ call[c].pc = "store"
  /\ \/ /\ Stopped
        /\ Refuse(c, "service_stopped")
        /\ UNCHANGED storeVars
     \/ /\ ~Stopped
        /\ \E raced \in Raced(args.id) : Rejoin(c, args, raced)
     \/ /\ ~Stopped
        /\ Raced(args.id) = {}
        /\ SetStore(Trimmed(review, MovedToEnd(o), kept, o), MovedToEnd(o))
        /\ Reply(c, args, o, "prepared")
  /\ UNCHANGED <<review, horizon, phase, hookVars>>

-----------------------------------------------------------------------------
(* finalize_review and the lookups                                         *)

\* _get_review under the lock: purge, find, compare digests, mark as used.
Found(args) == {o \in Holders(args.id) : Digest(o) = args.digest}

Get(o) == SetStore(Fresh(live), MovedToEnd(o))

GetFails(c, args) ==
  /\ Found(args) = {}
  /\ SetStore(Fresh(live), recency)
  /\ Refuse(c, IF Holders(args.id) = {} THEN "review_not_found" ELSE "digest_mismatch")

FinalizeBegin(c, id, digest, payload) ==
  LET args == [tool |-> "finalize", id |-> id, digest |-> digest, payload |-> payload] IN
  /\ call[c].pc = "idle"
  /\ IF Stopped THEN Refuse(c, "service_stopped")
                       ELSE Go(c, "lookup", args, NoObject)
  /\ UNCHANGED <<review, storeVars, horizon, phase, hookVars>>

FinalizeLookup(c) ==
  LET args == call[c].args IN
  /\ call[c].pc = "lookup"
  /\ \/ GetFails(c, args)
     \/ \E o \in Found(args) : Get(o) /\ Go(c, "validate", args, o)
  /\ UNCHANGED <<review, horizon, phase, hookVars>>

\* A review that has its verdict: an equal result gets it again.
Repeated(c, o) ==
  LET args == call[c].args IN
  Reply(c, args, o, IF review[o].final = Meaning[args.payload]
                      THEN "verdict" ELSE "finalization_conflict")

FinalizeValidate(c) ==
  LET args == call[c].args
      o    == call[c].obj
  IN
  /\ call[c].pc = "validate"
  /\ \/ /\ Meaning[args.payload] = "invalid"
        /\ Refuse(c, "invalid_arguments")
     \/ /\ Meaning[args.payload] # "invalid"
        /\ HasVerdict(o)
        /\ Repeated(c, o)
     \/ /\ Meaning[args.payload] # "invalid"
        /\ ~HasVerdict(o)
        /\ Go(c, "commit", args, o)
  /\ UNCHANGED <<review, storeVars, horizon, phase, hookVars>>

Decided(o, meaning) ==
  [review EXCEPT ![o].final = meaning, ![o].bytes = @ + FinalBytes]

\* The second locked section of finalize_review: first write wins.
FinalizeCommit(c) ==
  LET args    == call[c].args
      o       == call[c].obj
      decided == Decided(o, Meaning[args.payload])
  IN
  /\ call[c].pc = "commit"
  /\ \/ /\ HasVerdict(o)
        /\ Repeated(c, o)
        /\ UNCHANGED <<review, storeVars>>
     \/ /\ ~HasVerdict(o)
        /\ ~StillStored(o)
        /\ Refuse(c, "review_not_found")
        /\ UNCHANGED <<review, storeVars>>
     \/ /\ ~HasVerdict(o)
        /\ StillStored(o)
        /\ review[o].bytes + FinalBytes > MaxReviewBytes
        /\ Refuse(c, "review_store_limit")
        /\ UNCHANGED <<review, storeVars>>
     \/ /\ ~HasVerdict(o)
        /\ StillStored(o)
        /\ review[o].bytes + FinalBytes <= MaxReviewBytes
        /\ review' = decided
        /\ SetStore(Trimmed(decided, recency, live, o), recency)
        /\ Reply(c, args, o, "verdict")
  /\ UNCHANGED <<horizon, phase, hookVars>>

\* seaf_lookup and parse_diagram: all they do to the state is _get_review.  The
\* service may close between its check of _closed and the lookup.
ReadReview(c, id, digest) ==
  LET args == [tool |-> "read", id |-> id, digest |-> digest] IN
  /\ call[c].pc = "idle"
  /\ \/ /\ Stopped
        /\ Refuse(c, "service_stopped")
        /\ UNCHANGED storeVars
     \/ GetFails(c, args)
     \/ \E o \in Found(args) : Get(o) /\ Reply(c, args, o, "read")
  /\ UNCHANGED <<review, horizon, phase, hookVars>>

-----------------------------------------------------------------------------
(* Time, shutdown and the callers.                                         *)

\* Every object has the same time to live, so they expire in the order built.
Expire ==
  /\ horizon < built
  /\ horizon' = horizon + 1
  /\ UNCHANGED <<review, storeVars, phase, hookVars, call>>

BeginClose ==
  /\ phase = "open"
  /\ phase' = "closing"
  /\ UNCHANGED <<review, storeVars, horizon, hookVars, call>>

ClearStore ==
  /\ phase = "closing"
  /\ phase' = "closed"
  /\ SetStore({}, recency)
  /\ UNCHANGED <<review, horizon, hookVars, call>>

\* The caller takes its answer and may call again.
Return(c) ==
  /\ call[c].pc = "answered"
  /\ call' = [call EXCEPT ![c] = Idle]
  /\ UNCHANGED <<review, storeVars, horizon, phase, hookVars>>

ProceedNoTimeout(c) ==   \* mutant
  \/ HookStart(c) \/ HookBusy(c) \/ PrepareStore(c)
  \/ FinalizeLookup(c) \/ FinalizeValidate(c) \/ FinalizeCommit(c)

\* The steps of a call in progress that need nobody else; HookTimeout is the
\* expiry of responses.get(timeout=prepare_timeout_seconds).
Proceed(c) ==
  \/ HookStart(c) \/ HookBusy(c) \/ HookTimeout(c) \/ PrepareStore(c)
  \/ FinalizeLookup(c) \/ FinalizeValidate(c) \/ FinalizeCommit(c)

Environment ==
  \/ StrayHookExits
  \/ Expire
  \/ \E c \in Callers : HookReturns(c)

\* Bound: preparations are begun only while the heap has room for all of them.
Building == {c \in Callers : call[c].pc \in {"prepare", "hook"}}
RoomFor(n) == built + n < MaxPrepared

Begin(c) ==
  \/ /\ "prepare" \in Tools
     /\ \E id \in ReviewIds, req \in Requests :
          /\ Holders(id) # {} \/ RoomFor(Cardinality(Building))
          /\ PrepareBegin(c, id, req)
  \/ /\ "finalize" \in Tools
     /\ \E id \in ReviewIds, d \in Digests, p \in Payloads : FinalizeBegin(c, id, d, p)
  \/ /\ "read" \in Tools
     /\ \E id \in ReviewIds, d \in Digests : ReadReview(c, id, d)

Next ==
  \/ \E c \in Callers : Begin(c) \/ Proceed(c) \/ Return(c)
  \/ Environment
  \/ BeginClose
  \/ ClearStore

Spec == Init /\ [][Next]_vars

Fairness == \A c \in Callers : WF_vars(Proceed(c))

FairSpec == Spec /\ Fairness

-----------------------------------------------------------------------------
(* Correctness.                                                            *)

CallOK(k) ==
  /\ k.pc \in {"idle", "answered"} \cup PrepareSteps \cup FinalizeSteps
  /\ k.args \in {NoArgs} \cup PrepareArgs \cup FinalizeArgs \cup ReadArgs
  /\ k.obj \in 0..built
  /\ k.answer \in Answers
  /\ k.pc \in PrepareSteps => k.args \in PrepareArgs
  /\ k.pc \in FinalizeSteps => k.args \in FinalizeArgs
  /\ k.pc \in {"store", "validate", "commit"} => k.obj # NoObject
  /\ k.pc = "commit" => Meaning[k.args.payload] # "invalid"

\* Every variable has its type, and a call in progress holds the arguments and
\* the object its next step uses.
TypeOK ==
  /\ review \in Seq(Review)
  /\ live \subseteq 1..built
  /\ recency \in [live -> Nat]
  /\ horizon \in 0..built
  /\ phase \in {"open", "closing", "closed"}
  /\ permits \in Nat
  /\ strays \in Nat
  /\ DOMAIN call = Callers
  /\ \A c \in Callers : CallOK(call[c])

\* A verdict, a conflict or a shared preparation is reported only for an object
\* that really holds it: whoever is answered "verdict" sent the result that was
\* bound first, whoever is answered "finalization_conflict" sent another one,
\* and a prepare never hands out the review of a different request
\* (finalize_review 2575-2582 and 2649-2656, prepare_review 1634-1643, 1884-1895).
AnswersTruthful ==
  \A c \in Callers : LET k == call[c] IN
    /\ k.answer = "verdict" => review[k.obj].final = Meaning[k.args.payload]
    /\ k.answer = "finalization_conflict" =>
         review[k.obj].final \notin {Undecided, Meaning[k.args.payload]}
    /\ k.answer = "prepared" =>
         review[k.obj].id = k.args.id /\ review[k.obj].req = k.args.req

\* Count and byte limits hold whenever the lock is free, although a verdict
\* grows a review that is already stored (_trim_store_locked 566-578).
StoreBounded == Fits(review, live)

\* Hook threads, those nobody waits for included, never exceed max_prepare_workers
\* (_invoke_prepare_callback 844-890: the permit belongs to the thread).
HookThreadsBounded ==
  Cardinality({c \in Callers : call[c].pc = "hook"}) + strays <= HookSlots

\* First write wins: a verdict is bound to a review at most once, is never
\* replaced or withdrawn, and only while that review is in the store: a finalize
\* that lost its review to eviction, expiry or close() while it validated decides
\* nothing (finalize_review 2646-2668).
DecidedOnceInPlace ==
  [][\A o \in 1..built : review'[o].final # review[o].final =>
       /\ review[o].final = Undecided
       /\ o \in live /\ o \in live'
       /\ phase # "closed"]_vars

\* A review that has not expired leaves the store only because the service closed or the
\* store was too full: of the reviews that left, one that was used no earlier than any of
\* these would not have fitted; never because another prepare took its id
\* (prepare_review 1876-1896, _trim_store_locked 566-578).
LeavesOnlyForCause ==
  [][LET evicted == Fresh(live) \ live' IN
     evicted # {} => \/ phase' = "closed"
                     \/ \E o \in live \ live' :
                          /\ \A x \in evicted : recency[x] <= recency[o]
                          /\ ~Fits(review', live' \cup {o})]_vars

\* Every call is answered although a trusted hook may hang for ever
\* (_invoke_prepare_callback 891-900).
CallsAnswered ==
  \A c \in Callers : (call[c].pc # "idle") ~> (call[c].pc = "answered")

-----------------------------------------------------------------------------
(* The service implements the verdict ledger.                              *)

\* Objects whose prepare has passed its second locked section.
Settled == {o \in 1..built : \A c \in Callers : call[c].pc = "store" => call[c].obj # o}

ToldTo(c) ==
  IF call[c].answer = "verdict"
    THEN [entry |-> call[c].obj, verdict |-> review[call[c].obj].final]
    ELSE NoArgs

Ledger == INSTANCE VerdictLedger WITH
  Clients <- Callers, Verdicts <- Meanings, Nothing <- NoArgs,
  seen <- Settled, open <- live,
  ledger <- [o \in {x \in 1..built : review[x].final # Undecided} |-> review[o].final],
  told <- [c \in Callers |-> ToldTo(c)]

\* Callers of the service cannot tell it from the ledger: a review opens once,
\* is decided at most once and only while it is in the store, and every verdict
\* handed out is the bound one (prepare_review 1876-1898, finalize_review 2575-2671).
ImplementsLedger == Ledger!Spec
=============================================================================

------------------------- MODULE ReviewServiceProofs -------------------------
(* Theorems about ReviewService and Gateway, for every value of their        *)
(* constants: the type correctness of the service, its safety and that it    *)
(* implements VerdictLedger; then the safety of the MCP server composed with *)
(* it.                                                                       *)
EXTENDS Gateway, Induction

-----------------------------------------------------------------------------
(* Facts about the helpers.                                                *)

\* Trimming only removes objects, and never the protected one.
LEMMA TrimmedInside ==
  ASSUME NEW rv, NEW u, NEW L, NEW p
  PROVE  /\ Trimmed(rv, u, L, p) \subseteq L
         /\ p \in L => p \in Trimmed(rv, u, L, p)
BY DEF Trimmed

\* Reindexing a finite set of objects numbers each of them.
LEMMA ReindexedType ==
  ASSUME NEW u, NEW n \in Nat, NEW L \in SUBSET (1..n)
  PROVE  Reindexed(u, L) \in [L -> Nat]
<1>1. IsFiniteSet(1..n)
  BY FS_Interval
<1>2. ASSUME NEW o \in L
      PROVE  Cardinality({w \in L : u[w] <= u[o]}) \in Nat
  <2>1. {w \in L : u[w] <= u[o]} \subseteq 1..n
    OBVIOUS
  <2>2. IsFiniteSet({w \in L : u[w] <= u[o]})
    BY <1>1, <2>1, FS_Subset
  <2>3. QED
    BY <2>2, FS_CardinalityType
<1>3. QED
  BY <1>2 DEF Reindexed

\* The type of everything but the calls.
StoreTypeOK ==
  /\ review \in Seq(Review)
  /\ live \subseteq 1..built
  /\ recency \in [live -> Nat]
  /\ horizon \in 0..built
  /\ phase \in {"open", "closing", "closed"}
  /\ permits \in Nat
  /\ strays \in Nat

CallsOK == DOMAIN call = Callers /\ \A c \in Callers : CallOK(call[c])

\* TypeOK falls into a part about the store and a part about the calls.
LEMMA TypeSplit == TypeOK <=> StoreTypeOK /\ CallsOK
BY DEF TypeOK, StoreTypeOK, CallsOK

LEMMA TypeJoined == ASSUME StoreTypeOK', CallsOK' PROVE TypeOK'
BY DEF TypeOK, StoreTypeOK, CallsOK

\* Replacing the store by live objects of the heap keeps its type.
LEMMA SetStoreTyped ==
  ASSUME NEW L, NEW u, SetStore(L, u), L \subseteq 1..built', review' \in Seq(Review)
  PROVE  live' \subseteq 1..built' /\ recency' \in [live' -> Nat]
<1>1. built' \in Nat
  BY DEF built
<1>2. QED
  BY <1>1, ReindexedType DEF SetStore

\* A step that gives one caller a well-formed state and does not shrink the
\* heap keeps all calls well formed.
LEMMA CallUpdate ==
  ASSUME CallsOK, NEW c \in Callers, NEW k, CallOK(k)',
         built \in Nat, built' \in Nat, built <= built',
         call' = [call EXCEPT ![c] = k]
  PROVE  CallsOK'
<1>1. DOMAIN call' = Callers
  BY DEF CallsOK
<1>2. call'[c] = k
  BY DEF CallsOK
<1>3. ASSUME NEW d \in Callers, d # c
      PROVE  CallOK(call[d])'
  <2>1. call'[d] = call[d] /\ CallOK(call[d])
    BY <1>3 DEF CallsOK
  <2>2. QED
    BY <2>1 DEF CallOK
<1>4. QED
  BY <1>1, <1>2, <1>3 DEF CallsOK

\* Calls stay well formed when no call changes and the heap does not shrink.
LEMMA CallFrame ==
  ASSUME CallsOK, built \in Nat, built' \in Nat, built <= built', call' = call
  PROVE  CallsOK'
BY DEF CallsOK, CallOK

AllArgs == {NoArgs} \cup PrepareArgs \cup FinalizeArgs \cup ReadArgs

\* An answer is well formed when its object exists.
LEMMA ReplyTyped ==
  ASSUME CallsOK, NEW c \in Callers, NEW args \in AllArgs, NEW o \in 0..built',
         NEW answer \in Answers, built \in Nat, built' \in Nat, built <= built',
         Reply(c, args, o, answer)
  PROVE  CallsOK'
<1> DEFINE k == [pc |-> "answered", args |-> args, obj |-> o, answer |-> answer]
<1>1. CallOK(k)'
  BY DEF CallOK, AllArgs, PrepareSteps, FinalizeSteps
<1>2. call' = [call EXCEPT ![c] = k]
  BY DEF Reply
<1>3. QED
  BY <1>1, <1>2, CallUpdate

LEMMA RefuseTyped ==
  ASSUME CallsOK, NEW c \in Callers, NEW why \in Answers,
         built \in Nat, built' \in Nat, built <= built', Refuse(c, why)
  PROVE  CallsOK'
<1>1. NoArgs \in AllArgs /\ NoObject \in 0..built'
  BY DEF AllArgs, NoObject
<1>2. QED
  BY <1>1, ReplyTyped DEF Refuse

\* Going on to a step is well formed when its arguments and object fit the step.
LEMMA GoTyped ==
  ASSUME CallsOK, NEW c \in Callers, NEW args, NEW o \in 0..built',
         NEW pc \in PrepareSteps \cup FinalizeSteps,
         pc \in PrepareSteps => args \in PrepareArgs,
         pc \in FinalizeSteps => args \in FinalizeArgs,
         pc \in {"store", "validate", "commit"} => o # NoObject,
         pc = "commit" => Meaning[args.payload] # "invalid",
         built \in Nat, built' \in Nat, built <= built',
         Go(c, pc, args, o)
  PROVE  CallsOK'
<1> DEFINE k == [pc |-> pc, args |-> args, obj |-> o, answer |-> "none"]
<1>1. CallOK(k)'
  BY DEF CallOK, PrepareSteps, FinalizeSteps, Answers
<1>2. call' = [call EXCEPT ![c] = k]
  BY DEF Go
<1>3. QED
  BY <1>1, <1>2, CallUpdate

-----------------------------------------------------------------------------
(* Each action keeps the type.                                             *)

LEMMA BuiltIsNat ==
  ASSUME StoreTypeOK
  PROVE  built \in Nat /\ Fresh(live) \subseteq live /\ Fresh(live) \subseteq 1..built
<1>1. built \in Nat
  BY DEF StoreTypeOK, built
<1>2. Fresh(live) \subseteq live /\ live \subseteq 1..built
  BY DEF StoreTypeOK, Fresh
<1>3. QED
  BY <1>1, <1>2

\* A step that leaves the heap, the clock, the phase and the hooks alone keeps
\* the type when it keeps the type of the store and of the calls.
LEMMA QuietStep ==
  ASSUME StoreTypeOK, UNCHANGED <<review, horizon, phase, hookVars>>,
         live' \subseteq 1..built, recency' \in [live' -> Nat], CallsOK'
  PROVE  TypeOK'
<1>1. built' = built
  BY DEF built
<1>2. StoreTypeOK'
  BY <1>1 DEF StoreTypeOK, hookVars
<1>3. QED
  BY <1>2, TypeJoined

\* Replacing the store by live objects of a heap that does not change.
LEMMA QuietSetStore ==
  ASSUME StoreTypeOK, UNCHANGED review, NEW L \in SUBSET (1..built), NEW u, SetStore(L, u)
  PROVE  live' \subseteq 1..built /\ recency' \in [live' -> Nat]
<1>1. built' = built
  BY DEF built
<1>2. QED
  BY <1>1, SetStoreTyped DEF StoreTypeOK

LEMMA QuietReply ==
  ASSUME StoreTypeOK, CallsOK, UNCHANGED review, NEW c \in Callers, NEW args \in AllArgs,
         NEW o \in 0..built, NEW answer \in Answers, Reply(c, args, o, answer)
  PROVE  CallsOK'
<1>1. built' = built /\ built \in Nat
  BY BuiltIsNat DEF built
<1>2. QED
  BY <1>1, ReplyTyped

LEMMA QuietRefuse ==
  ASSUME StoreTypeOK, CallsOK, UNCHANGED review, NEW c \in Callers, NEW why \in Answers,
         Refuse(c, why)
  PROVE  CallsOK'
<1>1. built' = built /\ built \in Nat
  BY BuiltIsNat DEF built
<1>2. QED
  BY <1>1, RefuseTyped

\* Answering a prepare from the stored review.
LEMMA RejoinTyped ==
  ASSUME StoreTypeOK, CallsOK, NEW c \in Callers, NEW args \in PrepareArgs,
         NEW o \in Holders(args.id), Rejoin(c, args, o),
         UNCHANGED <<review, horizon, phase, hookVars>>
  PROVE  TypeOK'
<1>1. built \in Nat /\ Fresh(live) \in SUBSET (1..built)
  BY BuiltIsNat
<1>2. o \in 0..built
  BY <1>1 DEF Holders
<1>3. live' \subseteq 1..built /\ recency' \in [live' -> Nat]
  BY <1>1, QuietSetStore DEF Rejoin
<1>4. args \in AllArgs /\ {"prepared", "review_conflict"} \subseteq Answers
  BY DEF AllArgs, Answers
<1>5. CallsOK'
  BY <1>2, <1>4, QuietReply, QuietRefuse DEF Rejoin
<1>6. QED
  BY <1>3, <1>5, QuietStep

LEMMA PrepareBeginTyped ==
  ASSUME TypeOK, NEW c \in Callers, NEW id \in ReviewIds, NEW req \in Requests,
         PrepareBegin(c, id, req)
  PROVE  TypeOK'
<1> DEFINE args == [tool |-> "prepare", id |-> id, req |-> req]
<1>0. StoreTypeOK /\ CallsOK
  BY TypeSplit
<1>1. UNCHANGED <<review, horizon, phase, hookVars>>
  BY DEF PrepareBegin
<1>2. args \in PrepareArgs /\ args.id = id
  BY DEF PrepareArgs
<1>3. CASE Refuse(c, "service_stopped") /\ UNCHANGED storeVars
  <2>1. "service_stopped" \in Answers
    BY DEF Answers
  <2>2. CallsOK'
    BY <1>0, <1>1, <1>3, <2>1, QuietRefuse
  <2>3. live' \subseteq 1..built /\ recency' \in [live' -> Nat]
    BY <1>0, <1>3 DEF StoreTypeOK, storeVars
  <2>4. QED
    BY <1>0, <1>1, <2>2, <2>3, QuietStep
<1>4. CASE \E o \in Holders(id) : Rejoin(c, args, o)
  BY <1>0, <1>1, <1>2, <1>4, RejoinTyped
<1>5. CASE SetStore(Fresh(live), recency) /\ Go(c, "prepare", args, NoObject)
  <2>1. built \in Nat /\ built' = built /\ Fresh(live) \in SUBSET (1..built)
    BY <1>0, <1>1, BuiltIsNat DEF built
  <2>2. live' \subseteq 1..built /\ recency' \in [live' -> Nat]
    BY <1>0, <1>1, <1>5, <2>1, QuietSetStore
  <2>3. CallsOK'
    <3>1. NoObject \in 0..built'
      BY <2>1 DEF NoObject
    <3>2. "prepare" \in PrepareSteps \cup FinalizeSteps /\ "prepare" \notin FinalizeSteps
      BY DEF PrepareSteps, FinalizeSteps
    <3>3. QED
      BY <1>0, <1>2, <1>5, <2>1, <3>1, <3>2, GoTyped
  <2>4. QED
    BY <1>0, <1>1, <2>2, <2>3, QuietStep
<1>6. QED
  BY <1>3, <1>4, <1>5 DEF PrepareBegin

\* What a caller at a step of a prepare or of a finalize holds.
LEMMA PrepareCallHolds ==
  ASSUME CallsOK, NEW c \in Callers, call[c].pc \in PrepareSteps
  PROVE  /\ call[c].args \in PrepareArgs
         /\ call[c].args.id \in ReviewIds /\ call[c].args.req \in Requests
         /\ call[c].obj \in 0..built
         /\ call[c].pc = "store" => call[c].obj # NoObject
<1>1. call[c].args \in PrepareArgs /\ call[c].obj \in 0..built
      /\ (call[c].pc = "store" => call[c].obj # NoObject)
  BY DEF CallsOK, CallOK
<1>2. QED
  BY <1>1 DEF PrepareArgs

LEMMA FinalizeCallHolds ==
  ASSUME CallsOK, NEW c \in Callers, call[c].pc \in FinalizeSteps
  PROVE  /\ call[c].args \in FinalizeArgs
         /\ call[c].args.id \in ReviewIds /\ call[c].args.payload \in Payloads
         /\ call[c].obj \in 0..built
         /\ call[c].pc \in {"validate", "commit"} => call[c].obj # NoObject
         /\ call[c].pc = "commit" => Meaning[call[c].args.payload] \in Meanings
<1>1. call[c].args \in FinalizeArgs /\ call[c].obj \in 0..built
      /\ (call[c].pc \in {"validate", "commit"} => call[c].obj # NoObject)
      /\ (call[c].pc = "commit" => Meaning[call[c].args.payload] # "invalid")
  BY DEF CallsOK, CallOK
<1>2. call[c].args.id \in ReviewIds /\ call[c].args.payload \in Payloads
  BY <1>1 DEF FinalizeArgs
<1>3. call[c].pc = "commit" => Meaning[call[c].args.payload] \in Meanings
  BY <1>1, <1>2, ServiceAssumption
<1>4. QED
  BY <1>1, <1>2, <1>3

\* Building an object appends a well-formed review to the heap.
LEMMA BuildTyped ==
  ASSUME StoreTypeOK, CallsOK, NEW c \in Callers, call[c].pc \in PrepareSteps,
         NEW outcome \in Outcomes, Build(c, outcome)
  PROVE  /\ review' \in Seq(Review)
         /\ built \in Nat /\ built' \in Nat /\ built <= built'
         /\ CallsOK'
<1> DEFINE args == call[c].args
           new  == [id |-> args.id, req |-> args.req, outcome |-> outcome,
                    bytes |-> PreparedBytes[outcome], final |-> Undecided]
<1>0. built \in Nat /\ args \in PrepareArgs /\ args.id \in ReviewIds /\ args.req \in Requests
  BY BuiltIsNat, PrepareCallHolds
<1>1. CASE Refuse(c, "prepare_limit") /\ UNCHANGED review
  <2>1. "prepare_limit" \in Answers
    BY DEF Answers
  <2>2. CallsOK'
    BY <1>1, <2>1, QuietRefuse
  <2>3. QED
    BY <1>0, <1>1, <2>2 DEF StoreTypeOK, built
<1>2. CASE review' = Append(review, new) /\ Go(c, "store", args, built + 1)
  <2>1. new \in Review
    BY <1>0, ServiceAssumption DEF Review
  <2>2. review \in Seq(Review)
    BY DEF StoreTypeOK
  <2>3. review' \in Seq(Review) /\ Len(review') = Len(review) + 1
    BY <1>2, <2>1, <2>2
  <2>4. built' = built + 1
    BY <2>3 DEF built
  <2>5. "store" \in PrepareSteps \cup FinalizeSteps /\ "store" \notin FinalizeSteps
    BY DEF PrepareSteps, FinalizeSteps
  <2>6. built + 1 \in 0..built' /\ built + 1 # NoObject /\ built' \in Nat /\ built <= built'
    BY <1>0, <2>4 DEF NoObject
  <2>7. CallsOK'
    BY <1>0, <1>2, <2>5, <2>6, GoTyped
  <2>8. QED
    BY <1>0, <2>3, <2>6, <2>7
<1>3. QED
  BY <1>1, <1>2 DEF Build

\* The steps around the hook change nothing of the store but its heap.
LEMMA HookStepTyped ==
  ASSUME StoreTypeOK, CallsOK, CallsOK', review' \in Seq(Review), built <= built',
         UNCHANGED <<storeVars, horizon, phase>>, permits' \in Nat, strays' \in Nat
  PROVE  TypeOK'
<1>1. built \in Nat /\ built' \in Nat
  BY BuiltIsNat DEF built
<1>2. StoreTypeOK'
  BY <1>1 DEF StoreTypeOK, storeVars
<1>3. QED
  BY <1>2, TypeJoined

LEMMA HookStartTyped ==
  ASSUME TypeOK, NEW c \in Callers, HookStart(c)
  PROVE  TypeOK'
<1>0. StoreTypeOK /\ CallsOK
  BY TypeSplit
<1>1. built' = built /\ built \in Nat
  BY <1>0, BuiltIsNat DEF HookStart, built
<1>2. call[c].args \in PrepareArgs /\ NoObject \in 0..built'
  BY <1>0, <1>1, PrepareCallHolds DEF HookStart, PrepareSteps, NoObject
<1>3. CallsOK'
  BY <1>0, <1>1, <1>2, GoTyped DEF HookStart, PrepareSteps, FinalizeSteps
<1>4. review' \in Seq(Review) /\ permits' \in Nat /\ strays' \in Nat
  BY <1>0 DEF HookStart, StoreTypeOK
<1>5. QED
  BY <1>0, <1>1, <1>3, <1>4, HookStepTyped DEF HookStart

LEMMA HookBusyTyped ==
  ASSUME TypeOK, NEW c \in Callers, HookBusy(c)
  PROVE  TypeOK'
<1>0. StoreTypeOK /\ CallsOK
  BY TypeSplit
<1>1. "degraded" \in Outcomes /\ call[c].pc \in PrepareSteps
  BY DEF Outcomes, HookBusy, PrepareSteps
<1>2. review' \in Seq(Review) /\ built <= built' /\ CallsOK'
  BY <1>0, <1>1, BuildTyped DEF HookBusy
<1>3. QED
  BY <1>0, <1>2, HookStepTyped DEF HookBusy, hookVars, StoreTypeOK

LEMMA HookAnswerTyped ==
  ASSUME TypeOK, NEW c \in Callers, HookReturns(c) \/ HookTimeout(c)
  PROVE  TypeOK'
<1>0. StoreTypeOK /\ CallsOK
  BY TypeSplit
<1>1. call[c].pc \in PrepareSteps
  BY DEF HookReturns, HookTimeout, PrepareSteps
<1>2. "degraded" \in Outcomes /\ Analysis[call[c].args.req] \in Outcomes
  BY <1>0, <1>1, PrepareCallHolds, ServiceAssumption DEF Outcomes
<1>3. review' \in Seq(Review) /\ built <= built' /\ CallsOK'
  BY <1>0, <1>1, <1>2, BuildTyped DEF HookReturns, HookTimeout
<1>4. permits' \in Nat /\ strays' \in Nat
  BY <1>0 DEF StoreTypeOK, HookReturns, HookTimeout
<1>5. QED
  BY <1>0, <1>3, <1>4, HookStepTyped DEF HookReturns, HookTimeout

LEMMA StrayHookExitsTyped ==
  ASSUME TypeOK, StrayHookExits
  PROVE  TypeOK'
<1>0. StoreTypeOK /\ CallsOK
  BY TypeSplit
<1>1. built \in Nat /\ built' = built
  BY <1>0, BuiltIsNat DEF StrayHookExits, built
<1>2. CallsOK'
  BY <1>0, <1>1, CallFrame DEF StrayHookExits
<1>3. QED
  BY <1>0, <1>1, <1>2, HookStepTyped DEF StrayHookExits, StoreTypeOK

LEMMA PrepareStoreTyped ==
  ASSUME TypeOK, NEW c \in Callers, PrepareStore(c)
  PROVE  TypeOK'
<1> DEFINE args == call[c].args
           o    == call[c].obj
           kept == {x \in Fresh(live) : review[x].id # args.id} \cup {o}
<1>0. StoreTypeOK /\ CallsOK
  BY TypeSplit
<1>1. UNCHANGED <<review, horizon, phase, hookVars>>
  BY DEF PrepareStore
<1>2. args \in PrepareArgs /\ o \in 1..built /\ args \in AllArgs
  <2>1. call[c].pc = "store"
    BY DEF PrepareStore
  <2>2. built \in Nat
    BY <1>0, BuiltIsNat
  <2>3. args \in PrepareArgs /\ o \in 0..built /\ o # NoObject
    BY <1>0, <2>1, PrepareCallHolds DEF PrepareSteps
  <2>4. QED
    BY <2>2, <2>3 DEF NoObject, AllArgs
<1>3. CASE Refuse(c, "service_stopped") /\ UNCHANGED storeVars
  <2>1. "service_stopped" \in Answers
    BY DEF Answers
  <2>2. CallsOK'
    BY <1>0, <1>1, <1>3, <2>1, QuietRefuse
  <2>3. live' \subseteq 1..built /\ recency' \in [live' -> Nat]
    BY <1>0, <1>3 DEF StoreTypeOK, storeVars
  <2>4. QED
    BY <1>0, <1>1, <2>2, <2>3, QuietStep
<1>4. CASE \E raced \in Holders(args.id) : Rejoin(c, args, raced)
  BY <1>0, <1>1, <1>2, <1>4, RejoinTyped
<1>5. CASE /\ SetStore(Trimmed(review, MovedToEnd(o), kept, o), MovedToEnd(o))
           /\ Reply(c, args, o, "prepared")
  <2>1. kept \subseteq 1..built
    BY <1>0, <1>2, BuiltIsNat
  <2>2. Trimmed(review, MovedToEnd(o), kept, o) \in SUBSET (1..built)
    BY <1>2, <2>1, TrimmedInside
  <2>3. live' \subseteq 1..built /\ recency' \in [live' -> Nat]
    BY <1>0, <1>1, <1>5, <2>2, QuietSetStore
  <2>4. "prepared" \in Answers /\ o \in 0..built
    BY <1>0, <1>2, BuiltIsNat DEF Answers
  <2>5. CallsOK'
    BY <1>0, <1>1, <1>2, <1>5, <2>4, QuietReply
  <2>6. QED
    BY <1>0, <1>1, <2>3, <2>5, QuietStep
<1>6. QED
  BY <1>3, <1>4, <1>5 DEF PrepareStore, Raced

\* Finding nothing, and marking a found object as used.
LEMMA GetFailsTyped ==
  ASSUME StoreTypeOK, CallsOK, NEW c \in Callers, NEW args, GetFails(c, args),
         UNCHANGED <<review, horizon, phase, hookVars>>
  PROVE  TypeOK'
<1>1. Fresh(live) \in SUBSET (1..built)
  BY BuiltIsNat
<1>2. live' \subseteq 1..built /\ recency' \in [live' -> Nat]
  BY <1>1, QuietSetStore DEF GetFails
<1>3. {"review_not_found", "digest_mismatch"} \subseteq Answers
  BY DEF Answers
<1>4. CallsOK'
  BY <1>3, QuietRefuse DEF GetFails
<1>5. QED
  BY <1>2, <1>4, QuietStep

LEMMA GetTyped ==
  ASSUME StoreTypeOK, UNCHANGED review, NEW args, NEW o \in Found(args), Get(o)
  PROVE  o \in 1..built /\ live' \subseteq 1..built /\ recency' \in [live' -> Nat]
<1>1. Fresh(live) \in SUBSET (1..built)
  BY BuiltIsNat
<1>2. o \in 1..built
  BY <1>1 DEF Found, Holders
<1>3. QED
  BY <1>1, <1>2, QuietSetStore DEF Get

LEMMA FinalizeBeginTyped ==
  ASSUME TypeOK, NEW c \in Callers, NEW id \in ReviewIds, NEW digest \in Digests,
         NEW payload \in Payloads, FinalizeBegin(c, id, digest, payload)
  PROVE  TypeOK'
<1> DEFINE args == [tool |-> "finalize", id |-> id, digest |-> digest, payload |-> payload]
<1>0. StoreTypeOK /\ CallsOK
  BY TypeSplit
<1>1. built \in Nat /\ built' = built
  BY <1>0, BuiltIsNat DEF FinalizeBegin, built
<1>2. args \in FinalizeArgs /\ NoObject \in 0..built' /\ "service_stopped" \in Answers
  BY <1>1 DEF FinalizeArgs, NoObject, Answers
<1>3. CASE Refuse(c, "service_stopped")
  BY <1>0, <1>1, <1>2, <1>3, RefuseTyped, QuietStep DEF FinalizeBegin, StoreTypeOK, storeVars
<1>4. CASE Go(c, "lookup", args, NoObject)
  <2>1. CallsOK'
    BY <1>0, <1>1, <1>2, <1>4, GoTyped DEF PrepareSteps, FinalizeSteps
  <2>2. QED
    BY <1>0, <2>1, QuietStep DEF FinalizeBegin, StoreTypeOK, storeVars
<1>5. QED
  BY <1>3, <1>4 DEF FinalizeBegin

LEMMA FinalizeLookupTyped ==
  ASSUME TypeOK, NEW c \in Callers, FinalizeLookup(c)
  PROVE  TypeOK'
<1> DEFINE args == call[c].args
<1>0. StoreTypeOK /\ CallsOK
  BY TypeSplit
<1>1. UNCHANGED <<review, horizon, phase, hookVars>>
  BY DEF FinalizeLookup
<1>2. args \in FinalizeArgs
  BY <1>0, FinalizeCallHolds DEF FinalizeLookup, FinalizeSteps
<1>3. CASE GetFails(c, args)
  BY <1>0, <1>1, <1>3, GetFailsTyped
<1>4. ASSUME NEW o \in Found(args), Get(o), Go(c, "validate", args, o)
      PROVE  TypeOK'
  <2>1. built \in Nat /\ built' = built
    BY <1>0, <1>1, BuiltIsNat DEF built
  <2>2. o \in 1..built /\ live' \subseteq 1..built /\ recency' \in [live' -> Nat]
    BY <1>0, <1>1, <1>4, GetTyped
  <2>3. o \in 0..built' /\ o # NoObject
    BY <2>1, <2>2 DEF NoObject
  <2>4. CallsOK'
    BY <1>0, <1>2, <1>4, <2>1, <2>3, GoTyped DEF PrepareSteps, FinalizeSteps
  <2>5. QED
    BY <1>0, <1>1, <2>2, <2>4, QuietStep
<1>5. QED
  BY <1>3, <1>4 DEF FinalizeLookup

LEMMA RepeatedTyped ==
  ASSUME StoreTypeOK, CallsOK, UNCHANGED review, NEW c \in Callers,
         call[c].args \in FinalizeArgs, NEW o \in 0..built, Repeated(c, o)
  PROVE  CallsOK'
<1>1. call[c].args \in AllArgs /\ {"verdict", "finalization_conflict"} \subseteq Answers
  BY DEF AllArgs, Answers
<1>2. QED
  BY <1>1, QuietReply DEF Repeated

LEMMA FinalizeValidateTyped ==
  ASSUME TypeOK, NEW c \in Callers, FinalizeValidate(c)
  PROVE  TypeOK'
<1> DEFINE args == call[c].args
           o    == call[c].obj
<1>0. StoreTypeOK /\ CallsOK
  BY TypeSplit
<1>1. UNCHANGED <<review, storeVars, horizon, phase, hookVars>>
  BY DEF FinalizeValidate
<1>2. args \in FinalizeArgs /\ o \in 0..built /\ o # NoObject
  BY <1>0, FinalizeCallHolds DEF FinalizeValidate, FinalizeSteps
<1>3. CASE Refuse(c, "invalid_arguments")
  BY <1>0, <1>1, <1>3, QuietRefuse, QuietStep DEF Answers, StoreTypeOK, storeVars
<1>4. CASE Repeated(c, o)
  BY <1>0, <1>1, <1>2, <1>4, RepeatedTyped, QuietStep DEF StoreTypeOK, storeVars
<1>5. CASE Meaning[args.payload] # "invalid" /\ Go(c, "commit", args, o)
  <2>1. built \in Nat /\ built' = built
    BY <1>0, <1>1, BuiltIsNat DEF built
  <2>2. CallsOK'
    BY <1>0, <1>2, <1>5, <2>1, GoTyped DEF PrepareSteps, FinalizeSteps
  <2>3. QED
    BY <1>0, <1>1, <2>2, QuietStep DEF StoreTypeOK, storeVars
<1>6. QED
  BY <1>3, <1>4, <1>5 DEF FinalizeValidate

\* Binding a verdict keeps the heap well formed and as long.
LEMMA DecidedTyped ==
  ASSUME StoreTypeOK, NEW o \in 1..built, NEW meaning \in Meanings
  PROVE  Decided(o, meaning) \in Seq(Review) /\ Len(Decided(o, meaning)) = built
<1> DEFINE d == Decided(o, meaning)
<1>1. review \in [1..built -> Review] /\ built \in Nat
  BY BuiltIsNat DEF StoreTypeOK, built
<1>2. d \in [1..built -> Review]
  <2>1. review[o] \in Review
    BY <1>1
  <2>2. [review[o] EXCEPT !.final = meaning, !.bytes = @ + FinalBytes] \in Review
    <3>1. review[o].bytes + FinalBytes \in Nat
      BY <2>1, ServiceAssumption DEF Review
    <3>2. QED
      BY <2>1, <3>1 DEF Review
  <2>3. d = [x \in 1..built |->
              IF x = o THEN [review[o] EXCEPT !.final = meaning, !.bytes = @ + FinalBytes]
                       ELSE review[x]]
    BY <1>1, <2>1 DEF Decided, Review
  <2>4. QED
    BY <1>1, <2>2, <2>3
<1>3. QED
  BY <1>1, <1>2

LEMMA FinalizeCommitTyped ==
  ASSUME TypeOK, NEW c \in Callers, FinalizeCommit(c)
  PROVE  TypeOK'
<1> DEFINE args    == call[c].args
           o       == call[c].obj
           decided == Decided(o, Meaning[args.payload])
<1>0. StoreTypeOK /\ CallsOK /\ built \in Nat
  BY TypeSplit, BuiltIsNat
<1>1. UNCHANGED <<horizon, phase, hookVars>>
  BY DEF FinalizeCommit
<1>2. args \in FinalizeArgs /\ o \in 1..built /\ Meaning[args.payload] \in Meanings
  BY <1>0, FinalizeCallHolds DEF FinalizeCommit, FinalizeSteps, NoObject
<1>3. CASE Repeated(c, o) /\ UNCHANGED <<review, storeVars>>
  BY <1>0, <1>1, <1>2, <1>3, RepeatedTyped, QuietStep DEF StoreTypeOK, storeVars
<1>4. CASE /\ Refuse(c, "review_not_found") \/ Refuse(c, "review_store_limit")
           /\ UNCHANGED <<review, storeVars>>
  BY <1>0, <1>1, <1>4, QuietRefuse, QuietStep DEF Answers, StoreTypeOK, storeVars
<1>5. CASE /\ review' = decided
           /\ SetStore(Trimmed(decided, recency, live, o), recency)
           /\ Reply(c, args, o, "verdict")
  <2>1. review' \in Seq(Review) /\ built' = built
    BY <1>0, <1>2, <1>5, DecidedTyped DEF built
  <2>2. Trimmed(decided, recency, live, o) \in SUBSET (1..built')
    BY <1>0, <1>2, <2>1, TrimmedInside DEF StoreTypeOK
  <2>3. live' \subseteq 1..built' /\ recency' \in [live' -> Nat]
    BY <1>5, <2>1, <2>2, SetStoreTyped
  <2>4. args \in AllArgs /\ o \in 0..built' /\ "verdict" \in Answers
    BY <1>0, <1>2, <2>1 DEF AllArgs, Answers
  <2>5. CallsOK'
    BY <1>0, <1>5, <2>1, <2>4, ReplyTyped
  <2>6. StoreTypeOK'
    BY <1>0, <1>1, <2>1, <2>3 DEF StoreTypeOK, hookVars
  <2>7. QED
    BY <2>5, <2>6, TypeJoined
<1>6. QED
  BY <1>3, <1>4, <1>5 DEF FinalizeCommit

LEMMA ReadReviewTyped ==
  ASSUME TypeOK, NEW c \in Callers, NEW id \in ReviewIds, NEW digest \in Digests,
         ReadReview(c, id, digest)
  PROVE  TypeOK'
<1> DEFINE args == [tool |-> "read", id |-> id, digest |-> digest]
<1>0. StoreTypeOK /\ CallsOK /\ built \in Nat
  BY TypeSplit, BuiltIsNat
<1>1. UNCHANGED <<review, horizon, phase, hookVars>>
  BY DEF ReadReview
<1>2. args \in AllArgs /\ {"service_stopped", "read"} \subseteq Answers
  BY DEF AllArgs, ReadArgs, Answers
<1>3. CASE Refuse(c, "service_stopped") /\ UNCHANGED storeVars
  BY <1>0, <1>1, <1>2, <1>3, QuietRefuse, QuietStep DEF StoreTypeOK, storeVars
<1>4. CASE GetFails(c, args)
  BY <1>0, <1>1, <1>4, GetFailsTyped
<1>5. ASSUME NEW o \in Found(args), Get(o), Reply(c, args, o, "read")
      PROVE  TypeOK'
  <2>1. o \in 1..built /\ live' \subseteq 1..built /\ recency' \in [live' -> Nat]
    BY <1>0, <1>1, <1>5, GetTyped
  <2>2. o \in 0..built
    BY <1>0, <2>1
  <2>3. CallsOK'
    BY <1>0, <1>1, <1>2, <1>5, <2>2, QuietReply
  <2>4. QED
    BY <1>0, <1>1, <2>1, <2>3, QuietStep
<1>6. QED
  BY <1>3, <1>4, <1>5 DEF ReadReview

\* Time, shutdown and a caller that takes its answer.
LEMMA ExpireTyped == ASSUME TypeOK, Expire PROVE TypeOK'
<1>0. StoreTypeOK /\ CallsOK /\ built \in Nat /\ built' = built
  BY TypeSplit, BuiltIsNat DEF Expire, built
<1>1. StoreTypeOK'
  BY <1>0 DEF StoreTypeOK, Expire, storeVars, hookVars
<1>2. CallsOK'
  BY <1>0, CallFrame DEF Expire
<1>3. QED
  BY <1>1, <1>2, TypeJoined

LEMMA CloseTyped == ASSUME TypeOK, BeginClose \/ ClearStore PROVE TypeOK'
<1>0. StoreTypeOK /\ CallsOK /\ built \in Nat /\ built' = built
  BY TypeSplit, BuiltIsNat DEF BeginClose, ClearStore, built
<1>1. CallsOK'
  BY <1>0, CallFrame DEF BeginClose, ClearStore
<1>2. StoreTypeOK'
  <2>1. CASE BeginClose
    BY <1>0, <2>1 DEF StoreTypeOK, BeginClose, storeVars, hookVars
  <2>2. CASE ClearStore
    <3>1. live' \subseteq 1..built /\ recency' \in [live' -> Nat]
      BY <1>0, <2>2, QuietSetStore DEF ClearStore
    <3>2. QED
      BY <1>0, <2>2, <3>1 DEF StoreTypeOK, ClearStore, hookVars
  <2>3. QED
    BY <2>1, <2>2
<1>3. QED
  BY <1>1, <1>2, TypeJoined

LEMMA IdleIsOK == ASSUME built \in Nat PROVE CallOK(Idle)
BY DEF CallOK, Idle, NoArgs, NoObject, Answers, PrepareSteps, FinalizeSteps

LEMMA ReturnTyped == ASSUME TypeOK, NEW c \in Callers, Return(c) PROVE TypeOK'
<1>0. StoreTypeOK /\ CallsOK /\ built \in Nat /\ built' = built
  BY TypeSplit, BuiltIsNat DEF Return, built
<1> DEFINE k == [pc |-> "idle", args |-> NoArgs, obj |-> NoObject, answer |-> "none"]
<1>1. CallOK(k)'
  BY <1>0 DEF CallOK, NoArgs, NoObject, Answers, PrepareSteps, FinalizeSteps
<1>2. call' = [call EXCEPT ![c] = k]
  BY DEF Return, Idle
<1>3. CallsOK'
  <2>1. built' \in Nat /\ built <= built'
    BY <1>0
  <2>2. QED
    BY <1>0, <1>1, <1>2, <2>1, CallUpdate
<1>4. QED
  BY <1>0, <1>3, QuietStep DEF Return, StoreTypeOK, storeVars

-----------------------------------------------------------------------------
(* Type correctness of every behaviour.                                    *)

LEMMA InitTyped == Init => TypeOK
<1> SUFFICES ASSUME Init PROVE TypeOK
  OBVIOUS
<1>1. built = 0 /\ built \in Nat
  BY DEF Init, built
<1>2. CallsOK
  BY <1>1, IdleIsOK DEF Init, CallsOK
<1>3. StoreTypeOK
  BY <1>1, ServiceAssumption DEF Init, StoreTypeOK
<1>4. QED
  BY <1>2, <1>3, TypeSplit

LEMMA NextTyped == TypeOK /\ [Next]_vars => TypeOK'
<1> SUFFICES ASSUME TypeOK, [Next]_vars PROVE TypeOK'
  OBVIOUS
<1>1. ASSUME NEW c \in Callers, Begin(c) PROVE TypeOK'
  BY <1>1, PrepareBeginTyped, FinalizeBeginTyped, ReadReviewTyped DEF Begin
<1>2. ASSUME NEW c \in Callers, Proceed(c) PROVE TypeOK'
  BY <1>2, HookStartTyped, HookBusyTyped, HookAnswerTyped, PrepareStoreTyped,
     FinalizeLookupTyped, FinalizeValidateTyped, FinalizeCommitTyped DEF Proceed
<1>3. ASSUME NEW c \in Callers, Return(c) PROVE TypeOK'
  BY <1>3, ReturnTyped
<1>4. CASE Environment
  BY <1>4, StrayHookExitsTyped, ExpireTyped, HookAnswerTyped DEF Environment
<1>5. CASE BeginClose \/ ClearStore
  BY <1>5, CloseTyped
<1>6. CASE UNCHANGED vars
  BY <1>6 DEF vars, TypeOK, CallOK, built
<1>7. QED
  BY <1>1, <1>2, <1>3, <1>4, <1>5, <1>6 DEF Next

\* Every reachable state of the service has its type: in particular a call
\* between two locked sections always holds an object of the heap and arguments
\* of its own tool.
THEOREM TypeCorrect == Spec => []TypeOK
BY InitTyped, NextTyped, PTL DEF Spec

-----------------------------------------------------------------------------
(* What a step may do to the heap of reviews.                              *)

\* A decision: only of an undecided review, which is and stays in the store.
MayDecide(o) ==
  review'[o].final # review[o].final =>
    /\ review[o].final = Undecided
    /\ o \in live /\ o \in live'
    /\ phase # "closed"

HeapStep ==
  /\ built \in Nat /\ built' \in Nat /\ built <= built'
  /\ \A o \in 1..built :
       /\ review'[o].id = review[o].id
       /\ review'[o].req = review[o].req
       /\ review'[o].outcome = review[o].outcome
       /\ MayDecide(o)

\* close() leaves the store empty, and nothing is stored afterwards.
ClosedEmpty == phase = "closed" => live = {}

LEMMA HeapUnchanged ==
  ASSUME StoreTypeOK, UNCHANGED review
  PROVE  HeapStep
<1>1. built \in Nat /\ built' = built
  BY BuiltIsNat DEF built
<1>2. QED
  BY <1>1 DEF HeapStep, MayDecide

LEMMA HeapBuild ==
  ASSUME StoreTypeOK, NEW c \in Callers, NEW outcome, Build(c, outcome)
  PROVE  HeapStep
<1> DEFINE args == call[c].args
           new  == [id |-> args.id, req |-> args.req, outcome |-> outcome,
                    bytes |-> PreparedBytes[outcome], final |-> Undecided]
<1>1. CASE UNCHANGED review
  BY <1>1, HeapUnchanged
<1>2. CASE review' = Append(review, new)
  <2> HIDE DEF new
  <2>1. review \in Seq(Review) /\ built \in Nat
    BY BuiltIsNat DEF StoreTypeOK
  <2>2. built' = built + 1 /\ \A o \in 1..built : review'[o] = review[o]
    BY <1>2, <2>1 DEF built
  <2>3. QED
    BY <2>1, <2>2 DEF HeapStep, MayDecide
<1>3. QED
  BY <1>1, <1>2 DEF Build

LEMMA HeapCommit ==
  ASSUME TypeOK, ClosedEmpty, NEW c \in Callers, FinalizeCommit(c)
  PROVE  HeapStep
<1> DEFINE o == call[c].obj
           m == Meaning[call[c].args.payload]
<1>0. StoreTypeOK /\ CallsOK /\ built \in Nat
  BY TypeSplit, BuiltIsNat
<1>1. o \in 1..built /\ m \in Meanings
  BY <1>0, FinalizeCallHolds DEF FinalizeCommit, FinalizeSteps, NoObject
<1>2. CASE UNCHANGED review
  BY <1>0, <1>2, HeapUnchanged
<1>3. CASE /\ review[o].final = Undecided
           /\ o \in live
           /\ review' = Decided(o, m)
           /\ SetStore(Trimmed(Decided(o, m), recency, live, o), recency)
  <2>1. review \in [1..built -> Review]
    BY <1>0 DEF StoreTypeOK, built
  <2>2. built' = built
    BY <1>0, <1>1, <1>3, DecidedTyped DEF built
  <2>3. o \in live' /\ phase # "closed"
    BY <1>3, TrimmedInside DEF SetStore, ClosedEmpty
  <2>4. ASSUME NEW x \in 1..built
        PROVE  /\ review'[x].id = review[x].id
               /\ review'[x].req = review[x].req
               /\ review'[x].outcome = review[x].outcome
               /\ x # o => review'[x] = review[x]
    <3>1. review[x] \in Review
      BY <2>1
    <3>2. QED
      BY <1>1, <1>3, <2>1, <3>1 DEF Decided, Review
  <2>5. ASSUME NEW x \in 1..built
        PROVE  MayDecide(x)
    <3>1. CASE x = o
      BY <1>3, <2>3, <3>1 DEF MayDecide
    <3>2. CASE x # o
      BY <2>4, <3>2 DEF MayDecide
    <3>3. QED
      BY <3>1, <3>2
  <2>6. built \in Nat
    BY <1>0 DEF StoreTypeOK, built
  <2>7. QED
    BY <2>2, <2>4, <2>5, <2>6 DEF HeapStep
<1>4. QED
  BY <1>2, <1>3 DEF FinalizeCommit, HasVerdict, StillStored

\* The steps of the service that may touch the heap, and all the others.
LEMMA HeapProceed ==
  ASSUME TypeOK, ClosedEmpty, NEW c \in Callers, Proceed(c)
  PROVE  HeapStep
<1>0. StoreTypeOK
  BY TypeSplit
<1>1. CASE HookBusy(c) \/ HookTimeout(c)
  BY <1>0, <1>1, HeapBuild DEF HookBusy, HookTimeout
<1>2. CASE FinalizeCommit(c)
  BY <1>2, HeapCommit
<1>3. CASE HookStart(c) \/ PrepareStore(c) \/ FinalizeLookup(c) \/ FinalizeValidate(c)
  BY <1>0, <1>3, HeapUnchanged DEF HookStart, PrepareStore, FinalizeLookup, FinalizeValidate
<1>4. QED
  BY <1>1, <1>2, <1>3 DEF Proceed

LEMMA HeapEnvironment ==
  ASSUME TypeOK, Environment
  PROVE  HeapStep
<1>0. StoreTypeOK
  BY TypeSplit
<1>1. CASE \E c \in Callers : HookReturns(c)
  BY <1>0, <1>1, HeapBuild DEF HookReturns
<1>2. CASE StrayHookExits \/ Expire
  BY <1>0, <1>2, HeapUnchanged DEF StrayHookExits, Expire
<1>3. QED
  BY <1>1, <1>2 DEF Environment

LEMMA HeapNext ==
  ASSUME TypeOK, ClosedEmpty, [Next]_vars
  PROVE  HeapStep
<1>0. StoreTypeOK
  BY TypeSplit
<1>1. CASE UNCHANGED review
  BY <1>0, <1>1, HeapUnchanged
<1>2. ASSUME NEW c \in Callers, Begin(c) \/ Return(c)
      PROVE  UNCHANGED review
  BY <1>2 DEF Begin, PrepareBegin, FinalizeBegin, ReadReview, Return
<1>3. QED
  BY <1>1, <1>2, HeapProceed, HeapEnvironment DEF Next, vars, BeginClose, ClearStore

-----------------------------------------------------------------------------
(* A closed service stays empty.                                           *)

\* An open or closing service may change its store; a closed one keeps it empty.
LEMMA ClosedEmptyStore ==
  ASSUME ClosedEmpty, UNCHANGED phase, phase # "closed" \/ live' \subseteq live
  PROVE  ClosedEmpty'
BY DEF ClosedEmpty

LEMMA ClosedEmptyGet ==
  ASSUME ClosedEmpty, UNCHANGED phase, NEW c, NEW args,
         \/ GetFails(c, args)
         \/ \E o \in Found(args) : Get(o)
  PROVE  ClosedEmpty'
<1>1. Fresh(live) \subseteq live
  BY DEF Fresh
<1>2. CASE GetFails(c, args)
  BY <1>1, <1>2, ClosedEmptyStore DEF GetFails, SetStore
<1>3. CASE \E o \in Found(args) : Get(o)
  BY <1>1, <1>3, ClosedEmptyStore DEF Get, SetStore
<1>4. QED
  BY <1>2, <1>3

LEMMA ClosedEmptyProceed ==
  ASSUME TypeOK, ClosedEmpty, NEW c \in Callers, Proceed(c)
  PROVE  ClosedEmpty'
<1>1. CASE HookStart(c) \/ HookBusy(c) \/ HookTimeout(c) \/ FinalizeValidate(c)
  BY <1>1, ClosedEmptyStore
  DEF HookStart, HookBusy, HookTimeout, FinalizeValidate, storeVars
<1>2. CASE PrepareStore(c)
  BY <1>2, ClosedEmptyStore DEF PrepareStore, Stopped, storeVars
<1>3. CASE FinalizeLookup(c)
  BY <1>3, ClosedEmptyGet DEF FinalizeLookup
<1>4. CASE FinalizeCommit(c)
  <2>1. UNCHANGED live \/ phase # "closed"
    BY <1>4 DEF FinalizeCommit, StillStored, storeVars, ClosedEmpty
  <2>2. QED
    BY <1>4, <2>1, ClosedEmptyStore DEF FinalizeCommit
<1>5. QED
  BY <1>1, <1>2, <1>3, <1>4 DEF Proceed

LEMMA ClosedEmptyEnvironment ==
  ASSUME ClosedEmpty, Environment
  PROVE  ClosedEmpty'
BY DEF Environment, StrayHookExits, Expire, HookReturns, ClosedEmpty, storeVars

LEMMA ClosedEmptyBegin ==
  ASSUME ClosedEmpty, NEW c \in Callers, Begin(c)
  PROVE  ClosedEmpty'
<1>1. CASE \E id \in ReviewIds, req \in Requests : PrepareBegin(c, id, req)
  BY <1>1, ClosedEmptyStore DEF PrepareBegin, Stopped, storeVars
<1>2. CASE \E id \in ReviewIds, d \in Digests, p \in Payloads : FinalizeBegin(c, id, d, p)
  BY <1>2, ClosedEmptyStore DEF FinalizeBegin, storeVars
<1>3. CASE \E id \in ReviewIds, d \in Digests : ReadReview(c, id, d)
  BY <1>3, ClosedEmptyStore, ClosedEmptyGet DEF ReadReview, storeVars
<1>4. QED
  BY <1>1, <1>2, <1>3 DEF Begin

LEMMA ClosedEmptyNext ==
  ASSUME TypeOK, ClosedEmpty, [Next]_vars
  PROVE  ClosedEmpty'
<1>1. CASE BeginClose \/ ClearStore
  BY <1>1 DEF BeginClose, ClearStore, SetStore, ClosedEmpty
<1>2. CASE UNCHANGED vars
  BY <1>2 DEF vars, ClosedEmpty
<1>3. ASSUME NEW c \in Callers, Return(c)
      PROVE  ClosedEmpty'
  BY <1>3 DEF Return, storeVars, ClosedEmpty
<1>4. QED
  BY <1>1, <1>2, <1>3, ClosedEmptyBegin, ClosedEmptyProceed, ClosedEmptyEnvironment DEF Next

-----------------------------------------------------------------------------
(* First write wins.                                                       *)

\* A verdict is bound to a review at most once, is never replaced, and only while
\* the review is in a store that has not been closed.
THEOREM FirstWriteWins == Spec => DecidedOnceInPlace
<1>1. Init => ClosedEmpty
  BY DEF Init, ClosedEmpty
<1>2. TypeOK /\ ClosedEmpty /\ [Next]_vars => ClosedEmpty'
  BY ClosedEmptyNext
<1>3. TypeOK /\ ClosedEmpty /\ [Next]_vars =>
        [\A o \in 1..built : review'[o].final # review[o].final =>
           /\ review[o].final = Undecided
           /\ o \in live /\ o \in live'
           /\ phase # "closed"]_vars
  BY HeapNext DEF HeapStep, MayDecide
<1>4. QED
  BY <1>1, <1>2, <1>3, TypeCorrect, PTL DEF Spec, DecidedOnceInPlace

-----------------------------------------------------------------------------
(* Truthful answers.                                                       *)

\* AnswersTruthful for one caller, strengthened: the object an answer speaks of
\* exists, a verdict is never "undecided", and the object a prepare is about to
\* store was built for its own arguments.
Truthful(heap, k) ==
  /\ k.answer \in {"verdict", "finalization_conflict", "prepared"} => k.obj # NoObject
  /\ k.answer = "verdict" =>
       /\ heap[k.obj].final # Undecided
       /\ heap[k.obj].final = Meaning[k.args.payload]
  /\ k.answer = "finalization_conflict" =>
       heap[k.obj].final \notin {Undecided, Meaning[k.args.payload]}
  /\ k.answer = "prepared" \/ k.pc = "store" =>
       heap[k.obj].id = k.args.id /\ heap[k.obj].req = k.args.req

AllTruthful == \A c \in Callers : Truthful(review, call[c])

\* No step of anybody makes an answer false that was true.
LEMMA TruthKept ==
  ASSUME HeapStep, NEW k, k.obj \in 0..built, k.pc = "store" => k.obj # NoObject,
         Truthful(review, k)
  PROVE  Truthful(review', k)
<1>1. k.obj # NoObject => k.obj \in 1..built
  BY DEF NoObject, HeapStep
<1>2. k.obj # NoObject =>
        /\ review'[k.obj].id = review[k.obj].id
        /\ review'[k.obj].req = review[k.obj].req
        /\ review[k.obj].final # Undecided => review'[k.obj].final = review[k.obj].final
  BY <1>1 DEF HeapStep, MayDecide
<1>3. QED
  BY <1>2 DEF Truthful

LEMMA TruthCarried ==
  ASSUME CallsOK, HeapStep, AllTruthful, NEW c \in Callers, call'[c] = call[c]
  PROVE  Truthful(review', call'[c])
<1>1. call[c].obj \in 0..built /\ (call[c].pc = "store" => call[c].obj # NoObject)
  BY DEF CallsOK, CallOK
<1>2. QED
  BY <1>1, TruthKept DEF AllTruthful

LEMMA TruthUpdate ==
  ASSUME CallsOK, HeapStep, AllTruthful, NEW c \in Callers, NEW k, Truthful(review', k),
         call' = [call EXCEPT ![c] = k]
  PROVE  AllTruthful'
<1>1. call'[c] = k /\ \A d \in Callers \ {c} : call'[d] = call[d]
  BY DEF CallsOK
<1>2. ASSUME NEW d \in Callers, d # c
      PROVE  Truthful(review', call'[d])
  BY <1>1, <1>2, TruthCarried
<1>3. QED
  BY <1>1, <1>2 DEF AllTruthful

LEMMA TruthFrame ==
  ASSUME CallsOK, HeapStep, AllTruthful, call' = call
  PROVE  AllTruthful'
BY TruthCarried DEF AllTruthful

\* Answers that claim nothing about a review.
LEMMA TruthRefuse ==
  ASSUME CallsOK, HeapStep, AllTruthful, NEW c \in Callers,
         NEW why \in Answers \ {"verdict", "finalization_conflict", "prepared"},
         Refuse(c, why)
  PROVE  AllTruthful'
<1> DEFINE k == [pc |-> "answered", args |-> NoArgs, obj |-> NoObject, answer |-> why]
<1>1. Truthful(review', k)
  BY DEF Truthful
<1>2. call' = [call EXCEPT ![c] = k]
  BY DEF Refuse, Reply
<1>3. QED
  BY <1>1, <1>2, TruthUpdate

LEMMA TruthGo ==
  ASSUME CallsOK, HeapStep, AllTruthful, NEW c \in Callers, NEW pc, NEW args, NEW o,
         pc = "store" => review'[o].id = args.id /\ review'[o].req = args.req,
         Go(c, pc, args, o)
  PROVE  AllTruthful'
<1> DEFINE k == [pc |-> pc, args |-> args, obj |-> o, answer |-> "none"]
<1>1. Truthful(review', k)
  BY DEF Truthful
<1>2. call' = [call EXCEPT ![c] = k]
  BY DEF Go
<1>3. QED
  BY <1>1, <1>2, TruthUpdate

\* A preparation is handed out only for the review the caller asked for.
LEMMA TruthPrepared ==
  ASSUME CallsOK, HeapStep, AllTruthful, NEW c \in Callers, NEW args, NEW o \in 1..built,
         review'[o].id = args.id, review'[o].req = args.req,
         Reply(c, args, o, "prepared")
  PROVE  AllTruthful'
<1> DEFINE k == [pc |-> "answered", args |-> args, obj |-> o, answer |-> "prepared"]
<1>1. o # NoObject
  BY DEF NoObject, HeapStep
<1>2. Truthful(review', k)
  BY <1>1 DEF Truthful
<1>3. call' = [call EXCEPT ![c] = k]
  BY DEF Reply
<1>4. QED
  BY <1>2, <1>3, TruthUpdate

LEMMA TruthRejoin ==
  ASSUME TypeOK, UNCHANGED review, AllTruthful, NEW c \in Callers, NEW args,
         NEW o \in Holders(args.id), Rejoin(c, args, o)
  PROVE  AllTruthful'
<1>0. StoreTypeOK /\ CallsOK
  BY TypeSplit
<1>1. HeapStep
  BY <1>0, HeapUnchanged
<1>2. o \in 1..built /\ review'[o].id = args.id
  BY <1>0, BuiltIsNat DEF Holders
<1>3. CASE review[o].req = args.req /\ Reply(c, args, o, "prepared")
  BY <1>0, <1>1, <1>2, <1>3, TruthPrepared
<1>4. CASE Refuse(c, "review_conflict")
  BY <1>0, <1>1, <1>4, TruthRefuse DEF Answers
<1>5. QED
  BY <1>3, <1>4 DEF Rejoin, SameRequest

LEMMA TruthBuild ==
  ASSUME TypeOK, HeapStep, AllTruthful, NEW c \in Callers, NEW outcome, Build(c, outcome)
  PROVE  AllTruthful'
<1> DEFINE args == call[c].args
           new  == [id |-> args.id, req |-> args.req, outcome |-> outcome,
                    bytes |-> PreparedBytes[outcome], final |-> Undecided]
<1>0. StoreTypeOK /\ CallsOK
  BY TypeSplit
<1>1. CASE Refuse(c, "prepare_limit")
  BY <1>0, <1>1, TruthRefuse DEF Answers
<1>2. CASE review' = Append(review, new) /\ Go(c, "store", args, built + 1)
  <2>1. review'[built + 1] = new
    BY <1>0, <1>2 DEF StoreTypeOK, built
  <2>2. review'[built + 1].id = args.id /\ review'[built + 1].req = args.req
    BY <2>1
  <2>3. QED
    BY <1>0, <1>2, <2>2, TruthGo
<1>3. QED
  BY <1>1, <1>2 DEF Build

\* A repeated finalize is told what the review holds.
LEMMA TruthRepeated ==
  ASSUME TypeOK, UNCHANGED review, AllTruthful, NEW c \in Callers,
         NEW o \in 1..built, review[o].final # Undecided, Repeated(c, o)
  PROVE  AllTruthful'
<1> DEFINE args == call[c].args
           answer == IF review[o].final = Meaning[args.payload]
                       THEN "verdict" ELSE "finalization_conflict"
           k == [pc |-> "answered", args |-> args, obj |-> o, answer |-> answer]
<1>0. StoreTypeOK /\ CallsOK /\ HeapStep
  BY TypeSplit, HeapUnchanged
<1>1. o # NoObject
  BY <1>0 DEF NoObject, HeapStep
<1>2. Truthful(review', k)
  BY <1>1 DEF Truthful
<1>3. call' = [call EXCEPT ![c] = k]
  BY DEF Repeated, Reply
<1>4. QED
  BY <1>0, <1>2, <1>3, TruthUpdate

LEMMA TruthPrepareStore ==
  ASSUME TypeOK, AllTruthful, NEW c \in Callers, PrepareStore(c)
  PROVE  AllTruthful'
<1> DEFINE args == call[c].args
           o    == call[c].obj
<1>0. StoreTypeOK /\ CallsOK /\ UNCHANGED review /\ HeapStep
  BY TypeSplit, HeapUnchanged DEF PrepareStore
<1>1. o \in 1..built /\ review[o].id = args.id /\ review[o].req = args.req
  <2>1. call[c].pc = "store"
    BY DEF PrepareStore
  <2>2. o \in 0..built /\ o # NoObject
    BY <1>0, <2>1, PrepareCallHolds DEF PrepareSteps
  <2>3. QED
    BY <1>0, <2>1, <2>2 DEF NoObject, HeapStep, AllTruthful, Truthful
<1>2. CASE Refuse(c, "service_stopped")
  BY <1>0, <1>2, TruthRefuse DEF Answers
<1>3. CASE \E raced \in Holders(args.id) : Rejoin(c, args, raced)
  BY <1>0, <1>3, TruthRejoin
<1>4. CASE Reply(c, args, o, "prepared")
  BY <1>0, <1>1, <1>4, TruthPrepared
<1>5. QED
  BY <1>2, <1>3, <1>4 DEF PrepareStore, Raced

LEMMA TruthFinalizeLookup ==
  ASSUME TypeOK, AllTruthful, NEW c \in Callers, FinalizeLookup(c)
  PROVE  AllTruthful'
<1>0. CallsOK /\ HeapStep
  BY TypeSplit, HeapUnchanged DEF FinalizeLookup
<1>1. CASE GetFails(c, call[c].args)
  BY <1>0, <1>1, TruthRefuse DEF GetFails, Answers
<1>2. CASE \E o \in Found(call[c].args) : Go(c, "validate", call[c].args, o)
  BY <1>0, <1>2, TruthGo
<1>3. QED
  BY <1>1, <1>2 DEF FinalizeLookup

LEMMA TruthFinalizeValidate ==
  ASSUME TypeOK, AllTruthful, NEW c \in Callers, FinalizeValidate(c)
  PROVE  AllTruthful'
<1> DEFINE o == call[c].obj
<1>0. CallsOK /\ HeapStep /\ UNCHANGED review
  BY TypeSplit, HeapUnchanged DEF FinalizeValidate
<1>1. o \in 1..built
  BY <1>0, FinalizeCallHolds DEF FinalizeValidate, FinalizeSteps, NoObject, HeapStep
<1>2. CASE Refuse(c, "invalid_arguments")
  BY <1>0, <1>2, TruthRefuse DEF Answers
<1>3. CASE review[o].final # Undecided /\ Repeated(c, o)
  BY <1>0, <1>1, <1>3, TruthRepeated
<1>4. CASE Go(c, "commit", call[c].args, o)
  BY <1>0, <1>4, TruthGo
<1>5. QED
  BY <1>2, <1>3, <1>4 DEF FinalizeValidate, HasVerdict

LEMMA TruthFinalizeCommit ==
  ASSUME TypeOK, ClosedEmpty, AllTruthful, NEW c \in Callers, FinalizeCommit(c)
  PROVE  AllTruthful'
<1> DEFINE args == call[c].args
           o    == call[c].obj
           m    == Meaning[args.payload]
<1>0. StoreTypeOK /\ CallsOK /\ HeapStep
  BY TypeSplit, HeapCommit
<1>1. o \in 1..built /\ m \in Meanings
  BY <1>0, FinalizeCallHolds DEF FinalizeCommit, FinalizeSteps, NoObject, HeapStep
<1>2. CASE review[o].final # Undecided /\ Repeated(c, o) /\ UNCHANGED review
  BY <1>1, <1>2, TruthRepeated
<1>3. CASE Refuse(c, "review_not_found") \/ Refuse(c, "review_store_limit")
  BY <1>0, <1>3, TruthRefuse DEF Answers
<1>4. CASE review' = Decided(o, m) /\ Reply(c, args, o, "verdict")
  <2> DEFINE k == [pc |-> "answered", args |-> args, obj |-> o, answer |-> "verdict"]
  <2>1. review \in [1..built -> Review]
    BY <1>0 DEF StoreTypeOK, built
  <2>2. review[o] \in Review
    BY <1>1, <2>1
  <2>3. review'[o].final = m
    BY <1>1, <1>4, <2>1, <2>2 DEF Decided, Review
  <2>4. m # Undecided
    BY <1>1 DEF Meanings, Undecided
  <2>5. Truthful(review', k)
    BY <1>0, <1>1, <2>3, <2>4 DEF Truthful, NoObject, HeapStep
  <2>6. call' = [call EXCEPT ![c] = k]
    BY <1>4 DEF Reply
  <2>7. QED
    BY <1>0, <2>5, <2>6, TruthUpdate
<1>5. QED
  BY <1>2, <1>3, <1>4 DEF FinalizeCommit, HasVerdict

LEMMA TruthProceed ==
  ASSUME TypeOK, ClosedEmpty, AllTruthful, NEW c \in Callers, Proceed(c)
  PROVE  AllTruthful'
<1>0. CallsOK /\ HeapStep
  BY TypeSplit, HeapProceed
<1>1. CASE HookStart(c)
  BY <1>0, <1>1, TruthGo DEF HookStart
<1>2. CASE HookBusy(c) \/ HookTimeout(c)
  BY <1>0, <1>2, TruthBuild DEF HookBusy, HookTimeout
<1>3. QED
  BY <1>1, <1>2, TruthPrepareStore, TruthFinalizeLookup, TruthFinalizeValidate,
     TruthFinalizeCommit DEF Proceed

LEMMA TruthBegin ==
  ASSUME TypeOK, AllTruthful, NEW c \in Callers, Begin(c)
  PROVE  AllTruthful'
<1>0. CallsOK /\ HeapStep
  BY TypeSplit, HeapUnchanged DEF Begin, PrepareBegin, FinalizeBegin, ReadReview
<1>1. ASSUME NEW id \in ReviewIds, NEW req \in Requests, PrepareBegin(c, id, req)
      PROVE  AllTruthful'
  <2> DEFINE args == [tool |-> "prepare", id |-> id, req |-> req]
  <2>1. CASE Refuse(c, "service_stopped")
    BY <1>0, <2>1, TruthRefuse DEF Answers
  <2>2. CASE \E o \in Holders(args.id) : Rejoin(c, args, o)
    BY <1>1, <2>2, TruthRejoin DEF PrepareBegin
  <2>3. CASE Go(c, "prepare", args, NoObject)
    BY <1>0, <2>3, TruthGo
  <2>4. QED
    BY <1>1, <2>1, <2>2, <2>3 DEF PrepareBegin
<1>2. ASSUME NEW id \in ReviewIds, NEW d \in Digests, NEW p \in Payloads,
             FinalizeBegin(c, id, d, p)
      PROVE  AllTruthful'
  BY <1>0, <1>2, TruthRefuse, TruthGo DEF FinalizeBegin, Answers
<1>3. ASSUME NEW id \in ReviewIds, NEW d \in Digests, ReadReview(c, id, d)
      PROVE  AllTruthful'
  <2> DEFINE args == [tool |-> "read", id |-> id, digest |-> d]
  <2>1. CASE Refuse(c, "service_stopped") \/ GetFails(c, args)
    BY <1>0, <2>1, TruthRefuse DEF GetFails, Answers
  <2>2. ASSUME NEW o, Reply(c, args, o, "read")
        PROVE  AllTruthful'
    <3> DEFINE k == [pc |-> "answered", args |-> args, obj |-> o, answer |-> "read"]
    <3>1. Truthful(review', k)
      BY DEF Truthful
    <3>2. call' = [call EXCEPT ![c] = k]
      BY <2>2 DEF Reply
    <3>3. QED
      BY <1>0, <3>1, <3>2, TruthUpdate
  <2>3. QED
    BY <1>3, <2>1, <2>2 DEF ReadReview
<1>4. QED
  BY <1>1, <1>2, <1>3 DEF Begin

LEMMA TruthNext ==
  ASSUME TypeOK, ClosedEmpty, AllTruthful, [Next]_vars
  PROVE  AllTruthful'
<1>0. CallsOK /\ HeapStep
  BY TypeSplit, HeapNext
<1>1. CASE \E c \in Callers : Begin(c) \/ Proceed(c)
  BY <1>1, TruthBegin, TruthProceed
<1>2. ASSUME NEW c \in Callers, Return(c)
      PROVE  AllTruthful'
  <2>1. Truthful(review', Idle)
    BY DEF Truthful, Idle
  <2>2. QED
    BY <1>0, <1>2, <2>1, TruthUpdate DEF Return
<1>3. ASSUME NEW c \in Callers, HookReturns(c)
      PROVE  AllTruthful'
  BY <1>0, <1>3, TruthBuild DEF HookReturns
<1>4. CASE call' = call
  BY <1>0, <1>4, TruthFrame
<1>5. QED
  BY <1>1, <1>2, <1>3, <1>4
  DEF Next, Environment, StrayHookExits, Expire, BeginClose, ClearStore, vars

\* Whoever is told a verdict sent the result that was bound first, a conflict is
\* reported only to somebody who sent another one, and a prepare is answered only
\* with the review of its own id and request.
THEOREM OnlyTruthIsTold == Spec => []AnswersTruthful
<1>1. Init => ClosedEmpty /\ AllTruthful
  BY DEF Init, ClosedEmpty, AllTruthful, Truthful, Idle
<1>2. TypeOK /\ ClosedEmpty /\ AllTruthful /\ [Next]_vars => ClosedEmpty' /\ AllTruthful'
  BY ClosedEmptyNext, TruthNext
<1>3. AllTruthful => AnswersTruthful
  BY DEF AllTruthful, Truthful, AnswersTruthful
<1>4. QED
  BY <1>1, <1>2, <1>3, TypeCorrect, PTL DEF Spec

-----------------------------------------------------------------------------
(* Hook threads.                                                           *)

Hooking == {c \in Callers : call[c].pc = "hook"}

\* Every permit is free, held by a hook a caller waits for, or held by a stray.
PermitsAccounted ==
  /\ IsFiniteSet(Hooking)
  /\ permits + Cardinality(Hooking) + strays = HookSlots

\* One caller takes a step that leaves it outside the hook.
StepsOutside(c) ==
  /\ call'[c].pc # "hook"
  /\ \A d \in Callers \ {c} : call'[d] = call[d]

LEMMA ReplyOutside ==
  ASSUME CallsOK, NEW c \in Callers, NEW args, NEW o, NEW answer, Reply(c, args, o, answer)
  PROVE  StepsOutside(c)
BY DEF CallsOK, Reply, StepsOutside

LEMMA RefuseOutside ==
  ASSUME CallsOK, NEW c \in Callers, NEW why, Refuse(c, why)
  PROVE  StepsOutside(c)
BY ReplyOutside DEF Refuse

LEMMA GoOutside ==
  ASSUME CallsOK, NEW c \in Callers, NEW pc, NEW args, NEW o, pc # "hook", Go(c, pc, args, o)
  PROVE  StepsOutside(c)
BY DEF CallsOK, Go, StepsOutside

LEMMA BuildOutside ==
  ASSUME CallsOK, NEW c \in Callers, NEW outcome, Build(c, outcome)
  PROVE  StepsOutside(c)
BY RefuseOutside, GoOutside DEF Build

LEMMA RejoinOutside ==
  ASSUME CallsOK, NEW c \in Callers, NEW args, NEW o, Rejoin(c, args, o)
  PROVE  StepsOutside(c)
BY ReplyOutside, RefuseOutside DEF Rejoin

\* The hook has nothing to do with a caller that was not waiting for it.
LEMMA HookUntouched ==
  ASSUME PermitsAccounted, UNCHANGED hookVars, NEW c \in Callers,
         call[c].pc # "hook", StepsOutside(c)
  PROVE  PermitsAccounted'
<1>1. Hooking' = Hooking
  BY DEF Hooking, StepsOutside
<1>2. QED
  BY <1>1 DEF PermitsAccounted, hookVars

LEMMA PermitsBegin ==
  ASSUME CallsOK, PermitsAccounted, NEW c \in Callers, Begin(c)
  PROVE  PermitsAccounted'
<1>1. CASE \E id \in ReviewIds, req \in Requests : PrepareBegin(c, id, req)
  BY <1>1, RefuseOutside, RejoinOutside, GoOutside, HookUntouched DEF PrepareBegin
<1>2. CASE \E id \in ReviewIds, d \in Digests, p \in Payloads : FinalizeBegin(c, id, d, p)
  BY <1>2, RefuseOutside, GoOutside, HookUntouched DEF FinalizeBegin
<1>3. CASE \E id \in ReviewIds, d \in Digests : ReadReview(c, id, d)
  BY <1>3, RefuseOutside, ReplyOutside, HookUntouched DEF ReadReview, GetFails
<1>4. QED
  BY <1>1, <1>2, <1>3 DEF Begin

\* A caller that stops waiting leaves a stray behind.
LEMMA PermitsLeaveHook ==
  ASSUME TypeOK, PermitsAccounted, NEW c \in Callers, HookReturns(c) \/ HookTimeout(c)
  PROVE  PermitsAccounted'
<1>0. CallsOK /\ permits \in Nat /\ strays \in Nat
  BY TypeSplit DEF StoreTypeOK
<1>1. c \in Hooking /\ StepsOutside(c)
  BY <1>0, BuildOutside DEF HookReturns, HookTimeout, Hooking
<1>2. Hooking' = Hooking \ {c}
  BY <1>1 DEF Hooking, StepsOutside
<1>3. IsFiniteSet(Hooking') /\ Cardinality(Hooking') = Cardinality(Hooking) - 1
  BY <1>1, <1>2, FS_RemoveElement DEF PermitsAccounted
<1>4. permits' = permits /\ strays' = strays + 1
  BY DEF HookReturns, HookTimeout
<1>5. Cardinality(Hooking) \in Nat
  BY FS_CardinalityType DEF PermitsAccounted
<1>6. QED
  BY <1>0, <1>3, <1>4, <1>5, ServiceAssumption DEF PermitsAccounted

LEMMA PermitsHookStart ==
  ASSUME TypeOK, PermitsAccounted, NEW c \in Callers, HookStart(c)
  PROVE  PermitsAccounted'
<1>0. CallsOK /\ permits \in Nat /\ strays \in Nat
  BY TypeSplit DEF StoreTypeOK
<1>1. c \notin Hooking /\ Hooking' = Hooking \cup {c}
  BY <1>0 DEF HookStart, Go, Hooking, CallsOK
<1>2. IsFiniteSet(Hooking') /\ Cardinality(Hooking') = Cardinality(Hooking) + 1
  BY <1>1, FS_AddElement DEF PermitsAccounted
<1>3. permits' = permits - 1 /\ strays' = strays
  BY DEF HookStart
<1>4. Cardinality(Hooking) \in Nat
  BY FS_CardinalityType DEF PermitsAccounted
<1>5. QED
  BY <1>0, <1>2, <1>3, <1>4, ServiceAssumption DEF PermitsAccounted

LEMMA PermitsProceed ==
  ASSUME TypeOK, PermitsAccounted, NEW c \in Callers, Proceed(c)
  PROVE  PermitsAccounted'
<1>0. CallsOK
  BY TypeSplit
<1>1. CASE HookBusy(c)
  BY <1>0, <1>1, BuildOutside, HookUntouched DEF HookBusy
<1>2. CASE PrepareStore(c)
  BY <1>0, <1>2, RefuseOutside, RejoinOutside, ReplyOutside, HookUntouched DEF PrepareStore
<1>3. CASE FinalizeLookup(c)
  BY <1>0, <1>3, RefuseOutside, GoOutside, HookUntouched DEF FinalizeLookup, GetFails
<1>4. CASE FinalizeValidate(c)
  BY <1>0, <1>4, RefuseOutside, ReplyOutside, GoOutside, HookUntouched
  DEF FinalizeValidate, Repeated
<1>5. CASE FinalizeCommit(c)
  BY <1>0, <1>5, RefuseOutside, ReplyOutside, HookUntouched DEF FinalizeCommit, Repeated
<1>6. QED
  BY <1>1, <1>2, <1>3, <1>4, <1>5, PermitsHookStart, PermitsLeaveHook DEF Proceed

LEMMA PermitsNext ==
  ASSUME TypeOK, PermitsAccounted, [Next]_vars
  PROVE  PermitsAccounted'
<1>0. CallsOK /\ permits \in Nat /\ strays \in Nat
  BY TypeSplit DEF StoreTypeOK
<1>1. CASE \E c \in Callers : Begin(c) \/ Proceed(c) \/ HookReturns(c)
  BY <1>0, <1>1, PermitsBegin, PermitsProceed, PermitsLeaveHook
<1>2. ASSUME NEW c \in Callers, Return(c)
      PROVE  PermitsAccounted'
  <2>1. StepsOutside(c)
    BY <1>0, <1>2 DEF Return, StepsOutside, CallsOK, Idle
  <2>2. QED
    BY <1>2, <2>1, HookUntouched DEF Return
<1>3. CASE StrayHookExits
  <2>1. Hooking' = Hooking
    BY <1>3 DEF StrayHookExits, Hooking
  <2>2. Cardinality(Hooking) \in Nat
    BY FS_CardinalityType DEF PermitsAccounted
  <2>3. QED
    BY <1>0, <1>3, <2>1, <2>2, ServiceAssumption DEF StrayHookExits, PermitsAccounted
<1>4. CASE UNCHANGED <<hookVars, call>>
  BY <1>4 DEF PermitsAccounted, Hooking, hookVars
<1>5. QED
  BY <1>1, <1>2, <1>3, <1>4
  DEF Next, Environment, Expire, BeginClose, ClearStore, vars, hookVars

\* However many prepares come and however many hooks hang, the hook threads stay
\* within the bound, and no permit is lost.
THEOREM HooksBounded == Spec => []HookThreadsBounded
<1>1. Init => PermitsAccounted
  <2> SUFFICES ASSUME Init PROVE PermitsAccounted
    OBVIOUS
  <2>1. Hooking = {}
    BY DEF Init, Hooking, Idle
  <2>2. IsFiniteSet(Hooking) /\ Cardinality(Hooking) = 0
    BY <2>1, FS_EmptySet
  <2>3. QED
    BY <2>2, ServiceAssumption DEF Init, PermitsAccounted
<1>2. TypeOK /\ PermitsAccounted /\ [Next]_vars => PermitsAccounted'
  BY PermitsNext
<1>3. TypeOK /\ PermitsAccounted => HookThreadsBounded
  <2> SUFFICES ASSUME TypeOK, PermitsAccounted PROVE HookThreadsBounded
    OBVIOUS
  <2>1. Cardinality(Hooking) \in Nat
    BY FS_CardinalityType DEF PermitsAccounted
  <2>2. QED
    BY <2>1, ServiceAssumption DEF PermitsAccounted, TypeOK, HookThreadsBounded, Hooking
<1>4. QED
  BY <1>1, <1>2, <1>3, TypeCorrect, PTL DEF Spec

-----------------------------------------------------------------------------
(* What the ledger needs to know of the calls.                             *)

\* Only an answered call carries an answer, and two prepares never store the
\* same object.
CallsApart ==
  /\ \A c \in Callers : call[c].pc # "answered" => call[c].answer = "none"
  /\ \A c, d \in Callers :
       call[c].pc = "store" /\ call[d].pc = "store" /\ call[c].obj = call[d].obj => c = d

\* One caller takes a step; an object it is about to store is a new one.
Moves(c) ==
  /\ \A d \in Callers \ {c} : call'[d] = call[d]
  /\ call'[c].pc # "answered" => call'[c].answer = "none"
  /\ call'[c].pc = "store" => call'[c].obj = built + 1

LEMMA MovesApart ==
  ASSUME CallsOK, built \in Nat, CallsApart, NEW c \in Callers, Moves(c)
  PROVE  CallsApart'
<1>1. \A d \in Callers : call[d].obj \in 0..built
  BY DEF CallsOK, CallOK
<1>2. ASSUME NEW d \in Callers, d # c, call'[d].pc = "store", call'[c].pc = "store"
      PROVE  call'[c].obj # call'[d].obj
  BY <1>1, <1>2 DEF Moves
<1>3. QED
  BY <1>2 DEF Moves, CallsApart

LEMMA ReplyMoves ==
  ASSUME CallsOK, NEW c \in Callers, NEW args, NEW o, NEW answer, Reply(c, args, o, answer)
  PROVE  Moves(c) /\ call'[c].pc = "answered" /\ call'[c].answer = answer /\ call'[c].obj = o
BY DEF CallsOK, Reply, Moves

LEMMA RefuseMoves ==
  ASSUME CallsOK, NEW c \in Callers, NEW why, Refuse(c, why)
  PROVE  Moves(c) /\ call'[c].pc = "answered" /\ call'[c].answer = why
BY ReplyMoves DEF Refuse

LEMMA GoMoves ==
  ASSUME CallsOK, NEW c \in Callers, NEW pc, NEW args, NEW o,
         pc = "store" => o = built + 1, Go(c, pc, args, o)
  PROVE  Moves(c) /\ call'[c].pc = pc /\ call'[c].answer = "none" /\ call'[c].obj = o
BY DEF CallsOK, Go, Moves

\* The caller is told no verdict by its step, and its step stores no object.
MovesQuietly(c) ==
  Moves(c) /\ call'[c].answer # "verdict" /\ call'[c].pc # "store"

LEMMA RefuseQuietly ==
  ASSUME CallsOK, NEW c \in Callers, NEW why, why # "verdict", Refuse(c, why)
  PROVE  MovesQuietly(c)
BY RefuseMoves DEF MovesQuietly

LEMMA ReplyQuietly ==
  ASSUME CallsOK, NEW c \in Callers, NEW args, NEW o, NEW answer, answer # "verdict",
         Reply(c, args, o, answer)
  PROVE  MovesQuietly(c)
BY ReplyMoves DEF MovesQuietly

LEMMA GoQuietly ==
  ASSUME CallsOK, NEW c \in Callers, NEW pc, NEW args, NEW o, pc # "store",
         Go(c, pc, args, o)
  PROVE  MovesQuietly(c)
BY GoMoves DEF MovesQuietly

LEMMA RejoinQuietly ==
  ASSUME CallsOK, NEW c \in Callers, NEW args, NEW o, Rejoin(c, args, o)
  PROVE  MovesQuietly(c)
BY ReplyQuietly, RefuseQuietly DEF Rejoin

-----------------------------------------------------------------------------
(* The mapped state.                                                       *)

Entries == {x \in 1..built : review[x].final # Undecided}
Decisions == [o \in Entries |-> review[o].final]
Told == [c \in Callers |-> ToldTo(c)]

\* Nothing is decided.
LedgerKept == Decisions' = Decisions /\ Entries' = Entries

LEMMA DecisionsDomain == DOMAIN Decisions = Entries
BY DEF Decisions

LEMMA LedgerFrame ==
  ASSUME UNCHANGED review
  PROVE  LedgerKept
BY DEF LedgerKept, Decisions, Entries, built

\* What the others were told stands.
LEMMA ToldStands ==
  ASSUME CallsOK, HeapStep, AllTruthful, NEW d \in Callers, call'[d] = call[d]
  PROVE  ToldTo(d)' = ToldTo(d)
<1> DEFINE o == call[d].obj
<1>1. CASE call[d].answer = "verdict"
  <2>1. o \in 1..built /\ review[o].final # Undecided
    BY <1>1 DEF CallsOK, CallOK, AllTruthful, Truthful, NoObject, HeapStep
  <2>2. review'[o].final = review[o].final
    BY <2>1 DEF HeapStep, MayDecide
  <2>3. QED
    BY <2>2 DEF ToldTo
<1>2. CASE call[d].answer # "verdict"
  BY <1>2 DEF ToldTo
<1>3. QED
  BY <1>1, <1>2

LEMMA ToldFrame ==
  ASSUME CallsOK, HeapStep, AllTruthful, UNCHANGED call
  PROVE  Told' = Told
BY ToldStands DEF Told

\* A call that held no verdict and is told none leaves what was told unchanged.
LEMMA ToldQuietly ==
  ASSUME CallsOK, HeapStep, AllTruthful, NEW c \in Callers, Moves(c),
         call[c].answer # "verdict", call'[c].answer # "verdict"
  PROVE  Told' = Told
<1>1. ToldTo(c)' = ToldTo(c)
  BY DEF ToldTo
<1>2. ASSUME NEW d \in Callers, d # c
      PROVE  ToldTo(d)' = ToldTo(d)
  BY <1>2, ToldStands DEF Moves
<1>3. QED
  BY <1>1, <1>2 DEF Told

LEMMA ToldChanged ==
  ASSUME CallsOK, HeapStep, AllTruthful, NEW c \in Callers, Moves(c)
  PROVE  Told' = [Told EXCEPT ![c] = ToldTo(c)']
<1>1. ASSUME NEW d \in Callers, d # c
      PROVE  ToldTo(d)' = ToldTo(d)
  BY <1>1, ToldStands DEF Moves
<1>2. QED
  BY <1>1 DEF Told

LEMMA SettledFrame ==
  ASSUME UNCHANGED call, built' = built
  PROVE  Settled' = Settled
BY DEF Settled

LEMMA SettledQuietly ==
  ASSUME NEW c \in Callers, Moves(c), call[c].pc # "store", call'[c].pc # "store",
         built' = built
  PROVE  Settled' = Settled
BY DEF Settled, Moves

LEMMA SettledBuilt ==
  ASSUME built \in Nat, NEW c \in Callers, Moves(c), call[c].pc # "store",
         call'[c].pc = "store", built' = built + 1
  PROVE  Settled' = Settled
<1>1. \A o \in 1..built : o \in 1..built' /\ o # built + 1
  OBVIOUS
<1>2. built + 1 \notin Settled'
  BY DEF Settled, Moves
<1>3. 1..built' = 1..built \cup {built + 1}
  OBVIOUS
<1>4. QED
  BY <1>1, <1>2, <1>3 DEF Settled, Moves

LEMMA SettledStored ==
  ASSUME CallsApart, NEW c \in Callers, Moves(c), call[c].pc = "store",
         call'[c].pc # "store", call[c].obj \in 1..built, built' = built
  PROVE  Settled' = Settled \cup {call[c].obj} /\ call[c].obj \in Settled' \ Settled
BY DEF Settled, Moves, CallsApart

-----------------------------------------------------------------------------
(* The steps of the ledger, in terms of the mapped state.                  *)

LEMMA MapLeave ==
  ASSUME live' \subseteq live, Settled' = Settled, LedgerKept, Told' = Told
  PROVE  Ledger!Leave
BY DEF Ledger!Leave, LedgerKept, Decisions, Entries, Told

LEMMA MapSettle ==
  ASSUME NEW o \in Settled' \ Settled, Settled' = Settled \cup {o},
         live' \subseteq live \cup {o}, LedgerKept, Told' = Told
  PROVE  Ledger!Settle
BY DEF Ledger!Settle, LedgerKept, Decisions, Entries, Told

LEMMA MapForget ==
  ASSUME NEW c \in Callers, Told' = [Told EXCEPT ![c] = NoArgs],
         live' = live, Settled' = Settled, LedgerKept
  PROVE  Ledger!Forget(c)
BY DEF Ledger!Forget, LedgerKept, Decisions, Entries, Told

LEMMA MapRepeat ==
  ASSUME NEW c \in Callers, NEW o \in Entries, Told[c] = NoArgs,
         Told' = [Told EXCEPT ![c] = [entry |-> o, verdict |-> Decisions[o]]],
         live' = live, Settled' = Settled, LedgerKept
  PROVE  Ledger!Repeat(c, o) /\ o \in DOMAIN Decisions
BY DEF Ledger!Repeat, Ledger!Answer, LedgerKept, Decisions, Entries, Told

LEMMA MapDecide ==
  ASSUME NEW c \in Callers, NEW o \in live, NEW v \in Meanings, o \notin Entries,
         Told[c] = NoArgs,
         Decisions' = [x \in Entries \cup {o} |-> IF x = o THEN v ELSE Decisions[x]],
         Told' = [Told EXCEPT ![c] = [entry |-> o, verdict |-> v]],
         live' \subseteq live, o \in live', Settled' = Settled
  PROVE  Ledger!Decide(c, o, v)
<1>1. DOMAIN Decisions = Entries
  BY DEF Decisions
<1>2. QED
  BY <1>1 DEF Ledger!Decide, Ledger!Answer, Decisions, Entries, Told

LEMMA MapNext ==
  ASSUME \/ Ledger!Leave
         \/ Ledger!Settle
         \/ \E c \in Callers : Ledger!Forget(c)
         \/ \E c \in Callers, o \in Entries : Ledger!Repeat(c, o)
         \/ \E c \in Callers, o \in live, v \in Meanings : Ledger!Decide(c, o, v)
  PROVE  Ledger!Next
<1>1. DOMAIN Decisions = Entries
  BY DEF Decisions
<1>2. QED
  BY <1>1 DEF Ledger!Next, Decisions, Entries

-----------------------------------------------------------------------------
(* Every step of the service is a step of the ledger.                      *)

LedgerInv == TypeOK /\ ClosedEmpty /\ AllTruthful /\ CallsApart

LEMMA LedgerInvSplit ==
  ASSUME LedgerInv
  PROVE  StoreTypeOK /\ CallsOK /\ AllTruthful /\ CallsApart /\ built \in Nat
BY TypeSplit, BuiltIsNat DEF LedgerInv

LEMMA FreshInside == Fresh(live) \subseteq live
BY DEF Fresh

\* A call that moves without a verdict, whatever it drops from the store.
LEMMA LeavesQuietly ==
  ASSUME LedgerInv, UNCHANGED review, NEW c \in Callers, MovesQuietly(c),
         call[c].pc \notin {"store", "answered"}, live' \subseteq live
  PROVE  Ledger!Leave
<1>0. CallsOK /\ AllTruthful /\ CallsApart /\ HeapStep /\ built' = built
  BY LedgerInvSplit, HeapUnchanged DEF built
<1>1. Told' = Told
  BY <1>0, ToldQuietly DEF CallsApart, MovesQuietly
<1>2. Settled' = Settled
  BY <1>0, SettledQuietly DEF MovesQuietly
<1>3. QED
  BY <1>1, <1>2, LedgerFrame, MapLeave

LEMMA LedgerBegin ==
  ASSUME LedgerInv, NEW c \in Callers, Begin(c)
  PROVE  Ledger!Next
<1>0. CallsOK
  BY LedgerInvSplit
<1>1. ASSUME NEW id \in ReviewIds, NEW req \in Requests, PrepareBegin(c, id, req)
      PROVE  Ledger!Leave
  <2>1. MovesQuietly(c)
    BY <1>0, <1>1, RefuseQuietly, RejoinQuietly, GoQuietly DEF PrepareBegin
  <2>2. live' \subseteq live
    BY <1>1, FreshInside DEF PrepareBegin, Rejoin, SetStore, storeVars
  <2>3. QED
    BY <1>1, <2>1, <2>2, LeavesQuietly DEF PrepareBegin
<1>2. ASSUME NEW id \in ReviewIds, NEW d \in Digests, NEW p \in Payloads,
             FinalizeBegin(c, id, d, p)
      PROVE  Ledger!Leave
  <2>1. MovesQuietly(c)
    BY <1>0, <1>2, RefuseQuietly, GoQuietly DEF FinalizeBegin
  <2>2. QED
    BY <1>2, <2>1, LeavesQuietly DEF FinalizeBegin, storeVars
<1>3. ASSUME NEW id \in ReviewIds, NEW d \in Digests, ReadReview(c, id, d)
      PROVE  Ledger!Leave
  <2>1. MovesQuietly(c)
    BY <1>0, <1>3, RefuseQuietly, ReplyQuietly DEF ReadReview, GetFails
  <2>2. live' \subseteq live
    BY <1>3, FreshInside DEF ReadReview, GetFails, Get, SetStore, storeVars
  <2>3. QED
    BY <1>3, <2>1, <2>2, LeavesQuietly DEF ReadReview
<1>4. QED
  BY <1>1, <1>2, <1>3, MapNext DEF Begin

\* A new object is not yet an entry of the ledger.
LEMMA LedgerBuild ==
  ASSUME LedgerInv, NEW c \in Callers, NEW outcome, Build(c, outcome), UNCHANGED storeVars,
         call[c].pc \in {"prepare", "hook"}
  PROVE  Ledger!Leave
<1> DEFINE args == call[c].args
           new  == [id |-> args.id, req |-> args.req, outcome |-> outcome,
                    bytes |-> PreparedBytes[outcome], final |-> Undecided]
<1>0. StoreTypeOK /\ CallsOK /\ AllTruthful /\ CallsApart /\ built \in Nat /\ HeapStep
  BY LedgerInvSplit, HeapBuild
<1>1. live' = live
  BY DEF storeVars
<1>2. CASE Refuse(c, "prepare_limit") /\ UNCHANGED review
  BY <1>0, <1>1, <1>2, RefuseQuietly, LeavesQuietly
<1>3. CASE review' = Append(review, new) /\ Go(c, "store", args, built + 1)
  <2>1. new.final = Undecided
    OBVIOUS
  <2>2. Moves(c) /\ call'[c].pc = "store" /\ call'[c].answer = "none"
    BY <1>0, <1>3, GoMoves
  <2> HIDE DEF new
  <2>3. /\ built' = built + 1
        /\ review'[built + 1] = new
        /\ \A o \in 1..built : review'[o] = review[o]
    BY <1>0, <1>3 DEF StoreTypeOK, built
  <2>4. Entries' = Entries
    BY <1>0, <2>1, <2>3 DEF Entries
  <2>5. \A o \in Entries : o \in 1..built
    BY DEF Entries
  <2>6. LedgerKept
    BY <2>3, <2>4, <2>5 DEF LedgerKept, Decisions
  <2>7. Settled' = Settled
    BY <1>0, <2>2, <2>3, SettledBuilt
  <2>8. Told' = Told
    BY <1>0, <2>2, ToldQuietly DEF CallsApart
  <2>9. QED
    BY <1>1, <2>6, <2>7, <2>8, MapLeave
<1>4. QED
  BY <1>2, <1>3 DEF Build

\* The second locked section of a prepare opens the entry, or drops it for good.
LEMMA LedgerPrepareStore ==
  ASSUME LedgerInv, NEW c \in Callers, PrepareStore(c)
  PROVE  Ledger!Settle
<1> DEFINE args == call[c].args
           o    == call[c].obj
           kept == {x \in Fresh(live) : review[x].id # args.id} \cup {o}
<1>0. /\ StoreTypeOK /\ CallsOK /\ AllTruthful /\ CallsApart /\ built \in Nat
      /\ HeapStep /\ UNCHANGED review /\ built' = built
  BY LedgerInvSplit, HeapUnchanged DEF PrepareStore, built
<1>1. o \in 1..built /\ call[c].answer = "none"
  <2>1. o \in 0..built /\ o # NoObject
    BY <1>0 DEF PrepareStore, CallsOK, CallOK
  <2>2. QED
    BY <1>0, <2>1 DEF PrepareStore, NoObject, CallsApart
<1>2. MovesQuietly(c)
  BY <1>0, RefuseQuietly, ReplyQuietly, RejoinQuietly DEF PrepareStore
<1>3. Told' = Told
  BY <1>0, <1>1, <1>2, ToldQuietly DEF MovesQuietly
<1>4. Settled' = Settled \cup {o} /\ o \in Settled' \ Settled
  BY <1>0, <1>1, <1>2, SettledStored DEF MovesQuietly, PrepareStore
<1>5. live' \subseteq live \cup {o}
  <2>1. CASE UNCHANGED storeVars
    BY <2>1 DEF storeVars
  <2>2. CASE \E raced \in Raced(args.id) : Rejoin(c, args, raced)
    BY <2>2, FreshInside DEF Rejoin, SetStore
  <2>3. CASE SetStore(Trimmed(review, MovedToEnd(o), kept, o), MovedToEnd(o))
    BY <2>3, TrimmedInside, FreshInside DEF SetStore
  <2>4. QED
    BY <2>1, <2>2, <2>3 DEF PrepareStore
<1>6. QED
  BY <1>0, <1>3, <1>4, <1>5, LedgerFrame, MapSettle

\* A finalize of a review that has its verdict.
LEMMA LedgerRepeated ==
  ASSUME LedgerInv, UNCHANGED <<review, storeVars>>, NEW c \in Callers,
         call[c].pc \in FinalizeSteps, NEW o \in 1..built, review[o].final # Undecided,
         Repeated(c, o)
  PROVE  Ledger!Next
<1> DEFINE args == call[c].args
<1>0. /\ CallsOK /\ AllTruthful /\ CallsApart /\ HeapStep /\ LedgerKept
      /\ built' = built /\ live' = live
  BY LedgerInvSplit, HeapUnchanged, LedgerFrame DEF built, storeVars
<1>1. call[c].pc \notin {"store", "answered"} /\ call[c].answer = "none"
  BY <1>0 DEF FinalizeSteps, CallsApart
<1>2. CASE Reply(c, args, o, "verdict")
  <2>1. /\ Moves(c) /\ call'[c].pc = "answered" /\ call'[c].answer = "verdict"
        /\ call'[c].obj = o
    BY <1>0, <1>2, ReplyMoves
  <2>2. Settled' = Settled
    BY <1>0, <1>1, <2>1, SettledQuietly
  <2>3. o \in Entries /\ Decisions[o] = review[o].final
    BY DEF Entries, Decisions
  <2>4. ToldTo(c)' = [entry |-> o, verdict |-> Decisions[o]]
    BY <2>1, <2>3 DEF ToldTo
  <2>5. Told' = [Told EXCEPT ![c] = [entry |-> o, verdict |-> Decisions[o]]]
    BY <1>0, <2>1, <2>4, ToldChanged
  <2>6. Told[c] = NoArgs
    BY <1>1 DEF Told, ToldTo
  <2>7. QED
    BY <1>0, <2>2, <2>3, <2>5, <2>6, MapRepeat, MapNext
<1>3. CASE Reply(c, args, o, "finalization_conflict")
  BY <1>0, <1>1, <1>3, ReplyQuietly, LeavesQuietly, MapNext
<1>4. QED
  BY <1>2, <1>3 DEF Repeated

\* The decision itself.
LEMMA LedgerDecides ==
  ASSUME LedgerInv, NEW c \in Callers, FinalizeCommit(c), review' # review
  PROVE  Ledger!Next
<1> DEFINE args == call[c].args
           o    == call[c].obj
           m    == Meaning[args.payload]
<1>0. /\ StoreTypeOK /\ CallsOK /\ AllTruthful /\ CallsApart /\ built \in Nat
      /\ HeapStep
  BY LedgerInvSplit, HeapCommit DEF LedgerInv
<1>1. o \in 1..built /\ m \in Meanings
  BY <1>0, FinalizeCallHolds DEF FinalizeCommit, FinalizeSteps, NoObject
<1>2. /\ review[o].final = Undecided
      /\ o \in live
      /\ review' = Decided(o, m)
      /\ SetStore(Trimmed(Decided(o, m), recency, live, o), recency)
      /\ Reply(c, args, o, "verdict")
  BY DEF FinalizeCommit, HasVerdict, StillStored
<1>3. /\ Moves(c) /\ call'[c].pc = "answered" /\ call'[c].answer = "verdict"
      /\ call'[c].obj = o
  BY <1>0, <1>2, ReplyMoves
<1>4. call[c].pc # "store" /\ call[c].answer = "none"
  BY <1>0 DEF FinalizeCommit, CallsApart
<1>5. built' = built
  BY <1>0, <1>1, <1>2, DecidedTyped DEF built
<1>6. review'[o].final = m /\ \A x \in 1..built \ {o} : review'[x] = review[x]
  <2>1. review \in [1..built -> Review]
    BY <1>0 DEF StoreTypeOK, built
  <2>2. review[o] \in Review
    BY <1>1, <2>1
  <2>3. QED
    BY <1>1, <1>2, <2>1, <2>2 DEF Decided, Review
<1>7. o \notin Entries /\ Entries' = Entries \cup {o}
  <2>1. m # Undecided
    BY <1>1 DEF Meanings, Undecided
  <2>2. QED
    BY <1>1, <1>2, <1>5, <1>6, <2>1 DEF Entries
<1>8. Decisions' = [x \in Entries \cup {o} |-> IF x = o THEN m ELSE Decisions[x]]
  <2>1. \A x \in Entries : x \in 1..built \ {o} /\ Decisions[x] = review[x].final
    BY <1>7 DEF Entries, Decisions
  <2>2. QED
    BY <1>6, <1>7, <2>1 DEF Decisions
<1>9. Told[c] = NoArgs
  BY <1>4 DEF Told, ToldTo
<1>10. Told' = [Told EXCEPT ![c] = [entry |-> o, verdict |-> m]]
  <2>1. ToldTo(c)' = [entry |-> o, verdict |-> m]
    BY <1>3, <1>6 DEF ToldTo
  <2>2. QED
    BY <1>0, <1>3, <2>1, ToldChanged
<1>11. live' \subseteq live /\ o \in live'
  BY <1>2, TrimmedInside DEF SetStore
<1>12. Settled' = Settled
  BY <1>3, <1>4, <1>5, SettledQuietly
<1>13. QED
  BY <1>1, <1>2, <1>7, <1>8, <1>9, <1>10, <1>11, <1>12, MapDecide, MapNext

LEMMA LedgerFinalize ==
  ASSUME LedgerInv, NEW c \in Callers,
         FinalizeLookup(c) \/ FinalizeValidate(c) \/ FinalizeCommit(c)
  PROVE  Ledger!Next
<1> DEFINE args == call[c].args
           o    == call[c].obj
<1>0. CallsOK /\ built \in Nat
  BY LedgerInvSplit
<1>1. CASE FinalizeLookup(c)
  <2>1. MovesQuietly(c)
    BY <1>0, <1>1, RefuseQuietly, GoQuietly DEF FinalizeLookup, GetFails
  <2>2. live' \subseteq live
    BY <1>1, FreshInside DEF FinalizeLookup, GetFails, Get, SetStore
  <2>3. QED
    BY <1>1, <2>1, <2>2, LeavesQuietly, MapNext DEF FinalizeLookup
<1>2. CASE FinalizeValidate(c)
  <2>1. o \in 1..built
    BY <1>0, <1>2, FinalizeCallHolds DEF FinalizeValidate, FinalizeSteps, NoObject
  <2>2. CASE Refuse(c, "invalid_arguments") \/ Go(c, "commit", args, o)
    BY <1>0, <1>2, <2>2, RefuseQuietly, GoQuietly, LeavesQuietly, MapNext
    DEF FinalizeValidate, storeVars
  <2>3. CASE HasVerdict(o) /\ Repeated(c, o)
    BY <1>2, <2>1, <2>3, LedgerRepeated DEF FinalizeValidate, FinalizeSteps, HasVerdict
  <2>4. QED
    BY <1>2, <2>2, <2>3 DEF FinalizeValidate
<1>3. CASE FinalizeCommit(c)
  <2>1. o \in 1..built
    BY <1>0, <1>3, FinalizeCallHolds DEF FinalizeCommit, FinalizeSteps, NoObject
  <2>2. CASE HasVerdict(o) /\ Repeated(c, o) /\ UNCHANGED <<review, storeVars>>
    BY <1>3, <2>1, <2>2, LedgerRepeated DEF FinalizeCommit, FinalizeSteps, HasVerdict
  <2>3. CASE /\ Refuse(c, "review_not_found") \/ Refuse(c, "review_store_limit")
             /\ UNCHANGED <<review, storeVars>>
    BY <1>0, <1>3, <2>3, RefuseQuietly, LeavesQuietly, MapNext DEF FinalizeCommit, storeVars
  <2>4. CASE ~HasVerdict(o) /\ review' = Decided(o, Meaning[args.payload])
    <3>1. Meaning[args.payload] \in Meanings
      BY <1>0, <1>3, FinalizeCallHolds DEF FinalizeCommit, FinalizeSteps
    <3>2. review \in [1..built -> Review]
      BY LedgerInvSplit DEF StoreTypeOK, built
    <3>3. review[o] \in Review
      BY <2>1, <3>2
    <3>4. review'[o].final = Meaning[args.payload]
      BY <2>1, <2>4, <3>2, <3>3 DEF Decided, Review
    <3>5. review'[o].final # review[o].final
      BY <2>4, <3>1, <3>4 DEF HasVerdict, Meanings, Undecided
    <3>6. QED
      BY <1>3, <3>5, LedgerDecides
  <2>5. QED
    BY <1>3, <2>2, <2>3, <2>4 DEF FinalizeCommit
<1>4. QED
  BY <1>1, <1>2, <1>3

\* Time, shutdown, stray hooks and callers that take their answer.
LEMMA LedgerOthers ==
  ASSUME LedgerInv,
         \/ StrayHookExits \/ Expire \/ BeginClose \/ ClearStore \/ UNCHANGED vars
         \/ \E c \in Callers : Return(c)
  PROVE  Ledger!Next
<1>0. CallsOK /\ AllTruthful /\ built \in Nat /\ StoreTypeOK
  BY LedgerInvSplit
<1>1. CASE StrayHookExits \/ Expire \/ BeginClose \/ ClearStore \/ UNCHANGED vars
  <2>1. UNCHANGED <<review, call>> /\ live' \subseteq live
    BY <1>1 DEF StrayHookExits, Expire, BeginClose, ClearStore, vars, storeVars, SetStore
  <2>2. Told' = Told /\ Settled' = Settled /\ LedgerKept
    BY <1>0, <2>1, HeapUnchanged, ToldFrame, SettledFrame, LedgerFrame DEF built
  <2>3. QED
    BY <2>1, <2>2, MapLeave, MapNext
<1>2. ASSUME NEW c \in Callers, Return(c)
      PROVE  Ledger!Next
  <2>1. UNCHANGED review /\ live' = live /\ built' = built /\ HeapStep /\ LedgerKept
    BY <1>0, <1>2, HeapUnchanged, LedgerFrame DEF Return, storeVars, built
  <2>2. Moves(c) /\ call'[c].answer = "none" /\ call'[c].pc = "idle"
    BY <1>0, <1>2 DEF Return, CallsOK, Moves, Idle
  <2>3. Settled' = Settled
    BY <1>2, <2>1, <2>2, SettledQuietly DEF Return
  <2>4. ToldTo(c)' = NoArgs
    BY <2>2 DEF ToldTo
  <2>5. Told' = [Told EXCEPT ![c] = NoArgs]
    BY <1>0, <2>1, <2>2, <2>4, ToldChanged
  <2>6. QED
    BY <2>1, <2>3, <2>5, MapForget, MapNext
<1>3. QED
  BY <1>1, <1>2

LEMMA LedgerNext ==
  ASSUME LedgerInv, [Next]_vars
  PROVE  Ledger!Next
<1>1. ASSUME NEW c \in Callers, HookStart(c)
      PROVE  Ledger!Next
  <2>1. MovesQuietly(c)
    BY <1>1, LedgerInvSplit, GoQuietly DEF HookStart
  <2>2. QED
    BY <1>1, <2>1, LeavesQuietly, MapNext DEF HookStart, storeVars
<1>2. ASSUME NEW c \in Callers, HookBusy(c) \/ HookTimeout(c) \/ HookReturns(c)
      PROVE  Ledger!Next
  BY <1>2, LedgerBuild, MapNext DEF HookBusy, HookTimeout, HookReturns
<1>3. QED
  BY <1>1, <1>2, LedgerBegin, LedgerPrepareStore, LedgerFinalize, LedgerOthers, MapNext
  DEF Next, Proceed, Environment

-----------------------------------------------------------------------------

LEMMA BuildMoves ==
  ASSUME CallsOK, NEW c \in Callers, NEW outcome, Build(c, outcome)
  PROVE  Moves(c)
BY RefuseMoves, GoMoves DEF Build

LEMMA CallerMoves ==
  ASSUME CallsOK, NEW c \in Callers, Begin(c) \/ Proceed(c) \/ Return(c) \/ HookReturns(c)
  PROVE  Moves(c)
<1>1. CASE Begin(c)
  BY <1>1, RefuseMoves, ReplyMoves, RejoinQuietly, GoQuietly
  DEF Begin, PrepareBegin, FinalizeBegin, ReadReview, GetFails, MovesQuietly
<1>2. CASE HookStart(c) \/ FinalizeLookup(c)
  BY <1>2, RefuseMoves, GoQuietly DEF HookStart, FinalizeLookup, GetFails, MovesQuietly
<1>3. CASE HookBusy(c) \/ HookTimeout(c) \/ HookReturns(c)
  BY <1>3, BuildMoves DEF HookBusy, HookTimeout, HookReturns
<1>4. CASE PrepareStore(c)
  BY <1>4, RefuseMoves, ReplyMoves, RejoinQuietly DEF PrepareStore, MovesQuietly
<1>5. CASE FinalizeValidate(c) \/ FinalizeCommit(c)
  BY <1>5, RefuseMoves, ReplyMoves, GoQuietly
  DEF FinalizeValidate, FinalizeCommit, Repeated, MovesQuietly
<1>6. CASE Return(c)
  BY <1>6 DEF CallsOK, Return, Moves, Idle
<1>7. QED
  BY <1>1, <1>2, <1>3, <1>4, <1>5, <1>6 DEF Proceed

LEMMA LedgerInvNext == LedgerInv /\ [Next]_vars => LedgerInv'
<1> SUFFICES ASSUME LedgerInv, [Next]_vars PROVE LedgerInv'
  OBVIOUS
<1>1. TypeOK' /\ ClosedEmpty' /\ AllTruthful'
  BY NextTyped, ClosedEmptyNext, TruthNext DEF LedgerInv
<1>2. CallsOK /\ CallsApart /\ built \in Nat
  BY LedgerInvSplit
<1>3. ASSUME NEW c \in Callers, Begin(c) \/ Proceed(c) \/ Return(c) \/ HookReturns(c)
      PROVE  CallsApart'
  BY <1>2, <1>3, CallerMoves, MovesApart
<1>4. CASE UNCHANGED call
  BY <1>1, <1>2, <1>4 DEF CallsApart, LedgerInv
<1>5. QED
  BY <1>1, <1>3, <1>4
  DEF LedgerInv, Next, Environment, StrayHookExits, Expire, BeginClose, ClearStore, vars

LEMMA LedgerInvInit == Init => LedgerInv
<1> SUFFICES ASSUME Init PROVE LedgerInv
  OBVIOUS
<1>1. TypeOK /\ ClosedEmpty
  BY InitTyped DEF Init, ClosedEmpty
<1>2. AllTruthful
  BY DEF Init, AllTruthful, Truthful, Idle
<1>3. CallsApart
  BY DEF Init, CallsApart, Idle
<1>4. QED
  BY <1>1, <1>2, <1>3 DEF LedgerInv

LEMMA LedgerInit == Init => Ledger!Init
<1> SUFFICES ASSUME Init PROVE Ledger!Init
  OBVIOUS
<1>1. 1..built = {} /\ live = {}
  BY DEF Init, built
<1>2. Settled = {}
  BY <1>1 DEF Settled
<1>3. \A c \in Callers : ToldTo(c) = NoArgs
  BY DEF Init, ToldTo, Idle
<1>4. Entries = {}
  BY <1>1 DEF Entries
<1>5. Decisions = [o \in {} |-> NoArgs]
  BY <1>4 DEF Decisions
<1>6. QED
  BY <1>1, <1>2, <1>3, <1>5 DEF Ledger!Init, Decisions, Entries

\* The review service is an implementation of the ledger: whatever its store, its
\* hook and its locks do, a review opens once, is decided at most once and only
\* while it is stored, and every verdict handed out is the one that was bound.
THEOREM ServiceImplementsLedger == Spec => ImplementsLedger
<1>1. Init => LedgerInv /\ Ledger!Init
  BY LedgerInvInit, LedgerInit
<1>2. LedgerInv /\ [Next]_vars => LedgerInv'
  BY LedgerInvNext
<1>3. LedgerInv /\ [Next]_vars => [Ledger!Next]_(Ledger!vars)
  BY LedgerNext
<1>4. QED
  BY <1>1, <1>2, <1>3, PTL DEF Spec, ImplementsLedger, Ledger!Spec

-----------------------------------------------------------------------------
(* What fits in the store, and what trimming leaves of it.                 *)

Weights(rv, L) == [o \in L |-> rv[o].bytes]

LEMMA TotalIsSum ==
  ASSUME NEW rv, NEW L, IsFiniteSet(L)
  PROVE  TotalBytes(rv, L) = Sum(Weights(rv, L), L)
<1> DEFINE w == Weights(rv, L)
           T(g) == g = [s \in SUBSET L |-> IF s = {} THEN 0
                          ELSE rv[CHOOSE x \in s : TRUE].bytes + g[s \ {CHOOSE x \in s : TRUE}]]
<1>1. TotalBytes(rv, L) = (CHOOSE g : T(g))[L]
  BY DEF TotalBytes, MapThenSumSet, MapThenFoldSet
<1>2. ASSUME NEW g PROVE T(g) <=> SumsUp(g, w, L)
  <2>1. ASSUME NEW s \in SUBSET L, s # {} PROVE w[Chosen(s)] = rv[Chosen(s)].bytes
    BY <2>1, ChosenIn DEF Weights
  <2> HIDE DEF w
  <2>2. [s \in SUBSET L |-> IF s = {} THEN 0 ELSE rv[Chosen(s)].bytes + g[s \ {Chosen(s)}]]
        = [s \in SUBSET L |-> IF s = {} THEN 0 ELSE w[Chosen(s)] + g[s \ {Chosen(s)}]]
    BY <2>1
  <2>3. QED
    BY <2>2 DEF SumsUp, Chosen
<1>3. PICK h : SumsUp(h, w, L) /\ Sum(w, L) = h[L]
  BY SumIsSum
<1> HIDE DEF T, w
<1>4. T(CHOOSE g : T(g))
  BY <1>2, <1>3
<1>5. SumsUp(CHOOSE g : T(g), w, L)
  BY <1>2, <1>4
<1>6. \A s \in SUBSET L : (CHOOSE g : T(g))[s] = h[s]
  BY <1>3, <1>5, SumsAgree
<1>7. QED
  BY <1>1, <1>3, <1>6 DEF w

LEMMA FitsAgree ==
  ASSUME NEW rv, NEW sv, NEW L, IsFiniteSet(L), \A o \in L : rv[o].bytes = sv[o].bytes,
         Fits(rv, L)
  PROVE  Fits(sv, L)
<1>1. Weights(rv, L) = Weights(sv, L)
  BY DEF Weights
<1>2. TotalBytes(rv, L) = TotalBytes(sv, L)
  BY <1>1, TotalIsSum
<1>3. QED
  BY <1>2 DEF Fits

LEMMA FitsPart ==
  ASSUME NEW rv, NEW L, IsFiniteSet(L), \A o \in L : rv[o].bytes \in Nat, NEW T \in SUBSET L,
         Fits(rv, L)
  PROVE  Fits(rv, T)
<1> DEFINE v == Weights(rv, L)
           w == Weights(rv, T)
<1>1. IsFiniteSet(T) /\ Cardinality(T) <= Cardinality(L)
  BY FS_Subset
<1>2. Cardinality(T) \in Nat /\ Cardinality(L) \in Nat
  BY <1>1, FS_CardinalityType
<1>3. \A o \in L : v[o] \in Nat
  BY DEF Weights
<1>4. \A o \in T : v[o] = w[o] /\ v[o] \in Nat
  BY <1>3 DEF Weights
<1> HIDE DEF v, w
<1>5. Sum(v, T) <= Sum(v, L) /\ Sum(v, T) \in Nat /\ Sum(v, L) \in Nat
  BY <1>1, <1>3, <1>4, SumOfPart, SumType
<1>6. Sum(v, T) = Sum(w, T)
  BY <1>1, <1>4, SumAgrees
<1>7. TotalBytes(rv, T) = Sum(w, T) /\ TotalBytes(rv, L) = Sum(v, L)
  BY <1>1, TotalIsSum DEF v, w
<1>8. QED
  BY <1>1, <1>2, <1>5, <1>6, <1>7, ServiceAssumption DEF Fits

LEMMA FitsOne ==
  ASSUME NEW rv, NEW o, rv[o].bytes \in Nat, rv[o].bytes <= MaxReviewBytes
  PROVE  Fits(rv, {o})
<1> DEFINE w == Weights(rv, {o})
<1>1. IsFiniteSet({o}) /\ Cardinality({o}) = 1
  BY FS_Singleton
<1>2. w[o] = rv[o].bytes
  BY DEF Weights
<1> HIDE DEF w
<1>3. Sum(w, {o}) = rv[o].bytes
  BY <1>2, SumOfOne
<1>4. TotalBytes(rv, {o}) = rv[o].bytes
  BY <1>1, <1>3, TotalIsSum DEF w
<1>5. QED
  BY <1>1, <1>4, ServiceAssumption DEF Fits

\* Some member of a finite set is used last.
LEMMA LatestIn ==
  ASSUME NEW E, IsFiniteSet(E), E # {}, NEW u, \A x \in E : u[x] \in Nat
  PROVE  \E x \in E : \A y \in E : u[y] <= u[x]
<1> DEFINE From(x) == {y \in E : u[y] >= u[x]}
           C == {From(x) : x \in E}
<1>1. C # {} /\ \A s \in C : IsFiniteSet(s)
  <2>1. ASSUME NEW x \in E PROVE IsFiniteSet(From(x))
    BY FS_Subset
  <2> HIDE DEF From
  <2>2. QED
    BY <2>1
<1>2. PICK s \in C : \A t \in C : Cardinality(s) <= Cardinality(t)
  <2> HIDE DEF C
  <2>1. QED
    BY <1>1, SmallestIn
<1>3. PICK x \in E : s = From(x)
  BY <1>2
<1>4. ASSUME NEW y \in E, ~(u[y] <= u[x]) PROVE FALSE
  <2>1. From(y) \subseteq From(x) /\ x \in From(x) /\ x \notin From(y)
    BY <1>4
  <2>2. IsFiniteSet(From(x)) /\ IsFiniteSet(From(y))
    BY FS_Subset
  <2>3. From(y) \subseteq From(x) \ {x} /\ IsFiniteSet(From(x) \ {x})
        /\ Cardinality(From(x) \ {x}) < Cardinality(From(x))
    BY <2>1, <2>2, Smaller
  <2>4. Cardinality(From(y)) <= Cardinality(From(x) \ {x})
    BY <2>3, FS_Subset
  <2>5. Cardinality(From(x)) <= Cardinality(From(y))
    BY <1>2, <1>3
  <2>6. /\ Cardinality(From(x)) \in Nat /\ Cardinality(From(y)) \in Nat
        /\ Cardinality(From(x) \ {x}) \in Nat
    BY <2>2, <2>3, FS_CardinalityType
  <2> HIDE DEF From
  <2>7. QED
    BY <2>3, <2>4, <2>5, <2>6
<1>5. QED
  BY <1>4

\* Positions apart from each other, from 1 on.
Ranked(u, L) ==
  \A x \in L : u[x] \in Nat \ {0} /\ \A y \in L : u[x] = u[y] => x = y

Kept(u, L, p, age) == {o \in L : o = p \/ u[o] > age}
Ages(rv, u, L, p) == {age \in {0} \cup {u[o] : o \in L} : Fits(rv, Kept(u, L, p, age))}

\* Trimming ends, at the first age at which what is kept fits.
LEMMA TrimmedAt ==
  ASSUME NEW rv, NEW u, NEW L, NEW p \in L, IsFiniteSet(L), \A x \in L : u[x] \in Nat,
         Fits(rv, {p})
  PROVE  \E m \in Ages(rv, u, L, p) :
           /\ \A n \in Ages(rv, u, L, p) : m <= n
           /\ Trimmed(rv, u, L, p) = Kept(u, L, p, m)
<1> DEFINE A == Ages(rv, u, L, p)
<1>1. PICK z \in L : \A y \in L : u[y] <= u[z]
  BY LatestIn
<1>2. Kept(u, L, p, u[z]) = {p}
  BY <1>1 DEF Kept
<1>3. A \in SUBSET Nat /\ u[z] \in A
  BY <1>2 DEF Ages
<1>4. \E m \in A : \A n \in A : m <= n
  <2> HIDE DEF A
  <2>1. QED
    BY <1>3, LeastIn
<1>5. Min(A) \in A /\ \A n \in A : Min(A) <= n
  BY <1>4 DEF Min
<1>6. Trimmed(rv, u, L, p) = Kept(u, L, p, Min(A))
  BY DEF Trimmed, Kept, Ages
<1>7. QED
  BY <1>5, <1>6

LEMMA TrimmedFits ==
  ASSUME NEW rv, NEW u, NEW L, NEW p \in L, IsFiniteSet(L), \A x \in L : u[x] \in Nat,
         Fits(rv, {p})
  PROVE  Fits(rv, Trimmed(rv, u, L, p))
BY TrimmedAt DEF Ages

\* What was trimmed last would not have fitted.
LEMMA TrimmedForCause ==
  ASSUME NEW rv, NEW u, NEW L, NEW p \in L, IsFiniteSet(L), Ranked(u, L), Fits(rv, {p}),
         L \ Trimmed(rv, u, L, p) # {}
  PROVE  \E o \in L \ Trimmed(rv, u, L, p) :
           /\ \A x \in L \ Trimmed(rv, u, L, p) : u[x] <= u[o]
           /\ ~Fits(rv, Trimmed(rv, u, L, p) \cup {o})
<1>0. \A x \in L : u[x] \in Nat /\ u[x] > 0
  BY DEF Ranked
<1>1. PICK m \in Ages(rv, u, L, p) :
        /\ \A n \in Ages(rv, u, L, p) : m <= n
        /\ Trimmed(rv, u, L, p) = Kept(u, L, p, m)
  BY <1>0, TrimmedAt
<1> DEFINE E == L \ Trimmed(rv, u, L, p)
<1>2. m \in Nat
  BY <1>0 DEF Ages
<1>3. \A x \in L : x \in E <=> x # p /\ u[x] <= m
  BY <1>0, <1>1, <1>2 DEF Kept
<1>4. PICK z \in E : \A y \in E : u[y] <= u[z]
  <2>1. IsFiniteSet(E) /\ E # {} /\ \A x \in E : u[x] \in Nat
    BY <1>0, FS_Subset
  <2> HIDE DEF E
  <2>2. QED
    BY <2>1, LatestIn
<1>5. z \in L /\ z # p /\ u[z] <= m /\ u[z] \in Nat /\ u[z] > 0
  BY <1>0, <1>3, <1>4
\* The latest position below that of z, or 0.
<1>6. PICK b \in {0} \cup {u[o] : o \in L} : b < u[z] /\ \A y \in L : u[y] < u[z] => u[y] <= b
  <2> DEFINE B == {y \in L : u[y] < u[z]}
  <2>1. CASE B = {}
    BY <1>0, <1>5, <2>1
  <2>2. CASE B # {}
    <3>1. IsFiniteSet(B) /\ \A x \in B : u[x] \in Nat
      BY <1>0, FS_Subset
    <3>2. PICK x \in B : \A y \in B : u[y] <= u[x]
      <4> HIDE DEF B
      <4>1. QED
        BY <2>2, <3>1, LatestIn
    <3>3. QED
      BY <3>2
  <2>3. QED
    BY <2>1, <2>2
<1>7. b \in Nat
  BY <1>0, <1>6
<1>8. Kept(u, L, p, b) = Trimmed(rv, u, L, p) \cup {z}
  <2>1. ASSUME NEW x \in L PROVE x \in Kept(u, L, p, b) <=> x \in Trimmed(rv, u, L, p) \/ x = z
    <3>1. u[x] \in Nat /\ u[x] > b <=> ~(u[x] < u[z])
      BY <1>0, <1>5, <1>6, <1>7
    <3>2. u[x] = u[z] => x = z
      BY <1>5 DEF Ranked
    <3>3. u[x] > m => ~(u[x] < u[z])
      BY <1>0, <1>2, <1>5
    <3>4. u[x] > u[z] /\ x # p => u[x] > m
      BY <1>0, <1>2, <1>3, <1>4, <1>5
    <3>5. ~(u[x] < u[z]) <=> u[x] = u[z] \/ u[x] > u[z]
      BY <1>0, <1>5
    <3>6. x \in Trimmed(rv, u, L, p) <=> x = p \/ u[x] > m
      BY <1>1 DEF Kept
    <3>7. x \in Kept(u, L, p, b) <=> x = p \/ u[x] > b
      BY DEF Kept
    <3>8. u[x] \in Nat
      BY <1>0
    <3>9. x = z => ~(u[x] < u[z])
      BY <1>5
    <3>10. QED
      BY <3>1, <3>2, <3>3, <3>4, <3>5, <3>6, <3>7, <3>8, <3>9
  <2>2. Kept(u, L, p, b) \subseteq L /\ Trimmed(rv, u, L, p) \subseteq L /\ z \in L
    BY <1>5, TrimmedInside DEF Kept
  <2>3. QED
    BY <2>1, <2>2
<1>9. ~Fits(rv, Trimmed(rv, u, L, p) \cup {z})
  <2>1. b \notin Ages(rv, u, L, p)
    BY <1>1, <1>2, <1>5, <1>6, <1>7
  <2>2. QED
    BY <1>6, <1>8, <2>1 DEF Ages
<1>10. QED
  BY <1>4, <1>9

-----------------------------------------------------------------------------
(* The store stays within its bounds, and reviews leave it only for cause.  *)

SizesOK == \A o \in 1..built : review[o].bytes \in Nat /\ review[o].bytes <= MaxReviewBytes

RecencyOK == Ranked(recency, live) /\ \A o \in live : recency[o] <= Cardinality(live)

StoreInv == TypeOK /\ SizesOK /\ RecencyOK /\ StoreBounded

LEMMA StoreInvSplit ==
  ASSUME StoreInv
  PROVE  /\ StoreTypeOK /\ CallsOK /\ built \in Nat
         /\ live \subseteq 1..built /\ Fresh(live) \subseteq live
         /\ \A L \in SUBSET (1..built) : IsFiniteSet(L) /\ Cardinality(L) \in Nat
<1>1. StoreTypeOK /\ CallsOK
  BY TypeSplit DEF StoreInv
<1>2. built \in Nat /\ Fresh(live) \subseteq live /\ live \subseteq 1..built
  BY <1>1, BuiltIsNat DEF StoreTypeOK
<1>3. IsFiniteSet(1..built)
  BY <1>2, FS_Interval
<1>4. QED
  BY <1>1, <1>2, <1>3, FS_Subset, FS_CardinalityType

\* Numbering a store anew keeps its order.
LEMMA ReindexedRanks ==
  ASSUME NEW L, IsFiniteSet(L), NEW u, Ranked(u, L)
  PROVE  /\ Ranked(Reindexed(u, L), L)
         /\ \A o \in L : Reindexed(u, L)[o] <= Cardinality(L)
<1> DEFINE Upto(o) == {w \in L : u[w] <= u[o]}
<1>1. ASSUME NEW o \in L
      PROVE  /\ Reindexed(u, L)[o] = Cardinality(Upto(o)) /\ IsFiniteSet(Upto(o))
             /\ Cardinality(Upto(o)) \in Nat /\ Cardinality(Upto(o)) # 0
             /\ Cardinality(Upto(o)) <= Cardinality(L)
  <2>1. IsFiniteSet(Upto(o)) /\ Cardinality(Upto(o)) <= Cardinality(L)
    BY FS_Subset
  <2>2. o \in Upto(o)
    BY DEF Ranked
  <2>3. Cardinality(Upto(o)) \in Nat /\ Cardinality(Upto(o)) # 0
    BY <2>1, <2>2, FS_CardinalityType, FS_EmptySet
  <2>4. QED
    BY <2>1, <2>3 DEF Reindexed
<1>2. ASSUME NEW x \in L, NEW y \in L, u[x] < u[y]
      PROVE  Cardinality(Upto(x)) # Cardinality(Upto(y))
  <2>1. u[x] \in Nat /\ u[y] \in Nat /\ \A w \in L : u[w] \in Nat
    BY DEF Ranked
  <2>2. Upto(x) \subseteq Upto(y) /\ y \in Upto(y) /\ y \notin Upto(x)
    BY <1>2, <2>1
  <2>3. IsFiniteSet(Upto(x)) /\ IsFiniteSet(Upto(y))
    BY <1>1
  <2> HIDE DEF Upto
  <2>4. QED
    BY <2>2, <2>3, FS_Subset
<1>3. ASSUME NEW x \in L, NEW y \in L, x # y
      PROVE  Cardinality(Upto(x)) # Cardinality(Upto(y))
  <2>1. u[x] \in Nat /\ u[y] \in Nat /\ u[x] # u[y]
    BY <1>3 DEF Ranked
  <2>2. u[x] < u[y] \/ u[y] < u[x]
    BY <2>1
  <2> HIDE DEF Upto
  <2>3. QED
    BY <1>2, <2>2
<1> HIDE DEF Upto
<1>4. QED
  BY <1>1, <1>3 DEF Ranked

LEMMA RankedPart ==
  ASSUME NEW u, NEW L, Ranked(u, L), NEW T \in SUBSET L
  PROVE  Ranked(u, T)
BY DEF Ranked

LEMMA SetStoreRanks ==
  ASSUME NEW L, IsFiniteSet(L), NEW u, Ranked(u, L), SetStore(L, u)
  PROVE  RecencyOK'
<1>1. live' = L /\ recency' = Reindexed(u, L)
  BY DEF SetStore
<1>2. Ranked(recency', live') /\ \A o \in live' : recency'[o] <= Cardinality(live')
  BY <1>1, ReindexedRanks
<1>3. QED
  BY <1>2 DEF RecencyOK, Ranked

\* A review that is used goes to the end.
LEMMA MovedRanks ==
  ASSUME StoreInv, NEW o \in 1..built
  PROVE  /\ Ranked(MovedToEnd(o), live \cup {o})
         /\ \A x \in live : x # o => MovedToEnd(o)[x] = recency[x]
<1>1. Cardinality(live) \in Nat /\ Ranked(recency, live)
      /\ \A x \in live : recency[x] <= Cardinality(live)
  BY StoreInvSplit DEF StoreInv, RecencyOK
<1>2. ASSUME NEW x \in live \cup {o}
      PROVE  MovedToEnd(o)[x] = IF x = o THEN Cardinality(live) + 1 ELSE recency[x]
  BY DEF MovedToEnd
<1>3. QED
  BY <1>1, <1>2 DEF Ranked

\* What a step may do to the store.
Purges == review' = review /\ \E u : Ranked(u, Fresh(live)) /\ SetStore(Fresh(live), u)

Clears == review' = review /\ phase' = "closed" /\ SetStore({}, recency)

Builds ==
  /\ UNCHANGED storeVars
  /\ \/ review' = review
     \/ \E e \in Review : e.bytes <= MaxReviewBytes /\ review' = Append(review, e)

Stores(o) ==
  /\ review' = review
  /\ SetStore(Trimmed(review, MovedToEnd(o), Fresh(live) \cup {o}, o), MovedToEnd(o))

Decides(o, m) ==
  /\ o \in live
  /\ review[o].bytes + FinalBytes <= MaxReviewBytes
  /\ review' = Decided(o, m)
  /\ SetStore(Trimmed(Decided(o, m), recency, live, o), recency)

LEMMA PurgedByGet ==
  ASSUME StoreInv, NEW o \in Fresh(live), SetStore(Fresh(live), MovedToEnd(o)), review' = review
  PROVE  Purges
<1>1. o \in 1..built /\ Fresh(live) \in SUBSET (live \cup {o})
  BY StoreInvSplit
<1>2. QED
  BY <1>1, MovedRanks, RankedPart DEF Purges

LEMMA PurgedOnly ==
  ASSUME StoreInv, SetStore(Fresh(live), recency), review' = review
  PROVE  Purges
BY StoreInvSplit, RankedPart DEF Purges, StoreInv, RecencyOK

LEMMA RejoinPurges ==
  ASSUME StoreInv, NEW c, NEW args, NEW id, NEW o \in Holders(id), Rejoin(c, args, o),
         review' = review
  PROVE  Purges
<1>1. o \in Fresh(live)
  BY DEF Holders
<1>2. QED
  BY <1>1, PurgedByGet, PurgedOnly DEF Rejoin

LEMMA GetPurges ==
  ASSUME StoreInv, NEW c, NEW args, review' = review,
         GetFails(c, args) \/ \E o \in Found(args) : Get(o)
  PROVE  Purges
<1>1. ASSUME NEW o \in Found(args), Get(o) PROVE Purges
  <2>1. o \in Fresh(live)
    BY DEF Found, Holders
  <2>2. QED
    BY <1>1, <2>1, PurgedByGet DEF Get
<1>2. QED
  BY <1>1, PurgedOnly DEF GetFails

LEMMA BuildBuilds ==
  ASSUME StoreInv, NEW c \in Callers, call[c].pc \in PrepareSteps, NEW outcome \in Outcomes,
         Build(c, outcome), UNCHANGED storeVars
  PROVE  Builds
<1> DEFINE e == [id |-> call[c].args.id, req |-> call[c].args.req, outcome |-> outcome,
                 bytes |-> PreparedBytes[outcome], final |-> Undecided]
<1>1. call[c].args.id \in ReviewIds /\ call[c].args.req \in Requests
  BY StoreInvSplit, PrepareCallHolds
<1>2. PreparedBytes[outcome] \in Nat /\ MaxReviewBytes \in Nat
  BY ServiceAssumption
<1>3. e \in Review /\ e.bytes = PreparedBytes[outcome]
  BY <1>1, <1>2 DEF Review
<1>4. CASE review' = review
  BY <1>4 DEF Builds
<1>5. CASE ~(PreparedBytes[outcome] > MaxReviewBytes) /\ review' = Append(review, e)
  <2>1. e.bytes <= MaxReviewBytes
    BY <1>2, <1>3, <1>5
  <2> HIDE DEF e
  <2>2. QED
    BY <1>3, <1>5, <2>1 DEF Builds
<1>6. QED
  BY <1>4, <1>5 DEF Build

LEMMA HookBuilds ==
  ASSUME StoreInv, NEW c \in Callers, HookBusy(c) \/ HookTimeout(c) \/ HookReturns(c)
  PROVE  Builds
<1>1. call[c].pc \in PrepareSteps /\ UNCHANGED storeVars
  BY DEF HookBusy, HookTimeout, HookReturns, PrepareSteps
<1>2. call[c].args.req \in Requests
  BY <1>1, StoreInvSplit, PrepareCallHolds
<1>3. "degraded" \in Outcomes /\ Analysis[call[c].args.req] \in Outcomes
  BY <1>2, ServiceAssumption DEF Outcomes
<1>4. \E outcome \in Outcomes : Build(c, outcome)
  BY <1>3 DEF HookBusy, HookTimeout, HookReturns
<1>5. QED
  BY <1>1, <1>4, BuildBuilds

LEMMA StoreMovesPrepare ==
  ASSUME StoreInv, NEW c \in Callers, PrepareStore(c)
  PROVE  Builds \/ Purges \/ \E o \in 1..built : Stores(o)
<1> DEFINE args == call[c].args
           o    == call[c].obj
           kept == {x \in Fresh(live) : review[x].id # args.id} \cup {o}
<1>0. review' = review
  BY DEF PrepareStore
<1>1. o \in 1..built
  <2>1. call[c].pc = "store"
    BY DEF PrepareStore
  <2>2. o \in 0..built /\ o # NoObject
    BY <2>1, StoreInvSplit, PrepareCallHolds DEF PrepareSteps
  <2>3. QED
    BY <2>2, StoreInvSplit DEF NoObject
<1>2. CASE UNCHANGED storeVars
  BY <1>0, <1>2 DEF Builds
<1>3. CASE \E raced \in Holders(args.id) : Rejoin(c, args, raced)
  BY <1>0, <1>3, RejoinPurges
<1>4. CASE /\ Holders(args.id) = {}
           /\ SetStore(Trimmed(review, MovedToEnd(o), kept, o), MovedToEnd(o))
  <2>1. kept = Fresh(live) \cup {o}
    BY <1>4 DEF Holders
  <2>2. QED
    BY <1>0, <1>1, <1>4, <2>1 DEF Stores
<1>5. QED
  BY <1>2, <1>3, <1>4 DEF PrepareStore, Raced

LEMMA StoreMovesCommit ==
  ASSUME StoreInv, NEW c \in Callers, FinalizeCommit(c)
  PROVE  Builds \/ \E o \in 1..built, m \in Meanings : Decides(o, m)
<1> DEFINE o == call[c].obj
           m == Meaning[call[c].args.payload]
<1>1. o \in 1..built /\ m \in Meanings
  <2>1. call[c].pc = "commit"
    BY DEF FinalizeCommit
  <2>2. o \in 0..built /\ o # NoObject /\ m \in Meanings
    BY <2>1, StoreInvSplit, FinalizeCallHolds DEF FinalizeSteps
  <2>3. QED
    BY <2>2, StoreInvSplit DEF NoObject
<1>2. UNCHANGED <<review, storeVars>> \/ Decides(o, m)
  BY DEF FinalizeCommit, StillStored, Decides
<1>3. QED
  BY <1>1, <1>2 DEF Builds

StoreSteps ==
  \/ Builds \/ Purges \/ Clears
  \/ \E o \in 1..built : Stores(o)
  \/ \E o \in 1..built, m \in Meanings : Decides(o, m)

LEMMA StoreMovesBegin ==
  ASSUME StoreInv, NEW c \in Callers, Begin(c)
  PROVE  Builds \/ Purges
<1>1. review' = review
  BY DEF Begin, PrepareBegin, FinalizeBegin, ReadReview
<1>2. CASE UNCHANGED storeVars
  BY <1>1, <1>2 DEF Builds
<1>3. ASSUME NEW id \in ReviewIds, NEW req \in Requests, PrepareBegin(c, id, req)
      PROVE  Builds \/ Purges
  <2>1. CASE \E o \in Holders(id) : Rejoin(c, [tool |-> "prepare", id |-> id, req |-> req], o)
    BY <1>1, <2>1, RejoinPurges
  <2>2. CASE SetStore(Fresh(live), recency)
    BY <1>1, <2>2, PurgedOnly
  <2>3. QED
    BY <1>2, <1>3, <2>1, <2>2 DEF PrepareBegin
<1>4. ASSUME NEW id \in ReviewIds, NEW d \in Digests, ReadReview(c, id, d)
      PROVE  Builds \/ Purges
  BY <1>1, <1>2, <1>4, GetPurges DEF ReadReview
<1>5. QED
  BY <1>2, <1>3, <1>4 DEF Begin, FinalizeBegin

LEMMA StoreMoves ==
  ASSUME StoreInv, [Next]_vars
  PROVE  StoreSteps
<1>1. CASE UNCHANGED <<review, storeVars>>
  BY <1>1 DEF StoreSteps, Builds
<1>2. ASSUME NEW c \in Callers, Begin(c)
      PROVE  StoreSteps
  BY <1>2, StoreMovesBegin DEF StoreSteps
<1>3. ASSUME NEW c \in Callers, Proceed(c)
      PROVE  StoreSteps
  <2>1. CASE HookBusy(c) \/ HookTimeout(c)
    BY <2>1, HookBuilds DEF StoreSteps
  <2>2. CASE PrepareStore(c)
    BY <2>2, StoreMovesPrepare DEF StoreSteps
  <2>3. CASE FinalizeLookup(c)
    BY <2>3, GetPurges DEF FinalizeLookup, StoreSteps
  <2>4. CASE FinalizeCommit(c)
    BY <2>4, StoreMovesCommit DEF StoreSteps
  <2>5. CASE HookStart(c) \/ FinalizeValidate(c)
    BY <1>1, <2>5 DEF HookStart, FinalizeValidate
  <2>6. QED
    BY <1>3, <2>1, <2>2, <2>3, <2>4, <2>5 DEF Proceed
<1>4. CASE \E c \in Callers : HookReturns(c)
  BY <1>4, HookBuilds DEF StoreSteps
<1>5. CASE StrayHookExits \/ Expire \/ BeginClose \/ (\E c \in Callers : Return(c))
  BY <1>1, <1>5 DEF StrayHookExits, Expire, BeginClose, Return
<1>6. CASE ClearStore
  BY <1>6 DEF ClearStore, StoreSteps, Clears
<1>7. CASE UNCHANGED vars
  BY <1>1, <1>7 DEF vars, storeVars
<1>8. QED
  BY <1>2, <1>3, <1>4, <1>5, <1>6, <1>7 DEF Next, Environment

\* The store and the heap of reviews after each.
LEMMA StoredStep ==
  ASSUME StoreInv, NEW o \in 1..built, Stores(o)
  PROVE  /\ Fits(review, live') /\ RecencyOK'
         /\ LET evicted == Fresh(live) \ live' IN
            evicted # {} => \E z \in live \ live' : /\ \A x \in evicted : recency[x] <= recency[z]
                                                   /\ ~Fits(review', live' \cup {z})
<1> DEFINE u == MovedToEnd(o)
           L == Fresh(live) \cup {o}
           T == Trimmed(review, u, L, o)
<1>0. L \in SUBSET (live \cup {o}) /\ L \in SUBSET (1..built) /\ IsFiniteSet(L)
  BY StoreInvSplit
<1>1. Ranked(u, L) /\ \A x \in live : x # o => u[x] = recency[x]
  BY <1>0, MovedRanks, RankedPart
<1>2. Fits(review, {o})
  BY FitsOne DEF StoreInv, SizesOK
<1>3. T \in SUBSET L /\ o \in T /\ IsFiniteSet(T)
  BY <1>0, TrimmedInside, FS_Subset
<1>4. live' = T /\ SetStore(T, u) /\ review' = review
  BY DEF Stores, SetStore
<1>5. \A x \in L : u[x] \in Nat
  BY <1>1 DEF Ranked
<1>6. o \in L
  OBVIOUS
<1> HIDE DEF u, L
<1>7. Fits(review, T)
  BY <1>0, <1>2, <1>5, <1>6, TrimmedFits
<1>8. RecencyOK'
  <2> HIDE DEF T
  <2>1. QED
    BY <1>1, <1>3, <1>4, RankedPart, SetStoreRanks
<1>9. ASSUME Fresh(live) \ T # {}
      PROVE  \E z \in Fresh(live) \ T : /\ \A x \in Fresh(live) \ T : recency[x] <= recency[z]
                                       /\ ~Fits(review, T \cup {z})
  <2>1. L \ T = Fresh(live) \ T
    BY <1>3 DEF L
  <2>2. PICK z \in L \ T : (\A x \in L \ T : u[x] <= u[z]) /\ ~Fits(review, T \cup {z})
    BY <1>0, <1>1, <1>2, <1>9, <2>1, TrimmedForCause DEF L
  <2>3. \A x \in Fresh(live) \ T : u[x] = recency[x]
    BY <1>1, <1>3, StoreInvSplit
  <2>4. QED
    BY <2>1, <2>2, <2>3
<1> HIDE DEF T
<1>10. Fresh(live) \subseteq live
  BY StoreInvSplit
<1>11. QED
  BY <1>4, <1>7, <1>8, <1>9, <1>10

LEMMA DecidedStep ==
  ASSUME StoreInv, NEW o \in 1..built, NEW m \in Meanings, Decides(o, m)
  PROVE  /\ Fits(review', live') /\ RecencyOK' /\ SizesOK'
         /\ LET evicted == Fresh(live) \ live' IN
            evicted # {} => \E z \in live \ live' : /\ \A x \in evicted : recency[x] <= recency[z]
                                                   /\ ~Fits(review', live' \cup {z})
<1> DEFINE rv == Decided(o, m)
           T == Trimmed(rv, recency, live, o)
<1>0. /\ live \subseteq 1..built /\ IsFiniteSet(live)
      /\ Fresh(live) \subseteq live /\ built \in Nat
  BY StoreInvSplit
<1>1. Ranked(recency, live) /\ o \in live /\ \A x \in live : recency[x] \in Nat
  BY DEF StoreInv, RecencyOK, Ranked, Decides
<1>2. live' = T /\ SetStore(T, recency) /\ review' = rv
  BY DEF Decides, SetStore
<1>3. review \in Seq(Review) /\ review \in [1..built -> Review]
  BY StoreInvSplit DEF StoreTypeOK, built
<1>4. built' = built
  BY <1>2, <1>3 DEF Decided, built
<1>5. \A x \in 1..built : rv[x].bytes \in Nat /\ rv[x].bytes <= MaxReviewBytes
  <2>1. ASSUME NEW x \in 1..built, x # o PROVE rv[x] = review[x]
    BY <1>3, <2>1 DEF Decided
  <2>2. rv[o].bytes = review[o].bytes + FinalBytes
    <3>1. review[o] \in Review
      BY <1>3
    <3>2. QED
      BY <1>3, <3>1 DEF Decided, Review
  <2>3. review[o].bytes + FinalBytes \in Nat /\ review[o].bytes + FinalBytes <= MaxReviewBytes
    BY ServiceAssumption DEF Decides, StoreInv, SizesOK
  <2> HIDE DEF rv
  <2>4. QED
    BY <2>1, <2>2, <2>3 DEF StoreInv, SizesOK
<1>6. SizesOK'
  BY <1>2, <1>4, <1>5 DEF SizesOK
<1> HIDE DEF rv
<1>7. Fits(rv, {o})
  BY <1>5, FitsOne
<1>8. Fits(rv, T)
  BY <1>0, <1>1, <1>7, TrimmedFits
<1>9. T \in SUBSET live /\ IsFiniteSet(T)
  BY <1>0, TrimmedInside, FS_Subset
<1>10. ASSUME live \ T # {}
       PROVE  \E z \in live \ T : /\ \A x \in live \ T : recency[x] <= recency[z]
                                 /\ ~Fits(rv, T \cup {z})
  BY <1>0, <1>1, <1>7, <1>10, TrimmedForCause
<1> HIDE DEF T
<1>11. RecencyOK'
  BY <1>1, <1>2, <1>9, RankedPart, SetStoreRanks
<1>12. QED
  BY <1>0, <1>2, <1>6, <1>8, <1>10, <1>11

LEMMA BuiltStep ==
  ASSUME StoreInv, Builds
  PROVE  SizesOK' /\ RecencyOK' /\ StoreBounded'
<1>0. UNCHANGED <<live, recency>>
  BY DEF Builds, storeVars
<1>1. RecencyOK'
  BY <1>0 DEF StoreInv, RecencyOK, Ranked
<1>2. CASE review' = review
  BY <1>0, <1>1, <1>2 DEF StoreInv, SizesOK, StoreBounded, built
<1>3. ASSUME NEW e \in Review, e.bytes <= MaxReviewBytes, review' = Append(review, e)
      PROVE  SizesOK' /\ StoreBounded'
  <2>1. review \in Seq(Review) /\ built \in Nat /\ IsFiniteSet(live) /\ live \subseteq 1..built
    BY StoreInvSplit DEF StoreTypeOK
  <2>2. /\ built' = built + 1 /\ review'[built + 1] = e
        /\ \A o \in 1..built : review'[o] = review[o]
    BY <1>3, <2>1 DEF built
  <2>3. e.bytes \in Nat
    BY DEF Review
  <2>4. SizesOK'
    <3>1. ASSUME NEW o \in 1..(built + 1)
          PROVE  review'[o].bytes \in Nat /\ review'[o].bytes <= MaxReviewBytes
      <4>1. o = built + 1 \/ o \in 1..built
        BY <2>1
      <4>2. QED
        BY <1>3, <2>2, <2>3, <4>1 DEF StoreInv, SizesOK
    <3>2. QED
      BY <2>2, <3>1 DEF SizesOK
  <2>5. \A o \in live : review[o].bytes = review'[o].bytes
    BY <2>1, <2>2
  <2>6. Fits(review', live)
    BY <2>1, <2>5, FitsAgree DEF StoreInv, StoreBounded
  <2>7. QED
    BY <1>0, <2>4, <2>6 DEF StoreBounded
<1>4. QED
  BY <1>1, <1>2, <1>3 DEF Builds

LEMMA PurgedStep ==
  ASSUME StoreInv, Purges \/ Clears
  PROVE  SizesOK' /\ RecencyOK' /\ StoreBounded'
<1>0. review' = review /\ built' = built
  BY DEF Purges, Clears, built
<1>a. PICK L \in SUBSET live : \E u : Ranked(u, L) /\ SetStore(L, u)
  <2>1. CASE Purges
    BY <2>1, StoreInvSplit DEF Purges
  <2>2. CASE Clears
    BY <2>2 DEF Clears, Ranked
  <2>3. QED
    BY <2>1, <2>2
<1>1. PICK u : Ranked(u, L) /\ SetStore(L, u)
  BY <1>a
<1>2. IsFiniteSet(live) /\ IsFiniteSet(L) /\ \A o \in live : review[o].bytes \in Nat
  BY StoreInvSplit, FS_Subset DEF StoreInv, SizesOK
<1>3. RecencyOK'
  BY <1>1, <1>2, SetStoreRanks
<1>4. live' = L
  BY <1>1 DEF SetStore
<1>5. Fits(review, L)
  BY <1>2, FitsPart DEF StoreInv, StoreBounded
<1>6. QED
  BY <1>0, <1>3, <1>4, <1>5 DEF StoreInv, SizesOK, StoreBounded

LEMMA StoreInvNext == StoreInv /\ [Next]_vars => StoreInv'
<1> SUFFICES ASSUME StoreInv, [Next]_vars PROVE StoreInv'
  OBVIOUS
<1>1. TypeOK'
  BY NextTyped DEF StoreInv
<1>2. StoreSteps
  BY StoreMoves
<1>3. CASE Builds \/ Purges \/ Clears
  BY <1>1, <1>3, BuiltStep, PurgedStep DEF StoreInv
<1>4. ASSUME NEW o \in 1..built, Stores(o)
      PROVE  StoreInv'
  <2>1. review' = review /\ built' = built
    BY <1>4 DEF Stores, built
  <2>2. Fits(review, live') /\ RecencyOK'
    BY <1>4, StoredStep
  <2>3. QED
    BY <1>1, <2>1, <2>2 DEF StoreInv, SizesOK, StoreBounded
<1>5. ASSUME NEW o \in 1..built, NEW m \in Meanings, Decides(o, m)
      PROVE  StoreInv'
  BY <1>1, <1>5, DecidedStep DEF StoreInv, StoreBounded
<1>6. QED
  BY <1>2, <1>3, <1>4, <1>5 DEF StoreSteps

LEMMA StoreInvInit == Init => StoreInv
<1> SUFFICES ASSUME Init PROVE StoreInv
  OBVIOUS
<1>1. review = <<>> /\ live = {} /\ built = 0
  BY DEF Init, built
<1>2. IsFiniteSet({}) /\ Cardinality({}) = 0
  BY FS_EmptySet
<1>3. TotalBytes(review, {}) = 0
  BY <1>2, TotalIsSum, SumOfNone
<1>4. QED
  BY <1>1, <1>2, <1>3, InitTyped, ServiceAssumption
  DEF StoreInv, SizesOK, RecencyOK, Ranked, StoreBounded, Fits

\* The store is within its limits of count and bytes whenever its lock is free, for any
\* number of callers and whatever expires, grows by a verdict or is evicted.
THEOREM StoreIsBounded == Spec => []StoreBounded
<1>1. StoreInv => StoreBounded
  BY DEF StoreInv
<1>2. QED
  BY <1>1, StoreInvInit, StoreInvNext, PTL DEF Spec

\* A review that has not expired leaves only when the service closes, or when the store is
\* too full: of what left, the latest used would not have fitted.
THEOREM ReviewsLeaveForCause == Spec => LeavesOnlyForCause
<1> DEFINE Cause ==
      LET evicted == Fresh(live) \ live' IN
      evicted # {} => \/ phase' = "closed"
                      \/ \E o \in live \ live' :
                           /\ \A x \in evicted : recency[x] <= recency[o]
                           /\ ~Fits(review', live' \cup {o})
<1>1. StoreInv /\ [Next]_vars => [Cause]_vars
  <2> SUFFICES ASSUME StoreInv, [Next]_vars PROVE Cause
    OBVIOUS
  <2>1. CASE Builds
    BY <2>1 DEF Builds, storeVars, Fresh
  <2>2. CASE Purges
    BY <2>2 DEF Purges, SetStore
  <2>3. CASE Clears
    BY <2>3 DEF Clears
  <2>4. ASSUME NEW o \in 1..built, Stores(o)
        PROVE  Cause
    BY <2>4, StoredStep
  <2>5. ASSUME NEW o \in 1..built, NEW m \in Meanings, Decides(o, m)
        PROVE  Cause
    BY <2>5, DecidedStep
  <2>6. QED
    BY <2>1, <2>2, <2>3, <2>4, <2>5, StoreMoves DEF StoreSteps
<1>2. QED
  BY <1>1, StoreInvInit, StoreInvNext, PTL DEF Spec, LeavesOnlyForCause

-----------------------------------------------------------------------------
(* What a step of the server is for the service.                           *)

Reset(c) ==
  /\ call' = [call EXCEPT ![c] = Idle]
  /\ UNCHANGED <<review, storeVars, horizon, phase, hookVars>>

Touch ==
  /\ \/ UNCHANGED storeVars
     \/ SetStore(Fresh(live), recency)
     \/ \E o \in Fresh(live) : Get(o)
  /\ UNCHANGED <<review, horizon, phase, hookVars, call>>

OtherStep ==
  \/ UNCHANGED vars
  \/ Touch
  \/ \E c \in Callers, id \in ReviewIds, req \in Requests : PrepareBegin(c, id, req)
  \/ \E c \in Callers, id \in ReviewIds, d \in Digests : ReadReview(c, id, d)
  \/ \E c \in Callers : Proceed(c)
  \/ \E c \in Callers : Reset(c)
  \/ Environment
  \/ BeginClose
  \/ ClearStore

ServiceStep ==
  \/ OtherStep
  \/ \E c \in Callers, id \in ReviewIds, d \in Digests, p \in Payloads :
       FinalizeBegin(c, id, d, p)

LEMMA ResetTyped == ASSUME TypeOK, NEW c \in Callers, Reset(c) PROVE TypeOK'
<1> DEFINE k == [pc |-> "idle", args |-> NoArgs, obj |-> NoObject, answer |-> "none"]
<1>0. StoreTypeOK /\ CallsOK /\ built \in Nat /\ built' = built
  BY TypeSplit, BuiltIsNat DEF Reset, built
<1>1. CallOK(k)'
  BY <1>0 DEF CallOK, NoArgs, NoObject, Answers, PrepareSteps, FinalizeSteps
<1>2. call' = [call EXCEPT ![c] = k]
  BY DEF Reset, Idle
<1>3. CallsOK'
  <2>1. built' \in Nat /\ built <= built'
    BY <1>0
  <2>2. QED
    BY <1>0, <1>1, <1>2, <2>1, CallUpdate
<1>4. QED
  BY <1>0, <1>3, QuietStep DEF Reset, StoreTypeOK, storeVars

LEMMA TouchTyped == ASSUME TypeOK, Touch PROVE TypeOK'
<1>0. StoreTypeOK /\ CallsOK /\ built \in Nat /\ built' = built
  BY TypeSplit, BuiltIsNat DEF Touch, built
<1>1. CallsOK'
  BY <1>0, CallFrame DEF Touch
<1>2. live' \subseteq 1..built /\ recency' \in [live' -> Nat]
  <2>1. Fresh(live) \in SUBSET (1..built)
    BY <1>0, BuiltIsNat
  <2>2. CASE UNCHANGED storeVars
    BY <1>0, <2>2 DEF StoreTypeOK, storeVars
  <2>3. CASE SetStore(Fresh(live), recency)
    BY <1>0, <2>1, <2>3, QuietSetStore DEF Touch
  <2>4. CASE \E o \in Fresh(live) : Get(o)
    BY <1>0, <2>1, <2>4, QuietSetStore DEF Touch, Get
  <2>5. QED
    BY <2>2, <2>3, <2>4 DEF Touch
<1>3. QED
  BY <1>0, <1>1, <1>2, QuietStep DEF Touch

LEMMA StepTyped == ASSUME TypeOK, ServiceStep PROVE TypeOK'
<1>1. ASSUME NEW c \in Callers, Proceed(c) PROVE TypeOK'
  BY <1>1, HookStartTyped, HookBusyTyped, HookAnswerTyped, PrepareStoreTyped,
     FinalizeLookupTyped, FinalizeValidateTyped, FinalizeCommitTyped DEF Proceed
<1>2. CASE Environment
  BY <1>2, StrayHookExitsTyped, ExpireTyped, HookAnswerTyped DEF Environment
<1>3. CASE UNCHANGED vars
  BY <1>3, NextTyped
<1>4. QED
  BY <1>1, <1>2, <1>3, TouchTyped, PrepareBeginTyped, FinalizeBeginTyped, ReadReviewTyped,
     ResetTyped, CloseTyped DEF ServiceStep, OtherStep

LEMMA StepHeap == ASSUME TypeOK, ClosedEmpty, ServiceStep PROVE HeapStep
<1>0. StoreTypeOK
  BY TypeSplit
<1>1. CASE \E c \in Callers : Proceed(c)
  BY <1>1, HeapProceed
<1>2. CASE Environment
  BY <1>2, HeapEnvironment
<1>3. CASE UNCHANGED review
  BY <1>0, <1>3, HeapUnchanged
<1>4. QED
  BY <1>1, <1>2, <1>3
  DEF ServiceStep, OtherStep, Touch, PrepareBegin, FinalizeBegin, ReadReview, Reset, BeginClose,
      ClearStore, vars

LEMMA StepClosedEmpty ==
  ASSUME TypeOK, ClosedEmpty, ServiceStep
  PROVE  ClosedEmpty' /\ (phase = "closed" => phase' = "closed")
<1>1. CASE Touch
  <2>1. live' \subseteq live
    BY <1>1 DEF Touch, storeVars, SetStore, Get, Fresh
  <2>2. QED
    BY <1>1, <2>1, ClosedEmptyStore DEF Touch
<1>2. ASSUME NEW c \in Callers, NEW id \in ReviewIds, NEW req \in Requests,
             PrepareBegin(c, id, req)
      PROVE  ClosedEmpty' /\ UNCHANGED phase
  BY <1>2, ClosedEmptyStore DEF PrepareBegin, Stopped, storeVars
<1>3. ASSUME NEW c \in Callers, NEW id \in ReviewIds, NEW d \in Digests, NEW p \in Payloads,
             FinalizeBegin(c, id, d, p)
      PROVE  ClosedEmpty' /\ UNCHANGED phase
  BY <1>3, ClosedEmptyStore DEF FinalizeBegin, storeVars
<1>4. ASSUME NEW c \in Callers, NEW id \in ReviewIds, NEW d \in Digests, ReadReview(c, id, d)
      PROVE  ClosedEmpty' /\ UNCHANGED phase
  BY <1>4, ClosedEmptyStore, ClosedEmptyGet DEF ReadReview, storeVars
<1>5. ASSUME NEW c \in Callers, Proceed(c)
      PROVE  ClosedEmpty' /\ UNCHANGED phase
  BY <1>5, ClosedEmptyProceed
  DEF Proceed, HookStart, HookBusy, HookTimeout, PrepareStore, FinalizeLookup,
      FinalizeValidate, FinalizeCommit
<1>6. CASE Environment
  BY <1>6, ClosedEmptyEnvironment DEF Environment, StrayHookExits, Expire, HookReturns
<1>7. CASE BeginClose \/ ClearStore
  BY <1>7 DEF BeginClose, ClearStore, SetStore, ClosedEmpty
<1>8. CASE UNCHANGED vars \/ \E c \in Callers : Reset(c)
  BY <1>8, ClosedEmptyStore DEF vars, Reset, storeVars
<1>9. QED
  BY <1>1, <1>2, <1>3, <1>4, <1>5, <1>6, <1>7, <1>8 DEF ServiceStep, OtherStep

-----------------------------------------------------------------------------
(* What the server keeps has its type.                                     *)

AnyArgs == PrepareArgs \cup FinalizeArgs \cup ReadArgs

FrontRecord ==
  [stage : {"idle", "received", "queued", "running", "retired", "replied"},
   msg   : {NoArgs} \cup AnyArgs,
   reply : Answers \cup {"shutting_down", "finalize_retry_conflict", "server_busy",
                         "tool_timeout", "internal_error"}]

FrontTyped ==
  /\ front \in [Workers -> FrontRecord]
  /\ \A w \in Workers : front[w].stage # "idle" => front[w].msg # NoArgs

\* Arguments kept under a review_id are those of a finalize of that review.
Keeps(f) ==
  /\ f \in [ReviewIds -> {NoArgs} \cup FinalizeArgs]
  /\ \A id \in ReviewIds : f[id] # NoArgs => f[id].id = id

ServerTyped == TypeOK /\ FrontTyped /\ Keeps(pinned) /\ Keeps(pending)

LEMMA NoArgsIsNoRequest == NoArgs \notin AnyArgs
BY DEF NoArgs, AnyArgs, PrepareArgs, FinalizeArgs, ReadArgs

\* The arguments of a request are those of its tool.
LEMMA MessageTyped ==
  ASSUME NEW msg \in AnyArgs
  PROVE  /\ msg.id \in ReviewIds
         /\ msg.tool = "prepare" => msg \in PrepareArgs /\ msg.req \in Requests
         /\ msg.tool = "finalize" =>
              msg \in FinalizeArgs /\ msg.digest \in Digests /\ msg.payload \in Payloads
         /\ msg.tool = "read" => msg \in ReadArgs /\ msg.digest \in Digests
BY DEF AnyArgs, PrepareArgs, FinalizeArgs, ReadArgs

LEMMA RequestTyped ==
  ASSUME FrontTyped, NEW w \in Workers, front[w].stage # "idle"
  PROVE  front[w].msg \in AnyArgs
BY DEF FrontTyped, FrontRecord

\* The payload is the one pinned for the review_id.
SentAs(pin, id, payload) == pin[id] # NoArgs /\ pin[id].payload = payload

PastTheDoor(w) ==
  front[w].stage \in {"queued", "running", "retired"} /\ front[w].msg.tool = "finalize"

RequestsBound ==
  \A w \in Workers : PastTheDoor(w) => SentAs(pinned, front[w].msg.id, front[w].msg.payload)

PendingBound ==
  \A id \in ReviewIds : pending[id] # NoArgs => SentAs(pinned, id, pending[id].payload)

\* A finalize begins with the payload pinned for its review_id.
BeginsPinned ==
  \E c \in Callers, id \in ReviewIds, d \in Digests, p \in Payloads :
    /\ FinalizeBegin(c, id, d, p)
    /\ RequestsBound /\ PendingBound => SentAs(pinned, id, p)

\* Every step of the server is a step of the service as its proofs know it.
LEMMA ServeStep ==
  ASSUME ServerTyped, NEW w \in Workers, Serve(w)
  PROVE  OtherStep \/ BeginsPinned
<1> DEFINE msg == front[w].msg
<1>0. w \in Callers
  BY DEF Workers
<1>1. CASE Start(w)
  <2>1. msg \in AnyArgs
    BY <1>1, RequestTyped DEF Start, ServerTyped
  <2>2. CASE msg.tool = "prepare" /\ PrepareBegin(w, msg.id, msg.req)
    BY <1>0, <2>1, <2>2, MessageTyped DEF OtherStep
  <2>3. CASE msg.tool = "finalize" /\ FinalizeBegin(w, msg.id, msg.digest, msg.payload)
    <3>1. RequestsBound => SentAs(pinned, msg.id, msg.payload)
      BY <1>1, <2>3 DEF Start, RequestsBound, PastTheDoor
    <3>2. msg.id \in ReviewIds /\ msg.digest \in Digests /\ msg.payload \in Payloads
      BY <2>1, <2>3, MessageTyped
    <3>3. QED
      BY <1>0, <2>3, <3>1, <3>2 DEF BeginsPinned
  <2>4. QED
    BY <1>1, <2>2, <2>3 DEF Start
<1>2. CASE Read(w)
  <2>1. msg \in AnyArgs
    BY <1>2, RequestTyped DEF Read, ServerTyped
  <2>2. QED
    BY <1>0, <1>2, <2>1, MessageTyped DEF Read, OtherStep
<1>3. CASE Finish(w)
  BY <1>0, <1>3 DEF Finish, Reset, OtherStep
<1>4. CASE \/ Dispatch(w) \/ Admit(w) \/ Busy(w) \/ WorkerFinished(w)
           \/ Answer(w) \/ ReadTimeout(w) \/ ReaderNotStarted(w)
  BY <1>4
  DEF Dispatch, Admit, Busy, WorkerFinished, Answer, ReadTimeout, ReaderNotStarted, OtherStep
<1>5. QED
  BY <1>1, <1>2, <1>3, <1>4 DEF Serve

LEMMA RepairStep ==
  ASSUME ServerTyped, NEW h \in Hosts, Repair(h)
  PROVE  OtherStep \/ BeginsPinned
<1>0. h \in Callers
  BY GatewayAssumption
<1>1. ASSUME NEW id \in ReviewIds, NEW d \in Digests, RepairDigest(h, id, d)
      PROVE  OtherStep \/ BeginsPinned
  <2> DEFINE p == pending[id].payload
  <2>1. p \in Payloads
    BY <1>1 DEF RepairDigest, ServerTyped, Keeps, FinalizeArgs
  <2>2. PendingBound => SentAs(pinned, id, p)
    BY <1>1 DEF RepairDigest, PendingBound
  <2>3. UNCHANGED vars \/ FinalizeBegin(h, id, d, p)
    BY <1>1 DEF RepairDigest
  <2>4. QED
    BY <1>0, <2>1, <2>2, <2>3 DEF OtherStep, BeginsPinned
<1>2. ASSUME NEW id \in ReviewIds, RepairTransport(h, id)
      PROVE  BeginsPinned
  <2> DEFINE d == pinned[id].digest
             p == pinned[id].payload
  <2>1. d \in Digests /\ p \in Payloads
    BY <1>2 DEF RepairTransport, ServerTyped, Keeps, FinalizeArgs
  <2>2. SentAs(pinned, id, p) /\ FinalizeBegin(h, id, d, p)
    BY <1>2 DEF RepairTransport, SentAs
  <2>3. QED
    BY <1>0, <2>1, <2>2 DEF BeginsPinned
<1>3. QED
  BY <1>1, <1>2 DEF Repair

LEMMA GatewaySteps ==
  ASSUME ServerTyped, [GatewayNext]_allVars
  PROVE  OtherStep \/ BeginsPinned
<1>1. ASSUME NEW h \in Hosts, HostReturn(h)
      PROVE  OtherStep
  BY <1>1, GatewayAssumption DEF HostReturn, Return, Reset, OtherStep
<1>2. CASE \E c \in Callers : Work(c)
  BY <1>2 DEF Work, OtherStep
<1>3. CASE ReaderExits
  BY <1>3 DEF ReaderExits, Touch, OtherStep
<1>4. CASE Environment
  BY <1>4 DEF OtherStep
<1>5. CASE Shutdown
  BY <1>5 DEF Shutdown, BeginShutdown, StopAccepting, WaitForIdle, CloseService, OtherStep
<1>6. CASE \E w \in Workers, msg \in Messages : Receive(w, msg)
  BY <1>6 DEF Receive, OtherStep
<1>7. CASE UNCHANGED allVars
  BY <1>7 DEF allVars, OtherStep
<1>8. QED
  BY <1>1, <1>2, <1>3, <1>4, <1>5, <1>6, <1>7, ServeStep, RepairStep DEF GatewayNext

LEMMA GatewayServiceStep ==
  ASSUME ServerTyped, [GatewayNext]_allVars
  PROVE  ServiceStep
BY GatewaySteps DEF ServiceStep, BeginsPinned

LEMMA FrontSet ==
  ASSUME FrontTyped, NEW w \in Workers, front[w].stage # "idle",
         NEW stage \in {"queued", "running", "retired", "replied"},
         front' = [front EXCEPT ![w].stage = stage]
  PROVE  FrontTyped'
BY DEF FrontTyped, FrontRecord

LEMMA FrontRespond ==
  ASSUME FrontTyped, NEW w \in Workers, front[w].stage # "idle",
         NEW reply \in Answers \cup {"shutting_down", "finalize_retry_conflict",
                                     "server_busy", "tool_timeout", "internal_error"},
         Respond(w, reply)
  PROVE  FrontTyped'
BY DEF FrontTyped, FrontRecord, Respond

LEMMA FrontServe ==
  ASSUME ServerTyped, NEW w \in Workers, Serve(w)
  PROVE  FrontTyped'
<1>0. FrontTyped /\ w \in Callers
  BY DEF ServerTyped, Workers
<1>1. CASE Dispatch(w)
  BY <1>0, <1>1, FrontSet, FrontRespond DEF Dispatch, Stage
<1>2. CASE Admit(w) \/ WorkerFinished(w) \/ Read(w)
  BY <1>0, <1>2, FrontSet DEF Admit, WorkerFinished, Read, Stage
<1>3. CASE Busy(w) \/ ReadTimeout(w) \/ ReaderNotStarted(w)
  BY <1>0, <1>3, FrontRespond DEF Busy, ReadTimeout, ReaderNotStarted
<1>4. CASE Answer(w)
  <2>1. call[w].answer \in Answers
    BY <1>0, TypeSplit DEF ServerTyped, CallsOK, CallOK
  <2>2. QED
    BY <1>0, <1>4, <2>1, FrontRespond DEF Answer
<1>5. CASE Finish(w)
  BY <1>0, <1>5 DEF Finish, FrontTyped, FrontRecord, NoRequest, Answers
<1>6. CASE Start(w)
  BY <1>0, <1>6 DEF Start, gatewayVars, FrontTyped
<1>7. QED
  BY <1>1, <1>2, <1>3, <1>4, <1>5, <1>6 DEF Serve

LEMMA FrontNext ==
  ASSUME ServerTyped, [GatewayNext]_allVars
  PROVE  FrontTyped'
<1>0. FrontTyped
  BY DEF ServerTyped
<1>1. ASSUME NEW w \in Workers, NEW msg \in Messages, Receive(w, msg)
      PROVE  FrontTyped'
  <2>1. msg \in AnyArgs /\ msg # NoArgs
    BY NoArgsIsNoRequest DEF Messages, AnyArgs
  <2>2. QED
    BY <1>0, <1>1, <2>1 DEF Receive, FrontTyped, FrontRecord, Answers
<1>2. CASE front' = front
  BY <1>0, <1>2 DEF FrontTyped
<1>3. QED
  BY <1>1, <1>2, FrontServe
  DEF GatewayNext, Repair, RepairDigest, RepairTransport, HostReturn, Work, ReaderExits,
      Shutdown, BeginShutdown, StopAccepting, WaitForIdle, CloseService, gatewayVars, allVars

\* An entry is made by a request and removed by a repair.
LEMMA KeepsSet ==
  ASSUME NEW f, Keeps(f), NEW id \in ReviewIds, NEW m \in {NoArgs} \cup FinalizeArgs,
         m # NoArgs => m.id = id
  PROVE  Keeps([f EXCEPT ![id] = m])
BY DEF Keeps

LEMMA KeepsServe ==
  ASSUME ServerTyped, NEW w \in Workers, Serve(w)
  PROVE  Keeps(pinned') /\ Keeps(pending')
<1> DEFINE msg == front[w].msg
<1>0. Keeps(pinned) /\ Keeps(pending) /\ FrontTyped
  BY DEF ServerTyped
<1>1. CASE Dispatch(w) /\ msg.tool = "finalize" /\ pinned' # pinned
  <2>1. msg \in FinalizeArgs /\ msg.id \in ReviewIds
    BY <1>0, <1>1, RequestTyped, MessageTyped DEF Dispatch
  <2>2. pinned' = [pinned EXCEPT ![msg.id] = IF @ = NoArgs THEN msg ELSE @]
    BY <1>1 DEF Dispatch
  <2>3. Keeps(pinned')
    BY <1>0, <2>1, <2>2, KeepsSet DEF Keeps
  <2>4. QED
    BY <1>0, <1>1, <2>3 DEF Dispatch
<1>2. CASE Answer(w) /\ pending' # pending
  <2>1. msg \in FinalizeArgs /\ msg.id \in ReviewIds
    BY <1>0, <1>2, RequestTyped, MessageTyped DEF Answer
  <2>2. pending' = [pending EXCEPT ![msg.id] = msg]
    BY <1>2 DEF Answer
  <2>3. Keeps(pending')
    BY <1>0, <2>1, <2>2, KeepsSet
  <2>4. QED
    BY <1>0, <1>2, <2>3 DEF Answer
<1>3. CASE pinned' = pinned /\ pending' = pending
  BY <1>0, <1>3
<1>4. QED
  BY <1>1, <1>2, <1>3
  DEF Serve, Dispatch, Admit, Busy, Start, WorkerFinished, Answer, Read, ReadTimeout,
      ReaderNotStarted, Finish, gatewayVars, repairVars

LEMMA KeepsRepair ==
  ASSUME ServerTyped, NEW h \in Hosts, Repair(h)
  PROVE  Keeps(pinned') /\ Keeps(pending')
<1>0. Keeps(pinned) /\ Keeps(pending)
  BY DEF ServerTyped
<1>1. ASSUME NEW id \in ReviewIds, NEW d \in Digests, RepairDigest(h, id, d)
      PROVE  Keeps(pinned') /\ Keeps(pending')
  <2>1. pending' = [pending EXCEPT ![id] = NoArgs] /\ pinned' = pinned
    BY <1>1 DEF RepairDigest
  <2>2. QED
    BY <1>0, <2>1, KeepsSet
<1>2. CASE \E id \in ReviewIds : RepairTransport(h, id)
  BY <1>0, <1>2 DEF RepairTransport, gatewayVars, repairVars
<1>3. QED
  BY <1>1, <1>2 DEF Repair

LEMMA ServerTypedNext == ServerTyped /\ [GatewayNext]_allVars => ServerTyped'
<1> SUFFICES ASSUME ServerTyped, [GatewayNext]_allVars PROVE ServerTyped'
  OBVIOUS
<1>1. TypeOK'
  BY GatewayServiceStep, StepTyped DEF ServerTyped
<1>2. CASE pinned' = pinned /\ pending' = pending
  BY <1>1, <1>2, FrontNext DEF ServerTyped
<1>3. QED
  BY <1>1, <1>2, FrontNext, KeepsServe, KeepsRepair
  DEF ServerTyped, GatewayNext, Receive, HostReturn, Work, ReaderExits, Shutdown,
      BeginShutdown, StopAccepting, WaitForIdle, CloseService, gatewayVars, repairVars,
      allVars

LEMMA ServerTypedInit == GatewayInit => ServerTyped
<1> SUFFICES ASSUME GatewayInit PROVE ServerTyped
  OBVIOUS
<1>1. TypeOK
  BY InitTyped DEF GatewayInit
<1>2. FrontTyped
  BY DEF GatewayInit, FrontTyped, FrontRecord, NoRequest, Answers
<1>3. Keeps(pinned) /\ Keeps(pending)
  BY DEF GatewayInit, Keeps
<1>4. QED
  BY <1>1, <1>2, <1>3 DEF ServerTyped

-----------------------------------------------------------------------------
(* Shutdown.                                                               *)

\* Once MCPServer.shutdown has closed the service, no request thread, reader or
\* repair that is still running stores a review or binds a verdict.
THEOREM SilentAfterShutdown == GatewaySpec => NothingAfterShutdown
<1>1. GatewayInit => ServerTyped /\ ClosedEmpty
  BY ServerTypedInit DEF GatewayInit, Init, ClosedEmpty
<1>2. ServerTyped /\ ClosedEmpty /\ [GatewayNext]_allVars => ServerTyped' /\ ClosedEmpty'
  BY ServerTypedNext, GatewayServiceStep, StepClosedEmpty DEF ServerTyped
<1>3. ServerTyped /\ ClosedEmpty /\ [GatewayNext]_allVars =>
        [phase = "closed" =>
           /\ live = {} /\ live' = {}
           /\ \A o \in 1..built : review'[o].final = review[o].final]_allVars
  <2> SUFFICES ASSUME ServerTyped, ClosedEmpty, [GatewayNext]_allVars, phase = "closed"
               PROVE  /\ live = {} /\ live' = {}
                      /\ \A o \in 1..built : review'[o].final = review[o].final
    OBVIOUS
  <2>1. ServiceStep /\ TypeOK
    BY GatewayServiceStep DEF ServerTyped
  <2>2. HeapStep /\ ClosedEmpty' /\ phase' = "closed"
    BY <2>1, StepHeap, StepClosedEmpty
  <2>3. QED
    BY <2>2 DEF HeapStep, MayDecide, ClosedEmpty
<1>4. QED
  BY <1>1, <1>2, <1>3, PTL DEF GatewaySpec, NothingAfterShutdown

-----------------------------------------------------------------------------
(* One semantic payload for each review_id.                                *)

\* A finalize in the service carries the pinned payload, and the object it works
\* on is one of its own review_id.
Bound(pin, heap, k) ==
  /\ k.args.tool = "finalize" => SentAs(pin, k.args.id, k.args.payload)
  /\ k.pc \in {"validate", "commit"} => heap[k.obj].id = k.args.id

AllBound == \A c \in Callers : Bound(pinned, review, call[c])

PinsStay == \A id \in ReviewIds : pinned[id] # NoArgs => pinned'[id] = pinned[id]

LEMMA SentStays ==
  ASSUME PinsStay, NEW id \in ReviewIds, NEW payload, SentAs(pinned, id, payload)
  PROVE  SentAs(pinned', id, payload)
BY DEF PinsStay, SentAs

LEMMA BoundKept ==
  ASSUME HeapStep, PinsStay, CallsOK, AllBound, NEW c \in Callers
  PROVE  Bound(pinned', review', call[c])
<1> DEFINE k == call[c]
<1>1. CallOK(k) /\ Bound(pinned, review, k)
  BY DEF CallsOK, AllBound
<1>2. k.args.tool = "finalize" => SentAs(pinned', k.args.id, k.args.payload)
  <2> SUFFICES ASSUME k.args.tool = "finalize"
               PROVE  SentAs(pinned', k.args.id, k.args.payload)
    OBVIOUS
  <2>1. k.args \in FinalizeArgs
    BY <1>1 DEF CallOK, NoArgs, PrepareArgs, ReadArgs
  <2>2. k.args.id \in ReviewIds
    BY <2>1 DEF FinalizeArgs
  <2>3. QED
    BY <1>1, <2>2, SentStays DEF Bound
<1>3. k.pc \in {"validate", "commit"} => review'[k.obj].id = k.args.id
  BY <1>1 DEF CallOK, Bound, NoObject, HeapStep
<1>4. QED
  BY <1>2, <1>3 DEF Bound

LEMMA BoundFrame ==
  ASSUME HeapStep, PinsStay, CallsOK, AllBound, call' = call
  PROVE  AllBound'
BY BoundKept DEF AllBound

LEMMA BoundUpdate ==
  ASSUME HeapStep, PinsStay, CallsOK, AllBound, NEW c \in Callers, NEW k,
         Bound(pinned', review', k), call' = [call EXCEPT ![c] = k]
  PROVE  AllBound'
<1>1. call'[c] = k /\ \A d \in Callers \ {c} : call'[d] = call[d]
  BY DEF CallsOK
<1>2. ASSUME NEW d \in Callers, d # c
      PROVE  Bound(pinned', review', call'[d])
  BY <1>1, <1>2, BoundKept
<1>3. QED
  BY <1>1, <1>2 DEF AllBound

\* Whatever a caller does with its own arguments keeps them bound.
Carried(c, args) ==
  args.tool = "finalize" => SentAs(pinned', args.id, args.payload)

LEMMA OwnArgsCarried ==
  ASSUME HeapStep, PinsStay, CallsOK, AllBound, NEW c \in Callers
  PROVE  Carried(c, call[c].args)
BY BoundKept DEF Carried, Bound

LEMMA BoundReply ==
  ASSUME HeapStep, PinsStay, CallsOK, AllBound, NEW c \in Callers, NEW args, NEW o,
         NEW answer, Carried(c, args), Reply(c, args, o, answer)
  PROVE  AllBound'
<1> DEFINE k == [pc |-> "answered", args |-> args, obj |-> o, answer |-> answer]
<1>1. Bound(pinned', review', k)
  BY DEF Bound, Carried
<1>2. call' = [call EXCEPT ![c] = k]
  BY DEF Reply
<1>3. QED
  BY <1>1, <1>2, BoundUpdate

LEMMA BoundRefuse ==
  ASSUME HeapStep, PinsStay, CallsOK, AllBound, NEW c \in Callers, NEW why, Refuse(c, why)
  PROVE  AllBound'
BY BoundReply DEF Refuse, Carried, NoArgs

LEMMA BoundGo ==
  ASSUME HeapStep, PinsStay, CallsOK, AllBound, NEW c \in Callers, NEW pc, NEW args, NEW o,
         pc \in {"validate", "commit"} => review'[o].id = args.id,
         Carried(c, args), Go(c, pc, args, o)
  PROVE  AllBound'
<1> DEFINE k == [pc |-> pc, args |-> args, obj |-> o, answer |-> "none"]
<1>1. Bound(pinned', review', k)
  BY DEF Bound, Carried
<1>2. call' = [call EXCEPT ![c] = k]
  BY DEF Go
<1>3. QED
  BY <1>1, <1>2, BoundUpdate

LEMMA BoundRejoin ==
  ASSUME HeapStep, PinsStay, CallsOK, AllBound, NEW c \in Callers, NEW args, NEW o,
         Carried(c, args), Rejoin(c, args, o)
  PROVE  AllBound'
BY BoundReply, BoundRefuse DEF Rejoin

LEMMA BoundBuild ==
  ASSUME HeapStep, PinsStay, CallsOK, AllBound, NEW c \in Callers, NEW outcome,
         Build(c, outcome)
  PROVE  AllBound'
BY OwnArgsCarried, BoundRefuse, BoundGo DEF Build

LEMMA BoundProceed ==
  ASSUME HeapStep, PinsStay, CallsOK, AllBound, NEW c \in Callers, Proceed(c)
  PROVE  AllBound'
<1> DEFINE args == call[c].args
<1>0. Carried(c, args)
  BY OwnArgsCarried
<1>1. CASE HookStart(c)
  BY <1>0, <1>1, BoundGo DEF HookStart
<1>2. CASE HookBusy(c) \/ HookTimeout(c)
  BY <1>2, BoundBuild DEF HookBusy, HookTimeout
<1>3. CASE PrepareStore(c)
  BY <1>0, <1>3, BoundRefuse, BoundReply, BoundRejoin DEF PrepareStore
<1>4. CASE FinalizeLookup(c)
  <2>1. CASE GetFails(c, args)
    BY <2>1, BoundRefuse DEF GetFails
  <2>2. ASSUME NEW o \in Found(args), Go(c, "validate", args, o)
        PROVE  AllBound'
    <3>1. review'[o].id = args.id
      BY <1>4, <2>2 DEF FinalizeLookup, Found, Holders
    <3>2. QED
      BY <1>0, <2>2, <3>1, BoundGo
  <2>3. QED
    BY <1>4, <2>1, <2>2 DEF FinalizeLookup
<1>5. CASE FinalizeValidate(c)
  <2>1. review'[call[c].obj].id = args.id
    BY <1>5, BoundKept DEF FinalizeValidate, Bound
  <2>2. QED
    BY <1>0, <1>5, <2>1, BoundRefuse, BoundReply, BoundGo DEF FinalizeValidate, Repeated
<1>6. CASE FinalizeCommit(c)
  BY <1>0, <1>6, BoundRefuse, BoundReply DEF FinalizeCommit, Repeated
<1>7. QED
  BY <1>1, <1>2, <1>3, <1>4, <1>5, <1>6 DEF Proceed

LEMMA BoundFinalize ==
  ASSUME HeapStep, PinsStay, CallsOK, AllBound, NEW c \in Callers, NEW id \in ReviewIds,
         NEW d, NEW p, SentAs(pinned, id, p), FinalizeBegin(c, id, d, p)
  PROVE  AllBound'
<1> DEFINE args == [tool |-> "finalize", id |-> id, digest |-> d, payload |-> p]
<1>1. Carried(c, args)
  BY SentStays DEF Carried
<1>2. QED
  BY <1>1, BoundRefuse, BoundGo DEF FinalizeBegin

LEMMA BoundBegin ==
  ASSUME HeapStep, PinsStay, CallsOK, AllBound, NEW c \in Callers, NEW id \in ReviewIds,
         \/ \E req \in Requests : PrepareBegin(c, id, req)
         \/ \E d \in Digests : ReadReview(c, id, d)
  PROVE  AllBound'
<1>1. ASSUME NEW req \in Requests, PrepareBegin(c, id, req)
      PROVE  AllBound'
  <2> DEFINE args == [tool |-> "prepare", id |-> id, req |-> req]
  <2>1. Carried(c, args)
    BY DEF Carried
  <2>2. QED
    BY <1>1, <2>1, BoundRefuse, BoundRejoin, BoundGo DEF PrepareBegin
<1>2. ASSUME NEW d \in Digests, ReadReview(c, id, d)
      PROVE  AllBound'
  <2> DEFINE args == [tool |-> "read", id |-> id, digest |-> d]
  <2>1. Carried(c, args)
    BY DEF Carried
  <2>2. QED
    BY <1>2, <2>1, BoundRefuse, BoundReply DEF ReadReview, GetFails
<1>3. QED
  BY <1>1, <1>2

\* Every step of the service but the beginning of a finalize.
LEMMA BoundOther ==
  ASSUME HeapStep, PinsStay, CallsOK, AllBound, OtherStep
  PROVE  AllBound'
<1>1. ASSUME NEW c \in Callers, Reset(c)
      PROVE  AllBound'
  <2>1. Bound(pinned', review', Idle)
    BY DEF Bound, Idle, NoArgs
  <2>2. QED
    BY <1>1, <2>1, BoundUpdate DEF Reset
<1>2. ASSUME NEW c \in Callers, HookReturns(c)
      PROVE  AllBound'
  BY <1>2, BoundBuild DEF HookReturns
<1>3. CASE call' = call
  BY <1>3, BoundFrame
<1>4. QED
  BY <1>1, <1>2, <1>3, BoundBegin, BoundProceed
  DEF OtherStep, Touch, Environment, StrayHookExits, Expire, BeginClose, ClearStore, vars

-----------------------------------------------------------------------------
(* Where a verdict comes from.                                             *)

\* A verdict that is new is what a finalize about to commit normalised to.
NewVerdict(o) ==
  \E c \in Callers :
    /\ call[c].pc = "commit"
    /\ call[c].obj = o
    /\ review'[o].final = Meaning[call[c].args.payload]

VerdictStep ==
  \A o \in 1..built' : review'[o].final # Undecided =>
    \/ o \in 1..built /\ review'[o].final = review[o].final
    \/ o \in 1..built /\ NewVerdict(o)

LEMMA VerdictFrame ==
  ASSUME UNCHANGED review
  PROVE  VerdictStep
BY DEF VerdictStep, built

LEMMA VerdictBuild ==
  ASSUME TypeOK, NEW c \in Callers, NEW outcome, Build(c, outcome)
  PROVE  VerdictStep
<1> DEFINE args == call[c].args
           new  == [id |-> args.id, req |-> args.req, outcome |-> outcome,
                    bytes |-> PreparedBytes[outcome], final |-> Undecided]
<1>1. CASE UNCHANGED review
  BY <1>1, VerdictFrame
<1>2. CASE review' = Append(review, new)
  <2>1. new.final = Undecided
    OBVIOUS
  <2> HIDE DEF new
  <2>2. review \in Seq(Review) /\ built \in Nat
    BY TypeSplit, BuiltIsNat DEF StoreTypeOK
  <2>3. /\ built' = built + 1
        /\ review'[built + 1] = new
        /\ \A o \in 1..built : review'[o] = review[o]
    BY <1>2, <2>2 DEF built
  <2>4. QED
    BY <2>1, <2>2, <2>3 DEF VerdictStep
<1>3. QED
  BY <1>1, <1>2 DEF Build

LEMMA VerdictCommit ==
  ASSUME TypeOK, NEW c \in Callers, FinalizeCommit(c)
  PROVE  VerdictStep
<1> DEFINE o == call[c].obj
           m == Meaning[call[c].args.payload]
<1>0. StoreTypeOK /\ CallsOK /\ built \in Nat
  BY TypeSplit, BuiltIsNat
<1>1. o \in 1..built /\ m \in Meanings
  BY <1>0, FinalizeCallHolds DEF FinalizeCommit, FinalizeSteps, NoObject
<1>2. CASE UNCHANGED review
  BY <1>2, VerdictFrame
<1>3. CASE review' = Decided(o, m)
  <2>1. review \in [1..built -> Review]
    BY <1>0 DEF StoreTypeOK, built
  <2>2. built' = built
    BY <1>0, <1>1, <1>3, DecidedTyped DEF built
  <2>3. review[o] \in Review
    BY <1>1, <2>1
  <2>4. review'[o].final = m /\ \A x \in 1..built \ {o} : review'[x] = review[x]
    BY <1>1, <1>3, <2>1, <2>3 DEF Decided, Review
  <2>5. NewVerdict(o)
    BY <2>4 DEF NewVerdict, FinalizeCommit
  <2>6. QED
    BY <2>2, <2>4, <2>5 DEF VerdictStep
<1>4. QED
  BY <1>2, <1>3 DEF FinalizeCommit

LEMMA VerdictOrigin ==
  ASSUME TypeOK, ServiceStep
  PROVE  VerdictStep
<1>1. ASSUME NEW c \in Callers, HookBusy(c) \/ HookTimeout(c) \/ HookReturns(c)
      PROVE  VerdictStep
  BY <1>1, VerdictBuild DEF HookBusy, HookTimeout, HookReturns
<1>2. ASSUME NEW c \in Callers, FinalizeCommit(c)
      PROVE  VerdictStep
  BY <1>2, VerdictCommit
<1>3. CASE UNCHANGED review
  BY <1>3, VerdictFrame
<1>4. QED
  BY <1>1, <1>2, <1>3
  DEF ServiceStep, OtherStep, Touch, PrepareBegin, FinalizeBegin, ReadReview, Reset,
      BeginClose, ClearStore, vars, Proceed, HookStart, PrepareStore, FinalizeLookup, FinalizeValidate,
      Environment, StrayHookExits, Expire

-----------------------------------------------------------------------------
(* The pins, and what was admitted under them.                             *)

\* The first valid finalize of a review_id pins its arguments; nothing unpins them.
LEMMA PinsOnlyGrow ==
  ASSUME ServerTyped, [GatewayNext]_allVars
  PROVE  PinsStay
<1>1. Keeps(pinned)
  BY DEF ServerTyped
<1>2. ASSUME NEW w \in Workers, Dispatch(w)
      PROVE  PinsStay
  BY <1>1, <1>2 DEF Dispatch, PinsStay, Keeps
<1>3. CASE pinned' = pinned
  BY <1>3 DEF PinsStay
<1>4. QED
  BY <1>2, <1>3
  DEF GatewayNext, Serve, Admit, Busy, Start, WorkerFinished, Answer, Read, ReadTimeout,
      ReaderNotStarted, Finish, Receive, Repair, RepairDigest, RepairTransport, HostReturn, Work, ReaderExits,
      Shutdown, BeginShutdown, StopAccepting, WaitForIdle, CloseService, gatewayVars,
      repairVars, allVars

LEMMA RequestCarried ==
  ASSUME FrontTyped, PinsStay, RequestsBound, NEW w \in Workers, PastTheDoor(w)
  PROVE  SentAs(pinned', front[w].msg.id, front[w].msg.payload)
<1>1. front[w].msg \in AnyArgs
  BY RequestTyped DEF PastTheDoor
<1>2. QED
  BY <1>1, MessageTyped, SentStays DEF RequestsBound

\* One request moves on; the others stay as they are.
LEMMA RequestMoves ==
  ASSUME FrontTyped, PinsStay, RequestsBound, NEW w \in Workers,
         \A x \in Workers \ {w} : front'[x] = front[x],
         PastTheDoor(w)' => SentAs(pinned', front'[w].msg.id, front'[w].msg.payload)
  PROVE  RequestsBound'
<1>1. ASSUME NEW x \in Workers, x # w, PastTheDoor(x)'
      PROVE  SentAs(pinned', front'[x].msg.id, front'[x].msg.payload)
  BY <1>1, RequestCarried DEF PastTheDoor
<1>2. QED
  BY <1>1 DEF RequestsBound

LEMMA RequestDispatched ==
  ASSUME ServerTyped, PinsStay, RequestsBound, NEW w \in Workers, Dispatch(w)
  PROVE  RequestsBound'
<1> DEFINE msg == front[w].msg
<1>0. FrontTyped /\ front \in [Workers -> FrontRecord] /\ Keeps(pinned)
  BY DEF ServerTyped, FrontTyped
<1>1. msg \in AnyArgs
  BY <1>0, RequestTyped DEF Dispatch
<1>2. /\ \A x \in Workers \ {w} : front'[x] = front[x]
      /\ front'[w].msg = msg
  BY <1>0 DEF Dispatch, Stage, Respond, FrontRecord
<1>3. ASSUME PastTheDoor(w)'
      PROVE  SentAs(pinned', msg.id, msg.payload)
  <2>1. msg.tool = "finalize" /\ front'[w].stage # "replied"
    BY <1>2, <1>3 DEF PastTheDoor
  <2>2. ~PinConflict(msg) /\ pinned' = [pinned EXCEPT ![msg.id] = IF @ = NoArgs THEN msg ELSE @]
    BY <1>0, <2>1 DEF Dispatch, Respond, FrontRecord
  <2>3. msg.id \in ReviewIds
    BY <1>1, MessageTyped
  <2>4. pinned'[msg.id] = msg
    BY <1>0, <2>2, <2>3 DEF PinConflict, Keeps
  <2>5. QED
    BY <1>1, <2>4, NoArgsIsNoRequest DEF SentAs
<1>4. QED
  BY <1>0, <1>2, <1>3, RequestMoves

LEMMA RequestsServe ==
  ASSUME ServerTyped, PinsStay, RequestsBound, NEW w \in Workers, Serve(w)
  PROVE  RequestsBound'
<1>0. FrontTyped /\ front \in [Workers -> FrontRecord]
  BY DEF ServerTyped, FrontTyped
<1>1. CASE Admit(w) \/ WorkerFinished(w) \/ Read(w)
  <2>1. /\ \A x \in Workers \ {w} : front'[x] = front[x]
        /\ front'[w].msg = front[w].msg
        /\ front[w].stage \in {"queued", "running"}
    BY <1>0, <1>1 DEF Admit, WorkerFinished, Read, Stage, FrontRecord
  <2>2. PastTheDoor(w)' => PastTheDoor(w)
    BY <2>1 DEF PastTheDoor
  <2>3. QED
    BY <1>0, <2>1, <2>2, RequestCarried, RequestMoves
<1>2. CASE Busy(w) \/ Answer(w) \/ ReadTimeout(w) \/ ReaderNotStarted(w) \/ Finish(w)
  <2>1. /\ \A x \in Workers \ {w} : front'[x] = front[x]
        /\ front'[w].stage \in {"idle", "replied"}
    BY <1>0, <1>2
    DEF Busy, Answer, ReadTimeout, ReaderNotStarted, Finish, Respond, NoRequest, FrontRecord
  <2>2. ~PastTheDoor(w)'
    BY <2>1 DEF PastTheDoor
  <2>3. QED
    BY <1>0, <2>1, <2>2, RequestMoves
<1>3. CASE Start(w)
  <2>1. front' = front
    BY <1>3 DEF Start, gatewayVars
  <2>2. PastTheDoor(w)' => PastTheDoor(w)
    BY <2>1 DEF PastTheDoor
  <2>3. QED
    BY <1>0, <2>1, <2>2, RequestCarried, RequestMoves
<1>4. QED
  BY <1>1, <1>2, <1>3, RequestDispatched DEF Serve

LEMMA RequestsNext ==
  ASSUME ServerTyped, PinsStay, RequestsBound, [GatewayNext]_allVars
  PROVE  RequestsBound'
<1>0. FrontTyped /\ front \in [Workers -> FrontRecord]
  BY DEF ServerTyped, FrontTyped
<1>1. ASSUME NEW w \in Workers, NEW msg \in Messages, Receive(w, msg)
      PROVE  RequestsBound'
  <2>1. /\ \A x \in Workers \ {w} : front'[x] = front[x]
        /\ ~PastTheDoor(w)'
    BY <1>0, <1>1 DEF Receive, PastTheDoor
  <2>2. QED
    BY <1>0, <2>1, RequestMoves
<1>2. CASE front' = front
  BY <1>0, <1>2, RequestCarried DEF RequestsBound, PastTheDoor
<1>3. QED
  BY <1>1, <1>2, RequestsServe
  DEF GatewayNext, Repair, RepairDigest, RepairTransport, HostReturn, Work, ReaderExits,
      Shutdown, BeginShutdown, StopAccepting, WaitForIdle, CloseService, gatewayVars, allVars

LEMMA PendingNext ==
  ASSUME ServerTyped, PinsStay, RequestsBound, PendingBound, [GatewayNext]_allVars
  PROVE  PendingBound'
<1>0. FrontTyped /\ Keeps(pending)
  BY DEF ServerTyped
<1>1. ASSUME NEW w \in Workers, Answer(w), pending' # pending
      PROVE  PendingBound'
  <2> DEFINE msg == front[w].msg
  <2>1. msg \in AnyArgs /\ PastTheDoor(w)
    BY <1>0, <1>1, RequestTyped DEF Answer, PastTheDoor
  <2>2. SentAs(pinned', msg.id, msg.payload)
    BY <1>0, <2>1, RequestCarried
  <2>3. pending' = [pending EXCEPT ![msg.id] = msg]
    BY <1>1 DEF Answer
  <2>4. QED
    BY <1>0, <2>2, <2>3, SentStays DEF PendingBound, Keeps
<1>2. ASSUME NEW h \in Hosts, NEW id \in ReviewIds, NEW d \in Digests, RepairDigest(h, id, d)
      PROVE  PendingBound'
  BY <1>0, <1>2, SentStays DEF RepairDigest, PendingBound, Keeps
<1>3. CASE pending' = pending
  BY <1>3, SentStays DEF PendingBound
<1>4. QED
  BY <1>1, <1>2, <1>3
  DEF GatewayNext, Serve, Dispatch, Admit, Busy, Start, WorkerFinished, Answer, Read,
      ReadTimeout, ReaderNotStarted, Finish, Receive, Repair, RepairTransport, HostReturn, Work, ReaderExits,
      Shutdown, BeginShutdown, StopAccepting, WaitForIdle, CloseService, gatewayVars,
      repairVars, allVars

-----------------------------------------------------------------------------

LEMMA PayloadNext ==
  ASSUME TypeOK, AllBound, PinsStay, HeapStep, VerdictStep, SinglePayload
  PROVE  SinglePayload'
<1> SUFFICES ASSUME NEW o \in 1..built', review'[o].final # Undecided
             PROVE  /\ pinned'[review'[o].id] # NoArgs
                    /\ review'[o].final = Meaning[pinned'[review'[o].id].payload]
  BY DEF SinglePayload
<1>0. StoreTypeOK /\ CallsOK
  BY TypeSplit
<1>1. o \in 1..built
  BY DEF VerdictStep
<1>2. review[o].id \in ReviewIds /\ review'[o].id = review[o].id
  <2>1. review[o] \in Review
    BY <1>0, <1>1 DEF StoreTypeOK, built
  <2>2. QED
    BY <1>1, <2>1 DEF Review, HeapStep
<1>3. CASE review'[o].final = review[o].final
  BY <1>1, <1>2, <1>3 DEF SinglePayload, PinsStay
<1>4. CASE NewVerdict(o)
  <2> PICK c \in Callers : /\ call[c].pc = "commit"
                           /\ call[c].obj = o
                           /\ review'[o].final = Meaning[call[c].args.payload]
    BY <1>4 DEF NewVerdict
  <2>1. call[c].args.tool = "finalize"
    BY <1>0 DEF CallsOK, CallOK, FinalizeSteps, FinalizeArgs
  <2>2. call[c].args.id = review[o].id
    BY DEF AllBound, Bound
  <2>3. SentAs(pinned, review[o].id, call[c].args.payload)
    BY <2>1, <2>2 DEF AllBound, Bound
  <2>4. QED
    BY <1>2, <2>3 DEF SentAs, PinsStay
<1>5. QED
  BY <1>3, <1>4 DEF VerdictStep

PayloadInv ==
  ServerTyped /\ ClosedEmpty /\ AllBound /\ RequestsBound /\ PendingBound /\ SinglePayload

LEMMA PayloadInvNext == PayloadInv /\ [GatewayNext]_allVars => PayloadInv'
<1> SUFFICES ASSUME PayloadInv, [GatewayNext]_allVars PROVE PayloadInv'
  OBVIOUS
<1>1. TypeOK /\ CallsOK /\ ServerTyped'
  BY ServerTypedNext, TypeSplit DEF PayloadInv, ServerTyped
<1>2. ServiceStep /\ PinsStay
  BY GatewayServiceStep, PinsOnlyGrow DEF PayloadInv
<1>3. HeapStep /\ VerdictStep /\ ClosedEmpty'
  BY <1>1, <1>2, StepHeap, StepClosedEmpty, VerdictOrigin DEF PayloadInv
<1>4. AllBound'
  BY <1>1, <1>2, <1>3, GatewaySteps, BoundOther, BoundFinalize DEF PayloadInv, BeginsPinned
<1>5. RequestsBound' /\ PendingBound'
  BY <1>2, RequestsNext, PendingNext DEF PayloadInv
<1>6. SinglePayload'
  BY <1>1, <1>2, <1>3, PayloadNext DEF PayloadInv
<1>7. QED
  BY <1>1, <1>3, <1>4, <1>5, <1>6 DEF PayloadInv

LEMMA PayloadInvInit == GatewayInit => PayloadInv
<1> SUFFICES ASSUME GatewayInit PROVE PayloadInv
  OBVIOUS
<1>1. ServerTyped
  BY ServerTypedInit
<1>2. ClosedEmpty
  BY DEF GatewayInit, Init, ClosedEmpty
<1>3. AllBound
  BY DEF GatewayInit, Init, AllBound, Bound, Idle, NoArgs
<1>4. RequestsBound /\ PendingBound
  BY DEF GatewayInit, NoRequest, RequestsBound, PastTheDoor, PendingBound
<1>5. SinglePayload
  BY DEF GatewayInit, Init, SinglePayload, built
<1>6. QED
  BY <1>1, <1>2, <1>3, <1>4, <1>5 DEF PayloadInv

\* However finalizes race, are rejected and repaired, and however often a review
\* is evicted and prepared again, its review_id is decided with the payload that
\* was pinned first and with no other.
THEOREM OnePayloadForEver == GatewaySpec => []SinglePayload
<1>1. GatewayInit => PayloadInv
  BY PayloadInvInit
<1>2. PayloadInv /\ [GatewayNext]_allVars => PayloadInv'
  BY PayloadInvNext
<1>3. PayloadInv => SinglePayload
  BY DEF PayloadInv
<1>4. QED
  BY <1>1, <1>2, <1>3, PTL DEF GatewaySpec

-----------------------------------------------------------------------------
(* One verdict for each review_id and digest.                              *)

\* What is not degraded is what the hook finds for the request.
EvidenceOf(heap) ==
  \A o \in 1..Len(heap) : heap[o].outcome \in {"degraded", Analysis[heap[o].req]}

LEMMA EvidenceBuild ==
  ASSUME TypeOK, EvidenceOf(review), NEW c \in Callers,
         NEW outcome \in {"degraded", Analysis[call[c].args.req]}, Build(c, outcome)
  PROVE  EvidenceOf(review')
<1> DEFINE args == call[c].args
           new  == [id |-> args.id, req |-> args.req, outcome |-> outcome,
                    bytes |-> PreparedBytes[outcome], final |-> Undecided]
<1>1. CASE review' = review
  BY <1>1
<1>2. CASE review' = Append(review, new)
  <2>1. new.outcome \in {"degraded", Analysis[new.req]}
    OBVIOUS
  <2> HIDE DEF new
  <2>2. review \in Seq(Review)
    BY TypeSplit DEF StoreTypeOK
  <2>3. /\ Len(review') = Len(review) + 1
        /\ Len(review) \in Nat
        /\ review'[Len(review) + 1] = new
        /\ \A o \in 1..Len(review) : review'[o] = review[o]
    BY <1>2, <2>2
  <2>4. QED
    BY <2>1, <2>3 DEF EvidenceOf
<1>3. QED
  BY <1>1, <1>2 DEF Build

LEMMA EvidenceKept ==
  ASSUME EvidenceOf(review), HeapStep, Len(review') = Len(review)
  PROVE  EvidenceOf(review')
BY DEF EvidenceOf, HeapStep, built

LEMMA EvidenceStep ==
  ASSUME TypeOK, EvidenceOf(review), HeapStep, ServiceStep
  PROVE  EvidenceOf(review')
<1>1. ASSUME NEW c \in Callers, HookBusy(c) \/ HookTimeout(c) \/ HookReturns(c)
      PROVE  EvidenceOf(review')
  BY <1>1, EvidenceBuild DEF HookBusy, HookTimeout, HookReturns
<1>2. ASSUME NEW c \in Callers, FinalizeCommit(c)
      PROVE  EvidenceOf(review')
  <2>1. Len(review') = Len(review)
    BY <1>2, TypeSplit DEF FinalizeCommit, Decided, StoreTypeOK
  <2>2. QED
    BY <2>1, EvidenceKept
<1>3. CASE UNCHANGED review
  BY <1>3
<1>4. QED
  BY <1>1, <1>2, <1>3
  DEF ServiceStep, OtherStep, Touch, PrepareBegin, FinalizeBegin, ReadReview, Reset,
      BeginClose, ClearStore, vars, Proceed, HookStart, PrepareStore, FinalizeLookup,
      FinalizeValidate, Environment, StrayHookExits, Expire

LEMMA SameDigestSameVerdict ==
  ASSUME SinglePayload, EvidenceOf(review),
         NEW a \in 1..built, NEW b \in 1..built,
         review[a].final # Undecided, review[b].final # Undecided,
         review[a].id = review[b].id, Digest(a) = Digest(b)
  PROVE  VerdictOf(a) = VerdictOf(b)
<1>1. review[a].final = review[b].final
  BY DEF SinglePayload
<1>2. review[a].req = review[b].req /\
      (review[a].outcome = "degraded" <=> review[b].outcome = "degraded")
  BY DEF Digest
<1>3. review[a].outcome = review[b].outcome
  BY <1>2 DEF EvidenceOf, built
<1>4. QED
  BY <1>1, <1>3 DEF VerdictOf

\* Two clients who finalized one review_id under the same digests were told the
\* same verdict, although one of them may have been answered by an incarnation of
\* the review that expired or was evicted since.
THEOREM SameVerdictForSameDigest == GatewaySpec => []OneVerdictPerDigest
<1>1. GatewayInit => PayloadInv /\ EvidenceOf(review)
  BY PayloadInvInit DEF GatewayInit, Init, EvidenceOf
<1>2. PayloadInv /\ EvidenceOf(review) /\ [GatewayNext]_allVars =>
        PayloadInv' /\ EvidenceOf(review)'
  <2> SUFFICES ASSUME PayloadInv, EvidenceOf(review), [GatewayNext]_allVars
               PROVE  PayloadInv' /\ EvidenceOf(review')
    BY DEF EvidenceOf
  <2>1. TypeOK /\ ServiceStep
    BY GatewayServiceStep DEF PayloadInv, ServerTyped
  <2>2. HeapStep
    BY <2>1, StepHeap DEF PayloadInv
  <2>3. QED
    BY <2>1, <2>2, PayloadInvNext, EvidenceStep
<1>3. PayloadInv /\ EvidenceOf(review) => OneVerdictPerDigest
  BY SameDigestSameVerdict DEF PayloadInv, OneVerdictPerDigest
<1>4. QED
  BY <1>1, <1>2, <1>3, PTL DEF GatewaySpec

-----------------------------------------------------------------------------
(* Permits.                                                                *)

Serving == {w \in Workers : front[w].stage # "idle"}
Holding == {w \in Workers : front[w].stage = "running"}

SlotsAccounted ==
  /\ IsFiniteSet(Serving)
  /\ slots \in Nat
  /\ slots + Cardinality(Serving) = MaxConcurrency

TokensAccounted ==
  /\ IsFiniteSet(Holding)
  /\ tokens \in Nat /\ readers \in Nat /\ lost \in Nat
  /\ tokens + Cardinality(Holding) + readers + lost = MaxConcurrency
  /\ active = Cardinality(Holding) + readers + lost

LEMMA SlotsKept ==
  ASSUME SlotsAccounted, slots' = slots, Serving' = Serving
  PROVE  SlotsAccounted'
BY DEF SlotsAccounted

LEMMA SlotTaken ==
  ASSUME SlotsAccounted, slots > 0, slots' = slots - 1,
         NEW w, w \notin Serving, Serving' = Serving \cup {w}
  PROVE  SlotsAccounted'
<1>1. IsFiniteSet(Serving') /\ Cardinality(Serving') = Cardinality(Serving) + 1
  BY FS_AddElement DEF SlotsAccounted
<1>2. Cardinality(Serving) \in Nat
  BY FS_CardinalityType DEF SlotsAccounted
<1>3. QED
  BY <1>1, <1>2, GatewayAssumption DEF SlotsAccounted

LEMMA SlotGivenBack ==
  ASSUME SlotsAccounted, slots' = slots + 1,
         NEW w \in Serving, Serving' = Serving \ {w}
  PROVE  SlotsAccounted'
<1>1. IsFiniteSet(Serving') /\ Cardinality(Serving') = Cardinality(Serving) - 1
  BY FS_RemoveElement DEF SlotsAccounted
<1>2. Cardinality(Serving) \in Nat
  BY FS_CardinalityType DEF SlotsAccounted
<1>3. QED
  BY <1>1, <1>2, GatewayAssumption DEF SlotsAccounted

LEMMA TokensKept ==
  ASSUME TokensAccounted, UNCHANGED <<tokens, active, readers, lost>>, Holding' = Holding
  PROVE  TokensAccounted'
BY DEF TokensAccounted

LEMMA TokenTaken ==
  ASSUME TokensAccounted, tokens > 0, tokens' = tokens - 1, active' = active + 1,
         UNCHANGED <<readers, lost>>, NEW w, w \notin Holding, Holding' = Holding \cup {w}
  PROVE  TokensAccounted'
<1>1. IsFiniteSet(Holding') /\ Cardinality(Holding') = Cardinality(Holding) + 1
  BY FS_AddElement DEF TokensAccounted
<1>2. Cardinality(Holding) \in Nat
  BY FS_CardinalityType DEF TokensAccounted
<1>3. QED
  BY <1>1, <1>2, GatewayAssumption DEF TokensAccounted

\* A worker gives its permit back, leaves it to the reader it started, or loses it.
LEMMA TokenLeft ==
  ASSUME TokensAccounted, NEW w \in Holding, Holding' = Holding \ {w},
         \/ tokens' = tokens + 1 /\ active' = active - 1 /\ UNCHANGED <<readers, lost>>
         \/ readers' = readers + 1 /\ UNCHANGED <<tokens, active, lost>>
         \/ lost' = lost + 1 /\ UNCHANGED <<tokens, active, readers>>
  PROVE  TokensAccounted'
<1>1. IsFiniteSet(Holding') /\ Cardinality(Holding') = Cardinality(Holding) - 1
  BY FS_RemoveElement DEF TokensAccounted
<1>2. Cardinality(Holding) \in Nat
  BY FS_CardinalityType DEF TokensAccounted
<1>3. QED
  BY <1>1, <1>2, GatewayAssumption DEF TokensAccounted

LEMMA PermitsServe ==
  ASSUME ServerTyped, SlotsAccounted, TokensAccounted, NEW w \in Workers, Serve(w)
  PROVE  SlotsAccounted' /\ TokensAccounted'
<1>0. front \in [Workers -> FrontRecord]
  BY DEF ServerTyped, FrontTyped
<1>1. CASE Dispatch(w) \/ Busy(w) \/ Answer(w)
  <2>1. Serving' = Serving /\ Holding' = Holding
    BY <1>0, <1>1 DEF Dispatch, Busy, Answer, Stage, Respond, FrontRecord, Serving, Holding
  <2>2. QED
    BY <1>1, <2>1, SlotsKept, TokensKept DEF Dispatch, Busy, Answer, httpVars
<1>2. CASE Start(w)
  BY <1>2, SlotsKept, TokensKept DEF Start, gatewayVars, httpVars, Serving, Holding
<1>3. CASE Admit(w)
  <2>1. Serving' = Serving /\ w \notin Holding /\ Holding' = Holding \cup {w}
    BY <1>0, <1>3 DEF Admit, Stage, FrontRecord, Serving, Holding
  <2>2. QED
    BY <1>3, <2>1, SlotsKept, TokenTaken DEF Admit
<1>4. CASE WorkerFinished(w) \/ Read(w) \/ ReadTimeout(w) \/ ReaderNotStarted(w)
  <2>1. Serving' = Serving /\ w \in Holding /\ Holding' = Holding \ {w}
    BY <1>0, <1>4
    DEF WorkerFinished, Read, ReadTimeout, ReaderNotStarted, Stage, Respond, FrontRecord,
        Serving, Holding
  <2>2. QED
    BY <1>4, <2>1, SlotsKept, TokenLeft
    DEF WorkerFinished, Read, ReadTimeout, ReaderNotStarted
<1>5. CASE Finish(w)
  <2>1. w \in Serving /\ Serving' = Serving \ {w} /\ Holding' = Holding
    BY <1>0, <1>5 DEF Finish, NoRequest, FrontRecord, Serving, Holding
  <2>2. QED
    BY <1>5, <2>1, SlotGivenBack, TokensKept DEF Finish
<1>6. QED
  BY <1>1, <1>2, <1>3, <1>4, <1>5 DEF Serve

LEMMA PermitsGatewayNext ==
  ASSUME ServerTyped, SlotsAccounted, TokensAccounted, [GatewayNext]_allVars
  PROVE  SlotsAccounted' /\ TokensAccounted'
<1>0. front \in [Workers -> FrontRecord]
  BY DEF ServerTyped, FrontTyped
<1>1. ASSUME NEW w \in Workers, NEW msg \in Messages, Receive(w, msg)
      PROVE  SlotsAccounted' /\ TokensAccounted'
  <2>1. w \notin Serving /\ Serving' = Serving \cup {w} /\ Holding' = Holding
    BY <1>0, <1>1 DEF Receive, Serving, Holding
  <2>2. QED
    BY <1>1, <2>1, SlotTaken, TokensKept DEF Receive
<1>2. CASE ReaderExits
  <2>1. Serving' = Serving /\ Holding' = Holding
    BY <1>2 DEF ReaderExits, Serving, Holding
  <2>2. Cardinality(Holding) \in Nat
    BY FS_CardinalityType DEF TokensAccounted
  <2>3. /\ readers > 0 /\ readers' = readers - 1 /\ tokens' = tokens + 1 /\ active' = active - 1
        /\ lost' = lost
    BY <1>2 DEF ReaderExits
  <2>4. TokensAccounted'
    BY <2>1, <2>2, <2>3, GatewayAssumption DEF TokensAccounted
  <2>5. QED
    BY <1>2, <2>1, <2>4, SlotsKept DEF ReaderExits
<1>3. CASE UNCHANGED <<httpVars, front>>
  BY <1>3, SlotsKept, TokensKept DEF httpVars, Serving, Holding
<1>4. QED
  BY <1>1, <1>2, <1>3, PermitsServe
  DEF GatewayNext, Repair, RepairDigest, RepairTransport, HostReturn, Work, Shutdown,
      BeginShutdown, StopAccepting, WaitForIdle, CloseService, gatewayVars, allVars

\* However requests, readers that outlive their reply, readers that never start and
\* shutdown interleave, no request slot is lost, no tool permit is given back twice,
\* and a permit that nobody holds was lost with a reader that could not be started.
THEOREM PermitsAreAccounted == GatewaySpec => []PermitsConserved
<1>1. GatewayInit => ServerTyped /\ SlotsAccounted /\ TokensAccounted
  <2> SUFFICES ASSUME GatewayInit PROVE ServerTyped /\ SlotsAccounted /\ TokensAccounted
    OBVIOUS
  <2>1. Serving = {} /\ Holding = {}
    BY DEF GatewayInit, NoRequest, Serving, Holding
  <2>2. /\ IsFiniteSet(Serving) /\ Cardinality(Serving) = 0
        /\ IsFiniteSet(Holding) /\ Cardinality(Holding) = 0
    BY <2>1, FS_EmptySet
  <2>3. QED
    BY <2>2, ServerTypedInit, GatewayAssumption DEF GatewayInit, SlotsAccounted, TokensAccounted
<1>2. ServerTyped /\ SlotsAccounted /\ TokensAccounted /\ [GatewayNext]_allVars =>
        ServerTyped' /\ SlotsAccounted' /\ TokensAccounted'
  BY ServerTypedNext, PermitsGatewayNext
<1>3. SlotsAccounted /\ TokensAccounted => PermitsConserved
  BY DEF SlotsAccounted, TokensAccounted, Serving, Holding, PermitsConserved
<1>4. QED
  BY <1>1, <1>2, <1>3, PTL DEF GatewaySpec
=============================================================================

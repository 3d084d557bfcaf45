--------------------------- MODULE RemediationProofs ---------------------------
(***************************************************************************)
(* Theorems about RemediationTask and RemediationService, which share no   *)
(* state, for any findings, requests, callers and limits.  The arguments:  *)
(* - an honest worker is in one of three places, and what the log shows    *)
(*   of a flow that holds can only be one of them;                         *)
(* - a slot is taken for every worker that has not given it back, what is  *)
(*   stored and what a caller holds come from registered reviews, and      *)
(*   trimming ends before the entry it is done for.                        *)
(***************************************************************************)
EXTENDS RemediationTask, RemediationService, RemediationPatch, SequenceTheorems, Induction

-----------------------------------------------------------------------------
(* The task: its inductive invariant.                                      *)

Arguments == TaskRequests \cup [rid: TaskRids, digest: TaskRequests,
                                candidate: TaskRequests \cup {None}]

Receipts ==
  [tool: {"prepare", "finalize"}, rid: TaskRids, args: Arguments, ok: BOOLEAN, ready: BOOLEAN,
   digest: TaskRequests, candidate: TaskRequests \cup {None}, output: Outputs \cup {None}]

Entries ==
  [tool: {"prepare", "finalize"}, args: Arguments, ok: BOOLEAN, root: BOOLEAN, call: Nat]

TaskTypeOK ==
  /\ remediable \in SUBSET Findings
  /\ mirrored \in BOOLEAN
  /\ prepared \in [TaskRids -> TaskRequests \cup {None}]
  /\ final \in [TaskRids -> Outputs \cup {None}]
  /\ log \in Seq(Entries)
  /\ receipts \in Seq(Receipts)
  /\ answer \in Outputs \cup {None}
  /\ result \in {None, "succeeded", "failed"}
  /\ honest \in BOOLEAN

\* A call is logged under a number of its own.
CallsNumbered == \A e \in Range(log) : e.call < Len(receipts)

\* The entries and receipts of the two calls of the task.
OwnCandidate == CandidateOf(OwnRequest)

PrepareEntry ==
  [tool |-> "prepare", args |-> OwnRequest, ok |-> TRUE, root |-> TRUE, call |-> 0]
FinalizeEntry ==
  [tool |-> "finalize", args |-> FinalizeArgs(OwnRequest, OwnCandidate), ok |-> TRUE,
   root |-> TRUE, call |-> 1]
OwnPrepare == PrepareReceipt(OwnRequest, TRUE)
OwnFinalize == FinalizeReceipt(OwnRequest, OwnCandidate, TRUE)

\* The worker has made none of its calls, the first, or both, and no other.
NoCalls ==
  /\ log = <<>> /\ receipts = <<>>
  /\ prepared[OwnRequest.rid] = None /\ final[OwnRequest.rid] = None

OneCall ==
  /\ Range(log) = {PrepareEntry} /\ receipts = <<OwnPrepare>>
  /\ prepared[OwnRequest.rid] = OwnRequest /\ final[OwnRequest.rid] = None

TwoCalls ==
  /\ Range(log) = {PrepareEntry, FinalizeEntry}
  /\ receipts = <<OwnPrepare, OwnFinalize>> \/ receipts = <<OwnPrepare, OwnFinalize, OwnFinalize>>
  /\ prepared[OwnRequest.rid] = OwnRequest
  /\ final[OwnRequest.rid] = FinalOutput(OwnRequest)

HonestCalls == NoCalls \/ OneCall \/ TwoCalls

\* What of it the log alone shows.
LooksPrepared(p) == Range(log) = {p} /\ p.tool = "prepare" /\ p.root /\ p.args = OwnRequest

LooksHonest ==
  \/ log = <<>>
  \/ \E p \in Range(log) : LooksPrepared(p)
  \/ \E p, f \in Range(log) : FlowHolds(p, f)

HonestAnswer ==
  /\ final[OwnRequest.rid] # None
  /\ answer = final[OwnRequest.rid] \/ answer = [final[OwnRequest.rid] EXCEPT !.errors = FALSE]

HonestyOK ==
  /\ LooksHonest => HonestCalls
  /\ answer = None => result = None
  /\ honest <=> (HonestCalls /\ (answer = None \/ HonestAnswer))

TaskInv == TaskTypeOK /\ CallsNumbered /\ HonestyOK /\ WorkerIsBelieved

-----------------------------------------------------------------------------

LEMMA OutputIs ==
  ASSUME TaskAssumption, NEW req \in TaskRequests
  PROVE  /\ CandidateOf(req) \in TaskRequests \cup {None}
         /\ FinalOutput(req) \in Outputs /\ FinalOutput(req) # None
<1>1. CandidateOf(req) \in TaskRequests \cup {None}
  BY DEF CandidateOf
<1>2. FinalOutput(req) \in Outputs
  BY <1>1 DEF FinalOutput, Outputs
<1>3. QED
  BY <1>1, <1>2 DEF TaskAssumption

\* A final output whose error list is left out can be repaired.
LEMMA ErrorsLeftOut ==
  ASSUME NEW o \in Outputs, o.errors = TRUE, NEW a, a = [o EXCEPT !.errors = FALSE]
  PROVE  /\ a.req = o.req /\ a.candidate = o.candidate /\ a.errors = FALSE
         /\ [a EXCEPT !.errors = TRUE] = o
<1>1. a \in Outputs /\ a.req = o.req /\ a.candidate = o.candidate /\ a.errors = FALSE
  BY DEF Outputs
<1> DEFINE b == [a EXCEPT !.errors = TRUE]
<1>2. b \in Outputs /\ b.req = a.req /\ b.candidate = a.candidate /\ b.errors = TRUE
  BY <1>1 DEF Outputs
<1> HIDE DEF b
<1>3. b = o
  BY <1>1, <1>2 DEF Outputs
<1>4. QED
  BY <1>1, <1>3 DEF b

LEMMA TaskInitHolds == ASSUME TaskAssumption PROVE TaskInit => TaskInv
<1> SUFFICES ASSUME TaskInit PROVE TaskInv
  OBVIOUS
<1>1. OwnRequest.rid \in TaskRids
  BY DEF TaskAssumption, TaskRids
<1>2. TaskTypeOK
  BY DEF TaskInit, TaskTypeOK
<1>3. Range(log) = {} /\ CallsNumbered
  BY DEF TaskInit, CallsNumbered, Range
<1>4. HonestCalls
  BY <1>1 DEF TaskInit, HonestCalls, NoCalls
<1>5. HonestyOK
  BY <1>4 DEF TaskInit, HonestyOK
<1>6. WorkerIsBelieved
  BY DEF TaskAssumption, TaskInit, WorkerIsBelieved, OnlyTheServicesCandidate,
         NothingElseWasCalled, HonestWorkerBelieved
<1>7. QED
  BY <1>2, <1>3, <1>5, <1>6 DEF TaskInv

LEMMA RangeOfConcat ==
  ASSUME NEW S, NEW s \in Seq(S), NEW t \in Seq(S)
  PROVE  /\ s \o t \in Seq(S) /\ Len(s \o t) = Len(s) + Len(t)
         /\ Range(s \o t) = Range(s) \cup Range(t)
<1>1. /\ s \o t \in Seq(S) /\ Len(s \o t) = Len(s) + Len(t)
      /\ Len(s) \in Nat /\ Len(t) \in Nat
  OBVIOUS
<1>2. DOMAIN s = 1..Len(s) /\ DOMAIN t = 1..Len(t) /\ DOMAIN (s \o t) = 1..(Len(s) + Len(t))
  BY <1>1
<1>3. \A i \in 1..Len(s) : i \in DOMAIN (s \o t) /\ (s \o t)[i] = s[i]
  BY <1>1, <1>2
<1>4. \A i \in 1..Len(t) : Len(s) + i \in DOMAIN (s \o t) /\ (s \o t)[Len(s) + i] = t[i]
  BY <1>1, <1>2
<1>5. ASSUME NEW i \in DOMAIN (s \o t) PROVE (s \o t)[i] \in Range(s) \cup Range(t)
  <2>1. CASE i <= Len(s)
    BY <1>1, <1>2, <1>3, <2>1 DEF Range
  <2>2. CASE i > Len(s)
    <3>1. i - Len(s) \in 1..Len(t) /\ (s \o t)[i] = t[i - Len(s)]
      BY <1>1, <1>2, <2>2
    <3>2. QED
      BY <1>2, <3>1 DEF Range
  <2>3. QED
    BY <1>1, <1>2, <2>1, <2>2
<1>6. Range(s \o t) \subseteq Range(s) \cup Range(t)
  BY <1>5 DEF Range
<1>7. Range(s) \subseteq Range(s \o t)
  BY <1>2, <1>3 DEF Range
<1>8. Range(t) \subseteq Range(s \o t)
  BY <1>2, <1>4 DEF Range
<1>9. QED
  BY <1>1, <1>6, <1>7, <1>8

\* What a call adds to the log: one entry, under a number that is greater than the others.
LEMMA OneEntry ==
  ASSUME TaskInv, NEW e \in Entries, Logged(e), e.call = Len(receipts)
  PROVE  /\ log' \in Seq(Entries) /\ log' # <<>>
         /\ Range(log') = Range(log) \cup {e}
         /\ e \notin Range(log)
         /\ \A d \in Range(log) : d.call < e.call /\ d \in Entries
<1> USE DEF TaskInv, TaskTypeOK
<1>1. \A d \in Range(log) : d.call < e.call /\ d \in Entries
  BY DEF CallsNumbered, Range
<1>2. e \notin Range(log)
  BY <1>1 DEF Entries
<1>3. PICK more \in Seq(Entries) : log' = log \o more /\ Range(more) = {e}
  <2>1. /\ <<e>> \in Seq(Entries) /\ DOMAIN <<e>> = {1} /\ <<e>>[1] = e
        /\ <<e, e>> \in Seq(Entries) /\ DOMAIN <<e, e>> = {1, 2}
        /\ <<e, e>>[1] = e /\ <<e, e>>[2] = e
    OBVIOUS
  <2>2. Range(<<e>>) = {e}
    BY <2>1 DEF Range
  <2>3. Range(<<e, e>>) = {e}
    BY <2>1 DEF Range
  <2>4. log' = log \o <<e>> \/ log' = log \o <<e, e>>
    BY DEF Logged
  <2>5. QED
    BY <2>1, <2>2, <2>3, <2>4
<1>4. log' \in Seq(Entries) /\ Range(log') = Range(log) \cup {e}
  BY <1>3, RangeOfConcat
<1>5. log' # <<>>
  <2>1. Range(<<>>) = {}
    BY DEF Range
  <2>2. QED
    BY <1>4, <2>1
<1>6. QED
  BY <1>1, <1>2, <1>4, <1>5

\* The log shows the calls of the task after a call only if it showed them before it.
LEMMA LookedHonest ==
  ASSUME TaskInv, NEW e \in Entries, Logged(e), e.call = Len(receipts), LooksHonest'
  PROVE  \/ log = <<>> /\ e.tool = "prepare" /\ e.root /\ e.args = OwnRequest
         \/ /\ \E p \in Range(log) : LooksPrepared(p)
            /\ e.tool = "finalize" /\ e.root /\ e.ok /\ e.args.rid = OwnRequest.rid
<1>1. /\ log' # <<>>
      /\ Range(log') = Range(log) \cup {e}
      /\ e \notin Range(log)
      /\ \A d \in Range(log) : d.call < e.call /\ d \in Entries
  BY OneEntry
<1>2. log = <<>> \/ Range(log) # {}
  <2>1. log \in Seq(Entries)
    BY DEF TaskInv, TaskTypeOK
  <2>2. ASSUME log # <<>> PROVE 1 \in DOMAIN log
    BY <2>1, <2>2
  <2>3. QED
    BY <2>2 DEF Range
<1>3. ASSUME NEW p \in Range(log'), LooksPrepared(p)'
      PROVE  log = <<>> /\ e.tool = "prepare" /\ e.root /\ e.args = OwnRequest
  <2>1. Range(log') = {p} /\ p.tool = "prepare" /\ p.root /\ p.args = OwnRequest
    BY <1>3 DEF LooksPrepared
  <2>2. p = e /\ Range(log) = {}
    BY <1>1, <2>1
  <2>3. QED
    BY <1>2, <2>1, <2>2
<1>4. ASSUME NEW p \in Range(log'), NEW f \in Range(log'), FlowHolds(p, f)'
      PROVE  /\ \E q \in Range(log) : LooksPrepared(q)
             /\ e.tool = "finalize" /\ e.root /\ e.ok /\ e.args.rid = OwnRequest.rid
  <2>1. /\ Range(log') = {p, f} /\ p.call < f.call
        /\ p.tool = "prepare" /\ p.root /\ p.ok /\ p.args = OwnRequest
        /\ f.tool = "finalize" /\ f.root /\ f.ok /\ f.args.rid = OwnRequest.rid
    BY <1>4 DEF FlowHolds
  <2>2. p \in Entries /\ f \in Entries
    BY <1>1
  <2>3. p # f
    BY <2>1
  <2>4. e # p
    <3>1. SUFFICES ASSUME e = p PROVE FALSE
      OBVIOUS
    <3>2. f \in Range(log)
      BY <1>1, <2>3, <3>1
    <3>3. f.call < e.call
      BY <1>1, <3>2
    <3>4. QED
      BY <2>1, <2>2, <3>1, <3>3 DEF Entries
  <2>5. e = f /\ Range(log) = {p}
    BY <1>1, <2>1, <2>3, <2>4
  <2>6. p \in Range(log) /\ LooksPrepared(p)
    BY <2>1, <2>5 DEF LooksPrepared
  <2>7. QED
    BY <2>1, <2>5, <2>6
<1>5. (\E p \in Range(log') : LooksPrepared(p)') \/ (\E p, f \in Range(log') : FlowHolds(p, f)')
  BY <1>1 DEF LooksHonest
<1>6. QED
  BY <1>3, <1>4, <1>5

\* The calls of the task look like it.
LEMMA HonestLooks == HonestCalls' => LooksHonest'
<1>1. ASSUME OneCall' PROVE LooksHonest'
  <2>1. PrepareEntry \in Range(log') /\ LooksPrepared(PrepareEntry)'
    BY <1>1 DEF OneCall, LooksPrepared, PrepareEntry
  <2>2. QED
    BY <2>1 DEF LooksHonest
<1>2. ASSUME TwoCalls' PROVE LooksHonest'
  <2>1. PrepareEntry' \in Range(log') /\ FinalizeEntry' \in Range(log')
    BY <1>2 DEF TwoCalls
  <2>2. FlowHolds(PrepareEntry, FinalizeEntry)'
    BY <1>2 DEF TwoCalls, FlowHolds, PrepareEntry, FinalizeEntry, FinalizeArgs
  <2>3. QED
    BY <2>1, <2>2 DEF LooksHonest
<1>3. NoCalls' => LooksHonest'
  BY DEF NoCalls, LooksHonest
<1>4. QED
  BY <1>1, <1>2, <1>3 DEF HonestCalls

LEMMA PrepareHolds ==
  ASSUME TaskAssumption, TaskInv, NEW req \in TaskRequests, NEW root \in BOOLEAN,
         CallPrepare(req, root)
  PROVE  TaskInv'
<1> DEFINE ok == prepared[req.rid] \in {None, req}
           e == Entry("prepare", req, ok, root)
<1>1. /\ answer = None /\ result = None /\ answer' = None /\ result' = None
      /\ UNCHANGED <<remediable, mirrored, final>>
  BY DEF CallPrepare, CanCall, TaskInv, HonestyOK
<1>2. req.rid \in TaskRids /\ OwnRequest.rid \in TaskRids /\ OwnRequest \in TaskRequests
  BY DEF TaskRids, TaskAssumption
<1>3. /\ prepared' = [prepared EXCEPT ![req.rid] = IF ok THEN req ELSE @]
      /\ receipts' = Append(receipts, PrepareReceipt(req, ok))
      /\ Logged(e)
      /\ honest' = (honest /\ req = OwnRequest /\ root /\ log = <<>>)
  BY DEF CallPrepare
<1>4. e \in Entries /\ e.call = Len(receipts)
  BY DEF TaskInv, TaskTypeOK, Entry, Entries, Arguments
<1>5. PrepareReceipt(req, ok) \in Receipts
  BY <1>2 DEF PrepareReceipt, Receipts, Arguments, CandidateOf
<1>6. /\ log' \in Seq(Entries) /\ log' # <<>>
      /\ Range(log') = Range(log) \cup {e}
      /\ \A d \in Range(log) : d.call < e.call /\ d \in Entries
  BY <1>3, <1>4, OneEntry
<1>7. TaskTypeOK'
  BY <1>1, <1>2, <1>3, <1>5, <1>6 DEF TaskInv, TaskTypeOK
<1>8. CallsNumbered'
  BY <1>3, <1>4, <1>5, <1>6 DEF CallsNumbered, TaskInv, TaskTypeOK, Entries
<1>9. ASSUME log = <<>>, req = OwnRequest, root, honest
      PROVE  HonestCalls'
  <2>1. NoCalls
    BY <1>9 DEF TaskInv, HonestyOK, HonestCalls, OneCall, TwoCalls, Range
  <2>2. ok /\ receipts = <<>> /\ Range(log) = {}
    BY <1>9, <2>1 DEF NoCalls, Range
  <2>3. e = PrepareEntry
    BY <1>9, <2>2 DEF Entry, PrepareEntry
  <2>4. receipts' = <<OwnPrepare>> /\ OwnPrepare' = OwnPrepare
    <3>1. receipts' = Append(<<>>, PrepareReceipt(OwnRequest, TRUE))
      BY <1>3, <1>9, <2>2
    <3>2. OwnPrepare' = OwnPrepare
      BY <1>1 DEF OwnPrepare, PrepareReceipt, CandidateOf
    <3>3. Append(<<>>, OwnPrepare) = <<OwnPrepare>>
      OBVIOUS
    <3>4. QED
      BY <3>1, <3>2, <3>3 DEF OwnPrepare
  <2>5. prepared'[OwnRequest.rid] = OwnRequest /\ final'[OwnRequest.rid] = None
    BY <1>1, <1>2, <1>3, <1>9, <2>1, <2>2 DEF NoCalls, TaskInv, TaskTypeOK
  <2>6. PrepareEntry' = PrepareEntry
    BY DEF PrepareEntry
  <2>7. OneCall'
    BY <1>6, <2>2, <2>3, <2>4, <2>5, <2>6 DEF OneCall
  <2>8. QED
    BY <2>7 DEF HonestCalls
<1>10. log = <<>> => honest
  BY <1>1 DEF TaskInv, HonestyOK, LooksHonest
<1>11. LooksHonest' => (log = <<>> /\ req = OwnRequest /\ root)
  BY <1>3, <1>4, LookedHonest DEF Entry
<1>12. HonestCalls' => LooksHonest'
  BY HonestLooks
<1>13. HonestyOK'
  BY <1>1, <1>3, <1>9, <1>10, <1>11, <1>12 DEF HonestyOK
<1>14. WorkerIsBelieved'
  BY <1>1 DEF TaskAssumption, WorkerIsBelieved, OnlyTheServicesCandidate, NothingElseWasCalled,
         HonestWorkerBelieved
<1>15. QED
  BY <1>7, <1>8, <1>13, <1>14 DEF TaskInv

LEMMA TaskFinalizeHolds ==
  ASSUME TaskAssumption, TaskInv, NEW d \in TaskRequests, NEW c \in {d, None},
         NEW root \in BOOLEAN, CallFinalize(d, c, root)
  PROVE  TaskInv'
<1> DEFINE ok == prepared[d.rid] = d /\ c = CandidateOf(d)
           r == FinalizeReceipt(d, c, ok)
           e == Entry("finalize", FinalizeArgs(d, c), ok, root)
<1>1. /\ answer = None /\ result = None /\ answer' = None /\ result' = None
      /\ UNCHANGED <<remediable, mirrored, prepared>>
  BY DEF CallFinalize, CanCall, TaskInv, HonestyOK
<1>2. d.rid \in TaskRids /\ OwnRequest.rid \in TaskRids /\ OwnRequest \in TaskRequests
  BY DEF TaskRids, TaskAssumption
<1>3. /\ final' = [final EXCEPT ![d.rid] = IF ok THEN FinalOutput(d) ELSE @]
      /\ Logged(e)
      /\ receipts' = receipts \o <<r>> \/ receipts' = receipts \o <<r, r>>
      /\ honest' = (honest /\ d.rid = OwnRequest.rid /\ ok /\ root
                           /\ \A q \in Range(log) : q.tool = "prepare")
  BY DEF CallFinalize
<1>4. FinalizeArgs(d, c) \in Arguments
  BY <1>2 DEF FinalizeArgs, Arguments
<1>5. e \in Entries /\ e.call = Len(receipts) /\ e.tool = "finalize" /\ e.args = FinalizeArgs(d, c)
      /\ e.ok = ok /\ e.root = root
  BY <1>4 DEF TaskInv, TaskTypeOK, Entry, Entries
<1>6. FinalOutput(d) \in Outputs /\ FinalOutput(d) # None
  BY OutputIs
<1>7. r \in Receipts
  BY <1>2, <1>4, <1>6 DEF FinalizeReceipt, Receipts
<1>8. /\ log' \in Seq(Entries) /\ log' # <<>>
      /\ Range(log') = Range(log) \cup {e}
      /\ \A q \in Range(log) : q.call < e.call /\ q \in Entries
  BY <1>3, <1>5, OneEntry
<1>9. receipts' \in Seq(Receipts) /\ Len(receipts') > Len(receipts)
  <2> HIDE DEF r
  <2>1. receipts \in Seq(Receipts) /\ <<r>> \in Seq(Receipts) /\ <<r, r>> \in Seq(Receipts)
    BY <1>7 DEF TaskInv, TaskTypeOK
  <2>2. Len(<<r>>) = 1 /\ Len(<<r, r>>) = 2
    OBVIOUS
  <2>3. CASE receipts' = receipts \o <<r>>
    BY <2>1, <2>2, <2>3, RangeOfConcat
  <2>4. CASE receipts' = receipts \o <<r, r>>
    BY <2>1, <2>2, <2>4, RangeOfConcat
  <2>5. QED
    BY <1>3, <2>3, <2>4
<1>10. TaskTypeOK'
  BY <1>1, <1>2, <1>3, <1>6, <1>8, <1>9 DEF TaskInv, TaskTypeOK
<1>11. CallsNumbered'
  <2>1. Len(receipts) \in Nat /\ Len(receipts') \in Nat
    BY <1>9 DEF TaskInv, TaskTypeOK
  <2>2. QED
    BY <1>5, <1>8, <1>9, <2>1 DEF CallsNumbered, TaskInv, Entries
<1>12. ASSUME honest, d.rid = OwnRequest.rid, ok, root, \A q \in Range(log) : q.tool = "prepare"
       PROVE  HonestCalls'
  <2>1. HonestCalls
    BY <1>12 DEF TaskInv, HonestyOK
  <2>2. ~TwoCalls
    <3>1. FinalizeEntry.tool = "finalize"
      BY DEF FinalizeEntry
    <3>2. QED
      BY <1>12, <3>1 DEF TwoCalls
  <2>3. ~NoCalls
    BY <1>12 DEF NoCalls, TaskAssumption
  <2>4. OneCall
    BY <2>1, <2>2, <2>3 DEF HonestCalls
  <2>5. d = OwnRequest /\ c = OwnCandidate
    BY <1>12, <2>4 DEF OneCall, OwnCandidate
  <2>6. Len(receipts) = 1 /\ receipts = <<OwnPrepare>>
    BY <2>4 DEF OneCall
  <2>7. e = FinalizeEntry
    BY <1>12, <2>5, <2>6 DEF Entry, FinalizeEntry
  <2>8. r = OwnFinalize
    BY <1>12, <2>5 DEF OwnFinalize
  <2>9. receipts' = <<OwnPrepare, OwnFinalize>> \/ receipts' = <<OwnPrepare, OwnFinalize, OwnFinalize>>
    BY <1>3, <2>6, <2>8
  <2>10. /\ OwnCandidate' = OwnCandidate /\ OwnPrepare' = OwnPrepare
         /\ FinalOutput(OwnRequest)' = FinalOutput(OwnRequest)
    BY <1>1 DEF OwnCandidate, OwnPrepare, PrepareReceipt, CandidateOf, FinalOutput
  <2>11. OwnFinalize' = OwnFinalize /\ FinalizeEntry' = FinalizeEntry /\ PrepareEntry' = PrepareEntry
    BY <2>10 DEF OwnFinalize, FinalizeReceipt, FinalizeEntry, PrepareEntry
  <2>12. final'[OwnRequest.rid] = FinalOutput(OwnRequest) /\ prepared'[OwnRequest.rid] = OwnRequest
    BY <1>1, <1>2, <1>3, <1>12, <2>4, <2>5 DEF OneCall, TaskInv, TaskTypeOK
  <2>13. TwoCalls'
    BY <1>8, <2>4, <2>7, <2>9, <2>10, <2>11, <2>12 DEF TwoCalls, OneCall
  <2>14. QED
    BY <2>13 DEF HonestCalls
<1>13. ASSUME LooksHonest'
       PROVE  /\ honest /\ d.rid = OwnRequest.rid /\ ok /\ root
              /\ \A q \in Range(log) : q.tool = "prepare"
  <2>1. /\ \E p \in Range(log) : LooksPrepared(p)
        /\ e.root /\ e.ok /\ e.args.rid = OwnRequest.rid
    BY <1>3, <1>5, <1>13, LookedHonest
  <2>2. honest
    BY <1>1, <2>1 DEF TaskInv, HonestyOK, LooksHonest
  <2>3. \A q \in Range(log) : q.tool = "prepare"
    BY <2>1 DEF LooksPrepared
  <2>4. FinalizeArgs(d, c).rid = d.rid
    BY DEF FinalizeArgs
  <2>5. root /\ d.rid = OwnRequest.rid
    BY <1>5, <2>1, <2>4
  <2>6. ok
    BY <1>5, <2>1
  <2>7. QED
    BY <2>2, <2>3, <2>5, <2>6
<1>14. HonestCalls' => LooksHonest'
  BY HonestLooks
<1>15. HonestyOK'
  BY <1>1, <1>3, <1>12, <1>13, <1>14 DEF HonestyOK
<1>16. WorkerIsBelieved'
  BY <1>1 DEF TaskAssumption, WorkerIsBelieved, OnlyTheServicesCandidate, NothingElseWasCalled,
         HonestWorkerBelieved
<1>17. QED
  BY <1>10, <1>11, <1>15, <1>16 DEF TaskInv

\* What the worker answers and what is decided change nothing of the calls.
LEMMA CallsStay ==
  ASSUME UNCHANGED <<remediable, mirrored, prepared, final, log, receipts>>
  PROVE  (HonestCalls' <=> HonestCalls) /\ (LooksHonest' <=> LooksHonest)
BY DEF HonestCalls, NoCalls, OneCall, TwoCalls, LooksHonest, LooksPrepared, FlowHolds,
       PrepareEntry, FinalizeEntry, OwnPrepare, OwnFinalize, OwnCandidate, PrepareReceipt,
       FinalizeReceipt, FinalizeArgs, CandidateOf, FinalOutput

LEMMA AnswerHolds == ASSUME TaskAssumption, TaskInv, Answer PROVE TaskInv'
<1>1. /\ answer = None /\ result = None /\ result' = None
      /\ UNCHANGED <<remediable, mirrored, prepared, final, log, receipts>>
  BY DEF Answer, TaskInv, HonestyOK
<1>2. (HonestCalls' <=> HonestCalls) /\ (LooksHonest' <=> LooksHonest)
  BY <1>1, CallsStay
<1>3. PICK a \in ({final[r] : r \in TaskRids} \ {None})
                   \cup {[FinalOutput(OwnRequest) EXCEPT !.candidate = c] : c \in TaskRequests},
           errors \in BOOLEAN :
        /\ answer' = [a EXCEPT !.errors = errors]
        /\ honest' = (honest /\ final[OwnRequest.rid] # None
                             /\ answer' \in {final[OwnRequest.rid],
                                             [final[OwnRequest.rid] EXCEPT !.errors = FALSE]})
  BY DEF Answer
<1>4. a \in Outputs
  BY DEF TaskInv, TaskTypeOK, FinalOutput, Outputs, TaskAssumption
<1>5. answer' \in Outputs /\ answer' # None
  BY <1>3, <1>4 DEF Outputs, TaskAssumption
<1>6. TaskTypeOK'
  BY <1>1, <1>3, <1>5 DEF TaskInv, TaskTypeOK
<1>7. CallsNumbered'
  BY <1>1 DEF TaskInv, CallsNumbered
<1>8. HonestAnswer' <=> (/\ final[OwnRequest.rid] # None
                         /\ answer' \in {final[OwnRequest.rid],
                                         [final[OwnRequest.rid] EXCEPT !.errors = FALSE]})
  BY <1>1 DEF HonestAnswer
<1>9. HonestyOK'
  BY <1>1, <1>2, <1>3, <1>5, <1>8 DEF TaskInv, HonestyOK
<1>10. WorkerIsBelieved'
  BY <1>1 DEF TaskAssumption, WorkerIsBelieved, OnlyTheServicesCandidate, NothingElseWasCalled,
         HonestWorkerBelieved
<1>11. QED
  BY <1>6, <1>7, <1>9, <1>10 DEF TaskInv

\* A task that is believed made its two calls, and answered what it was told.
LEMMA BelievedIsHonest ==
  ASSUME TaskAssumption, TaskInv, answer # None, Believed
  PROVE  /\ honest
         /\ prepared[OwnRequest.rid] = OwnRequest
         /\ final[OwnRequest.rid] # None
         /\ answer.candidate = final[OwnRequest.rid].candidate
         /\ answer.candidate = CandidateOf(OwnRequest)
         /\ answer.candidate # None
<1>1. PICK p \in Range(log), f \in Range(log), i \in DOMAIN receipts, j \in DOMAIN receipts :
        /\ FlowHolds(p, f)
        /\ ReceiptsCount(i, j)
        /\ FinalHolds(receipts[j])
  BY DEF Believed
<1>2. HonestCalls
  BY <1>1 DEF TaskInv, HonestyOK, LooksHonest
<1>3. TwoCalls
  <2>1. p # f /\ p \in Range(log) /\ f \in Range(log) /\ f.tool = "finalize"
    BY <1>1 DEF FlowHolds
  <2>2. ~NoCalls
    BY <2>1 DEF NoCalls, Range
  <2>3. ~OneCall
    BY <2>1 DEF OneCall
  <2>4. QED
    BY <1>2, <2>2, <2>3 DEF HonestCalls
<1>4. receipts[j] = OwnFinalize
  <2>1. receipts[j].tool = "finalize"
    BY <1>1 DEF ReceiptsCount, Matching
  <2>2. receipts[j] \in {OwnPrepare, OwnFinalize}
    BY <1>3 DEF TwoCalls
  <2>3. OwnPrepare.tool = "prepare"
    BY DEF OwnPrepare, PrepareReceipt
  <2>4. QED
    BY <2>1, <2>2, <2>3
<1>5. OwnFinalize.output = FinalOutput(OwnRequest) /\ OwnFinalize.candidate = OwnCandidate
  BY DEF OwnFinalize, FinalizeReceipt
<1>6. /\ FinalOutput(OwnRequest) \in Outputs /\ FinalOutput(OwnRequest) # None
      /\ FinalOutput(OwnRequest).candidate = OwnCandidate
      /\ FinalOutput(OwnRequest).errors = TRUE
  <2>1. OwnRequest \in TaskRequests
    BY DEF TaskAssumption
  <2>2. /\ FinalOutput(OwnRequest).candidate = OwnCandidate
        /\ FinalOutput(OwnRequest).errors = TRUE
    BY DEF FinalOutput, OwnCandidate
  <2>3. QED
    BY <2>1, <2>2, OutputIs
<1>7. answer \in Outputs
  BY DEF TaskInv, TaskTypeOK
<1>8. answer = FinalOutput(OwnRequest) \/ answer = [FinalOutput(OwnRequest) EXCEPT !.errors = FALSE]
  <2>1. \/ answer = FinalOutput(OwnRequest)
        \/ ~answer.errors /\ [answer EXCEPT !.errors = TRUE] = FinalOutput(OwnRequest)
    BY <1>1, <1>4, <1>5 DEF FinalHolds
  <2>2. QED
    BY <1>6, <1>7, <2>1 DEF Outputs
<1>9. answer.candidate # None /\ answer.candidate = OwnCandidate
  BY <1>1, <1>4, <1>5 DEF FinalHolds
<1>10. final[OwnRequest.rid] = FinalOutput(OwnRequest) /\ prepared[OwnRequest.rid] = OwnRequest
  BY <1>3 DEF TwoCalls
<1>11. HonestAnswer
  BY <1>6, <1>8, <1>10 DEF HonestAnswer
<1>12. honest
  BY <1>2, <1>11 DEF TaskInv, HonestyOK
<1>13. QED
  BY <1>6, <1>9, <1>10, <1>12 DEF OwnCandidate

\* A worker that made its two calls and answered what it was told is believed.
LEMMA HonestIsBelieved ==
  ASSUME TaskAssumption, TaskInv, answer # None, honest, CandidateOf(OwnRequest) # None
  PROVE  Believed
<1>1. HonestCalls /\ HonestAnswer
  BY DEF TaskInv, HonestyOK
<1>2. TwoCalls
  BY <1>1 DEF HonestAnswer, HonestCalls, NoCalls, OneCall
<1>3. PrepareEntry \in Range(log) /\ FinalizeEntry \in Range(log)
  BY <1>2 DEF TwoCalls
<1>4. FlowHolds(PrepareEntry, FinalizeEntry)
  BY <1>2 DEF TwoCalls, FlowHolds, PrepareEntry, FinalizeEntry, FinalizeArgs
<1>5. /\ OwnPrepare.tool = "prepare" /\ OwnPrepare.rid = OwnRequest.rid
      /\ OwnFinalize.tool = "finalize" /\ OwnFinalize.rid = OwnRequest.rid
  BY DEF OwnPrepare, PrepareReceipt, OwnFinalize, FinalizeReceipt
<1>6. /\ 1 \in DOMAIN receipts /\ 2 \in DOMAIN receipts /\ ReceiptsCount(1, 2)
      /\ receipts[1] = OwnPrepare /\ receipts[2] = OwnFinalize
  <2>1. CASE receipts = <<OwnPrepare, OwnFinalize>>
    <3>1. DOMAIN receipts = {1, 2} /\ receipts[1] = OwnPrepare /\ receipts[2] = OwnFinalize
      BY <2>1
    <3>2. Matching("prepare") = {1} /\ Matching("finalize") = {2}
      BY <1>5, <3>1 DEF Matching
    <3>3. QED
      BY <3>1, <3>2 DEF ReceiptsCount
  <2>2. CASE receipts = <<OwnPrepare, OwnFinalize, OwnFinalize>>
    <3>1. /\ DOMAIN receipts = {1, 2, 3} /\ receipts[1] = OwnPrepare
          /\ receipts[2] = OwnFinalize /\ receipts[3] = OwnFinalize
      BY <2>2
    <3>2. Matching("prepare") = {1} /\ Matching("finalize") = {2, 3}
      BY <1>5, <3>1 DEF Matching
    <3>3. QED
      BY <3>1, <3>2 DEF ReceiptsCount
  <2>3. QED
    BY <1>2, <2>1, <2>2 DEF TwoCalls
<1>7. ReceiptsHold(receipts[1], receipts[2], FinalizeEntry.args)
  <2>1. /\ OwnPrepare.args = OwnRequest /\ OwnPrepare.ok /\ OwnPrepare.ready
        /\ OwnPrepare.candidate = OwnCandidate /\ OwnPrepare.digest = OwnRequest
    BY DEF OwnPrepare, PrepareReceipt, OwnCandidate
  <2>2. /\ OwnFinalize.args = FinalizeEntry.args /\ OwnFinalize.ok /\ OwnFinalize.ready
        /\ OwnFinalize.candidate = OwnCandidate /\ OwnFinalize.digest = OwnRequest
    BY DEF OwnFinalize, FinalizeReceipt, FinalizeEntry, OwnCandidate
  <2>3. FinalizeEntry.args.digest = OwnRequest
    BY DEF FinalizeEntry, FinalizeArgs
  <2>4. QED
    BY <1>6, <2>1, <2>2, <2>3 DEF ReceiptsHold
<1>8. FinalHolds(receipts[2])
  <2>1. /\ receipts[2].output = FinalOutput(OwnRequest)
        /\ receipts[2].candidate = CandidateOf(OwnRequest)
    BY <1>6 DEF OwnFinalize, FinalizeReceipt, OwnCandidate
  <2>2. FinalOutput(OwnRequest) = [req |-> OwnRequest, candidate |-> CandidateOf(OwnRequest),
                                   errors |-> TRUE]
    BY DEF FinalOutput
  <2>3. \/ answer = FinalOutput(OwnRequest)
        \/ answer = [FinalOutput(OwnRequest) EXCEPT !.errors = FALSE]
    BY <1>1, <1>2 DEF HonestAnswer, TwoCalls
  <2>4. CandidateOf(OwnRequest) # None
    OBVIOUS
  <2>5. CASE answer = FinalOutput(OwnRequest)
    BY <2>1, <2>2, <2>4, <2>5 DEF FinalHolds
  <2>6. CASE answer = [FinalOutput(OwnRequest) EXCEPT !.errors = FALSE]
    <3>1. FinalOutput(OwnRequest) \in Outputs
      BY OutputIs DEF TaskAssumption
    <3>2. /\ answer.req = OwnRequest /\ answer.candidate = CandidateOf(OwnRequest)
          /\ answer.errors = FALSE /\ [answer EXCEPT !.errors = TRUE] = FinalOutput(OwnRequest)
      <4> DEFINE o == FinalOutput(OwnRequest)
      <4>1. /\ o \in Outputs /\ o.errors = TRUE /\ o.req = OwnRequest
            /\ o.candidate = CandidateOf(OwnRequest) /\ answer = [o EXCEPT !.errors = FALSE]
        BY <2>2, <2>6, <3>1
      <4> HIDE DEF o
      <4>2. /\ answer.req = o.req /\ answer.candidate = o.candidate /\ answer.errors = FALSE
            /\ [answer EXCEPT !.errors = TRUE] = o
        BY Zenon, <4>1, ErrorsLeftOut
      <4>3. QED
        BY <4>1, <4>2 DEF o
    <3>3. ~answer.errors /\ [answer EXCEPT !.errors = TRUE] = receipts[2].output
      BY <2>1, <3>2
    <3>4. answer.candidate # None /\ answer.candidate = receipts[2].candidate
      BY <2>1, <2>4, <3>2
    <3>5. QED
      BY <3>2, <3>3, <3>4, Zenon DEF FinalHolds
  <2>7. QED
    BY <2>3, <2>5, <2>6
<1>9. QED
  BY <1>3, <1>4, <1>6, <1>7, <1>8 DEF Believed

LEMMA DecideHolds == ASSUME TaskAssumption, TaskInv, Decide PROVE TaskInv'
<1>1. /\ answer # None
      /\ result' = IF Believed THEN "succeeded" ELSE "failed"
      /\ UNCHANGED <<remediable, mirrored, prepared, final, log, receipts, answer, honest>>
  BY DEF Decide
<1>2. (HonestCalls' <=> HonestCalls) /\ (LooksHonest' <=> LooksHonest)
  BY <1>1, CallsStay
<1>3. TaskTypeOK' /\ CallsNumbered'
  BY <1>1 DEF TaskInv, TaskTypeOK, CallsNumbered
<1>4. HonestyOK'
  BY <1>1, <1>2 DEF TaskInv, HonestyOK, HonestAnswer
<1>5. CandidateOf(OwnRequest)' = CandidateOf(OwnRequest)
  BY <1>1 DEF CandidateOf
<1>6. ASSUME Believed PROVE WorkerIsBelieved'
  BY <1>1, <1>5, <1>6, BelievedIsHonest
  DEF WorkerIsBelieved, OnlyTheServicesCandidate, NothingElseWasCalled, HonestWorkerBelieved
<1>7. ASSUME ~Believed PROVE WorkerIsBelieved'
  BY <1>1, <1>5, <1>7, HonestIsBelieved
  DEF WorkerIsBelieved, OnlyTheServicesCandidate, NothingElseWasCalled, HonestWorkerBelieved
<1>8. QED
  <2>1. WorkerIsBelieved'
    BY <1>6, <1>7
  <2>2. QED
    BY <1>3, <1>4, <2>1 DEF TaskInv

LEMMA TaskNextHolds == ASSUME TaskAssumption, TaskInv, TaskNext PROVE TaskInv'
BY PrepareHolds, TaskFinalizeHolds, AnswerHolds, DecideHolds DEF TaskNext

LEMMA TaskStutterHolds == ASSUME TaskInv, UNCHANGED taskVars PROVE TaskInv'
<1>1. UNCHANGED <<remediable, mirrored, prepared, final, log, receipts, answer, result, honest>>
  BY DEF taskVars
<1>2. (HonestCalls' <=> HonestCalls) /\ (LooksHonest' <=> LooksHonest)
  BY <1>1, CallsStay
<1>3. TaskTypeOK' /\ CallsNumbered' /\ HonestyOK'
  BY <1>1, <1>2 DEF TaskInv, TaskTypeOK, CallsNumbered, HonestyOK, HonestAnswer
<1>4. WorkerIsBelieved'
  BY <1>1 DEF TaskInv, WorkerIsBelieved, OnlyTheServicesCandidate, NothingElseWasCalled,
              HonestWorkerBelieved, CandidateOf
<1>5. QED
  BY <1>3, <1>4 DEF TaskInv

\* A remediation task that succeeds answers the candidate the service finalized for its very
\* request and its worker did nothing else, and a worker that did just its two calls is
\* believed, for any requests, any number of calls and any findings with a patch.
THEOREM WorkerBelieved == ASSUME TaskAssumption PROVE TaskSpec => []WorkerIsBelieved
<1>1. TaskInit => TaskInv
  BY TaskInitHolds
<1>2. TaskInv /\ [TaskNext]_taskVars => TaskInv'
  BY TaskNextHolds, TaskStutterHolds
<1>3. TaskInv => WorkerIsBelieved
  BY DEF TaskInv
<1>4. QED
  BY <1>1, <1>2, <1>3, PTL DEF TaskSpec

-----------------------------------------------------------------------------
(* Stores: sequences whose elements differ in their ids.                   *)

IsStore(S, s) ==
  /\ s \in Seq(S)
  /\ \A i, j \in DOMAIN s : s[i].id = s[j].id => i = j

LEMMA GetIs ==
  ASSUME NEW S, NEW s, IsStore(S, s), NEW id \in Ids(s)
  PROVE  /\ Place(s, id) \in DOMAIN s
         /\ Get(s, id) \in Range(s) /\ Get(s, id).id = id /\ Get(s, id) \in S
         /\ \A e \in Range(s) : e.id = id => e = Get(s, id)
<1>1. PICK i \in DOMAIN s : s[i].id = id
  BY DEF Ids, Range
<1>2. Place(s, id) \in DOMAIN s /\ s[Place(s, id)].id = id
  BY <1>1 DEF Place
<1>3. \A j \in DOMAIN s : s[j].id = id => j = Place(s, id)
  BY <1>2 DEF IsStore
<1>4. Get(s, id) \in Range(s) /\ Get(s, id).id = id /\ Get(s, id) \in S
  BY <1>2 DEF Get, Range, IsStore
<1>5. \A e \in Range(s) : e.id = id => e = Get(s, id)
  BY <1>3 DEF Get, Range
<1>6. QED
  BY <1>2, <1>4, <1>5

LEMMA RemoveAtIs ==
  ASSUME NEW S, NEW s \in Seq(S), NEW k \in DOMAIN s
  PROVE  /\ RemoveAt(s, k) \in Seq(S)
         /\ Len(RemoveAt(s, k)) = Len(s) - 1
         /\ DOMAIN RemoveAt(s, k) = 1..(Len(s) - 1)
         /\ \A i \in 1..(Len(s) - 1) : RemoveAt(s, k)[i] = IF i < k THEN s[i] ELSE s[i + 1]
<1>1. k \in 1..Len(s) /\ Len(s) \in Nat
  OBVIOUS
<1> DEFINE a == SubSeq(s, 1, k - 1)
           b == SubSeq(s, k + 1, Len(s))
<1>5. RemoveAt(s, k) = a \o b
  BY Zenon DEF RemoveAt
<1>2. /\ a \in Seq(S) /\ Len(a) = k - 1
      /\ \A i \in 1..(k - 1) : a[i] = s[i]
  BY <1>1
<1>3. /\ b \in Seq(S) /\ Len(b) = Len(s) - k
      /\ \A i \in 1..(Len(s) - k) : b[i] = s[k + i]
  BY <1>1
<1> HIDE DEF a, b
<1>4. /\ a \o b \in Seq(S) /\ Len(a \o b) = Len(s) - 1
      /\ \A i \in 1..(Len(s) - 1) : (a \o b)[i] = IF i < k THEN s[i] ELSE s[i + 1]
  <2>1. a \o b \in Seq(S) /\ Len(a \o b) = Len(s) - 1
    BY <1>1, <1>2, <1>3, ConcatProperties
  <2>2. ASSUME NEW i \in 1..(Len(s) - 1)
        PROVE  (a \o b)[i] = IF i < k THEN s[i] ELSE s[i + 1]
    <3>1. CASE i < k
      BY <1>1, <1>2, <1>3, <3>1
    <3>2. CASE i >= k
      <4>1. i - (k - 1) \in 1..(Len(s) - k)
        BY <1>1, <3>2
      <4>2. (a \o b)[i] = b[i - (k - 1)]
        <5>1. i > Len(a) /\ i <= Len(a) + Len(b) /\ i \in Nat
          BY <1>1, <1>2, <1>3, <3>2
        <5>2. (a \o b)[i] = IF i <= Len(a) THEN a[i] ELSE b[i - Len(a)]
          <6>1. i \in 1..Len(a) + Len(b)
            BY <1>1, <1>2, <1>3, <3>2
          <6>2. QED
            BY Zenon, <1>2, <1>3, <6>1, ConcatProperties
        <5>3. ~(i <= Len(a))
          BY <1>1, <1>2, <5>1
        <5>4. (a \o b)[i] = b[i - Len(a)]
          BY Zenon, <5>2, <5>3
        <5>5. QED
          BY Zenon, <1>2, <5>4
      <4>3. b[i - (k - 1)] = s[k + (i - (k - 1))]
        BY <1>3, <4>1
      <4>4. k + (i - (k - 1)) = i + 1
        BY <1>1
      <4>5. QED
        BY <3>2, <4>2, <4>3, <4>4
    <3>3. i < k \/ i >= k
      BY <1>1
    <3>4. QED
      BY Zenon, <3>1, <3>2, <3>3
  <2>3. QED
    BY <2>1, <2>2
<1>6. QED
  BY <1>4, <1>5

LEMMA WithoutIs ==
  ASSUME NEW S, NEW s, IsStore(S, s), NEW id \in Ids(s)
  PROVE  /\ IsStore(S, Without(s, id))
         /\ Len(Without(s, id)) = Len(s) - 1
         /\ Range(Without(s, id)) = Range(s) \ {Get(s, id)}
<1> DEFINE k == Place(s, id)
           w == Without(s, id)
<1>1. /\ k \in DOMAIN s /\ Get(s, id) = s[k] /\ s \in Seq(S) /\ DOMAIN s = 1..Len(s)
      /\ Len(s) \in Nat
  BY GetIs DEF Get, IsStore
<1>2. /\ w \in Seq(S) /\ Len(w) = Len(s) - 1 /\ DOMAIN w = 1..(Len(s) - 1)
      /\ \A i \in 1..(Len(s) - 1) : w[i] = IF i < k THEN s[i] ELSE s[i + 1]
  BY <1>1, RemoveAtIs DEF Without
<1> HIDE DEF w, k
<1>3. \A i, j \in DOMAIN s : s[i].id = s[j].id => i = j
  BY DEF IsStore
<1>4. ASSUME NEW i \in DOMAIN w, NEW j \in DOMAIN w, w[i].id = w[j].id PROVE i = j
  <2> DEFINE up(n) == IF n < k THEN n ELSE n + 1
  <2>1. up(i) \in DOMAIN s /\ up(j) \in DOMAIN s
    BY <1>1, <1>2
  <2>2. w[i] = s[up(i)] /\ w[j] = s[up(j)]
    BY <1>1, <1>2
  <2>3. up(i) = up(j)
    BY <1>3, <1>4, <2>1, <2>2
  <2>4. i \in Nat /\ j \in Nat /\ k \in Nat
    BY <1>1, <1>2
  <2>5. QED
    BY <2>3, <2>4
<1>5. Range(w) \subseteq Range(s) \ {s[k]}
  <2>1. SUFFICES ASSUME NEW i \in DOMAIN w PROVE w[i] \in Range(s) \ {s[k]}
    BY DEF Range
  <2>2. PICK j \in DOMAIN s : w[i] = s[j] /\ j # k
    <3>1. CASE i < k
      BY <1>1, <1>2, <3>1
    <3>2. CASE i >= k
      <4>1. i + 1 \in DOMAIN s /\ w[i] = s[i + 1] /\ i + 1 # k
        BY <1>1, <1>2, <3>2
      <4>2. QED
        BY <4>1
    <3>3. QED
      BY <1>1, <1>2, <3>1, <3>2
  <2>3. s[j] # s[k]
    BY <1>1, <1>3, <2>2
  <2>4. QED
    BY <2>2, <2>3 DEF Range
<1>6. Range(s) \ {s[k]} \subseteq Range(w)
  <2>1. SUFFICES ASSUME NEW j \in DOMAIN s, j # k PROVE s[j] \in Range(w)
    BY DEF Range
  <2>2. CASE j < k
    <3>1. j \in DOMAIN w /\ w[j] = s[j]
      BY <1>1, <1>2, <2>2
    <3>2. QED
      BY <3>1 DEF Range
  <2>3. CASE j > k
    <3>1. j - 1 \in DOMAIN w /\ w[j - 1] = s[j]
      BY <1>1, <1>2, <2>3
    <3>2. QED
      BY <3>1 DEF Range
  <2>4. QED
    BY <1>1, <2>1, <2>2, <2>3
<1>7. IsStore(S, w)
  BY <1>2, <1>4 DEF IsStore
<1>8. QED
  BY <1>1, <1>2, <1>5, <1>6, <1>7 DEF w

LEMMA RangeOfAppend ==
  ASSUME NEW S, NEW s \in Seq(S), NEW e \in S
  PROVE  Range(Append(s, e)) = Range(s) \cup {e}
<1> DEFINE a == Append(s, e)
<1>1. /\ Len(s) \in Nat /\ DOMAIN s = 1..Len(s) /\ DOMAIN a = 1..(Len(s) + 1)
      /\ \A i \in 1..Len(s) : a[i] = s[i]
      /\ a[Len(s) + 1] = e
  OBVIOUS
<1> HIDE DEF a
<1>2. ASSUME NEW i \in DOMAIN a PROVE a[i] \in Range(s) \cup {e}
  BY <1>1 DEF Range
<1>3. ASSUME NEW i \in DOMAIN s PROVE s[i] \in Range(a)
  <2>1. i \in DOMAIN a /\ a[i] = s[i]
    BY <1>1
  <2>2. QED
    BY <2>1 DEF Range
<1>4. e \in Range(a)
  <2>1. Len(s) + 1 \in DOMAIN a
    BY <1>1
  <2>2. QED
    BY <1>1, <2>1 DEF Range
<1>5. Range(a) = Range(s) \cup {e}
  BY <1>2, <1>3, <1>4 DEF Range
<1>6. QED
  BY <1>5 DEF a

LEMMA AppendIs ==
  ASSUME NEW S, NEW s, IsStore(S, s), NEW e \in S, e.id \notin Ids(s)
  PROVE  /\ IsStore(S, Append(s, e))
         /\ Len(Append(s, e)) = Len(s) + 1
         /\ Append(s, e)[Len(s) + 1] = e
         /\ Range(Append(s, e)) = Range(s) \cup {e}
<1> DEFINE a == Append(s, e)
<1>1. s \in Seq(S) /\ Len(s) \in Nat /\ DOMAIN s = 1..Len(s)
  BY DEF IsStore
<1>2. /\ a \in Seq(S) /\ Len(a) = Len(s) + 1 /\ DOMAIN a = 1..(Len(s) + 1)
      /\ \A i \in 1..Len(s) : a[i] = s[i]
      /\ a[Len(s) + 1] = e
  BY <1>1
<1> HIDE DEF a
<1>3. \A i \in DOMAIN s : s[i].id # e.id
  BY DEF Ids, Range
<1>4. \A i, j \in DOMAIN s : s[i].id = s[j].id => i = j
  BY DEF IsStore
<1>5. ASSUME NEW i \in DOMAIN a, NEW j \in DOMAIN a, a[i].id = a[j].id PROVE i = j
  <2>1. CASE i \in DOMAIN s /\ j \in DOMAIN s
    BY <1>1, <1>2, <1>4, <1>5, <2>1
  <2>2. CASE i = Len(s) + 1 /\ j \in DOMAIN s
    BY <1>1, <1>2, <1>3, <1>5, <2>2
  <2>3. CASE i \in DOMAIN s /\ j = Len(s) + 1
    BY <1>1, <1>2, <1>3, <1>5, <2>3
  <2>4. QED
    BY <1>1, <1>2, <2>1, <2>2, <2>3
<1>6. Range(a) = Range(s) \cup {e}
  BY <1>1, RangeOfAppend DEF a
<1>7. IsStore(S, a)
  BY <1>2, <1>5 DEF IsStore
<1>8. QED
  BY <1>2, <1>6, <1>7 DEF a

LEMMA MoveIs ==
  ASSUME NEW S, NEW s, IsStore(S, s), NEW id \in Ids(s)
  PROVE  /\ IsStore(S, MoveToEnd(s, id))
         /\ Len(MoveToEnd(s, id)) = Len(s)
         /\ Range(MoveToEnd(s, id)) = Range(s)
<1> DEFINE e == Get(s, id)
           w == Without(s, id)
<1>1. e \in Range(s) /\ e.id = id /\ e \in S /\ \A d \in Range(s) : d.id = id => d = e
  BY GetIs
<1>2. IsStore(S, w) /\ Len(w) = Len(s) - 1 /\ Range(w) = Range(s) \ {e}
  BY WithoutIs
<1> HIDE DEF e, w
<1>3. e.id \notin Ids(w)
  BY <1>1, <1>2 DEF Ids
<1>4. IsStore(S, Append(w, e)) /\ Len(Append(w, e)) = Len(w) + 1 /\ Range(Append(w, e)) = Range(w) \cup {e}
  BY <1>1, <1>2, <1>3, AppendIs
<1>5. MoveToEnd(s, id) = Append(w, e)
  BY DEF MoveToEnd, e, w
<1>6. Len(s) \in Nat
  BY DEF IsStore
<1>7. (Range(s) \ {e}) \cup {e} = Range(s)
  BY <1>1
<1>8. (Len(s) - 1) + 1 = Len(s)
  BY <1>6
<1>9. QED
  BY <1>2, <1>4, <1>5, <1>7, <1>8

LEMMA TailIs ==
  ASSUME NEW S, NEW s, IsStore(S, s), NEW n \in 0..Len(s)
  PROVE  /\ IsStore(S, Tail_(s, n))
         /\ Len(Tail_(s, n)) = Len(s) - n
         /\ Range(Tail_(s, n)) \subseteq Range(s)
         /\ n < Len(s) => s[Len(s)] \in Range(Tail_(s, n))
<1> DEFINE t == Tail_(s, n)
<1>1. s \in Seq(S) /\ Len(s) \in Nat /\ DOMAIN s = 1..Len(s) /\ n \in Nat /\ n <= Len(s)
  <2>1. s \in Seq(S)
    BY DEF IsStore
  <2>2. QED
    BY <2>1
<1>2. /\ t \in Seq(S) /\ Len(t) = Len(s) - n /\ DOMAIN t = 1..(Len(s) - n)
      /\ \A i \in 1..(Len(s) - n) : t[i] = s[n + i]
  <2>1. SubSeq(s, n + 1, Len(s)) \in Seq(S)
    BY <1>1
  <2>2. Len(SubSeq(s, n + 1, Len(s))) = Len(s) - n
    <3>1. \A i \in (n + 1)..Len(s) : s[i] \in S
      BY <1>1
    <3>2. Len(SubSeq(s, n + 1, Len(s))) = IF n + 1 <= Len(s) THEN Len(s) - (n + 1) + 1 ELSE 0
      BY <1>1, <3>1, SubSeqProperties
    <3>3. \A l \in Nat : n <= l => (IF n + 1 <= l THEN l - (n + 1) + 1 ELSE 0) = l - n
      BY <1>1
    <3>4. QED
      BY Zenon, <1>1, <3>2, <3>3
  <2>3. ASSUME NEW i \in 1..(Len(s) - n)
        PROVE  SubSeq(s, n + 1, Len(s))[i] = s[n + i]
    <3>1. \A j \in (n + 1)..Len(s) : s[j] \in S
      BY <1>1
    <3>2. n + 1 \in Int /\ Len(s) \in Int
      BY <1>1
    <3>3. \A j \in 1..(Len(s) - (n + 1) + 1) : SubSeq(s, n + 1, Len(s))[j] = s[(n + 1) + j - 1]
      BY <3>1, <3>2, SubSeqProperties
    <3>4. i \in 1..(Len(s) - (n + 1) + 1)
      BY <1>1
    <3>5. (n + 1) + i - 1 = n + i
      BY <1>1
    <3>6. SubSeq(s, n + 1, Len(s))[i] = s[(n + 1) + i - 1]
      BY Zenon, <3>3, <3>4
    <3>7. QED
      BY Zenon, <3>5, <3>6
  <2> DEFINE b == SubSeq(s, n + 1, Len(s))
  <2>4. t = b
    BY Zenon DEF Tail_
  <2>5. b \in Seq(S) /\ Len(b) = Len(s) - n /\ \A i \in 1..(Len(s) - n) : b[i] = s[n + i]
    BY Zenon, <2>1, <2>2, <2>3
  <2> HIDE DEF b
  <2>6. DOMAIN b = 1..(Len(s) - n)
    BY <2>5
  <2>7. QED
    BY Zenon, <2>4, <2>5, <2>6
<1> HIDE DEF t
<1>3. \A i, j \in DOMAIN s : s[i].id = s[j].id => i = j
  BY DEF IsStore
<1>4. \A i \in DOMAIN t : n + i \in DOMAIN s /\ t[i] = s[n + i]
  BY <1>1, <1>2
<1>5. ASSUME NEW i \in DOMAIN t, NEW j \in DOMAIN t, t[i].id = t[j].id PROVE i = j
  <2>1. n + i = n + j
    BY <1>3, <1>4, <1>5
  <2>2. QED
    BY <1>1, <1>2, <2>1
<1>6. Range(t) \subseteq Range(s)
  BY <1>4 DEF Range
<1>7. ASSUME n < Len(s) PROVE s[Len(s)] \in Range(t)
  <2>1. Len(s) - n \in DOMAIN t /\ t[Len(s) - n] = s[n + (Len(s) - n)]
    BY <1>1, <1>2, <1>7
  <2>2. n + (Len(s) - n) = Len(s)
    BY <1>1
  <2>3. QED
    BY <2>1, <2>2 DEF Range
<1>8. IsStore(S, t)
  BY <1>2, <1>5 DEF IsStore
<1>9. QED
  BY <1>2, <1>6, <1>7, <1>8 DEF t

-----------------------------------------------------------------------------
(* The size of the stores.                                                 *)

LEMMA RangeIsFinite ==
  ASSUME NEW S, NEW s \in Seq(S)
  PROVE  IsFiniteSet(Range(s)) /\ Range(s) \subseteq S
<1>1. s \in Surjection(1..Len(s), Range(s))
  BY DEF Surjection, Range
<1>2. IsFiniteSet(1..Len(s))
  BY FS_Interval
<1>3. IsFiniteSet(Range(s))
  BY <1>1, <1>2, FS_Surjection
<1>4. Range(s) \subseteq S
  BY DEF Range
<1>5. QED
  BY <1>3, <1>4

LEMMA FinishedIs ==
  ASSUME NEW rm \in Seq(Remediations), NEW sm \in Seq(Remediations), Range(sm) \subseteq Range(rm)
  PROVE  /\ Cardinality(Finished(rm)) \in Nat /\ Cardinality(Finished(sm)) \in Nat
         /\ Cardinality(Finished(sm)) <= Cardinality(Finished(rm))
<1>1. IsFiniteSet(Range(rm))
  BY RangeIsFinite
<1>2. Finished(rm) \subseteq Range(rm) /\ Finished(sm) \subseteq Finished(rm)
  BY DEF Finished
<1>3. IsFiniteSet(Finished(rm))
  BY <1>1, <1>2, FS_Subset
<1>4. IsFiniteSet(Finished(sm)) /\ Cardinality(Finished(sm)) <= Cardinality(Finished(rm))
  BY <1>2, <1>3, FS_Subset
<1>5. QED
  BY <1>3, <1>4, FS_CardinalityType

\* Stores that are no longer and hold nothing else fit where the others did.
LEMMA FitsIs ==
  ASSUME NEW rv \in Seq(TrustedReviews), NEW sv \in Seq(TrustedReviews),
         NEW rm \in Seq(Remediations), NEW sm \in Seq(Remediations),
         Range(sm) \subseteq Range(rm), Len(sv) <= Len(rv), Len(sm) <= Len(rm),
         Fits(rv, rm), ServiceAssumption
  PROVE  Fits(sv, sm)
<1>1. /\ Cardinality(Finished(rm)) \in Nat /\ Cardinality(Finished(sm)) \in Nat
      /\ Cardinality(Finished(sm)) <= Cardinality(Finished(rm))
  BY FinishedIs
<1>2. Len(rv) \in Nat /\ Len(sv) \in Nat /\ Len(rm) \in Nat /\ Len(sm) \in Nat
  OBVIOUS
<1>3. MaxStore \in Nat /\ MaxReviews \in Nat /\ MaxRemediations \in Nat
  BY DEF ServiceAssumption
<1> DEFINE n == Cardinality(Finished(rm))
           m == Cardinality(Finished(sm))
<1>4. /\ n \in Nat /\ m \in Nat /\ m <= n
      /\ Len(rv) <= MaxReviews /\ Len(rm) <= MaxRemediations /\ Len(rv) + Len(rm) + n <= MaxStore
  BY <1>1 DEF Fits, Bytes
<1> HIDE DEF n, m
<1>5. Len(sv) <= MaxReviews /\ Len(sm) <= MaxRemediations /\ Len(sv) + Len(sm) + m <= MaxStore
  BY <1>2, <1>3, <1>4
<1>6. QED
  BY Zenon, <1>5 DEF Fits, Bytes, m

LEMMA EmptyIs ==
  ASSUME NEW S
  PROVE  IsStore(S, <<>>) /\ Len(<<>>) = 0 /\ Range(<<>>) = {} /\ Ids(<<>>) = {}
<1>1. <<>> \in Seq(S) /\ Len(<<>>) = 0 /\ DOMAIN <<>> = {}
  OBVIOUS
<1>2. Range(<<>>) = {}
  BY DEF Range
<1>3. QED
  BY <1>1, <1>2 DEF IsStore, Ids

LEMMA IntervalIs ==
  ASSUME NEW n \in Nat
  PROVE  IsFiniteSet(1..n) /\ Cardinality(1..n) = n
<1>1. 1 \in Int /\ n \in Int
  OBVIOUS
<1>2. IsFiniteSet(1..n) /\ Cardinality(1..n) = IF 1 > n THEN 0 ELSE n - 1 + 1
  BY <1>1, FS_Interval
<1>3. (IF 1 > n THEN 0 ELSE n - 1 + 1) = n
  OBVIOUS
<1>4. Cardinality(1..n) = n
  BY <1>2, <1>3
<1>5. QED
  BY <1>2, <1>4

LEMMA ShortFits ==
  ASSUME NEW rv \in Seq(TrustedReviews), NEW rm \in Seq(Remediations), ServiceAssumption,
         \/ Len(rv) = 0 /\ Len(rm) = 0
         \/ Len(rv) = 1 /\ Len(rm) = 0
         \/ Len(rv) = 0 /\ Len(rm) = 1
  PROVE  Fits(rv, rm)
<1>1. MaxStore \in Nat /\ MaxStore >= 2 /\ MaxReviews >= 1 /\ MaxRemediations >= 1
      /\ MaxReviews \in Nat /\ MaxRemediations \in Nat
  BY DEF ServiceAssumption
<1>2. Cardinality(Finished(rm)) \in Nat /\ Cardinality(Finished(rm)) <= Len(rm)
  <2>1. rm \in Surjection(1..Len(rm), Range(rm))
    BY DEF Surjection, Range
  <2>2. IsFiniteSet(1..Len(rm)) /\ Cardinality(1..Len(rm)) = Len(rm)
    BY IntervalIs
  <2>3. IsFiniteSet(Range(rm)) /\ Cardinality(Range(rm)) <= Cardinality(1..Len(rm))
    BY <2>1, <2>2, FS_Surjection
  <2>4. Finished(rm) \in SUBSET Range(rm)
    BY DEF Finished
  <2>5. IsFiniteSet(Finished(rm)) /\ Cardinality(Finished(rm)) <= Cardinality(Range(rm))
    BY <2>3, <2>4, FS_Subset
  <2>6. /\ Cardinality(Finished(rm)) \in Nat /\ Cardinality(Range(rm)) \in Nat
        /\ Len(rm) \in Nat
    BY <2>3, <2>5, FS_CardinalityType
  <2>7. Cardinality(Range(rm)) <= Len(rm)
    BY <2>2, <2>3
  <2>8. QED
    BY <2>5, <2>6, <2>7
<1> DEFINE n == Cardinality(Finished(rm))
           a == Len(rv)
           b == Len(rm)
<1>3. /\ n \in Nat /\ n <= b /\ a \in Nat /\ b \in Nat
      /\ (a = 0 /\ b = 0) \/ (a = 1 /\ b = 0) \/ (a = 0 /\ b = 1)
  BY <1>2
<1> HIDE DEF n, a, b
<1>4. a + b + n <= MaxStore /\ a <= MaxReviews /\ b <= MaxRemediations
  BY <1>1, <1>3
<1>5. QED
  BY Zenon, <1>4 DEF Fits, Bytes, n, a, b

-----------------------------------------------------------------------------
(* Trimming: the least numbers of oldest entries that must go.             *)

\* Trimming leaves stores that fit, and the entry for which it is done.
LEMMA TrimIs ==
  ASSUME NEW rv, IsStore(TrustedReviews, rv), NEW rm, IsStore(Remediations, rm),
         NEW kind \in {"review", "remediation"},
         kind = "review" => Len(rv) > 0, kind = "remediation" => Len(rm) > 0,
         ServiceAssumption
  PROVE  \E i \in 0..Len(rv), j \in 0..Len(rm) :
           /\ Trim(rv, rm, kind) = <<Tail_(rv, i), Tail_(rm, j)>>
           /\ kind = "review" => i < Len(rv)
           /\ kind = "remediation" => j < Len(rm)
           /\ Fits(Tail_(rv, i), Tail_(rm, j))
<1> DEFINE mv == IF kind = "review" THEN Len(rv) - 1 ELSE Len(rv)
           mm == IF kind = "remediation" THEN Len(rm) - 1 ELSE Len(rm)
           I == {n \in 0..mv : Fits(Tail_(rv, n), rm) \/ n = mv}
           i == Min(I)
           kept == Tail_(rv, i)
           J == {n \in 0..mm : Fits(kept, Tail_(rm, n)) \/ n = mm}
           j == Min(J)
<1>1. Trim(rv, rm, kind) = <<kept, Tail_(rm, j)>>
  BY Zenon DEF Trim
<1>2. Len(rv) \in Nat /\ Len(rm) \in Nat /\ rv \in Seq(TrustedReviews) /\ rm \in Seq(Remediations)
  BY DEF IsStore
<1>3. mv \in Nat /\ mv <= Len(rv) /\ mm \in Nat /\ mm <= Len(rm)
      /\ (kind = "review" => mv < Len(rv)) /\ (kind = "remediation" => mm < Len(rm))
  BY <1>2
<1>4. i \in I
  <2>1. I \in SUBSET Nat /\ mv \in I
    BY <1>3
  <2>2. QED
    BY <2>1, MinIs
<1>5. j \in J /\ \A n \in J : j <= n
  <2>1. J \in SUBSET Nat /\ mm \in J
    BY <1>3
  <2>2. QED
    BY <2>1, MinIs
<1>6. i \in 0..mv /\ j \in 0..mm /\ (i # mv => Fits(kept, rm)) /\ (j # mm => Fits(kept, Tail_(rm, j)))
  BY <1>4, <1>5
<1>7. /\ IsStore(TrustedReviews, kept) /\ Len(kept) = Len(rv) - i
      /\ IsStore(Remediations, Tail_(rm, j)) /\ Len(Tail_(rm, j)) = Len(rm) - j
      /\ Range(Tail_(rm, j)) \subseteq Range(rm)
  <2>1. i \in 0..Len(rv) /\ j \in 0..Len(rm)
    BY <1>2, <1>3, <1>6
  <2>2. QED
    BY <2>1, TailIs
<1> HIDE DEF i, j, kept, mv, mm, I, J
<1>8. /\ kept \in Seq(TrustedReviews) /\ Tail_(rm, j) \in Seq(Remediations)
  BY <1>7 DEF IsStore
<1>9. Fits(kept, Tail_(rm, j))
  <2>1. CASE j # mm
    BY <1>6, <2>1
  <2>2. CASE i # mv
    <3>1. Len(Tail_(rm, j)) <= Len(rm)
      BY <1>2, <1>3, <1>6, <1>7
    <3>2. Len(kept) <= Len(kept)
      BY <1>2, <1>3, <1>6, <1>7
    <3>3. QED
      BY <1>2, <1>6, <1>7, <1>8, <2>2, <3>1, <3>2, FitsIs
  <2>3. CASE i = mv /\ j = mm
    <3>1. \/ Len(kept) = 1 /\ Len(Tail_(rm, j)) = 0
          \/ Len(kept) = 0 /\ Len(Tail_(rm, j)) = 1
      BY <1>2, <1>7, <2>3 DEF mv, mm
    <3>2. QED
      BY <1>8, <3>1, ShortFits
  <2>4. QED
    BY <2>1, <2>2, <2>3
<1>10. i \in 0..Len(rv) /\ j \in 0..Len(rm) /\ (kind = "review" => i < Len(rv))
       /\ (kind = "remediation" => j < Len(rm))
  BY <1>2, <1>3, <1>6
<1>11. QED
  BY <1>1, <1>9, <1>10 DEF kept

-----------------------------------------------------------------------------
(* The service: its inductive invariant.                                   *)

\* What is stored fits, and comes from reviews the host has registered.
StoresHold(rv, rm, finals) ==
  /\ IsStore(TrustedReviews, rv)
  /\ IsStore(Remediations, rm)
  /\ Fits(rv, rm)
  /\ \A e \in Range(rv) : e.final \in finals
  /\ \A e \in Range(rm) :
       /\ e.id = e.prepared.req.rid
       /\ e.prepared = Prepared(e.prepared.req, e.prepared.req.final)
       /\ e.prepared.req.final \in finals

Busy == {c \in Callers : worker[c] # "none"}

Early == {"idle", "lookup", "trust", "acquire"}

\* A slot is taken for every worker that has not given it back, waited for or not, and
\* nobody has a worker before a slot was taken for it.
SlotsHold ==
  /\ worker \in [Callers -> {"none", "running", "answered", "raised"}]
  /\ slots \in 0..MaxWorkers
  /\ IsFiniteSet(Busy)
  /\ slots + Cardinality(Busy) = MaxWorkers
  /\ \A c \in Callers : caller[c].pc \in Early => worker[c] = "none"

\* What a caller holds is what it asked for.
CallIs(k, finals) ==
  /\ k.pc # "idle" => k.req \in Requests
  /\ k.pc \in {"acquire", "wait", "store"} =>
       /\ k.trusted \in TrustedReviews
       /\ k.trusted.id = k.req.review
       /\ k.trusted.final = k.req.final
       /\ k.req.final \in finals
  /\ k.pc = "replied" =>
       /\ k.reply = Prepared(k.req, k.req.final)
       /\ k.req.final \in finals

CallsHold ==
  /\ caller \in [Callers -> CallStates]
  /\ \A c \in Callers : CallIs(caller[c], Range(registered))

RemInv ==
  /\ StoresHold(reviews, rems, Range(registered))
  /\ SlotsHold
  /\ CallsHold
  /\ closed \in BOOLEAN
  /\ registered \in Seq(Finals)

LEMMA RemInitHolds ==
  ASSUME ServiceAssumption, RemInit
  PROVE  RemInv
<1>1. StoresHold(<<>>, <<>>, Range(<<>>))
  <2>1. <<>> \in Seq(TrustedReviews) /\ <<>> \in Seq(Remediations) /\ Len(<<>>) = 0
    OBVIOUS
  <2>2. Fits(<<>>, <<>>)
    BY <2>1, ShortFits
  <2>3. QED
    BY <2>2, EmptyIs DEF StoresHold
<1>2. SlotsHold
  <2>1. Busy = {}
    BY DEF RemInit, Busy
  <2>2. IsFiniteSet(Busy) /\ Cardinality(Busy) = 0
    BY <2>1, FS_EmptySet
  <2>3. MaxWorkers \in Nat
    BY DEF ServiceAssumption
  <2>4. QED
    BY <2>2, <2>3 DEF RemInit, SlotsHold
<1>3. CallsHold
  <2>1. NoCall \in CallStates /\ NoCall.pc = "idle"
    BY DEF NoCall, CallStates
  <2>2. caller = [c \in Callers |-> NoCall]
    BY DEF RemInit
  <2>3. QED
    BY <2>1, <2>2 DEF CallsHold, CallIs
<1>4. StoresHold(reviews, rems, Range(registered))
  BY Zenon, <1>1 DEF RemInit
<1>5. closed \in BOOLEAN /\ registered \in Seq(Finals)
  <2>1. <<>> \in Seq(Finals)
    OBVIOUS
  <2>2. registered = <<>> /\ closed = FALSE
    BY DEF RemInit
  <2>3. QED
    BY Zenon, <2>1, <2>2
<1>6. QED
  BY <1>2, <1>3, <1>4, <1>5 DEF RemInv

\* The parts of the property that are read off one state.
LEMMA InvShows ==
  ASSUME ServiceAssumption, RemInv
  PROVE  RemTypeOK /\ WorkersBounded /\ StoreBounded /\ ReplyIsOwn
<1>1. RemTypeOK
  BY DEF RemInv, StoresHold, SlotsHold, CallsHold, IsStore, RemTypeOK
<1>2. WorkersBounded
  <2> DEFINE R == {c \in Callers : worker[c] = "running"}
  <2>1. R \in SUBSET Busy /\ IsFiniteSet(Busy)
    BY DEF RemInv, SlotsHold, Busy
  <2>2. IsFiniteSet(R) /\ Cardinality(R) <= Cardinality(Busy)
    BY <2>1, FS_Subset
  <2>3. Cardinality(R) \in Nat /\ Cardinality(Busy) \in Nat
    BY <2>1, <2>2, FS_CardinalityType
  <2>4. slots \in Nat /\ slots + Cardinality(Busy) = MaxWorkers
    BY DEF RemInv, SlotsHold
  <2> HIDE DEF R
  <2>5. Cardinality(R) <= MaxWorkers
    BY <2>2, <2>3, <2>4
  <2>6. QED
    BY <2>5 DEF WorkersBounded, R
<1>3. StoreBounded
  BY DEF RemInv, StoresHold, StoreBounded
<1>4. ReplyIsOwn
  BY DEF RemInv, CallsHold, CallIs, CallerAt, ReplyIsOwn
<1>5. QED
  BY <1>1, <1>2, <1>3, <1>4

-----------------------------------------------------------------------------
(* Stores that only lose or move entries, and stores that grow and are     *)
(* trimmed.                                                                *)

LEMMA FewerHold ==
  ASSUME ServiceAssumption, NEW rv, NEW rm, NEW sv, NEW sm, NEW finals,
         StoresHold(rv, rm, finals),
         IsStore(TrustedReviews, sv), IsStore(Remediations, sm),
         Range(sv) \subseteq Range(rv), Range(sm) \subseteq Range(rm),
         Len(sv) <= Len(rv), Len(sm) <= Len(rm)
  PROVE  StoresHold(sv, sm, finals)
<1>1. /\ rv \in Seq(TrustedReviews) /\ sv \in Seq(TrustedReviews)
      /\ rm \in Seq(Remediations) /\ sm \in Seq(Remediations) /\ Fits(rv, rm)
  BY DEF StoresHold, IsStore
<1>2. Fits(sv, sm)
  BY <1>1, FitsIs
<1>3. QED
  BY <1>2 DEF StoresHold

LEMMA MovedHolds ==
  ASSUME ServiceAssumption, NEW rv, NEW rm, NEW finals, StoresHold(rv, rm, finals)
  PROVE  /\ \A id \in Ids(rv) : StoresHold(MoveToEnd(rv, id), rm, finals)
         /\ \A id \in Ids(rm) : StoresHold(rv, MoveToEnd(rm, id), finals)
         /\ \A id \in Ids(rv) : StoresHold(Without(rv, id), rm, finals)
         /\ \A id \in Ids(rm) : StoresHold(rv, Without(rm, id), finals)
<1>1. /\ IsStore(TrustedReviews, rv) /\ IsStore(Remediations, rm)
      /\ Len(rv) \in Nat /\ Len(rm) \in Nat
  BY DEF StoresHold, IsStore
<1>2. ASSUME NEW id \in Ids(rv) PROVE StoresHold(MoveToEnd(rv, id), rm, finals)
  <2>1. /\ IsStore(TrustedReviews, MoveToEnd(rv, id)) /\ Len(MoveToEnd(rv, id)) = Len(rv)
        /\ Range(MoveToEnd(rv, id)) = Range(rv)
    BY <1>1, MoveIs
  <2>2. QED
    BY <1>1, <2>1, FewerHold
<1>3. ASSUME NEW id \in Ids(rm) PROVE StoresHold(rv, MoveToEnd(rm, id), finals)
  <2>1. /\ IsStore(Remediations, MoveToEnd(rm, id)) /\ Len(MoveToEnd(rm, id)) = Len(rm)
        /\ Range(MoveToEnd(rm, id)) = Range(rm)
    BY <1>1, MoveIs
  <2>2. QED
    BY <1>1, <2>1, FewerHold
<1>4. ASSUME NEW id \in Ids(rv) PROVE StoresHold(Without(rv, id), rm, finals)
  <2>1. /\ IsStore(TrustedReviews, Without(rv, id)) /\ Len(Without(rv, id)) = Len(rv) - 1
        /\ Range(Without(rv, id)) \subseteq Range(rv)
    BY <1>1, WithoutIs
  <2>2. Len(Without(rv, id)) <= Len(rv) /\ Len(rm) <= Len(rm)
    BY <1>1, <2>1
  <2>3. QED
    BY <1>1, <2>1, <2>2, FewerHold
<1>5. ASSUME NEW id \in Ids(rm) PROVE StoresHold(rv, Without(rm, id), finals)
  <2>1. /\ IsStore(Remediations, Without(rm, id)) /\ Len(Without(rm, id)) = Len(rm) - 1
        /\ Range(Without(rm, id)) \subseteq Range(rm)
    BY <1>1, WithoutIs
  <2>2. Len(Without(rm, id)) <= Len(rm) /\ Len(rv) <= Len(rv)
    BY <1>1, <2>1
  <2>3. QED
    BY <1>1, <2>1, <2>2, FewerHold
<1>6. QED
  BY <1>2, <1>3, <1>4, <1>5

\* What is true of the stores before they are trimmed, which may be too large.
StoresTrue(rv, rm, finals) ==
  /\ IsStore(TrustedReviews, rv)
  /\ IsStore(Remediations, rm)
  /\ \A e \in Range(rv) : e.final \in finals
  /\ \A e \in Range(rm) :
       /\ e.id = e.prepared.req.rid
       /\ e.prepared = Prepared(e.prepared.req, e.prepared.req.final)
       /\ e.prepared.req.final \in finals

LEMMA StoreHolds ==
  ASSUME ServiceAssumption, NEW rv, NEW rm, NEW finals, StoresTrue(rv, rm, finals),
         NEW kind \in {"review", "remediation"},
         kind = "review" => Len(rv) > 0, kind = "remediation" => Len(rm) > 0,
         Store(rv, rm, kind)
  PROVE  /\ StoresHold(reviews', rems', finals)
         /\ kind = "remediation" => rm[Len(rm)] \in Range(rems')
<1>1. IsStore(TrustedReviews, rv) /\ IsStore(Remediations, rm)
  BY DEF StoresTrue
<1>2. PICK i \in 0..Len(rv), j \in 0..Len(rm) :
           /\ Trim(rv, rm, kind) = <<Tail_(rv, i), Tail_(rm, j)>>
           /\ kind = "review" => i < Len(rv)
           /\ kind = "remediation" => j < Len(rm)
           /\ Fits(Tail_(rv, i), Tail_(rm, j))
  BY <1>1, TrimIs
<1>3. reviews' = Tail_(rv, i) /\ rems' = Tail_(rm, j)
  BY <1>2 DEF Store
<1>4. IsStore(TrustedReviews, Tail_(rv, i)) /\ Range(Tail_(rv, i)) \subseteq Range(rv)
  BY <1>1, TailIs
<1>5. /\ IsStore(Remediations, Tail_(rm, j)) /\ Range(Tail_(rm, j)) \subseteq Range(rm)
      /\ j < Len(rm) => rm[Len(rm)] \in Range(Tail_(rm, j))
  BY <1>1, TailIs
<1>6. StoresHold(Tail_(rv, i), Tail_(rm, j), finals)
  BY <1>2, <1>4, <1>5 DEF StoresHold, StoresTrue
<1>7. QED
  BY <1>2, <1>3, <1>5, <1>6

LEMMA HoldIsTrue ==
  ASSUME NEW rv, NEW rm, NEW finals, NEW more, finals \subseteq more, StoresHold(rv, rm, finals)
  PROVE  StoresTrue(rv, rm, more) /\ StoresHold(rv, rm, more)
BY DEF StoresHold, StoresTrue

-----------------------------------------------------------------------------
(* One caller takes a step.                                                *)

LEMMA CallStep ==
  ASSUME CallsHold, NEW c \in Callers, NEW k \in CallStates, CallIs(k, Range(registered)),
         caller' = [caller EXCEPT ![c] = k], registered' = registered
  PROVE  /\ CallsHold'
         /\ caller'[c] = k
         /\ \A d \in Callers \ {c} : caller'[d] = caller[d]
<1>1. caller' \in [Callers -> CallStates] /\ caller'[c] = k
  BY DEF CallsHold
<1>2. \A d \in Callers \ {c} : caller'[d] = caller[d]
  BY DEF CallsHold
<1>3. \A d \in Callers : CallIs(caller'[d], Range(registered)')
  <2>1. Range(registered)' = Range(registered)
    BY DEF Range
  <2>2. \A d \in Callers : CallIs(caller[d], Range(registered))
    BY DEF CallsHold
  <2>3. \A d \in Callers : CallIs(caller'[d], Range(registered))
    BY <1>1, <1>2, <2>2
  <2>4. QED
    BY <2>1, <2>3
<1>4. QED
  BY <1>1, <1>2, <1>3 DEF CallsHold

LEMMA SlotsStep ==
  ASSUME SlotsHold, CallsHold, NEW c \in Callers, NEW k, caller' = [caller EXCEPT ![c] = k],
         k.pc \in Early => caller[c].pc \in Early, UNCHANGED <<slots, worker>>
  PROVE  SlotsHold'
<1>1. Busy' = Busy
  BY DEF Busy
<1>2. ASSUME NEW d \in Callers, caller'[d].pc \in Early PROVE worker[d] = "none"
  <2>1. caller[d].pc \in Early
    BY <1>2 DEF CallsHold
  <2>2. QED
    BY <2>1 DEF SlotsHold
<1>3. QED
  BY <1>1, <1>2 DEF SlotsHold

LEMMA PcIs ==
  ASSUME NEW k \in CallStates,
         NEW pc \in {"idle", "lookup", "trust", "acquire", "wait", "store", "replied", "failed"}
  PROVE  LET n == [k EXCEPT !.pc = pc] IN
         /\ n \in CallStates /\ n.pc = pc /\ n.req = k.req /\ n.trusted = k.trusted
         /\ n.answer = k.answer /\ n.reply = k.reply
BY DEF CallStates

\* A caller fails: it holds its request still.
LEMMA FailsHolds ==
  ASSUME CallsHold, SlotsHold, NEW c \in Callers, ~CallerAt(c, "idle"), Fails(c),
         registered' = registered, UNCHANGED <<slots, worker>>
  PROVE  CallsHold' /\ SlotsHold' /\ caller'[c].pc = "failed"
         /\ \A d \in Callers \ {c} : caller'[d] = caller[d]
<1> DEFINE k == [caller[c] EXCEPT !.pc = "failed"]
<1>1. caller[c] \in CallStates /\ CallIs(caller[c], Range(registered)) /\ caller[c].pc # "idle"
  BY DEF CallsHold, CallerAt
<1>2. k \in CallStates /\ k.pc = "failed" /\ k.req = caller[c].req
  BY <1>1, PcIs
<1> HIDE DEF k
<1>3. CallIs(k, Range(registered))
  BY <1>1, <1>2 DEF CallIs
<1>4. caller' = [caller EXCEPT ![c] = k]
  BY DEF Fails, CallerGoto, k
<1>5. CallsHold' /\ caller'[c] = k /\ \A d \in Callers \ {c} : caller'[d] = caller[d]
  BY <1>2, <1>3, <1>4, CallStep
<1>6. k.pc \notin Early
  BY <1>2 DEF Early
<1>7. SlotsHold'
  BY <1>4, <1>6, SlotsStep
<1>8. QED
  BY <1>2, <1>5, <1>7

\* A caller is told what is prepared for what it asked.
LEMMA RepliesHolds ==
  ASSUME CallsHold, SlotsHold, NEW c \in Callers, ~CallerAt(c, "idle"), NEW r \in Preparations,
         r = Prepared(caller[c].req, caller[c].req.final),
         caller[c].req.final \in Range(registered),
         Replies(c, r), registered' = registered, UNCHANGED <<slots, worker>>
  PROVE  CallsHold' /\ SlotsHold' /\ caller'[c].pc = "replied" /\ caller'[c].reply = r
         /\ \A d \in Callers \ {c} : caller'[d] = caller[d]
<1> DEFINE k == [caller[c] EXCEPT !.pc = "replied", !.reply = r]
<1>1. caller[c] \in CallStates /\ CallIs(caller[c], Range(registered)) /\ caller[c].pc # "idle"
  BY DEF CallsHold, CallerAt
<1>2. k \in CallStates /\ k.pc = "replied" /\ k.req = caller[c].req /\ k.reply = r
  BY <1>1 DEF CallStates
<1> HIDE DEF k
<1>3. CallIs(k, Range(registered))
  BY <1>1, <1>2 DEF CallIs
<1>4. caller' = [caller EXCEPT ![c] = k]
  BY DEF Replies, k
<1>5. CallsHold' /\ caller'[c] = k /\ \A d \in Callers \ {c} : caller'[d] = caller[d]
  BY <1>2, <1>3, <1>4, CallStep
<1>6. k.pc \notin Early
  BY <1>2 DEF Early
<1>7. SlotsHold'
  BY <1>4, <1>6, SlotsStep
<1>8. QED
  BY <1>2, <1>5, <1>7

LEMMA PreparedIsIn ==
  ASSUME NEW req \in Requests
  PROVE  Prepared(req, req.final) \in Preparations
BY DEF Requests, Preparations, Prepared

-----------------------------------------------------------------------------
(* Every step keeps the invariant, and does what a step must.              *)

Trusting == StoredWhileTrusted /\ PreparedIsStored

\* What a step does that changes neither what is stored nor, to "replied", any call.
LEMMA QuietTrusts ==
  ASSUME \/ rems' = rems
         \/ \A c \in Callers : caller'[c] = caller[c],
         \A c \in Callers : caller'[c].pc = "replied" => caller[c].pc = "replied"
  PROVE  Trusting
BY DEF Trusting, StoredWhileTrusted, PreparedIsStored, CallerAt

LEMMA SameSlots ==
  ASSUME SlotsHold, UNCHANGED <<slots, worker, caller>>
  PROVE  SlotsHold'
<1>1. Busy' = Busy
  BY DEF Busy
<1>2. QED
  BY <1>1 DEF SlotsHold

LEMMA SameCalls ==
  ASSUME CallsHold, caller' = caller, Range(registered) \subseteq Range(registered)'
  PROVE  CallsHold'
<1>1. ASSUME NEW c \in Callers PROVE CallIs(caller[c], Range(registered)')
  BY DEF CallsHold, CallIs
<1>2. QED
  BY <1>1 DEF CallsHold

LEMMA RegisterHolds ==
  ASSUME ServiceAssumption, RemInv, NEW id \in ReviewIds, NEW f \in Finals, Register(id, f)
  PROVE  RemInv' /\ Trusting
<1>1. SlotsHold'
  BY SameSlots DEF Register, RemInv
<1>2. Trusting
  BY QuietTrusts DEF Register
<1>3. closed' \in BOOLEAN
  BY DEF Register, RemInv
<1>4. CASE /\ id \notin Ids(reviews)
           /\ registered' = Append(registered, f)
           /\ Store(Append(reviews, [id |-> id, final |-> f, reg |-> Len(registered) + 1]),
                 rems, "review")
  <2> DEFINE e == [id |-> id, final |-> f, reg |-> Len(registered) + 1]
             rv == Append(reviews, e)
  <2>1. registered \in Seq(Finals) /\ Len(registered) \in Nat
    BY DEF RemInv
  <2>2. registered' \in Seq(Finals) /\ Range(registered)' = Range(registered) \cup {f}
    <3>1. Append(registered, f) \in Seq(Finals)
      BY <2>1
    <3>2. Range(Append(registered, f)) = Range(registered) \cup {f}
      BY <2>1, RangeOfAppend
    <3>3. Range(registered)' = Range(Append(registered, f))
      BY <1>4 DEF Range
    <3>4. QED
      BY <1>4, <3>1, <3>2, <3>3
  <2>3. e \in TrustedReviews /\ e.id \notin Ids(reviews) /\ e.final = f
    BY <1>4, <2>1 DEF TrustedReviews
  <2> HIDE DEF e
  <2>4. IsStore(TrustedReviews, reviews) /\ Len(reviews) \in Nat
    BY DEF RemInv, StoresHold, IsStore
  <2>5. IsStore(TrustedReviews, rv) /\ Len(rv) = Len(reviews) + 1 /\ Range(rv) = Range(reviews) \cup {e}
    BY <2>3, <2>4, AppendIs
  <2>6. StoresTrue(reviews, rems, Range(registered)')
    BY <2>2, HoldIsTrue DEF RemInv
  <2> HIDE DEF rv
  <2>7. StoresTrue(rv, rems, Range(registered)')
    <3>1. \A d \in Range(rv) : d.final \in Range(registered)'
      BY <2>2, <2>3, <2>5, <2>6 DEF StoresTrue
    <3>2. QED
      BY <2>5, <2>6, <3>1 DEF StoresTrue
  <2>8. Store(rv, rems, "review") /\ Len(rv) > 0
    BY <1>4, <2>4, <2>5 DEF rv, e
  <2>9. StoresHold(reviews', rems', Range(registered)')
    BY <2>7, <2>8, StoreHolds
  <2>10. CallsHold'
    BY <2>2, SameCalls DEF RemInv, Register
  <2>11. QED
    BY <1>1, <1>2, <1>3, <2>2, <2>9, <2>10 DEF RemInv
<1>5. CASE /\ id \in Ids(reviews)
           /\ reviews' = MoveToEnd(reviews, id)
           /\ UNCHANGED <<rems, registered>>
  <2>1. StoresHold(MoveToEnd(reviews, id), rems, Range(registered))
    BY <1>5, MovedHolds DEF RemInv
  <2>2. StoresHold(reviews', rems', Range(registered)')
    BY <1>5, <2>1 DEF Range
  <2>3. CallsHold'
    <3>1. Range(registered)' = Range(registered)
      BY <1>5 DEF Range
    <3>2. QED
      BY <3>1, SameCalls DEF RemInv, Register
  <2>4. QED
    BY <1>1, <1>2, <1>3, <1>5, <2>2, <2>3 DEF RemInv
<1>6. QED
  BY <1>4, <1>5 DEF Register

\* The parts of the invariant about what a step leaves alone.
LEMMA SameRest ==
  ASSUME RemInv, UNCHANGED <<closed, registered>>
  PROVE  closed' \in BOOLEAN /\ registered' \in Seq(Finals) /\ Range(registered)' = Range(registered)
BY DEF RemInv, Range

LEMMA ExpireHolds ==
  ASSUME ServiceAssumption, RemInv, Expire
  PROVE  RemInv' /\ Trusting
<1>1. SlotsHold' /\ CallsHold'
  <2>1. Range(registered)' = Range(registered)
    BY SameRest DEF Expire
  <2>2. QED
    BY <2>1, SameSlots, SameCalls DEF Expire, RemInv
<1>2. Trusting
  BY QuietTrusts DEF Expire
<1>3. StoresHold(reviews', rems', Range(registered))
  BY MovedHolds DEF Expire, RemInv
<1>4. QED
  BY <1>1, <1>2, <1>3, SameRest DEF Expire, RemInv

LEMMA CloseHolds ==
  ASSUME ServiceAssumption, RemInv, Close
  PROVE  RemInv' /\ Trusting
<1>1. SlotsHold' /\ CallsHold'
  <2>1. Range(registered)' = Range(registered)
    BY SameRest DEF Close, RemInv, Range
  <2>2. QED
    BY <2>1, SameSlots, SameCalls DEF Close, RemInv
<1>2. Trusting
  BY QuietTrusts DEF Close
<1>3. StoresHold(<<>>, <<>>, Range(registered)')
  <2>1. <<>> \in Seq(TrustedReviews) /\ <<>> \in Seq(Remediations) /\ Len(<<>>) = 0
    OBVIOUS
  <2>2. Fits(<<>>, <<>>)
    BY <2>1, ShortFits
  <2>3. QED
    BY <2>2, EmptyIs DEF StoresHold
<1>4. StoresHold(reviews', rems', Range(registered)')
  BY Zenon, <1>3 DEF Close
<1>5. closed' \in BOOLEAN /\ registered' \in Seq(Finals)
  BY DEF Close, RemInv
<1>6. QED
  BY <1>1, <1>2, <1>4, <1>5 DEF RemInv

\* A step of a call that leaves the stores alone and does not answer.
LEMMA OneCallHolds ==
  ASSUME ServiceAssumption, RemInv, NEW c \in Callers, NEW k \in CallStates,
         CallIs(k, Range(registered)), caller' = [caller EXCEPT ![c] = k],
         k.pc = "replied" => caller[c].pc = "replied",
         UNCHANGED <<reviews, rems, closed, registered>>, SlotsHold'
  PROVE  RemInv' /\ Trusting
<1>1. CallsHold' /\ caller'[c] = k /\ \A d \in Callers \ {c} : caller'[d] = caller[d]
  BY CallStep DEF RemInv
<1>2. Trusting
  BY <1>1, QuietTrusts
<1>3. StoresHold(reviews', rems', Range(registered)')
  BY SameRest DEF RemInv
<1>4. QED
  BY <1>1, <1>2, <1>3, SameRest DEF RemInv

LEMMA CallHolds ==
  ASSUME ServiceAssumption, RemInv, NEW c \in Callers, NEW req \in Requests, Call(c, req)
  PROVE  RemInv' /\ Trusting
<1> DEFINE k == [caller[c] EXCEPT !.pc = "lookup", !.req = req]
<1>1. caller[c] \in CallStates
  BY DEF RemInv, CallsHold
<1>2. k \in CallStates /\ k.pc = "lookup" /\ k.req = req
  BY <1>1 DEF CallStates
<1> HIDE DEF k
<1>3. CallIs(k, Range(registered))
  BY <1>2 DEF CallIs
<1>4. caller' = [caller EXCEPT ![c] = k] /\ caller[c].pc \in Early
  BY DEF Call, CallerAt, Early, k
<1>5. SlotsHold'
  BY <1>4, SlotsStep DEF RemInv, Call
<1>6. QED
  BY <1>2, <1>3, <1>4, <1>5, OneCallHolds DEF Call

\* A caller that goes on to a later point of its call.
LEMMA GotoHolds ==
  ASSUME ServiceAssumption, RemInv, NEW c \in Callers, NEW pc \in {"trust", "wait", "store", "failed"},
         CallerGoto(c, pc), ~CallerAt(c, "idle"),
         pc \in {"wait", "store"} => caller[c].pc \in {"acquire", "wait"},
         UNCHANGED <<reviews, rems, closed, registered>>, SlotsHold'
  PROVE  RemInv' /\ Trusting
<1> DEFINE k == [caller[c] EXCEPT !.pc = pc]
<1>1. caller[c] \in CallStates /\ CallIs(caller[c], Range(registered)) /\ caller[c].pc # "idle"
  BY DEF RemInv, CallsHold, CallerAt
<1>2. k \in CallStates /\ k.pc = pc /\ k.req = caller[c].req /\ k.trusted = caller[c].trusted
  BY <1>1 DEF CallStates
<1>3. caller' = [caller EXCEPT ![c] = k]
  BY DEF CallerGoto
<1> HIDE DEF k
<1>4. CallIs(k, Range(registered))
  BY <1>1, <1>2 DEF CallIs
<1>5. QED
  BY <1>2, <1>3, <1>4, OneCallHolds

LEMMA GotoSlots ==
  ASSUME SlotsHold, CallsHold, NEW c \in Callers, NEW pc, CallerGoto(c, pc), pc \in Early => caller[c].pc \in Early,
         UNCHANGED <<slots, worker>>
  PROVE  SlotsHold'
<1> DEFINE k == [caller[c] EXCEPT !.pc = pc]
<1>1. caller[c] \in CallStates
  BY DEF CallsHold
<1>2. k.pc = pc
  BY <1>1 DEF CallStates
<1>3. caller' = [caller EXCEPT ![c] = k]
  BY DEF CallerGoto
<1> HIDE DEF k
<1>4. QED
  BY <1>2, <1>3, SlotsStep

LEMMA LookupHolds ==
  ASSUME ServiceAssumption, RemInv, NEW c \in Callers, Lookup(c)
  PROVE  RemInv' /\ Trusting
<1> DEFINE id == caller[c].req.rid
           e == Get(rems, id)
<1>1. /\ IsStore(Remediations, rems) /\ CallsHold /\ SlotsHold /\ caller[c].pc = "lookup"
      /\ StoresHold(reviews, rems, Range(registered))
  BY DEF RemInv, StoresHold, Lookup, CallerAt
<1>2. ~CallerAt(c, "idle") /\ caller[c].pc \in Early /\ caller[c].req \in Requests
  BY <1>1 DEF CallerAt, Early, CallsHold, CallIs
<1>3. CASE id \in Ids(rems) /\ e.prepared.req = caller[c].req
  <2>1. rems' = MoveToEnd(rems, id) /\ Replies(c, e.prepared) /\ UNCHANGED <<reviews, closed, slots, worker, registered>>
    BY <1>3 DEF Lookup
  <2>2. /\ e \in Range(rems) /\ e.id = id /\ e \in Remediations
        /\ e.prepared = Prepared(caller[c].req, caller[c].req.final)
        /\ caller[c].req.final \in Range(registered)
    BY <1>1, <1>3, GetIs DEF StoresHold
  <2>3. e.prepared \in Preparations
    BY <2>2 DEF Remediations
  <2> HIDE DEF e, id
  <2>4. /\ CallsHold' /\ SlotsHold' /\ caller'[c].pc = "replied" /\ caller'[c].reply = e.prepared
        /\ \A d \in Callers \ {c} : caller'[d] = caller[d]
    BY <1>1, <1>2, <2>1, <2>2, <2>3, RepliesHolds
  <2>5. StoresHold(reviews', rems', Range(registered)) /\ Range(rems') = Range(rems)
    BY <1>1, <1>3, <2>1, MovedHolds, MoveIs
  <2>6. RemInv'
    BY <2>1, <2>4, <2>5, SameRest DEF RemInv
  <2>7. StoredWhileTrusted
    BY <1>1, <2>4 DEF StoredWhileTrusted, CallerAt
  <2>8. \E i \in DOMAIN rems' : rems'[i].prepared = e.prepared
    BY <2>2, <2>5 DEF Range
  <2>9. PreparedIsStored
    BY <2>4, <2>8 DEF PreparedIsStored, CallerAt
  <2>10. QED
    BY <2>6, <2>7, <2>9 DEF Trusting
<1>4. CASE ~(id \in Ids(rems) /\ e.prepared.req = caller[c].req)
  <2>1. PICK pc \in {"trust", "failed"} : CallerGoto(c, pc)
    BY <1>4 DEF Lookup, Fails
  <2>2. UNCHANGED <<reviews, rems, closed, slots, worker, registered>>
    BY <1>4 DEF Lookup
  <2>3. SlotsHold'
    BY <1>1, <1>2, <2>1, <2>2, GotoSlots
  <2>4. QED
    BY <1>1, <1>2, <2>1, <2>2, <2>3, GotoHolds
<1>5. QED
  BY <1>3, <1>4

LEMMA TrustHolds ==
  ASSUME ServiceAssumption, RemInv, NEW c \in Callers, Trust(c)
  PROVE  RemInv' /\ Trusting
<1> DEFINE id == caller[c].req.review
           r == Get(reviews, id)
           k == [caller[c] EXCEPT !.pc = "acquire", !.trusted = r]
<1>1. /\ IsStore(TrustedReviews, reviews) /\ CallsHold /\ SlotsHold /\ caller[c].pc = "trust"
      /\ StoresHold(reviews, rems, Range(registered))
  BY DEF RemInv, StoresHold, Trust, CallerAt
<1>2. /\ ~CallerAt(c, "idle") /\ caller[c].pc \in Early /\ caller[c].req \in Requests
      /\ caller[c] \in CallStates
  BY <1>1 DEF CallerAt, Early, CallsHold, CallIs
<1>3. CASE ~closed /\ id \in Ids(reviews) /\ r.final = caller[c].req.final
  <2>1. /\ reviews' = MoveToEnd(reviews, id) /\ caller' = [caller EXCEPT ![c] = k]
        /\ UNCHANGED <<rems, closed, slots, worker, registered>>
    BY <1>3 DEF Trust
  <2>2. /\ r \in Range(reviews) /\ r.id = id /\ r \in TrustedReviews
        /\ r.final \in Range(registered)
    BY <1>1, <1>3, GetIs DEF StoresHold
  <2> HIDE DEF r
  <2>3. k \in CallStates /\ k.pc = "acquire" /\ k.trusted = r /\ k.req = caller[c].req
    BY <1>2, <2>2 DEF CallStates
  <2> HIDE DEF k
  <2>4. CallIs(k, Range(registered))
    BY <1>2, <1>3, <2>2, <2>3 DEF CallIs
  <2>5. CallsHold' /\ caller'[c] = k /\ \A d \in Callers \ {c} : caller'[d] = caller[d]
    BY <1>1, <2>1, <2>3, <2>4, CallStep
  <2>6. SlotsHold'
    BY <1>1, <1>2, <2>1, SlotsStep
  <2>7. StoresHold(reviews', rems', Range(registered))
    BY <1>1, <1>3, <2>1, MovedHolds
  <2>8. Trusting
    BY <2>1, <2>3, <2>5, QuietTrusts
  <2>9. QED
    BY <2>1, <2>5, <2>6, <2>7, <2>8, SameRest DEF RemInv
<1>4. CASE ~(~closed /\ id \in Ids(reviews) /\ r.final = caller[c].req.final)
  <2>1. CallerGoto(c, "failed") /\ UNCHANGED <<reviews, rems, closed, slots, worker, registered>>
    BY <1>4 DEF Trust, Fails
  <2>2. SlotsHold'
    BY <1>1, <1>2, <2>1, GotoSlots
  <2>3. QED
    BY <1>1, <1>2, <2>1, <2>2, GotoHolds
<1>5. QED
  BY <1>3, <1>4

LEMMA AcquireHolds ==
  ASSUME ServiceAssumption, RemInv, NEW c \in Callers, Acquire(c)
  PROVE  RemInv' /\ Trusting
<1>1. /\ CallsHold /\ SlotsHold /\ caller[c].pc = "acquire" /\ ~CallerAt(c, "idle")
      /\ UNCHANGED <<reviews, rems, closed, registered>>
  BY DEF RemInv, Acquire, CallerAt
<1>2. CASE slots = 0
  <2>1. CallerGoto(c, "failed") /\ UNCHANGED <<slots, worker>>
    BY <1>2 DEF Acquire, Fails
  <2>2. SlotsHold'
    BY <1>1, <2>1, GotoSlots DEF Early
  <2>3. QED
    BY <1>1, <2>1, <2>2, GotoHolds
<1>3. CASE slots # 0
  <2>1. /\ slots' = slots - 1 /\ worker' = [worker EXCEPT ![c] = "running"]
        /\ CallerGoto(c, "wait")
    BY <1>3 DEF Acquire
  <2>2. SlotsHold'
    <3>1. c \notin Busy /\ Busy' = Busy \cup {c}
      BY <1>1, <2>1 DEF SlotsHold, Busy, Early
    <3>2. IsFiniteSet(Busy) /\ Cardinality(Busy) \in Nat
      BY <1>1, FS_CardinalityType DEF SlotsHold
    <3>3. IsFiniteSet(Busy') /\ Cardinality(Busy') = Cardinality(Busy) + 1
      BY <3>1, <3>2, FS_AddElement
    <3>4. slots' \in 0..MaxWorkers /\ slots' + Cardinality(Busy') = MaxWorkers
      <4>1. slots \in 0..MaxWorkers /\ slots + Cardinality(Busy) = MaxWorkers /\ MaxWorkers \in Nat
        BY <1>1 DEF SlotsHold, ServiceAssumption
      <4>2. QED
        BY <1>3, <2>1, <3>2, <3>3, <4>1
    <3>5. ASSUME NEW d \in Callers, caller'[d].pc \in Early PROVE worker'[d] = "none"
      <4>1. caller[d] \in CallStates /\ caller[c] \in CallStates
        BY <1>1 DEF CallsHold
      <4>2. d # c /\ caller'[d] = caller[d]
        <5>1. caller'[c].pc = "wait" /\ \A x \in Callers \ {c} : caller'[x] = caller[x]
          BY <1>1, <2>1, <4>1 DEF CallerGoto, CallsHold, CallStates
        <5>2. QED
          BY <3>5, <5>1 DEF Early
      <4>3. QED
        BY <1>1, <2>1, <3>5, <4>2 DEF SlotsHold
    <3>6. worker' \in [Callers -> {"none", "running", "answered", "raised"}]
      BY <1>1, <2>1 DEF SlotsHold
    <3>7. QED
      BY <3>3, <3>4, <3>5, <3>6 DEF SlotsHold
  <2>3. QED
    BY <1>1, <2>1, <2>2, GotoHolds
<1>4. QED
  BY <1>2, <1>3

LEMMA ComputeHolds ==
  ASSUME ServiceAssumption, RemInv, NEW c \in Callers, Compute(c)
  PROVE  RemInv' /\ Trusting
<1>1. PICK outcome \in {"answered", "raised"} :
        /\ worker' = [worker EXCEPT ![c] = outcome]
        /\ caller' = [caller EXCEPT ![c].answer = outcome]
  BY DEF Compute
<1> DEFINE k == [caller[c] EXCEPT !.answer = outcome]
<1>2. CallsHold /\ SlotsHold /\ caller[c] \in CallStates /\ CallIs(caller[c], Range(registered))
  BY DEF RemInv, CallsHold
<1>3. /\ k \in CallStates /\ k.pc = caller[c].pc /\ k.req = caller[c].req
      /\ k.trusted = caller[c].trusted /\ k.reply = caller[c].reply
  BY <1>2 DEF CallStates
<1>4. caller' = [caller EXCEPT ![c] = k]
  BY <1>1
<1> HIDE DEF k
<1>5. CallIs(k, Range(registered))
  BY <1>2, <1>3 DEF CallIs
<1>6. SlotsHold'
  <2>1. Busy' = Busy /\ worker' \in [Callers -> {"none", "running", "answered", "raised"}]
    BY <1>1, <1>2 DEF Compute, Busy, SlotsHold
  <2>2. ASSUME NEW d \in Callers, caller'[d].pc \in Early PROVE worker'[d] = "none"
    <3>1. caller[d].pc \in Early
      BY <1>2, <1>3, <1>4, <2>2 DEF CallsHold
    <3>2. worker[d] = "none" /\ d # c
      BY <1>2, <3>1 DEF SlotsHold, Compute
    <3>3. QED
      BY <1>1, <1>2, <3>2 DEF SlotsHold
  <2>3. slots' = slots
    BY DEF Compute
  <2>4. QED
    BY <1>2, <2>1, <2>2, <2>3 DEF SlotsHold
<1>7. QED
  BY <1>3, <1>4, <1>5, <1>6, OneCallHolds DEF Compute

LEMMA ReleaseHolds ==
  ASSUME ServiceAssumption, RemInv, NEW c \in Callers, Release(c)
  PROVE  RemInv' /\ Trusting
<1>1. CallsHold /\ SlotsHold /\ UNCHANGED <<reviews, rems, closed, caller, registered>>
  BY DEF RemInv, Release
<1>2. SlotsHold'
  <2>1. c \in Busy /\ Busy' = Busy \ {c}
    BY <1>1 DEF Release, Busy, SlotsHold
  <2>2. IsFiniteSet(Busy) /\ Cardinality(Busy) \in Nat
    BY <1>1, FS_CardinalityType DEF SlotsHold
  <2>3. IsFiniteSet(Busy') /\ Cardinality(Busy') = Cardinality(Busy) - 1 /\ Cardinality(Busy') \in Nat
    BY <2>1, <2>2, FS_RemoveElement, FS_CardinalityType
  <2>4. slots' \in 0..MaxWorkers /\ slots' + Cardinality(Busy') = MaxWorkers
    <3>1. slots \in 0..MaxWorkers /\ slots + Cardinality(Busy) = MaxWorkers /\ MaxWorkers \in Nat
          /\ slots' = slots + 1
      BY <1>1 DEF SlotsHold, ServiceAssumption, Release
    <3>2. QED
      BY <2>2, <2>3, <3>1
  <2>5. /\ worker' \in [Callers -> {"none", "running", "answered", "raised"}]
        /\ \A d \in Callers : caller'[d].pc \in Early => worker'[d] = "none"
    BY <1>1 DEF Release, SlotsHold
  <2>6. QED
    BY <2>3, <2>4, <2>5 DEF SlotsHold
<1>3. Trusting
  BY <1>1, QuietTrusts
<1>4. CallsHold'
  BY <1>1, SameCalls, SameRest
<1>5. StoresHold(reviews', rems', Range(registered)')
  BY <1>1, SameRest DEF RemInv
<1>6. QED
  BY <1>1, <1>2, <1>3, <1>4, <1>5, SameRest DEF RemInv

LEMMA WaitHolds ==
  ASSUME ServiceAssumption, RemInv, NEW c \in Callers, Wait(c)
  PROVE  RemInv' /\ Trusting
<1>1. /\ CallsHold /\ SlotsHold /\ caller[c].pc = "wait" /\ ~CallerAt(c, "idle")
      /\ UNCHANGED <<reviews, rems, closed, slots, worker, registered>>
  BY DEF RemInv, Wait, CallerAt
<1>2. PICK pc \in {"store", "failed"} : CallerGoto(c, pc)
  BY DEF Wait, Fails
<1>3. SlotsHold'
  BY <1>1, <1>2, GotoSlots DEF Early
<1>4. QED
  BY <1>1, <1>2, <1>3, GotoHolds

LEMMA StorePreparedHolds ==
  ASSUME ServiceAssumption, RemInv, NEW c \in Callers, StorePrepared(c)
  PROVE  RemInv' /\ Trusting
<1> DEFINE req == caller[c].req
           p == Prepared(req, caller[c].trusted.final)
           e == Get(rems, req.rid)
           n == [id |-> req.rid, prepared |-> p, result |-> None]
<1>1. /\ IsStore(TrustedReviews, reviews) /\ IsStore(Remediations, rems)
      /\ CallsHold /\ SlotsHold /\ caller[c].pc = "store" /\ ~CallerAt(c, "idle")
      /\ StoresHold(reviews, rems, Range(registered))
      /\ UNCHANGED <<closed, slots, worker, registered>>
  BY DEF RemInv, StoresHold, StorePrepared, CallerAt
<1>2. /\ req \in Requests
      /\ caller[c].trusted \in TrustedReviews /\ caller[c].trusted.id = req.review
      /\ caller[c].trusted.final = req.final /\ req.final \in Range(registered)
  BY <1>1 DEF CallsHold, CallIs
<1>3. p \in Preparations /\ p = Prepared(req, req.final) /\ p.req = req
  BY <1>2, PreparedIsIn DEF Prepared
<1>4. CASE Fails(c) /\ UNCHANGED <<reviews, rems>>
  <2>1. CallerGoto(c, "failed")
    BY <1>4 DEF Fails
  <2>2. SlotsHold'
    BY <1>1, <2>1, GotoSlots DEF Early
  <2>3. QED
    BY <1>1, <1>4, <2>1, <2>2, GotoHolds
<1>5. CASE /\ req.rid \in Ids(rems) /\ Bound(e, req)
           /\ Replies(c, e.prepared) /\ UNCHANGED <<reviews, rems>>
  <2>1. /\ e \in Range(rems) /\ e \in Remediations
        /\ e.prepared = Prepared(req, req.final)
    BY <1>1, <1>5, GetIs DEF StoresHold, Bound
  <2>2. e.prepared \in Preparations
    BY <2>1 DEF Remediations
  <2> HIDE DEF e, p, n
  <2>3. /\ CallsHold' /\ SlotsHold' /\ caller'[c].pc = "replied" /\ caller'[c].reply = e.prepared
        /\ \A d \in Callers \ {c} : caller'[d] = caller[d]
    BY <1>1, <1>2, <1>5, <2>1, <2>2, RepliesHolds
  <2>4. RemInv'
    BY <1>1, <1>5, <2>3, SameRest DEF RemInv
  <2>5. StoredWhileTrusted
    BY <1>5 DEF StoredWhileTrusted
  <2>6. \E i \in DOMAIN rems' : rems'[i].prepared = e.prepared
    BY <1>5, <2>1 DEF Range
  <2>7. PreparedIsStored
    BY <2>3, <2>6 DEF PreparedIsStored, CallerAt
  <2>8. QED
    BY <2>4, <2>5, <2>7 DEF Trusting
<1>6. CASE /\ req.rid \notin Ids(rems) /\ StillTrusted(c)
           /\ Store(reviews, Append(rems, n), "remediation") /\ Replies(c, p)
  <2> DEFINE rm == Append(rems, n)
  <2>1. n \in Remediations /\ n.id = req.rid /\ n.prepared = p
    BY <1>2, <1>3 DEF Remediations, Requests
  <2> HIDE DEF n, p, e
  <2>2. /\ IsStore(Remediations, rm) /\ Len(rm) = Len(rems) + 1
        /\ rm[Len(rems) + 1] = n /\ Range(rm) = Range(rems) \cup {n}
    BY <1>1, <1>6, <2>1, AppendIs
  <2>3. Len(rems) \in Nat
    BY <1>1 DEF IsStore
  <2>4. Store(reviews, rm, "remediation")
    BY <1>6
  <2> HIDE DEF rm
  <2>5. StoresTrue(reviews, rm, Range(registered))
    <3>1. StoresTrue(reviews, rems, Range(registered))
      BY <1>1, HoldIsTrue
    <3>2. /\ n.id = n.prepared.req.rid
          /\ n.prepared = Prepared(n.prepared.req, n.prepared.req.final)
          /\ n.prepared.req.final \in Range(registered)
      BY <1>2, <1>3, <2>1
    <3>3. QED
      BY <2>2, <3>1, <3>2 DEF StoresTrue
  <2>6. StoresHold(reviews', rems', Range(registered)) /\ n \in Range(rems')
    <3>1. Len(rm) > 0 /\ rm[Len(rm)] = n
      BY <2>2, <2>3
    <3>2. QED
      BY <2>4, <2>5, <3>1, StoreHolds
  <2>7. /\ CallsHold' /\ SlotsHold' /\ caller'[c].pc = "replied" /\ caller'[c].reply = p
        /\ \A d \in Callers \ {c} : caller'[d] = caller[d]
    BY <1>1, <1>2, <1>3, <1>6, RepliesHolds
  <2>8. RemInv'
    BY <1>1, <2>6, <2>7, SameRest DEF RemInv
  <2>9. \E i \in DOMAIN reviews : reviews[i].reg = caller[c].trusted.reg
    <3>1. Get(reviews, req.review) = caller[c].trusted /\ Place(reviews, req.review) \in DOMAIN reviews
      BY <1>1, <1>6, GetIs DEF StillTrusted
    <3>2. QED
      BY <3>1 DEF Get
  <2>10. StoredWhileTrusted
    BY <2>7, <2>9 DEF StoredWhileTrusted
  <2>11. \E i \in DOMAIN rems' : rems'[i].prepared = p
    BY <2>1, <2>6 DEF Range
  <2>12. PreparedIsStored
    BY <2>7, <2>11 DEF PreparedIsStored, CallerAt
  <2>13. QED
    BY <2>8, <2>10, <2>12 DEF Trusting
<1>7. QED
  BY <1>4, <1>5, <1>6 DEF StorePrepared

LEMMA FinalizeHolds ==
  ASSUME ServiceAssumption, RemInv, NEW id, NEW digest, NEW candidate,
         Finalize(id, digest, candidate)
  PROVE  RemInv' /\ Trusting
<1> DEFINE e == Get(rems, id)
           n == [e EXCEPT !.result = IF candidate = None THEN "hitl_required" ELSE "candidate_ready"]
           w == Without(rems, e.id)
           rm == Append(w, n)
<1>1. /\ IsStore(Remediations, rems) /\ CallsHold /\ SlotsHold
      /\ StoresHold(reviews, rems, Range(registered)) /\ id \in Ids(rems)
      /\ UNCHANGED <<closed, slots, worker, caller, registered>>
  BY DEF RemInv, StoresHold, Finalize
<1>2. SlotsHold' /\ CallsHold'
  BY <1>1, SameRest, SameSlots, SameCalls
<1>3. Trusting
  BY <1>1, QuietTrusts
<1>4. StoresHold(reviews', rems', Range(registered))
  <2>1. CASE UNCHANGED <<reviews, rems>>
    BY <1>1, <2>1
  <2>2. CASE Grow(n)
    <3>1. e \in Range(rems) /\ e.id = id /\ e \in Remediations
      BY <1>1, GetIs
    <3>2. n \in Remediations /\ n.id = e.id /\ n.prepared = e.prepared
      BY <3>1 DEF Remediations
    <3>3. IsStore(Remediations, w) /\ Range(w) = Range(rems) \ {e}
      BY <1>1, <3>1, WithoutIs
    <3>4. n.id \notin Ids(w)
      <4>1. \A d \in Range(rems) : d.id = id => d = e
        BY <1>1, GetIs
      <4>2. QED
        BY <3>1, <3>2, <3>3, <4>1 DEF Ids
    <3>5. Store(reviews, rm, "remediation")
      BY <2>2, <3>2 DEF Grow
    <3> HIDE DEF e, n, w
    <3>6. /\ IsStore(Remediations, rm) /\ Len(rm) = Len(w) + 1 /\ Range(rm) = Range(w) \cup {n}
          /\ Len(w) \in Nat
      <4>1. Len(w) \in Nat
        BY <3>3 DEF IsStore
      <4>2. QED
        BY <3>2, <3>3, <3>4, <4>1, AppendIs
    <3> HIDE DEF rm
    <3>7. StoresTrue(reviews, rm, Range(registered))
      <4>1. StoresTrue(reviews, rems, Range(registered))
        BY <1>1, HoldIsTrue
      <4>2. \A d \in Range(rm) : d = n \/ d \in Range(rems)
        BY <3>3, <3>6
      <4>3. QED
        BY <3>1, <3>2, <3>6, <4>1, <4>2 DEF StoresTrue
    <3>8. Len(rm) > 0
      BY <3>6
    <3>9. QED
      BY <3>5, <3>7, <3>8, StoreHolds
  <2>3. QED
    BY <2>1, <2>2 DEF Finalize
<1>5. QED
  BY <1>1, <1>2, <1>3, <1>4, SameRest DEF RemInv

LEMMA RemNextHolds ==
  ASSUME ServiceAssumption, RemInv, [RemNext]_remVars
  PROVE  RemInv' /\ (Trusting \/ UNCHANGED remVars)
<1>1. CASE UNCHANGED remVars
  <2>1. SlotsHold' /\ CallsHold'
    BY <1>1, SameRest, SameSlots, SameCalls DEF remVars, RemInv
  <2>2. QED
    BY <1>1, <2>1, SameRest DEF remVars, RemInv
<1>2. ASSUME NEW id \in ReviewIds, NEW f \in Finals, Register(id, f) PROVE RemInv' /\ Trusting
  BY <1>2, RegisterHolds
<1>3. CASE Expire
  BY <1>3, ExpireHolds
<1>4. CASE Close
  BY <1>4, CloseHolds
<1>5. ASSUME NEW c \in Callers, NEW req \in Requests, Call(c, req) PROVE RemInv' /\ Trusting
  BY <1>5, CallHolds
<1>6. ASSUME NEW c \in Callers, CallerStep(c) \/ WorkerStep(c) PROVE RemInv' /\ Trusting
  BY <1>6, LookupHolds, TrustHolds, AcquireHolds, WaitHolds, StorePreparedHolds, ComputeHolds,
     ReleaseHolds DEF CallerStep, WorkerStep
<1>7. ASSUME NEW c \in Callers,
             Finalize(caller[c].req.rid, caller[c].reply, caller[c].reply.candidate)
      PROVE  RemInv' /\ Trusting
  BY <1>7, FinalizeHolds
<1>8. QED
  BY <1>1, <1>2, <1>3, <1>4, <1>5, <1>6, <1>7 DEF RemNext

\* However calls, workers, expiry, trimming and closing interleave, and whoever gives up on
\* a worker: no more workers than slots, stores within their limits, every caller is told
\* what it asked for, derived from a registered review, and what is new is stored while the
\* registration it was computed from stands, and is there to be finalized.
THEOREM RemediationTrusted ==
  ASSUME ServiceAssumption
  PROVE  RemSpec => RemediationIsTrusted
<1>1. RemInit => RemInv
  BY RemInitHolds
<1>2. RemInv /\ [RemNext]_remVars => RemInv'
  BY RemNextHolds
<1>3. RemInv => RemTypeOK /\ WorkersBounded /\ StoreBounded /\ ReplyIsOwn
  BY InvShows
<1>4. RemInv /\ [RemNext]_remVars => [StoredWhileTrusted /\ PreparedIsStored]_remVars
  BY RemNextHolds DEF Trusting
<1>5. QED
  BY <1>1, <1>2, <1>3, <1>4, PTL DEF RemSpec, RemediationIsTrusted
-----------------------------------------------------------------------------
(* The patch.  What is proposed depends on the document alone, so it is    *)
(* enough to know the two documents line by line.                          *)

\* What propose_remediation returns for the document.
Proposal ==
  LET k == Field(document, "integrations", finding) IN
  IF Replaceable(k) /\ Anchors(k) # {}
  THEN LET after == Patched(Min(Anchors(k)), k) IN
       IF Validated(after, k) THEN after ELSE Refused
  ELSE Refused

\* The lines of a block that YAML reads as the field.
FieldLines(b, k) == {b.lines[n] : n \in {n \in DOMAIN b.lines : ~b.lines[n].nested /\ b.lines[n].key = k}}

ValueOf(S) == IF S = {} THEN None ELSE (CHOOSE l \in S : TRUE).component

\* Sections are apart: the lines of a section are those of one block.
Apart(d) == \A i, n \in DOMAIN d : i # n => d[i].section # d[n].section

LEMMA FieldOfBlock ==
  ASSUME NEW d, Apart(d), NEW i \in DOMAIN d, NEW s, d[i].section = s, NEW k
  PROVE  Field(d, s, k) = ValueOf(FieldLines(d[i], k))
<1> DEFINE lines == {l \in UNION {{d[m].lines[j] : j \in DOMAIN d[m].lines} :
                                    m \in {m \in DOMAIN d : d[m].section = s}} :
                       ~l.nested /\ l.key = k}
<1>1. {m \in DOMAIN d : d[m].section = s} = {i}
  BY DEF Apart
<1>2. lines = {l \in {d[i].lines[j] : j \in DOMAIN d[i].lines} : ~l.nested /\ l.key = k}
  BY <1>1
<1>3. lines = FieldLines(d[i], k)
  BY <1>2 DEF FieldLines
<1>4. Field(d, s, k) = ValueOf(lines)
  BY DEF Field, ValueOf
<1>5. QED
  BY <1>3, <1>4

LEMMA FieldOfNone ==
  ASSUME NEW d, NEW s, \A i \in DOMAIN d : d[i].section # s, NEW k
  PROVE  Field(d, s, k) = None
BY DEF Field

LEMMA BlockIs ==
  ASSUME NEW b \in Blocks
  PROVE  /\ WellFormed(b)
         /\ b.section \in Sections
         /\ DOMAIN b.lines \subseteq Nat
         /\ \A n \in DOMAIN b.lines : b.lines[n] \in Lines
         /\ \E m \in 1..MaxLines : b.lines \in [1..m -> Lines]
         /\ b = [section |-> b.section, lines |-> b.lines]
<1>1. b \in [section : Sections, lines : UNION {[1..n -> Lines] : n \in 1..MaxLines}]
  BY DEF Blocks
<1>2. PICK m \in 1..MaxLines : b.lines \in [1..m -> Lines]
  BY <1>1
<1>3. DOMAIN b.lines \subseteq Nat
  BY <1>2
<1>4. WellFormed(b)
  BY DEF Blocks
<1>5. b.section \in Sections /\ b = [section |-> b.section, lines |-> b.lines]
  BY <1>1
<1>6. \A n \in DOMAIN b.lines : b.lines[n] \in Lines
  BY <1>2
<1>7. QED
  BY <1>2, <1>3, <1>4, <1>5, <1>6

LEMMA DocumentIs ==
  ASSUME NEW d \in FlowDocuments
  PROVE  /\ 1 \in DOMAIN d
         /\ \A i \in DOMAIN d : d[i] \in Blocks
         /\ Apart(d)
         /\ \/ \E b \in Blocks : d = <<b>>
            \/ \E b, c \in Blocks : d = <<b, c>> /\ b.section # c.section
<1>1. CASE \E b \in Blocks : d = <<b>>
  BY <1>1 DEF Apart
<1>2. CASE \E b, c \in Blocks : d = <<b, c>> /\ b.section # c.section
  BY <1>2 DEF Apart
<1>3. (\E b \in Blocks : d = <<b>>) \/ (\E b, c \in Blocks : d = <<b, c>> /\ b.section # c.section)
  BY DEF FlowDocuments
<1>4. QED
  BY <1>1, <1>2, <1>3

-----------------------------------------------------------------------------
(* The patched document.                                                   *)

Edited(b, j, c) == [b EXCEPT !.lines[j].component = c]

LEMMA EditedLines ==
  ASSUME NEW b \in Blocks, NEW j \in DOMAIN b.lines, NEW c
  PROVE  /\ Edited(b, j, c).section = b.section
         /\ DOMAIN Edited(b, j, c).lines = DOMAIN b.lines
         /\ \A n \in DOMAIN b.lines : n # j => Edited(b, j, c).lines[n] = b.lines[n]
         /\ Edited(b, j, c).lines[j].key = b.lines[j].key
         /\ Edited(b, j, c).lines[j].nested = b.lines[j].nested
         /\ Edited(b, j, c).lines[j].component = c
<1>1. b = [section |-> b.section, lines |-> b.lines] /\ b.lines[j] \in Lines
  BY BlockIs
<1>2. Edited(b, j, c).section = b.section
      /\ Edited(b, j, c).lines = [b.lines EXCEPT ![j].component = c]
  BY <1>1 DEF Edited
<1>3. QED
  BY <1>1, <1>2 DEF Lines

LEMMA EditedIsBlock ==
  ASSUME NEW b \in Blocks, NEW j \in DOMAIN b.lines, NEW c \in Components
  PROVE  Edited(b, j, c) \in Blocks
<1> DEFINE e == Edited(b, j, c)
           line == [b.lines[j] EXCEPT !.component = c]
<1>1. PICK m \in 1..MaxLines : b.lines \in [1..m -> Lines]
  BY BlockIs
<1>2. b = [section |-> b.section, lines |-> b.lines] /\ b.section \in Sections /\ WellFormed(b)
  BY BlockIs
<1>3. line \in Lines
  BY <1>1 DEF Lines
<1>4. e.lines = [b.lines EXCEPT ![j] = line] /\ e.section = b.section
      /\ e = [section |-> b.section, lines |-> [b.lines EXCEPT ![j] = line]]
  BY <1>2 DEF Edited
<1>5. e.lines \in [1..m -> Lines]
  <2> HIDE DEF line, e
  <2>1. QED
    BY <1>1, <1>3, <1>4
<1>6. /\ DOMAIN e.lines = DOMAIN b.lines
      /\ \A n \in DOMAIN b.lines : e.lines[n].key = b.lines[n].key /\ e.lines[n].nested = b.lines[n].nested
  BY EditedLines
<1>7. 1 \in DOMAIN b.lines
  BY <1>1
<1>8. WellFormed(e)
  <2> HIDE DEF e
  <2>1. ~e.lines[1].nested
    <3>1. b.lines # <<>>
      BY <1>7
    <3>2. QED
      BY <1>2, <1>6, <1>7, <3>1 DEF WellFormed
  <2>2. ASSUME NEW i \in DOMAIN e.lines, NEW n \in DOMAIN e.lines,
               i # n, ~e.lines[i].nested, ~e.lines[n].nested
        PROVE  e.lines[i].key # e.lines[n].key
    BY <1>2, <1>6, <2>2 DEF WellFormed
  <2>3. QED
    BY <2>1, <2>2 DEF WellFormed
<1>9. e \in [section : Sections, lines : UNION {[1..n -> Lines] : n \in 1..MaxLines}]
  <2> HIDE DEF line
  <2>1. QED
    BY <1>2, <1>4, <1>5
<1>10. QED
  BY <1>8, <1>9 DEF Blocks

LEMMA PatchedIs ==
  ASSUME document \in FlowDocuments, NEW j \in DOMAIN document[1].lines, NEW k
  PROVE  LET after == Patched(j, k) IN
         /\ DOMAIN after = DOMAIN document
         /\ after[1] = Edited(document[1], j, components[k].successor)
         /\ \A i \in DOMAIN document : i # 1 => after[i] = document[i]
         /\ \A i \in DOMAIN document : after[i].section = document[i].section
         /\ Apart(after)
<1> DEFINE after == Patched(j, k)
<1>1. /\ 1 \in DOMAIN document /\ document[1] \in Blocks /\ Apart(document)
  BY DocumentIs
<1>2. /\ DOMAIN after = DOMAIN document
      /\ after[1] = Edited(document[1], j, components[k].successor)
      /\ \A i \in DOMAIN document : i # 1 => after[i] = document[i]
  BY <1>1 DEF Patched, Edited
<1>3. after[1].section = document[1].section
  BY <1>1, <1>2, EditedLines
<1>4. \A i \in DOMAIN document : after[i].section = document[i].section
  BY <1>2, <1>3
<1>5. Apart(after)
  BY <1>1, <1>2, <1>4 DEF Apart
<1>6. QED
  BY <1>2, <1>4, <1>5

LEMMA PatchedIsDocument ==
  ASSUME document \in FlowDocuments, NEW j \in DOMAIN document[1].lines, NEW k,
         components[k].successor \in Components
  PROVE  Patched(j, k) \in FlowDocuments
<1> DEFINE after == Patched(j, k)
           e == Edited(document[1], j, components[k].successor)
<1>1. document[1] \in Blocks
  BY DocumentIs
<1>2. e \in Blocks /\ e.section = document[1].section
  BY <1>1, EditedIsBlock, EditedLines
<1>3. after = [document EXCEPT ![1] = e]
  BY DEF Patched, Edited
<1> HIDE DEF after, e
<1>4. CASE \E b \in Blocks : document = <<b>>
  <2>1. after = <<e>>
    BY <1>3, <1>4
  <2>2. QED
    BY <1>2, <2>1 DEF FlowDocuments, after
<1>5. CASE \E b, c \in Blocks : document = <<b, c>> /\ b.section # c.section
  <2>1. PICK b \in Blocks, c \in Blocks : document = <<b, c>> /\ b.section # c.section
    BY <1>5
  <2>2. after = <<e, c>> /\ e.section = b.section
    BY <1>2, <1>3, <2>1
  <2>3. QED
    BY <1>2, <2>1, <2>2 DEF FlowDocuments, after
<1>6. QED
  BY <1>4, <1>5, DocumentIs

-----------------------------------------------------------------------------
(* What is offered, and what is refused.                                   *)

PatchTyped ==
  /\ document \in FlowDocuments
  /\ finding \in Endpoints
  /\ \A k \in Components : components[k].successor \in {Successor, None}

\* A field that no line changed of reads as before.
LEMMA SameLines ==
  ASSUME NEW b \in Blocks, NEW j \in DOMAIN b.lines, NEW c, NEW k,
         b.lines[j].nested \/ b.lines[j].key # k
  PROVE  FieldLines(Edited(b, j, c), k) = FieldLines(b, k)
<1> DEFINE e == Edited(b, j, c)
<1>1. /\ DOMAIN e.lines = DOMAIN b.lines
      /\ \A n \in DOMAIN b.lines : n # j => e.lines[n] = b.lines[n]
      /\ e.lines[j].key = b.lines[j].key /\ e.lines[j].nested = b.lines[j].nested
  BY EditedLines
<1> HIDE DEF e
<1>2. ASSUME NEW n \in DOMAIN b.lines
      PROVE  (~e.lines[n].nested /\ e.lines[n].key = k) <=> (~b.lines[n].nested /\ b.lines[n].key = k)
  BY <1>1
<1>3. ASSUME NEW n \in DOMAIN b.lines, ~b.lines[n].nested /\ b.lines[n].key = k
      PROVE  e.lines[n] = b.lines[n]
  BY <1>1, <1>3
<1>4. QED
  BY <1>1, <1>2, <1>3 DEF FieldLines, e

\* A patch that passed validation changed a field of the flow, in the section of the flow.
LEMMA OfferedIs ==
  ASSUME PatchTyped, patch = Proposal, Offered
  PROVE  LET k == Field(document, "integrations", finding) IN
         \E j \in DOMAIN document[1].lines :
           /\ Replaceable(k)
           /\ patch = Patched(j, k)
           /\ Field(patch, "integrations", finding) = components[k].successor
           /\ document[1].section = "integrations"
           /\ document[1].lines[j].key = finding /\ ~document[1].lines[j].nested
<1> DEFINE k == Field(document, "integrations", finding)
           j == Min(Anchors(k))
<1>1. /\ Replaceable(k) /\ Anchors(k) # {}
      /\ patch = Patched(j, k) /\ Validated(patch, k)
  BY DEF Proposal, Offered
<1>2. document[1] \in Blocks /\ DOMAIN document[1].lines \subseteq Nat
  BY DocumentIs, BlockIs DEF PatchTyped
<1>3. Anchors(k) \in SUBSET Nat
  BY <1>2 DEF Anchors, BlockOfFlow
<1>4. j \in Anchors(k)
  BY <1>1, <1>3, MinIs
<1>5. j \in DOMAIN document[1].lines /\ document[1].lines[j].key = finding
      /\ document[1].lines[j].component = k
  BY <1>4 DEF Anchors, BlockOfFlow
<1> HIDE DEF j
<1>6. Field(patch, "integrations", finding) = components[k].successor
  BY <1>1 DEF Validated
<1>7. components[k].successor # k
  BY <1>1 DEF Replaceable
<1> DEFINE e == Edited(document[1], j, components[k].successor)
<1>8. /\ DOMAIN patch = DOMAIN document
      /\ patch[1] = e
      /\ \A i \in DOMAIN document : i # 1 => patch[i] = document[i]
      /\ \A i \in DOMAIN document : patch[i].section = document[i].section
      /\ Apart(patch) /\ Apart(document) /\ 1 \in DOMAIN document
  BY <1>1, <1>5, PatchedIs, DocumentIs DEF PatchTyped
<1>9. ASSUME \/ document[1].section # "integrations"
             \/ document[1].lines[j].nested
      PROVE  Field(patch, "integrations", finding) = k
  <2>1. CASE \A i \in DOMAIN document : document[i].section # "integrations"
    <3>1. k = None
      BY <2>1, FieldOfNone
    <3>2. QED
      BY <1>1, <3>1 DEF Replaceable
  <2>2. ASSUME NEW i \in DOMAIN document, document[i].section = "integrations"
        PROVE  Field(patch, "integrations", finding) = k
    <3>1. k = ValueOf(FieldLines(document[i], finding))
      BY <1>8, <2>2, FieldOfBlock
    <3>2. Field(patch, "integrations", finding) = ValueOf(FieldLines(patch[i], finding))
      BY <1>8, <2>2, FieldOfBlock
    <3>3. FieldLines(patch[i], finding) = FieldLines(document[i], finding)
      <4>1. CASE i # 1
        BY <1>8, <4>1
      <4>2. CASE i = 1
        BY <1>2, <1>5, <1>8, <1>9, <2>2, <4>2, SameLines
      <4>3. QED
        BY <4>1, <4>2
    <3>4. QED
      BY <3>1, <3>2, <3>3
  <2>3. QED
    BY <2>1, <2>2
<1>10. document[1].section = "integrations" /\ ~document[1].lines[j].nested
  BY <1>6, <1>7, <1>9
<1>11. QED
  BY <1>1, <1>5, <1>6, <1>10

\* Every field but the one at the endpoint of the finding is what it was.
LEMMA OtherFieldsKept ==
  ASSUME PatchTyped, patch = Proposal, Offered, NEW s \in Sections, NEW n \in Endpoints,
         s # "integrations" \/ n # finding
  PROVE  Field(patch, s, n) = Field(document, s, n)
<1> DEFINE k == Field(document, "integrations", finding)
<1>1. PICK j \in DOMAIN document[1].lines :
        /\ patch = Patched(j, k)
        /\ document[1].section = "integrations"
        /\ document[1].lines[j].key = finding
  BY OfferedIs
<1> HIDE DEF k
<1>2. /\ DOMAIN patch = DOMAIN document
      /\ patch[1] = Edited(document[1], j, components[k].successor)
      /\ \A i \in DOMAIN document : i # 1 => patch[i] = document[i]
      /\ \A i \in DOMAIN document : patch[i].section = document[i].section
      /\ Apart(patch) /\ Apart(document) /\ document[1] \in Blocks
  BY <1>1, PatchedIs, DocumentIs DEF PatchTyped
<1>3. CASE \A i \in DOMAIN document : document[i].section # s
  BY <1>2, <1>3, FieldOfNone
<1>4. ASSUME NEW i \in DOMAIN document, document[i].section = s
      PROVE  Field(patch, s, n) = Field(document, s, n)
  <2>1. /\ Field(document, s, n) = ValueOf(FieldLines(document[i], n))
        /\ Field(patch, s, n) = ValueOf(FieldLines(patch[i], n))
    BY <1>2, <1>4, FieldOfBlock
  <2>2. FieldLines(patch[i], n) = FieldLines(document[i], n)
    <3>1. CASE i # 1
      BY <1>2, <3>1
    <3>2. CASE i = 1
      BY <1>1, <1>2, <1>4, <3>2, SameLines
    <3>3. QED
      BY <3>1, <3>2
  <2>3. QED
    BY <2>1, <2>2
<1>5. QED
  BY <1>3, <1>4

LEMMA MinimalHolds ==
  ASSUME PatchTyped, patch = Proposal, Offered
  PROVE  PatchIsMinimal
<1> DEFINE k == Field(document, "integrations", finding)
<1>1. PICK j \in DOMAIN document[1].lines :
        patch = Patched(j, k) /\ ~document[1].lines[j].nested
  BY OfferedIs
<1> HIDE DEF k
<1>2. /\ patch[1] = Edited(document[1], j, components[k].successor)
      /\ \A i \in DOMAIN document : i # 1 => patch[i] = document[i]
      /\ document[1] \in Blocks
  BY <1>1, PatchedIs, DocumentIs DEF PatchTyped
<1>3. ASSUME NEW s \in Sections, NEW p \in NestedFields(document, s)
      PROVE  patch[p[1]].lines[p[2]] = document[p[1]].lines[p[2]]
  <2>1. PICK i \in DOMAIN document, n \in 1..MaxLines :
          i = p[1] /\ n = p[2] /\ n \in DOMAIN document[i].lines /\ document[i].lines[n].nested
    BY DEF NestedFields
  <2>2. CASE i # 1
    BY <1>2, <2>1, <2>2
  <2>3. CASE i = 1
    BY <1>1, <1>2, <2>1, <2>3, EditedLines
  <2>4. QED
    BY <2>2, <2>3
<1>4. QED
  BY <1>3, OtherFieldsKept DEF PatchIsMinimal

LEMMA ResolvesHolds ==
  ASSUME PatchTyped, patch = Proposal, Offered
  PROVE  PatchResolves
<1> DEFINE k == Field(document, "integrations", finding)
<1>1. Replaceable(k) /\ Field(patch, "integrations", finding) = components[k].successor
  BY OfferedIs
<1> HIDE DEF k
<1>2. ~Defect(patch, finding)
  BY <1>1 DEF Defect, Replaceable
<1>3. ASSUME NEW n \in Endpoints, n # finding, Defect(patch, n) PROVE Defect(document, n)
  <2>1. Field(patch, "integrations", n) = Field(document, "integrations", n)
    BY <1>3, OtherFieldsKept DEF Sections
  <2>2. QED
    BY <1>3, <2>1 DEF Defect
<1>4. QED
  BY <1>2, <1>3 DEF PatchResolves

\* In a plain block the field is one line, and its only anchor.
LEMMA PlainHolds ==
  ASSUME PatchAssumption, PatchTyped, patch = Proposal
  PROVE  PlainDocumentPatched
<1> DEFINE k == Field(document, "integrations", finding)
           b == document[1]
<1> SUFFICES ASSUME patch = Refused, b.section = "integrations",
                    \A n \in DOMAIN b.lines : ~b.lines[n].nested,
                    Replaceable(k)
             PROVE  FALSE
  BY DEF PlainDocumentPatched
<1>1. document \in FlowDocuments /\ b \in Blocks /\ Apart(document) /\ 1 \in DOMAIN document
  BY DocumentIs DEF PatchTyped
<1>2. /\ WellFormed(b) /\ DOMAIN b.lines \subseteq Nat
      /\ \A n \in DOMAIN b.lines : b.lines[n] \in Lines
  BY <1>1, BlockIs
<1>3. k = ValueOf(FieldLines(b, finding))
  BY <1>1, FieldOfBlock
<1>4. PICK l \in FieldLines(b, finding) : k = l.component
  BY <1>3 DEF Replaceable, ValueOf
<1>5. PICK m \in DOMAIN b.lines : b.lines[m].key = finding /\ b.lines[m].component = k
  BY <1>4 DEF FieldLines
<1>6. m \in Anchors(k)
  BY <1>5 DEF Anchors, BlockOfFlow
<1>7. \A n \in DOMAIN b.lines : b.lines[n].key = finding => n = m
  BY <1>2, <1>5 DEF WellFormed
<1>8. Anchors(k) = {m}
  BY <1>6, <1>7 DEF Anchors, BlockOfFlow
<1>9. Min(Anchors(k)) = m
  <2>1. m \in Int
    BY <1>2
  <2>2. QED
    BY <1>8, <2>1 DEF Min
<1> DEFINE c == components[k].successor
           after == Patched(m, k)
<1>10. c \in Components
  <2>1. k \in Components
    BY <1>2, <1>5 DEF Lines
  <2>2. QED
    BY <2>1 DEF PatchTyped, PatchAssumption, Replaceable
<1>11. after \in FlowDocuments
  BY <1>1, <1>10, PatchedIsDocument
<1>12. Validated(after, k)
  <2>1. /\ DOMAIN after = DOMAIN document /\ Apart(after)
        /\ after[1] = Edited(b, m, c) /\ after[1].section = "integrations"
    BY <1>1, PatchedIs
  <2>2. Field(after, "integrations", finding) = ValueOf(FieldLines(after[1], finding))
    BY <1>1, <2>1, FieldOfBlock
  <2>3. /\ DOMAIN after[1].lines = DOMAIN b.lines
        /\ \A n \in DOMAIN b.lines : n # m => after[1].lines[n] = b.lines[n]
        /\ after[1].lines[m].key = finding /\ ~after[1].lines[m].nested
        /\ after[1].lines[m].component = c
    BY <1>1, <1>5, <2>1, EditedLines
  <2> HIDE DEF after, c
  <2>4. FieldLines(after[1], finding) = {after[1].lines[m]}
    BY <1>5, <1>7, <2>3 DEF FieldLines
  <2>5. ValueOf(FieldLines(after[1], finding)) = c
    BY <2>3, <2>4 DEF ValueOf
  <2>6. QED
    BY <2>2, <2>5 DEF Validated, c
<1>13. patch = after
  BY <1>6, <1>9, <1>12 DEF Proposal
<1>14. QED
  BY <1>11, <1>13 DEF PatchAssumption

\* For every document, any number of components and either endpoint: a patch that is offered
\* changes the endpoint of the finding and nothing else, removes the defect and brings no
\* other, and a replaceable endpoint of a plain document is never refused
\* (remediation.propose_remediation).
THEOREM PatchesAreRight == ASSUME PatchAssumption PROVE PatchSpec => []PatchIsRight
<1> DEFINE PatchInv == PatchTyped /\ patch \in {None, Proposal}
<1>1. PatchInit => PatchInv
  BY DEF PatchInit, PatchTyped
<1>2. PatchInv /\ [PatchNext]_patchVars => PatchInv'
  <2> SUFFICES ASSUME PatchInv, [PatchNext]_patchVars PROVE PatchInv'
    OBVIOUS
  <2>1. UNCHANGED <<document, components, finding>>
    BY DEF PatchNext, Propose, patchVars
  <2>2. PatchTyped'
    BY <2>1 DEF PatchTyped
  <2>3. Proposal' = Proposal
    <3>1. /\ \A k : Replaceable(k)' = Replaceable(k)
          /\ \A k : Anchors(k)' = Anchors(k)
          /\ \A j, k : Patched(j, k)' = Patched(j, k)
          /\ \A d, k : Validated(d, k)' = Validated(d, k)
      BY <2>1 DEF Replaceable, Anchors, BlockOfFlow, Patched, Validated
    <3>2. QED
      BY <2>1, <3>1 DEF Proposal
  <2>4. patch' = patch \/ patch' = Proposal
    BY DEF PatchNext, Propose, patchVars, Proposal
  <2>5. QED
    BY <2>2, <2>3, <2>4
<1>3. PatchInv => PatchIsRight
  <2> SUFFICES ASSUME PatchInv PROVE PatchIsRight
    OBVIOUS
  <2>1. CASE patch = Proposal /\ Offered
    BY <2>1, MinimalHolds, ResolvesHolds, PlainHolds DEF PatchIsRight
  <2>2. CASE patch = Proposal /\ ~Offered
    BY <2>2, PlainHolds DEF PatchIsRight, PatchIsMinimal, PatchResolves
  <2>3. CASE patch = None
    BY <2>3 DEF PatchIsRight, PatchIsMinimal, PatchResolves, PlainDocumentPatched, Offered,
       PatchAssumption
  <2>4. QED
    BY <2>1, <2>2, <2>3
<1>4. QED
  BY <1>1, <1>2, <1>3, PTL DEF PatchSpec
=============================================================================

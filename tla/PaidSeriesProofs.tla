--------------------------- MODULE PaidSeriesProofs ---------------------------
(***************************************************************************)
(* What a paid measurement series says is true of what was paid for, for   *)
(* every value of the constants.  The argument: the directory of a repeat  *)
(* is made once and its attempt never changes, so whoever pays for the     *)
(* repeat or captures it is the one attempt that owns it; an attempt is    *)
(* the work of one run, which writes its capture before its terminal       *)
(* record; and a bundle that is on disk at the beginning and at the end of *)
(* a run was on disk in between, because versions only grow.               *)
(* The scorer of a repeat has a section of its own at the end.             *)
(***************************************************************************)
EXTENDS PaidSeries, DevelopmentScore, SequenceTheorems, Induction

-----------------------------------------------------------------------------
(* The inductive invariant.                                                *)

\* A run that owns the entry of its repeat, and one that has not written its capture.
Owning == {"reserved", "case", "call", "answer", "write", "failing", "complete"}
Unwritten == {"authorized", "reserved", "case", "call", "answer", "write"}

Rows == [revision: Nat, bundle: Nat, task: TaskIds, verdict: Verdicts]

Documents ==
  [series: Series, ordinal: Ordinals, capture: CaptureIds, attempt: Nat, identity: Nat,
   corpus: Nat, rows: Seq(Rows), gate: BOOLEAN, at: Nat]

Calls ==
  [revision: Nat] \cup [revision: Nat, bundle: Nat, scheduled: BOOLEAN] \cup {None}

Works ==
  [pc: Owning \cup {"authorized", "passed", "failed", "refused", "crashed"}, attempt: Nat,
   series: Series, ordinal: Ordinals, capture: CaptureIds, identity: Nat, rows: Seq(Rows),
   current: Calls, document: Documents \cup {None}]

Types ==
  /\ source \in [corpus: Nat, bundle: Nat]
  /\ corpusLock \in [frozen: BOOLEAN, series: Series \cup {None}, corpus: Nat, bundle: Nat \cup {None}]
  /\ corpusLock.frozen => corpusLock.series \in Series /\ corpusLock.bundle \in Nat
  /\ attemptLedger \in [Series \X Ordinals -> Entries \cup {None}]
  /\ captures \subseteq Documents
  /\ run \in [Runs -> Works \cup {NoAttempt}]
  /\ attempts \in Nat
  /\ clock \in Nat

Owned(s, o, a) == attemptLedger[<<s, o>>] # None /\ attemptLedger[<<s, o>>].attempt = a

\* What was paid for was paid for by the owner of the repeat, and so was a capture.
PaidOK ==
  \A p \in paid : p.series \in Series /\ p.ordinal \in Ordinals /\ Owned(p.series, p.ordinal, p.attempt)

CapturesOwned == \A d \in captures : Owned(d.series, d.ordinal, d.attempt)

\* Every owner is an attempt that was authorized.
OwnersMade ==
  \A k \in Series \X Ordinals : attemptLedger[k] # None => attemptLedger[k].attempt <= attempts

\* Rows of tasks of their own, run by a bundle that was on disk since the identity was.
RowsOK(rows, identity, latest) ==
  /\ \A i \in 1..Len(rows) : rows[i].bundle \in identity..latest
  /\ \A i, j \in 1..Len(rows) : i # j => rows[i].task # rows[j].task

DocumentOK(d) ==
  /\ Len(d.rows) = Len(Cases)
  /\ \A i, j \in 1..Len(d.rows) : i # j => d.rows[i].task # d.rows[j].task
  /\ \A i \in 1..Len(d.rows) : d.rows[i].bundle = d.identity /\ d.rows[i].revision = d.corpus

Describes(d, q) ==
  /\ d.series = q.series /\ d.ordinal = q.ordinal /\ d.attempt = q.attempt
  /\ DocumentOK(d)

\* A run between two steps.
WorkOK(q) ==
  /\ q.attempt \in 1..attempts
  /\ q.identity <= source.bundle
  /\ RowsOK(q.rows, q.identity, source.bundle)
  /\ q.pc \in Owning =>
       Owned(q.series, q.ordinal, q.attempt) /\ attemptLedger[<<q.series, q.ordinal>>].terminal = None
  /\ q.pc \in Unwritten => \A d \in captures : d.attempt # q.attempt
  /\ q.pc = "failing" => \A d \in captures : d.attempt = q.attempt => ~d.gate
  /\ q.pc = "call" => q.current \in [revision: Nat]
  /\ q.pc = "answer" =>
       /\ q.current \in [revision: Nat, bundle: Nat, scheduled: BOOLEAN]
       /\ q.current.bundle \in q.identity..source.bundle
  /\ q.pc = "write" => q.document \in Documents /\ Describes(q.document, q)
  /\ q.pc = "complete" => \E d \in captures : Describes(d, q) /\ d.gate

RunsOK == \A r \in Runs : run[r] # NoAttempt => WorkOK(run[r])

\* No two runs make the same attempt.
AttemptsApart ==
  \A r, q \in Runs : run[r] # NoAttempt /\ run[q] # NoAttempt /\ run[r].attempt = run[q].attempt => r = q

IInv ==
  /\ Types /\ PaidOK /\ CapturesOwned /\ OwnersMade /\ RunsOK /\ AttemptsApart
  /\ CaptureIsOneMeasurement /\ LedgerIsTrue

-----------------------------------------------------------------------------
(* A step of one run.                                                      *)

\* A run is not disturbed by what another attempt does to the ledger and the captures.
LEMMA WorkKept ==
  ASSUME Types, NEW q \in Works, WorkOK(q),
         attempts' \in Nat, attempts <= attempts',
         source' \in [corpus: Nat, bundle: Nat], source.bundle <= source'.bundle,
         q.pc \in Owning => attemptLedger'[<<q.series, q.ordinal>>] = attemptLedger[<<q.series, q.ordinal>>],
         captures \subseteq captures',
         \A d \in captures' : d \in captures \/ d.attempt # q.attempt
  PROVE  WorkOK(q)'
<1>1. /\ q.attempt \in Nat /\ q.identity \in Nat /\ source.bundle \in Nat /\ source'.bundle \in Nat
      /\ attempts \in Nat
  BY DEF Types, Works
<1>2. q.attempt \in 1..attempts' /\ q.identity <= source'.bundle
  BY <1>1 DEF WorkOK
<1>3. \A n \in q.identity..source.bundle : n \in q.identity..source'.bundle
  BY <1>1
<1>4. RowsOK(q.rows, q.identity, source'.bundle)
  BY <1>3 DEF WorkOK, RowsOK
<1>5. q.pc \in Owning =>
        /\ Owned(q.series, q.ordinal, q.attempt)'
        /\ attemptLedger'[<<q.series, q.ordinal>>].terminal = None
  BY DEF WorkOK, Owned
<1>6. /\ q.pc \in Unwritten => \A d \in captures' : d.attempt # q.attempt
      /\ q.pc = "failing" => \A d \in captures' : d.attempt = q.attempt => ~d.gate
      /\ q.pc = "complete" => \E d \in captures' : Describes(d, q) /\ d.gate
  BY DEF WorkOK
<1>7. /\ q.pc = "call" => q.current \in [revision: Nat]
      /\ q.pc = "answer" =>
           /\ q.current \in [revision: Nat, bundle: Nat, scheduled: BOOLEAN]
           /\ q.current.bundle \in q.identity..source'.bundle
      /\ q.pc = "write" => q.document \in Documents /\ Describes(q.document, q)
  BY <1>3 DEF WorkOK
<1>8. QED
  BY <1>2, <1>4, <1>5, <1>6, <1>7 DEF WorkOK, Describes, DocumentOK

\* One run goes on, of its attempt or with a new one; the others stay as they are.
Moves(r, q) ==
  /\ run' = [run EXCEPT ![r] = q]
  /\ q \in Works
  /\ attempts' \in Nat /\ attempts <= attempts'
  /\ \/ run[r] # NoAttempt /\ q.attempt = run[r].attempt
     \/ q.attempt > attempts
  /\ source' = source
  /\ captures \subseteq captures'
  /\ \A d \in captures' : d \in captures \/ d.attempt = q.attempt
  /\ \A k \in Series \X Ordinals : attemptLedger'[k] = attemptLedger[k] \/ attemptLedger[k] = None
                                     \/ attemptLedger[k].attempt = q.attempt

LEMMA RunMoves ==
  ASSUME Types, RunsOK, AttemptsApart, NEW r \in Runs, NEW q, Moves(r, q), WorkOK(q)'
  PROVE  RunsOK' /\ AttemptsApart' /\ run' \in [Runs -> Works \cup {NoAttempt}]
<1>1. run' \in [Runs -> Works \cup {NoAttempt}] /\ run'[r] = q
      /\ \A o \in Runs \ {r} : run'[o] = run[o]
  BY DEF Moves, Types
<1>2. ASSUME NEW o \in Runs \ {r}, run[o] # NoAttempt
      PROVE  run[o] \in Works /\ WorkOK(run[o]) /\ run[o].attempt # q.attempt
  <2>1. run[o] \in Works /\ WorkOK(run[o])
    BY <1>2 DEF Types, RunsOK
  <2>2. run[o].attempt \in 1..attempts /\ attempts \in Nat /\ q.attempt \in Nat
    BY <2>1 DEF WorkOK, Types, Moves, Works
  <2>3. CASE run[r] # NoAttempt /\ q.attempt = run[r].attempt
    BY <1>2, <2>1, <2>3 DEF AttemptsApart
  <2>4. CASE q.attempt > attempts
    BY <2>1, <2>2, <2>4
  <2>5. QED
    BY <2>1, <2>3, <2>4 DEF Moves
<1>3. ASSUME NEW o \in Runs \ {r}, run[o] # NoAttempt
      PROVE  WorkOK(run[o])'
  <2>1. PICK w \in Works : w = run[o] /\ WorkOK(w) /\ w.attempt # q.attempt
    BY <1>2, <1>3
  <2>2. w.pc \in Owning => attemptLedger'[<<w.series, w.ordinal>>] = attemptLedger[<<w.series, w.ordinal>>]
    <3>1. SUFFICES ASSUME w.pc \in Owning
          PROVE  attemptLedger'[<<w.series, w.ordinal>>] = attemptLedger[<<w.series, w.ordinal>>]
      OBVIOUS
    <3>2. <<w.series, w.ordinal>> \in Series \X Ordinals
      BY DEF Works
    <3>3. attemptLedger[<<w.series, w.ordinal>>] # None /\ attemptLedger[<<w.series, w.ordinal>>].attempt = w.attempt
      BY <2>1, <3>1 DEF WorkOK, Owned
    <3>4. QED
      BY <2>1, <3>2, <3>3 DEF Moves
  <2>3. WorkOK(w)'
    <3>1. /\ attempts' \in Nat /\ attempts <= attempts'
          /\ source' \in [corpus: Nat, bundle: Nat] /\ source.bundle <= source'.bundle
          /\ captures \subseteq captures'
          /\ \A d \in captures' : d \in captures \/ d.attempt # w.attempt
      BY <2>1 DEF Moves, Types
    <3>2. QED
      BY <2>1, <2>2, <3>1, WorkKept
  <2>4. w = run'[o]
    BY <1>1, <2>1
  <2>5. QED
    BY <2>3, <2>4 DEF WorkOK, Describes, DocumentOK, RowsOK, Owned
<1>4. RunsOK'
  <2>1. ASSUME NEW o \in Runs, run'[o] # NoAttempt
        PROVE  WorkOK(run[o])'
    <3>1. CASE o = r
      <4>1. q = run'[o]
        BY <1>1, <3>1
      <4>2. QED
        BY <4>1 DEF WorkOK, Describes, DocumentOK, RowsOK, Owned
    <3>2. CASE o # r
      BY <1>1, <1>3, <2>1, <3>2
    <3>3. QED
      BY <3>1, <3>2
  <2>2. QED
    BY <2>1 DEF RunsOK
<1>5. AttemptsApart'
  <2>1. ASSUME NEW o \in Runs, NEW p \in Runs, run'[o] # NoAttempt, run'[p] # NoAttempt,
               run'[o].attempt = run'[p].attempt, o # p
        PROVE  FALSE
    <3>1. CASE o = r
      BY <1>1, <1>2, <2>1, <3>1
    <3>2. CASE p = r
      BY <1>1, <1>2, <2>1, <3>2
    <3>3. CASE o # r /\ p # r
      BY <1>1, <2>1, <3>3 DEF AttemptsApart
    <3>4. QED
      BY <3>1, <3>2, <3>3
  <2>2. QED
    BY <2>1 DEF AttemptsApart
<1>6. QED
  BY <1>1, <1>4, <1>5

\* A step of a run that leaves the ledger and the captures alone.
LEMMA QuietStep ==
  ASSUME IInv, NEW r \in Runs, NEW q \in Works, run' = [run EXCEPT ![r] = q],
         run[r] # NoAttempt, q.attempt = run[r].attempt, WorkOK(q)', PaidOK',
         UNCHANGED <<source, corpusLock, attemptLedger, captures, attempts, clock>>
  PROVE  IInv'
<1>1. Moves(r, q)
  BY DEF Moves, IInv, Types
<1>2. RunsOK' /\ AttemptsApart' /\ run' \in [Runs -> Works \cup {NoAttempt}]
  BY <1>1, RunMoves DEF IInv
<1>3. CapturesOwned' /\ OwnersMade'
  BY DEF IInv, CapturesOwned, Owned, OwnersMade
<1>4. CaptureIsOneMeasurement' /\ LedgerIsTrue'
  BY DEF IInv, CaptureIsOneMeasurement, LedgerIsTrue
<1>5. QED
  BY <1>2, <1>3, <1>4 DEF IInv, Types

\* The owner and the clock.
LEMMA OwnerStep ==
  ASSUME IInv, Types', UNCHANGED <<attemptLedger, captures, run, attempts, paid>>,
         source.bundle <= source'.bundle
  PROVE  IInv'
<1>1. ASSUME NEW r \in Runs, run'[r] # NoAttempt
      PROVE  WorkOK(run[r])'
  <2>1. PICK w \in Works : w = run[r] /\ WorkOK(w)
    BY <1>1 DEF IInv, Types, RunsOK
  <2>2. attempts' \in Nat /\ attempts <= attempts' /\ source' \in [corpus: Nat, bundle: Nat]
    BY DEF IInv, Types
  <2>3. WorkOK(w)'
    BY <2>1, <2>2, WorkKept DEF IInv
  <2>4. w = run'[r]
    BY <2>1
  <2>5. QED
    BY <2>3, <2>4 DEF WorkOK, Describes, DocumentOK, RowsOK, Owned
<1>2. RunsOK' /\ AttemptsApart'
  BY <1>1 DEF IInv, RunsOK, AttemptsApart
<1>3. PaidOK' /\ CapturesOwned' /\ OwnersMade'
  BY DEF IInv, PaidOK, CapturesOwned, Owned, OwnersMade
<1>4. CaptureIsOneMeasurement' /\ LedgerIsTrue'
  BY DEF IInv, CaptureIsOneMeasurement, LedgerIsTrue
<1>5. QED
  BY <1>2, <1>3, <1>4 DEF IInv

LEMMA OwnerHolds ==
  ASSUME IInv, EditCorpus \/ EditBundle \/ BuildLock \/ Tick \/ \E s \in Series : FreezeLock(s)
  PROVE  IInv'
<1>1. CASE EditCorpus
  <2>1. source' = [source EXCEPT !.corpus = @ + 1]
        /\ UNCHANGED <<corpusLock, attemptLedger, captures, run, attempts, paid, clock>>
    BY <1>1 DEF EditCorpus
  <2>2. Types' /\ source.bundle <= source'.bundle
    BY <2>1 DEF IInv, Types
  <2>3. QED
    BY <2>1, <2>2, OwnerStep
<1>2. CASE EditBundle
  <2>1. source' = [source EXCEPT !.bundle = @ + 1]
        /\ UNCHANGED <<corpusLock, attemptLedger, captures, run, attempts, paid, clock>>
    BY <1>2 DEF EditBundle
  <2>2. Types' /\ source.bundle <= source'.bundle
    BY <2>1 DEF IInv, Types
  <2>3. QED
    BY <2>1, <2>2, OwnerStep
<1>3. CASE BuildLock
  <2>1. corpusLock' = [frozen |-> FALSE, series |-> None, corpus |-> source.corpus, bundle |-> None]
        /\ UNCHANGED <<source, attemptLedger, captures, run, attempts, paid, clock>>
    BY <1>3 DEF BuildLock
  <2>2. Types' /\ source.bundle <= source'.bundle
    BY <2>1 DEF IInv, Types
  <2>3. QED
    BY <2>1, <2>2, OwnerStep
<1>4. CASE Tick
  <2>1. clock' = clock + 1 /\ UNCHANGED <<source, corpusLock, attemptLedger, captures, run, attempts, paid>>
    BY <1>4 DEF Tick
  <2>2. Types' /\ source.bundle <= source'.bundle
    BY <2>1 DEF IInv, Types
  <2>3. QED
    BY <2>1, <2>2, OwnerStep
<1>5. CASE \E s \in Series : FreezeLock(s)
  <2>1. PICK s \in Series : FreezeLock(s)
    BY <1>5
  <2>2. corpusLock' = [frozen |-> TRUE, series |-> s, corpus |-> source.corpus, bundle |-> source.bundle]
        /\ UNCHANGED <<source, attemptLedger, captures, run, attempts, paid, clock>>
    BY <2>1 DEF FreezeLock
  <2>3. Types' /\ source.bundle <= source'.bundle
    BY <2>2 DEF IInv, Types
  <2>4. QED
    BY <2>2, <2>3, OwnerStep
<1>6. QED
  BY <1>1, <1>2, <1>3, <1>4, <1>5

-----------------------------------------------------------------------------
(* The steps of a run.                                                     *)

Stages == Owning \cup {"authorized", "passed", "failed", "refused", "crashed"}

LEMMA AtWork ==
  ASSUME IInv, NEW r \in Runs, run[r].pc # "idle"
  PROVE  /\ run[r] \in Works /\ run[r] # NoAttempt /\ WorkOK(run[r])
         /\ Key(r) \in Series \X Ordinals
         /\ Key(r) = <<run[r].series, run[r].ordinal>>
<1>1. run[r] \in Works /\ run[r] # NoAttempt
  BY DEF IInv, Types, NoAttempt
<1>2. QED
  BY <1>1 DEF IInv, RunsOK, Key, Works

\* The same work at another stage.
LEMMA StageChanges ==
  ASSUME IInv, NEW r \in Runs, run[r].pc # "idle", NEW pc \in Stages, Enter(r, pc)
  PROVE  \E q \in Works :
           /\ q = [run[r] EXCEPT !.pc = pc]
           /\ run' = [run EXCEPT ![r] = q]
           /\ q.pc = pc
<1>1. run[r] \in Works
  BY AtWork
<1>2. PICK q : q = [run[r] EXCEPT !.pc = pc]
  OBVIOUS
<1>3. q \in Works /\ q.pc = pc
  BY <1>1, <1>2 DEF Works, Stages
<1>4. run' = [run EXCEPT ![r] = q]
  BY <1>2 DEF Enter, IInv, Types
<1>5. QED
  BY <1>2, <1>3, <1>4

\* A run that gives up, is refused or dies owes the ledger nothing.
Over == {"failed", "refused", "crashed", "passed"}

LEMMA StageStep ==
  ASSUME IInv, NEW r \in Runs, run[r].pc # "idle", NEW pc \in Stages, Enter(r, pc),
         \/ pc \in Over
         \/ pc = "case" /\ run[r].pc = "reserved"
         \/ pc = "failing" /\ run[r].pc \in Owning \cap Unwritten,
         UNCHANGED <<source, corpusLock, attemptLedger, captures, attempts, paid, clock>>
  PROVE  IInv'
<1>1. PICK q \in Works :
        /\ q = [run[r] EXCEPT !.pc = pc]
        /\ run' = [run EXCEPT ![r] = q]
        /\ q.pc = pc
  BY StageChanges
<1>2. PICK w \in Works : w = run[r] /\ WorkOK(w) /\ run[r] # NoAttempt
  BY AtWork
<1>3. /\ q.attempt = w.attempt /\ q.series = w.series /\ q.ordinal = w.ordinal
      /\ q.identity = w.identity /\ q.rows = w.rows
  BY <1>1, <1>2 DEF Works
<1>4. /\ q.attempt \in 1..attempts /\ q.identity <= source.bundle
      /\ RowsOK(q.rows, q.identity, source.bundle)
  BY <1>2, <1>3 DEF WorkOK
<1>5. q.pc \in Owning =>
        Owned(q.series, q.ordinal, q.attempt) /\ attemptLedger[<<q.series, q.ordinal>>].terminal = None
  BY <1>1, <1>2, <1>3 DEF WorkOK, Over, Owning
<1>6. q.pc \in Unwritten => \A d \in captures : d.attempt # q.attempt
  BY <1>1, <1>2, <1>3 DEF WorkOK, Over, Unwritten
<1>7. q.pc = "failing" => \A d \in captures : d.attempt = q.attempt => ~d.gate
  BY <1>1, <1>2, <1>3 DEF WorkOK, Over
<1>8. q.pc \notin {"call", "answer", "write", "complete"}
  BY <1>1 DEF Over
<1>9. WorkOK(q)
  BY <1>4, <1>5, <1>6, <1>7, <1>8 DEF WorkOK
<1>10. WorkOK(q)'
  BY <1>9 DEF WorkOK, Describes, DocumentOK, RowsOK, Owned
<1>11. PaidOK'
  BY DEF IInv, PaidOK, Owned
<1>12. QED
  BY <1>1, <1>2, <1>3, <1>10, <1>11, QuietStep

LEMMA MarkHolds ==
  ASSUME IInv, NEW r \in Runs, Mark(r)
  PROVE  IInv'
<1>1. run[r].pc = "reserved"
      /\ UNCHANGED <<source, corpusLock, attemptLedger, captures, attempts, paid, clock>>
  BY DEF Mark
<1>2. CASE Enter(r, "case")
  BY <1>1, <1>2, StageStep DEF Stages, Owning
<1>3. CASE Enter(r, "failed")
  BY <1>1, <1>3, StageStep DEF Stages, Over
<1>4. QED
  BY <1>2, <1>3 DEF Mark

LEMMA CrashHolds ==
  ASSUME IInv, NEW r \in Runs, Die(r)
  PROVE  IInv'
BY StageStep DEF Die, Stages, Over

\* The same work with more done of it.
LEMMA MaterializeHolds ==
  ASSUME IInv, NEW r \in Runs, Materialize(r)
  PROVE  IInv'
<1>1. run[r].pc = "case"
      /\ UNCHANGED <<source, corpusLock, attemptLedger, captures, attempts, paid, clock>>
  BY DEF Materialize
<1>2. CASE Enter(r, "failing")
  BY <1>1, <1>2, StageStep DEF Stages, Owning, Unwritten
<1>3. CASE run' = [run EXCEPT ![r].pc = "call", ![r].current = [revision |-> source.corpus]]
  <2>1. PICK w \in Works : w = run[r] /\ WorkOK(w) /\ run[r] # NoAttempt
    BY <1>1, AtWork
  <2>2. PICK q : q = [w EXCEPT !.pc = "call", !.current = [revision |-> source.corpus]]
    OBVIOUS
  <2>3. [revision |-> source.corpus] \in [revision: Nat]
    BY DEF IInv, Types
  <2>4. q \in Works
    BY <2>2, <2>3 DEF Works, Calls, Owning
  <2>5. /\ q.attempt = w.attempt /\ q.series = w.series /\ q.ordinal = w.ordinal
        /\ q.identity = w.identity /\ q.rows = w.rows /\ q.pc = "call"
        /\ q.current = [revision |-> source.corpus]
    BY <2>2 DEF Works
  <2>6. run' = [run EXCEPT ![r] = q]
    BY <1>3, <2>1, <2>2 DEF IInv, Types
  <2>7. WorkOK(q)
    BY <1>1, <2>1, <2>3, <2>5 DEF WorkOK, Owning, Unwritten
  <2>8. WorkOK(q)'
    BY <1>1, <2>7 DEF WorkOK, Describes, DocumentOK, RowsOK, Owned
  <2>9. PaidOK'
    BY <1>1 DEF IInv, PaidOK, Owned
  <2>10. QED
    BY <1>1, <2>1, <2>4, <2>5, <2>6, <2>8, <2>9, QuietStep
<1>4. QED
  BY <1>2, <1>3 DEF Materialize

LEMMA CallHolds ==
  ASSUME IInv, NEW r \in Runs, Call(r)
  PROVE  IInv'
<1>1. run[r].pc = "call" /\ UNCHANGED <<source, corpusLock, attemptLedger, captures, attempts, clock>>
  BY DEF Call
<1>2. PICK scheduled \in BOOLEAN :
        /\ paid' = paid \cup IF scheduled
             THEN {[series |-> run[r].series, ordinal |-> run[r].ordinal,
                    attempt |-> run[r].attempt, case |-> Case(r)]}
             ELSE {}
        /\ run' = [run EXCEPT ![r].pc = "answer",
                     ![r].current = [revision |-> @.revision, bundle |-> source.bundle,
                                     scheduled |-> scheduled]]
  BY DEF Call
<1>3. PICK w \in Works : w = run[r] /\ WorkOK(w) /\ run[r] # NoAttempt
  BY <1>1, AtWork
<1>4. PICK c : c = [revision |-> w.current.revision, bundle |-> source.bundle, scheduled |-> scheduled]
  OBVIOUS
<1>5. w.current \in [revision: Nat] /\ source.bundle \in Nat
  BY <1>1, <1>3 DEF WorkOK, IInv, Types
<1>6. c \in [revision: Nat, bundle: Nat, scheduled: BOOLEAN] /\ c.bundle = source.bundle
  BY <1>4, <1>5
<1>7. PICK q : q = [w EXCEPT !.pc = "answer", !.current = c]
  OBVIOUS
<1>8. q \in Works
  BY <1>6, <1>7 DEF Works, Calls, Owning
<1>9. /\ q.attempt = w.attempt /\ q.series = w.series /\ q.ordinal = w.ordinal
      /\ q.identity = w.identity /\ q.rows = w.rows /\ q.pc = "answer" /\ q.current = c
  BY <1>7 DEF Works
<1>10. run' = [run EXCEPT ![r] = q]
  BY <1>2, <1>3, <1>4, <1>7 DEF IInv, Types
<1>11. c.bundle \in w.identity..source.bundle
  BY <1>3, <1>5, <1>6 DEF WorkOK, Works
<1>12. WorkOK(q)
  BY <1>1, <1>3, <1>6, <1>9, <1>11 DEF WorkOK, Owning, Unwritten
<1>13. WorkOK(q)'
  BY <1>1, <1>12 DEF WorkOK, Describes, DocumentOK, RowsOK, Owned
<1>14. PaidOK'
  <2>1. ASSUME NEW p \in paid'
        PROVE  p.series \in Series /\ p.ordinal \in Ordinals /\ Owned(p.series, p.ordinal, p.attempt)
    <3>1. CASE p \in paid
      BY <3>1 DEF IInv, PaidOK
    <3>2. CASE p = [series |-> run[r].series, ordinal |-> run[r].ordinal,
                    attempt |-> run[r].attempt, case |-> Case(r)]
      BY <1>1, <1>3, <3>2 DEF WorkOK, Owning, Works
    <3>3. QED
      BY <1>2, <2>1, <3>1, <3>2
  <2>2. QED
    BY <1>1, <2>1 DEF PaidOK, Owned
<1>15. QED
  BY <1>1, <1>3, <1>8, <1>9, <1>10, <1>13, <1>14, QuietStep

LEMMA RowsGrow ==
  ASSUME NEW rows \in Seq(Rows), NEW row \in Rows, NEW identity \in Nat, NEW latest \in Nat,
         RowsOK(rows, identity, latest), row.bundle \in identity..latest,
         \A i \in DOMAIN rows : row.task # rows[i].task
  PROVE  Append(rows, row) \in Seq(Rows) /\ RowsOK(Append(rows, row), identity, latest)
<1>1. PICK s : s = Append(rows, row)
  OBVIOUS
<1>2. /\ s \in Seq(Rows) /\ Len(s) = Len(rows) + 1 /\ Len(rows) \in Nat
      /\ \A i \in 1..Len(rows) : s[i] = rows[i]
      /\ s[Len(rows) + 1] = row
  BY <1>1, AppendProperties, LenProperties
<1>3. DOMAIN rows = 1..Len(rows)
  BY LenProperties
<1>4. \A i \in 1..Len(s) : i \in 1..Len(rows) \/ i = Len(rows) + 1
  BY <1>2
<1>5. \A i \in 1..Len(s) : s[i].bundle \in identity..latest
  BY <1>2, <1>4 DEF RowsOK
<1>6. ASSUME NEW i \in 1..Len(s), NEW j \in 1..Len(s), i # j
      PROVE  s[i].task # s[j].task
  BY <1>2, <1>3, <1>4, <1>6 DEF RowsOK
<1>7. QED
  BY <1>1, <1>2, <1>5, <1>6 DEF RowsOK

LEMMA AnswerHolds ==
  ASSUME IInv, NEW r \in Runs, LiveAnswer(r)
  PROVE  IInv'
<1>1. run[r].pc = "answer"
      /\ UNCHANGED <<source, corpusLock, attemptLedger, captures, attempts, paid, clock>>
  BY DEF LiveAnswer
<1>2. CASE Enter(r, "failing")
  BY <1>1, <1>2, StageStep DEF Stages, Owning, Unwritten
<1>3. ASSUME NEW verdict \in Verdicts, NEW reused \in BOOLEAN, NEW task \in TaskIds,
             Acceptable(r, verdict, reused, task),
             run' = [run EXCEPT ![r].pc = "case", ![r].current = None,
                       ![r].rows = Append(@, [revision |-> run[r].current.revision,
                                              bundle |-> run[r].current.bundle,
                                              task |-> task, verdict |-> verdict])]
      PROVE  IInv'
  <2>1. PICK w \in Works : w = run[r] /\ WorkOK(w) /\ run[r] # NoAttempt
    BY <1>1, AtWork
  <2>2. PICK row : row = [revision |-> w.current.revision, bundle |-> w.current.bundle,
                          task |-> task, verdict |-> verdict]
    OBVIOUS
  <2>3. w.current \in [revision: Nat, bundle: Nat, scheduled: BOOLEAN]
        /\ w.current.bundle \in w.identity..source.bundle
    BY <1>1, <2>1 DEF WorkOK
  <2>4. row \in Rows /\ row.bundle \in w.identity..source.bundle /\ row.task = task
    BY <2>2, <2>3 DEF Rows
  <2>5. \A i \in DOMAIN w.rows : row.task # w.rows[i].task
    BY <1>3, <2>1, <2>4 DEF Acceptable
  <2>6. PICK rows : rows = Append(w.rows, row)
    OBVIOUS
  <2>7. rows \in Seq(Rows) /\ RowsOK(rows, w.identity, source.bundle)
    <3>1. w.rows \in Seq(Rows) /\ w.identity \in Nat /\ source.bundle \in Nat
          /\ RowsOK(w.rows, w.identity, source.bundle)
      BY <2>1 DEF Works, IInv, Types, WorkOK
    <3>2. QED
      BY <2>4, <2>5, <2>6, <3>1, RowsGrow
  <2>8. PICK q : q = [w EXCEPT !.pc = "case", !.current = None, !.rows = rows]
    OBVIOUS
  <2>9. q \in Works
    BY <2>7, <2>8 DEF Works, Calls, Owning
  <2>10. /\ q.attempt = w.attempt /\ q.series = w.series /\ q.ordinal = w.ordinal
         /\ q.identity = w.identity /\ q.rows = rows /\ q.pc = "case"
    BY <2>8 DEF Works
  <2>11. run' = [run EXCEPT ![r] = q]
    BY <1>3, <2>1, <2>2, <2>6, <2>8 DEF IInv, Types
  <2>12. WorkOK(q)
    BY <1>1, <2>1, <2>7, <2>10 DEF WorkOK, Owning, Unwritten
  <2>13. WorkOK(q)'
    BY <1>1, <2>12 DEF WorkOK, Describes, DocumentOK, RowsOK, Owned
  <2>14. PaidOK'
    BY <1>1 DEF IInv, PaidOK, Owned
  <2>15. QED
    BY <1>1, <2>1, <2>9, <2>10, <2>11, <2>13, <2>14, QuietStep
<1>4. QED
  BY <1>2, <1>3 DEF LiveAnswer

LEMMA ScoreHolds ==
  ASSUME IInv, NEW r \in Runs, Score(r)
  PROVE  IInv'
<1>1. run[r].pc = "case" /\ Len(run[r].rows) = Len(Cases)
      /\ UNCHANGED <<source, corpusLock, attemptLedger, captures, attempts, paid, clock>>
  BY DEF Score
<1>2. CASE Enter(r, "failing")
  BY <1>1, <1>2, StageStep DEF Stages, Owning, Unwritten
<1>3. CASE Measured(r) /\ run' = [run EXCEPT ![r].pc = "write", ![r].document =
            [series |-> run[r].series, ordinal |-> run[r].ordinal, capture |-> run[r].capture,
             attempt |-> run[r].attempt, identity |-> run[r].identity, corpus |-> corpusLock.corpus,
             rows |-> run[r].rows, gate |-> Gate(run[r].rows), at |-> clock]]
  <2>1. PICK w \in Works : w = run[r] /\ WorkOK(w) /\ run[r] # NoAttempt
    BY <1>1, AtWork
  <2>2. PICK passing \in BOOLEAN : passing = Gate(w.rows)
    BY DEF Gate
  <2>3. PICK d : d = [series |-> w.series, ordinal |-> w.ordinal, capture |-> w.capture,
             attempt |-> w.attempt, identity |-> w.identity, corpus |-> corpusLock.corpus,
             rows |-> w.rows, gate |-> passing, at |-> clock]
    OBVIOUS
  <2>4. d \in Documents
    BY <2>3 DEF Documents, Works, IInv, Types
  <2>5. /\ d.series = w.series /\ d.ordinal = w.ordinal /\ d.attempt = w.attempt
        /\ d.rows = w.rows /\ d.identity = w.identity /\ d.corpus = corpusLock.corpus
    BY <2>3
  <2>6. /\ source.bundle = w.identity /\ source.corpus = corpusLock.corpus
        /\ \A i \in DOMAIN w.rows : w.rows[i].revision = corpusLock.corpus
    BY <1>3, <2>1 DEF Measured, VerifyLock
  <2>7. \A i \in 1..Len(w.rows) : w.rows[i].bundle = w.identity
    <3>1. \A i \in 1..Len(w.rows) : w.rows[i].bundle \in w.identity..w.identity
      BY <2>1, <2>6 DEF WorkOK, RowsOK
    <3>2. w.identity \in Nat
      BY DEF Works
    <3>3. QED
      BY <3>1, <3>2
  <2>8. DOMAIN w.rows = 1..Len(w.rows)
    BY LenProperties DEF Works
  <2>9. Describes(d, w)
    BY <1>1, <2>1, <2>5, <2>6, <2>7, <2>8 DEF Describes, DocumentOK, WorkOK, RowsOK
  <2>10. PICK q : q = [w EXCEPT !.pc = "write", !.document = d]
    OBVIOUS
  <2>11. q \in Works
    BY <2>4, <2>10 DEF Works, Owning
  <2>12. /\ q.attempt = w.attempt /\ q.series = w.series /\ q.ordinal = w.ordinal
         /\ q.identity = w.identity /\ q.rows = w.rows /\ q.pc = "write" /\ q.document = d
    BY <2>10 DEF Works
  <2>13. run' = [run EXCEPT ![r] = q]
    BY <1>3, <2>1, <2>2, <2>3, <2>10 DEF IInv, Types
  <2>14. Describes(d, q)
    BY <2>9, <2>12 DEF Describes
  <2>15. WorkOK(q)
    BY <1>1, <2>1, <2>4, <2>12, <2>14 DEF WorkOK, Owning, Unwritten
  <2>16. WorkOK(q)'
    BY <1>1, <2>15 DEF WorkOK, Describes, DocumentOK, RowsOK, Owned
  <2>17. PaidOK'
    BY <1>1 DEF IInv, PaidOK, Owned
  <2>18. QED
    BY <1>1, <2>1, <2>11, <2>12, <2>13, <2>16, <2>17, QuietStep
<1>4. QED
  BY <1>2, <1>3 DEF Score

LEMMA AuthorizeHolds ==
  ASSUME IInv, NEW r \in Runs, NEW o \in Ordinals, NEW c \in CaptureIds, Authorize(r, o, c)
  PROVE  IInv'
<1>1. PICK q : q = [pc |-> "authorized", attempt |-> attempts + 1, series |-> corpusLock.series,
        ordinal |-> o, capture |-> c, identity |-> corpusLock.bundle, rows |-> <<>>, current |-> None,
        document |-> None]
  OBVIOUS
<1>2. /\ VerifyLock /\ corpusLock.frozen /\ attempts' = attempts + 1
      /\ run' = [run EXCEPT ![r] = q]
      /\ UNCHANGED <<source, corpusLock, attemptLedger, captures, paid, clock>>
  BY <1>1 DEF Authorize
<1>3. /\ corpusLock.series \in Series /\ corpusLock.bundle = source.bundle /\ source.bundle \in Nat
      /\ attempts \in Nat
  BY <1>2 DEF VerifyLock, IInv, Types
<1>4. <<>> \in Seq(Rows) /\ Len(<<>>) = 0
  BY EmptySeq
<1>5. q \in Works
  BY <1>1, <1>3, <1>4 DEF Works, Calls
<1>6. \A d \in captures : d.attempt # attempts + 1
  <2>1. ASSUME NEW d \in captures
        PROVE  d.attempt # attempts + 1
    <3>1. d \in Documents /\ Owned(d.series, d.ordinal, d.attempt)
      BY DEF IInv, Types, CapturesOwned
    <3>2. <<d.series, d.ordinal>> \in Series \X Ordinals /\ d.attempt \in Nat
      BY <3>1 DEF Documents
    <3>3. d.attempt <= attempts
      BY <3>1, <3>2 DEF IInv, OwnersMade, Owned
    <3>4. QED
      BY <1>3, <3>2, <3>3
  <2>2. QED
    BY <2>1
<1>7. WorkOK(q)'
  <2>1. /\ q.attempt = attempts + 1 /\ q.identity = source.bundle /\ q.rows = <<>>
        /\ q.pc = "authorized"
    BY <1>1, <1>3
  <2>2. q.attempt \in 1..attempts' /\ q.identity <= source'.bundle
    BY <1>2, <1>3, <2>1
  <2>3. RowsOK(q.rows, q.identity, source.bundle)'
    BY <1>4, <2>1 DEF RowsOK
  <2>4. \A d \in captures' : d.attempt # q.attempt
    BY <1>2, <1>6, <2>1
  <2>5. QED
    BY <2>1, <2>2, <2>3, <2>4 DEF WorkOK, Owning
<1>8. Moves(r, q)
  BY <1>1, <1>2, <1>3, <1>5 DEF Moves
<1>9. RunsOK' /\ AttemptsApart' /\ run' \in [Runs -> Works \cup {NoAttempt}]
  BY <1>7, <1>8, RunMoves DEF IInv
<1>10. PaidOK' /\ CapturesOwned'
  BY <1>2 DEF IInv, PaidOK, CapturesOwned, Owned
<1>11. OwnersMade'
  <2>1. ASSUME NEW k \in Series \X Ordinals, attemptLedger'[k] # None
        PROVE  attemptLedger'[k].attempt <= attempts'
    <3>1. attemptLedger[k] \in Entries /\ attemptLedger[k].attempt <= attempts
      BY <1>2, <2>1 DEF IInv, Types, OwnersMade
    <3>2. QED
      BY <1>2, <1>3, <3>1 DEF Entries
  <2>2. QED
    BY <2>1 DEF OwnersMade
<1>12. CaptureIsOneMeasurement' /\ LedgerIsTrue'
  BY <1>2 DEF IInv, CaptureIsOneMeasurement, LedgerIsTrue
<1>13. Types'
  BY <1>2, <1>3, <1>9 DEF IInv, Types
<1>14. QED
  BY <1>9, <1>10, <1>11, <1>12, <1>13 DEF IInv

\* What the ledger says of one repeat, of the captures there are.
Told(s, o, entry, docs) ==
  entry # None =>
    /\ entry.terminal = "completed" =>
         \E d \in docs : d.series = s /\ d.ordinal = o /\ d.gate /\ d.attempt = entry.attempt
    /\ entry.terminal = "failed" =>
         \A d \in docs : d.series = s /\ d.ordinal = o => ~d.gate

LEMMA LedgerTold ==
  LedgerIsTrue <=> \A s \in Series, o \in Ordinals : Told(s, o, attemptLedger[<<s, o>>], captures)
BY DEF LedgerIsTrue, Told

LEMMA LedgerToldNext ==
  LedgerIsTrue' <=> \A s \in Series, o \in Ordinals : Told(s, o, attemptLedger'[<<s, o>>], captures')
BY DEF LedgerIsTrue, Told

LEMMA ReserveHolds ==
  ASSUME SeriesAssumption, IInv, NEW r \in Runs, Reserve(r)
  PROVE  IInv'
<1>1. run[r].pc = "authorized" /\ UNCHANGED <<source, corpusLock, captures, attempts, paid, clock>>
  BY DEF Reserve
<1>2. CASE Enter(r, "refused") /\ UNCHANGED attemptLedger
  BY <1>1, <1>2, StageStep DEF Stages, Over
<1>3. CASE /\ attemptLedger[Key(r)] = None
           /\ attemptLedger' = [attemptLedger EXCEPT ![Key(r)] = [attempt |-> run[r].attempt, terminal |-> None]]
           /\ Enter(r, "reserved")
  <2>1. PICK w \in Works : w = run[r] /\ WorkOK(w) /\ run[r] # NoAttempt
    BY <1>1, AtWork
  <2>2. PICK k \in Series \X Ordinals : k = Key(r) /\ k = <<w.series, w.ordinal>>
    BY <1>1, <2>1, AtWork
  <2>3. PICK e : e = [attempt |-> w.attempt, terminal |-> None]
    OBVIOUS
  <2>4. w.attempt \in Nat /\ w.attempt <= attempts /\ attempts \in Nat
    BY <2>1 DEF WorkOK, Works, IInv, Types
  <2>5. e \in Entries /\ e # None /\ e.attempt = w.attempt /\ e.terminal = None
    BY <2>3, <2>4 DEF Entries, SeriesAssumption
  <2>6. /\ attemptLedger' \in [Series \X Ordinals -> Entries \cup {None}]
        /\ attemptLedger[k] = None /\ attemptLedger'[k] = e
        /\ \A l \in Series \X Ordinals : l # k => attemptLedger'[l] = attemptLedger[l]
    BY <1>3, <2>1, <2>2, <2>3, <2>5 DEF IInv, Types
  <2>7. PICK q \in Works :
          /\ q = [run[r] EXCEPT !.pc = "reserved"]
          /\ run' = [run EXCEPT ![r] = q]
          /\ q.pc = "reserved"
    BY <1>1, <1>3, StageChanges DEF Stages, Owning
  <2>8. /\ q.attempt = w.attempt /\ q.series = w.series /\ q.ordinal = w.ordinal
        /\ q.identity = w.identity /\ q.rows = w.rows
    BY <2>1, <2>7 DEF Works
  <2>9. WorkOK(q)'
    <3>1. /\ q.attempt \in 1..attempts' /\ q.identity <= source'.bundle
          /\ RowsOK(q.rows, q.identity, source'.bundle)
          /\ \A d \in captures' : d.attempt # q.attempt
      BY <1>1, <2>1, <2>8 DEF WorkOK, Unwritten
    <3>2. Owned(q.series, q.ordinal, q.attempt)' /\ attemptLedger'[<<q.series, q.ordinal>>].terminal = None
      BY <2>2, <2>5, <2>6, <2>8 DEF Owned
    <3>3. QED
      BY <2>7, <3>1, <3>2 DEF WorkOK
  <2>10. Moves(r, q)
    BY <1>1, <2>1, <2>4, <2>6, <2>7, <2>8 DEF Moves
  <2>11. RunsOK' /\ AttemptsApart' /\ run' \in [Runs -> Works \cup {NoAttempt}]
    BY <2>9, <2>10, RunMoves DEF IInv
  <2>12. \A s \in Series, o \in Ordinals : \A a : Owned(s, o, a) => Owned(s, o, a)'
    BY <2>6 DEF Owned
  <2>13. PaidOK'
    BY <1>1, <2>12 DEF IInv, PaidOK
  <2>14. CapturesOwned'
    BY <1>1, <2>12 DEF IInv, Types, CapturesOwned, Documents
  <2>15. OwnersMade'
    BY <1>1, <2>4, <2>5, <2>6 DEF IInv, OwnersMade
  <2>16. CaptureIsOneMeasurement'
    BY <1>1 DEF IInv, CaptureIsOneMeasurement
  <2>17. LedgerIsTrue'
    <3>1. e.terminal \notin {"completed", "failed"}
      BY <2>5 DEF SeriesAssumption
    <3>2. ASSUME NEW s \in Series, NEW o \in Ordinals
          PROVE  Told(s, o, attemptLedger'[<<s, o>>], captures)
      <4>1. CASE <<s, o>> = k
        BY <2>6, <3>1, <4>1 DEF Told
      <4>2. CASE <<s, o>> # k
        BY <2>6, <4>2, LedgerTold DEF IInv
      <4>3. QED
        BY <4>1, <4>2
    <3>3. QED
      BY <1>1, <3>2, LedgerToldNext
  <2>18. Types'
    BY <1>1, <2>6, <2>11 DEF IInv, Types
  <2>19. QED
    BY <2>11, <2>13, <2>14, <2>15, <2>16, <2>17, <2>18 DEF IInv
<1>4. QED
  BY <1>2, <1>3 DEF Reserve

\* The end of an attempt: its owner writes the terminal record, of what its captures say.
LEMMA TerminalHolds ==
  ASSUME SeriesAssumption, IInv, NEW r \in Runs, NEW status \in {"completed", "failed"},
         NEW end \in Over, Terminal(r, status, end), run[r].pc \in Owning,
         status = "completed" => run[r].pc = "complete",
         status = "failed" => run[r].pc = "failing"
  PROVE  IInv'
<1>1. run[r].pc # "idle" /\ UNCHANGED <<source, corpusLock, captures, attempts, paid, clock>>
  BY DEF Terminal, Owning
<1>2. CASE Enter(r, "failed") /\ UNCHANGED attemptLedger
  BY <1>1, <1>2, StageStep DEF Stages, Over
<1>3. CASE /\ attemptLedger[Key(r)].terminal = None
           /\ attemptLedger' = [attemptLedger EXCEPT ![Key(r)].terminal = status]
           /\ Enter(r, end)
  <2>1. PICK w \in Works : w = run[r] /\ WorkOK(w) /\ run[r] # NoAttempt
    BY <1>1, AtWork
  <2>2. PICK k \in Series \X Ordinals : k = Key(r) /\ k = <<w.series, w.ordinal>>
    BY <1>1, <2>1, AtWork
  <2>3. PICK old \in Entries : old = attemptLedger[k] /\ old.attempt = w.attempt
    BY <2>1, <2>2 DEF WorkOK, Owned, IInv, Types
  <2>4. PICK e : e = [old EXCEPT !.terminal = status]
    OBVIOUS
  <2>5. e \in Entries /\ e # None /\ e.attempt = w.attempt /\ e.terminal = status
    BY <2>3, <2>4 DEF Entries, SeriesAssumption
  <2>6. /\ attemptLedger' \in [Series \X Ordinals -> Entries \cup {None}]
        /\ attemptLedger'[k] = e
        /\ \A l \in Series \X Ordinals : l # k => attemptLedger'[l] = attemptLedger[l]
    BY <1>3, <2>2, <2>3, <2>4, <2>5 DEF IInv, Types
  <2>7. PICK q \in Works :
          /\ q = [run[r] EXCEPT !.pc = end]
          /\ run' = [run EXCEPT ![r] = q]
          /\ q.pc = end
    BY <1>1, <1>3, StageChanges DEF Stages, Over
  <2>8. /\ q.attempt = w.attempt /\ q.series = w.series /\ q.ordinal = w.ordinal
        /\ q.identity = w.identity /\ q.rows = w.rows
    BY <2>1, <2>7 DEF Works
  <2>9. WorkOK(q)'
    <3>1. /\ q.attempt \in 1..attempts' /\ q.identity <= source'.bundle
          /\ RowsOK(q.rows, q.identity, source'.bundle)
      BY <1>1, <2>1, <2>8 DEF WorkOK
    <3>2. q.pc \notin Owning \cup Unwritten
      BY <2>7 DEF Over, Owning, Unwritten
    <3>3. QED
      BY <3>1, <3>2 DEF WorkOK, Owning, Unwritten
  <2>10. Moves(r, q)
    BY <1>1, <2>1, <2>3, <2>6, <2>7, <2>8 DEF Moves, IInv, Types
  <2>11. RunsOK' /\ AttemptsApart' /\ run' \in [Runs -> Works \cup {NoAttempt}]
    BY <2>9, <2>10, RunMoves DEF IInv
  <2>12. \A s \in Series, o \in Ordinals : \A a : Owned(s, o, a) => Owned(s, o, a)'
    BY <2>3, <2>5, <2>6 DEF Owned
  <2>13. PaidOK'
    BY <1>1, <2>12 DEF IInv, PaidOK
  <2>14. CapturesOwned'
    BY <1>1, <2>12 DEF IInv, Types, CapturesOwned, Documents
  <2>15. OwnersMade'
    <3>1. w.attempt <= attempts
      BY <2>1 DEF WorkOK, Works, IInv, Types
    <3>2. QED
      BY <1>1, <2>5, <2>6, <3>1 DEF IInv, OwnersMade
  <2>16. CaptureIsOneMeasurement'
    BY <1>1 DEF IInv, CaptureIsOneMeasurement
  <2>17. LedgerIsTrue'
    <3>1. status = "completed" =>
            \E d \in captures : /\ d.series = w.series /\ d.ordinal = w.ordinal
                                /\ d.attempt = w.attempt /\ d.gate
      BY <2>1 DEF WorkOK, Describes
    <3>2. status = "failed" => \A d \in captures :
            d.series = w.series /\ d.ordinal = w.ordinal => ~d.gate
      <4>1. ASSUME status = "failed", NEW d \in captures, d.series = w.series, d.ordinal = w.ordinal
            PROVE  ~d.gate
        <5>1. d.attempt = w.attempt
          BY <2>2, <2>3, <4>1 DEF IInv, CapturesOwned, Owned
        <5>2. QED
          BY <2>1, <4>1, <5>1 DEF WorkOK
      <4>2. QED
        BY <4>1
    <3>3. ASSUME NEW s \in Series, NEW o \in Ordinals
          PROVE  Told(s, o, attemptLedger'[<<s, o>>], captures)
      <4>1. CASE <<s, o>> = k
        <5>1. s = w.series /\ o = w.ordinal
          BY <2>2, <4>1
        <5>2. attemptLedger'[<<s, o>>] = e
          BY <2>6, <4>1
        <5>3. QED
          BY <2>5, <3>1, <3>2, <5>1, <5>2 DEF Told
      <4>2. CASE <<s, o>> # k
        BY <2>6, <4>2, LedgerTold DEF IInv
      <4>3. QED
        BY <4>1, <4>2
    <3>4. QED
      BY <1>1, <3>3, LedgerToldNext
  <2>18. Types'
    BY <1>1, <2>6, <2>11 DEF IInv, Types
  <2>19. QED
    BY <2>11, <2>13, <2>14, <2>15, <2>16, <2>17, <2>18 DEF IInv
<1>4. QED
  BY <1>2, <1>3 DEF Terminal

LEMMA WriteCaptureHolds ==
  ASSUME SeriesAssumption, IInv, NEW r \in Runs, WriteCapture(r)
  PROVE  IInv'
<1>1. run[r].pc = "write" /\ UNCHANGED <<source, corpusLock, attemptLedger, attempts, paid, clock>>
  BY DEF WriteCapture
<1>2. CASE Enter(r, "failing") /\ UNCHANGED captures
  BY <1>1, <1>2, StageStep DEF Stages, Owning, Unwritten
<1>3. CASE /\ captures' = captures \cup {run[r].document}
           /\ Enter(r, IF run[r].document.gate THEN "complete" ELSE "failing")
  <2>1. PICK w \in Works : w = run[r] /\ WorkOK(w) /\ run[r] # NoAttempt
    BY <1>1, AtWork
  <2>2. PICK d \in Documents : d = w.document /\ Describes(d, w)
    BY <1>1, <2>1 DEF WorkOK
  <2>3. PICK pc \in {"complete", "failing"} : pc = IF d.gate THEN "complete" ELSE "failing"
    OBVIOUS
  <2>4. PICK q \in Works :
          /\ q = [run[r] EXCEPT !.pc = pc]
          /\ run' = [run EXCEPT ![r] = q]
          /\ q.pc = pc
    BY <1>1, <1>3, <2>1, <2>2, <2>3, StageChanges DEF Stages, Owning
  <2>5. /\ q.attempt = w.attempt /\ q.series = w.series /\ q.ordinal = w.ordinal
        /\ q.identity = w.identity /\ q.rows = w.rows
    BY <2>1, <2>4 DEF Works
  <2>6. captures' = captures \cup {d}
    BY <1>3, <2>1, <2>2
  <2>7. /\ Owned(w.series, w.ordinal, w.attempt)
        /\ attemptLedger[<<w.series, w.ordinal>>].terminal = None
        /\ \A e \in captures : e.attempt # w.attempt
    BY <1>1, <2>1 DEF WorkOK, Owning, Unwritten
  <2>8. /\ d.series = w.series /\ d.ordinal = w.ordinal /\ d.attempt = w.attempt
        /\ DocumentOK(d) /\ Describes(d, q)
    BY <2>2, <2>5 DEF Describes
  <2>9. WorkOK(q)'
    <3>1. /\ q.attempt \in 1..attempts' /\ q.identity <= source'.bundle
          /\ RowsOK(q.rows, q.identity, source'.bundle)
      BY <1>1, <2>1, <2>5 DEF WorkOK
    <3>2. Owned(q.series, q.ordinal, q.attempt)' /\ attemptLedger'[<<q.series, q.ordinal>>].terminal = None
      BY <1>1, <2>5, <2>7 DEF Owned
    <3>3. q.pc = "failing" => \A e \in captures' : e.attempt = q.attempt => ~e.gate
      BY <2>3, <2>4, <2>5, <2>6, <2>7
    <3>4. q.pc = "complete" => \E e \in captures' : Describes(e, q) /\ e.gate
      BY <2>3, <2>4, <2>6, <2>8
    <3>5. q.pc \notin Unwritten
      BY <2>3, <2>4 DEF Unwritten
    <3>6. QED
      BY <3>1, <3>2, <3>3, <3>4, <3>5 DEF WorkOK, Unwritten, Describes, DocumentOK
  <2>10. Moves(r, q)
    BY <1>1, <2>1, <2>4, <2>5, <2>6, <2>8 DEF Moves, IInv, Types
  <2>11. RunsOK' /\ AttemptsApart' /\ run' \in [Runs -> Works \cup {NoAttempt}]
    BY <2>9, <2>10, RunMoves DEF IInv
  <2>12. PaidOK' /\ OwnersMade'
    BY <1>1 DEF IInv, PaidOK, Owned, OwnersMade
  <2>13. CapturesOwned'
    BY <1>1, <2>6, <2>7, <2>8 DEF IInv, CapturesOwned, Owned
  <2>14. CaptureIsOneMeasurement'
    <3>1. ASSUME NEW e \in captures'
          PROVE  /\ Len(e.rows) = Len(Cases)
                 /\ \A i, j \in DOMAIN e.rows : i # j => e.rows[i].task # e.rows[j].task
                 /\ \A i \in DOMAIN e.rows :
                      e.rows[i].bundle = e.identity /\ e.rows[i].revision = e.corpus
      <4>1. CASE e \in captures
        BY <4>1 DEF IInv, CaptureIsOneMeasurement
      <4>2. CASE e = d
        <5>1. DOMAIN d.rows = 1..Len(d.rows)
          BY LenProperties DEF Documents
        <5>2. QED
          BY <2>8, <4>2, <5>1 DEF DocumentOK
      <4>3. QED
        BY <2>6, <4>1, <4>2
    <3>2. QED
      BY <3>1 DEF CaptureIsOneMeasurement
  <2>15. LedgerIsTrue'
    <3>1. ASSUME NEW s \in Series, NEW o \in Ordinals
          PROVE  Told(s, o, attemptLedger[<<s, o>>], captures \cup {d})
      <4>1. Told(s, o, attemptLedger[<<s, o>>], captures)
        BY LedgerTold DEF IInv
      <4>2. CASE s = w.series /\ o = w.ordinal
        <5>1. attemptLedger[<<s, o>>].terminal \notin {"completed", "failed"}
          BY <2>7, <4>2 DEF SeriesAssumption
        <5>2. QED
          BY <5>1 DEF Told
      <4>3. CASE ~(s = w.series /\ o = w.ordinal)
        BY <2>8, <4>1, <4>3 DEF Told
      <4>4. QED
        BY <4>2, <4>3
    <3>2. QED
      BY <1>1, <2>6, <3>1, LedgerToldNext
  <2>16. Types'
    BY <1>1, <2>6, <2>11 DEF IInv, Types
  <2>17. QED
    BY <2>11, <2>12, <2>13, <2>14, <2>15, <2>16 DEF IInv
<1>4. QED
  BY <1>2, <1>3 DEF WriteCapture

LEMMA RunHolds ==
  ASSUME SeriesAssumption, IInv, NEW r \in Runs,
         \/ \E o \in Ordinals, c \in CaptureIds : Authorize(r, o, c)
         \/ Reserve(r) \/ Mark(r)
         \/ Materialize(r) \/ Call(r) \/ LiveAnswer(r)
         \/ Score(r) \/ WriteCapture(r) \/ Fail(r) \/ RecordCompleted(r)
         \/ Die(r)
  PROVE  IInv'
<1>1. CASE Fail(r)
  BY <1>1, TerminalHolds DEF Fail, Owning, Over
<1>2. CASE RecordCompleted(r)
  BY <1>2, TerminalHolds DEF RecordCompleted, Owning, Over
<1>3. QED
  BY <1>1, <1>2, AuthorizeHolds, ReserveHolds, MarkHolds, MaterializeHolds, CallHolds,
     AnswerHolds, ScoreHolds, WriteCaptureHolds, CrashHolds

LEMMA StutterHolds ==
  ASSUME IInv, UNCHANGED seriesVars
  PROVE  IInv'
<1>1. /\ UNCHANGED <<attemptLedger, captures, run, attempts, paid>>
      /\ UNCHANGED source /\ UNCHANGED <<corpusLock, clock>>
  BY DEF seriesVars
<1>2. Types' /\ source.bundle <= source'.bundle
  BY <1>1 DEF IInv, Types
<1>3. QED
  BY <1>1, <1>2, OwnerStep

LEMMA NextHolds ==
  ASSUME SeriesAssumption, IInv, [SeriesNext]_seriesVars
  PROVE  IInv'
BY OwnerHolds, RunHolds, StutterHolds DEF SeriesNext

LEMMA InitHolds ==
  ASSUME SeriesAssumption, SeriesInit
  PROVE  IInv
<1>1. Types
  BY DEF SeriesInit, Types
<1>2. RunsOK /\ AttemptsApart
  BY DEF SeriesInit, RunsOK, AttemptsApart
<1>3. PaidOK /\ CapturesOwned /\ OwnersMade /\ CaptureIsOneMeasurement
  BY DEF SeriesInit, PaidOK, CapturesOwned, OwnersMade, CaptureIsOneMeasurement
<1>4. LedgerIsTrue
  BY DEF SeriesInit, LedgerIsTrue
<1>5. QED
  BY <1>1, <1>2, <1>3, <1>4 DEF IInv

-----------------------------------------------------------------------------
(* What the invariant says of a series.                                    *)

LEMMA OwnersPay ==
  ASSUME IInv
  PROVE  RepeatPaidOnce
BY DEF IInv, PaidOK, Owned, RepeatPaidOnce

\* Every repeat of a series that qualifies is the owner of its ordinal, and passed its gate.
LEMMA NothingIsSelected ==
  ASSUME SeriesAssumption, IInv
  PROVE  QualifiedWithoutSelection
<1>1. ASSUME NEW docs \in SUBSET captures, Qualifies(docs), NEW o \in Ordinals
      PROVE  \E d \in docs :
        /\ d.ordinal = o
        /\ attemptLedger[<<corpusLock.series, o>>].terminal # "failed"
        /\ \A p \in paid : p.series = corpusLock.series /\ p.ordinal = o => p.attempt = d.attempt
        /\ \A i \in DOMAIN Cases : d.rows[i].verdict = "approve" =>
             /\ Expected[Cases[i]] = "approve"
             /\ \A e \in docs : e.rows[i].verdict = "approve"
  <2>1. Admissible(docs) /\ (\A d \in docs : d.gate) /\ ~Flaps(docs)
    BY <1>1 DEF Qualifies
  <2>2. PICK d \in docs : d.ordinal = o
    BY <1>1, <2>1 DEF Admissible
  <2>3. /\ d \in captures /\ d \in Documents /\ d.series = corpusLock.series /\ d.gate
        /\ Len(d.rows) = Len(Cases) /\ Gate(d.rows)
        /\ corpusLock.series \in Series
    BY <2>1, <2>2 DEF Admissible, IInv, Types
  <2>4. Owned(corpusLock.series, o, d.attempt)
    BY <2>2, <2>3 DEF IInv, CapturesOwned
  <2>5. attemptLedger[<<corpusLock.series, o>>].terminal # "failed"
    BY <2>2, <2>3, <2>4, LedgerTold DEF IInv, Told, Owned
  <2>6. \A p \in paid : p.series = corpusLock.series /\ p.ordinal = o => p.attempt = d.attempt
    BY <2>4 DEF IInv, PaidOK, Owned
  <2>7. ASSUME NEW i \in DOMAIN Cases, d.rows[i].verdict = "approve"
        PROVE  /\ Expected[Cases[i]] = "approve"
               /\ \A e \in docs : e.rows[i].verdict = "approve"
    <3>1. DOMAIN Cases = 1..Len(Cases) /\ DOMAIN d.rows = 1..Len(d.rows)
      BY <2>3, LenProperties DEF SeriesAssumption, Documents
    <3>2. ~Unsafe(d.rows[i], Cases[i])
      BY <2>3, <2>7, <3>1 DEF Gate
    <3>3. \A e \in docs : Category(d, i) = Category(e, i)
      BY <2>1, <2>2, <2>7 DEF Flaps
    <3>4. QED
      BY <2>7, <3>2, <3>3 DEF Unsafe, Category
  <2>8. QED
    BY <2>2, <2>5, <2>6, <2>7
<1>2. QED
  BY <1>1 DEF QualifiedWithoutSelection

-----------------------------------------------------------------------------

\* Type correctness and the ownership of every repeat, in every reachable state: what a
\* run may hold, what the ledger and the captures may say of it.
THEOREM InvariantHolds == ASSUME SeriesAssumption PROVE SeriesSpec => []IInv
<1>1. SeriesInit => IInv
  BY InitHolds
<1>2. IInv /\ [SeriesNext]_seriesVars => IInv'
  BY NextHolds
<1>3. QED
  BY <1>1, <1>2, PTL DEF SeriesSpec

\* What a series says is true of what was paid for (run_paid_evaluation.py, runner.py
\* --verify-series): whatever the owner edits and whichever runs race, die or are retried,
\* a repeat is paid for by one attempt, a capture is one measurement of the frozen sources,
\* the ledger agrees with the captures, and no series qualifies by selection.
THEOREM SeriesSaysWhatWasPaid == ASSUME SeriesAssumption PROVE SeriesSpec => []SeriesIsTrue
<1>1. IInv => SeriesIsTrue
  BY OwnersPay, NothingIsSelected DEF IInv, SeriesIsTrue
<1>2. QED
  BY <1>1, InvariantHolds, PTL
-----------------------------------------------------------------------------
(* The scorer.  A case expects one finding of a rule at most, and a valid  *)
(* answer names a rule and a place once, so a finding of either side has   *)
(* one partner at most, in whichever order they are matched.               *)

\* The findings of the case and of the answer that match.
Pairs(a) ==
  {x \in (DOMAIN case.findings) \X (DOMAIN Predicted(a)) :
     Grounded(Predicted(a)[x[2]]) /\ Matches(Predicted(a)[x[2]], case.findings[x[1]])}

UpTo(a, n) == {x \in Pairs(a) : x[1] <= n}

Free(a, n, taken) ==
  {i \in (DOMAIN Predicted(a)) \ {m[2] : m \in taken} :
     Grounded(Predicted(a)[i]) /\ Matches(Predicted(a)[i], case.findings[n])}

\* g is the matching after each finding of the case.
MatchesUp(g, a) ==
  g = [n \in 0..Len(case.findings) |->
        IF n = 0 THEN {}
        ELSE IF Free(a, n, g[n - 1]) = {} THEN g[n - 1]
             ELSE g[n - 1] \cup {<<n, Min(Free(a, n, g[n - 1]))>>}]

LEMMA ShapeOfSeq ==
  ASSUME NEW S, NEW s \in Seq(S)
  PROVE  Len(s) \in Nat /\ DOMAIN s = 1..Len(s) /\ \A n \in DOMAIN s : s[n] \in S
OBVIOUS

\* What is known of a case and an answer, whose findings are sequences.
LEMMA Shapes ==
  ASSUME case \in GroundTruths, NEW a \in Answers
  PROVE  /\ Len(case.findings) \in Nat /\ DOMAIN case.findings = 1..Len(case.findings)
         /\ \A n \in DOMAIN case.findings : case.findings[n].rule \in RuleIds
                                            /\ case.findings[n].place \in Actual
         /\ \A m, n \in DOMAIN case.findings : case.findings[m].rule = case.findings[n].rule => m = n
         /\ Predicted(a) = IF SchemaValid(a) THEN a.findings ELSE << >>
         /\ Len(a.findings) \in Nat /\ DOMAIN a.findings = 1..Len(a.findings)
         /\ Len(Predicted(a)) \in Nat /\ DOMAIN Predicted(a) = 1..Len(Predicted(a))
<1>1. case.findings \in Seq([rule : RuleIds, place : Actual])
  BY DEF GroundTruths
<1>2. PICK k \in 0..MaxFindings : a.findings \in [1..k -> Findings]
  BY DEF Answers
<1>3. a.findings \in Seq(Findings)
  BY <1>2
<1>4. Predicted(a) = IF SchemaValid(a) THEN a.findings ELSE << >>
  BY DEF Predicted
<1>5. \A m, n \in DOMAIN case.findings : case.findings[m].rule = case.findings[n].rule => m = n
  BY DEF GroundTruths
<1>6. /\ Len(case.findings) \in Nat /\ DOMAIN case.findings = 1..Len(case.findings)
      /\ \A n \in DOMAIN case.findings : case.findings[n] \in [rule : RuleIds, place : Actual]
  BY <1>1, ShapeOfSeq
<1>7. Len(a.findings) \in Nat /\ DOMAIN a.findings = 1..Len(a.findings)
  BY <1>3, ShapeOfSeq
<1>8. Len(Predicted(a)) \in Nat /\ DOMAIN Predicted(a) = 1..Len(Predicted(a))
  <2>1. Predicted(a) \in Seq(Findings)
    BY <1>3, <1>4
  <2>2. QED
    BY <2>1, ShapeOfSeq
<1>9. QED
  BY <1>4, <1>5, <1>6, <1>7, <1>8

\* Nobody has two partners.
LEMMA OnePartner ==
  ASSUME case \in GroundTruths, NEW a \in Answers
  PROVE  \A x, y \in Pairs(a) : x # y => x[1] # y[1] /\ x[2] # y[2]
<1>1. SUFFICES ASSUME NEW x \in Pairs(a), NEW y \in Pairs(a), x[1] = y[1] \/ x[2] = y[2]
               PROVE  x = y
  OBVIOUS
<1>2. /\ x = <<x[1], x[2]>> /\ y = <<y[1], y[2]>>
      /\ x[1] \in DOMAIN case.findings /\ y[1] \in DOMAIN case.findings
      /\ x[2] \in DOMAIN Predicted(a) /\ y[2] \in DOMAIN Predicted(a)
  BY DEF Pairs
<1>3. /\ Predicted(a)[x[2]].rule = case.findings[x[1]].rule
      /\ Predicted(a)[y[2]].rule = case.findings[y[1]].rule
      /\ Predicted(a)[x[2]].place = case.findings[x[1]].place
      /\ Predicted(a)[y[2]].place = case.findings[y[1]].place
  BY DEF Pairs, Matches
<1>4. x[2] = y[2] => x[1] = y[1]
  BY <1>2, <1>3, Shapes
<1>5. x[1] = y[1] => x[2] = y[2]
  <2>1. CASE SchemaValid(a)
    <3>1. Predicted(a) = a.findings
      BY <2>1 DEF Predicted
    <3>2. QED
      BY <1>2, <1>3, <2>1, <3>1 DEF SchemaValid
  <2>2. CASE ~SchemaValid(a)
    BY <1>2, <2>2 DEF Predicted
  <2>3. QED
    BY <2>1, <2>2
<1>6. QED
  BY <1>1, <1>2, <1>4, <1>5

LEMMA MinOfOne == ASSUME NEW i \in Nat PROVE Min({i}) = i
BY DEF Min

\* The pairs are what a matching one finding after another comes to.
LEMMA PairsMatchUp ==
  ASSUME case \in GroundTruths, NEW a \in Answers
  PROVE  MatchesUp([n \in 0..Len(case.findings) |-> UpTo(a, n)], a)
<1> DEFINE N == Len(case.findings)
           g == [n \in 0..N |-> UpTo(a, n)]
<1>1. N \in Nat /\ DOMAIN case.findings = 1..N /\ DOMAIN Predicted(a) = 1..Len(Predicted(a))
      /\ Len(Predicted(a)) \in Nat
  BY Shapes
<1> HIDE DEF N
<1>2. \A x \in Pairs(a) : x = <<x[1], x[2]>> /\ x[1] \in 1..N /\ x[2] \in 1..Len(Predicted(a))
  BY <1>1 DEF Pairs
<1>3. UpTo(a, 0) = {}
  BY <1>1, <1>2 DEF UpTo
<1>4. ASSUME NEW n \in 1..N
      PROVE  UpTo(a, n) = IF Free(a, n, UpTo(a, n - 1)) = {} THEN UpTo(a, n - 1)
                          ELSE UpTo(a, n - 1) \cup {<<n, Min(Free(a, n, UpTo(a, n - 1)))>>}
  <2> DEFINE free == Free(a, n, UpTo(a, n - 1))
  <2>1. n - 1 \in Nat /\ ~(n <= n - 1) /\ \A k \in 1..N : k <= n <=> k <= n - 1 \/ k = n
    BY <1>1
  <2>2. \A i : i \in free => <<n, i>> \in Pairs(a)
    BY <1>1 DEF Free, Pairs
  <2>3. ASSUME NEW i, <<n, i>> \in Pairs(a) PROVE i \in free
    <3>1. i \in DOMAIN Predicted(a) /\ Grounded(Predicted(a)[i]) /\ Matches(Predicted(a)[i], case.findings[n])
      BY <2>3 DEF Pairs
    <3>2. ASSUME NEW m \in UpTo(a, n - 1), m[2] = i PROVE FALSE
      <4>1. m \in Pairs(a) /\ m[1] <= n - 1
        BY DEF UpTo
      <4>2. m # <<n, i>>
        BY <2>1, <4>1
      <4>3. QED
        BY <2>3, <3>2, <4>1, <4>2, OnePartner
    <3>3. QED
      BY <3>1, <3>2 DEF Free
  <2>4. \A i, j : i \in free /\ j \in free => i = j
    <3> SUFFICES ASSUME NEW i \in free, NEW j \in free PROVE i = j
      OBVIOUS
    <3>1. <<n, i>> \in Pairs(a) /\ <<n, j>> \in Pairs(a)
      BY <2>2
    <3>2. <<n, i>>[1] = <<n, j>>[1]
      OBVIOUS
    <3>3. <<n, i>> = <<n, j>>
      BY <3>1, <3>2, OnePartner
    <3>4. QED
      BY <3>3
  <2>5. \A x \in Pairs(a) : x[1] = n => x = <<n, x[2]>> /\ x[2] \in free
    BY <1>2, <2>3
  <2>6. CASE free = {}
    <3>1. UpTo(a, n) = UpTo(a, n - 1)
      BY <1>2, <2>1, <2>5, <2>6 DEF UpTo
    <3>2. QED
      BY <2>6, <3>1
  <2>7. CASE free # {}
    <3>1. PICK i \in free : free = {i}
      BY <2>4, <2>7
    <3>2. i \in Nat
      BY <1>1 DEF Free
    <3>3. Min(free) = i
      BY <3>1, <3>2, MinOfOne
    <3>4. <<n, i>> \in Pairs(a) /\ <<n, i>>[1] = n
      BY <2>2
    <3>5. \A x \in Pairs(a) : x[1] = n => x = <<n, i>>
      BY <2>5, <3>1
    <3>6. UpTo(a, n) = UpTo(a, n - 1) \cup {<<n, i>>}
      BY <1>2, <2>1, <3>4, <3>5 DEF UpTo
    <3>7. QED
      BY <2>7, <3>3, <3>6
  <2>8. QED
    BY <2>6, <2>7
<1>5. \A n \in 0..N : n = 0 \/ (n \in 1..N /\ n - 1 \in 0..N /\ g[n - 1] = UpTo(a, n - 1))
  BY <1>1
<1>6. g = [n \in 0..N |->
            IF n = 0 THEN {}
            ELSE IF Free(a, n, g[n - 1]) = {} THEN g[n - 1]
                 ELSE g[n - 1] \cup {<<n, Min(Free(a, n, g[n - 1]))>>}]
  <2> SUFFICES ASSUME NEW n \in 0..N
               PROVE  UpTo(a, n) = IF n = 0 THEN {}
                        ELSE IF Free(a, n, g[n - 1]) = {} THEN g[n - 1]
                             ELSE g[n - 1] \cup {<<n, Min(Free(a, n, g[n - 1]))>>}
    OBVIOUS
  <2> HIDE DEF g
  <2>1. CASE n = 0
    BY <1>3, <2>1
  <2>2. CASE n # 0
    BY <1>4, <1>5, <2>2
  <2>3. QED
    BY <2>1, <2>2
<1>7. QED
  BY <1>6 DEF MatchesUp, N

\* There is one such matching.
LEMMA MatchesAgree ==
  ASSUME case \in GroundTruths, NEW a \in Answers, NEW g, NEW h, MatchesUp(g, a), MatchesUp(h, a)
  PROVE  \A n \in 0..Len(case.findings) : g[n] = h[n]
<1> DEFINE N == Len(case.findings)
           C == {n \in 0..N : g[n] # h[n]}
<1>1. N \in Nat
  BY Shapes
<1>2. /\ \A n \in 0..N : g[n] = IF n = 0 THEN {}
           ELSE IF Free(a, n, g[n - 1]) = {} THEN g[n - 1]
                ELSE g[n - 1] \cup {<<n, Min(Free(a, n, g[n - 1]))>>}
      /\ \A n \in 0..N : h[n] = IF n = 0 THEN {}
           ELSE IF Free(a, n, h[n - 1]) = {} THEN h[n - 1]
                ELSE h[n - 1] \cup {<<n, Min(Free(a, n, h[n - 1]))>>}
  BY DEF MatchesUp
<1> HIDE DEF N
<1>3. SUFFICES ASSUME C # {} PROVE FALSE
  BY DEF N
<1>4. C \in SUBSET Nat
  OBVIOUS
<1>5. PICK n \in C : \A k \in C : n <= k
  <2> HIDE DEF C
  <2>1. QED
    BY <1>3, <1>4, LeastIn
<1>6. n \in 0..N /\ n # 0 /\ g[n] # h[n]
  BY <1>2, <1>5
<1>7. n - 1 \in 0..N /\ ~(n <= n - 1)
  BY <1>1, <1>6
<1>8. g[n - 1] = h[n - 1]
  BY <1>5, <1>7
<1>9. QED
  BY <1>2, <1>6, <1>8

LEMMA MatchingIsPairs ==
  ASSUME case \in GroundTruths, NEW a \in Answers
  PROVE  Matching(a) = Pairs(a)
<1> DEFINE N == Len(case.findings)
           h == [n \in 0..N |-> UpTo(a, n)]
           g == CHOOSE g : MatchesUp(g, a)
<1>1. Matching(a) = g[N]
  BY DEF Matching, MatchesUp, Free
<1>2. MatchesUp(h, a)
  BY PairsMatchUp
<1>3. MatchesUp(g, a)
  BY <1>2
<1> HIDE DEF g
<1>4. N \in Nat /\ DOMAIN case.findings = 1..N
  BY Shapes
<1>5. g[N] = h[N]
  BY <1>2, <1>3, <1>4, MatchesAgree
<1>6. UpTo(a, N) = Pairs(a)
  BY <1>4 DEF UpTo, Pairs
<1>7. QED
  BY <1>1, <1>4, <1>5, <1>6

LEMMA FiniteSides ==
  ASSUME case \in GroundTruths, NEW a \in Answers
  PROVE  IsFiniteSet(DOMAIN case.findings) /\ IsFiniteSet(DOMAIN Predicted(a))
<1>1. /\ Len(case.findings) \in Nat /\ DOMAIN case.findings = 1..Len(case.findings)
      /\ Len(Predicted(a)) \in Nat /\ DOMAIN Predicted(a) = 1..Len(Predicted(a))
  BY Shapes
<1>2. \A k \in Nat : IsFiniteSet(1..k)
  BY FS_Interval
<1>3. QED
  BY <1>1, <1>2

\* Nobody could pair off more.
LEMMA PairsAreBest ==
  ASSUME case \in GroundTruths, NEW a \in Answers
  PROVE  IsFiniteSet(Pairs(a)) /\ Cardinality(Pairs(a)) \in Nat /\ Cardinality(Pairs(a)) = BestMatching(a)
<1>1. IsFiniteSet(Pairs(a)) /\ Cardinality(Pairs(a)) \in Nat
  <2> DEFINE D == DOMAIN case.findings
             P == DOMAIN Predicted(a)
  <2>1. IsFiniteSet(D) /\ IsFiniteSet(P)
    BY FiniteSides
  <2>2. Pairs(a) \in SUBSET (D \X P)
    BY DEF Pairs
  <2> HIDE DEF D, P
  <2>3. IsFiniteSet(D \X P)
    BY <2>1, FS_Product
  <2>4. QED
    BY <2>2, <2>3, FS_Subset, FS_CardinalityType
<1>2. CASE ~SchemaValid(a)
  <2>1. Predicted(a) = << >>
    BY <1>2 DEF Predicted
  <2>2. Pairs(a) = {}
    BY <2>1 DEF Pairs
  <2>3. QED
    BY <1>1, <1>2, <2>2, FS_EmptySet DEF BestMatching
<1>3. CASE SchemaValid(a)
  <2> DEFINE OneToOne(s) == \A x, y \in s : x # y => x[1] # y[1] /\ x[2] # y[2]
             Sizes == {Cardinality(s) : s \in {s \in SUBSET Pairs(a) : OneToOne(s)}}
  <2>1. Predicted(a) = a.findings
    BY <1>3 DEF Predicted
  <2>2. BestMatching(a) = Max(Sizes)
    BY <1>3, <2>1 DEF BestMatching, Pairs
  <2>3. Cardinality(Pairs(a)) \in Sizes
    BY OnePartner
  <2>4. \A m \in Sizes : m \in Nat /\ m <= Cardinality(Pairs(a))
    BY <1>1, FS_Subset, FS_CardinalityType
  <2> HIDE DEF Sizes
  <2>5. \A m \in Sizes : Cardinality(Pairs(a)) >= m
    BY <1>1, <2>4
  <2>6. Max(Sizes) \in Sizes /\ \A m \in Sizes : Max(Sizes) >= m
    BY <2>3, <2>5 DEF Max
  <2>7. Max(Sizes) = Cardinality(Pairs(a))
    BY <1>1, <2>3, <2>4, <2>6
  <2>8. QED
    BY <1>1, <2>2, <2>7
<1>4. QED
  BY <1>1, <1>2, <1>3

Found(a) == {m[1] : m \in Pairs(a)}
Overlooked(a) == {n \in DOMAIN case.findings : n \notin Found(a) /\ case.findings[n].rule \in Blockers}
Madeup(a) == {i \in DOMAIN Predicted(a) : ~Grounded(Predicted(a)[i])}
One(b) == IF b THEN 1 ELSE 0

ExactAnswer(a) ==
  /\ SchemaValid(a)
  /\ a.verdict = case.verdict
  /\ (a.status = "incomplete") = Undecided
  /\ Len(Predicted(a)) - Cardinality(Pairs(a)) = 0
  /\ Len(case.findings) - Cardinality(Pairs(a)) = 0
  /\ Cardinality(Madeup(a)) = 0
  /\ TrustedExecution(execution)

LEMMA ScoredIs ==
  ASSUME case \in GroundTruths, NEW a \in Answers
  PROVE  Scored(a) =
    [cases |-> metrics.cases + 1,
     exact |-> metrics.exact + One(ExactAnswer(a)),
     outcome |-> metrics.outcome + One(a.verdict = case.verdict),
     schema |-> metrics.schema + One(SchemaValid(a)),
     tp |-> metrics.tp + Cardinality(Pairs(a)),
     fp |-> metrics.fp + (Len(Predicted(a)) - Cardinality(Pairs(a))),
     fn |-> metrics.fn + (Len(case.findings) - Cardinality(Pairs(a))),
     fnBlocker |-> metrics.fnBlocker + Cardinality(Overlooked(a)),
     unsafe |-> metrics.unsafe + One(UnsafeApprove(a)),
     invalid |-> metrics.invalid + Cardinality(Madeup(a)) + One(~TrustedExecution(execution))]
<1>1. Matching(a) = Pairs(a)
  BY MatchingIsPairs
<1>2. QED
  BY <1>1, Zenon DEF Scored, ExactAnswer, Found, Overlooked, Madeup, One

\* The sets that are counted are finite.
LEMMA Counted ==
  ASSUME case \in GroundTruths, NEW a \in Answers
  PROVE  /\ Cardinality(Overlooked(a)) \in Nat /\ (Cardinality(Overlooked(a)) = 0 <=> Overlooked(a) = {})
         /\ Cardinality(Madeup(a)) \in Nat /\ (Cardinality(Madeup(a)) = 0 <=> Madeup(a) = {})
<1>1. IsFiniteSet(DOMAIN case.findings) /\ IsFiniteSet(DOMAIN Predicted(a))
  BY FiniteSides
<1>2. Overlooked(a) \in SUBSET (DOMAIN case.findings) /\ Madeup(a) \in SUBSET (DOMAIN Predicted(a))
  BY DEF Overlooked, Madeup
<1>3. IsFiniteSet(Overlooked(a)) /\ IsFiniteSet(Madeup(a))
  BY <1>1, <1>2, FS_Subset
<1>4. QED
  BY <1>3, FS_EmptySet, FS_CardinalityType

\* No blocker is missed unless it is counted, and no place made up in a valid answer.
LEMMA NothingUncounted ==
  ASSUME case \in GroundTruths, NEW a \in Answers
  PROVE  /\ Overlooked(a) = {} => \A n \in DOMAIN case.findings :
              case.findings[n].rule \in Blockers => Reported(a, case.findings[n])
         /\ Madeup(a) = {} /\ SchemaValid(a) =>
              \A i \in DOMAIN a.findings : a.findings[i].place \in Actual
<1>1. ASSUME Overlooked(a) = {}, NEW n \in DOMAIN case.findings, case.findings[n].rule \in Blockers
      PROVE  Reported(a, case.findings[n])
  <2>1. PICK x \in Pairs(a) : x[1] = n
    BY <1>1 DEF Overlooked, Found
  <2>2. x[2] \in DOMAIN Predicted(a) /\ Matches(Predicted(a)[x[2]], case.findings[n])
    BY <2>1 DEF Pairs
  <2>3. Predicted(a) = a.findings
    <3>1. CASE SchemaValid(a)
      BY <3>1 DEF Predicted
    <3>2. CASE ~SchemaValid(a)
      BY <2>2, <3>2 DEF Predicted
    <3>3. QED
      BY <3>1, <3>2
  <2>4. QED
    BY <2>2, <2>3 DEF Reported, Matches
<1>2. ASSUME Madeup(a) = {}, SchemaValid(a), NEW i \in DOMAIN a.findings
      PROVE  a.findings[i].place \in Actual
  BY <1>2 DEF Madeup, Predicted, Grounded
<1>3. QED
  BY <1>1, <1>2

\* As many findings as expected, each of them expected: they are exactly those.
LEMMA RightIsValid ==
  ASSUME case \in GroundTruths, NEW a \in Answers, RightAnswer(a)
  PROVE  /\ SchemaValid(a) /\ Madeup(a) = {}
         /\ \A n \in DOMAIN case.findings : \E x \in Pairs(a) : x[1] = n
         /\ Len(Predicted(a)) = Len(case.findings)
<1> DEFINE N == Len(case.findings)
           Fits(i, n) == a.findings[i].valid /\ Matches(a.findings[i], case.findings[n])
<1>1. /\ N \in Nat /\ DOMAIN case.findings = 1..N /\ DOMAIN a.findings = 1..N /\ Len(a.findings) = N
      /\ \A m, n \in 1..N : case.findings[m].rule = case.findings[n].rule => m = n
      /\ \A n \in 1..N : case.findings[n].place \in Actual
      /\ \A n \in 1..N : \E i \in 1..N : Fits(i, n)
  BY Shapes DEF RightAnswer
<1> HIDE DEF N
<1>20. PICK f \in [1..N -> 1..N] : \A n \in 1..N : Fits(f[n], n)
  <2> HIDE DEF Fits
  <2> DEFINE g == [n \in 1..N |-> CHOOSE i \in 1..N : Fits(i, n)]
  <2>1. g \in [1..N -> 1..N] /\ \A n \in 1..N : Fits(g[n], n)
    BY <1>1
  <2>2. QED
    BY <2>1
<1>2. \A n \in 1..N : f[n] \in 1..N /\ Fits(f[n], n)
  BY <1>20
<1>3. \A n \in 1..N : a.findings[f[n]].rule = case.findings[n].rule
                     /\ a.findings[f[n]].place = case.findings[n].place
  BY <1>2 DEF Matches
<1>4. f \in Injection(1..N, 1..N)
  <2> SUFFICES ASSUME NEW m \in 1..N, NEW n \in 1..N, f[m] = f[n] PROVE m = n
    BY DEF Injection, IsInjective
  <2>1. case.findings[m].rule = case.findings[n].rule
    BY <1>3
  <2>2. QED
    BY <1>1, <2>1
<1>5. f \in Surjection(1..N, 1..N)
  <2>1. IsFiniteSet(1..N)
    BY <1>1, FS_Interval
  <2>2. QED
    BY <1>4, <2>1, FS_Injection
<1>6. \A i \in 1..N : \E n \in 1..N : f[n] = i
  BY <1>5 DEF Surjection
<1>7. \A i \in 1..N : a.findings[i].valid /\ a.findings[i].place \in Actual
  <2> SUFFICES ASSUME NEW i \in 1..N PROVE a.findings[i].valid /\ a.findings[i].place \in Actual
    OBVIOUS
  <2>1. PICK n \in 1..N : f[n] = i
    BY <1>6
  <2>2. a.findings[i].place = case.findings[n].place /\ a.findings[i].valid
    BY <1>2, <1>3, <2>1
  <2>3. QED
    BY <1>1, <2>2
<1>8. \A i, j \in 1..N : a.findings[i].rule = a.findings[j].rule => i = j
  <2> SUFFICES ASSUME NEW i \in 1..N, NEW j \in 1..N, a.findings[i].rule = a.findings[j].rule
               PROVE  i = j
    OBVIOUS
  <2>1. PICK m \in 1..N, n \in 1..N : f[m] = i /\ f[n] = j
    BY <1>6
  <2>2. case.findings[m].rule = case.findings[n].rule
    BY <1>3, <2>1
  <2>3. QED
    BY <1>1, <2>1, <2>2
<1>9. (a.status = "complete") = (a.verdict # "incomplete")
  BY DEF RightAnswer, Undecided
<1>10. SchemaValid(a)
  BY <1>1, <1>7, <1>8, <1>9 DEF SchemaValid
<1>11. Predicted(a) = a.findings
  BY <1>10 DEF Predicted
<1>12. Madeup(a) = {}
  BY <1>1, <1>7, <1>11 DEF Madeup, Grounded
<1>13. \A n \in 1..N : <<n, f[n]>> \in Pairs(a) /\ <<n, f[n]>>[1] = n
  BY <1>1, <1>2, <1>7, <1>11 DEF Pairs, Grounded
<1>14. QED
  BY <1>1, <1>10, <1>11, <1>12, <1>13 DEF N

LEMMA RightIsExact ==
  ASSUME case \in GroundTruths, NEW a \in Answers, RightAnswer(a)
  PROVE  /\ SchemaValid(a) /\ ~UnsafeApprove(a) /\ a.verdict = case.verdict
         /\ Overlooked(a) = {} /\ Madeup(a) = {}
         /\ Len(Predicted(a)) - Cardinality(Pairs(a)) = 0
         /\ Len(case.findings) - Cardinality(Pairs(a)) = 0
         /\ TrustedExecution(execution) => ExactAnswer(a)
<1> DEFINE N == Len(case.findings)
           h == [x \in Pairs(a) |-> x[1]]
<1>1. /\ SchemaValid(a) /\ Madeup(a) = {} /\ Len(Predicted(a)) = N
      /\ \A n \in 1..N : \E x \in Pairs(a) : x[1] = n
      /\ N \in Nat /\ DOMAIN case.findings = 1..N
  BY RightIsValid, Shapes
<1> HIDE DEF N
<1>2. \A x \in Pairs(a) : x[1] \in 1..N
  BY <1>1 DEF Pairs
<1>3. h \in Injection(Pairs(a), 1..N) /\ h \in Surjection(Pairs(a), 1..N)
  BY <1>1, <1>2, OnePartner DEF Injection, IsInjective, Surjection
<1>4. IsFiniteSet(1..N) /\ Cardinality(1..N) = N
  <2>1. N \in Int /\ 1 \in Int /\ (1 > N => N = 0) /\ N - 1 + 1 = N
    BY <1>1
  <2>2. QED
    BY <2>1, FS_Interval
<1> HIDE DEF h
<1>5. Cardinality(Pairs(a)) = N
  BY <1>3, <1>4, FS_Injection
<1>6. Overlooked(a) = {}
  BY <1>1 DEF Overlooked, Found
<1>7. a.verdict = case.verdict /\ (a.status = "incomplete") = Undecided /\ ~UnsafeApprove(a)
  BY DEF RightAnswer, Undecided, UnsafeApprove
<1>8. N - N = 0 /\ Cardinality(Madeup(a)) = 0
  BY <1>1, FS_EmptySet
<1>9. QED
  BY <1>1, <1>5, <1>6, <1>7, <1>8 DEF ExactAnswer, N

LEMMA TrustIsProof ==
  ASSUME NEW e \in Executions
  PROVE  TrustedExecution(e) <=> Proved(e)
BY DEF TrustedExecution, TrustedUsage, TrustedReceipts, TrustedHost, Proved, Executions

-----------------------------------------------------------------------------
(* What the counters say of the answers they were added up from.           *)

Counters ==
  [cases : 0..Len(Truths), exact : Nat, outcome : Nat, schema : Nat, tp : Nat, fp : Int, fn : Int,
   fnBlocker : Nat, unsafe : Nat, invalid : Nat]

AllRight(m) ==
  /\ m.outcome = m.cases /\ m.exact = m.cases /\ m.schema = m.cases
  /\ m.fp = 0 /\ m.fn = 0 /\ m.fnBlocker = 0 /\ m.unsafe = 0 /\ m.invalid = 0

ScoreInv ==
  /\ metrics \in Counters
  /\ truth \in [unsafe : BOOLEAN, missed : BOOLEAN, madeup : BOOLEAN, unproved : BOOLEAN,
                exact : Nat, best : Nat]
  /\ execution \in Executions \cup {None}
  /\ execution # None => metrics.cases < Len(Truths)
  /\ metrics.schema <= metrics.cases /\ truth.exact <= metrics.cases
  /\ metrics.tp = truth.best
  /\ metrics.unsafe = 0 => ~truth.unsafe
  /\ metrics.fnBlocker = 0 => ~truth.missed
  /\ metrics.invalid = 0 /\ metrics.schema = metrics.cases => ~truth.madeup /\ ~truth.unproved
  /\ truth.exact = metrics.cases /\ ~truth.unproved => AllRight(metrics)
  /\ gate = "passed" => GateOpens(metrics)
  /\ gate = "failed" => ~GateOpens(metrics) /\ metrics.cases = Len(Truths)

LEMMA ScoreStarts == ASSUME ScoreAssumption PROVE ScoreInit => ScoreInv
<1> SUFFICES ASSUME ScoreInit PROVE ScoreInv
  OBVIOUS
<1>1. Len(Truths) \in Nat
  BY DEF ScoreAssumption
<1>2. metrics \in Counters
  BY <1>1 DEF ScoreInit, NothingScored, Counters
<1>3. QED
  BY <1>2 DEF ScoreInit, NothingScored, ScoreInv, AllRight

LEMMA InHand ==
  ASSUME ScoreAssumption, ScoreInv, metrics.cases < Len(Truths)
  PROVE  case \in GroundTruths /\ metrics.cases + 1 \in 0..Len(Truths)
<1>1. Len(Truths) \in Nat /\ DOMAIN Truths = 1..Len(Truths) /\ \A n \in DOMAIN Truths : Truths[n] \in GroundTruths
  BY ShapeOfSeq DEF ScoreAssumption
<1>2. metrics.cases \in 0..Len(Truths)
  BY DEF ScoreInv, Counters
<1>3. metrics.cases + 1 \in 1..Len(Truths)
  BY <1>1, <1>2
<1>4. QED
  BY <1>1, <1>3 DEF case

LEMMA RunCaseStep ==
  ASSUME ScoreAssumption, ScoreInv, NEW e \in Executions, RunCase(e)
  PROVE  ScoreInv'
<1>1. metrics' = metrics /\ truth' = truth /\ metrics.cases < Len(Truths) /\ gate = "open"
  BY DEF RunCase
<1>2. execution' \in Executions \cup {None} /\ gate' \in {"open", "refused"}
  BY DEF RunCase, ScoreInv
<1>3. Counters' = Counters /\ AllRight(metrics)' = AllRight(metrics)
  BY <1>1 DEF Counters, AllRight
<1>4. QED
  BY <1>1, <1>2, <1>3 DEF ScoreInv

\* Sums of what is never negative: nothing came of nothing, and all of them of one more each.
LEMMA NothingAdded ==
  ASSUME NEW x \in Nat, NEW y \in Nat
  PROVE  x + y \in Nat /\ (x + y = 0 <=> x = 0 /\ y = 0)
OBVIOUS

LEMMA OneMore ==
  ASSUME NEW x \in Nat, NEW n \in Nat, NEW b \in 0..1, x <= n
  PROVE  x + b \in Nat /\ x + b <= n + 1 /\ (x + b = n + 1 <=> x = n /\ b = 1)
OBVIOUS

\* One answer more in the counters and in the history.
LEMMA OneScored ==
  ASSUME ScoreAssumption, ScoreInv, NEW a \in Answers, execution # None, metrics' = Scored(a),
         truth' =
           [unsafe |-> truth.unsafe \/ (a.verdict = "approve" /\ case.verdict # "approve"),
            missed |-> truth.missed \/ \E n \in DOMAIN case.findings :
              case.findings[n].rule \in Blockers /\ ~Reported(a, case.findings[n]),
            madeup |-> truth.madeup \/ \E i \in DOMAIN a.findings : a.findings[i].place \notin Actual,
            unproved |-> truth.unproved \/ ~Proved(execution),
            exact |-> truth.exact + IF RightAnswer(a) THEN 1 ELSE 0,
            best |-> truth.best + BestMatching(a)],
         execution' = None, UNCHANGED gate, gate = "open"
  PROVE  ScoreInv'
<1> DEFINE m == metrics
           np == Len(Predicted(a))
           nc == Len(case.findings)
           matched == Cardinality(Pairs(a))
           missed == Cardinality(Overlooked(a))
           madeup == Cardinality(Madeup(a))
           exact == One(ExactAnswer(a))
           outcome == One(a.verdict = case.verdict)
           valid == One(SchemaValid(a))
           unsafe == One(UnsafeApprove(a))
           distrusted == One(~TrustedExecution(execution))
           right == IF RightAnswer(a) THEN 1 ELSE 0
<1>1. /\ case \in GroundTruths /\ m.cases + 1 \in 0..Len(Truths)
      /\ execution \in Executions
      /\ TrustedExecution(execution) <=> Proved(execution)
  BY InHand, TrustIsProof DEF ScoreInv
<1>2. metrics' =
        [cases |-> m.cases + 1, exact |-> m.exact + exact, outcome |-> m.outcome + outcome,
         schema |-> m.schema + valid, tp |-> m.tp + matched, fp |-> m.fp + (np - matched),
         fn |-> m.fn + (nc - matched), fnBlocker |-> m.fnBlocker + missed,
         unsafe |-> m.unsafe + unsafe, invalid |-> m.invalid + madeup + distrusted]
  BY <1>1, ScoredIs
<1>3. /\ missed \in Nat /\ (missed = 0 <=> Overlooked(a) = {})
      /\ madeup \in Nat /\ (madeup = 0 <=> Madeup(a) = {})
      /\ matched \in Nat /\ matched = BestMatching(a) /\ np \in Nat /\ nc \in Nat
  BY <1>1, Counted, PairsAreBest, Shapes
<1>4. /\ exact \in 0..1 /\ exact \in Nat /\ (exact = 1 <=> ExactAnswer(a))
      /\ outcome \in 0..1 /\ outcome \in Nat /\ (outcome = 1 <=> a.verdict = case.verdict)
      /\ valid \in 0..1 /\ valid \in Nat /\ (valid = 1 <=> SchemaValid(a))
      /\ unsafe \in Nat /\ (unsafe = 0 <=> ~UnsafeApprove(a))
      /\ distrusted \in Nat /\ (distrusted = 0 <=> TrustedExecution(execution))
      /\ right \in 0..1 /\ right \in Nat /\ (right = 1 <=> RightAnswer(a))
  BY DEF One
<1>5. /\ m.cases \in Nat /\ m.exact \in Nat /\ m.outcome \in Nat /\ m.schema \in Nat /\ m.tp \in Nat
      /\ m.fp \in Int /\ m.fn \in Int /\ m.fnBlocker \in Nat /\ m.unsafe \in Nat /\ m.invalid \in Nat
      /\ truth.exact \in Nat /\ truth.best \in Nat
  BY DEF ScoreInv, Counters
<1>6. /\ m.schema <= m.cases /\ truth.exact <= m.cases /\ m.tp = truth.best
      /\ m.unsafe = 0 => ~truth.unsafe
      /\ m.fnBlocker = 0 => ~truth.missed
      /\ m.invalid = 0 /\ m.schema = m.cases => ~truth.madeup /\ ~truth.unproved
      /\ truth.exact = m.cases /\ ~truth.unproved => AllRight(m)
  BY DEF ScoreInv
<1>7. /\ truth'.unsafe = (truth.unsafe \/ UnsafeApprove(a))
      /\ truth'.missed = (truth.missed \/ \E n \in DOMAIN case.findings :
           case.findings[n].rule \in Blockers /\ ~Reported(a, case.findings[n]))
      /\ truth'.madeup = (truth.madeup \/ \E i \in DOMAIN a.findings : a.findings[i].place \notin Actual)
      /\ truth'.unproved = (truth.unproved \/ ~Proved(execution))
      /\ truth'.exact = truth.exact + right /\ truth'.best = truth.best + BestMatching(a)
  BY DEF UnsafeApprove
<1> HIDE DEF m, np, nc, matched, missed, madeup, exact, outcome, valid, unsafe, distrusted, right
<1>8. /\ metrics'.cases = m.cases + 1 /\ metrics'.exact = m.exact + exact
      /\ metrics'.outcome = m.outcome + outcome /\ metrics'.schema = m.schema + valid
      /\ metrics'.tp = m.tp + matched /\ metrics'.fp = m.fp + (np - matched)
      /\ metrics'.fn = m.fn + (nc - matched) /\ metrics'.fnBlocker = m.fnBlocker + missed
      /\ metrics'.unsafe = m.unsafe + unsafe /\ metrics'.invalid = m.invalid + madeup + distrusted
  BY <1>2
<1>9. metrics' \in Counters
  <2>1. /\ m.exact + exact \in Nat /\ m.outcome + outcome \in Nat /\ m.schema + valid \in Nat
        /\ m.tp + matched \in Nat /\ m.fnBlocker + missed \in Nat /\ m.unsafe + unsafe \in Nat
        /\ m.invalid + madeup \in Nat
    BY <1>3, <1>4, <1>5, NothingAdded
  <2>2. m.invalid + madeup + distrusted \in Nat
    BY <1>4, <2>1, NothingAdded
  <2>3. m.fp + (np - matched) \in Int /\ m.fn + (nc - matched) \in Int
    BY <1>3, <1>5
  <2>4. QED
    BY <1>1, <1>2, <2>1, <2>2, <2>3 DEF Counters
<1>10. truth' \in [unsafe : BOOLEAN, missed : BOOLEAN, madeup : BOOLEAN, unproved : BOOLEAN,
                  exact : Nat, best : Nat]
  <2>1. truth.exact + right \in Nat /\ truth.best + BestMatching(a) \in Nat
    BY <1>3, <1>4, <1>5, NothingAdded
  <2>2. /\ truth.unsafe \in BOOLEAN /\ truth.missed \in BOOLEAN
        /\ truth.madeup \in BOOLEAN /\ truth.unproved \in BOOLEAN
    BY DEF ScoreInv
  <2>3. QED
    BY <2>1, <2>2 DEF right
<1>11. metrics'.schema <= metrics'.cases /\ truth'.exact <= metrics'.cases /\ metrics'.tp = truth'.best
  <2>1. m.schema + valid <= m.cases + 1 /\ truth.exact + right <= m.cases + 1
    BY <1>4, <1>5, <1>6, OneMore
  <2>2. QED
    BY <1>3, <1>6, <1>7, <1>8, <2>1
<1>12. metrics'.unsafe = 0 => ~truth'.unsafe
  <2>1. m.unsafe + unsafe = 0 => m.unsafe = 0 /\ unsafe = 0
    BY <1>4, <1>5, NothingAdded
  <2>2. QED
    BY <1>4, <1>6, <1>7, <1>8, <2>1
<1>13. metrics'.fnBlocker = 0 => ~truth'.missed
  <2> SUFFICES ASSUME metrics'.fnBlocker = 0 PROVE ~truth'.missed
    OBVIOUS
  <2>1. m.fnBlocker = 0 /\ missed = 0
    BY <1>3, <1>5, <1>8, NothingAdded
  <2>2. ~truth.missed /\ Overlooked(a) = {}
    BY <1>3, <1>6, <2>1
  <2>3. QED
    BY <1>1, <1>7, <2>2, NothingUncounted
<1>14. metrics'.invalid = 0 /\ metrics'.schema = metrics'.cases => ~truth'.madeup /\ ~truth'.unproved
  <2> SUFFICES ASSUME metrics'.invalid = 0, metrics'.schema = metrics'.cases
               PROVE  ~truth'.madeup /\ ~truth'.unproved
    OBVIOUS
  <2>1. m.invalid + madeup = 0 /\ distrusted = 0
    <3>1. m.invalid + madeup \in Nat
      BY <1>3, <1>5, NothingAdded
    <3>2. QED
      BY <1>4, <1>8, <3>1, NothingAdded
  <2>2. m.invalid = 0 /\ madeup = 0
    BY <1>3, <1>5, <2>1, NothingAdded
  <2>3. m.schema = m.cases /\ valid = 1
    BY <1>4, <1>5, <1>6, <1>8, OneMore
  <2>4. ~truth.madeup /\ ~truth.unproved
    BY <1>6, <2>2, <2>3
  <2>5. Proved(execution) /\ SchemaValid(a) /\ Madeup(a) = {}
    BY <1>1, <1>3, <1>4, <2>1, <2>2, <2>3
  <2>6. QED
    BY <1>1, <1>7, <2>4, <2>5, NothingUncounted
<1>15. truth'.exact = metrics'.cases /\ ~truth'.unproved => AllRight(metrics')
  <2> SUFFICES ASSUME truth'.exact = metrics'.cases, ~truth'.unproved PROVE AllRight(metrics')
    OBVIOUS
  <2>1. truth.exact = m.cases /\ RightAnswer(a)
    <3>1. truth.exact + right = m.cases + 1
      BY <1>7, <1>8
    <3>2. truth.exact = m.cases /\ right = 1
      BY <1>4, <1>5, <1>6, <3>1, OneMore
    <3>3. QED
      BY <1>4, <3>2
  <2>2. ~truth.unproved /\ Proved(execution)
    BY <1>7
  <2>3. AllRight(m)
    BY <1>6, <2>1, <2>2
  <2>4. /\ ExactAnswer(a) /\ SchemaValid(a) /\ ~UnsafeApprove(a) /\ a.verdict = case.verdict
        /\ Overlooked(a) = {} /\ Madeup(a) = {} /\ np - matched = 0 /\ nc - matched = 0
    BY <1>1, <2>1, <2>2, RightIsExact DEF np, nc, matched
  <2>5. exact = 1 /\ outcome = 1 /\ valid = 1 /\ unsafe = 0 /\ missed = 0 /\ madeup = 0 /\ distrusted = 0
    BY <1>1, <1>3, <1>4, <2>2, <2>4
  <2>6. m.outcome = m.cases /\ m.exact = m.cases /\ m.schema = m.cases /\ m.fp = 0 /\ m.fn = 0
        /\ m.fnBlocker = 0 /\ m.unsafe = 0 /\ m.invalid = 0
    BY <2>3 DEF AllRight
  <2>7. metrics'.outcome = m.cases + 1 /\ metrics'.exact = m.cases + 1 /\ metrics'.schema = m.cases + 1
    BY <1>8, <2>5, <2>6
  <2>8. metrics'.fp = 0 /\ metrics'.fn = 0
    BY <1>8, <2>4, <2>6
  <2>9. metrics'.fnBlocker = 0 /\ metrics'.unsafe = 0 /\ metrics'.invalid = 0
    BY <1>8, <2>5, <2>6
  <2>10. QED
    BY <1>8, <2>7, <2>8, <2>9 DEF AllRight
<1>16. QED
  BY <1>9, <1>10, <1>11, <1>12, <1>13, <1>14, <1>15 DEF ScoreInv, Counters, AllRight

LEMMA AnswerCaseStep ==
  ASSUME ScoreAssumption, ScoreInv, NEW a \in Answers, AnswerCase(a)
  PROVE  ScoreInv'
<1>1. CASE FinalAccepted(a)
  BY <1>1, OneScored DEF AnswerCase
<1>2. CASE ~FinalAccepted(a)
  <2>1. gate' = "refused" /\ UNCHANGED <<execution, metrics, truth>>
    BY <1>2 DEF AnswerCase
  <2>2. QED
    BY <2>1 DEF ScoreInv, Counters, AllRight
<1>3. QED
  BY <1>1, <1>2

LEMMA MeasureStep == ASSUME ScoreInv, Measure PROVE ScoreInv'
<1>1. /\ gate' = IF GateOpens(metrics) THEN "passed" ELSE "failed"
      /\ metrics.cases = Len(Truths) /\ UNCHANGED <<execution, metrics, truth>>
  BY DEF Measure
<1>2. GateOpens(metrics)' = GateOpens(metrics)
  BY <1>1 DEF GateOpens, AtLeast
<1>3. QED
  BY <1>1, <1>2 DEF ScoreInv, Counters, AllRight

LEMMA ScoreGoesOn == ASSUME ScoreAssumption, ScoreInv, [ScoreNext]_scoreVars PROVE ScoreInv'
<1>1. CASE UNCHANGED scoreVars
  BY <1>1 DEF scoreVars, ScoreInv, Counters, AllRight, GateOpens, AtLeast
<1>2. CASE ScoreNext
  BY <1>2, RunCaseStep, AnswerCaseStep, MeasureStep DEF ScoreNext
<1>3. QED
  BY <1>1, <1>2

\* A rate of all of them reaches every threshold.
LEMMA AllOfThem ==
  ASSUME NEW n \in Nat, NEW percent \in 0..100
  PROVE  AtLeast(n, n, percent)
<1>1. 100 * n - percent * n = (100 - percent) * n /\ 100 - percent \in Nat
  OBVIOUS
<1>2. (100 - percent) * n >= 0
  BY <1>1
<1>3. QED
  BY <1>1, <1>2 DEF AtLeast

LEMMA AllRightPass == ASSUME ScoreAssumption, ScoreInv, AllRight(metrics) PROVE GateOpens(metrics)
<1>1. metrics.cases \in Nat /\ metrics.tp \in Nat
  BY DEF ScoreInv, Counters
<1>2. /\ metrics.tp + metrics.fp = metrics.tp /\ metrics.tp + metrics.fn = metrics.tp
      /\ metrics.outcome = metrics.cases /\ metrics.exact = metrics.cases
  BY <1>1 DEF AllRight
<1>3. /\ Minimum.precision \in 0..100 /\ Minimum.recall \in 0..100
      /\ Minimum.outcome \in 0..100 /\ Minimum.exact \in 0..100
  BY DEF ScoreAssumption
<1>4. QED
  BY <1>1, <1>2, <1>3, AllOfThem DEF GateOpens, AllRight

\* For every corpus, rule, answer and threshold: what the gate of a repeat says is so, no
\* finding is lost to the order they are matched in, and a proved repeat of right answers passes.
THEOREM RepeatsAreScored == ASSUME ScoreAssumption PROVE ScoreSpec => []RepeatIsScored
<1>1. ScoreInit => ScoreInv
  BY ScoreStarts
<1>2. ScoreInv /\ [ScoreNext]_scoreVars => ScoreInv'
  BY ScoreGoesOn
<1>3. ScoreInv => RepeatIsScored
  <2> SUFFICES ASSUME ScoreInv PROVE RepeatIsScored
    OBVIOUS
  <2>1. MatchingIsBest
    BY DEF ScoreInv, MatchingIsBest
  <2>2. GateIsSafe
    BY DEF ScoreInv, GateIsSafe, GateOpens
  <2>3. RightRepeatPasses
    <3> SUFFICES ASSUME gate \in {"passed", "failed"}, truth.exact = Len(Truths), ~truth.unproved
                 PROVE  gate = "passed"
      BY DEF RightRepeatPasses
    <3>1. metrics.cases <= Len(Truths) /\ truth.exact <= metrics.cases
          /\ metrics.cases \in Nat /\ Len(Truths) \in Nat
      BY DEF ScoreInv, Counters, ScoreAssumption
    <3>2. AllRight(metrics)
      BY <3>1 DEF ScoreInv
    <3>3. QED
      BY <3>2, AllRightPass DEF ScoreInv
  <2>4. QED
    BY <2>1, <2>2, <2>3 DEF RepeatIsScored
<1>4. QED
  BY <1>1, <1>2, <1>3, PTL DEF ScoreSpec
=============================================================================

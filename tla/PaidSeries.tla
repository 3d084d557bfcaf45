----------------------------- MODULE PaidSeries -----------------------------
(***************************************************************************)
(* A paid measurement series: evaluation/development-v2.  Each run of      *)
(* run_paid_evaluation.py measures one repeat of the frozen series, case   *)
(* by case, and leaves a signed capture; runner.py --verify-series decides *)
(* from the captures alone whether the series qualifies.                   *)
(*                                                                         *)
(* Runs race for an ordinal, the owner edits the sources and the lock      *)
(* under them, every write may fail and a run may die at any step.         *)
(***************************************************************************)
EXTENDS Naturals, Sequences, FiniteSets, FiniteSetsExt, SequencesExt, Nothing

CONSTANTS
  Runs,       \* processes of the runner
  Ordinals,   \* repeats a series needs (1..5)
  Series, CaptureIds,
  Cases,      \* the sequence of cases of the selection
  Expected,   \* [case -> verdict of the ground truth]
  Tolerated,  \* wrong but safe answers the accuracy thresholds let pass
  TaskIds,    \* task identities of the runtime
  MaxAttempts, MaxVersion, MaxClock   \* bounds

Verdicts == {"approve", "changes", "incomplete"}

\* The record of an attempt in the ledger, without and with its end.
Entries == [attempt: Nat, terminal: {None, "completed", "failed"}]

SeriesAssumption ==
  /\ Cases \in Seq(DOMAIN Expected)
  /\ None \notin Entries \cup {"completed", "failed"}

VARIABLES
  source,         \* what is on disk: the versions of corpus and scorer, and of the bundle
  corpusLock,     \* corpus.lock.json
  attemptLedger,  \* [<<series, ordinal>> -> the attempt directory, None when there is none]
  captures,       \* the signed result files
  run,            \* the runner processes
  attempts,       \* runs authorized so far
  paid,           \* the model tasks that were paid for
  clock           \* in seconds

seriesVars == <<source, corpusLock, attemptLedger, captures, run, attempts, paid, clock>>

NoAttempt == [pc |-> "idle"]

SeriesInit ==
  /\ source = [corpus |-> 1, bundle |-> 1]
  /\ corpusLock = [frozen |-> FALSE, series |-> None, corpus |-> 1, bundle |-> None]
  /\ attemptLedger = [k \in Series \X Ordinals |-> None]
  /\ captures = {}
  /\ run = [r \in Runs |-> NoAttempt]
  /\ attempts = 0
  /\ paid = {}
  /\ clock = 0

-----------------------------------------------------------------------------
\* The owner.

EditCorpus ==
  /\ source.corpus < MaxVersion
  /\ source' = [source EXCEPT !.corpus = @ + 1]
  /\ UNCHANGED <<corpusLock, attemptLedger, captures, run, attempts, paid, clock>>

EditBundle ==
  /\ source.bundle < MaxVersion
  /\ source' = [source EXCEPT !.bundle = @ + 1]
  /\ UNCHANGED <<corpusLock, attemptLedger, captures, run, attempts, paid, clock>>

\* build_lock: a lock of what is on disk, for no series yet.
BuildLock ==
  /\ corpusLock' = [frozen |-> FALSE, series |-> None, corpus |-> source.corpus, bundle |-> None]
  /\ corpusLock' # corpusLock
  /\ UNCHANGED <<source, attemptLedger, captures, run, attempts, paid, clock>>

\* The reviewed lock is frozen for a series, with the identity of what is on disk.
FreezeLock(s) ==
  /\ corpusLock' = [frozen |-> TRUE, series |-> s, corpus |-> source.corpus,
                    bundle |-> source.bundle]
  /\ corpusLock' # corpusLock
  /\ UNCHANGED <<source, attemptLedger, captures, run, attempts, paid, clock>>

Tick ==
  /\ clock < MaxClock
  /\ clock' = clock + 1
  /\ UNCHANGED <<source, corpusLock, attemptLedger, captures, run, attempts, paid>>

-----------------------------------------------------------------------------

VerifyLock ==
  /\ corpusLock.corpus = source.corpus
  /\ corpusLock.frozen => corpusLock.bundle = source.bundle

Captured(s, o, c) == \E d \in captures : d.series = s /\ d.ordinal = o /\ d.capture = c

\* Everything that is checked before the attempt is reserved.
Authorize(r, o, c) ==
  /\ run[r].pc \in {"idle", "passed", "failed", "refused", "crashed"}
  /\ attempts < MaxAttempts
  /\ VerifyLock /\ corpusLock.frozen
  /\ ~Captured(corpusLock.series, o, c)
  /\ attempts' = attempts + 1
  /\ run' = [run EXCEPT ![r] =
       [pc |-> "authorized", attempt |-> attempts + 1, series |-> corpusLock.series, ordinal |-> o,
        capture |-> c, identity |-> corpusLock.bundle, rows |-> <<>>, current |-> None,
        document |-> None]]
  /\ UNCHANGED <<source, corpusLock, attemptLedger, captures, paid, clock>>

Key(r) == <<run[r].series, run[r].ordinal>>

Enter(r, pc) == run' = [run EXCEPT ![r].pc = pc]

ReserveAlways(r) ==   \* mutant
  /\ run[r].pc = "authorized"
  /\ attemptLedger' = [attemptLedger EXCEPT
                              ![Key(r)] = [attempt |-> run[r].attempt, terminal |-> None]]
  /\ Enter(r, "reserved")
  /\ UNCHANGED <<source, corpusLock, captures, attempts, paid, clock>>
\* The ordinal is taken by making its directory, which only one run ever does.
Reserve(r) ==
  /\ run[r].pc = "authorized"
  /\ IF attemptLedger[Key(r)] = None
     THEN /\ attemptLedger' = [attemptLedger EXCEPT
                              ![Key(r)] = [attempt |-> run[r].attempt, terminal |-> None]]
          /\ Enter(r, "reserved")
     ELSE Enter(r, "refused") /\ UNCHANGED attemptLedger
  /\ UNCHANGED <<source, corpusLock, captures, attempts, paid, clock>>

\* The signed marker and the empty state directory: outside of the try of the run.
Mark(r) ==
  /\ run[r].pc = "reserved"
  /\ \/ Enter(r, "case")
     \/ Enter(r, "failed")      \* the disk refuses one of them
  /\ UNCHANGED <<source, corpusLock, attemptLedger, captures, attempts, paid, clock>>

Case(r) == Cases[Len(run[r].rows) + 1]

\* materialize_case verifies the lock; then the live review runs what is on disk by now.
Materialize(r) ==
  /\ run[r].pc = "case" /\ Len(run[r].rows) < Len(Cases)
  /\ IF VerifyLock
     THEN run' = [run EXCEPT ![r].pc = "call", ![r].current = [revision |-> source.corpus]]
     ELSE Enter(r, "failing")
  /\ UNCHANGED <<source, corpusLock, attemptLedger, captures, attempts, paid, clock>>

Call(r) ==
  /\ run[r].pc = "call"
  /\ \E scheduled \in BOOLEAN :
       /\ paid' = paid \cup IF scheduled
            THEN {[series |-> run[r].series, ordinal |-> run[r].ordinal,
                   attempt |-> run[r].attempt, case |-> Case(r)]}
            ELSE {}
       /\ run' = [run EXCEPT ![r].pc = "answer",
                    ![r].current = [revision |-> @.revision, bundle |-> source.bundle,
                                    scheduled |-> scheduled]]
  /\ UNCHANGED <<source, corpusLock, attemptLedger, captures, attempts, clock>>

\* The contract of a result: of a fresh task, and of the kind the ground truth asks for.
Acceptable(r, verdict, reused, task) ==
  /\ ~reused
  /\ task \notin {run[r].rows[i].task : i \in DOMAIN run[r].rows}
  /\ run[r].current.scheduled = (Expected[Case(r)] # "incomplete")
  /\ Expected[Case(r)] = "incomplete" => verdict = "incomplete"

LiveAnswer(r) ==
  /\ run[r].pc = "answer"
  /\ \/ Enter(r, "failing")     \* the live review failed
     \/ \E verdict \in Verdicts, reused \in BOOLEAN, task \in TaskIds :
          IF Acceptable(r, verdict, reused, task)
          THEN run' = [run EXCEPT ![r].pc = "case", ![r].current = None,
                 ![r].rows = Append(@, [revision |-> run[r].current.revision,
                                        bundle |-> run[r].current.bundle,
                                        task |-> task, verdict |-> verdict])]
          ELSE Enter(r, "failing")
  /\ UNCHANGED <<source, corpusLock, attemptLedger, captures, attempts, paid, clock>>

-----------------------------------------------------------------------------
\* Scoring.

Unsafe(row, case) == row.verdict = "approve" /\ Expected[case] # "approve"
Missed(row, case) == Expected[case] = "changes" /\ row.verdict # "changes"

Gate(rows) ==
  /\ \A i \in DOMAIN rows : ~Unsafe(rows[i], Cases[i]) /\ ~Missed(rows[i], Cases[i])
  /\ Cardinality({i \in DOMAIN rows : rows[i].verdict # Expected[Cases[i]]}) <= Tolerated

Measured(r) ==
  /\ VerifyLock /\ corpusLock.frozen
  /\ corpusLock.series = run[r].series
  /\ corpusLock.bundle = run[r].identity
  /\ \A i \in DOMAIN run[r].rows : run[r].rows[i].revision = source.corpus

Score(r) ==
  /\ run[r].pc = "case" /\ Len(run[r].rows) = Len(Cases)
  /\ IF Measured(r)
     THEN run' = [run EXCEPT ![r].pc = "write", ![r].document =
            [series |-> run[r].series, ordinal |-> run[r].ordinal, capture |-> run[r].capture,
             attempt |-> run[r].attempt, identity |-> run[r].identity,
             corpus |-> corpusLock.corpus, rows |-> run[r].rows, gate |-> Gate(run[r].rows), at |-> clock]]
     ELSE Enter(r, "failing")
  /\ UNCHANGED <<source, corpusLock, attemptLedger, captures, attempts, paid, clock>>

\* The capture is kept whether or not it passes the gate.
WriteCapture(r) ==
  /\ run[r].pc = "write"
  /\ \/ /\ ~Captured(run[r].series, run[r].ordinal, run[r].capture)
        /\ captures' = captures \cup {run[r].document}
        /\ Enter(r, IF run[r].document.gate THEN "complete" ELSE "failing")
     \/ Enter(r, "failing") /\ UNCHANGED captures
  /\ UNCHANGED <<source, corpusLock, attemptLedger, attempts, paid, clock>>

\* The signed terminal record, never written twice.
Terminal(r, status, end) ==
  /\ \/ /\ attemptLedger[Key(r)].terminal = None
        /\ attemptLedger' = [attemptLedger EXCEPT ![Key(r)].terminal = status]
        /\ Enter(r, end)
     \/ Enter(r, "failed") /\ UNCHANGED attemptLedger
  /\ UNCHANGED <<source, corpusLock, captures, attempts, paid, clock>>

Fail(r) == run[r].pc = "failing" /\ Terminal(r, "failed", "failed")
RecordCompleted(r) == run[r].pc = "complete" /\ Terminal(r, "completed", "passed")

Die(r) ==
  /\ run[r].pc \notin {"idle", "passed", "failed", "refused", "crashed"}
  /\ Enter(r, "crashed")
  /\ UNCHANGED <<source, corpusLock, attemptLedger, captures, attempts, paid, clock>>

SeriesNext ==
  \/ EditCorpus \/ EditBundle \/ BuildLock \/ Tick
  \/ \E s \in Series : FreezeLock(s)
  \/ \E r \in Runs :
       \/ \E o \in Ordinals, c \in CaptureIds : Authorize(r, o, c)
       \/ Reserve(r) \/ Mark(r)
       \/ Materialize(r) \/ Call(r) \/ LiveAnswer(r)
       \/ Score(r) \/ WriteCapture(r) \/ Fail(r) \/ RecordCompleted(r)
       \/ Die(r)

SeriesSpec == SeriesInit /\ [][SeriesNext]_seriesVars

-----------------------------------------------------------------------------
\* The verifier of a series, which reads captures and the lock only.

Category(d, i) == d.rows[i].verdict = "approve"

Flaps(docs) == \E d, e \in docs : \E i \in DOMAIN Cases : Category(d, i) # Category(e, i)

Admissible(docs) ==
  /\ VerifyLock /\ corpusLock.frozen
  /\ \A d \in docs :
       /\ d.series = corpusLock.series
       /\ d.identity = corpusLock.bundle /\ d.corpus = corpusLock.corpus
  /\ Cardinality(docs) = Cardinality(Ordinals)
  /\ {d.ordinal : d \in docs} = Ordinals
  /\ \A d, e \in docs : d # e => d.capture # e.capture /\ d.at # e.at
  /\ \A d \in docs : Len(d.rows) = Len(Cases) /\ d.gate = Gate(d.rows)

Qualifies(docs) ==
  /\ Admissible(docs)
  /\ \A d \in docs : d.gate
  /\ ~Flaps(docs)

-----------------------------------------------------------------------------

\* No repeat is paid for by two attempts: whatever races, dies or is retried under another
\* capture id, the money of an ordinal is spent by the run that reserved it.
RepeatPaidOnce ==
  \A p, q \in paid : p.series = q.series /\ p.ordinal = q.ordinal => p.attempt = q.attempt

\* A capture is one measurement of the frozen sources: every case of it was materialized
\* from the corpus it names and run by the bundle it names, each by a task of its own.
CaptureIsOneMeasurement ==
  \A d \in captures :
    /\ Len(d.rows) = Len(Cases)
    /\ \A i, j \in DOMAIN d.rows : i # j => d.rows[i].task # d.rows[j].task
    /\ \A i \in DOMAIN d.rows : d.rows[i].bundle = d.identity /\ d.rows[i].revision = d.corpus

\* The ledger agrees with the captures: a repeat recorded as completed has the passing
\* capture of that attempt, and one recorded as failed has no passing capture.
LedgerIsTrue ==
  \A s \in Series, o \in Ordinals :
    attemptLedger[<<s, o>>] # None =>
      LET own == {d \in captures : d.series = s /\ d.ordinal = o} IN
      /\ attemptLedger[<<s, o>>].terminal = "completed" =>
           \E d \in own : d.gate /\ d.attempt = attemptLedger[<<s, o>>].attempt
      /\ attemptLedger[<<s, o>>].terminal = "failed" => \A d \in own : ~d.gate

\* No series qualifies by selection: each of its repeats is the only one that was ever
\* paid for, none is recorded as failed, none approves a case it must not, and every case
\* is approved by all repeats or by none.
QualifiedWithoutSelection ==
  \A docs \in SUBSET captures : Qualifies(docs) =>
    \A o \in Ordinals :
      \E d \in docs :
        /\ d.ordinal = o
        /\ attemptLedger[<<corpusLock.series, o>>].terminal # "failed"
        /\ \A p \in paid : p.series = corpusLock.series /\ p.ordinal = o => p.attempt = d.attempt
        /\ \A i \in DOMAIN Cases : d.rows[i].verdict = "approve" =>
             /\ Expected[Cases[i]] = "approve"
             /\ \A e \in docs : e.rows[i].verdict = "approve"

\* What the ledger and the captures say of a series is true of what was paid for.
SeriesIsTrue ==
  /\ RepeatPaidOnce
  /\ CaptureIsOneMeasurement
  /\ LedgerIsTrue
  /\ QualifiedWithoutSelection

\* The README of the evaluation: failures before a complete capture leave a terminal failure
\* record in the ledger of their ordinal.
FailureIsRecorded ==
  \A r \in Runs :
    run[r].pc = "failed" /\ attemptLedger[Key(r)].attempt = run[r].attempt
      => attemptLedger[Key(r)].terminal # None
=============================================================================

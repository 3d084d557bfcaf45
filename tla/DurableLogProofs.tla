-------------------------- MODULE DurableLogProofs --------------------------
(***************************************************************************)
(* Theorems about the two files that are only appended to: the feedback    *)
(* log (FeedbackLog), for every number of processes, ids, files and        *)
(* commands, and the private receipt journal (ReceiptJournal), for every   *)
(* number of threads, calls and records.                                   *)
(*                                                                         *)
(* The log: whoever is past the lock holds it, so that what was decided    *)
(* about the lines is still true when they are written; a log is decided   *)
(* about only when it has no torn line, so that a torn one is the last;    *)
(* and what a crash leaves is a prefix of what was there.                  *)
(*                                                                         *)
(* The journal: an event is in it only while its writer holds the lock or  *)
(* after it was synced; so what a crash leaves, when it can be read at     *)
(* all, has the confirmed events and all that a reading of the file could  *)
(* trust.                                                                  *)
(***************************************************************************)
EXTENDS FeedbackLog, ReceiptJournal, TLAPS

-----------------------------------------------------------------------------
(* Sequences.                                                              *)

LEMMA RangeOf ==
  ASSUME NEW S, NEW s \in Seq(S), NEW e
  PROVE  e \in Range(s) <=> \E i \in 1..Len(s) : s[i] = e
BY DEF Range

LEMMA RangeAppend ==
  ASSUME NEW S, NEW s \in Seq(S), NEW e \in S
  PROVE  /\ Append(s, e) \in Seq(S) /\ Len(Append(s, e)) = Len(s) + 1
         /\ Append(s, e)[Len(s) + 1] = e
         /\ \A i \in 1..Len(s) : Append(s, e)[i] = s[i]
         /\ Range(Append(s, e)) = Range(s) \cup {e}
<1>1. /\ Append(s, e) \in Seq(S) /\ Len(Append(s, e)) = Len(s) + 1
      /\ Append(s, e)[Len(s) + 1] = e
      /\ \A i \in 1..Len(s) : Append(s, e)[i] = s[i]
      /\ Len(s) \in Nat
  OBVIOUS
<1>2. ASSUME NEW x PROVE x \in Range(Append(s, e)) <=> x \in Range(s) \/ x = e
  <2>1. x \in Range(Append(s, e)) <=> \E i \in 1..Len(Append(s, e)) : Append(s, e)[i] = x
    BY <1>1, RangeOf
  <2>2. x \in Range(s) <=> \E i \in 1..Len(s) : s[i] = x
    BY RangeOf
  <2>3. QED
    BY <1>1, <2>1, <2>2
<1>3. QED
  BY <1>1, <1>2

-----------------------------------------------------------------------------
(* The feedback log.                                                       *)

-----------------------------------------------------------------------------
(* The lines of a file.                                                    *)

LogLines == Seq(Events \cup {Torn})

ReviewOf(e) == [kind |-> "review", review |-> e.review]

\* EventsUnique and TornIsLast of one file, without SubSeq.
ReviewedFirst(s) ==
  \A i \in 1 .. Len(s) : s[i] # Torn => \E j \in 1 .. i : s[j] = ReviewOf(s[i])
OncePerKind(s) ==
  \A i, j \in 1 .. Len(s) :
    /\ i < j /\ Torn \notin {s[i], s[j]} /\ s[i].review = s[j].review
    => s[i].kind = "review" /\ s[j].kind # "review"
TornLast(s) == \A i \in 1 .. Len(s) : s[i] = Torn => i = Len(s)

Orderly(s) == ReviewedFirst(s) /\ OncePerKind(s) /\ TornLast(s)

\* What is known of a log an event may be appended to.
Accepts(s, e) ==
  /\ Torn \notin Range(s)
  /\ IF e.kind = "review" THEN ~Reviewed(s, e.review)
                          ELSE Reviewed(s, e.review) /\ ~Acted(s, e.review)

Prefix(d, s) == Len(d) <= Len(s) /\ \A i \in 1 .. Len(d) : d[i] = s[i]

\* A torn line or an accepted event leaves the file orderly.
LEMMA AppendOrderly ==
  ASSUME FeedbackAssumption,
         NEW s \in LogLines, Orderly(s), Torn \notin Range(s),
         NEW e \in Events \cup {Torn}, e # Torn => Accepts(s, e)
  PROVE  Orderly(Append(s, e))
<1> DEFINE t == Append(s, e)
<1>1. /\ t \in LogLines /\ Len(t) = Len(s) + 1 /\ t[Len(s) + 1] = e
      /\ \A i \in 1 .. Len(s) : t[i] = s[i] /\ s[i] \in Events
      /\ Len(s) \in Nat
  BY RangeOf DEF LogLines
<1>2. \A i \in 1 .. Len(s) : s[i] # Torn
  BY RangeOf DEF LogLines
<1>3. ASSUME e # Torn
      PROVE  /\ e.kind = "review" => \A i \in 1 .. Len(s) : s[i] # ReviewOf(e)
             /\ e.kind # "review" =>
                  /\ \E i \in 1 .. Len(s) : s[i] = ReviewOf(e)
                  /\ \A i \in 1 .. Len(s) : s[i].kind # "review" => s[i].review # e.review
  <2>1. e \in Events /\ Accepts(s, e)
    BY <1>3
  <2>2. CASE e.kind = "review"
    BY <2>1, <2>2, RangeOf DEF Accepts, Reviewed, ReviewOf, LogLines
  <2>3. CASE e.kind # "review"
    <3>1. \E i \in 1 .. Len(s) : s[i] = ReviewOf(e)
      BY <2>1, <2>3, RangeOf DEF Accepts, Reviewed, ReviewOf, LogLines
    <3>2. ASSUME NEW i \in 1 .. Len(s), s[i].kind # "review", s[i].review = e.review
          PROVE  FALSE
      <4>1. s[i] = [kind |-> s[i].kind, review |-> e.review] /\ s[i].kind \in Kinds \ {"review"}
        BY <1>1, <3>2 DEF Events
      <4>2. Acted(s, e.review)
        BY <4>1, RangeOf DEF Acted, LogLines
      <4>3. QED
        BY <4>2, <2>1, <2>3 DEF Accepts
    <3>3. QED
      BY <2>3, <3>1, <3>2
  <2>4. QED
    BY <2>2, <2>3
<1>4. ReviewedFirst(t)
  <2> SUFFICES ASSUME NEW i \in 1 .. Len(t), t[i] # Torn
               PROVE  \E j \in 1 .. i : t[j] = ReviewOf(t[i])
    BY DEF ReviewedFirst
  <2>1. CASE i <= Len(s)
    <3>1. PICK j \in 1 .. i : s[j] = ReviewOf(s[i])
      BY <1>1, <1>2, <2>1 DEF Orderly, ReviewedFirst
    <3>2. QED
      BY <1>1, <2>1, <3>1
  <2>2. CASE i = Len(s) + 1
    <3>1. CASE e.kind = "review"
      <4>1. e = ReviewOf(e)
        BY <1>1, <2>2, <3>1 DEF Events, ReviewOf
      <4>2. QED
        BY <1>1, <2>2, <4>1
    <3>2. CASE e.kind # "review"
      <4>1. PICK j \in 1 .. Len(s) : s[j] = ReviewOf(e)
        BY <1>1, <1>3, <2>2, <3>2
      <4>2. QED
        BY <1>1, <2>2, <4>1
    <3>3. QED
      BY <3>1, <3>2
  <2>3. QED
    BY <1>1, <2>1, <2>2
<1>5. OncePerKind(t)
  <2> SUFFICES ASSUME NEW i \in 1 .. Len(t), NEW j \in 1 .. Len(t), i < j,
                      t[i] # Torn, t[j] # Torn, t[i].review = t[j].review
               PROVE  t[i].kind = "review" /\ t[j].kind # "review"
    BY DEF OncePerKind
  <2>1. CASE j <= Len(s)
    <3>1. i \in 1 .. Len(s) /\ j \in 1 .. Len(s) /\ t[i] = s[i] /\ t[j] = s[j]
      BY <1>1, <2>1
    <3>2. QED
      BY <1>2, <3>1 DEF Orderly, OncePerKind
  <2>2. CASE j = Len(s) + 1
    <3>1. i \in 1 .. Len(s) /\ t[i] = s[i] /\ t[j] = e /\ e # Torn
      BY <1>1, <2>2
    <3>2. e.kind # "review" => s[i].kind = "review"
      BY <1>3, <3>1
    <3>3. ASSUME e.kind = "review" PROVE FALSE
      <4>1. PICK k \in 1 .. i : s[k] = ReviewOf(s[i])
        BY <1>2, <3>1 DEF Orderly, ReviewedFirst
      <4>2. s[k] = ReviewOf(e) /\ k \in 1 .. Len(s)
        BY <1>1, <3>1, <4>1 DEF ReviewOf
      <4>3. QED
        BY <1>3, <3>1, <3>3, <4>2
    <3>4. QED
      BY <3>1, <3>2, <3>3
  <2>3. QED
    BY <1>1, <2>1, <2>2
<1>6. TornLast(t)
  BY <1>1, <1>2 DEF TornLast
<1>7. QED
  BY <1>4, <1>5, <1>6 DEF Orderly

\* A prefix of an orderly file is orderly, and has no torn line when it is not all of it.
LEMMA PrefixOrderly ==
  ASSUME NEW s \in LogLines, NEW d \in LogLines, Orderly(s), Prefix(d, s)
  PROVE  Orderly(d) /\ (d # s => Torn \notin Range(d))
<1>1. Len(d) \in Nat /\ Len(s) \in Nat /\ Len(d) <= Len(s)
  BY DEF LogLines, Prefix
<1>2. \A i \in 1 .. Len(d) : d[i] = s[i] /\ i \in 1 .. Len(s)
  BY <1>1 DEF Prefix
<1>3. ReviewedFirst(d)
  <2> SUFFICES ASSUME NEW i \in 1 .. Len(d), d[i] # Torn
               PROVE  \E j \in 1 .. i : d[j] = ReviewOf(d[i])
    BY DEF ReviewedFirst
  <2>1. PICK j \in 1 .. i : s[j] = ReviewOf(s[i])
    BY <1>2 DEF Orderly, ReviewedFirst
  <2>2. j \in 1 .. Len(d)
    BY <1>1
  <2>3. QED
    BY <1>2, <2>1, <2>2
<1>4. OncePerKind(d)
  BY <1>2 DEF Orderly, OncePerKind
<1>5. TornLast(d)
  BY <1>1, <1>2 DEF Orderly, TornLast
<1>6. ASSUME d # s, Torn \in Range(d) PROVE FALSE
  <2>1. PICK i \in 1 .. Len(d) : d[i] = Torn
    BY <1>6, RangeOf DEF LogLines
  <2>2. Len(d) = Len(s)
    BY <1>1, <1>2, <2>1 DEF Orderly, TornLast
  <2>3. d = s
    BY <1>2, <2>2 DEF LogLines
  <2>4. QED
    BY <1>6, <2>3
<1>7. QED
  BY <1>3, <1>4, <1>5, <1>6 DEF Orderly

LEMMA PrefixRange ==
  ASSUME NEW s \in LogLines, NEW d \in LogLines, Prefix(d, s)
  PROVE  Range(d) \subseteq Range(s)
<1>1. Len(d) \in Nat /\ Len(s) \in Nat /\ Len(d) <= Len(s)
  BY DEF LogLines, Prefix
<1>2. QED
  BY <1>1, RangeOf DEF LogLines, Prefix

-----------------------------------------------------------------------------
(* The inductive invariant.                                                *)

Steps == {"idle", "open", "wait", "decide", "write", "sync", "ack", "select", "fill"}
Locked == {"decide", "write", "sync", "ack"}

CommandOK(c) ==
  /\ c \in [kind : Kinds \cup {None}, review : ReviewIds \cup {None},
            wants : Precedents \cup {None}, fd : Files \cup {None}, step : Steps]
  /\ c.step # "idle" => c.kind \in Kinds /\ c.review \in ReviewIds
  /\ c.step \notin {"idle", "open"} => c.fd \in Files
  /\ c.step # "idle" /\ c.wants # None => c.kind = "override"

TypeOK ==
  /\ file \in [Files -> LogLines] /\ durable \in [Files -> LogLines]
  /\ named \in Files \cup {None}
  /\ holder \in [Files -> Processes \cup {None}]
  /\ DOMAIN proc = Processes /\ \A p \in Processes : CommandOK(proc[p])
  /\ acked \subseteq Files \X Events
  /\ precedent \in [Precedents -> ReviewIds \cup {None, Torn}]

FilesOrderly == \A f \in Files : Orderly(file[f]) /\ Prefix(durable[f], file[f])

\* Whoever is past the lock holds it, and what it decided or wrote is still so; and a
\* precedent under way is of an override that was confirmed.
EntryOK(p) ==
  /\ proc[p].step \in Locked => holder[proc[p].fd] = p
  /\ proc[p].step = "write" => Accepts(file[proc[p].fd], Event(p))
  /\ proc[p].step = "sync" => Event(p) \in Range(file[proc[p].fd])
  /\ proc[p].step = "ack" => Event(p) \in Range(durable[proc[p].fd])
  /\ proc[p].step \in {"select", "fill"} =>
       /\ <<proc[p].fd, Event(p)>> \in acked /\ proc[p].kind = "override"
       /\ proc[p].wants \in Precedents

EntriesOK == \A p \in Processes : EntryOK(p)

LogInv == TypeOK /\ FilesOrderly /\ EntriesOK /\ AcknowledgedStays /\ PrecedentIsDecided

-----------------------------------------------------------------------------
(* What a step leaves alone.                                               *)

\* A command keeps its part while others neither take its lock nor write to its file.
LEMMA CommandKept ==
  ASSUME NEW q \in Processes, CommandOK(proc[q]), EntryOK(q), proc'[q] = proc[q],
         acked \subseteq acked',
         \A f \in Files : holder[f] = q => holder'[f] = q /\ file'[f] = file[f],
         \A f \in Files : Range(durable[f]) \subseteq Range(durable'[f])
  PROVE  EntryOK(q)'
<1>1. proc[q].step \in Locked \cup {"select", "fill"} => proc[q].fd \in Files
  BY DEF CommandOK, Locked
<1>2. Event(q)' = Event(q)
  BY DEF Event
<1>3. QED
  BY <1>1, <1>2 DEF EntryOK, Locked

\* The command of p is replaced by c.
LEMMA ProcUpdate ==
  ASSUME TypeOK, NEW p \in Processes, NEW c, CommandOK(c), proc' = [proc EXCEPT ![p] = c]
  PROVE  /\ proc'[p] = c
         /\ \A q \in Processes \ {p} : proc'[q] = proc[q]
         /\ DOMAIN proc' = Processes /\ \A q \in Processes : CommandOK(proc'[q])
BY DEF TypeOK

LEMMA IdleOK == CommandOK(NoCommand)
BY DEF CommandOK, NoCommand, Steps

LEMMA ReleasedOK ==
  ASSUME TypeOK, NEW p \in Processes
  PROVE  /\ Released(p) \in [Files -> Processes \cup {None}]
         /\ \A q \in Processes \ {p} : \A f \in Files : holder[f] = q => Released(p)[f] = q
BY DEF TypeOK, Released

\* A step of p that leaves the files alone keeps the invariant if it keeps it for p.
LEMMA QuietStep ==
  ASSUME LogInv, NEW p \in Processes, TypeOK', UNCHANGED <<file, durable>>,
         \A q \in Processes \ {p} : proc'[q] = proc[q],
         \A q \in Processes \ {p} : \A f \in Files : holder[f] = q => holder'[f] = q,
         acked \subseteq acked', EntryOK(p)', AcknowledgedStays', PrecedentIsDecided'
  PROVE  LogInv'
<1>1. FilesOrderly'
  BY DEF LogInv, FilesOrderly
<1>2. EntriesOK'
  BY CommandKept DEF LogInv, EntriesOK, TypeOK
<1>3. QED
  BY <1>1, <1>2 DEF LogInv

\* Confirmed events and precedents are kept when nothing is taken from either.
LEMMA NothingTaken ==
  ASSUME LogInv, UNCHANGED <<acked, precedent>>,
         \A f \in Files : Range(durable[f]) \subseteq Range(durable'[f])
  PROVE  AcknowledgedStays' /\ PrecedentIsDecided'
BY DEF LogInv, AcknowledgedStays, PrecedentIsDecided, TypeOK

\* A command ends and leaves the files alone.
LEMMA EndStep ==
  ASSUME FeedbackAssumption, LogInv, NEW p \in Processes, End(p),
         UNCHANGED <<file, durable, named, acked, precedent>>
  PROVE  LogInv'
<1>1. TypeOK'
  BY ProcUpdate, IdleOK, ReleasedOK DEF LogInv, TypeOK, End
<1>2. proc'[p] = NoCommand /\ \A q \in Processes \ {p} : proc'[q] = proc[q]
  BY ProcUpdate, IdleOK DEF LogInv, End
<1>3. EntryOK(p)'
  BY <1>2 DEF EntryOK, NoCommand, Locked
<1>4. QED
  BY <1>1, <1>2, <1>3, ReleasedOK, NothingTaken, QuietStep DEF LogInv, End

-----------------------------------------------------------------------------
(* The steps of a command that leave the files alone.                      *)

LEMMA BeginStep ==
  ASSUME FeedbackAssumption, LogInv, NEW p \in Processes, Begin(p)
  PROVE  LogInv'
<1>1. PICK k \in Kinds, r \in ReviewIds, x \in Precedents \cup {None} :
        /\ (x # None) = (k = "override")
        /\ proc' = [proc EXCEPT ![p] = [kind |-> k, review |-> r, wants |-> x, fd |-> None,
                                        step |-> "open"]]
  BY DEF Begin
<1> DEFINE c == [kind |-> k, review |-> r, wants |-> x, fd |-> None, step |-> "open"]
<1>2. CommandOK(c)
  BY <1>1 DEF CommandOK, Steps
<1>3. proc'[p] = c /\ \A q \in Processes \ {p} : proc'[q] = proc[q]
  BY <1>1, <1>2, ProcUpdate DEF LogInv
<1>4. TypeOK'
  BY <1>1, <1>2, ProcUpdate DEF LogInv, TypeOK, Begin
<1>5. EntryOK(p)'
  BY <1>3 DEF EntryOK, Locked
<1>6. QED
  BY <1>3, <1>4, <1>5, NothingTaken, QuietStep DEF LogInv, Begin

LEMMA OpenStep ==
  ASSUME FeedbackAssumption, LogInv, NEW p \in Processes, Open(p)
  PROVE  LogInv'
<1>1. PICK f \in Files : /\ proc' = [proc EXCEPT ![p].fd = f, ![p].step = "wait"]
                         /\ named' = f
  BY DEF Open, LogInv, TypeOK
<1> DEFINE c == [proc[p] EXCEPT !.fd = f, !.step = "wait"]
<1>2. CommandOK(proc[p]) /\ proc[p].step = "open"
  BY DEF LogInv, TypeOK, Open
<1>3. CommandOK(c)
  BY <1>2 DEF CommandOK, Steps
<1>4. proc' = [proc EXCEPT ![p] = c]
  BY <1>1 DEF LogInv, TypeOK
<1>5. proc'[p] = c /\ \A q \in Processes \ {p} : proc'[q] = proc[q]
  BY <1>3, <1>4, ProcUpdate DEF LogInv
<1>6. TypeOK'
  BY <1>1, <1>3, <1>4, ProcUpdate DEF LogInv, TypeOK, Open
<1>7. EntryOK(p)'
  <2>1. c.step = "wait"
    BY <1>2 DEF CommandOK
  <2>2. QED
    BY <1>5, <2>1 DEF EntryOK, Locked
<1>8. QED
  BY <1>5, <1>6, <1>7, NothingTaken, QuietStep DEF LogInv, Open

LEMMA AcquireStep ==
  ASSUME FeedbackAssumption, LogInv, NEW p \in Processes, Acquire(p)
  PROVE  LogInv'
<1>1. CASE ~SameFile(p)
  BY <1>1, EndStep DEF Acquire
<1>2. CASE SameFile(p)
  <2> DEFINE c == [proc[p] EXCEPT !.step = "decide"]
  <2>1. CommandOK(proc[p]) /\ proc[p].step = "wait" /\ proc[p].fd \in Files
    BY DEF LogInv, TypeOK, Acquire, CommandOK
  <2>2. CommandOK(c) /\ c.step = "decide" /\ c.fd = proc[p].fd
    BY <2>1 DEF CommandOK, Steps
  <2>3. proc' = [proc EXCEPT ![p] = c] /\ holder' = [holder EXCEPT ![proc[p].fd] = p]
    BY <1>2 DEF LogInv, TypeOK, Acquire
  <2>4. proc'[p] = c /\ \A q \in Processes \ {p} : proc'[q] = proc[q]
    BY <2>2, <2>3, ProcUpdate DEF LogInv
  <2>5. /\ holder' \in [Files -> Processes \cup {None}] /\ holder'[proc[p].fd] = p
        /\ \A q \in Processes \ {p} : \A f \in Files : holder[f] = q => holder'[f] = q
    BY <2>1, <2>3 DEF LogInv, TypeOK, Acquire, MayLock, FeedbackAssumption
  <2>6. TypeOK'
    BY <2>2, <2>3, <2>5, ProcUpdate DEF LogInv, TypeOK, Acquire
  <2>7. EntryOK(p)'
    BY <2>2, <2>4, <2>5 DEF EntryOK, Locked
  <2>8. QED
    BY <2>4, <2>5, <2>6, <2>7, NothingTaken, QuietStep DEF LogInv, Acquire
<1>3. QED
  BY <1>1, <1>2

LEMMA DecideStep ==
  ASSUME FeedbackAssumption, LogInv, NEW p \in Processes, Decide(p)
  PROVE  LogInv'
<1> DEFINE lines == file[proc[p].fd]
           r == proc[p].review
           good == /\ SameFile(p) /\ Readable(lines) /\ Len(lines) < MaxRecords
                   /\ IF proc[p].kind = "review" THEN ~Reviewed(lines, r)
                                                 ELSE Reviewed(lines, r) /\ ~Acted(lines, r)
<1>1. CASE ~good
  BY <1>1, EndStep DEF Decide
<1>2. CASE good
  <2> DEFINE c == [proc[p] EXCEPT !.step = "write"]
  <2>1. CommandOK(proc[p]) /\ proc[p].step = "decide" /\ proc[p].fd \in Files
    BY DEF LogInv, TypeOK, Decide, CommandOK
  <2>2. CommandOK(c) /\ c.step = "write" /\ c.fd = proc[p].fd
        /\ c.kind = proc[p].kind /\ c.review = proc[p].review
    BY <2>1 DEF CommandOK, Steps
  <2>3. proc' = [proc EXCEPT ![p] = c] /\ UNCHANGED holder
    BY <1>2 DEF LogInv, TypeOK, Decide
  <2>4. proc'[p] = c /\ \A q \in Processes \ {p} : proc'[q] = proc[q]
    BY <2>2, <2>3, ProcUpdate DEF LogInv
  <2>5. TypeOK'
    BY <2>2, <2>3, ProcUpdate DEF LogInv, TypeOK, Decide
  <2>6. holder[proc[p].fd] = p
    BY <2>1 DEF LogInv, EntriesOK, EntryOK, Locked
  <2>7. Accepts(lines, Event(p))
    BY <1>2 DEF Accepts, Event, Readable
  <2>8. EntryOK(p)'
    BY <2>2, <2>3, <2>4, <2>6, <2>7 DEF EntryOK, Locked, Decide, Event
  <2>9. QED
    BY <2>3, <2>4, <2>5, <2>8, NothingTaken, QuietStep DEF LogInv, Decide
<1>3. QED
  BY <1>1, <1>2

LEMMA AcknowledgeStep ==
  ASSUME FeedbackAssumption, LogInv, NEW p \in Processes, Acknowledge(p)
  PROVE  LogInv'
<1>1. CommandOK(proc[p]) /\ proc[p].step = "ack" /\ proc[p].fd \in Files
  BY DEF LogInv, TypeOK, Acknowledge, CommandOK
<1>2. Event(p) \in Events /\ Event(p) \in Range(durable[proc[p].fd])
  BY <1>1 DEF LogInv, EntriesOK, EntryOK, CommandOK, Event, Events
<1>3. /\ acked' \subseteq Files \X Events /\ acked \subseteq acked'
      /\ acked' \subseteq acked \cup {<<proc[p].fd, Event(p)>>}
  BY <1>1, <1>2 DEF LogInv, TypeOK, Acknowledge
<1>4. AcknowledgedStays'
  BY <1>2, <1>3 DEF LogInv, AcknowledgedStays, Acknowledge
<1>5. PrecedentIsDecided'
  BY <1>3 DEF LogInv, PrecedentIsDecided, Acknowledge
<1> DEFINE onward == SameFile(p) /\ proc[p].wants # None
           c == IF onward THEN [proc[p] EXCEPT !.step = "select"] ELSE NoCommand
<1>6. CommandOK(c)
  BY <1>1, IdleOK DEF CommandOK, Steps
<1>7. proc' = [proc EXCEPT ![p] = c]
  BY DEF LogInv, TypeOK, Acknowledge
<1>8. proc'[p] = c /\ \A q \in Processes \ {p} : proc'[q] = proc[q]
  BY <1>6, <1>7, ProcUpdate DEF LogInv
<1>9. TypeOK'
  BY <1>3, <1>6, <1>7, ProcUpdate, ReleasedOK DEF LogInv, TypeOK, Acknowledge
<1>10. EntryOK(p)'
  <2>1. CASE ~onward
    BY <1>8, <2>1 DEF EntryOK, NoCommand, Locked
  <2>2. CASE onward
    <3>1. /\ c.step = "select" /\ c.fd = proc[p].fd /\ c.kind = proc[p].kind
          /\ c.review = proc[p].review /\ c.wants = proc[p].wants
      BY <1>1, <2>2 DEF CommandOK
    <3>2. proc[p].kind = "override" /\ proc[p].wants \in Precedents
      BY <1>1, <2>2 DEF CommandOK
    <3>3. Event(p)' = Event(p)
      BY <1>8, <3>1 DEF Event
    <3>4. <<proc[p].fd, Event(p)>> \in acked'
      BY <2>2 DEF Acknowledge
    <3>5. QED
      BY <1>8, <3>1, <3>2, <3>3, <3>4 DEF EntryOK, Locked
  <2>3. QED
    BY <2>1, <2>2
<1>11. QED
  BY <1>3, <1>4, <1>5, <1>8, <1>9, <1>10, ReleasedOK, QuietStep DEF LogInv, Acknowledge

LEMMA CreateStep ==
  ASSUME FeedbackAssumption, LogInv, NEW p \in Processes, CreatePrecedent(p)
  PROVE  LogInv'
<1>1. CASE proc' = [proc EXCEPT ![p] = NoCommand] /\ UNCHANGED precedent
  <2>1. proc'[p] = NoCommand /\ \A q \in Processes \ {p} : proc'[q] = proc[q]
    BY <1>1, ProcUpdate, IdleOK DEF LogInv
  <2>2. TypeOK'
    BY <1>1, ProcUpdate, IdleOK DEF LogInv, TypeOK, CreatePrecedent
  <2>3. EntryOK(p)'
    BY <2>1 DEF EntryOK, NoCommand, Locked
  <2>4. QED
    BY <1>1, <2>1, <2>2, <2>3, NothingTaken, QuietStep DEF LogInv, CreatePrecedent
<1>2. CASE /\ precedent' = [precedent EXCEPT ![proc[p].wants] = Torn]
           /\ proc' = [proc EXCEPT ![p].step = "fill"]
  <2> DEFINE c == [proc[p] EXCEPT !.step = "fill"]
  <2>1. CommandOK(proc[p]) /\ proc[p].step = "select"
    BY DEF LogInv, TypeOK, CreatePrecedent
  <2>2. /\ CommandOK(c) /\ c.step = "fill" /\ c.fd = proc[p].fd /\ c.kind = proc[p].kind
        /\ c.review = proc[p].review /\ c.wants = proc[p].wants
    BY <2>1 DEF CommandOK, Steps
  <2>3. proc' = [proc EXCEPT ![p] = c]
    BY <1>2 DEF LogInv, TypeOK
  <2>4. proc'[p] = c /\ \A q \in Processes \ {p} : proc'[q] = proc[q]
    BY <2>2, <2>3, ProcUpdate DEF LogInv
  <2>5. TypeOK'
    BY <1>2, <2>2, <2>3, ProcUpdate DEF LogInv, TypeOK, CreatePrecedent
  <2>6. EntryOK(p)'
    <3>1. Event(p)' = Event(p)
      BY <2>2, <2>4 DEF Event
    <3>2. QED
      BY <2>1, <2>2, <2>4, <3>1 DEF LogInv, EntriesOK, EntryOK, Locked, CreatePrecedent
  <2>7. AcknowledgedStays'
    BY DEF LogInv, AcknowledgedStays, CreatePrecedent
  <2>8. PrecedentIsDecided'
    BY <1>2 DEF LogInv, TypeOK, PrecedentIsDecided, CreatePrecedent, FeedbackAssumption
  <2>9. QED
    BY <2>4, <2>5, <2>6, <2>7, <2>8, QuietStep DEF LogInv, CreatePrecedent
<1>3. QED
  BY <1>1, <1>2 DEF CreatePrecedent

LEMMA FillStep ==
  ASSUME FeedbackAssumption, LogInv, NEW p \in Processes, Fill(p)
  PROVE  LogInv'
<1>1. PICK x \in {None, proc[p].review} :
        precedent' = [precedent EXCEPT ![proc[p].wants] = x]
  BY DEF Fill
<1>2. /\ CommandOK(proc[p]) /\ proc[p].step = "fill" /\ proc[p].fd \in Files
      /\ proc[p].review \in ReviewIds
  BY DEF LogInv, TypeOK, Fill, CommandOK
<1>3. <<proc[p].fd, [kind |-> "override", review |-> proc[p].review]>> \in acked
  BY <1>2 DEF LogInv, EntriesOK, EntryOK, Event
<1>4. proc'[p] = NoCommand /\ \A q \in Processes \ {p} : proc'[q] = proc[q]
  BY ProcUpdate, IdleOK DEF LogInv, Fill
<1>5. TypeOK'
  BY <1>1, <1>2, ProcUpdate, IdleOK DEF LogInv, TypeOK, Fill
<1>6. EntryOK(p)'
  BY <1>4 DEF EntryOK, NoCommand, Locked
<1>7. AcknowledgedStays'
  BY DEF LogInv, AcknowledgedStays, Fill
<1>8. PrecedentIsDecided'
  <2> SUFFICES ASSUME NEW y \in Precedents, precedent'[y] \in ReviewIds
               PROVE  \E f \in Files :
                        <<f, [kind |-> "override", review |-> precedent'[y]]>> \in acked
    BY DEF PrecedentIsDecided, Fill
  <2>1. CASE y = proc[p].wants
    BY <1>1, <1>2, <1>3, <2>1 DEF LogInv, TypeOK, FeedbackAssumption
  <2>2. CASE y # proc[p].wants
    BY <1>1, <2>2 DEF LogInv, TypeOK, PrecedentIsDecided
  <2>3. QED
    BY <2>1, <2>2
<1>9. QED
  BY <1>4, <1>5, <1>6, <1>7, <1>8, QuietStep DEF LogInv, Fill

-----------------------------------------------------------------------------
(* The steps that write.                                                   *)

\* A line is written under the lock: a torn one, or the event that was decided.
LEMMA LineWritten ==
  ASSUME FeedbackAssumption, LogInv, NEW p \in Processes, proc[p].step = "write",
         NEW e, e = Torn \/ e = Event(p),
         file' = [file EXCEPT ![proc[p].fd] = Append(@, e)], UNCHANGED durable
  PROVE  /\ proc[p].fd \in Files /\ holder[proc[p].fd] = p
         /\ file' \in [Files -> LogLines] /\ FilesOrderly'
         /\ e \in Range(file'[proc[p].fd])
         /\ \A f \in Files \ {proc[p].fd} : file'[f] = file[f]
<1> DEFINE g == proc[p].fd
<1>1. g \in Files /\ holder[g] = p /\ Accepts(file[g], Event(p)) /\ Event(p) \in Events
  BY DEF LogInv, TypeOK, EntriesOK, EntryOK, CommandOK, Locked, Event, Events
<1>2. file[g] \in LogLines /\ Orderly(file[g]) /\ Prefix(durable[g], file[g]) /\ durable[g] \in LogLines
  BY <1>1 DEF LogInv, TypeOK, FilesOrderly
<1>3. e \in Events \cup {Torn} /\ Torn \notin Range(file[g])
      /\ (e # Torn => Accepts(file[g], e))
  BY <1>1 DEF Accepts
<1>4. Append(file[g], e) \in LogLines /\ e \in Range(Append(file[g], e))
  BY <1>2, <1>3, RangeAppend DEF LogLines
<1>5. Orderly(Append(file[g], e))
  BY <1>2, <1>3, AppendOrderly
<1>6. Prefix(durable[g], Append(file[g], e))
  BY <1>2, <1>3 DEF Prefix, LogLines
<1>7. file'[g] = Append(file[g], e) /\ \A f \in Files \ {g} : file'[f] = file[f]
  BY <1>1 DEF LogInv, TypeOK
<1>8. file' \in [Files -> LogLines]
  BY <1>1, <1>4 DEF LogInv, TypeOK
<1>9. FilesOrderly'
  BY <1>5, <1>6, <1>7 DEF LogInv, FilesOrderly
<1>10. QED
  BY <1>1, <1>4, <1>7, <1>8, <1>9

LEMMA LogWriteStep ==
  ASSUME FeedbackAssumption, LogInv, NEW p \in Processes, Write(p)
  PROVE  LogInv'
<1> DEFINE c == [proc[p] EXCEPT !.step = "sync"]
<1>1. /\ proc[p].fd \in Files /\ holder[proc[p].fd] = p
      /\ file' \in [Files -> LogLines] /\ FilesOrderly'
      /\ Event(p) \in Range(file'[proc[p].fd])
      /\ \A f \in Files \ {proc[p].fd} : file'[f] = file[f]
  BY LineWritten DEF Write
<1>2. CommandOK(proc[p]) /\ proc[p].step = "write"
  BY DEF LogInv, TypeOK, Write
<1>3. /\ CommandOK(c) /\ c.step = "sync" /\ c.fd = proc[p].fd /\ c.kind = proc[p].kind
      /\ c.review = proc[p].review
  BY <1>1, <1>2 DEF CommandOK, Steps
<1>4. proc' = [proc EXCEPT ![p] = c]
  BY DEF LogInv, TypeOK, Write
<1>5. proc'[p] = c /\ \A q \in Processes \ {p} : proc'[q] = proc[q]
  BY <1>3, <1>4, ProcUpdate DEF LogInv
<1>6. TypeOK'
  BY <1>1, <1>3, <1>4, ProcUpdate DEF LogInv, TypeOK, Write
<1>7. EntryOK(p)'
  <2>1. Event(p)' = Event(p)
    BY <1>3, <1>5 DEF Event
  <2>2. QED
    BY <1>1, <1>3, <1>5, <2>1 DEF EntryOK, Locked, Write
<1>8. ASSUME NEW q \in Processes \ {p} PROVE EntryOK(q)'
  <2>1. CommandOK(proc[q]) /\ EntryOK(q)
    BY DEF LogInv, TypeOK, EntriesOK
  <2>2. UNCHANGED <<durable, holder, acked>>
    BY DEF Write
  <2>3. QED
    BY <1>1, <1>5, <2>1, <2>2, CommandKept
<1>9. AcknowledgedStays' /\ PrecedentIsDecided'
  BY NothingTaken DEF Write
<1>10. QED
  BY <1>1, <1>6, <1>7, <1>8, <1>9 DEF LogInv, EntriesOK

\* A command ends after it wrote a torn line.
LEMMA TornStep ==
  ASSUME FeedbackAssumption, LogInv, NEW p \in Processes, proc[p].step = "write",
         file' = [file EXCEPT ![proc[p].fd] = Append(@, Torn)], End(p),
         UNCHANGED <<durable, named, acked, precedent>>
  PROVE  LogInv'
<1>1. /\ proc[p].fd \in Files /\ holder[proc[p].fd] = p
      /\ file' \in [Files -> LogLines] /\ FilesOrderly'
      /\ \A f \in Files \ {proc[p].fd} : file'[f] = file[f]
  BY LineWritten
<1>2. TypeOK'
  BY <1>1, ProcUpdate, IdleOK, ReleasedOK DEF LogInv, TypeOK, End
<1>3. proc'[p] = NoCommand /\ \A q \in Processes \ {p} : proc'[q] = proc[q]
  BY ProcUpdate, IdleOK DEF LogInv, End
<1>4. EntryOK(p)'
  BY <1>3 DEF EntryOK, NoCommand, Locked
<1>5. ASSUME NEW q \in Processes \ {p} PROVE EntryOK(q)'
  <2>1. CommandOK(proc[q]) /\ EntryOK(q)
    BY DEF LogInv, TypeOK, EntriesOK
  <2>2. \A f \in Files : holder[f] = q => holder'[f] = q /\ file'[f] = file[f]
    BY <1>1, ReleasedOK DEF LogInv, End
  <2>3. QED
    BY <1>3, <2>1, <2>2, CommandKept
<1>6. AcknowledgedStays' /\ PrecedentIsDecided'
  BY NothingTaken
<1>7. QED
  BY <1>1, <1>2, <1>4, <1>5, <1>6 DEF LogInv, EntriesOK

LEMMA LogSyncStep ==
  ASSUME FeedbackAssumption, LogInv, NEW p \in Processes, Sync(p)
  PROVE  LogInv'
<1> DEFINE c == [proc[p] EXCEPT !.step = "ack"]
           g == proc[p].fd
<1>1. CommandOK(proc[p]) /\ proc[p].step = "sync" /\ g \in Files
      /\ holder[g] = p /\ Event(p) \in Range(file[g])
  BY DEF LogInv, TypeOK, EntriesOK, EntryOK, CommandOK, Sync, Locked
<1>2. file[g] \in LogLines /\ durable[g] \in LogLines /\ Prefix(durable[g], file[g])
  BY <1>1 DEF LogInv, TypeOK, FilesOrderly
<1>3. /\ CommandOK(c) /\ c.step = "ack" /\ c.fd = g /\ c.kind = proc[p].kind
      /\ c.review = proc[p].review
  BY <1>1 DEF CommandOK, Steps
<1>4. proc' = [proc EXCEPT ![p] = c]
  BY DEF LogInv, TypeOK, Sync
<1>5. proc'[p] = c /\ \A q \in Processes \ {p} : proc'[q] = proc[q]
  BY <1>3, <1>4, ProcUpdate DEF LogInv
<1>6. /\ durable' \in [Files -> LogLines] /\ durable'[g] = file[g]
      /\ \A f \in Files \ {g} : durable'[f] = durable[f]
  BY <1>1, <1>2 DEF LogInv, TypeOK, Sync
<1>7. \A f \in Files : Range(durable[f]) \subseteq Range(durable'[f])
  BY <1>2, <1>6, PrefixRange
<1>8. TypeOK'
  BY <1>3, <1>4, <1>6, ProcUpdate DEF LogInv, TypeOK, Sync
<1>9. FilesOrderly'
  <2>1. Prefix(file[g], file[g])
    BY <1>2 DEF Prefix, LogLines
  <2>2. QED
    BY <1>6, <2>1 DEF LogInv, FilesOrderly, Sync
<1>10. EntryOK(p)'
  <2>1. Event(p)' = Event(p)
    BY <1>3, <1>5 DEF Event
  <2>2. QED
    BY <1>1, <1>3, <1>5, <1>6, <2>1 DEF EntryOK, Locked, Sync
<1>11. ASSUME NEW q \in Processes \ {p} PROVE EntryOK(q)'
  <2>1. CommandOK(proc[q]) /\ EntryOK(q)
    BY DEF LogInv, TypeOK, EntriesOK
  <2>2. UNCHANGED <<file, holder, acked>>
    BY DEF Sync
  <2>3. QED
    BY <1>5, <1>7, <2>1, <2>2, CommandKept
<1>12. AcknowledgedStays' /\ PrecedentIsDecided'
  BY <1>7, NothingTaken DEF Sync
<1>13. QED
  BY <1>8, <1>9, <1>10, <1>11, <1>12 DEF LogInv, EntriesOK

LEMMA AppendFailsStep ==
  ASSUME FeedbackAssumption, LogInv, NEW p \in Processes, AppendFails(p)
  PROVE  LogInv'
BY EndStep, TornStep DEF AppendFails

LEMMA KillStep ==
  ASSUME FeedbackAssumption, LogInv, NEW p \in Processes, Kill(p)
  PROVE  LogInv'
BY EndStep, TornStep DEF Kill

-----------------------------------------------------------------------------
(* Faults, and the owner of the directory.                                 *)

\* What a crash leaves of a file is an orderly file with all that was synced.
LEMMA CrashedFile ==
  ASSUME FeedbackAssumption, LogInv, NEW f \in Files, NEW g,
         \/ g \in {file[f], durable[f]}
         \/ file[f] # durable[f] /\ g = Append(durable[f], Torn)
  PROVE  /\ g \in LogLines /\ Orderly(g) /\ Prefix(g, g)
         /\ Range(durable[f]) \subseteq Range(g)
<1>1. /\ file[f] \in LogLines /\ durable[f] \in LogLines
      /\ Orderly(file[f]) /\ Prefix(durable[f], file[f])
  BY DEF LogInv, TypeOK, FilesOrderly
<1>2. g \in LogLines => Prefix(g, g)
  BY DEF Prefix, LogLines
<1>3. CASE g \in {file[f], durable[f]}
  BY <1>1, <1>2, <1>3, PrefixOrderly, PrefixRange
<1>4. CASE file[f] # durable[f] /\ g = Append(durable[f], Torn)
  <2>1. Orderly(durable[f]) /\ Torn \notin Range(durable[f])
    BY <1>1, <1>4, PrefixOrderly
  <2>2. Orderly(g)
    BY <1>1, <1>4, <2>1, AppendOrderly
  <2>3. g \in LogLines /\ Range(durable[f]) \subseteq Range(g)
    BY <1>1, <1>4, RangeAppend DEF LogLines
  <2>4. QED
    BY <1>2, <2>2, <2>3
<1>5. QED
  BY <1>3, <1>4

LEMMA ProcessStops ==
  ASSUME FeedbackAssumption, LogInv, Crash
  PROVE  LogInv'
<1>1. /\ DOMAIN file' = Files /\ file' = [f \in Files |-> file'[f]]
      /\ \A f \in Files :
           \/ file'[f] \in {file[f], durable[f]}
           \/ file[f] # durable[f] /\ file'[f] = Append(durable[f], Torn)
  BY DEF Crash
<1>2. \A f \in Files : /\ file'[f] \in LogLines /\ Orderly(file'[f]) /\ Prefix(file'[f], file'[f])
                       /\ Range(durable[f]) \subseteq Range(file'[f])
  BY <1>1, CrashedFile
<1>3. file' \in [Files -> LogLines] /\ durable' = file'
  BY <1>1, <1>2 DEF Crash
<1>4. DOMAIN proc' = Processes /\ \A p \in Processes : proc'[p] = NoCommand
  BY DEF Crash
<1>5. TypeOK'
  BY <1>3, <1>4, IdleOK DEF LogInv, TypeOK, Crash
<1>6. FilesOrderly'
  BY <1>2, <1>3 DEF FilesOrderly
<1>7. EntriesOK'
  BY <1>4 DEF EntriesOK, EntryOK, NoCommand, Locked
<1>8. AcknowledgedStays' /\ PrecedentIsDecided'
  BY <1>2, <1>3, NothingTaken DEF Crash
<1>9. QED
  BY <1>5, <1>6, <1>7, <1>8 DEF LogInv

LEMMA RotateStep ==
  ASSUME FeedbackAssumption, LogInv, Rotate
  PROVE  LogInv'
<1>1. TypeOK' /\ FilesOrderly' /\ AcknowledgedStays' /\ PrecedentIsDecided'
  BY DEF LogInv, TypeOK, FilesOrderly, AcknowledgedStays, PrecedentIsDecided, Rotate
<1>2. EntriesOK'
  BY DEF LogInv, EntriesOK, EntryOK, Event, Rotate
<1>3. QED
  BY <1>1, <1>2 DEF LogInv

-----------------------------------------------------------------------------
(* The theorems.                                                           *)

LEMMA InitLogInv == ASSUME FeedbackAssumption, LogInit PROVE LogInv
<1>1. << >> \in LogLines /\ Orderly(<< >>) /\ Prefix(<< >>, << >>)
  BY DEF LogLines, Orderly, ReviewedFirst, OncePerKind, TornLast, Prefix
<1>2. TypeOK
  BY <1>1, IdleOK DEF TypeOK, LogInit
<1>3. FilesOrderly
  BY <1>1 DEF FilesOrderly, LogInit
<1>4. EntriesOK
  BY DEF EntriesOK, EntryOK, NoCommand, Locked, LogInit
<1>5. AcknowledgedStays /\ PrecedentIsDecided
  BY DEF AcknowledgedStays, PrecedentIsDecided, LogInit, FeedbackAssumption
<1>6. QED
  BY <1>2, <1>3, <1>4, <1>5 DEF LogInv

LEMMA StepIInv == ASSUME FeedbackAssumption, LogInv, [LogNext]_logVars PROVE LogInv'
<1>1. CASE UNCHANGED logVars
  BY <1>1 DEF logVars, LogInv, TypeOK, FilesOrderly, EntriesOK, EntryOK, Event, AcknowledgedStays,
              PrecedentIsDecided
<1>2. ASSUME NEW p \in Processes,
             \/ Begin(p) \/ Open(p) \/ Acquire(p) \/ Decide(p) \/ Write(p) \/ Sync(p)
             \/ AppendFails(p) \/ Acknowledge(p) \/ CreatePrecedent(p) \/ Fill(p) \/ Kill(p)
      PROVE  LogInv'
  BY <1>2, BeginStep, OpenStep, AcquireStep, DecideStep, LogWriteStep, LogSyncStep, AppendFailsStep,
     AcknowledgeStep, CreateStep, FillStep, KillStep
<1>3. CASE Crash \/ Rotate
  BY <1>3, ProcessStops, RotateStep
<1>4. QED
  BY <1>1, <1>2, <1>3 DEF LogNext

\* The invariant holds in every behaviour: commands racing, failing or killed, crashes, and
\* a log that is moved away.
THEOREM LogInvHolds == ASSUME FeedbackAssumption PROVE LogSpec => []LogInv
<1>1. LogInit => LogInv
  BY InitLogInv
<1>2. LogInv /\ [LogNext]_logVars => LogInv'
  BY StepIInv
<1>3. QED
  BY <1>1, <1>2, PTL DEF LogSpec

\* An orderly file is what EventsUnique and TornIsLast say of it.
LEMMA OrderlyMeans == ASSUME TypeOK, FilesOrderly PROVE EventsUnique /\ TornIsLast
<1>1. ASSUME NEW f \in Files, NEW i \in 1 .. Len(file[f]), file[f][i] # Torn
      PROVE  Reviewed(SubSeq(file[f], 1, i), file[f][i].review)
  <2> DEFINE s == file[f]
             u == SubSeq(s, 1, i)
  <2>1. s \in LogLines /\ ReviewedFirst(s)
    BY DEF TypeOK, FilesOrderly, Orderly
  <2>2. u \in Seq(Events \cup {Torn}) /\ Len(u) = i /\ \A k \in 1 .. i : u[k] = s[k]
    BY <2>1 DEF LogLines
  <2>3. PICK j \in 1 .. i : s[j] = ReviewOf(s[i])
    BY <1>1, <2>1 DEF ReviewedFirst
  <2>4. ReviewOf(s[i]) \in Range(u)
    BY <2>2, <2>3, RangeOf
  <2>5. QED
    BY <2>4 DEF Reviewed, ReviewOf
<1>2. EventsUnique
  BY <1>1 DEF EventsUnique, FilesOrderly, Orderly, OncePerKind
<1>3. TornIsLast
  BY DEF TornIsLast, FilesOrderly, Orderly, TornLast
<1>4. QED
  BY <1>2, <1>3

\* One review and one action of an id, the action after its review, and nothing behind a
\* torn line (log_review and record_architect_action, with the strict reading under the lock).
THEOREM LogIsOrderly == ASSUME FeedbackAssumption PROVE LogSpec => [](EventsUnique /\ TornIsLast)
<1>1. LogInv => EventsUnique /\ TornIsLast
  BY OrderlyMeans DEF LogInv
<1>2. QED
  BY <1>1, LogInvHolds, PTL

\* What a command was told is recorded is on the disk for good, and a precedent is of an
\* override that was (_append_encoded_descriptor, and main of record_action.py).
THEOREM ConfirmedIsKept == ASSUME FeedbackAssumption PROVE LogSpec => [](AcknowledgedStays /\ PrecedentIsDecided)
<1>1. LogInv => AcknowledgedStays /\ PrecedentIsDecided
  BY DEF LogInv
<1>2. QED
  BY <1>1, LogInvHolds, PTL

\* All of it, over every race, failure, kill and crash.
THEOREM FeedbackKept == ASSUME FeedbackAssumption PROVE LogSpec => []FeedbackIsKept
BY LogIsOrderly, ConfirmedIsKept, PTL DEF FeedbackIsKept

-----------------------------------------------------------------------------
(* The private receipt journal.                                            *)

-----------------------------------------------------------------------------
(* The inductive invariant.                                                *)

EventIds == 1..MaxCalls
JournalLines    == Seq(EventIds \cup {Broken})
Calls    == [event : EventIds \cup {None}, step : {"idle", "ready", "locked", "written"}]

\* Only a line that is there is torn.
FileOK(f) ==
  /\ f \in [lines : JournalLines, torn : BOOLEAN]
  /\ f.torn => f.lines # <<>>

Types ==
  /\ FileOK(journalFile) /\ FileOK(onDisk)
  /\ journalLock \in Threads \cup {None}
  /\ calls \in [Threads -> Calls]
  /\ next \in 1..(MaxCalls + 1)
  /\ trace \in Seq(EventIds) /\ confirmed \in Seq(EventIds) /\ unsynced \subseteq EventIds
  /\ outcome \in {None, "trusted", "refused"}

Busy(c) == calls[c].step # "idle"

\* What was confirmed stands in its order, and all of it in lines that parse.
Ordered(lines, ak) ==
  \A i, j \in 1..Len(lines) : i < j /\ {lines[i], lines[j]} \subseteq Range(ak) =>
    \E m, n \in 1..Len(ak) : m < n /\ ak[m] = lines[i] /\ ak[n] = lines[j]

Confirms(lines, ak) ==
  /\ Ordered(lines, ak)
  /\ Broken \notin Range(lines) => Range(ak) \subseteq Range(lines)

Once(ak) == \A m, n \in 1..Len(ak) : ak[m] = ak[n] => m = n

AckedOK == Confirms(journalFile.lines, confirmed) /\ Confirms(onDisk.lines, confirmed) /\ Once(confirmed)

\* What is on the disk is where the journal begins, but for a line that was torn there and
\* has been written on since.
OnDiskOK ==
  /\ Len(onDisk.lines) <= Len(journalFile.lines)
  /\ \A i \in 1..Len(onDisk.lines) :
       \/ journalFile.lines[i] = onDisk.lines[i]
       \/ onDisk.torn /\ journalFile.lines[i] = Broken
  /\ journalFile.torn /\ Len(journalFile.lines) = Len(onDisk.lines) => onDisk.torn

\* Every event there is anywhere has been given out, and to one call.
EventsOK ==
  /\ \A e \in EventIds :
       e \in Range(journalFile.lines) \cup Range(onDisk.lines) \cup Range(confirmed) \cup Range(trace) =>
         e < next
  /\ \A c \in Threads : Busy(c) => calls[c].event \in EventIds /\ calls[c].event < next
  /\ \A c \in Threads : ~Busy(c) => calls[c] = Resting
  /\ \A c, d \in Threads : Busy(c) /\ Busy(d) /\ calls[c].event = calls[d].event => c = d

\* The lock is held from the check of the size to the sync; an event is not in the journal
\* before its call writes it, and is the last line of it, if it can be read, until the sync.
CallOK(c) ==
  /\ calls[c].step \in {"locked", "written"} <=> journalLock = c
  /\ Busy(c) => calls[c].event \notin Range(confirmed)
  /\ calls[c].step \in {"ready", "locked"} =>
       calls[c].event \notin Range(journalFile.lines) \cup Range(onDisk.lines)
  /\ calls[c].step = "written" =>
       \/ Broken \in Range(journalFile.lines) /\ calls[c].event \notin Range(journalFile.lines)
       \/ /\ journalFile.lines # <<>> /\ journalFile.lines[Len(journalFile.lines)] = calls[c].event
          /\ \A i \in 1..(Len(journalFile.lines) - 1) : journalFile.lines[i] # calls[c].event

CallsOK == \A c \in Threads : CallOK(c)

\* What a reading of the file could trust is on the disk, about to be synced, or of a call
\* whose append failed.
TraceOK ==
  /\ \A e \in Range(trace) : e \in Range(journalFile.lines) =>
       \/ e \in Range(onDisk.lines) \cup unsynced
       \/ \E c \in Threads : calls[c].step = "written" /\ calls[c].event = e
  /\ outcome # None => \A c \in Threads : ~Busy(c)

JournalInv ==
  Types /\ AckedOK /\ OnDiskOK /\ EventsOK /\ CallsOK /\ TraceOK /\ TrustedIsDurable

LEMMA LastReplaced ==
  ASSUME NEW S, NEW s \in Seq(S), NEW e \in S, s # <<>>
  PROVE  /\ [s EXCEPT ![Len(s)] = e] \in Seq(S) /\ e \in Range([s EXCEPT ![Len(s)] = e])
         /\ Range([s EXCEPT ![Len(s)] = e]) \subseteq Range(s) \cup {e}
<1>1. PICK t : t = [s EXCEPT ![Len(s)] = e]
  OBVIOUS
<1>2. /\ t \in Seq(S) /\ Len(t) = Len(s) /\ Len(s) \in 1..Len(s) /\ t[Len(s)] = e
      /\ \A i \in 1..Len(s) : t[i] \in {s[i], e}
  BY <1>1
<1>3. e \in Range(t)
  BY <1>2, RangeOf
<1>4. ASSUME NEW x \in Range(t) PROVE x \in Range(s) \cup {e}
  BY <1>2, RangeOf
<1>5. QED
  BY <1>1, <1>2, <1>3, <1>4

\* What is written: a line of its own, or glued to a torn one.
LEMMA WithIs ==
  ASSUME NEW f, FileOK(f), NEW line \in EventIds \cup {Broken}, NEW torn \in BOOLEAN
  PROVE  /\ FileOK(With(f, line, torn))
         /\ f.torn =>
              /\ Broken \in Range(With(f, line, torn).lines)
              /\ Range(With(f, line, torn).lines) \subseteq Range(f.lines) \cup {Broken}
              /\ Len(With(f, line, torn).lines) = Len(f.lines)
              /\ \A i \in 1..Len(f.lines) :
                   \/ With(f, line, torn).lines[i] = f.lines[i]
                   \/ i = Len(f.lines) /\ With(f, line, torn).lines[i] = Broken
         /\ ~f.torn => With(f, line, torn).lines = Append(f.lines, line)
         /\ With(f, line, torn).torn = torn
<1>1. f.lines \in Seq(EventIds \cup {Broken}) /\ f.torn \in BOOLEAN
  BY DEF FileOK, JournalLines
<1>2. CASE f.torn
  <2>1. f.lines # <<>>
    BY <1>2 DEF FileOK
  <2>2. PICK s : s = [f.lines EXCEPT ![Len(f.lines)] = Broken]
    OBVIOUS
  <2>3. /\ s \in Seq(EventIds \cup {Broken}) /\ Broken \in Range(s)
        /\ Range(s) \subseteq Range(f.lines) \cup {Broken}
    <3>1. PICK S : S = EventIds \cup {Broken}
      OBVIOUS
    <3>2. f.lines \in Seq(S) /\ Broken \in S
      BY <1>1, <3>1
    <3>3. s \in Seq(S) /\ Broken \in Range(s) /\ Range(s) \subseteq Range(f.lines) \cup {Broken}
      BY <2>1, <2>2, <3>2, LastReplaced
    <3>4. QED
      BY <3>1, <3>3
  <2>4. /\ Len(s) = Len(f.lines) /\ s # <<>>
        /\ \A i \in 1..Len(f.lines) : s[i] = f.lines[i] \/ (i = Len(f.lines) /\ s[i] = Broken)
    BY <1>1, <2>1, <2>2
  <2>5. With(f, line, torn) = [lines |-> s, torn |-> torn]
    BY <1>2, <2>2 DEF With
  <2>6. QED
    BY <1>2, <2>3, <2>4, <2>5 DEF FileOK, JournalLines
<1>3. CASE ~f.torn
  <2>1. PICK s : s = Append(f.lines, line)
    OBVIOUS
  <2>2. s \in Seq(EventIds \cup {Broken}) /\ s # <<>>
    BY <1>1, <2>1
  <2>3. With(f, line, torn) = [lines |-> s, torn |-> torn]
    BY <1>3, <2>1 DEF With
  <2>4. QED
    BY <1>3, <2>1, <2>2, <2>3 DEF FileOK, JournalLines
<1>4. QED
  BY <1>1, <1>2, <1>3

\* The lines of s are those of t, as far as they go, but for those that are broken.
Below(s, t) == \A i \in 1..Len(s) : s[i] = Broken \/ (i \in 1..Len(t) /\ s[i] = t[i])

LEMMA BelowOrdered ==
  ASSUME JournalAssumption, NEW s \in JournalLines, NEW t \in JournalLines,
         NEW ak \in Seq(EventIds), Below(s, t), Ordered(t, ak)
  PROVE  Ordered(s, ak)
<1>1. Broken \notin Range(ak)
  <2>1. Broken \notin EventIds
    BY DEF JournalAssumption, EventIds
  <2>2. QED
    BY <2>1, RangeOf
<1>2. ASSUME NEW i \in 1..Len(s), s[i] \in Range(ak)
      PROVE  i \in 1..Len(t) /\ s[i] = t[i]
  BY <1>1, <1>2 DEF Below
<1>3. ASSUME NEW i \in 1..Len(s), NEW j \in 1..Len(s), i < j,
             {s[i], s[j]} \subseteq Range(ak)
      PROVE  \E m, n \in 1..Len(ak) : m < n /\ ak[m] = s[i] /\ ak[n] = s[j]
  <2>1. i \in 1..Len(t) /\ s[i] = t[i] /\ j \in 1..Len(t) /\ s[j] = t[j]
    BY <1>2, <1>3
  <2>2. QED
    BY <1>3, <2>1 DEF Ordered
<1>4. QED
  BY <1>3 DEF Ordered

LEMMA BelowRange ==
  ASSUME NEW s \in JournalLines, NEW t \in JournalLines, Below(s, t)
  PROVE  Range(s) \subseteq Range(t) \cup {Broken}
<1>1. PICK S : S = EventIds \cup {Broken}
  OBVIOUS
<1>2. s \in Seq(S) /\ t \in Seq(S)
  BY <1>1 DEF JournalLines
<1>3. ASSUME NEW e \in Range(s) PROVE e \in Range(t) \cup {Broken}
  <2>1. PICK i \in 1..Len(s) : s[i] = e
    BY <1>2, RangeOf
  <2>2. e = Broken \/ (i \in 1..Len(t) /\ t[i] = e)
    BY <2>1 DEF Below
  <2>3. QED
    BY <1>2, <2>2, RangeOf
<1>4. QED
  BY <1>3

LEMMA WithAppends ==
  ASSUME NEW f, NEW line, NEW torn, ~f.torn
  PROVE  With(f, line, torn).lines = Append(f.lines, line)
BY DEF With

\* Another line at the end, which is not confirmed, changes nothing; nor does a glued one.
LEMMA ConfirmsMore ==
  ASSUME JournalAssumption, NEW f, FileOK(f), NEW ak \in Seq(EventIds),
         NEW line \in EventIds \cup {Broken}, line \notin Range(ak), NEW torn \in BOOLEAN,
         Confirms(f.lines, ak)
  PROVE  Confirms(With(f, line, torn).lines, ak)
<1>1. PICK S : S = EventIds \cup {Broken}
  OBVIOUS
<1>2. PICK t : t = With(f, line, torn).lines
  OBVIOUS
<1>3. f.lines \in JournalLines /\ f.torn \in BOOLEAN /\ t \in JournalLines /\ Len(f.lines) \in Nat
  BY <1>2, WithIs DEF FileOK, JournalLines
<1>4. CASE f.torn
  <2>0. /\ Broken \in Range(t) /\ Len(t) = Len(f.lines)
        /\ \A i \in 1..Len(f.lines) : t[i] = f.lines[i] \/ (i = Len(f.lines) /\ t[i] = Broken)
    BY <1>2, <1>4, WithIs
  <2>1. /\ Broken \in Range(t) /\ Len(t) = Len(f.lines)
        /\ \A i \in 1..Len(t) : t[i] = f.lines[i] \/ t[i] = Broken
    BY <2>0
  <2>2. Below(t, f.lines)
    BY <2>1 DEF Below
  <2>3. Ordered(t, ak)
    BY <1>3, <2>2, BelowOrdered DEF Confirms
  <2>4. QED
    BY <1>2, <2>1, <2>3 DEF Confirms
<1>5. CASE ~f.torn
  <2>1. f.lines \in Seq(S) /\ line \in S
    BY <1>1, <1>3 DEF JournalLines
  <2>2. t = Append(f.lines, line)
    BY <1>2, <1>5, WithIs
  <2>3. /\ Len(t) = Len(f.lines) + 1 /\ t[Len(f.lines) + 1] = line
        /\ \A i \in 1..Len(f.lines) : t[i] = f.lines[i]
        /\ Range(t) = Range(f.lines) \cup {line}
    BY <2>1, <2>2, RangeAppend
  <2>4. \A i \in 1..Len(t) : t[i] \in Range(ak) => i \in 1..Len(f.lines) /\ t[i] = f.lines[i]
    BY <1>3, <2>3
  <2>5. ASSUME NEW i \in 1..Len(t), NEW j \in 1..Len(t), i < j,
               {t[i], t[j]} \subseteq Range(ak)
        PROVE  \E m, n \in 1..Len(ak) : m < n /\ ak[m] = t[i] /\ ak[n] = t[j]
    <3>1. /\ i \in 1..Len(f.lines) /\ t[i] = f.lines[i]
          /\ j \in 1..Len(f.lines) /\ t[j] = f.lines[j]
      BY <2>4, <2>5
    <3>2. QED
      BY <2>5, <3>1 DEF Confirms, Ordered
  <2>6. Ordered(t, ak)
    BY <2>5 DEF Ordered
  <2>7. Broken \notin Range(t) => Range(ak) \subseteq Range(t)
    BY <2>3 DEF Confirms
  <2>8. QED
    BY <1>2, <2>6, <2>7 DEF Confirms
<1>6. QED
  BY <1>3, <1>4, <1>5

\* The last line, once it is synced, is confirmed.
LEMMA ConfirmsLast ==
  ASSUME NEW s \in JournalLines, NEW ak \in Seq(EventIds), NEW e \in EventIds, e \notin Range(ak),
         Confirms(s, ak), Once(ak),
         \/ Broken \in Range(s) /\ e \notin Range(s)
         \/ s # <<>> /\ s[Len(s)] = e /\ \A i \in 1..(Len(s) - 1) : s[i] # e
  PROVE  Confirms(s, Append(ak, e)) /\ Once(Append(ak, e))
<1>1. PICK bs \in Seq(EventIds) : bs = Append(ak, e)
  BY RangeAppend
<1>2. /\ Len(bs) = Len(ak) + 1 /\ bs[Len(ak) + 1] = e /\ \A i \in 1..Len(ak) : bs[i] = ak[i]
      /\ Range(bs) = Range(ak) \cup {e} /\ Len(ak) \in Nat
  BY <1>1, RangeAppend
<1>3. \A i \in 1..Len(ak) : ak[i] # e /\ ak[i] \in Range(ak)
  BY RangeOf
<1>4. Once(bs)
  <2>1. ASSUME NEW m \in 1..Len(bs), NEW n \in 1..Len(bs), bs[m] = bs[n] PROVE m = n
    <3>1. CASE m \in 1..Len(ak) /\ n \in 1..Len(ak)
      BY <1>2, <2>1, <3>1 DEF Once
    <3>2. CASE m \in 1..Len(ak) /\ n = Len(ak) + 1
      BY <1>2, <1>3, <2>1, <3>2
    <3>3. CASE m = Len(ak) + 1 /\ n \in 1..Len(ak)
      BY <1>2, <1>3, <2>1, <3>3
    <3>4. CASE m = Len(ak) + 1 /\ n = Len(ak) + 1
      BY <3>4
    <3>5. QED
      BY <1>2, <3>1, <3>2, <3>3, <3>4
  <2>2. QED
    BY <2>1 DEF Once
<1>5. s \in Seq(EventIds \cup {Broken}) /\ Len(s) \in Nat
  BY DEF JournalLines
<1>6. \A i \in 1..Len(s) : s[i] \in Range(bs) => s[i] \in Range(ak) \/ (i = Len(s) /\ s[i] = e)
  <2>1. CASE e \notin Range(s)
    BY <1>2, <1>5, <2>1, RangeOf
  <2>2. CASE \A i \in 1..(Len(s) - 1) : s[i] # e
    BY <1>2, <1>5, <2>2
  <2>3. QED
    BY <2>1, <2>2
<1>7. ASSUME NEW i \in 1..Len(s), NEW j \in 1..Len(s), i < j, s[i] \in Range(bs), s[j] \in Range(bs)
      PROVE  \E m, n \in 1..Len(bs) : m < n /\ bs[m] = s[i] /\ bs[n] = s[j]
  <2>1. s[i] \in Range(ak)
    BY <1>5, <1>6, <1>7
  <2>2. CASE s[j] \in Range(ak)
    <3>1. PICK m \in 1..Len(ak), n \in 1..Len(ak) : m < n /\ ak[m] = s[i] /\ ak[n] = s[j]
      BY <1>7, <2>1, <2>2 DEF Confirms, Ordered
    <3>2. m \in 1..Len(bs) /\ n \in 1..Len(bs) /\ bs[m] = ak[m] /\ bs[n] = ak[n]
      BY <1>2
    <3>3. QED
      BY <3>1, <3>2
  <2>3. CASE s[j] = e
    <3>1. PICK m \in 1..Len(ak) : ak[m] = s[i]
      BY <2>1, RangeOf
    <3>2. m \in 1..Len(bs) /\ Len(ak) + 1 \in 1..Len(bs) /\ m < Len(ak) + 1 /\ bs[m] = s[i]
      BY <1>2, <3>1
    <3>3. QED
      BY <1>2, <2>3, <3>2
  <2>4. QED
    BY <1>6, <1>7, <2>2, <2>3
<1>8. Ordered(s, bs)
  BY <1>7 DEF Ordered
<1>9. ASSUME Broken \notin Range(s) PROVE Range(bs) \subseteq Range(s)
  <2>1. s # <<>> /\ s[Len(s)] = e /\ Len(s) \in 1..Len(s)
    BY <1>5, <1>9
  <2>2. e \in Range(s)
    BY <1>5, <2>1, RangeOf
  <2>3. QED
    BY <1>2, <1>9, <2>2 DEF Confirms
<1>10. Confirms(s, bs)
  BY <1>8, <1>9 DEF Confirms
<1>11. QED
  BY <1>1, <1>4, <1>10, Zenon

-----------------------------------------------------------------------------
(* What is on the disk, and what a crash leaves.                           *)

LEMMA SyncedStands ==
  ASSUME FileOK(journalFile'), onDisk' = journalFile'
  PROVE  OnDiskOK'
<1>1. Len(journalFile'.lines) \in Nat
  BY DEF FileOK, JournalLines
<1>2. QED
  BY <1>1 DEF OnDiskOK

LEMMA WrittenStands ==
  ASSUME FileOK(journalFile), FileOK(onDisk), OnDiskOK, onDisk' = onDisk,
         NEW line \in EventIds \cup {Broken}, NEW torn \in BOOLEAN,
         journalFile' = With(journalFile, line, torn)
  PROVE  OnDiskOK'
<1>1. PICK s : s = journalFile'.lines
  OBVIOUS
<1>2. /\ journalFile.lines \in Seq(EventIds \cup {Broken}) /\ Len(journalFile.lines) \in Nat
      /\ onDisk.lines \in Seq(EventIds \cup {Broken}) /\ Len(onDisk.lines) \in Nat
      /\ journalFile.torn \in BOOLEAN
  BY DEF FileOK, JournalLines
<1>3. CASE journalFile.torn
  <2>1. /\ Len(s) = Len(journalFile.lines)
        /\ \A i \in 1..Len(journalFile.lines) :
             s[i] = journalFile.lines[i] \/ (i = Len(journalFile.lines) /\ s[i] = Broken)
    BY <1>1, <1>3, WithIs
  <2>2. \A i \in 1..Len(onDisk.lines) : i = Len(journalFile.lines) => onDisk.torn
    BY <1>2, <1>3 DEF OnDiskOK
  <2>3. \A i \in 1..Len(onDisk.lines) : s[i] = onDisk.lines[i] \/ (onDisk.torn /\ s[i] = Broken)
    BY <1>2, <2>1, <2>2 DEF OnDiskOK
  <2>4. QED
    BY <1>1, <1>2, <1>3, <2>1, <2>3 DEF OnDiskOK
<1>4. CASE ~journalFile.torn
  <2>1. PICK S : S = EventIds \cup {Broken}
    OBVIOUS
  <2>2. s = Append(journalFile.lines, line) /\ journalFile.lines \in Seq(S) /\ line \in S
    BY <1>1, <1>2, <1>4, <2>1, WithAppends
  <2>3. /\ Len(s) = Len(journalFile.lines) + 1
        /\ \A i \in 1..Len(journalFile.lines) : s[i] = journalFile.lines[i]
    BY <2>2, RangeAppend
  <2>4. Len(onDisk.lines) <= Len(journalFile.lines)
    BY DEF OnDiskOK
  <2>5. \A i \in 1..Len(onDisk.lines) :
          s[i] = onDisk.lines[i] \/ (onDisk.torn /\ s[i] = Broken)
    BY <1>2, <2>3, <2>4 DEF OnDiskOK
  <2>6. Len(onDisk.lines) < Len(s)
    BY <1>2, <2>3, <2>4
  <2>7. QED
    BY <1>1, <1>2, <2>5, <2>6 DEF OnDiskOK
<1>5. QED
  BY <1>2, <1>3, <1>4

\* A file that a crash may leave.
Left(f) ==
  /\ FileOK(f)
  /\ Len(onDisk.lines) <= Len(f.lines)
  /\ Below(f.lines, journalFile.lines) \/ Below(f.lines, onDisk.lines)

LEMMA CutIsLeft ==
  ASSUME Types, OnDiskOK, NEW f \in Cuts
  PROVE  Left(f) /\ (~f.torn => Below(f.lines, journalFile.lines))
<1>1. /\ journalFile.lines \in Seq(EventIds \cup {Broken}) /\ Len(journalFile.lines) \in Nat
      /\ onDisk.lines \in Seq(EventIds \cup {Broken}) /\ Len(onDisk.lines) \in Nat
      /\ FileOK(journalFile) /\ FileOK(onDisk)
  BY DEF Types, FileOK, JournalLines
<1>2. CASE f = journalFile
  BY <1>1, <1>2 DEF Left, Below, OnDiskOK
<1>3. CASE f = onDisk
  <2>1. Left(f)
    BY <1>1, <1>3 DEF Left, Below
  <2>2. ~f.torn => Below(f.lines, journalFile.lines)
    BY <1>1, <1>3 DEF Below, OnDiskOK
  <2>3. QED
    BY <2>1, <2>2
<1>4. ASSUME NEW k \in Len(onDisk.lines)..(Len(journalFile.lines) - 1),
             f = [lines |-> SubSeq(journalFile.lines, 1, k), torn |-> FALSE]
      PROVE  Left(f) /\ Below(f.lines, journalFile.lines)
  <2>1. PICK s : s = SubSeq(journalFile.lines, 1, k)
    OBVIOUS
  <2>2. /\ s \in Seq(EventIds \cup {Broken}) /\ Len(s) = k /\ k \in Nat
        /\ \A i \in 1..k : s[i] = journalFile.lines[i] /\ i \in 1..Len(journalFile.lines)
    BY <1>1, <2>1
  <2>3. Below(s, journalFile.lines)
    BY <2>2 DEF Below
  <2>4. f.lines = s /\ f.torn = FALSE /\ f = [lines |-> s, torn |-> FALSE]
    BY <1>4, <2>1
  <2>5. FileOK(f)
    BY <2>2, <2>4 DEF FileOK, JournalLines
  <2>6. QED
    BY <2>2, <2>3, <2>4, <2>5 DEF Left
<1>5. QED
  BY <1>2, <1>3, <1>4 DEF Cuts

LEMMA PartIsLeft ==
  ASSUME Types, OnDiskOK, NEW f \in Cuts, NEW line \in {Broken, LineAfter(f)}
  PROVE  Left(With(f, line, TRUE))
<1>1. /\ journalFile.lines \in Seq(EventIds \cup {Broken}) /\ Len(journalFile.lines) \in Nat
      /\ Len(onDisk.lines) \in Nat
  BY DEF Types, FileOK, JournalLines
<1>2. Left(f) /\ FileOK(f) /\ (~f.torn => Below(f.lines, journalFile.lines))
  BY CutIsLeft DEF Left
<1>3. f.lines \in Seq(EventIds \cup {Broken}) /\ Len(f.lines) \in Nat /\ f.torn \in BOOLEAN
  BY <1>2 DEF FileOK, JournalLines
<1>4. /\ line \in EventIds \cup {Broken}
      /\ line = Broken \/ (Len(f.lines) + 1 \in 1..Len(journalFile.lines)
                             /\ line = journalFile.lines[Len(f.lines) + 1])
  BY <1>1, <1>3 DEF LineAfter
<1>5. PICK g : g = With(f, line, TRUE)
  OBVIOUS
<1>6. FileOK(g)
  BY <1>2, <1>4, <1>5, WithIs
<1>7. CASE f.torn
  <2>1. /\ Len(g.lines) = Len(f.lines)
        /\ \A i \in 1..Len(g.lines) : g.lines[i] = f.lines[i] \/ g.lines[i] = Broken
    BY <1>2, <1>4, <1>5, <1>7, WithIs
  <2>2. /\ Below(f.lines, journalFile.lines) => Below(g.lines, journalFile.lines)
        /\ Below(f.lines, onDisk.lines) => Below(g.lines, onDisk.lines)
    BY <2>1 DEF Below
  <2>3. QED
    BY <1>2, <1>5, <1>6, <2>1, <2>2 DEF Left
<1>8. CASE ~f.torn
  <2>1. PICK S : S = EventIds \cup {Broken}
    OBVIOUS
  <2>2. g.lines = Append(f.lines, line) /\ f.lines \in Seq(S) /\ line \in S
    BY <1>3, <1>4, <1>5, <1>8, <2>1, WithAppends
  <2>3. /\ Len(g.lines) = Len(f.lines) + 1 /\ g.lines[Len(f.lines) + 1] = line
        /\ \A i \in 1..Len(f.lines) : g.lines[i] = f.lines[i]
    BY <2>2, RangeAppend
  <2>4. ASSUME NEW i \in 1..Len(g.lines)
        PROVE  g.lines[i] = Broken \/ (i \in 1..Len(journalFile.lines) /\ g.lines[i] = journalFile.lines[i])
    <3>1. CASE i \in 1..Len(f.lines)
      BY <1>2, <1>8, <2>3, <3>1 DEF Below
    <3>2. CASE i = Len(f.lines) + 1
      BY <1>4, <2>3, <3>2
    <3>3. QED
      BY <1>3, <2>3, <3>1, <3>2
  <2>5. Below(g.lines, journalFile.lines)
    BY <2>4 DEF Below
  <2>6. Len(onDisk.lines) <= Len(g.lines)
    BY <1>1, <1>2, <1>3, <2>3 DEF Left
  <2>7. QED
    BY <1>5, <1>6, <2>5, <2>6 DEF Left
<1>9. QED
  BY <1>3, <1>7, <1>8

LEMMA HoledIsLeft ==
  ASSUME NEW g, Left(g), NEW lost
  PROVE  Left(Holed(g, lost))
<1>1. /\ g \in [lines : Seq(EventIds \cup {Broken}), torn : BOOLEAN] /\ Len(g.lines) \in Nat
      /\ g.torn => g.lines # <<>>
  BY DEF Left, FileOK, JournalLines
<1>2. PICK s : s = [i \in 1..Len(g.lines) |-> IF g.lines[i] \in lost THEN Broken ELSE g.lines[i]]
  OBVIOUS
<1>3. /\ s \in Seq(EventIds \cup {Broken}) /\ Len(s) = Len(g.lines)
      /\ \A i \in 1..Len(s) : s[i] = g.lines[i] \/ s[i] = Broken
  BY <1>1, <1>2
<1>4. PICK h : h = Holed(g, lost)
  OBVIOUS
<1>5. h \in [lines : Seq(EventIds \cup {Broken}), torn : BOOLEAN] /\ h.lines = s /\ h.torn = g.torn
  BY <1>1, <1>2, <1>3, <1>4 DEF Holed
<1>6. h.torn => h.lines # <<>>
  BY <1>1, <1>3, <1>5
<1>7. /\ Below(g.lines, journalFile.lines) => Below(s, journalFile.lines)
      /\ Below(g.lines, onDisk.lines) => Below(s, onDisk.lines)
  BY <1>3 DEF Below
<1>8. QED
  BY <1>3, <1>4, <1>5, <1>6, <1>7 DEF Left, FileOK, JournalLines

\* It can be read only if it has all that was confirmed.
LEMMA LeftIsTrue ==
  ASSUME JournalAssumption, Types, AckedOK, OnDiskOK, NEW h, Left(h)
  PROVE  /\ Confirms(h.lines, confirmed)
         /\ Range(h.lines) \subseteq Range(journalFile.lines) \cup Range(onDisk.lines) \cup {Broken}
<1>1. /\ journalFile.lines \in JournalLines /\ onDisk.lines \in JournalLines /\ h.lines \in JournalLines
      /\ confirmed \in Seq(EventIds)
      /\ Ordered(journalFile.lines, confirmed) /\ Ordered(onDisk.lines, confirmed)
  BY DEF Types, FileOK, Left, AckedOK, Confirms
<1>2. Ordered(h.lines, confirmed)
  BY <1>1, BelowOrdered DEF Left
<1>3. Range(h.lines) \subseteq Range(journalFile.lines) \cup Range(onDisk.lines) \cup {Broken}
  BY <1>1, BelowRange DEF Left
<1>4. ASSUME Broken \notin Range(h.lines) PROVE Range(confirmed) \subseteq Range(h.lines)
  <2>1. PICK S : S = EventIds \cup {Broken}
    OBVIOUS
  <2>2. h.lines \in Seq(S) /\ onDisk.lines \in Seq(S) /\ journalFile.lines \in Seq(S)
    BY <1>1, <2>1 DEF JournalLines
  <2>3. \A i \in 1..Len(h.lines) : h.lines[i] # Broken
    BY <1>4, <2>2, RangeOf
  <2>4. Len(onDisk.lines) <= Len(h.lines) /\ Len(onDisk.lines) \in Nat /\ Len(h.lines) \in Nat
    BY <2>2 DEF Left
  <2>5. ASSUME NEW i \in 1..Len(onDisk.lines)
        PROVE  i \in 1..Len(h.lines) /\ h.lines[i] = onDisk.lines[i]
    <3>1. i \in 1..Len(h.lines)
      BY <2>4
    <3>2. CASE Below(h.lines, onDisk.lines)
      BY <2>3, <3>1, <3>2 DEF Below
    <3>3. CASE Below(h.lines, journalFile.lines)
      <4>1. h.lines[i] = journalFile.lines[i] /\ journalFile.lines[i] # Broken
        BY <2>3, <3>1, <3>3 DEF Below
      <4>2. QED
        BY <3>1, <4>1 DEF OnDiskOK
    <3>4. QED
      BY <3>1, <3>2, <3>3 DEF Left
  <2>6. Range(onDisk.lines) \subseteq Range(h.lines)
    <3>1. ASSUME NEW e \in Range(onDisk.lines) PROVE e \in Range(h.lines)
      <4>1. PICK i \in 1..Len(onDisk.lines) : onDisk.lines[i] = e
        BY <2>2, RangeOf
      <4>2. QED
        BY <2>2, <2>5, <4>1, RangeOf
    <3>2. QED
      BY <3>1
  <2>7. Broken \notin Range(onDisk.lines)
    BY <1>4, <2>6
  <2>8. QED
    BY <2>6, <2>7 DEF AckedOK, Confirms
<1>5. QED
  BY <1>2, <1>3, <1>4 DEF Confirms

-----------------------------------------------------------------------------
(* Calls.                                                                  *)

LEMMA Idling == Resting \in Calls /\ Resting.step = "idle"
BY DEF Resting, Calls

LEMMA CallGoes ==
  ASSUME NEW c \in Threads, calls \in [Threads -> Calls],
         NEW v \in Calls, calls' = [calls EXCEPT ![c] = v]
  PROVE  /\ calls' \in [Threads -> Calls] /\ calls'[c] = v
         /\ \A d \in Threads : d # c => calls'[d] = calls[d]
OBVIOUS

LEMMA CallSteps ==
  ASSUME NEW c \in Threads, calls \in [Threads -> Calls],
         NEW s \in {"ready", "locked", "written"}, calls' = [calls EXCEPT ![c].step = s]
  PROVE  /\ calls' \in [Threads -> Calls]
         /\ calls'[c].step = s /\ calls'[c].event = calls[c].event
         /\ \A d \in Threads : d # c => calls'[d] = calls[d]
BY DEF Calls

\* The holder of the lock is the only one that writes.
LEMMA Alone ==
  ASSUME JournalInv, NEW c \in Threads, calls[c].step \in {"locked", "written"}
  PROVE  /\ journalLock = c /\ outcome = None
         /\ \A d \in Threads : d # c => journalLock # d /\ calls[d].step \notin {"locked", "written"}
         /\ calls[c].event \in EventIds /\ calls[c].event < next
         /\ calls[c].event \notin Range(confirmed)
         /\ \A d \in Threads : d # c /\ Busy(d) => calls[d].event # calls[c].event
<1>1. Busy(c)
  BY DEF Busy
<1>2. journalLock = c /\ \A d \in Threads : calls[d].step \in {"locked", "written"} <=> journalLock = d
  BY DEF JournalInv, CallsOK, CallOK
<1>3. outcome = None
  BY <1>1 DEF JournalInv, TraceOK
<1>4. calls[c].event \notin Range(confirmed)
  BY <1>1 DEF JournalInv, CallsOK, CallOK
<1>5. /\ calls[c].event \in EventIds /\ calls[c].event < next
      /\ \A d \in Threads : d # c /\ Busy(d) => calls[d].event # calls[c].event
  BY <1>1 DEF JournalInv, EventsOK
<1>6. QED
  BY <1>2, <1>3, <1>4, <1>5

\* A call that nobody touches, while another event may come into the files.
LEMMA CallKept ==
  ASSUME JournalAssumption, JournalInv, NEW d \in Threads, calls'[d] = calls[d], journalLock' = d <=> journalLock = d,
         NEW e, Busy(d) => calls[d].event # e,
         Range(confirmed') \subseteq Range(confirmed) \cup {e},
         Range(journalFile'.lines) \cup Range(onDisk'.lines) \subseteq
           Range(journalFile.lines) \cup Range(onDisk.lines) \cup {e, Broken},
         calls[d].step # "written" \/ journalFile' = journalFile
  PROVE  CallOK(d)'
<1>1. CallOK(d)
  BY DEF JournalInv, CallsOK
<1>2. Busy(d) => calls[d].event \in EventIds /\ calls[d].event # Broken
  BY DEF JournalInv, EventsOK, JournalAssumption, EventIds
<1>3. Busy(d)' <=> Busy(d)
  BY DEF Busy
<1>4. calls[d].step \in {"ready", "locked", "written"} => Busy(d)
  BY DEF Busy
<1>5. (calls[d].step \in {"locked", "written"} <=> journalLock = d)'
  BY <1>1 DEF CallOK
<1>6. (Busy(d) => calls[d].event \notin Range(confirmed))'
  BY <1>1, <1>3 DEF CallOK
<1>7. (calls[d].step \in {"ready", "locked"} =>
         calls[d].event \notin Range(journalFile.lines) \cup Range(onDisk.lines))'
  BY <1>1, <1>2, <1>4 DEF CallOK
<1>8. (calls[d].step = "written" =>
         \/ Broken \in Range(journalFile.lines) /\ calls[d].event \notin Range(journalFile.lines)
         \/ /\ journalFile.lines # <<>> /\ journalFile.lines[Len(journalFile.lines)] = calls[d].event
            /\ \A i \in 1..(Len(journalFile.lines) - 1) : journalFile.lines[i] # calls[d].event)'
  BY <1>1 DEF CallOK
<1>9. QED
  BY <1>5, <1>6, <1>7, <1>8 DEF CallOK

\* A call that is over, or was lost.
LEMMA CallOver ==
  ASSUME NEW c \in Threads, calls'[c] = Resting, journalLock' # c
  PROVE  CallOK(c)'
BY Idling DEF CallOK, Busy

\* Whatever a call does after it was given its event, it gives out no event.
LEMMA EventsKept ==
  ASSUME JournalAssumption, JournalInv, NEW c \in Threads, Busy(c), next' = next,
         \A d \in Threads : d # c => calls'[d] = calls[d],
         \/ calls'[c] = Resting
         \/ calls'[c].event = calls[c].event /\ calls'[c].step # "idle",
         Range(journalFile'.lines) \cup Range(onDisk'.lines) \cup Range(confirmed') \cup Range(trace') \subseteq
           Range(journalFile.lines) \cup Range(onDisk.lines) \cup Range(confirmed) \cup Range(trace)
             \cup {calls[c].event, Broken}
  PROVE  EventsOK'
<1>1. EventsOK /\ calls[c].event < next
  BY DEF JournalInv, EventsOK
<1>2. (\A e \in EventIds :
         e \in Range(journalFile.lines) \cup Range(onDisk.lines) \cup Range(confirmed) \cup Range(trace) =>
           e < next)'
  BY <1>1 DEF EventsOK, JournalAssumption, EventIds
<1>3. \A d \in Threads : Busy(d)' => Busy(d) /\ calls'[d].event = calls[d].event
  BY Idling DEF Busy
<1>4. \A d \in Threads : ~Busy(d)' => calls'[d] = Resting
  BY <1>1 DEF EventsOK, Busy
<1>5. QED
  BY <1>1, <1>2, <1>3, <1>4 DEF EventsOK

-----------------------------------------------------------------------------
(* The steps.                                                              *)

LEMMA InitJournalInv == ASSUME JournalAssumption, JournalInit PROVE JournalInv
<1>1. Range(<<>>) = {} /\ Empty.lines = <<>> /\ Empty.torn = FALSE
  BY DEF Empty, Range
<1>2. Types
  BY <1>1, Idling DEF JournalInit, Types, FileOK, Empty, JournalLines, JournalAssumption
<1>3. AckedOK /\ OnDiskOK
  BY <1>1 DEF JournalInit, AckedOK, Confirms, Ordered, Once, OnDiskOK
<1>4. EventsOK
  BY <1>1, Idling DEF JournalInit, EventsOK, Busy
<1>5. CallsOK
  BY <1>1, Idling DEF JournalInit, CallsOK, CallOK, Busy, JournalAssumption
<1>6. TraceOK
  BY <1>1, Idling DEF JournalInit, TraceOK, Busy
<1>7. TrustedIsDurable
  BY <1>1 DEF JournalInit, TrustedIsDurable
<1>8. QED
  BY <1>2, <1>3, <1>4, <1>5, <1>6, <1>7 DEF JournalInv

LEMMA RecordStep ==
  ASSUME JournalAssumption, JournalInv, NEW c \in Threads, Record(c)
  PROVE  JournalInv'
<1>1. /\ Types /\ AckedOK /\ OnDiskOK /\ EventsOK /\ CallsOK /\ TraceOK
  BY DEF JournalInv
<1>2. next \in EventIds /\ next \in Nat /\ next' = next + 1 /\ next' \in 1..(MaxCalls + 1)
  BY <1>1 DEF Types, Record, EventIds, JournalAssumption
<1>3. PICK v \in Calls : v.event = next /\ v.step = "ready" /\ calls' = [calls EXCEPT ![c] = v]
  BY <1>2 DEF Record, Calls
<1>4. /\ calls' \in [Threads -> Calls] /\ calls'[c] = v
      /\ \A d \in Threads : d # c => calls'[d] = calls[d]
  BY <1>1, <1>3, CallGoes DEF Types
<1>5. trace' \in Seq(EventIds) /\ Range(trace') = Range(trace) \cup {next}
  BY <1>1, <1>2, RangeAppend DEF Types, Record
<1>6. UNCHANGED <<journalFile, onDisk, journalLock, confirmed, unsynced, outcome>> /\ outcome = None /\ calls[c].step = "idle"
  BY Idling DEF Record
<1>7. next \notin Range(journalFile.lines) \cup Range(onDisk.lines) \cup Range(confirmed) \cup Range(trace)
  BY <1>1, <1>2 DEF EventsOK
<1>8. \A d \in Threads : Busy(d) => calls[d].event # next
  BY <1>1, <1>2 DEF EventsOK
<1>9. Types'
  BY <1>1, <1>2, <1>4, <1>5, <1>6 DEF Types, FileOK
<1>10. AckedOK' /\ OnDiskOK'
  BY <1>1, <1>6 DEF AckedOK, OnDiskOK
<1>11. EventsOK'
  <2>1. \A e \in EventIds : e < next => e < next'
    BY <1>2 DEF EventIds
  <2>2. next < next'
    BY <1>2
  <2>3. Busy(c)' /\ \A d \in Threads : d # c => (Busy(d)' <=> Busy(d))
    BY <1>3, <1>4 DEF Busy
  <2>4. (\A e \in EventIds :
           e \in Range(journalFile.lines) \cup Range(onDisk.lines) \cup Range(confirmed) \cup Range(trace) =>
             e < next)'
    BY <1>1, <1>5, <1>6, <2>1, <2>2 DEF EventsOK
  <2>5. (\A d \in Threads : Busy(d) => calls[d].event \in EventIds /\ calls[d].event < next)'
    BY <1>1, <1>2, <1>3, <1>4, <2>1, <2>2, <2>3 DEF EventsOK
  <2>6. (\A d \in Threads : ~Busy(d) => calls[d] = Resting)'
    BY <1>1, <1>4, <2>3 DEF EventsOK
  <2>7. (\A b, d \in Threads : Busy(b) /\ Busy(d) /\ calls[b].event = calls[d].event => b = d)'
    BY <1>1, <1>3, <1>4, <1>8, <2>3 DEF EventsOK
  <2>8. QED
    BY <2>4, <2>5, <2>6, <2>7 DEF EventsOK
<1>12. CallsOK'
  <2>1. journalLock # c
    BY <1>1, <1>6 DEF CallsOK, CallOK
  <2>2. CallOK(c)'
    BY <1>3, <1>4, <1>6, <1>7, <2>1 DEF CallOK
  <2>3. ASSUME NEW d \in Threads, d # c PROVE CallOK(d)'
    BY <1>4, <1>6, <1>8, <2>3, CallKept
  <2>4. QED
    BY <2>2, <2>3 DEF CallsOK
<1>13. TraceOK'
  <2>1. ASSUME NEW e \in Range(trace'), e \in Range(journalFile'.lines)
        PROVE  \/ e \in Range(onDisk'.lines) \cup unsynced'
               \/ \E d \in Threads : calls'[d].step = "written" /\ calls'[d].event = e
    <3>1. e \in Range(trace) /\ e \in Range(journalFile.lines)
      BY <1>5, <1>6, <1>7, <2>1
    <3>2. CASE e \in Range(onDisk.lines) \cup unsynced
      BY <1>6, <3>2
    <3>3. CASE e \notin Range(onDisk.lines) \cup unsynced
      <4>1. PICK d \in Threads : calls[d].step = "written" /\ calls[d].event = e
        BY <1>1, <3>1, <3>3 DEF TraceOK
      <4>2. QED
        BY <1>4, <1>6, <4>1
    <3>4. QED
      BY <3>2, <3>3
  <2>2. QED
    BY <1>6, <2>1 DEF TraceOK
<1>14. TrustedIsDurable'
  BY <1>6 DEF TrustedIsDurable, JournalAssumption
<1>15. QED
  BY <1>9, <1>10, <1>11, <1>12, <1>13, <1>14 DEF JournalInv

LEMMA LockStep ==
  ASSUME JournalAssumption, JournalInv, NEW c \in Threads, Lock(c)
  PROVE  JournalInv'
<1>1. /\ Types /\ AckedOK /\ OnDiskOK /\ EventsOK /\ CallsOK /\ TraceOK /\ TrustedIsDurable
  BY DEF JournalInv
<1>2. /\ UNCHANGED <<journalFile, onDisk, next, trace, confirmed, unsynced, outcome>>
      /\ calls[c].step = "ready" /\ journalLock = None /\ Busy(c) /\ c # None
  BY DEF Lock, Busy, JournalAssumption
<1>3. \/ journalLock' = c /\ calls' = [calls EXCEPT ![c].step = "locked"]
      \/ journalLock' = journalLock /\ calls' = [calls EXCEPT ![c] = Resting]
  BY DEF Lock
<1>4. /\ calls' \in [Threads -> Calls] /\ journalLock' \in Threads \cup {None}
      /\ \A d \in Threads : d # c => calls'[d] = calls[d]
      /\ \/ journalLock' = c /\ calls'[c].event = calls[c].event /\ calls'[c].step = "locked"
         \/ journalLock' = journalLock /\ calls'[c] = Resting
  BY <1>1, <1>3, CallSteps, CallGoes, Idling DEF Types
<1>5. Types' /\ AckedOK' /\ OnDiskOK'
  BY <1>1, <1>2, <1>4 DEF Types, FileOK, AckedOK, OnDiskOK
<1>6. EventsOK'
  BY <1>2, <1>4, EventsKept
<1>7. CallsOK'
  <2>1. CallOK(c)
    BY <1>1 DEF CallsOK
  <2>2. CallOK(c)'
    <3>1. CASE journalLock' = c /\ calls'[c].event = calls[c].event /\ calls'[c].step = "locked"
      BY <1>2, <2>1, <3>1 DEF CallOK
    <3>2. CASE journalLock' = journalLock /\ calls'[c] = Resting
      BY <1>2, <3>2, CallOver
    <3>3. QED
      BY <1>4, <3>1, <3>2
  <2>3. ASSUME NEW d \in Threads, d # c PROVE CallOK(d)'
    <3>1. journalLock' = d <=> journalLock = d
      BY <1>2, <1>4, <2>3 DEF JournalAssumption
    <3>2. Busy(d) => calls[d].event # calls[c].event
      BY <1>1, <1>2, <2>3 DEF EventsOK
    <3>3. QED
      BY <1>2, <1>4, <2>3, <3>1, <3>2, CallKept
  <2>4. QED
    BY <2>2, <2>3 DEF CallsOK
<1>8. TraceOK'
  <2>1. outcome = None
    BY <1>1, <1>2 DEF TraceOK
  <2>2. \A d \in Threads : calls[d].step = "written" =>
          calls'[d].step = "written" /\ calls'[d].event = calls[d].event
    BY <1>2, <1>4
  <2>3. QED
    BY <1>1, <1>2, <2>1, <2>2 DEF TraceOK
<1>9. TrustedIsDurable'
  BY <1>1, <1>2 DEF TrustedIsDurable
<1>10. QED
  BY <1>1, <1>5, <1>6, <1>7, <1>8, <1>9 DEF JournalInv

LEMMA WriteStep ==
  ASSUME JournalAssumption, JournalInv, NEW c \in Threads, WriteReceipt(c)
  PROVE  JournalInv'
<1>1. /\ Types /\ AckedOK /\ OnDiskOK /\ EventsOK /\ CallsOK /\ TraceOK /\ TrustedIsDurable
  BY DEF JournalInv
<1>2. /\ UNCHANGED <<onDisk, journalLock, next, trace, confirmed, unsynced, outcome>>
      /\ calls[c].step = "locked" /\ Busy(c)
  BY DEF WriteReceipt, Busy
<1>3. PICK e \in EventIds : e = calls[c].event
  BY <1>1, <1>2 DEF EventsOK
<1>4. /\ calls' \in [Threads -> Calls] /\ calls'[c].step = "written" /\ calls'[c].event = e
      /\ \A d \in Threads : d # c => calls'[d] = calls[d]
  BY <1>1, <1>3, CallSteps DEF WriteReceipt, Types
<1>5. /\ journalLock = c /\ outcome = None /\ e < next /\ e \notin Range(confirmed)
      /\ \A d \in Threads : d # c => journalLock # d /\ calls[d].step \notin {"locked", "written"}
      /\ \A d \in Threads : d # c /\ Busy(d) => calls[d].event # e
  BY <1>2, <1>3, Alone
<1>6. e \notin Range(journalFile.lines) \cup Range(onDisk.lines) /\ e # Broken
  BY <1>1, <1>2, <1>3 DEF CallsOK, CallOK, JournalAssumption, EventIds
<1>7. /\ FileOK(journalFile') /\ Range(journalFile'.lines) \subseteq Range(journalFile.lines) \cup {e, Broken}
      /\ \/ Broken \in Range(journalFile'.lines) /\ e \notin Range(journalFile'.lines)
         \/ journalFile'.lines = Append(journalFile.lines, e)
      /\ journalFile' = With(journalFile, e, FALSE) /\ e \in EventIds \cup {Broken}
  <2>1. FileOK(journalFile) /\ journalFile.torn \in BOOLEAN
    BY <1>1 DEF Types, FileOK
  <2>2. journalFile' = With(journalFile, e, FALSE) /\ e \in EventIds \cup {Broken} /\ FALSE \in BOOLEAN
    BY <1>3 DEF WriteReceipt
  <2>3. FileOK(journalFile')
    BY <2>1, <2>2, WithIs
  <2>4. CASE journalFile.torn
    <3>1. /\ Broken \in Range(journalFile'.lines)
          /\ Range(journalFile'.lines) \subseteq Range(journalFile.lines) \cup {Broken}
      BY <2>1, <2>2, <2>4, WithIs
    <3>2. QED
      BY <1>6, <2>2, <2>3, <3>1
  <2>5. CASE ~journalFile.torn
    <3>1. journalFile'.lines = Append(journalFile.lines, e)
      BY <2>2, <2>5, WithAppends
    <3>2. PICK S : S = EventIds \cup {Broken}
      OBVIOUS
    <3>3. journalFile.lines \in Seq(S) /\ e \in S
      BY <2>1, <2>2, <3>2 DEF FileOK, JournalLines
    <3>4. Range(journalFile'.lines) = Range(journalFile.lines) \cup {e}
      BY <3>1, <3>3, RangeAppend
    <3>5. QED
      BY <2>2, <2>3, <3>1, <3>4
  <2>6. QED
    BY <2>1, <2>4, <2>5
<1>8. Types'
  BY <1>1, <1>2, <1>4, <1>7 DEF Types, FileOK
<1>9. AckedOK' /\ OnDiskOK'
  <2>1. /\ FileOK(journalFile) /\ FileOK(onDisk) /\ confirmed \in Seq(EventIds)
        /\ Confirms(journalFile.lines, confirmed) /\ FALSE \in BOOLEAN
    BY <1>1 DEF Types, AckedOK
  <2>2. Confirms(journalFile'.lines, confirmed)
    BY <1>5, <1>7, <2>1, ConfirmsMore
  <2>3. OnDiskOK'
    BY <1>1, <1>2, <1>7, <2>1, WrittenStands
  <2>4. QED
    BY <1>1, <1>2, <2>2, <2>3 DEF AckedOK
<1>10. EventsOK'
  BY <1>2, <1>3, <1>4, <1>7, EventsKept
<1>11. CallsOK'
  <2>1. CallOK(c)'
    <3>1. (calls'[c].step \in {"locked", "written"} <=> journalLock' = c) /\ calls'[c].event \notin Range(confirmed')
      BY <1>2, <1>4, <1>5
    <3>2. \/ Broken \in Range(journalFile'.lines) /\ calls'[c].event \notin Range(journalFile'.lines)
          \/ /\ journalFile'.lines # <<>> /\ journalFile'.lines[Len(journalFile'.lines)] = calls'[c].event
             /\ \A i \in 1..(Len(journalFile'.lines) - 1) : journalFile'.lines[i] # calls'[c].event
      <4>1. CASE journalFile'.lines = Append(journalFile.lines, e)
        <5>1. journalFile.lines \in Seq(EventIds \cup {Broken}) /\ e \in EventIds \cup {Broken}
          BY <1>1 DEF Types, FileOK, JournalLines
        <5>2. /\ Len(journalFile'.lines) = Len(journalFile.lines) + 1 /\ journalFile'.lines[Len(journalFile.lines) + 1] = e
              /\ \A i \in 1..Len(journalFile.lines) : journalFile'.lines[i] = journalFile.lines[i]
              /\ Len(journalFile.lines) \in Nat /\ journalFile'.lines \in Seq(EventIds \cup {Broken})
          BY <4>1, <5>1, RangeAppend
        <5>3. \A i \in 1..Len(journalFile.lines) : journalFile.lines[i] # e
          BY <1>6, <5>1, RangeOf
        <5>4. journalFile'.lines # <<>>
          BY <5>2
        <5>5. QED
          BY <1>4, <5>2, <5>3, <5>4
      <4>2. QED
        BY <1>4, <1>7, <4>1
    <3>3. QED
      BY <1>4, <3>1, <3>2 DEF CallOK
  <2>2. ASSUME NEW d \in Threads, d # c PROVE CallOK(d)'
    BY <1>2, <1>4, <1>5, <1>7, <2>2, CallKept
  <2>3. QED
    BY <2>1, <2>2 DEF CallsOK
<1>12. TraceOK'
  <2>1. ASSUME NEW t \in Range(trace'), t \in Range(journalFile'.lines)
        PROVE  \/ t \in Range(onDisk'.lines) \cup unsynced'
               \/ \E d \in Threads : calls'[d].step = "written" /\ calls'[d].event = t
    <3>1. t \in Range(trace) /\ t \in EventIds
      BY <1>1, <1>2, <2>1, RangeOf DEF Types
    <3>2. t # Broken
      BY <3>1 DEF JournalAssumption, EventIds
    <3>3. CASE t = e
      BY <1>4, <3>3
    <3>4. CASE t # e
      <4>1. t \in Range(journalFile.lines)
        BY <1>7, <2>1, <3>2, <3>4
      <4>2. t \in Range(onDisk.lines) \cup unsynced
        BY <1>1, <1>2, <1>5, <3>1, <4>1 DEF TraceOK
      <4>3. QED
        BY <1>2, <4>2
    <3>5. QED
      BY <3>3, <3>4
  <2>2. QED
    BY <1>2, <1>5, <2>1 DEF TraceOK
<1>13. TrustedIsDurable'
  BY <1>2, <1>5 DEF TrustedIsDurable, JournalAssumption
<1>14. QED
  BY <1>8, <1>9, <1>10, <1>11, <1>12, <1>13 DEF JournalInv

\* An event that is in the trace is a number, and no broken line.
LEMMA TraceIsEvents ==
  ASSUME JournalAssumption, Types, NEW e \in Range(trace)
  PROVE  e \in EventIds /\ e # Broken
<1>1. e \in EventIds
  BY RangeOf DEF Types
<1>2. QED
  BY <1>1 DEF JournalAssumption, EventIds

LEMMA WriteFailsStep ==
  ASSUME JournalAssumption, JournalInv, NEW c \in Threads, WriteFails(c)
  PROVE  JournalInv'
<1>1. /\ Types /\ AckedOK /\ OnDiskOK /\ EventsOK /\ CallsOK /\ TraceOK /\ TrustedIsDurable
  BY DEF JournalInv
<1>2. /\ UNCHANGED <<next, trace, confirmed, outcome>>
      /\ calls[c].step = "locked" /\ Busy(c) /\ journalLock' = None
      /\ onDisk' \in {onDisk, journalFile'} /\ unsynced' = unsynced \cup {calls[c].event}
  BY DEF WriteFails, Busy
<1>3. /\ calls' \in [Threads -> Calls] /\ calls'[c] = Resting
      /\ \A d \in Threads : d # c => calls'[d] = calls[d]
  BY <1>1, CallGoes, Idling DEF WriteFails, Types
<1>4. /\ journalLock = c /\ outcome = None
      /\ \A d \in Threads : d # c => journalLock # d /\ calls[d].step \notin {"locked", "written"}
      /\ \A d \in Threads : d # c /\ Busy(d) => calls[d].event # calls[c].event
  BY <1>2, Alone
<1>5. PICK e \in EventIds : e = calls[c].event
  BY <1>1, <1>2 DEF EventsOK
<1>6. e \notin Range(journalFile.lines) /\ e \notin Range(confirmed) /\ Broken \notin Range(confirmed)
  <2>1. Broken \notin EventIds
    BY DEF JournalAssumption, EventIds
  <2>2. Broken \notin Range(confirmed)
    BY <1>1, <2>1, RangeOf DEF Types
  <2>3. QED
    BY <1>1, <1>2, <1>5, <2>2 DEF CallsOK, CallOK
<1>7. /\ FileOK(journalFile') /\ FileOK(onDisk')
      /\ Range(journalFile'.lines) \subseteq Range(journalFile.lines) \cup {e, Broken}
      /\ Confirms(journalFile'.lines, confirmed) /\ Confirms(onDisk'.lines, confirmed)
      /\ OnDiskOK'
  <2>1. /\ FileOK(journalFile) /\ FileOK(onDisk) /\ confirmed \in Seq(EventIds)
        /\ Confirms(journalFile.lines, confirmed) /\ Confirms(onDisk.lines, confirmed)
    BY <1>1 DEF Types, AckedOK
  <2>2. CASE journalFile' = journalFile
    <3>1. onDisk' = onDisk => OnDiskOK'
      BY <1>1, <2>2 DEF OnDiskOK
    <3>2. onDisk' = journalFile' => OnDiskOK'
      BY <2>1, <2>2, SyncedStands
    <3>3. QED
      BY <1>2, <2>1, <2>2, <3>1, <3>2
  <2>3. ASSUME NEW line \in {Broken, e}, journalFile' = With(journalFile, line, TRUE)
        PROVE  /\ FileOK(journalFile') /\ FileOK(onDisk')
               /\ Range(journalFile'.lines) \subseteq Range(journalFile.lines) \cup {e, Broken}
               /\ Confirms(journalFile'.lines, confirmed) /\ Confirms(onDisk'.lines, confirmed)
               /\ OnDiskOK'
    <3>1. line \in EventIds \cup {Broken} /\ line \notin Range(confirmed) /\ TRUE \in BOOLEAN
      BY <1>5, <1>6, <2>3
    <3>2. FileOK(journalFile')
      BY <2>1, <2>3, <3>1, WithIs
    <3>3. Range(journalFile'.lines) \subseteq Range(journalFile.lines) \cup {e, Broken}
      <4>1. PICK S : S = EventIds \cup {Broken}
        OBVIOUS
      <4>2. journalFile.lines \in Seq(S) /\ line \in S /\ journalFile.torn \in BOOLEAN
        BY <2>1, <3>1, <4>1 DEF FileOK, JournalLines
      <4>3. CASE journalFile.torn
        <5>1. FileOK(journalFile) /\ line \in EventIds \cup {Broken} /\ TRUE \in BOOLEAN
          BY <2>1, <3>1
        <5>2. Range(With(journalFile, line, TRUE).lines) \subseteq Range(journalFile.lines) \cup {Broken}
          BY <4>3, <5>1, WithIs
        <5>3. QED
          BY <2>3, <5>2
      <4>4. CASE ~journalFile.torn
        <5>1. journalFile'.lines = Append(journalFile.lines, line)
          BY <2>3, <4>4, WithAppends
        <5>2. Range(journalFile'.lines) = Range(journalFile.lines) \cup {line}
          BY <4>2, <5>1, RangeAppend
        <5>3. QED
          BY <2>3, <5>2
      <4>5. QED
        BY <4>2, <4>3, <4>4
    <3>4. Confirms(journalFile'.lines, confirmed)
      BY <2>1, <2>3, <3>1, ConfirmsMore
    <3>5. onDisk' = onDisk => OnDiskOK'
      BY <1>1, <2>1, <2>3, <3>1, WrittenStands
    <3>6. onDisk' = journalFile' => OnDiskOK'
      BY <3>2, SyncedStands
    <3>7. QED
      BY <1>2, <2>1, <3>2, <3>3, <3>4, <3>5, <3>6
  <2>4. QED
    BY <1>5, <2>2, <2>3 DEF WriteFails
<1>8. /\ Range(onDisk'.lines) \subseteq Range(onDisk.lines) \cup Range(journalFile.lines) \cup {e, Broken}
      /\ Types' /\ AckedOK'
  BY <1>1, <1>2, <1>3, <1>5, <1>7 DEF Types, AckedOK
<1>9. EventsOK'
  BY <1>2, <1>3, <1>5, <1>7, <1>8, EventsKept
<1>10. CallsOK'
  <2>1. c # None
    BY DEF JournalAssumption
  <2>2. CallOK(c)'
    BY <1>2, <1>3, <2>1, CallOver
  <2>3. ASSUME NEW d \in Threads, d # c PROVE CallOK(d)'
    <3>1. journalLock' = d <=> journalLock = d
      BY <1>2, <1>4, <2>3 DEF JournalAssumption
    <3>2. QED
      BY <1>2, <1>3, <1>4, <1>5, <1>7, <1>8, <2>3, <3>1, CallKept
  <2>4. QED
    BY <2>2, <2>3 DEF CallsOK
<1>11. TraceOK'
  <2>1. ASSUME NEW t \in Range(trace'), t \in Range(journalFile'.lines)
        PROVE  t \in Range(onDisk'.lines) \cup unsynced'
    <3>1. t \in Range(trace) /\ t # Broken
      BY <1>1, <1>2, <2>1, TraceIsEvents
    <3>2. t \in Range(journalFile.lines) \/ t = e
      BY <1>7, <2>1, <3>1
    <3>3. \A d \in Threads : calls[d].step # "written"
      BY <1>2, <1>4
    <3>4. t \in Range(onDisk.lines) \cup unsynced \/ t = e
      BY <1>1, <3>1, <3>2, <3>3 DEF TraceOK
    <3>5. QED
      BY <1>2, <1>5, <2>1, <3>4
  <2>2. QED
    BY <1>2, <1>4, <2>1 DEF TraceOK
<1>12. TrustedIsDurable'
  BY <1>2, <1>4 DEF TrustedIsDurable, JournalAssumption
<1>13. QED
  BY <1>7, <1>8, <1>9, <1>10, <1>11, <1>12 DEF JournalInv

LEMMA SyncStep ==
  ASSUME JournalAssumption, JournalInv, NEW c \in Threads, SyncReceipt(c)
  PROVE  JournalInv'
<1>1. /\ Types /\ AckedOK /\ OnDiskOK /\ EventsOK /\ CallsOK /\ TraceOK /\ TrustedIsDurable
  BY DEF JournalInv
<1>2. /\ UNCHANGED <<journalFile, next, trace, unsynced, outcome>>
      /\ calls[c].step = "written" /\ Busy(c) /\ journalLock' = None /\ onDisk' = journalFile
  BY DEF SyncReceipt, Busy
<1>3. PICK e \in EventIds : e = calls[c].event
  BY <1>1, <1>2 DEF EventsOK
<1>4. /\ calls' \in [Threads -> Calls] /\ calls'[c] = Resting
      /\ \A d \in Threads : d # c => calls'[d] = calls[d]
  BY <1>1, CallGoes, Idling DEF SyncReceipt, Types
<1>5. /\ journalLock = c /\ outcome = None /\ e \notin Range(confirmed)
      /\ \A d \in Threads : d # c => journalLock # d /\ calls[d].step \notin {"locked", "written"}
      /\ \A d \in Threads : d # c /\ Busy(d) => calls[d].event # e
  BY <1>2, <1>3, Alone
<1>6. /\ confirmed' = Append(confirmed, e) /\ confirmed' \in Seq(EventIds)
      /\ Range(confirmed') = Range(confirmed) \cup {e}
  BY <1>1, <1>3, RangeAppend DEF SyncReceipt, Types
<1>7. Types'
  BY <1>1, <1>2, <1>4, <1>6 DEF Types, FileOK
<1>8. AckedOK' /\ OnDiskOK'
  <2>1. \/ Broken \in Range(journalFile.lines) /\ e \notin Range(journalFile.lines)
        \/ /\ journalFile.lines # <<>> /\ journalFile.lines[Len(journalFile.lines)] = e
           /\ \A i \in 1..(Len(journalFile.lines) - 1) : journalFile.lines[i] # e
    BY <1>1, <1>2, <1>3 DEF CallsOK, CallOK
  <2>2. /\ journalFile.lines \in JournalLines /\ confirmed \in Seq(EventIds)
        /\ Confirms(journalFile.lines, confirmed) /\ Once(confirmed)
    BY <1>1 DEF Types, FileOK, AckedOK
  <2>3. Confirms(journalFile.lines, Append(confirmed, e)) /\ Once(Append(confirmed, e))
    BY <1>5, <2>1, <2>2, ConfirmsLast
  <2>4. OnDiskOK'
    BY <1>2, <1>7, SyncedStands DEF Types
  <2>5. QED
    BY <1>2, <1>6, <2>3, <2>4 DEF AckedOK
<1>9. EventsOK'
  BY <1>2, <1>3, <1>4, <1>6, EventsKept
<1>10. CallsOK'
  <2>1. c # None
    BY DEF JournalAssumption
  <2>2. CallOK(c)'
    BY <1>2, <1>4, <2>1, CallOver
  <2>3. ASSUME NEW d \in Threads, d # c PROVE CallOK(d)'
    <3>1. journalLock' = d <=> journalLock = d
      BY <1>2, <1>5, <2>3 DEF JournalAssumption
    <3>2. QED
      BY <1>2, <1>4, <1>5, <1>6, <2>3, <3>1, CallKept
  <2>4. QED
    BY <2>2, <2>3 DEF CallsOK
<1>11. TraceOK'
  BY <1>2, <1>5 DEF TraceOK
<1>12. TrustedIsDurable'
  BY <1>2, <1>5 DEF TrustedIsDurable, JournalAssumption
<1>13. QED
  BY <1>7, <1>8, <1>9, <1>10, <1>11, <1>12 DEF JournalInv

LEMMA SyncFailsStep ==
  ASSUME JournalAssumption, JournalInv, NEW c \in Threads, SyncFails(c)
  PROVE  JournalInv'
<1>1. /\ Types /\ AckedOK /\ OnDiskOK /\ EventsOK /\ CallsOK /\ TraceOK
  BY DEF JournalInv
<1>2. /\ UNCHANGED <<journalFile, onDisk, next, trace, confirmed, outcome>>
      /\ calls[c].step = "written" /\ Busy(c) /\ journalLock' = None
      /\ unsynced' = unsynced \cup {calls[c].event}
  BY DEF SyncFails, Busy
<1>3. /\ calls' \in [Threads -> Calls] /\ calls'[c] = Resting
      /\ \A d \in Threads : d # c => calls'[d] = calls[d]
  BY <1>1, CallGoes, Idling DEF SyncFails, Types
<1>4. /\ journalLock = c /\ outcome = None /\ calls[c].event \in EventIds
      /\ \A d \in Threads : d # c => journalLock # d /\ calls[d].step \notin {"locked", "written"}
      /\ \A d \in Threads : d # c /\ Busy(d) => calls[d].event # calls[c].event
  BY <1>2, Alone
<1>5. Types' /\ AckedOK' /\ OnDiskOK'
  BY <1>1, <1>2, <1>3, <1>4 DEF Types, FileOK, AckedOK, OnDiskOK
<1>6. EventsOK'
  BY <1>2, <1>3, EventsKept
<1>7. CallsOK'
  <2>1. c # None
    BY DEF JournalAssumption
  <2>2. CallOK(c)'
    BY <1>2, <1>3, <2>1, CallOver
  <2>3. ASSUME NEW d \in Threads, d # c PROVE CallOK(d)'
    <3>1. journalLock' = d <=> journalLock = d
      BY <1>2, <1>4, <2>3 DEF JournalAssumption
    <3>2. QED
      BY <1>2, <1>3, <1>4, <2>3, <3>1, CallKept
  <2>4. QED
    BY <2>2, <2>3 DEF CallsOK
<1>8. TraceOK'
  BY <1>1, <1>2, <1>4 DEF TraceOK
<1>9. TrustedIsDurable'
  BY <1>2, <1>4 DEF TrustedIsDurable, JournalAssumption
<1>10. QED
  BY <1>5, <1>6, <1>7, <1>8, <1>9 DEF JournalInv

\* What only changes what was read, or the task under way, once no call is.
LEMMA CallsStand ==
  ASSUME JournalInv, UNCHANGED <<journalFile, onDisk, journalLock, calls, next, confirmed, unsynced>>,
         trace' = trace \/ trace' = <<>>
  PROVE  /\ AckedOK' /\ OnDiskOK' /\ EventsOK' /\ CallsOK' /\ trace' \in Seq(EventIds)
         /\ Range(trace') \subseteq Range(trace)
<1>1. /\ Types /\ AckedOK /\ OnDiskOK /\ EventsOK /\ CallsOK
  BY DEF JournalInv
<1>2. trace' \in Seq(EventIds) /\ Range(trace') \subseteq Range(trace)
  <2>1. CASE trace' = trace
    BY <1>1, <2>1 DEF Types
  <2>2. CASE trace' = <<>>
    BY <2>2 DEF Range
  <2>3. QED
    BY <2>1, <2>2
<1>3. AckedOK' /\ OnDiskOK'
  BY <1>1 DEF AckedOK, OnDiskOK
<1>4. EventsOK'
  BY <1>1, <1>2 DEF EventsOK, Busy
<1>5. CallsOK'
  BY <1>1 DEF CallsOK, CallOK, Busy
<1>6. QED
  BY <1>2, <1>3, <1>4, <1>5

LEMMA ReadStep ==
  ASSUME JournalInv, Read \/ UNCHANGED journalVars
  PROVE  JournalInv'
<1>1. UNCHANGED <<journalFile, onDisk, journalLock, calls, next, trace, confirmed, unsynced, outcome>>
  BY DEF Read, journalVars
<1>2. AckedOK' /\ OnDiskOK' /\ EventsOK' /\ CallsOK'
  BY <1>1, CallsStand
<1>3. Types'
  BY <1>1 DEF JournalInv, Types, FileOK
<1>4. TraceOK' /\ TrustedIsDurable'
  BY <1>1 DEF JournalInv, TraceOK, Busy, TrustedIsDurable
<1>5. QED
  BY <1>2, <1>3, <1>4 DEF JournalInv

\* The task is trusted for what was read, and what was read is on the disk.
LEMMA SettleStep ==
  ASSUME JournalAssumption, JournalInv, Settle
  PROVE  JournalInv'
<1>1. /\ UNCHANGED <<journalFile, onDisk, journalLock, calls, next, trace, confirmed, unsynced>>
      /\ \A c \in Threads : calls[c] = Resting
      /\ outcome' \in {"trusted", "refused"}
  BY DEF Settle
<1>2. AckedOK' /\ OnDiskOK' /\ EventsOK' /\ CallsOK'
  BY <1>1, CallsStand
<1>3. Types'
  BY <1>1 DEF JournalInv, Types, FileOK
<1>4. \A c \in Threads : ~Busy(c) /\ calls[c].step # "written"
  BY <1>1, Idling DEF Busy
<1>5. TraceOK'
  BY <1>1, <1>4 DEF JournalInv, TraceOK, Busy
<1>6. TrustedIsDurable'
  <2>1. ASSUME outcome' = "trusted", NEW e \in Range(trace) \ unsynced PROVE e \in Range(onDisk.lines)
    <3>1. seen' = ReadOf(journalFile) /\ seen' # Unreadable /\ e \in Range(seen')
      BY <2>1 DEF Settle
    <3>2. e \in Range(journalFile.lines)
      BY <3>1 DEF ReadOf
    <3>3. QED
      BY <1>4, <2>1, <3>2 DEF JournalInv, TraceOK
  <2>2. QED
    BY <1>1, <2>1 DEF TrustedIsDurable
<1>7. QED
  BY <1>2, <1>3, <1>5, <1>6 DEF JournalInv

LEMMA RetryStep ==
  ASSUME JournalAssumption, JournalInv, Retry
  PROVE  JournalInv'
<1>1. /\ UNCHANGED <<journalFile, onDisk, journalLock, calls, next, confirmed, unsynced>>
      /\ trace' = <<>> /\ outcome' = None
  BY DEF Retry
<1>2. AckedOK' /\ OnDiskOK' /\ EventsOK' /\ CallsOK' /\ trace' \in Seq(EventIds)
  BY <1>1, CallsStand
<1>3. Types'
  BY <1>1, <1>2 DEF JournalInv, Types, FileOK
<1>4. TraceOK' /\ TrustedIsDurable'
  BY <1>1 DEF TraceOK, Range, TrustedIsDurable, JournalAssumption
<1>5. QED
  BY <1>2, <1>3, <1>4 DEF JournalInv

\* The machine stops: what it leaves can be read only if it has what was confirmed.
LEMMA CrashStep ==
  ASSUME JournalAssumption, JournalInv, MachineStops
  PROVE  JournalInv'
<1>1. /\ Types /\ AckedOK /\ OnDiskOK /\ EventsOK
  BY DEF JournalInv
<1>2. /\ UNCHANGED <<next, confirmed>> /\ journalLock' = None /\ outcome' = None
      /\ trace' = <<>> /\ trace' \in Seq(EventIds) /\ Range(trace') = {} /\ unsynced' = {}
      /\ calls' \in [Threads -> Calls] /\ \A c \in Threads : calls'[c] = Resting
  BY Idling DEF MachineStops, Range
<1>12. PICK f \in Cuts : \E g \in Remaining(f), lost \in SUBSET unsynced :
        journalFile' = Holed(g, lost) /\ onDisk' = Holed(g, lost)
  BY DEF MachineStops
<1>3. PICK g \in Remaining(f), lost \in SUBSET unsynced :
        journalFile' = Holed(g, lost) /\ onDisk' = Holed(g, lost)
  BY <1>12
<1>4. /\ FileOK(journalFile') /\ Confirms(journalFile'.lines, confirmed) /\ onDisk' = journalFile'
      /\ Range(journalFile'.lines) \subseteq Range(journalFile.lines) \cup Range(onDisk.lines) \cup {Broken}
  <2>1. Left(g)
    <3>1. Left(f)
      BY <1>1, CutIsLeft
    <3>2. CASE g = f
      BY <3>1, <3>2
    <3>3. ASSUME NEW line \in {Broken, LineAfter(f)}, g = With(f, line, TRUE) PROVE Left(g)
      BY <1>1, <3>3, PartIsLeft
    <3>4. g = f \/ \E line \in {Broken, LineAfter(f)} : g = With(f, line, TRUE)
      BY DEF Remaining
    <3>5. QED
      BY <3>2, <3>3, <3>4
  <2>2. Left(Holed(g, lost))
    BY <2>1, HoledIsLeft
  <2>3. FileOK(Holed(g, lost))
    BY <2>2 DEF Left
  <2>4. QED
    BY <1>1, <1>3, <2>2, <2>3, LeftIsTrue
<1>5. Types'
  BY <1>1, <1>2, <1>4 DEF Types
<1>6. AckedOK' /\ OnDiskOK'
  BY <1>1, <1>2, <1>4, SyncedStands DEF AckedOK
<1>7. \A c \in Threads : ~Busy(c)' /\ c # None
  BY <1>2, Idling DEF Busy, JournalAssumption
<1>8. EventsOK'
  <2>1. \A e \in EventIds : e # Broken
    BY DEF JournalAssumption, EventIds
  <2>2. (\A e \in EventIds :
           e \in Range(journalFile.lines) \cup Range(onDisk.lines) \cup Range(confirmed) \cup Range(trace) =>
             e < next)'
    BY <1>1, <1>2, <1>4, <2>1 DEF EventsOK
  <2>3. QED
    BY <1>2, <1>7, <2>2 DEF EventsOK
<1>9. CallsOK'
  BY <1>2, <1>7, CallOver DEF CallsOK
<1>10. TraceOK' /\ TrustedIsDurable'
  BY <1>2 DEF TraceOK, TrustedIsDurable, JournalAssumption
<1>11. QED
  BY <1>5, <1>6, <1>8, <1>9, <1>10 DEF JournalInv

-----------------------------------------------------------------------------
(* The theorems.                                                           *)

\* The invariant holds in every state.
THEOREM JournalInvHolds == ASSUME JournalAssumption PROVE JournalSpec => []JournalInv
<1>1. JournalInit => JournalInv
  BY InitJournalInv
<1>2. JournalInv /\ [JournalNext]_journalVars => JournalInv'
  <2> SUFFICES ASSUME JournalInv, [JournalNext]_journalVars PROVE JournalInv'
    OBVIOUS
  <2>1. ASSUME NEW c \in Threads, Record(c) PROVE JournalInv'
    BY <2>1, RecordStep
  <2>2. ASSUME NEW c \in Threads, Lock(c) PROVE JournalInv'
    BY <2>2, LockStep
  <2>3. ASSUME NEW c \in Threads, WriteReceipt(c) PROVE JournalInv'
    BY <2>3, WriteStep
  <2>4. ASSUME NEW c \in Threads, WriteFails(c) PROVE JournalInv'
    BY <2>4, WriteFailsStep
  <2>5. ASSUME NEW c \in Threads, SyncReceipt(c) PROVE JournalInv'
    BY <2>5, SyncStep
  <2>10. ASSUME NEW c \in Threads, SyncFails(c) PROVE JournalInv'
    BY <2>10, SyncFailsStep
  <2>6. CASE Read \/ UNCHANGED journalVars
    BY <2>6, ReadStep
  <2>7. CASE Settle
    BY <2>7, SettleStep
  <2>8. CASE Retry
    BY <2>8, RetryStep
  <2>9. CASE MachineStops
    BY <2>9, CrashStep
  <2>11. QED
    BY <2>1, <2>2, <2>3, <2>4, <2>5, <2>6, <2>7, <2>8, <2>9, <2>10 DEF JournalNext
<1>3. QED
  BY <1>1, <1>2, PTL DEF JournalSpec

\* A reading of the journal that succeeds has every confirmed event, once and in its order,
\* and what a task was trusted for is on the disk, but for the events whose append failed
\* after the record was written; whatever writes and syncs failed and whatever crashed
\* (private_receipt_journal.PrivateReceiptJournal, ouroboros_backend._aga_receipts).
THEOREM ReceiptsAreKept == ASSUME JournalAssumption PROVE JournalSpec => []ReceiptsKept
<1>1. JournalInv => ReceiptsKept
  <2> SUFFICES ASSUME JournalInv PROVE ReceiptsKept
    OBVIOUS
  <2>1. ReadOf(journalFile) # Unreadable => ReadOf(journalFile) = journalFile.lines /\ Broken \notin Range(journalFile.lines)
    BY DEF ReadOf
  <2>2. Confirms(journalFile.lines, confirmed) /\ Once(confirmed)
    BY DEF JournalInv, AckedOK
  <2>3. AcknowledgedIsRead
    BY <2>1, <2>2 DEF AcknowledgedIsRead, Confirms, Ordered, Once
  <2>4. QED
    BY <2>3 DEF ReceiptsKept, JournalInv
<1>2. QED
  BY <1>1, JournalInvHolds, PTL
=============================================================================

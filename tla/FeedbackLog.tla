------------------------------ MODULE FeedbackLog ------------------------------
(***************************************************************************)
(* The append-only log of reviews and of what architects did with them     *)
(* (tools/feedback.py), and the command that records an action and makes   *)
(* a precedent of it (scripts/record_action.py).                           *)
(*                                                                         *)
(* Commands are processes.  They open the log by its name, wait for the    *)
(* lock of the file they opened, and decide, write and sync under it; the  *)
(* log may be moved away while they wait or work.  A line is an event, or  *)
(* Torn: the part of an event that an interrupted write leaves.  A crash   *)
(* of the machine keeps what was synced and any part of the rest; names of *)
(* files are assumed to survive it, although no directory is synced.       *)
(***************************************************************************)
EXTENDS Naturals, Sequences, FiniteSets, SequencesExt, Nothing

CONSTANTS
  Processes,
  ReviewIds,
  Precedents,   \* their ids
  MaxRecords,   \* MAX_FEEDBACK_LOG_RECORDS
  MaxFiles,     \* bound: files that ever have the name of the log
  MaxCommands,  \* bound: commands
  Torn

\* review: log_review; the others: record_architect_action, where override is an action with
\* --precedent-id (override or missed) and accept is any action without.
Kinds == {"review", "accept", "override"}

Events == [kind : Kinds, review : ReviewIds]

Files == 1 .. MaxFiles

FeedbackAssumption ==
  /\ MaxRecords \in Nat /\ MaxFiles \in Nat \ {0} /\ MaxCommands \in Nat
  /\ None \notin Processes /\ None \notin ReviewIds /\ None \notin Files
  /\ None \notin Precedents
  /\ Torn \notin ReviewIds /\ Torn \notin Events

VARIABLES
  file,      \* the lines of each file
  durable,   \* what a crash leaves of them
  named,     \* the file that has the name of the log
  holder,    \* the holder of each file's lock
  proc,      \* the command of each process
  commands,  \* commands begun
  acked,     \* what commands were told is recorded, and in which file
  precedent  \* the precedent files: absent, Torn, or of a review

logVars == <<file, durable, named, holder, proc, commands, acked, precedent>>

NoCommand == [kind |-> None, review |-> None, wants |-> None, fd |-> None, step |-> "idle"]

Event(p) == [kind |-> proc[p].kind, review |-> proc[p].review]

LogInit ==
  /\ file = [f \in Files |-> <<>>] /\ durable = file
  /\ named = None
  /\ holder = [f \in Files |-> None]
  /\ proc = [p \in Processes |-> NoCommand]
  /\ commands = 0
  /\ acked = {}
  /\ precedent = [x \in Precedents |-> None]

-----------------------------------------------------------------------------
(* The file.                                                               *)

\* _read_jsonl_descriptor is strict: one line that does not parse, or one too many, and the
\* log is not read at all.
Readable(lines) == Torn \notin Range(lines) /\ Len(lines) <= MaxRecords

\* _find_review, _action_for_review.
Reviewed(lines, r) == [kind |-> "review", review |-> r] \in Range(lines)
Acted(lines, r) == \E k \in Kinds \ {"review"} : [kind |-> k, review |-> r] \in Range(lines)

\* mutant
AnyoneLocks(f) == TRUE

\* flock(LOCK_EX).
MayLock(f) == holder[f] = None

Released(p) == [f \in Files |-> IF holder[f] = p THEN None ELSE holder[f]]

\* The command ends: the context manager gives the lock back.
End(p) == proc' = [proc EXCEPT ![p] = NoCommand] /\ holder' = Released(p)

\* _assert_open_identity: the name still means the file that was opened.
SameFile(p) == named = proc[p].fd

-----------------------------------------------------------------------------
(* A command.                                                              *)

Begin(p) ==
  /\ proc[p] = NoCommand /\ commands < MaxCommands
  /\ \E k \in Kinds, r \in ReviewIds, x \in Precedents \cup {None} :
       /\ (x # None) = (k = "override")
       /\ proc' = [proc EXCEPT ![p] = [kind |-> k, review |-> r, wants |-> x, fd |-> None,
                                       step |-> "open"]]
  /\ commands' = commands + 1
  /\ UNCHANGED <<file, durable, named, holder, acked, precedent>>

\* _open_log: the file that has the name, or a new one; of two processes that create it one
\* wins (O_EXCL) and the other opens what it made.
Open(p) ==
  /\ proc[p].step = "open"
  /\ IF named # None
       THEN proc' = [proc EXCEPT ![p].fd = named, ![p].step = "wait"] /\ UNCHANGED named
       ELSE \E f \in Files :
              /\ file[f] = <<>> /\ \A q \in Processes : proc[q].fd # f
              /\ named' = f
              /\ proc' = [proc EXCEPT ![p].fd = f, ![p].step = "wait"]
  /\ UNCHANGED <<file, durable, holder, commands, acked, precedent>>

\* _locked_log: the lock is had, but perhaps of a file that was moved away meanwhile.
Acquire(p) ==
  /\ proc[p].step = "wait" /\ MayLock(proc[p].fd)
  /\ IF SameFile(p)
       THEN /\ holder' = [holder EXCEPT ![proc[p].fd] = p]
            /\ proc' = [proc EXCEPT ![p].step = "decide"]
       ELSE End(p)
  /\ UNCHANGED <<file, durable, named, commands, acked, precedent>>

\* The log is read. A review is recorded once; an action about a review that is in the log,
\* and only the first one.
Decide(p) ==
  LET lines == file[proc[p].fd]
      r == proc[p].review
  IN
  /\ proc[p].step = "decide"
  /\ IF /\ SameFile(p) /\ Readable(lines) /\ Len(lines) < MaxRecords
        /\ IF proc[p].kind = "review" THEN ~Reviewed(lines, r)
                                      ELSE Reviewed(lines, r) /\ ~Acted(lines, r)
       THEN proc' = [proc EXCEPT ![p].step = "write"] /\ UNCHANGED holder
       ELSE End(p)
  /\ UNCHANGED <<file, durable, named, commands, acked, precedent>>

\* _append_encoded_descriptor.
Write(p) ==
  /\ proc[p].step = "write"
  /\ file' = [file EXCEPT ![proc[p].fd] = Append(@, Event(p))]
  /\ proc' = [proc EXCEPT ![p].step = "sync"]
  /\ UNCHANGED <<durable, named, holder, commands, acked, precedent>>

Sync(p) ==
  /\ proc[p].step = "sync"
  /\ durable' = [durable EXCEPT ![proc[p].fd] = file[proc[p].fd]]
  /\ proc' = [proc EXCEPT ![p].step = "ack"]
  /\ UNCHANGED <<file, named, holder, commands, acked, precedent>>

\* os.write or os.fsync fails; what was written is not taken back.
AppendFails(p) ==
  /\ proc[p].step \in {"write", "sync"}
  /\ \/ UNCHANGED file
     \/ /\ proc[p].step = "write"
        /\ file' = [file EXCEPT ![proc[p].fd] = Append(@, Torn)]
  /\ End(p)
  /\ UNCHANGED <<durable, named, commands, acked, precedent>>

\* The name is looked at once more; then the command is told. record_action.py goes on to the
\* precedent.
Acknowledge(p) ==
  /\ proc[p].step = "ack"
  /\ holder' = Released(p)
  /\ acked' = IF SameFile(p) THEN acked \cup {<<proc[p].fd, Event(p)>>} ELSE acked
  /\ proc' = IF SameFile(p) /\ proc[p].wants # None
               THEN [proc EXCEPT ![p].step = "select"] ELSE [proc EXCEPT ![p] = NoCommand]
  /\ UNCHANGED <<file, durable, named, commands, precedent>>

\* generate_pending_precedent: the log is read again, under a shared lock, by its name; the
\* finding the override is about must be determined (found); the precedent is created, never
\* overwritten.
CreatePrecedent(p) ==
  /\ proc[p].step = "select"
  /\ named # None => holder[named] = None
  /\ \E found \in BOOLEAN :
     IF /\ found /\ named # None /\ Readable(file[named])
        /\ Reviewed(file[named], proc[p].review)
        /\ [kind |-> "override", review |-> proc[p].review] \in Range(file[named])
        /\ precedent[proc[p].wants] = None
       THEN /\ precedent' = [precedent EXCEPT ![proc[p].wants] = Torn]
            /\ proc' = [proc EXCEPT ![p].step = "fill"]
       ELSE proc' = [proc EXCEPT ![p] = NoCommand] /\ UNCHANGED precedent
  /\ UNCHANGED <<file, durable, named, holder, commands, acked>>

\* Written and synced, or removed when that fails.
Fill(p) ==
  /\ proc[p].step = "fill"
  /\ \E x \in {None, proc[p].review} : precedent' = [precedent EXCEPT ![proc[p].wants] = x]
  /\ proc' = [proc EXCEPT ![p] = NoCommand]
  /\ UNCHANGED <<file, durable, named, holder, commands, acked>>

-----------------------------------------------------------------------------
(* Faults, and the owner of the directory.                                 *)

Kill(p) ==
  /\ proc[p].step \notin {"idle", "open"}
  /\ \/ UNCHANGED file
     \/ /\ proc[p].step = "write"
        /\ file' = [file EXCEPT ![proc[p].fd] = Append(@, Torn)]
  /\ End(p)
  /\ UNCHANGED <<durable, named, commands, acked, precedent>>

Crash ==
  /\ file' \in {g \in [Files -> {file[f] : f \in Files} \cup {durable[f] : f \in Files}
                                \cup {Append(durable[f], Torn) : f \in Files}] :
                  \A f \in Files :
                    \/ g[f] \in {file[f], durable[f]}
                    \/ file[f] # durable[f] /\ g[f] = Append(durable[f], Torn)}
  /\ durable' = file'
  /\ holder' = [f \in Files |-> None]
  /\ proc' = [p \in Processes |-> NoCommand]
  /\ UNCHANGED <<named, commands, acked, precedent>>

\* The log is moved away.
Rotate ==
  /\ named # None /\ file[named] # <<>>
  /\ named' = None
  /\ UNCHANGED <<file, durable, holder, proc, commands, acked, precedent>>

LogNext ==
  \/ \E p \in Processes :
       \/ Begin(p) \/ Open(p) \/ Acquire(p) \/ Decide(p) \/ Write(p) \/ Sync(p)
       \/ AppendFails(p) \/ Acknowledge(p) \/ CreatePrecedent(p) \/ Fill(p) \/ Kill(p)
  \/ Crash \/ Rotate

LogSpec == LogInit /\ [][LogNext]_logVars

-----------------------------------------------------------------------------
(* Properties.                                                             *)

\* A log has one review of an id, and one action, which comes after its review, whatever
\* processes race, fail or are killed and whatever crashes there are.
EventsUnique ==
  \A f \in Files : \A i, j \in 1 .. Len(file[f]) :
    /\ file[f][i] # Torn => Reviewed(SubSeq(file[f], 1, i), file[f][i].review)
    /\ /\ i < j /\ Torn \notin {file[f][i], file[f][j]}
       /\ file[f][i].review = file[f][j].review
       => file[f][i].kind = "review" /\ file[f][j].kind # "review"

\* Nothing is written after a line that is torn: the log is refused for good, and what it has
\* is not glued to something else.
TornIsLast ==
  \A f \in Files : \A i \in 1 .. Len(file[f]) : file[f][i] = Torn => i = Len(file[f])

\* What a command was told is recorded is on the disk and stays there.
AcknowledgedStays == \A a \in acked : a[2] \in Range(durable[a[1]])

\* A precedent is of an override an architect was told is recorded.
PrecedentIsDecided ==
  \A x \in Precedents : precedent[x] \in ReviewIds =>
    \E f \in Files : <<f, [kind |-> "override", review |-> precedent[x]]>> \in acked

\* The log has one review of an id and one action after it, and nothing after a torn line;
\* what a command was told is recorded stays, and a precedent is of an override that was.
FeedbackIsKept == EventsUnique /\ TornIsLast /\ AcknowledgedStays /\ PrecedentIsDecided

\* An override that wanted a precedent gets it, now or by the same command again: it does
\* not hold. The action is recorded first, and a second command is a duplicate.
PrecedentComes ==
  \A r \in ReviewIds : \A f \in Files :
    /\ <<f, [kind |-> "override", review |-> r]>> \in acked
    /\ \A p \in Processes : proc[p] = NoCommand
    => \E x \in Precedents : precedent[x] = r

\* The log can always be read: it does not hold. A write that fails half-way is the end of it.
LogStaysReadable == \A f \in Files : Readable(file[f])
=============================================================================

----------------------------- MODULE ReceiptJournal ----------------------------
(***************************************************************************)
(* The owner-only journal of tool receipts, scripts/                       *)
(* private_receipt_journal.py, with the gateway that appends to it after   *)
(* every call (mcp_server._record_trace) and the backend that reads it     *)
(* when the task is over (ouroboros_backend._aga_receipts).                *)
(*                                                                         *)
(* A record is a line, whole or torn.  A torn line does not parse, unless  *)
(* only its newline is missing; what is written after it is glued to it,   *)
(* and the line they make does not parse.  A crash of the machine keeps    *)
(* what was synced and any part of what was not; of a record whose sync    *)
(* failed it may leave a hole, even when a later record was synced.  Sizes *)
(* are counted in records.                                                 *)
(***************************************************************************)
EXTENDS Naturals, Sequences, FiniteSets, SequencesExt, Nothing

CONSTANTS
  Threads,       \* threads of the gateway
  MaxCalls,      \* bound: tool calls
  JournalLimit,  \* MAX_JOURNAL_BYTES
  Broken, Unreadable

JournalAssumption ==
  /\ MaxCalls \in Nat /\ JournalLimit \in Nat
  /\ None \notin Threads \cup {"trusted", "refused"} /\ Broken \notin 1..MaxCalls

VARIABLES
  journalFile,  \* the lines of the journal, and whether the last one is torn
  onDisk,       \* what a crash leaves of it
  journalLock,  \* the holder of the journal's lock
  calls,        \* the event each thread is recording, and how far it is
  next,         \* the next event
  trace,        \* the gateway's own trace, in memory
  confirmed,    \* events whose append returned
  unsynced,     \* events whose append failed: the record may be whole all the same
  seen,         \* what the last reading returned
  outcome       \* of the task under way

journalVars == <<journalFile, onDisk, journalLock, calls, next, trace, confirmed, unsynced, seen,
                 outcome>>

Empty == [lines |-> <<>>, torn |-> FALSE]
Resting  == [event |-> None, step |-> "idle"]

JournalInit ==
  /\ journalFile = Empty /\ onDisk = Empty
  /\ journalLock = None
  /\ calls = [c \in Threads |-> Resting]
  /\ next = 1
  /\ trace = <<>> /\ confirmed = <<>> /\ unsynced = {} /\ seen = <<>>
  /\ outcome = None

-----------------------------------------------------------------------------
(* The file.                                                               *)

\* One more line in f, or one glued to the torn one at its end.
With(f, line, torn) ==
  [lines |-> IF f.torn THEN [f.lines EXCEPT ![Len(f.lines)] = Broken] ELSE Append(f.lines, line),
   torn  |-> torn]

\* mutant
ReadAround(f) == SelectSeq(f.lines, LAMBDA line : line # Broken)

\* read: every line must parse.
ReadOf(f) ==
  IF Broken \in Range(f.lines) \/ Len(f.lines) > JournalLimit THEN Unreadable ELSE f.lines

-----------------------------------------------------------------------------
(* A call and its receipt.                                                 *)

\* The tool is done: the event goes to the trace in memory first.
Record(c) ==
  /\ calls[c] = Resting /\ next <= MaxCalls /\ outcome = None
  /\ calls' = [calls EXCEPT ![c] = [event |-> next, step |-> "ready"]]
  /\ trace' = Append(trace, next)
  /\ next' = next + 1
  /\ UNCHANGED <<journalFile, onDisk, journalLock, confirmed, unsynced, seen, outcome>>

\* The sink takes the lock; a journal that is full refuses the event, and the gateway
\* passes over the refusal.
Lock(c) ==
  /\ calls[c].step = "ready" /\ journalLock = None
  /\ IF Len(journalFile.lines) < JournalLimit
       THEN journalLock' = c /\ calls' = [calls EXCEPT ![c].step = "locked"]
       ELSE calls' = [calls EXCEPT ![c] = Resting] /\ UNCHANGED journalLock
  /\ UNCHANGED <<journalFile, onDisk, next, trace, confirmed, unsynced, seen, outcome>>

WriteReceipt(c) ==
  /\ calls[c].step = "locked"
  /\ journalFile' = With(journalFile, calls[c].event, FALSE)
  /\ calls' = [calls EXCEPT ![c].step = "written"]
  /\ UNCHANGED <<onDisk, journalLock, next, trace, confirmed, unsynced, seen, outcome>>

\* receipt_journal_write_failed, and an error of open or write; a short write may have
\* left out the newline only.
WriteFails(c) ==
  /\ calls[c].step = "locked"
  /\ \E line \in {Broken, calls[c].event} :
       journalFile' \in {journalFile, With(journalFile, line, TRUE)}
  /\ onDisk' \in {onDisk, journalFile'}
  /\ unsynced' = unsynced \cup {calls[c].event}
  /\ calls' = [calls EXCEPT ![c] = Resting]
  /\ journalLock' = None
  /\ UNCHANGED <<next, trace, confirmed, seen, outcome>>

\* os.fsync; the append returns.
SyncReceipt(c) ==
  /\ calls[c].step = "written"
  /\ onDisk' = journalFile
  /\ confirmed' = Append(confirmed, calls[c].event)
  /\ calls' = [calls EXCEPT ![c] = Resting]
  /\ journalLock' = None
  /\ UNCHANGED <<journalFile, next, trace, unsynced, seen, outcome>>

\* os.fsync fails, or os.close, after the whole record was written: the gateway passes
\* over the error, and the record is there for whoever reads the file.
SyncFails(c) ==
  /\ calls[c].step = "written"
  /\ unsynced' = unsynced \cup {calls[c].event}
  /\ calls' = [calls EXCEPT ![c] = Resting]
  /\ journalLock' = None
  /\ UNCHANGED <<journalFile, onDisk, next, trace, confirmed, seen, outcome>>

\* Another process, or a later run, reads the journal.
Read ==
  /\ journalLock = None
  /\ seen' = ReadOf(journalFile)
  /\ UNCHANGED <<journalFile, onDisk, journalLock, calls, next, trace, confirmed, unsynced, outcome>>

\* The task has made its calls, prepare and finalize: their receipts must be there.
Settle ==
  /\ outcome = None /\ journalLock = None
  /\ Len(trace) >= 2 /\ \A c \in Threads : calls[c] = Resting
  /\ seen' = ReadOf(journalFile)
  /\ outcome' = IF seen' # Unreadable /\ Range(trace) \subseteq Range(seen')
                THEN "trusted" ELSE "refused"
  /\ UNCHANGED <<journalFile, onDisk, journalLock, calls, next, trace, confirmed, unsynced>>

\* A new task on the same review appends to the same journal.
Retry ==
  /\ outcome # None
  /\ outcome' = None
  /\ trace' = <<>>
  /\ UNCHANGED <<journalFile, onDisk, journalLock, calls, next, confirmed, unsynced, seen>>

\* What a crash may leave of the lines that were not synced: the first of them.
Cuts ==
  {onDisk, journalFile} \cup
    {[lines |-> SubSeq(journalFile.lines, 1, k), torn |-> FALSE] :
       k \in Len(onDisk.lines)..(Len(journalFile.lines) - 1)}

\* The next line of the journal after those of f.
LineAfter(f) ==
  IF Len(f.lines) < Len(journalFile.lines) THEN journalFile.lines[Len(f.lines) + 1] ELSE Broken

\* Those lines, and a part of the next one, which may lack its newline only.
Remaining(f) ==
  IF f = journalFile THEN {f}
                     ELSE {f, With(f, Broken, TRUE), With(f, LineAfter(f), TRUE)}

\* f with holes where the records of lost were.
Holed(f, lost) ==
  [f EXCEPT !.lines = [i \in 1..Len(f.lines) |->
                         IF f.lines[i] \in lost THEN Broken ELSE f.lines[i]]]

MachineStops ==
  /\ \E f \in Cuts : \E g \in Remaining(f), lost \in SUBSET unsynced :
       journalFile' = Holed(g, lost) /\ onDisk' = Holed(g, lost)
  /\ journalLock' = None
  /\ calls' = [c \in Threads |-> Resting]
  /\ trace' = <<>> /\ outcome' = None /\ unsynced' = {}
  /\ UNCHANGED <<next, confirmed, seen>>

JournalNext ==
  \/ \E c \in Threads : \/ Record(c) \/ Lock(c) \/ WriteReceipt(c) \/ WriteFails(c)
                       \/ SyncReceipt(c) \/ SyncFails(c)
  \/ Read \/ Settle \/ Retry \/ MachineStops

JournalSpec == JournalInit /\ [][JournalNext]_journalVars

-----------------------------------------------------------------------------
(* Properties.                                                             *)

\* A reading that succeeds has every event whose append returned, once, and in the order
\* they returned in, whatever writes failed and whatever crashes there were in between.
AcknowledgedIsRead ==
  LET lines == ReadOf(journalFile) IN
  lines # Unreadable =>
    /\ Range(confirmed) \subseteq Range(lines)
    /\ \A i, j \in 1..Len(lines) : i < j /\ {lines[i], lines[j]} \subseteq Range(confirmed) =>
         \E m, n \in 1..Len(confirmed) : m < n /\ confirmed[m] = lines[i] /\ confirmed[n] = lines[j]
    /\ \A m, n \in 1..Len(confirmed) : confirmed[m] = confirmed[n] => m = n

\* The receipts a task was trusted for are on the disk, but for those the journal failed
\* to append and that can be read all the same.
TrustedIsDurable ==
  outcome = "trusted" => Range(trace) \ unsynced \subseteq Range(onDisk.lines)

\* What the journal confirmed is read or nothing is, and what was trusted because of it
\* is on the disk.
ReceiptsKept == AcknowledgedIsRead /\ TrustedIsDurable

\* What does not hold: every receipt a task was trusted for survives a crash.
TrustedStaysOnDisk == outcome = "trusted" => Range(trace) \subseteq Range(onDisk.lines)

\* Whether a task whose calls were all answered is trusted does not depend on the journal.
JournalDecidesNothing == outcome # "refused"
=============================================================================

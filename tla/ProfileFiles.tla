---------------------------- MODULE ProfileFiles ----------------------------
(***************************************************************************)
(* The settings and the instruction skill of the profile                   *)
(* (scripts/ouroboros_profile.py: sync, init and configure-key).           *)
(*                                                                         *)
(* Every command is a process of its own and nothing keeps two of them     *)
(* apart: the user interface runs sync whenever it switches the model.     *)
(* Settings are read, merged and replaced as a whole; the skill is copied  *)
(* beside the old one, which is moved away and then replaced.  A directory *)
(* is named by the version in it: a whole one, a mixture of two, or what a *)
(* removal left of one.                                                    *)
(***************************************************************************)
EXTENDS Naturals, FiniteSets

CONSTANTS
  None,
  Syncs, Keys,    \* commands: sync (or init), and configure-key
  NewKey,
  FirstKeys,      \* what the profile may have as its key at first
  MaxTroubles     \* bound: file operations that fail and commands that are killed

VARIABLES
  settings,   \* settings.json: its key and the model of its managed part
  skill,      \* the skill directory: what is in it, None when there is none
  source,     \* the version in the repository
  beside,     \* [command -> its staging and backup directory]
  trouble,    \* the steps at which a file operation failed, and whether a command was killed
  cmd         \* [command -> where it is, what it read, its answer]

vars == <<settings, skill, source, beside, trouble, cmd>>

Commands == Syncs \cup Keys

Whole == {1, 2}
Mixed == 3
Part  == 4

Init ==
  /\ \E k \in FirstKeys : settings = [key |-> k, by |-> None]
  /\ skill = 1 /\ source = 1
  /\ beside = [c \in Commands |-> [staging |-> None, backup |-> None]]
  /\ trouble = {}
  /\ cmd = [c \in Commands |-> [pc |-> "load", read |-> None, answer |-> None]]

At(c, pc) == cmd[c].pc = pc
Goto(c, pc) == cmd' = [cmd EXCEPT ![c].pc = pc]
Answer(c, a) == cmd' = [cmd EXCEPT ![c].pc = "ended", ![c].answer = a]

\* A file operation fails, or a command is killed.
Trouble(what) ==
  /\ what \notin trouble /\ Cardinality(trouble) < MaxTroubles
  /\ trouble' = trouble \cup {what}

-----------------------------------------------------------------------------
\* configure_public_settings, the first part of every command.

Load(c) ==
  /\ At(c, "load")
  /\ cmd' = [cmd EXCEPT ![c].read = settings, ![c].pc = "merge"]
  /\ UNCHANGED <<settings, skill, source, beside, trouble>>

\* The managed part replaces its own fields and keeps the credential that was read.
Merged(c) == [cmd[c].read EXCEPT !.by = c]

\* A write that fails may have replaced the file: its mode and its directory come after.
Merge(c) ==
  /\ At(c, "merge")
  /\ \/ settings' = Merged(c) /\ UNCHANGED trouble
        /\ Goto(c, IF c \in Syncs THEN "copy" ELSE "ask")
     \/ Trouble("write") /\ Answer(c, "failed") /\ settings' \in {settings, Merged(c)}
  /\ UNCHANGED <<skill, source, beside>>

-----------------------------------------------------------------------------
\* configure-key: the owner types, or gives up, or types nonsense.

AskKey(c) ==
  /\ At(c, "ask")
  /\ Goto(c, "reload") \/ Answer(c, "failed")
  /\ UNCHANGED <<settings, skill, source, beside, trouble>>

Reload(c) ==
  /\ At(c, "reload")
  /\ cmd' = [cmd EXCEPT ![c].read = settings, ![c].pc = "store"]
  /\ UNCHANGED <<settings, skill, source, beside, trouble>>

WithKey(c) == [cmd[c].read EXCEPT !.key = NewKey]

StoreKey(c) ==
  /\ At(c, "store")
  /\ \/ settings' = WithKey(c) /\ Answer(c, "configured") /\ UNCHANGED trouble
     \/ Trouble("write") /\ Answer(c, "failed") /\ settings' \in {settings, WithKey(c)}
  /\ UNCHANGED <<skill, source, beside>>

-----------------------------------------------------------------------------
\* sync_skill

Beside(c, staging, backup) == beside' = [beside EXCEPT ![c] = [staging |-> staging, backup |-> backup]]

\* Some of the files are copied, and then the others; the repository may change between them.
BeginCopy(c) ==
  /\ At(c, "copy")
  /\ Beside(c, source, None)
  /\ Goto(c, "copying") /\ UNCHANGED trouble
  /\ UNCHANGED <<settings, skill, source>>

Copy(c) ==
  /\ At(c, "copying")
  /\ \/ /\ Beside(c, IF source = beside[c].staging THEN source ELSE Mixed, None)
        /\ Goto(c, IF skill # None THEN "away" ELSE "replace") /\ UNCHANGED trouble
     \/ Trouble("copy") /\ Goto(c, "clean") /\ Beside(c, Part, None)
  /\ UNCHANGED <<settings, skill, source>>

\* The directory may have been moved away by another command since it was seen.
MoveAway(c) ==
  /\ At(c, "away")
  /\ \/ /\ skill # None
        /\ skill' = None /\ Beside(c, beside[c].staging, skill)
        /\ Goto(c, "replace") /\ UNCHANGED trouble
     \/ /\ (skill = None /\ UNCHANGED trouble) \/ Trouble("away")
        /\ Goto(c, "clean") /\ UNCHANGED <<skill, beside>>
  /\ UNCHANGED <<settings, source>>

\* A directory is not replaced by another one: a command that finds one there fails.
Replace(c) ==
  /\ At(c, "replace")
  /\ \/ /\ skill = None
        /\ skill' = beside[c].staging /\ Beside(c, None, beside[c].backup)
        /\ Goto(c, "discard") /\ UNCHANGED trouble
     \/ /\ (skill # None /\ UNCHANGED trouble) \/ Trouble("replace")
        /\ Goto(c, "restore") /\ UNCHANGED <<skill, beside>>
  /\ UNCHANGED <<settings, source>>

\* The removal of the backup may fail after some of its files.
Discard(c) ==
  /\ At(c, "discard")
  /\ \/ Beside(c, None, None) /\ Goto(c, "read") /\ UNCHANGED trouble
     \/ /\ beside[c].backup # None /\ Trouble("discard")
        /\ \E left \in {beside[c].backup, Part} : Beside(c, None, left)
        /\ Goto(c, "restore")
  /\ UNCHANGED <<settings, skill, source>>

\* The answer has the hash of what is there then, which another command may have moved away.
ReadBack(c) ==
  /\ At(c, "read")
  /\ \/ skill # None /\ Answer(c, "synced") /\ UNCHANGED trouble
     \/ skill \in {None, Part} /\ Answer(c, "failed") /\ UNCHANGED trouble
     \/ Trouble("read") /\ Answer(c, "failed")
  /\ UNCHANGED <<settings, skill, source, beside>>

\* mutant: what was moved away is dropped
RestoreNever(c) == FALSE

\* The old skill comes back when nothing has taken its place.
MustRestore(c) == beside[c].backup # None /\ skill = None

Restore(c) ==
  /\ At(c, "restore")
  /\ Goto(c, IF MustRestore(c) THEN "restoring" ELSE "clean")
  /\ UNCHANGED <<settings, skill, source, beside, trouble>>

\* Another command may have put its own there in between.
Restoring(c) ==
  /\ At(c, "restoring")
  /\ \/ /\ skill = None
        /\ skill' = beside[c].backup /\ Beside(c, beside[c].staging, None) /\ UNCHANGED trouble
     \/ /\ (skill # None /\ UNCHANGED trouble) \/ Trouble("restore")
        /\ UNCHANGED <<skill, beside>>
  /\ Goto(c, "clean")
  /\ UNCHANGED <<settings, source>>

\* The staging goes, and the backup if there is a skill; what cannot be removed stays behind.
Clean(c) ==
  LET backup == IF skill # None THEN None ELSE beside[c].backup IN
  /\ At(c, "clean")
  /\ \/ Beside(c, None, backup) /\ UNCHANGED trouble
     \/ beside[c].staging # None /\ Trouble("clean") /\ Beside(c, Part, backup)
     \/ beside[c].backup # backup /\ Trouble("clean") /\ Beside(c, None, Part)
  /\ Answer(c, "failed")
  /\ UNCHANGED <<settings, skill, source>>

-----------------------------------------------------------------------------

\* The owner updates the repository.
Update == source = 1 /\ source' = 2 /\ UNCHANGED <<settings, skill, beside, trouble, cmd>>

Killed(c) ==
  /\ ~At(c, "ended") /\ Trouble("kill")
  /\ Answer(c, "killed")
  /\ UNCHANGED <<settings, skill, source, beside>>

Step(c) ==
  \/ Load(c) \/ Merge(c) \/ AskKey(c) \/ Reload(c) \/ StoreKey(c)
  \/ BeginCopy(c) \/ Copy(c) \/ MoveAway(c) \/ Replace(c) \/ Discard(c) \/ ReadBack(c)
  \/ Restore(c) \/ Restoring(c) \/ Clean(c)

Done == (\A c \in Commands : At(c, "ended")) /\ UNCHANGED vars

Next == Update \/ Done \/ \E c \in Commands : Step(c) \/ Killed(c)

Spec == Init /\ [][Next]_vars

-----------------------------------------------------------------------------

Quiet == \A c \in Commands : At(c, "ended")

\* The variables keep their types, and a skill is not put there before all its files are copied.
TypeOK ==
  /\ settings.key \in {None, NewKey} \cup FirstKeys /\ settings.by \in Commands \cup {None}
  /\ skill \in Whole \cup {None, Mixed, Part}
  /\ \A c \in Commands : At(c, "replace") => beside[c].staging \in Whole \cup {Mixed}

\* When all commands have ended the profile has its skill again, however they moved it away
\* from under each other and whichever operation failed; or else the one operation that puts
\* it back has failed or its command was killed, and what was there is still beside it.
SkillNeverLost ==
  Quiet /\ skill = None =>
    /\ trouble \cap {"restore", "kill"} # {}
    /\ \E c \in Commands : beside[c].backup # None

\* The skill is a whole version, unless the removal of a backup failed half-way, or the
\* repository changed while it was copied.
SkillIsWhole ==
  /\ skill = Part => "discard" \in trouble
  /\ skill = Mixed => source = 2

\* No copy stays behind a command that ended by itself, if its removal did not fail.
NothingLeftBeside ==
  \A c \in Commands :
    At(c, "ended") /\ beside[c].staging # None => "clean" \in trouble \/ cmd[c].answer = "killed"

\* A profile loses its key only to a command that read the settings before another command
\* changed them: never to one that runs alone, whatever fails in it.
KeyKept ==
  settings.key # None /\ settings'.key = None =>
    \E c \in Commands : cmd'[c] # cmd[c] /\ cmd[c].read # settings

-----------------------------------------------------------------------------
(* What does not hold.                                                     *)

\* A profile that has a key is never without one again: not if it had none when a command
\* read its settings, which writes them back after a key was stored.
KeyNeverLost == settings.key # None => settings'.key # None

\* A key that was configured is the key of the profile from then on.
ConfiguredKeyStays == (\E c \in Keys : cmd[c].answer = "configured") => settings.key = NewKey

\* The skill is replaced as a whole: there is no moment without one.
SkillIsAlwaysThere == skill # None

=============================================================================

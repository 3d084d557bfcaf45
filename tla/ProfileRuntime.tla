--------------------------- MODULE ProfileRuntime ---------------------------
(***************************************************************************)
(* The start and stop commands of scripts/ouroboros_profile.py and the     *)
(* gateway process they manage (scripts/ouroboros_runtime_overlay.py).     *)
(*                                                                         *)
(* A command is a process of its own: nothing keeps two of them apart.     *)
(* They share the pid file, the attestation file and the port.  A gateway  *)
(* writes its attestation when its overlay is in place and only then binds *)
(* the port.  A number of the operating system is used again by any        *)
(* program when its process has ended.                                     *)
(***************************************************************************)
EXTENDS Naturals, FiniteSets

CONSTANTS
  None,
  Starts, Stops,   \* the commands, one process each
  Pids,            \* process numbers
  Kills,           \* a command may be killed at any step
  WriteFails,      \* the pid file may fail to be written
  Recycles         \* a number may be used again by another program

VARIABLES
  pidFile,   \* aga-profile-runtime.json
  attest,    \* the pid of the overlay attestation
  proc,      \* [number -> what runs under it]
  cmd,       \* [command -> where it is, the process it is about, its answer]
  harmed     \* another program was killed

vars == <<pidFile, attest, proc, cmd, harmed>>

Commands == Starts \cup Stops

Init ==
  /\ pidFile = None
  /\ attest = None
  /\ proc = [p \in Pids |-> "unused"]
  /\ cmd = [c \in Commands |-> [pc |-> "idle", pid |-> None, made |-> None, answer |-> None]]
  /\ harmed = FALSE

At(c, pc) == cmd[c].pc = pc
Goto(c, pc) == cmd' = [cmd EXCEPT ![c].pc = pc]
Answer(c, a) == cmd' = [cmd EXCEPT ![c].pc = "ended", ![c].answer = a]

Runtimes == {"boot", "attested", "serving"}
Runtime(p) == proc[p] \in Runtimes          \* _owned_runtime_process
Alive(p) == proc[p] \in Runtimes \cup {"foreign"}
Served == \E p \in Pids : proc[p] = "serving"

-----------------------------------------------------------------------------
\* The gateway.

Attest(p) ==
  /\ proc[p] = "boot"
  /\ proc' = [proc EXCEPT ![p] = "attested"]
  /\ attest' = p
  /\ UNCHANGED <<pidFile, cmd, harmed>>

Ended(p) == proc' = [proc EXCEPT ![p] = "free"]
OwnAttestationRemoved(p) == attest' = IF attest = p THEN None ELSE attest

\* The port is taken, or the gateway ends for a reason of its own.
Exit(p) ==
  /\ Runtime(p)
  /\ Ended(p) /\ OwnAttestationRemoved(p)
  /\ UNCHANGED <<pidFile, cmd, harmed>>

Bind(p) ==
  /\ proc[p] = "attested" /\ ~Served
  /\ proc' = [proc EXCEPT ![p] = "serving"]
  /\ UNCHANGED <<pidFile, attest, cmd, harmed>>

Recycle(p) ==
  /\ Recycles /\ proc[p] = "free"
  /\ proc' = [proc EXCEPT ![p] = "foreign"]
  /\ UNCHANGED <<pidFile, attest, cmd, harmed>>

-----------------------------------------------------------------------------
\* start

StopBegins == IF pidFile = None THEN "remove" ELSE "identify"

ReadPid(c) ==
  /\ At(c, "idle")
  /\ cmd' = [cmd EXCEPT ![c].pid = pidFile,
                        ![c].pc = IF c \in Stops THEN StopBegins
                                  ELSE IF pidFile = None THEN "clear" ELSE "existing"]
  /\ UNCHANGED <<pidFile, attest, proc, harmed>>

\* A gateway of an earlier start: it is the answer when the port is served and it is attested.
Existing(c) ==
  LET p == cmd[c].pid IN
  /\ At(c, "existing")
  /\ IF Runtime(p)
       THEN Answer(c, IF Served /\ attest = p THEN "running" ELSE "failed") /\ UNCHANGED pidFile
     ELSE IF Alive(p)
       THEN Answer(c, "failed") /\ UNCHANGED pidFile
       ELSE Goto(c, "clear") /\ pidFile' = None
  /\ UNCHANGED <<attest, proc, harmed>>

Clear(c) ==
  /\ At(c, "clear")
  /\ attest' = None
  /\ Goto(c, "popen")
  /\ UNCHANGED <<pidFile, proc, harmed>>

Popen(c) ==
  /\ At(c, "popen")
  /\ \E p \in Pids :
       /\ proc[p] = "unused"
       /\ proc' = [proc EXCEPT ![p] = "boot"]
       /\ cmd' = [cmd EXCEPT ![c].pid = p, ![c].made = p, ![c].pc = "record"]
  /\ UNCHANGED <<pidFile, attest, harmed>>

\* The write of the pid file is outside the handler that ends the new process.
Record(c) ==
  /\ At(c, "record")
  /\ \/ pidFile' = cmd[c].pid /\ Goto(c, "wait")
     \/ WriteFails /\ Answer(c, "failed") /\ UNCHANGED pidFile
  /\ UNCHANGED <<attest, proc, harmed>>

NotReady(c) == Goto(c, "identify")

\* _wait_ready: until the port is served by any gateway, the new process has ended, or the deadline.
WaitReady(c) ==
  /\ At(c, "wait")
  /\ \/ Runtime(cmd[c].pid) /\ Served /\ Goto(c, "validate")
     \/ ~(Runtime(cmd[c].pid) /\ Served) /\ NotReady(c)
  /\ UNCHANGED <<pidFile, attest, proc, harmed>>

\* _validate_overlay_attestation
Attested(c) == attest = cmd[c].pid /\ Runtime(cmd[c].pid)

Validate(c) ==
  /\ At(c, "validate")
  /\ IF Attested(c) THEN Answer(c, "started") ELSE Goto(c, "identify")
  /\ UNCHANGED <<pidFile, attest, proc, harmed>>

-----------------------------------------------------------------------------
\* _terminate_process, for stop and for a start that failed.

Unrecorded(c) == pidFile' = None /\ Goto(c, "remove")

\* A start that failed goes on whatever the termination answers.
Identify(c) ==
  LET p == cmd[c].pid IN
  /\ At(c, "identify")
  /\ IF Runtime(p) THEN Goto(c, "term") /\ UNCHANGED pidFile
     ELSE IF Alive(p)
       THEN /\ IF c \in Stops THEN Answer(c, "failed") ELSE Goto(c, "remove")
            /\ UNCHANGED pidFile
       ELSE Unrecorded(c)
  /\ UNCHANGED <<attest, proc, harmed>>

\* SIGTERM ends most gateways; one that is stuck does not hear it.
Term(c) ==
  LET p == cmd[c].pid IN
  /\ At(c, "term")
  /\ IF Alive(p)
       THEN /\ Goto(c, "dying") /\ UNCHANGED pidFile
            /\ harmed' = (harmed \/ proc[p] = "foreign")
            /\ \/ Ended(p) /\ OwnAttestationRemoved(p)
               \/ Runtime(p) /\ UNCHANGED <<proc, attest>>
       ELSE Unrecorded(c) /\ UNCHANGED <<proc, attest, harmed>>

Kill(p) ==
  /\ proc' = IF Alive(p) THEN [proc EXCEPT ![p] = "free"] ELSE proc
  /\ harmed' = (harmed \/ proc[p] = "foreign")

\* The process is gone, or the deadline comes and whatever has the number is killed.
Dying(c) ==
  LET p == cmd[c].pid IN
  /\ At(c, "dying")
  /\ Unrecorded(c)
  /\ IF Alive(p) THEN Kill(p) ELSE UNCHANGED <<proc, harmed>>
  /\ UNCHANGED attest

Remove(c) ==
  /\ At(c, "remove")
  /\ attest' = None
  /\ Answer(c, IF c \in Stops THEN "stopped" ELSE "failed")
  /\ UNCHANGED <<pidFile, proc, harmed>>

\* The command is killed, as the user interface does with one that is too slow.
Killed(c) ==
  /\ Kills /\ cmd[c].pc \notin {"idle", "ended"}
  /\ Answer(c, "killed")
  /\ UNCHANGED <<pidFile, attest, proc, harmed>>

-----------------------------------------------------------------------------

Step(c) ==
  \/ ReadPid(c) \/ Existing(c) \/ Clear(c) \/ Popen(c) \/ Record(c) \/ WaitReady(c) \/ Validate(c)
  \/ Identify(c) \/ Term(c) \/ Dying(c) \/ Remove(c)

Gateway(p) == Attest(p) \/ Bind(p) \/ Exit(p) \/ Recycle(p)

Done == (\A c \in Commands : At(c, "ended")) /\ UNCHANGED vars

Next ==
  \/ Done
  \/ \E c \in Commands : Step(c) \/ Killed(c)
  \/ \E p \in Pids : Gateway(p)

Spec == Init /\ [][Next]_vars

FairSpec == Spec /\ \A c \in Commands : WF_vars(Step(c))

-----------------------------------------------------------------------------

\* The variables keep their types, and at most one gateway has the port.
TypeOK ==
  /\ pidFile \in Pids \cup {None} /\ attest \in Pids \cup {None}
  /\ \A c \in Commands : cmd[c].pc \in {"term", "dying", "validate"} => cmd[c].pid \in Pids
  /\ Cardinality({p \in Pids : proc[p] = "serving"}) <= 1
  /\ \A c \in Starts : cmd[c].answer = "started" => cmd[c].made # None

\* A stop that found a gateway in the pid file answers "stopped" only when that one is gone,
\* also when a start or another stop works on the same files and SIGTERM is not heard.
StoppedIsGone ==
  \A c \in Stops : (cmd[c].answer = "stopped" /\ cmd[c].pid # None) => ~Runtime(cmd[c].pid)

\* A start that answers that it failed leaves no gateway of its own behind, whatever other
\* commands did to the pid file and the attestation meanwhile.
FailedStartLeavesNothing ==
  \A c \in Starts : (cmd[c].answer = "failed" /\ cmd[c].made # None) => ~Runtime(cmd[c].made)

\* A start or a stop always ends.
CommandsEnd == \A c \in Commands : <>(cmd[c].pc = "ended")

\* When a start answers, the gateway that serves the port is the one that is attested.
GatewayIsAttested ==
  [][\A c \in Starts :
       (cmd[c].answer = None /\ cmd'[c].answer \in {"started", "running"})
         => \A p \in Pids : proc[p] = "serving" => p = attest]_vars

\* No command ever kills a program that is not a gateway.
OnlyGatewaysKilled == ~harmed

=============================================================================

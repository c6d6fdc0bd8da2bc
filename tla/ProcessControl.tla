--------------------------- MODULE ProcessControl ---------------------------
(***************************************************************************)
(* The server processes of one Python environment and the management       *)
(* commands that start, stop, restart, watch and update them:              *)
(* cli/processes.py, the commands of cli/server.py that use it,            *)
(* cli/update.py, and the life of a server process in server/managed.py    *)
(* and server/main.py.                                                     *)
(*                                                                         *)
(* Both locks are tried, never awaited, and the operating system releases  *)
(* them when their holder ends.  A server that is told to stop drains      *)
(* first: see Maintenance; here it accepts or refuses.                     *)
(***************************************************************************)

CONSTANTS
    Commands,  \* processes of management commands
    Servers,   \* server processes; also the launch_id of each
    None       \* Python's None

ASSUME NoneAssumption == None \notin Commands \cup Servers /\ Commands \cap Servers = {}

VARIABLES
    \* the operating system's files
    commandLock,   \* the process that has command.lock
    instanceLock,  \* the process that has instance.lock
    record,        \* the server that wrote process.json
    \* management commands
    kind,    \* what each command is
    at,      \* the step it takes next, or what it reported
    child,   \* the server it launched, the worker it scheduled
    seen,    \* the server whose state it read last
    saved,   \* the state a restart has read
    victim,  \* history: the server that accepted its stop
    replacing,  \* the updates whose "pip install" process runs
    \* server processes
    srv,     \* where each server is
    conf     \* the server that was first started with its configuration

files == <<commandLock, instanceLock, record>>
locals == <<child, seen, saved, victim, replacing>>
servers == <<srv, conf>>
vars == <<files, kind, at, locals, servers>>

\* A restart, and one that is given a configuration.
Restarts == {"restart", "reconfigure"}
Kinds == {"none", "start", "stop", "update", "status", "schedule", "worker"} \cup Restarts
Outcomes == {"already running", "exited", "not ready", "ready", "running", "stopped",
             "unchanged", "updated", "scheduled", "failed", "killed"}

Init ==
    /\ commandLock = None /\ instanceLock = None /\ record = None /\ replacing = {}
    /\ kind = [c \in Commands |-> "none"] /\ at = [c \in Commands |-> "idle"]
    /\ child = [c \in Commands |-> None] /\ seen = child /\ saved = child /\ victim = child
    /\ srv = [s \in Servers |-> "none"] /\ conf = [s \in Servers |-> s]

-----------------------------------------------------------------------------
(* Leaving with-blocks and processes. *)

Without(lock, p) == IF lock = p THEN None ELSE lock

Go(c, step) == at' = [at EXCEPT ![c] = step]

\* The command leaves its with-blocks and reports.
Conclude(c, outcome) ==
    /\ Go(c, outcome)
    /\ commandLock' = Without(commandLock, c)
    /\ instanceLock' = Without(instanceLock, c)
    /\ UNCHANGED record

Ended(c) == at[c] \in Outcomes

-----------------------------------------------------------------------------
(* The beginning of a command, its command lock. *)

\* A status takes no lock; the worker of an update is started by its command.
Begin(c, k) ==
    /\ at[c] = "idle" /\ kind[c] = "none"
    /\ k \in Kinds \ {"none", "worker"}
    /\ kind' = [kind EXCEPT ![c] = k]
    /\ Go(c, CASE k = "status" -> "status?" [] k = "schedule" -> "schedule" [] OTHER -> "lock")
    /\ UNCHANGED <<files, locals, servers>>

\* An update of the client asks running() when no server ever wrote its state.
Prepare == IF record = None THEN {"prepare?", "download"} ELSE {"download"}

FirstSteps(c) ==
    CASE kind[c] = "start" -> {"launch?"}    [] kind[c] = "stop" -> {"stop?"}
      [] kind[c] \in Restarts -> {"remember"} [] kind[c] = "worker" -> {"await parent"}
      [] OTHER -> Prepare

\* mutant: the update does not take the lock
LockUnlessUpdate(c) == IF kind[c] = "update" THEN commandLock ELSE c
Locked(c) == c

TakeCommandLock(c) ==
    /\ at[c] = "lock"
    /\ IF commandLock = None
       THEN /\ commandLock' = Locked(c)
            /\ \E step \in FirstSteps(c) : Go(c, step)
            /\ UNCHANGED <<instanceLock, record>>
       ELSE Conclude(c, "failed")
    /\ UNCHANGED <<kind, locals, servers>>

-----------------------------------------------------------------------------
(* running(): the instance lock is taken for a moment. *)

AfterStop(c) ==
    CASE kind[c] = "stop" -> "stopped" [] kind[c] \in Restarts -> "launch?" [] OTHER -> "install"

ProbeSteps == {"launch?", "status?", "status again?", "stop?", "stop again?", "exit?",
               "prepare?", "halt?"}

\* The step of c after running() has returned FALSE ...
IfStopped(c) ==
    CASE at[c] = "launch?" -> "spawn"
      [] at[c] \in {"status?", "status again?"} ->
            IF kind[c] = "status" THEN "stopped" ELSE "poll"
      [] at[c] \in {"stop?", "exit?"} -> AfterStop(c)
      [] at[c] = "stop again?" -> "failed"
      [] at[c] = "prepare?" -> "download"
      [] at[c] = "halt?" -> "install"

\* ... and after TRUE: an update without a configuration cannot go on, and the
\* wait for the exit has a deadline.
IfRunning(c) ==
    CASE at[c] = "launch?" -> {"already running"}
      [] at[c] = "status?" -> {"status read"} [] at[c] = "status again?" -> {"status ask"}
      [] at[c] = "stop?" -> {"stop read"}     [] at[c] = "stop again?" -> {"stop ask"}
      [] at[c] = "exit?" -> {"exit?", "failed"}
      [] at[c] = "prepare?" -> {"failed"}
      [] at[c] = "halt?" -> {"stop?"}

\* The lock is free: it is taken ...
Probe(c) ==
    /\ at[c] \in ProbeSteps /\ instanceLock = None
    /\ instanceLock' = c
    /\ UNCHANGED <<commandLock, record, kind, at, locals, servers>>

\* ... and given back, ...
NotRunning(c) ==
    /\ at[c] \in ProbeSteps /\ instanceLock = c
    /\ IF IfStopped(c) \in Outcomes
       THEN Conclude(c, IfStopped(c))
       ELSE /\ Go(c, IfStopped(c)) /\ instanceLock' = None
            /\ UNCHANGED <<commandLock, record>>
    /\ UNCHANGED <<kind, locals, servers>>

\* ... or somebody has it: a server, or another probe.
IsRunning(c) ==
    /\ at[c] \in ProbeSteps /\ instanceLock \notin {None, c}
    /\ \E step \in IfRunning(c) :
        IF step \in Outcomes THEN Conclude(c, step) ELSE Go(c, step) /\ UNCHANGED files
    /\ UNCHANGED <<kind, locals, servers>>

-----------------------------------------------------------------------------
(* request(): the state is read, the lock probed again, the port asked. *)

ReadState(c) ==
    /\ at[c] \in {"status read", "stop read"}
    /\ seen' = [seen EXCEPT ![c] = record]
    /\ Go(c, IF at[c] = "status read" THEN "status again?" ELSE "stop again?")
    /\ UNCHANGED <<files, kind, child, saved, victim, replacing, servers>>

\* Servers whose control channel answers, with the token of their own state.
Answering == {s \in Servers : srv[s] \in {"setup", "active", "closing", "cleanup"}}

ReadyOfAny(c) == TRUE  \* mutant: readiness is not correlated with the launch
ReadyOfChild(c) == seen[c] = child[c]

\* A status tells what it hears; a launch waits for its own server to be ready.
\* A server may not be ready, and any answer may fail to come.
AskStatus(c) ==
    /\ at[c] = "status ask"
    /\ \/ /\ seen[c] \in Answering /\ srv[seen[c]] = "active"
          /\ kind[c] = "status" \/ ReadyOfChild(c)
          /\ Conclude(c, "ready")
       \/ kind[c] = "status" /\ Conclude(c, "running")
       \/ kind[c] # "status" /\ Go(c, "poll") /\ UNCHANGED files
    /\ UNCHANGED <<kind, locals, servers>>

\* The server accepts the stop when it is active and drained; the answer may be
\* lost.  Otherwise it refuses, or the connection fails.
AskStop(c) ==
    /\ at[c] = "stop ask"
    /\ \/ /\ seen[c] \in Answering /\ srv[seen[c]] = "active"
          /\ srv' = [srv EXCEPT ![seen[c]] = "closing"]
          /\ \/ /\ Go(c, "exit?") /\ victim' = [victim EXCEPT ![c] = seen[c]]
                /\ UNCHANGED files
             \/ Conclude(c, "failed") /\ UNCHANGED victim
       \/ Conclude(c, "failed") /\ UNCHANGED <<srv, victim>>
    /\ UNCHANGED <<kind, child, seen, saved, replacing, conf>>

-----------------------------------------------------------------------------
(* launch(), and the state a restart launches with. *)

Remember(c) ==
    /\ at[c] = "remember"
    /\ saved' = [saved EXCEPT ![c] = record]
    /\ Go(c, "stop?")
    /\ UNCHANGED <<files, kind, child, seen, victim, replacing, servers>>

\* What is launched has the configuration of the command line, if there is one,
\* or else the one a restart has read.
Configuration(c, s) ==
    IF kind[c] = "restart" /\ saved[c] # None THEN conf[saved[c]] ELSE s

Spawn(c) ==
    /\ at[c] = "spawn"
    /\ \/ \E s \in Servers :
            /\ srv[s] = "none"
            /\ srv' = [srv EXCEPT ![s] = "spawned"]
            /\ child' = [child EXCEPT ![c] = s]
            /\ conf' = [conf EXCEPT ![s] = Configuration(c, s)]
            /\ Go(c, "poll") /\ UNCHANGED files
       \/ Conclude(c, "failed") /\ UNCHANGED <<srv, child, conf>>
    /\ UNCHANGED <<kind, seen, saved, victim, replacing>>

Poll(c) ==
    /\ at[c] = "poll"
    /\ \/ srv[child[c]] = "gone" /\ Conclude(c, "exited")
       \/ srv[child[c]] # "gone" /\ Go(c, "status?") /\ UNCHANGED files
       \/ Conclude(c, "not ready")
    /\ UNCHANGED <<kind, locals, servers>>

-----------------------------------------------------------------------------
(* perform(): preparation, download and dependencies before the stop. *)

Download(c) ==
    /\ at[c] = "download"
    /\ \/ \E outcome \in {"failed", "unchanged"} : Conclude(c, outcome)
       \/ Go(c, "halt?") /\ UNCHANGED files
    /\ UNCHANGED <<kind, locals, servers>>

\* "pip install" is a process of its own, which replaces the package ...
Install(c) ==
    /\ at[c] = "install"
    /\ \/ /\ replacing' = replacing \cup {c} /\ Go(c, "installing")
          /\ UNCHANGED files
       \/ Conclude(c, "failed") /\ UNCHANGED replacing
    /\ UNCHANGED <<kind, child, seen, saved, victim, servers>>

\* ... and ends, or fails half-way, while its command waits for it.
Installed(c) ==
    /\ at[c] = "installing"
    /\ replacing' = replacing \ {c}
    /\ \/ Go(c, "verify") /\ UNCHANGED files
       \/ Conclude(c, "failed")
    /\ UNCHANGED <<kind, child, seen, saved, victim, servers>>

Verify(c) ==
    /\ at[c] = "verify"
    /\ \E outcome \in {"updated", "failed"} : Conclude(c, outcome)
    /\ UNCHANGED <<kind, locals, servers>>

\* execute(), on Windows: a worker process is started, ...
Schedule(c) ==
    /\ at[c] = "schedule"
    /\ \E w \in Commands :
        /\ at[w] = "idle" /\ kind[w] = "none" /\ w # c
        /\ kind' = [kind EXCEPT ![w] = "worker"]
        /\ child' = [child EXCEPT ![c] = w]
        /\ at' = [at EXCEPT ![c] = "await worker", ![w] = "lock"]
    /\ UNCHANGED <<files, seen, saved, victim, replacing, servers>>

\* ... which says that it is ready when it has the lock, ...
AwaitWorker(c) ==
    /\ at[c] = "await worker"
    /\ \/ at[child[c]] \notin {"lock", "idle"} /\ ~Ended(child[c]) /\ Conclude(c, "scheduled")
       \/ Conclude(c, "failed")
    /\ UNCHANGED <<kind, locals, servers>>

\* ... and goes on when the command that started it has ended.
AwaitParent(c) ==
    /\ at[c] = "await parent"
    /\ \/ /\ \A p \in Commands : child[p] = c => Ended(p)
          /\ \E step \in Prepare : Go(c, step)
          /\ UNCHANGED files
       \/ Conclude(c, "failed")
    /\ UNCHANGED <<kind, locals, servers>>

\* A command is interrupted or killed; the server it launched lives on.  An
\* interrupt ends its pip process as well, a hard kill leaves it running, ...
Kill(c) ==
    /\ at[c] # "idle" /\ ~Ended(c)
    /\ Conclude(c, "killed")
    /\ replacing' \in {replacing, replacing \ {c}}
    /\ UNCHANGED <<kind, child, seen, saved, victim, servers>>

\* ... until it is done.
PipEnds(c) ==
    /\ c \in replacing /\ at[c] = "killed"
    /\ replacing' = replacing \ {c}
    /\ UNCHANGED <<files, kind, at, child, seen, saved, victim, servers>>

-----------------------------------------------------------------------------
(* run() and start_server(): a server process. *)

Become(s, phase) == srv' = [srv EXCEPT ![s] = phase]

\* A server in the foreground is started by hand, ...
Foreground(s) ==
    /\ srv[s] = "none"
    /\ IF commandLock = None
       THEN Become(s, "foreground") /\ commandLock' = s
       ELSE Become(s, "gone") /\ UNCHANGED commandLock
    /\ UNCHANGED <<instanceLock, record, kind, at, locals, conf>>

LockDropped(s) == Without(commandLock, s)  \* mutant: only the instance lock is taken under it
LockKept(s) == commandLock

\* ... and keeps the command lock until its control channel is open.
Own(s) ==
    /\ srv[s] \in {"foreground", "spawned"}
    /\ IF instanceLock = None
       THEN Become(s, "owner") /\ instanceLock' = s /\ commandLock' = LockKept(s)
       ELSE /\ Become(s, "gone") /\ commandLock' = Without(commandLock, s)
            /\ UNCHANGED instanceLock
    /\ UNCHANGED <<record, kind, at, locals, conf>>

RecordOfFirst(s) == IF record = None THEN s ELSE record  \* mutant: the state is written once
RecordOf(s) == s

\* ControlServer: listening, state written, and the end of the command lock.
OpenControl(s) ==
    /\ srv[s] = "owner"
    /\ Become(s, "setup")
    /\ record' = RecordOf(s)
    /\ commandLock' = Without(commandLock, s)
    /\ UNCHANGED <<instanceLock, kind, at, locals, conf>>

\* start_server: connection manager, downloads, providers and RPC server are
\* made one after the other; then it serves.
Open(s) ==
    /\ srv[s] = "setup"
    /\ Become(s, "active")
    /\ UNCHANGED <<files, kind, at, locals, conf>>

\* A configuration, an SDK or an address that cannot be used, or an interrupt;
\* and server.close of an accepted stop.
Leave(s) ==
    /\ srv[s] \in {"setup", "active", "closing"}
    /\ Become(s, "cleanup")
    /\ UNCHANGED <<files, kind, at, locals, conf>>

\* finally: what was opened is closed, the last first, then the control channel.
CleanUp(s) ==
    /\ srv[s] = "cleanup"
    /\ Become(s, "leaving")
    /\ UNCHANGED <<files, kind, at, locals, conf>>

Process == {"foreground", "spawned", "owner", "setup", "active", "closing", "cleanup", "leaving"}

\* The end of the process, at "leaving" or by a crash.
Exit(s) ==
    /\ srv[s] \in Process
    /\ Become(s, "gone")
    /\ commandLock' = Without(commandLock, s) /\ instanceLock' = Without(instanceLock, s)
    /\ UNCHANGED <<record, kind, at, locals, conf>>

-----------------------------------------------------------------------------
CommandStep(c) ==
    \/ TakeCommandLock(c) \/ Probe(c) \/ NotRunning(c) \/ IsRunning(c)
    \/ ReadState(c) \/ AskStatus(c) \/ AskStop(c) \/ Remember(c) \/ Spawn(c) \/ Poll(c)
    \/ Download(c) \/ Install(c) \/ Installed(c) \/ Verify(c)
    \/ Schedule(c) \/ AwaitWorker(c) \/ AwaitParent(c)

ServerStep(s) == Own(s) \/ OpenControl(s) \/ Open(s) \/ Leave(s) \/ CleanUp(s) \/ Exit(s)

Next ==
    \/ \E c \in Commands : CommandStep(c) \/ Kill(c) \/ PipEnds(c) \/ \E k \in Kinds : Begin(c, k)
    \/ \E s \in Servers : ServerStep(s) \/ Foreground(s)

Spec == Init /\ [][Next]_vars

-----------------------------------------------------------------------------
LockedSteps == {"launch?", "spawn", "poll", "stop?", "stop read", "stop again?", "stop ask",
                "exit?", "remember", "prepare?", "download", "halt?", "install",
                "installing", "verify", "await parent"}
Steps == LockedSteps \cup {"idle", "lock", "schedule", "await worker", "status?",
                           "status read", "status again?", "status ask"}
Installing == {"install", "installing", "verify"}

\* Types of all variables.
TypeOK ==
    /\ commandLock \in Commands \cup Servers \cup {None}
    /\ instanceLock \in Commands \cup Servers \cup {None}
    /\ record \in Servers \cup {None}
    /\ kind \in [Commands -> Kinds]
    /\ at \in [Commands -> Steps \cup Outcomes]
    /\ child \in [Commands -> Commands \cup Servers \cup {None}]
    /\ seen \in [Commands -> Servers \cup {None}]
    /\ saved \in [Commands -> Servers \cup {None}]
    /\ victim \in [Commands -> Servers \cup {None}]
    /\ replacing \in SUBSET Commands
    /\ srv \in [Servers -> Process \cup {"none", "gone"}]
    /\ conf \in [Servers -> Servers]

\* Server processes that have the instance, or act as if they had.
Alive == {s \in Servers : srv[s] \in Process \ {"foreground", "spawned"}}

\* Servers whose start command gave up on them, or was killed.
Orphans == {child[c] : c \in {d \in Commands : at[d] \in {"not ready", "killed"}}}

\* An update replaces the package only while no server runs and no other update
\* does: commands, foreground servers and their probes may come at any time, and
\* what escapes is a server that its own start command has given up, and the pip
\* process of an update that was killed.
InstallsAlone ==
    \A c \in Commands : at[c] \in Installing =>
        /\ Alive \subseteq Orphans
        /\ \A d \in Commands \ {c} :
             at[d] \notin Installing /\ (d \in replacing => at[d] = "killed")

\* A server that serves can be told to stop: the state on disk is its own,
\* whatever servers were started, failed or were killed before and besides it.
ReachableWhileServing ==
    \A s \in Servers : srv[s] \in {"active", "closing"} => record = s /\ instanceLock = s

\* "restart: stops, and starts again with the original configuration": what a
\* restart launches has the configuration of the server it has stopped, unless
\* the command that launched that server had given up on it.
RestartKeepsConfiguration ==
    \A c \in Commands :
        kind[c] = "restart" /\ victim[c] \notin {None} \cup Orphans /\ child[c] # None =>
            conf[child[c]] = conf[victim[c]]

\* A start or a restart reports success for the server it has launched, at a
\* time when that server serves.
ReadyIsOwn ==
    [][\A c \in Commands :
        kind[c] \in {"start"} \cup Restarts /\ at[c] # "ready" /\ at'[c] = "ready" =>
            srv[child[c]] = "active"]_vars

=============================================================================

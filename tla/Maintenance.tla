----------------------------- MODULE Maintenance -----------------------------
(***************************************************************************)
(* The orderly stop of a server: RequestGate of server/draining.py, the    *)
(* stop command of server/managed.py, the requests that pass the gate      *)
(* (server/dispatch.py) with the replies ManagedConnection waits for       *)
(* (server/managed_protocol.py), and the end of start_server.  Downloads   *)
(* are known by their life alone, as TaskLife promises it.                 *)
(*                                                                         *)
(* Every section under the gate's condition is one action.  _active and    *)
(* _replies count the members of active and replies.                       *)
(***************************************************************************)
EXTENDS Naturals, FiniteSets

CONSTANTS
    Requests,  \* identities of requests of RPC clients
    Stops,     \* identities of stop commands of the local control channel
    Tasks,     \* identities of downloads
    None       \* Python's None

ASSUME NoneAssumption == None \notin Stops

VARIABLES
    \* attributes of RequestGate and Runtime
    draining,    \* _draining
    active,      \* holders of admit()
    replies,     \* holders of reply()
    stopLock,    \* the stop command holding _stop_lock
    closing,     \* _closing
    \* threads
    phase,       \* where each request is
    stop,        \* the step each stop command takes next
    answer,      \* what each stop command was told
    closer,      \* the thread that runs server.close
    main,        \* where start_server is
    \* RPyC's server, and the downloads
    server,      \* its `active` flag over time
    life,        \* life of each download, see TaskLife
    called,      \* downloads whose SDK function was called
    \* history
    executed,    \* requests that ran their operation
    interrupted  \* the server was closed by an interrupt

gate == <<draining, active, replies>>
runtime == <<stopLock, closing>>
stops == <<stop, answer>>
process == <<closer, main, server, interrupted>>
downloads == <<life, called>>
vars == <<gate, runtime, phase, stops, process, downloads, executed>>

Downloads == INSTANCE TaskLife WITH executed <- called

Init ==
    /\ draining = FALSE /\ active = {} /\ replies = {}
    /\ stopLock = None /\ closing = FALSE
    /\ phase = [r \in Requests |-> "away"]
    /\ stop = [s \in Stops |-> "idle"] /\ answer = [s \in Stops |-> "none"]
    /\ closer = "none" /\ main = "starting"
    /\ server = "starting"
    /\ Downloads!Init
    /\ executed = {} /\ interrupted = FALSE

-----------------------------------------------------------------------------
Enter(r, where) == phase' = [phase EXCEPT ![r] = where]

\* _dispatch_request: the reply lease is taken first.
Arrive(r) ==
    /\ phase[r] = "away" /\ server = "active"
    /\ replies' = replies \cup {r}
    /\ Enter(r, "arrived")
    /\ UNCHANGED <<draining, active, runtime, stops, process, downloads, executed>>

\* admit: refused with SERVER_DRAINING, or counted.
Admit(r) ==
    /\ phase[r] = "arrived"
    /\ IF draining
       THEN Enter(r, "queued") /\ UNCHANGED active
       ELSE Enter(r, "admitted") /\ active' = active \cup {r}
    /\ UNCHANGED <<draining, replies, runtime, stops, process, downloads, executed>>

\* Answered without coming to the gate: a negotiation, or a call whose session,
\* envelope, arguments or capability is refused.
TurnAway(r) ==
    /\ phase[r] = "arrived"
    /\ Enter(r, "queued")
    /\ UNCHANGED <<gate, runtime, stops, process, downloads, executed>>

\* The operation is executed; starting a download enters it as pending, or as
\* failed once the download manager was shut down.
Execute(r) ==
    /\ phase[r] = "admitted"
    /\ executed' = executed \cup {r}
    /\ \/ UNCHANGED life
       \/ \E t \in Tasks :
            /\ life[t] = "none"
            /\ life' = [life EXCEPT ![t] =
                           IF main \in {"downloads", "done"} THEN "failed" ELSE "pending"]
    /\ Enter(r, "executing")
    /\ UNCHANGED <<gate, runtime, stops, process, called>>

\* The handler returns and the admission ends; the reply is queued for sending.
Leave(r) ==
    /\ phase[r] = "executing"
    /\ active' = active \ {r}
    /\ Enter(r, "queued")
    /\ UNCHANGED <<draining, replies, runtime, stops, process, downloads, executed>>

\* A sender writes the reply to the socket, unless the connection was closed.
Write(r) ==
    /\ phase[r] = "queued"
    /\ Enter(r, IF server = "active" THEN "written" ELSE "cut")
    /\ UNCHANGED <<gate, runtime, stops, process, downloads, executed>>

LeaseEndsEarly(r) == phase[r] \in {"queued", "written", "cut"}  \* mutant: the queue is not awaited
LeaseMayEnd(r) == phase[r] \in {"written", "cut"}

\* The reply lease ends when the send queue is empty, or with the connection.
EndLease(r) ==
    /\ r \in replies
    /\ LeaseMayEnd(r)
    /\ replies' = replies \ {r}
    /\ UNCHANGED <<draining, active, runtime, phase, stops, process, downloads, executed>>

-----------------------------------------------------------------------------
\* Downloads live on their own; only requests start them.
DownloadStep ==
    /\ Downloads!Next
    /\ \A t \in Tasks : life[t] = "none" => life'[t] = "none"
    /\ UNCHANGED <<gate, runtime, phase, stops, process, executed>>

-----------------------------------------------------------------------------
StopAt(s, step) == stop' = [stop EXCEPT ![s] = step]

\* Runtime.handle leaves the try block: the answer is fixed, the lock still held.
Conclude(s, told) ==
    /\ StopAt(s, "unlock")
    /\ answer' = [answer EXCEPT ![s] = told]

\* handle('stop'): the lock is tried, not awaited.
TryLock(s) ==
    /\ stop[s] = "idle"
    /\ IF stopLock = None
       THEN stopLock' = s /\ StopAt(s, "check") /\ UNCHANGED answer
       ELSE /\ StopAt(s, "answered")
            /\ answer' = [answer EXCEPT ![s] = "busy"]
            /\ UNCHANGED stopLock
    /\ UNCHANGED <<gate, closing, phase, process, downloads, executed>>

CheckServer(s) ==
    /\ stop[s] = "check"
    /\ IF server = "active"
       THEN StopAt(s, "drain") /\ UNCHANGED answer
       ELSE Conclude(s, "not ready")
    /\ UNCHANGED <<gate, runtime, phase, process, downloads, executed>>

ReopenOnRefusal == FALSE  \* mutant: the refusal of a second drain is cleaned up after too
AfterRefusedDrain == draining

\* drain: refused while another drain lasts, and not undone then.
BeginDrain(s) ==
    /\ stop[s] = "drain"
    /\ IF draining
       THEN draining' = AfterRefusedDrain /\ Conclude(s, "accepting again")
       ELSE draining' = TRUE /\ StopAt(s, "wait") /\ UNCHANGED answer
    /\ UNCHANGED <<active, replies, runtime, phase, process, downloads, executed>>

RequestsIdle == active = {} /\ replies = {}

QueuedOverlooked == \A t \in Tasks : life[t] # "running"  \* mutant: pending is not asked for
DownloadsIdle == Downloads!Active = {}

\* _wait_idle, the poll of the downloads' statistics, and _wait_idle again.
Waited(s) ==
    /\ \/ stop[s] = "wait" /\ RequestsIdle /\ StopAt(s, "poll")
       \/ stop[s] = "poll" /\ DownloadsIdle /\ StopAt(s, "wait again")
       \/ stop[s] = "wait again" /\ RequestsIdle /\ StopAt(s, "drained")
    /\ UNCHANGED <<gate, runtime, phase, answer, process, downloads, executed>>

NoTimeout(s) == FALSE  \* mutant: the wait is not bounded
MayTimeOut(s) ==
    \/ stop[s] \in {"wait", "wait again"} /\ ~RequestsIdle
    \/ stop[s] = "poll" /\ ~DownloadsIdle

TimesOut(s) ==
    /\ MayTimeOut(s)
    /\ StopAt(s, "restore")
    /\ UNCHANGED <<gate, runtime, phase, answer, process, downloads, executed>>

\* except BaseException: admission is restored.
Restore(s) ==
    /\ stop[s] = "restore"
    /\ draining' = FALSE
    /\ Conclude(s, "accepting again")
    /\ UNCHANGED <<active, replies, runtime, phase, process, downloads, executed>>

SetClosing(s) ==
    /\ stop[s] = "drained"
    /\ closing' = TRUE
    /\ StopAt(s, "launch")
    /\ UNCHANGED <<gate, stopLock, phase, answer, process, downloads, executed>>

LaunchClose(s) ==
    /\ stop[s] = "launch"
    /\ closer' = "launched"
    /\ Conclude(s, "stopping")
    /\ UNCHANGED <<gate, runtime, phase, main, server, interrupted, downloads, executed>>

Unlock(s) ==
    /\ stop[s] = "unlock"
    /\ stopLock' = None
    /\ StopAt(s, "answered")
    /\ UNCHANGED <<gate, closing, phase, answer, process, downloads, executed>>

-----------------------------------------------------------------------------
\* start_server: the listener accepts ...
Serve ==
    /\ main = "starting"
    /\ main' = "serving" /\ server' = "active"
    /\ UNCHANGED <<gate, runtime, phase, stops, closer, interrupted, downloads, executed>>

\* ... until the closing thread or an interrupt closes the server ...
Close ==
    /\ closer = "launched"
    /\ closer' = "done" /\ server' = "closed"
    /\ UNCHANGED <<gate, runtime, phase, stops, main, interrupted, downloads, executed>>

Interrupt ==
    /\ server = "active"
    /\ server' = "closed" /\ interrupted' = TRUE
    /\ UNCHANGED <<gate, runtime, phase, stops, closer, main, downloads, executed>>

\* ... and the main thread goes on to shut the downloads and the connection down.
Finish ==
    /\ \/ main = "serving" /\ server = "closed" /\ main' = "downloads"
       \/ main = "downloads" /\ main' = "done"
    /\ UNCHANGED <<gate, runtime, phase, stops, closer, server, interrupted, downloads, executed>>

-----------------------------------------------------------------------------
ReplyStep(r) == TurnAway(r) \/ Admit(r) \/ Leave(r) \/ Write(r) \/ EndLease(r)

StopStep(s) ==
    \/ CheckServer(s) \/ BeginDrain(s) \/ Waited(s) \/ TimesOut(s) \/ Restore(s)
    \/ SetClosing(s) \/ LaunchClose(s) \/ Unlock(s)

ProcessStep == Serve \/ Close \/ Finish

Next ==
    \/ \E r \in Requests : Arrive(r) \/ Execute(r) \/ ReplyStep(r)
    \/ DownloadStep
    \/ \E s \in Stops : TryLock(s) \/ StopStep(s)
    \/ ProcessStep
    \/ Interrupt

Spec == Init /\ [][Next]_vars

\* The stop command's thread, the closing thread and the main thread are
\* scheduled, and a wait with a timeout ends.  Nothing is assumed of requests,
\* their handlers or the downloads: any of them may hang.
Fairness ==
    /\ \A s \in Stops : WF_vars(StopStep(s))
    /\ WF_vars(ProcessStep)

FairSpec == Spec /\ Fairness

-----------------------------------------------------------------------------
DrainSteps == {"wait", "poll", "wait again", "restore", "drained"}

\* Types of all variables.
TypeOK ==
    /\ draining \in BOOLEAN /\ closing \in BOOLEAN /\ interrupted \in BOOLEAN
    /\ active \subseteq Requests /\ replies \subseteq Requests /\ executed \subseteq Requests
    /\ stopLock \in Stops \cup {None}
    /\ phase \in [Requests -> {"away", "arrived", "admitted", "executing", "queued",
                               "written", "cut"}]
    /\ stop \in [Stops -> DrainSteps \cup {"idle", "check", "drain", "launch", "unlock",
                                           "answered"}]
    /\ answer \in [Stops -> {"none", "busy", "not ready", "accepting again", "stopping"}]
    /\ closer \in {"none", "launched", "done"}
    /\ main \in {"starting", "serving", "downloads", "done"}
    /\ server \in {"starting", "active", "closed"}
    /\ life \in [Tasks -> Downloads!Phases] /\ called \subseteq Tasks

\* The drain lets the server close only when nothing it accepted is left: no
\* admitted request and no queued or running download, whichever request
\* started one while the drain was waiting.
NothingLeftAtClose == closing => active = {} /\ DownloadsIdle

\* A reply of an executed request is never cut off by an orderly stop: only an
\* interrupt closes the connection before the reply was written.
RepliesSurviveStop ==
    \A r \in executed : phase[r] = "cut" => interrupted

\* "Timeout cancels the update and restores admission": the gate is shut by a
\* drain in progress or by one that succeeded, and by nothing else; once the
\* server is to close no later stop command opens it again.
ShutExactlyForStop ==
    draining <=> closing \/ \E s \in Stops : stop[s] \in DrainSteps

\* Every stop command is answered, whatever requests and downloads hang, and a
\* drain that succeeded ends the process.
StopsEnd ==
    /\ \A s \in Stops : stop[s] = "check" ~> stop[s] = "answered"
    /\ closing ~> main = "done"

\* "...; new requests are accepted again" (managed.py:44, the answer of a stop
\* command that failed).
AnswerIsTrue ==
    \A s \in Stops :
        stop[s] = "unlock" /\ answer[s] = "accepting again" => ~draining

=============================================================================

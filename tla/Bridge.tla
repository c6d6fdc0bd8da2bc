-------------------------------- MODULE Bridge --------------------------------
(***************************************************************************)
(* The bridge to the BigQMT strategy.  On the server: PipeTransport        *)
(* (adapters/bigqmt/transport.py) and the persistent PipeClients of its    *)
(* pool.  In QMT: PipeChannel and PipeServer (winpipe.py), the bounded     *)
(* handoff BridgeQueue with its Tickets (bridge_queue.py), the trading     *)
(* commands (bridge_trading.py) and the strategy that is started, stopped, *)
(* crashes and is started again (strategy.py).                             *)
(*                                                                         *)
(* Time is abstract: a deadline may have passed at any check of it.  The   *)
(* order of the pool and of the queue is left open.  A reply is the name   *)
(* of its request; its content is response and origin of that request.     *)
(***************************************************************************)
EXTENDS Naturals, FiniteSets

CONSTANTS
    Pings, Reads, Submits, Cancels,  \* requests by operation
    Shared,    \* the submissions that carry one and the same correlation_ref
    Clients,   \* PipeClients, MAX_CONNECTIONS of them
    Pipes,     \* PipeChannels of the strategy, MAX_CONNECTIONS of them
    Capacity,  \* capacity of the queue of tickets
    MaxInstance, \* bound on the starts of the strategy
    None, Broken \* no handle; a handle whose other end is closed

Mutations == Submits \cup Cancels
Calls == Pings \cup Reads \cup Mutations

ASSUME BridgeAssumption ==
    /\ Pings \cap (Reads \cup Mutations) = {} /\ Reads \cap Mutations = {}
    /\ Submits \cap Cancels = {} /\ Shared \subseteq Submits
    /\ IsFiniteSet(Clients) /\ Clients # {}
    /\ IsFiniteSet(Pings \cup Reads \cup Mutations)
    /\ Capacity \in Nat \ {0} /\ MaxInstance \in Nat
    /\ None \notin Calls \cup Clients \cup Pipes \cup Nat
    /\ Broken \notin Pipes /\ Broken # None

VARIABLES
    \* PipeTransport
    instance,  \* the strategy instance it believes in
    seen,      \* the instance each request read when it began
    pc,        \* where each request is
    told,      \* what its caller was told
    retried,   \* requests that were sent again after an unsent write
    pool,      \* idle PipeClients
    conn,      \* the PipeClient each request uses
    \* pipes
    link,      \* the pipe each PipeClient is connected to
    inbox,     \* the reply each PipeClient can read
    inbound,   \* the request each channel can read
    shut,      \* pipes whose client end was closed
    chan,      \* where each PipeChannel is
    job,       \* the ticket of each PipeChannel
    \* BridgeQueue and Tickets of the current strategy instance
    inst,      \* the instance, 0 before the first
    closed,    \* whether it is stopped
    pending,   \* tickets in the queue
    ticket,    \* state of each ticket
    response,  \* response of each ticket
    origin,    \* instance that answered
    \* the strategy thread
    step,      \* where pump is
    current,   \* its ticket
    attempts,  \* markers used in this instance
    \* history
    runs,      \* native order functions called, per request
    native     \* <<instance, request>> for every such call

transport == <<instance, seen, pc, told, retried, pool, conn>>
pipes == <<link, inbox, inbound, shut, chan, job>>
queue == <<pending, ticket, response, origin>>
thread == <<step, current, attempts, runs, native>>
vars == <<transport, pipes, inst, closed, queue, thread>>

Init ==
    /\ instance = None /\ seen = [c \in Calls |-> None]
    /\ pc = [c \in Calls |-> "away"] /\ told = [c \in Calls |-> "waiting"]
    /\ retried = {} /\ pool = Clients /\ conn = [c \in Calls |-> None]
    /\ link = [k \in Clients |-> None] /\ inbox = [k \in Clients |-> None]
    /\ inbound = [p \in Pipes |-> None] /\ shut = {}
    /\ chan = [p \in Pipes |-> "absent"] /\ job = [p \in Pipes |-> None]
    /\ inst = 0 /\ closed = TRUE
    /\ pending = {} /\ ticket = [c \in Calls |-> "none"]
    /\ response = [c \in Calls |-> "none"] /\ origin = [c \in Calls |-> None]
    /\ step = "idle" /\ current = None /\ attempts = {}
    /\ runs = [c \in Calls |-> 0] /\ native = {}

-----------------------------------------------------------------------------
\* PipeTransport.request

Exchange == {"holding", "linking", "writing", "reading"}
Users(S) == {c \in S : pc[c] \in Exchange}

\* One slot is for heartbeats, the others are for business requests.
SlotFree(c) ==
    IF c \in Pings
    THEN Users(Pings) = {}
    ELSE Cardinality(Users(Calls \ Pings)) < Cardinality(Clients) - 1

End(c, answer) ==
    /\ pc' = [pc EXCEPT ![c] = "done"]
    /\ told' = [told EXCEPT ![c] = answer]

Failure(c) == IF c \in Mutations THEN "unknown" ELSE "failed"

AlwaysInvalidate(c) == None  \* mutant: the observed instance is not compared
Invalidated(c) == IF instance = seen[c] THEN None ELSE instance

\* The instance is read; without one only a heartbeat may be sent.
Begin(c) ==
    /\ pc[c] = "away"
    /\ IF instance = None /\ c \notin Pings
       THEN End(c, "not_executed") /\ UNCHANGED seen
       ELSE /\ seen' = [seen EXCEPT ![c] = instance]
            /\ pc' = [pc EXCEPT ![c] = "waiting"]
            /\ UNCHANGED told
    /\ UNCHANGED <<instance, retried, pool, conn, pipes, inst, closed, queue, thread>>

TakeSlot(c) ==
    /\ pc[c] = "waiting" /\ SlotFree(c)
    /\ pc' = [pc EXCEPT ![c] = "holding"]
    /\ UNCHANGED <<instance, seen, told, retried, pool, conn, pipes, inst, closed, queue, thread>>

\* BridgeCapacityError: the wait for a slot expired.
SlotTimeout(c) ==
    /\ pc[c] = "waiting" /\ ~SlotFree(c)
    /\ End(c, "not_executed")
    /\ UNCHANGED <<instance, seen, retried, pool, conn, pipes, inst, closed, queue, thread>>

TakeClient(c) ==
    /\ pc[c] = "holding"
    /\ \E k \in pool :
         /\ pool' = pool \ {k}
         /\ conn' = [conn EXCEPT ![c] = k]
    /\ pc' = [pc EXCEPT ![c] = "linking"]
    /\ UNCHANGED <<instance, seen, told, retried, pipes, inst, closed, queue, thread>>

\* mutant: the client stays connected
StayOpen(k) == UNCHANGED <<link, inbox, inbound, shut>>
\* PipeClient.close: what the strategy has not read yet may be withdrawn.
CloseClient(k) ==
    /\ link' = [link EXCEPT ![k] = None]
    /\ inbox' = [inbox EXCEPT ![k] = None]
    /\ shut' = shut \cup ({link[k]} \cap Pipes)
    /\ \/ UNCHANGED inbound
       \/ inbound' = [p \in Pipes |-> IF p = link[k] THEN None ELSE inbound[p]]

PutBack(c) == pool \cup ({conn[c]} \cap Clients)

\* The exchange fails or its deadline passes: the client is closed and put
\* back, and the outcome of a mutation is unknown.
Fail(c) ==
    /\ pc[c] \in Exchange
    /\ IF conn[c] \in Clients
       THEN CloseClient(conn[c])
       ELSE UNCHANGED <<link, inbox, shut, inbound>>
    /\ pool' = PutBack(c)
    /\ conn' = [conn EXCEPT ![c] = None]
    /\ End(c, Failure(c))
    /\ instance' = Invalidated(c)
    /\ UNCHANGED <<seen, retried, chan, job, inst, closed, queue, thread>>

\* PipeClient._connect: an idle channel of the strategy is opened.
Connect(c) ==
    /\ pc[c] = "linking" /\ link[conn[c]] = None
    /\ \E p \in Pipes :
         /\ chan[p] = "listening" /\ p \notin shut
         /\ \A k \in Clients : link[k] # p
         /\ link' = [link EXCEPT ![conn[c]] = p]
    /\ UNCHANGED <<transport, inbox, inbound, shut, chan, job, inst, closed, queue, thread>>

\* PipeClient._write: the request is on its way, or the handle proves broken
\* only when it is written to.
Write(c) ==
    /\ pc[c] = "linking" /\ link[conn[c]] # None
    /\ inbound' = [p \in Pipes |-> IF p = link[conn[c]] THEN c ELSE inbound[p]]
    /\ pc' = [pc EXCEPT ![c] = "writing"]
    /\ UNCHANGED <<instance, seen, told, retried, pool, conn, link, inbox, shut, chan, job,
                   inst, closed, queue, thread>>

Written(c) ==
    /\ pc[c] = "writing"
    /\ link[conn[c]] # Broken \/ ticket[c] # "none"
    /\ pc' = [pc EXCEPT ![c] = "reading"]
    /\ UNCHANGED <<instance, seen, told, retried, pool, conn, pipes, inst, closed, queue, thread>>

RetryAnyFailure(c) == pc[c] \in {"writing", "reading"}  \* mutant: a failed read is retried
Unsent(c) == pc[c] = "writing" /\ ticket[c] = "none"

\* A failed write proves that the request was not sent: it is sent once more
\* over a new connection.
Resend(c) ==
    /\ Unsent(c) /\ link[conn[c]] = Broken
    /\ c \notin retried
    /\ CloseClient(conn[c])
    /\ retried' = retried \cup {c}
    /\ pc' = [pc EXCEPT ![c] = "linking"]
    /\ UNCHANGED <<instance, seen, told, pool, conn, chan, job, inst, closed, queue, thread>>

\* A reply that names another request, or another instance, is a failure.
Correlated(c, r) == r = c /\ (c \in Pings \/ origin[r] = seen[c])

\* The reply is read and the client goes back to the pool.  A heartbeat's reply
\* names the instance to believe in; "gone" is STALE_INSTANCE or STOPPED.
Receive(c) ==
    /\ pc[c] = "reading" /\ inbox[conn[c]] # None
    /\ LET r == inbox[conn[c]] IN
         \/ /\ Correlated(c, r)
            /\ response[r] \in {"ok", "declined", "not_executed"}
            /\ End(c, response[r])
            /\ instance' = IF c \in Pings THEN origin[r] ELSE instance
         \/ /\ Correlated(c, r)
            /\ response[r] = "unknown"
            /\ End(c, Failure(c)) /\ UNCHANGED instance
         \/ \* uncorrelated, late, or the strategy instance is gone
            /\ End(c, Failure(c)) /\ instance' = Invalidated(c)
    /\ inbox' = [inbox EXCEPT ![conn[c]] = None]
    /\ pool' = PutBack(c)
    /\ conn' = [conn EXCEPT ![c] = None]
    /\ UNCHANGED <<seen, retried, link, inbound, shut, chan, job, inst, closed, queue, thread>>

-----------------------------------------------------------------------------
\* PipeChannel.tick, driven by PipeServer.poll on the strategy thread

Polling == ~closed /\ step = "idle"
Linked(p) == \E k \in Clients : link[k] = p

\* Ticket.cancel for the tickets in S
CancelTickets(S) ==
    [c \in Calls |-> IF c \in S /\ ticket[c] \in {"queued", "running"} THEN "cancelled" ELSE ticket[c]]

\* PipeChannel.close for the channels in P: a reply the client has not read
\* yet may be lost.
Sever(P) ==
    /\ chan' = [p \in Pipes |-> IF p \in P THEN "absent" ELSE chan[p]]
    /\ job' = [p \in Pipes |-> IF p \in P THEN None ELSE job[p]]
    /\ inbound' = [p \in Pipes |-> IF p \in P THEN None ELSE inbound[p]]
    /\ shut' = shut \ P
    /\ link' = [k \in Clients |-> IF link[k] \in P THEN Broken ELSE link[k]]
    /\ \E lost \in SUBSET {k \in Clients : link[k] \in P} :
         inbox' = [k \in Clients |-> IF k \in lost THEN None ELSE inbox[k]]

\* A client has connected; the first read is posted.
Accept(p) ==
    /\ Polling /\ chan[p] = "listening"
    /\ Linked(p) \/ p \in shut
    /\ chan' = [chan EXCEPT ![p] = "reading"]
    /\ UNCHANGED <<transport, link, inbox, inbound, shut, job, inst, closed, queue, thread>>

AnyInstance(c) == TRUE  \* mutant: the instance of the request is not checked
Addressed(c) == c \in Pings \/ seen[c] = inst

\* BridgeQueue.submit.  A heartbeat is sent without an instance.
Submit(c) ==
    LET refuse(r) ==
          /\ ticket' = [ticket EXCEPT ![c] = "done"]
          /\ response' = [response EXCEPT ![c] = r]
          /\ UNCHANGED pending
    IN  /\ origin' = [origin EXCEPT ![c] = inst]
        /\ \/ (~Addressed(c) /\ refuse("gone"))
           \/ (Addressed(c) /\ refuse("unknown"))  \* EXPIRED, or OVERLOADED when the queue is full
           \/ /\ Addressed(c) /\ Cardinality(pending) < Capacity
              /\ pending' = pending \cup {c}
              /\ ticket' = [ticket EXCEPT ![c] = "queued"]
              /\ UNCHANGED response

\* A request is read and handed to the queue.
Read(p) ==
    /\ Polling /\ chan[p] = "reading" /\ inbound[p] # None
    /\ Submit(inbound[p])
    /\ job' = [job EXCEPT ![p] = inbound[p]]
    /\ chan' = [chan EXCEPT ![p] = "waiting"]
    /\ inbound' = [inbound EXCEPT ![p] = None]
    /\ UNCHANGED <<transport, link, inbox, shut, inst, closed, thread>>

\* Ticket.poll: once the ticket has a response, or its deadline passed, the
\* reply is written.
Reply(p) ==
    /\ Polling /\ chan[p] = "waiting"
    /\ \/ /\ ticket[job[p]] = "done"
          /\ UNCHANGED <<ticket, response>>
       \/ /\ ticket[job[p]] \in {"queued", "running"}
          /\ ticket' = [ticket EXCEPT ![job[p]] = "done"]
          /\ response' = [response EXCEPT ![job[p]] = "unknown"]
    /\ chan' = [chan EXCEPT ![p] = "writing"]
    /\ inbox' = [k \in Clients |-> IF link[k] = p THEN job[p] ELSE inbox[k]]
    /\ UNCHANGED <<transport, link, inbound, shut, job, inst, closed, pending, origin, thread>>

\* The reply is written; the next request is read over the same connection.
Replied(p) ==
    /\ Polling /\ chan[p] = "writing" /\ Linked(p)
    /\ chan' = [chan EXCEPT ![p] = "reading"]
    /\ job' = [job EXCEPT ![p] = None]
    /\ UNCHANGED <<transport, link, inbox, inbound, shut, inst, closed, queue, thread>>

\* The client has gone, or the write takes longer than IO_TIMEOUT.
Hangup(p) ==
    /\ Polling
    /\ \/ (chan[p] = "reading" /\ inbound[p] = None /\ p \in shut)
       \/ chan[p] = "writing"
    /\ ticket' = CancelTickets({job[p]})
    /\ Sever({p})
    /\ UNCHANGED <<transport, inst, closed, pending, response, origin, thread>>

\* PipeChannel: a new channel waits for a client.
Listening(P) == chan' = [p \in Pipes |-> IF p \in P THEN "listening" ELSE chan[p]]

\* PipeServer.poll makes up for closed channels.
Recreate(p) ==
    /\ Polling /\ chan[p] = "absent"
    /\ Listening({p})
    /\ UNCHANGED <<transport, link, inbox, inbound, shut, job, inst, closed, queue, thread>>

-----------------------------------------------------------------------------
\* BridgeQueue.pump and StrategyTrading.execute on the strategy thread

AtStep(s, c) == step' = s /\ current' = c

\* The next ticket is taken from the queue ...
Take(c) ==
    /\ Polling /\ c \in pending
    /\ pending' = pending \ {c}
    /\ AtStep("got", c)
    /\ UNCHANGED <<transport, pipes, inst, closed, ticket, response, origin, attempts, runs, native>>

MayRun(c) == ticket[c] = "queued" /\ ~closed

\* ... and claimed: it runs, or is skipped.
Claim ==
    /\ step = "got"
    /\ \/ /\ MayRun(current)
          /\ ticket' = [ticket EXCEPT ![current] = "running"]
          /\ AtStep("running", current) /\ UNCHANGED response
       \/ /\ MayRun(current)  \* its deadline passed
          /\ ticket' = [ticket EXCEPT ![current] = "done"]
          /\ response' = [response EXCEPT ![current] = "unknown"]
          /\ AtStep("idle", None)
       \/ /\ ~MayRun(current)
          /\ ticket' = CancelTickets({current})
          /\ AtStep("idle", None) /\ UNCHANGED response
    /\ UNCHANGED <<transport, pipes, inst, closed, pending, origin, attempts, runs, native>>

\* Ticket.finish: the response of a cancelled ticket is discarded, and one that
\* comes after the deadline is replaced by EXPIRED.
Finish(r) ==
    /\ IF ticket[current] = "running"
       THEN /\ ticket' = [ticket EXCEPT ![current] = "done"]
            /\ \E final \in {r, "unknown"} : response' = [response EXCEPT ![current] = final]
       ELSE UNCHANGED <<ticket, response>>
    /\ AtStep("idle", None)

\* Reads and heartbeats succeed or fail.
Answer ==
    /\ step = "running" /\ current \notin Mutations
    /\ \E r \in {"ok", "unknown"} : Finish(r)
    /\ UNCHANGED <<transport, pipes, inst, closed, pending, origin, attempts, runs, native>>

Marker(c) == IF c \in Shared THEN "shared" ELSE c
NeverUsed(c) == TRUE  \* mutant: markers are not remembered
Unused(c) == c \in Submits => Marker(c) \notin attempts

\* The checks before the native call pass ...
Check ==
    /\ step = "running" /\ current \in Mutations
    /\ Unused(current)
    /\ AtStep("checked", current)
    /\ UNCHANGED <<transport, pipes, inst, closed, queue, attempts, runs, native>>

\* ... or do not: a marker used before, an order that cannot be identified, a
\* deadline that passed, or an order that can no longer be cancelled.
Refuse ==
    /\ step \in {"running", "checked"} /\ current \in Mutations
    /\ \/ Finish("not_executed")
       \/ (current \in Cancels /\ step = "running" /\ Finish("declined"))
    /\ UNCHANGED <<transport, pipes, inst, closed, pending, origin, attempts, runs, native>>

\* passorder or cancel is called.
Call ==
    /\ step = "checked"
    /\ attempts' = attempts \cup IF current \in Submits THEN {Marker(current)} ELSE {}
    /\ native' = native \cup {<<inst, current>>}
    /\ runs' = [runs EXCEPT ![current] = @ + 1]
    /\ AtStep("called", current)
    /\ UNCHANGED <<transport, pipes, inst, closed, queue>>

Outcomes == {"ok", "unknown"}

\* It returns, or raises.
Return ==
    /\ step = "called"
    /\ \E r \in Outcomes : Finish(r)
    /\ UNCHANGED <<transport, pipes, inst, closed, pending, origin, attempts, runs, native>>

-----------------------------------------------------------------------------
\* The strategy is started, stopped, possibly by another thread, or dies.

Start ==
    /\ closed /\ step = "idle" /\ inst < MaxInstance
    /\ inst' = inst + 1 /\ closed' = FALSE
    /\ attempts' = {}
    /\ Listening(Pipes)
    /\ UNCHANGED <<transport, link, inbox, inbound, shut, job, queue, step, current, runs, native>>

\* BridgeQueue.stop: queued tickets are cancelled, and those in S with them.
QueueStops(S) ==
    /\ closed' = TRUE
    /\ pending' = {}
    /\ ticket' = CancelTickets(pending \cup S)

\* PipeServer.stop: a running native call goes on.
Stop ==
    /\ ~closed
    /\ QueueStops({job[p] : p \in Pipes})
    /\ Sever(Pipes)
    /\ UNCHANGED <<transport, inst, response, origin, thread>>

Crash ==
    /\ ~closed \/ step # "idle"
    /\ QueueStops(Calls)
    /\ Sever(Pipes)
    /\ AtStep("idle", None)
    /\ UNCHANGED <<transport, inst, response, origin, attempts, runs, native>>

Request(c) ==
    \/ Begin(c) \/ TakeSlot(c) \/ SlotTimeout(c) \/ TakeClient(c) \/ Fail(c)
    \/ Connect(c) \/ Write(c) \/ Written(c) \/ Resend(c) \/ Receive(c)
Channel(p) == Accept(p) \/ Read(p) \/ Reply(p) \/ Replied(p) \/ Hangup(p) \/ Recreate(p)
Pump == (\E c \in Calls : Take(c)) \/ Claim \/ Answer \/ Check \/ Refuse \/ Call \/ Return
Next ==
    \/ \E c \in Calls : Request(c)
    \/ \E p \in Pipes : Channel(p)
    \/ Pump \/ Start \/ Stop \/ Crash

Spec == Init /\ [][Next]_vars

-----------------------------------------------------------------------------
\* Every variable has its type: instances are never mixed with what is None.
TypeOK ==
    /\ instance \in Nat \cup {None} /\ seen \in [Calls -> Nat \cup {None}]
    /\ pc \in [Calls -> {"away", "waiting", "done"} \cup Exchange]
    /\ told \in [Calls -> {"waiting", "ok", "declined", "not_executed", "unknown", "failed"}]
    /\ retried \subseteq Calls
    /\ pool \subseteq Clients /\ conn \in [Calls -> Clients \cup {None}]
    /\ link \in [Clients -> Pipes \cup {None, Broken}]
    /\ inbox \in [Clients -> Calls \cup {None}]
    /\ inbound \in [Pipes -> Calls \cup {None}] /\ shut \subseteq Pipes
    /\ chan \in [Pipes -> {"absent", "listening", "reading", "waiting", "writing"}]
    /\ job \in [Pipes -> Calls \cup {None}]
    /\ inst \in Nat /\ closed \in BOOLEAN
    /\ pending \subseteq Calls
    /\ ticket \in [Calls -> {"none", "queued", "running", "done", "cancelled"}]
    /\ response \in [Calls -> {"none", "ok", "declined", "not_executed", "unknown", "gone"}]
    /\ origin \in [Calls -> Nat \cup {None}]
    /\ step \in {"idle", "got", "running", "checked", "called"}
    /\ current \in Calls \cup {None}
    /\ attempts \subseteq Submits \cup {"shared"}
    /\ runs \in [Calls -> Nat] /\ native \subseteq Nat \X Mutations

\* The bridge keeps its promise to the callers of mutations: the native function
\* is called at most once for each, whatever is retried, lost, cut off or
\* answered late, and never when the caller was told "not_executed".
MutationRuns == [c \in Mutations |-> runs[c]]
MutationTold == [c \in Mutations |-> told[c]]
Promise == INSTANCE MutationCall WITH Calls <- Mutations, runs <- MutationRuns, told <- MutationTold
PromiseKept == Promise!Spec

\* A request is executed by the strategy instance its caller was connected to
\* when it began, or not at all: a restarted strategy never executes what was
\* meant for its predecessor.
RunsWhereAddressed == \A n \in native : n[1] = seen[n[2]]

\* One strategy instance places at most one order per correlation_ref, however
\* many requests carry it and however their calls end.
OneOrderPerMarker ==
    \A m, n \in native :
        /\ m[1] = n[1] /\ {m[2], n[2]} \subseteq Submits
        /\ Marker(m[2]) = Marker(n[2])
        => m = n

\* A client reads the reply of the request it sent, on a connection that many
\* requests have used before and some of them left early.
RepliesAreOwn ==
    \A c \in Calls : pc[c] = "reading" => inbox[conn[c]] \in {None, c}

\* A failure takes away only the instance its request had read: the answer of
\* a dead strategy cannot disconnect the one that replaced it.
OnlyObservedIsInvalidated ==
    [][instance' = None /\ instance # None
        => \E c \in Calls : pc[c] # "done" /\ pc'[c] = "done" /\ seen[c] = instance]_vars
=============================================================================

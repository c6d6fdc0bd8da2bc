----------------------------- MODULE BridgeProofs -----------------------------
(***************************************************************************)
(* Proofs about Bridge.  A request is followed on its way through the      *)
(* bridge: it lies in at most one place, has a ticket only after it left   *)
(* the caller, is current only after its ticket left the queue, and its    *)
(* response is written only once.                                          *)
(***************************************************************************)
EXTENDS OrderSubmit, TLAPS

Early == {"away", "waiting", "holding", "linking"}
Connected == {"linking", "writing", "reading"}

\* Callers and the clients they hold.
CallerInv(c) ==
    /\ told[c] = "waiting" <=> pc[c] # "done"
    /\ conn[c] # None <=> pc[c] \in Connected
    /\ conn[c] \notin pool
    /\ \A d \in Calls : conn[c] = conn[d] /\ conn[c] # None => c = d

\* On the wire: a request is in at most one pipe, and only before it has a
\* ticket; what is still being written is in the pipe of its client.
WireInv(c) ==
    /\ pc[c] \in Early => ticket[c] = "none"
    /\ \A p \in Pipes : inbound[p] = c =>
         /\ pc[c] \notin Early /\ ticket[c] = "none"
         /\ pc[c] = "writing" => link[conn[c]] = p
         /\ told[c] \notin {"ok", "declined", "not_executed"}
         /\ \A q \in Pipes : inbound[q] = c => p = q

\* In the strategy: a ticket is queued, then current, then done.
TicketInv(c) ==
    /\ ticket[c] = "none" => c \notin pending /\ current # c
    /\ c \in pending => current # c /\ runs[c] = 0
    /\ ticket[c] \in {"none", "queued"} => runs[c] = 0
    /\ ticket[c] = "queued" => c \in pending \/ (current = c /\ step = "got")
    /\ ticket[c] = "running" => current = c /\ step \in {"running", "checked", "called"}
    /\ response[c] # "none" => ticket[c] = "done"
    /\ ticket[c] # "none" => origin[c] # None

\* What runs the native function, and what the answers say of it.
RunInv(c) ==
    /\ runs[c] \in {0, 1}
    /\ c \in Mutations =>
         /\ response[c] = "ok" => runs[c] = 1
         /\ told[c] = "ok" => runs[c] = 1
         /\ told[c] # "failed"
    /\ response[c] \in {"declined", "not_executed"} => runs[c] = 0
    /\ told[c] \in {"declined", "not_executed"} => runs[c] = 0 /\ ticket[c] \in {"none", "done"}

ThreadInv ==
    /\ step = "idle" <=> current = None
    /\ step \in {"got", "running", "checked"} => runs[current] = 0
    /\ step \in {"running", "checked", "called"} => ticket[current] \in {"running", "cancelled"}
    /\ step \in {"checked", "called"} => current \in Mutations
    /\ step = "called" => runs[current] = 1
    /\ closed => pending = {}

RequestInv(c) == CallerInv(c) /\ WireInv(c) /\ TicketInv(c) /\ RunInv(c)

IInv == TypeOK /\ ThreadInv /\ \A c \in Calls : RequestInv(c)

\* Requests and the instance they are meant for.
AddressInv ==
    /\ \A c \in Mutations : ticket[c] = "queued" => seen[c] = inst
    /\ step \in {"running", "checked", "called"} /\ current \in Mutations => seen[current] = inst
    /\ \A n \in native : n[2] \in Mutations /\ ticket[n[2]] # "none" /\ n[1] = seen[n[2]]

\* Orders and the markers of the instance that placed them.
MarkerInv ==
    /\ step = "checked" /\ current \in Submits => Marker(current) \notin attempts
    /\ \A n \in native : n[1] <= inst
    /\ \A n \in native : n[1] = inst /\ n[2] \in Submits => Marker(n[2]) \in attempts
    /\ OneOrderPerMarker

\* Clients and their pipes: what is in a connection belongs to the request that
\* uses it.
Uses(c, k) == conn[c] = k /\ pc[c] \in {"writing", "reading"}
LinkInv == \A k, l \in Clients : link[k] = link[l] /\ link[k] \in Pipes => k = l
InboxInv == \A k \in Clients :
    inbox[k] # None => Uses(inbox[k], k) /\ ticket[inbox[k]] # "none"
ConnectionInv == \A k \in Clients : \A p \in Pipes : link[k] = p =>
    /\ p \notin shut /\ chan[p] # "absent"
    /\ inbound[p] # None => Uses(inbound[p], k)
    /\ chan[p] = "waiting" => Uses(job[p], k) /\ inbox[k] = None
ChannelInv == \A p \in Pipes :
    /\ closed => chan[p] = "absent"
    /\ chan[p] = "listening" => job[p] = None /\ (inbound[p] # None => Linked(p) \/ p \in shut)
    /\ chan[p] = "waiting" => job[p] # None /\ ticket[job[p]] # "none"
    /\ chan[p] = "absent" => job[p] = None /\ p \notin shut /\ inbound[p] = None

PipeInv == LinkInv /\ InboxInv /\ ConnectionInv /\ ChannelInv

-----------------------------------------------------------------------------
\* Nothing has happened yet.
LEMMA InitInv == Init => IInv
<1> SUFFICES ASSUME Init PROVE IInv
  OBVIOUS
<1> USE BridgeAssumption DEF Init
<1>1. TypeOK
  BY DEF TypeOK, Exchange
<1>2. ThreadInv
  BY DEF ThreadInv
<1>3. ASSUME NEW c \in Calls PROVE RequestInv(c)
  BY <1>3 DEF RequestInv, CallerInv, WireInv, TicketInv, RunInv, Early, Connected
<1>. QED  BY <1>1, <1>2, <1>3 DEF IInv

\* The strategy side keeps what is known of the callers and of the pipes ...
LEMMA TransportFrame ==
  ASSUME IInv, UNCHANGED transport, NEW c \in Calls
  PROVE  CallerInv(c)'
BY DEF IInv, RequestInv, CallerInv, transport

\* ... and the callers' side what is known of the strategy.
LEMMA StrategyFrame ==
  ASSUME IInv, UNCHANGED <<inst, closed, queue, thread>>
  PROVE  ThreadInv' /\ \A c \in Calls : TicketInv(c)'
BY DEF IInv, RequestInv, ThreadInv, TicketInv, queue, thread

LEMMA BeginInv == ASSUME IInv, NEW c \in Calls, Begin(c) PROVE IInv'
<1> USE BridgeAssumption DEF Begin, End
<1>1. TypeOK'
  BY DEF IInv, TypeOK, Exchange, transport, pipes, queue, thread
<1>2. ThreadInv' /\ \A d \in Calls : TicketInv(d)'
  BY StrategyFrame
<1>3. ASSUME NEW d \in Calls PROVE CallerInv(d)'
  BY <1>3 DEF IInv, TypeOK, RequestInv, CallerInv, Connected, Exchange, transport, pipes
<1>4. ASSUME NEW d \in Calls PROVE WireInv(d)'
  BY <1>4 DEF IInv, TypeOK, RequestInv, CallerInv, WireInv, Connected, Early, Exchange, transport, pipes, queue
<1>5. ASSUME NEW d \in Calls PROVE RunInv(d)'
  BY <1>5 DEF IInv, TypeOK, RequestInv, CallerInv, WireInv, TicketInv, RunInv, Early, Connected, Exchange, transport, pipes, queue, thread
<1>. QED  BY <1>1, <1>2, <1>3, <1>4, <1>5 DEF IInv, RequestInv

LEMMA TakeSlotInv == ASSUME IInv, NEW c \in Calls, TakeSlot(c) PROVE IInv'
<1> USE BridgeAssumption DEF TakeSlot
<1>1. TypeOK'
  BY DEF IInv, TypeOK, Exchange, transport, pipes, queue, thread
<1>2. ThreadInv' /\ \A d \in Calls : TicketInv(d)'
  BY StrategyFrame
<1>3. ASSUME NEW d \in Calls PROVE CallerInv(d)'
  BY <1>3 DEF IInv, TypeOK, RequestInv, CallerInv, Connected, Exchange, transport, pipes
<1>4. ASSUME NEW d \in Calls PROVE WireInv(d)'
  BY <1>4 DEF IInv, TypeOK, RequestInv, CallerInv, WireInv, Connected, Early, Exchange, transport, pipes, queue
<1>5. ASSUME NEW d \in Calls PROVE RunInv(d)'
  BY <1>5 DEF IInv, TypeOK, RequestInv, CallerInv, WireInv, TicketInv, RunInv, Early, Connected, Exchange, transport, pipes, queue, thread
<1>. QED  BY <1>1, <1>2, <1>3, <1>4, <1>5 DEF IInv, RequestInv

LEMMA SlotTimeoutInv == ASSUME IInv, NEW c \in Calls, SlotTimeout(c) PROVE IInv'
<1> USE BridgeAssumption DEF SlotTimeout, End
<1>1. TypeOK'
  BY DEF IInv, TypeOK, Exchange, transport, pipes, queue, thread
<1>2. ThreadInv' /\ \A d \in Calls : TicketInv(d)'
  BY StrategyFrame
<1>3. ASSUME NEW d \in Calls PROVE CallerInv(d)'
  BY <1>3 DEF IInv, TypeOK, RequestInv, CallerInv, Connected, Exchange, transport, pipes
<1>4. ASSUME NEW d \in Calls PROVE WireInv(d)'
  BY <1>4 DEF IInv, TypeOK, RequestInv, CallerInv, WireInv, Connected, Early, Exchange, transport, pipes, queue
<1>5. ASSUME NEW d \in Calls PROVE RunInv(d)'
  BY <1>5 DEF IInv, TypeOK, RequestInv, CallerInv, WireInv, TicketInv, RunInv, Early, Connected, Exchange, transport, pipes, queue, thread
<1>. QED  BY <1>1, <1>2, <1>3, <1>4, <1>5 DEF IInv, RequestInv

LEMMA TakeClientInv == ASSUME IInv, NEW c \in Calls, TakeClient(c) PROVE IInv'
<1> USE BridgeAssumption DEF TakeClient
<1>1. TypeOK'
  BY DEF IInv, TypeOK, Exchange, transport, pipes, queue, thread
<1>2. ThreadInv' /\ \A d \in Calls : TicketInv(d)'
  BY StrategyFrame
<1>3. ASSUME NEW d \in Calls PROVE CallerInv(d)'
  BY <1>3 DEF IInv, TypeOK, RequestInv, CallerInv, Connected, Exchange, transport, pipes
<1>4. ASSUME NEW d \in Calls PROVE WireInv(d)'
  BY <1>4 DEF IInv, TypeOK, RequestInv, CallerInv, WireInv, Connected, Early, Exchange, transport, pipes, queue
<1>5. ASSUME NEW d \in Calls PROVE RunInv(d)'
  BY <1>5 DEF IInv, TypeOK, RequestInv, CallerInv, WireInv, TicketInv, RunInv, Early, Connected, Exchange, transport, pipes, queue, thread
<1>. QED  BY <1>1, <1>2, <1>3, <1>4, <1>5 DEF IInv, RequestInv

LEMMA FailInv == ASSUME IInv, NEW c \in Calls, Fail(c) PROVE IInv'
<1> USE BridgeAssumption DEF Fail, End, Failure, PutBack, CloseClient, Invalidated
<1>1. TypeOK'
  BY DEF IInv, TypeOK, Exchange, transport, pipes, queue, thread
<1>2. ThreadInv' /\ \A d \in Calls : TicketInv(d)'
  BY StrategyFrame
<1>3. ASSUME NEW d \in Calls PROVE CallerInv(d)'
  BY <1>3 DEF IInv, TypeOK, RequestInv, CallerInv, Connected, Exchange, transport, pipes
<1>4. ASSUME NEW d \in Calls PROVE WireInv(d)'
  BY <1>4 DEF IInv, TypeOK, RequestInv, CallerInv, WireInv, Connected, Early, Exchange, transport, pipes, queue
<1>5. ASSUME NEW d \in Calls PROVE RunInv(d)'
  BY <1>5 DEF IInv, TypeOK, RequestInv, CallerInv, WireInv, TicketInv, RunInv, Early, Connected, Exchange, transport, pipes, queue, thread
<1>. QED  BY <1>1, <1>2, <1>3, <1>4, <1>5 DEF IInv, RequestInv

LEMMA ConnectInv == ASSUME IInv, NEW c \in Calls, Connect(c) PROVE IInv'
<1> USE BridgeAssumption DEF Connect
<1>0. conn[c] \in Clients
  BY DEF IInv, TypeOK, RequestInv, CallerInv, Connected, Exchange
<1>1. TypeOK'
  BY <1>0 DEF IInv, TypeOK, Exchange, transport, pipes, queue, thread
<1>2. ThreadInv' /\ \A d \in Calls : TicketInv(d)'
  BY StrategyFrame
<1>3. ASSUME NEW d \in Calls PROVE CallerInv(d)'
  BY <1>3 DEF IInv, TypeOK, RequestInv, CallerInv, Connected, Exchange, transport, pipes
<1>4. ASSUME NEW d \in Calls PROVE WireInv(d)'
  BY <1>4 DEF IInv, TypeOK, RequestInv, CallerInv, WireInv, Connected, Early, Exchange, transport, pipes, queue
<1>5. ASSUME NEW d \in Calls PROVE RunInv(d)'
  BY <1>5 DEF IInv, TypeOK, RequestInv, CallerInv, WireInv, TicketInv, RunInv, Early, Connected, Exchange, transport, pipes, queue, thread
<1>. QED  BY <1>1, <1>2, <1>3, <1>4, <1>5 DEF IInv, RequestInv

LEMMA WriteInv == ASSUME IInv, NEW c \in Calls, Write(c) PROVE IInv'
<1> USE BridgeAssumption DEF Write
<1>1. TypeOK'
  BY DEF IInv, TypeOK, Exchange, transport, pipes, queue, thread
<1>2. ThreadInv' /\ \A d \in Calls : TicketInv(d)'
  BY StrategyFrame
<1>3. ASSUME NEW d \in Calls PROVE CallerInv(d)'
  BY <1>3 DEF IInv, TypeOK, RequestInv, CallerInv, Connected, Exchange, transport, pipes
<1>4. ASSUME NEW d \in Calls PROVE WireInv(d)'
  BY <1>4 DEF IInv, TypeOK, RequestInv, CallerInv, WireInv, Connected, Early, Exchange, transport, pipes, queue
<1>5. ASSUME NEW d \in Calls PROVE RunInv(d)'
  BY <1>5 DEF IInv, TypeOK, RequestInv, CallerInv, WireInv, TicketInv, RunInv, Early, Connected, Exchange, transport, pipes, queue, thread
<1>. QED  BY <1>1, <1>2, <1>3, <1>4, <1>5 DEF IInv, RequestInv

LEMMA WrittenInv == ASSUME IInv, NEW c \in Calls, Written(c) PROVE IInv'
<1> USE BridgeAssumption DEF Written
<1>1. TypeOK'
  BY DEF IInv, TypeOK, Exchange, transport, pipes, queue, thread
<1>2. ThreadInv' /\ \A d \in Calls : TicketInv(d)'
  BY StrategyFrame
<1>3. ASSUME NEW d \in Calls PROVE CallerInv(d)'
  BY <1>3 DEF IInv, TypeOK, RequestInv, CallerInv, Connected, Exchange, transport, pipes
<1>4. ASSUME NEW d \in Calls PROVE WireInv(d)'
  BY <1>4 DEF IInv, TypeOK, RequestInv, CallerInv, WireInv, Connected, Early, Exchange, transport, pipes, queue
<1>5. ASSUME NEW d \in Calls PROVE RunInv(d)'
  BY <1>5 DEF IInv, TypeOK, RequestInv, CallerInv, WireInv, TicketInv, RunInv, Early, Connected, Exchange, transport, pipes, queue, thread
<1>. QED  BY <1>1, <1>2, <1>3, <1>4, <1>5 DEF IInv, RequestInv

LEMMA ResendInv == ASSUME IInv, NEW c \in Calls, Resend(c) PROVE IInv'
<1> USE BridgeAssumption DEF Resend, Unsent, CloseClient
<1>0. conn[c] \in Clients
  BY DEF IInv, TypeOK, RequestInv, CallerInv, Connected, Exchange
<1>1. TypeOK'
  BY <1>0 DEF IInv, TypeOK, Exchange, transport, pipes, queue, thread
<1>2. ThreadInv' /\ \A d \in Calls : TicketInv(d)'
  BY StrategyFrame
<1>3. ASSUME NEW d \in Calls PROVE CallerInv(d)'
  BY <1>3 DEF IInv, TypeOK, RequestInv, CallerInv, Connected, Exchange, transport, pipes
<1>4. ASSUME NEW d \in Calls PROVE WireInv(d)'
  BY <1>4 DEF IInv, TypeOK, RequestInv, CallerInv, WireInv, Connected, Early, Exchange, transport, pipes, queue
<1>5. ASSUME NEW d \in Calls PROVE RunInv(d)'
  BY <1>5 DEF IInv, TypeOK, RequestInv, CallerInv, WireInv, TicketInv, RunInv, Early, Connected, Exchange, transport, pipes, queue, thread
<1>. QED  BY <1>1, <1>2, <1>3, <1>4, <1>5 DEF IInv, RequestInv

LEMMA ReceiveInv == ASSUME IInv, NEW c \in Calls, Receive(c) PROVE IInv'
<1> USE BridgeAssumption DEF Receive, End, Failure, PutBack, Correlated, Invalidated
<1>0. conn[c] \in Clients
  BY DEF IInv, TypeOK, RequestInv, CallerInv, Connected, Exchange
<1>a. /\ pc' = [pc EXCEPT ![c] = "done"]
      /\ \/ /\ told' = [told EXCEPT ![c] = response[c]] /\ ticket[c] = "done"
            /\ response[c] \in {"ok", "declined", "not_executed"}
         \/ told' = [told EXCEPT ![c] = Failure(c)]
  BY <1>0 DEF IInv, TypeOK, RequestInv, TicketInv
<1>b. /\ instance' \in Nat \cup {None} /\ pool' \subseteq Clients
      /\ conn' \in [Calls -> Clients \cup {None}] /\ inbox' \in [Clients -> Calls \cup {None}]
  BY <1>0 DEF IInv, TypeOK
<1>c. /\ pool' = pool \cup {conn[c]} /\ conn' = [conn EXCEPT ![c] = None]
      /\ pc[c] = "reading"
      /\ UNCHANGED <<seen, retried, link, inbound, shut, chan, job, inst, closed, queue, thread>>
  BY <1>0
<1> HIDE DEF Receive
<1>1. TypeOK'
  BY <1>a, <1>b, <1>c DEF IInv, TypeOK, Exchange, queue, thread
<1>2. ThreadInv' /\ \A d \in Calls : TicketInv(d)'
  BY StrategyFrame, <1>c
<1>3. ASSUME NEW d \in Calls PROVE CallerInv(d)'
  BY <1>0, <1>a, <1>c, <1>3 DEF IInv, TypeOK, RequestInv, CallerInv, Connected, Exchange, transport, pipes
<1>4. ASSUME NEW d \in Calls PROVE WireInv(d)'
  BY <1>a, <1>c, <1>4 DEF IInv, TypeOK, RequestInv, CallerInv, WireInv, Connected, Early, Exchange, transport, pipes, queue
<1>5. ASSUME NEW d \in Calls PROVE RunInv(d)'
  BY <1>a, <1>c, <1>5 DEF IInv, TypeOK, RequestInv, CallerInv, WireInv, TicketInv, RunInv, Early, Connected, Exchange, transport, pipes, queue, thread
<1>. QED  BY <1>1, <1>2, <1>3, <1>4, <1>5 DEF IInv, RequestInv

LEMMA AcceptInv == ASSUME IInv, NEW p \in Pipes, Accept(p) PROVE IInv'
<1> USE BridgeAssumption DEF Accept, Polling
<1>1. TypeOK'
  BY DEF IInv, TypeOK, Exchange, transport, pipes, queue, thread
<1>2. ThreadInv'
  BY DEF IInv, TypeOK, RequestInv, TicketInv, ThreadInv, pipes, queue, thread
<1>3. ASSUME NEW d \in Calls PROVE CallerInv(d)'
  BY <1>3, TransportFrame
<1>4. ASSUME NEW d \in Calls PROVE WireInv(d)'
  BY <1>4 DEF IInv, TypeOK, RequestInv, CallerInv, WireInv, TicketInv, ThreadInv, Connected, Early, transport, pipes, queue, thread
<1>5. ASSUME NEW d \in Calls PROVE TicketInv(d)'
  BY <1>5 DEF IInv, TypeOK, RequestInv, WireInv, TicketInv, ThreadInv, pipes, queue, thread
<1>6. ASSUME NEW d \in Calls PROVE RunInv(d)'
  BY <1>6 DEF IInv, TypeOK, RequestInv, WireInv, TicketInv, RunInv, ThreadInv, Early, transport, pipes, queue, thread
<1>. QED  BY <1>1, <1>2, <1>3, <1>4, <1>5, <1>6 DEF IInv, RequestInv

LEMMA ReadInv == ASSUME IInv, NEW p \in Pipes, Read(p) PROVE IInv'
<1> USE BridgeAssumption DEF Read, Polling, Submit
<1>1. TypeOK'
  BY DEF IInv, TypeOK, Exchange, transport, pipes, queue, thread
<1>2. ThreadInv'
  BY DEF IInv, TypeOK, RequestInv, TicketInv, ThreadInv, pipes, queue, thread
<1>3. ASSUME NEW d \in Calls PROVE CallerInv(d)'
  BY <1>3, TransportFrame
<1>4. ASSUME NEW d \in Calls PROVE WireInv(d)'
  BY <1>4 DEF IInv, TypeOK, RequestInv, CallerInv, WireInv, TicketInv, ThreadInv, Connected, Early, transport, pipes, queue, thread
<1>5. ASSUME NEW d \in Calls PROVE TicketInv(d)'
  BY <1>5 DEF IInv, TypeOK, RequestInv, WireInv, TicketInv, ThreadInv, pipes, queue, thread
<1>6. ASSUME NEW d \in Calls PROVE RunInv(d)'
  BY <1>6 DEF IInv, TypeOK, RequestInv, WireInv, TicketInv, RunInv, ThreadInv, Early, transport, pipes, queue, thread
<1>. QED  BY <1>1, <1>2, <1>3, <1>4, <1>5, <1>6 DEF IInv, RequestInv

LEMMA ReplyInv == ASSUME IInv, NEW p \in Pipes, Reply(p) PROVE IInv'
<1> USE BridgeAssumption DEF Reply, Polling
<1>1. TypeOK'
  BY DEF IInv, TypeOK, Exchange, transport, pipes, queue, thread
<1>2. ThreadInv'
  BY DEF IInv, TypeOK, RequestInv, TicketInv, ThreadInv, pipes, queue, thread
<1>3. ASSUME NEW d \in Calls PROVE CallerInv(d)'
  BY <1>3, TransportFrame
<1>4. ASSUME NEW d \in Calls PROVE WireInv(d)'
  BY <1>4 DEF IInv, TypeOK, RequestInv, CallerInv, WireInv, TicketInv, ThreadInv, Connected, Early, transport, pipes, queue, thread
<1>5. ASSUME NEW d \in Calls PROVE TicketInv(d)'
  BY <1>5 DEF IInv, TypeOK, RequestInv, WireInv, TicketInv, ThreadInv, pipes, queue, thread
<1>6. ASSUME NEW d \in Calls PROVE RunInv(d)'
  BY <1>6 DEF IInv, TypeOK, RequestInv, WireInv, TicketInv, RunInv, ThreadInv, Early, transport, pipes, queue, thread
<1>. QED  BY <1>1, <1>2, <1>3, <1>4, <1>5, <1>6 DEF IInv, RequestInv

LEMMA RepliedInv == ASSUME IInv, NEW p \in Pipes, Replied(p) PROVE IInv'
<1> USE BridgeAssumption DEF Replied, Polling
<1>1. TypeOK'
  BY DEF IInv, TypeOK, Exchange, transport, pipes, queue, thread
<1>2. ThreadInv'
  BY DEF IInv, TypeOK, RequestInv, TicketInv, ThreadInv, pipes, queue, thread
<1>3. ASSUME NEW d \in Calls PROVE CallerInv(d)'
  BY <1>3, TransportFrame
<1>4. ASSUME NEW d \in Calls PROVE WireInv(d)'
  BY <1>4 DEF IInv, TypeOK, RequestInv, CallerInv, WireInv, TicketInv, ThreadInv, Connected, Early, transport, pipes, queue, thread
<1>5. ASSUME NEW d \in Calls PROVE TicketInv(d)'
  BY <1>5 DEF IInv, TypeOK, RequestInv, WireInv, TicketInv, ThreadInv, pipes, queue, thread
<1>6. ASSUME NEW d \in Calls PROVE RunInv(d)'
  BY <1>6 DEF IInv, TypeOK, RequestInv, WireInv, TicketInv, RunInv, ThreadInv, Early, transport, pipes, queue, thread
<1>. QED  BY <1>1, <1>2, <1>3, <1>4, <1>5, <1>6 DEF IInv, RequestInv

LEMMA HangupInv == ASSUME IInv, NEW p \in Pipes, Hangup(p) PROVE IInv'
<1> USE BridgeAssumption DEF Hangup, Polling, Sever, CancelTickets
<1>1. TypeOK'
  BY DEF IInv, TypeOK, Exchange, transport, pipes, queue, thread
<1>2. ThreadInv'
  BY DEF IInv, TypeOK, RequestInv, TicketInv, ThreadInv, pipes, queue, thread
<1>3. ASSUME NEW d \in Calls PROVE CallerInv(d)'
  BY <1>3, TransportFrame
<1>4. ASSUME NEW d \in Calls PROVE WireInv(d)'
  BY <1>4 DEF IInv, TypeOK, RequestInv, CallerInv, WireInv, TicketInv, ThreadInv, Connected, Early, transport, pipes, queue, thread
<1>5. ASSUME NEW d \in Calls PROVE TicketInv(d)'
  BY <1>5 DEF IInv, TypeOK, RequestInv, WireInv, TicketInv, ThreadInv, pipes, queue, thread
<1>6. ASSUME NEW d \in Calls PROVE RunInv(d)'
  BY <1>6 DEF IInv, TypeOK, RequestInv, WireInv, TicketInv, RunInv, ThreadInv, Early, transport, pipes, queue, thread
<1>. QED  BY <1>1, <1>2, <1>3, <1>4, <1>5, <1>6 DEF IInv, RequestInv

LEMMA RecreateInv == ASSUME IInv, NEW p \in Pipes, Recreate(p) PROVE IInv'
<1> USE BridgeAssumption DEF Recreate, Listening, Polling
<1>1. TypeOK'
  BY DEF IInv, TypeOK, Exchange, transport, pipes, queue, thread
<1>2. ThreadInv'
  BY DEF IInv, TypeOK, RequestInv, TicketInv, ThreadInv, pipes, queue, thread
<1>3. ASSUME NEW d \in Calls PROVE CallerInv(d)'
  BY <1>3, TransportFrame
<1>4. ASSUME NEW d \in Calls PROVE WireInv(d)'
  BY <1>4 DEF IInv, TypeOK, RequestInv, CallerInv, WireInv, TicketInv, ThreadInv, Connected, Early, transport, pipes, queue, thread
<1>5. ASSUME NEW d \in Calls PROVE TicketInv(d)'
  BY <1>5 DEF IInv, TypeOK, RequestInv, WireInv, TicketInv, ThreadInv, pipes, queue, thread
<1>6. ASSUME NEW d \in Calls PROVE RunInv(d)'
  BY <1>6 DEF IInv, TypeOK, RequestInv, WireInv, TicketInv, RunInv, ThreadInv, Early, transport, pipes, queue, thread
<1>. QED  BY <1>1, <1>2, <1>3, <1>4, <1>5, <1>6 DEF IInv, RequestInv

LEMMA TakeInv == ASSUME IInv, NEW c \in Calls, Take(c) PROVE IInv'
<1> USE BridgeAssumption DEF Take, Polling, AtStep
<1>1. TypeOK'
  BY DEF IInv, TypeOK, Exchange, transport, pipes, queue, thread
<1>2. ThreadInv'
  BY DEF IInv, TypeOK, RequestInv, TicketInv, ThreadInv, pipes, queue, thread
<1>3. ASSUME NEW d \in Calls PROVE CallerInv(d)'
  BY <1>3, TransportFrame
<1>4. ASSUME NEW d \in Calls PROVE WireInv(d)'
  BY <1>4 DEF IInv, TypeOK, RequestInv, CallerInv, WireInv, TicketInv, ThreadInv, Connected, Early, transport, pipes, queue, thread
<1>5. ASSUME NEW d \in Calls PROVE TicketInv(d)'
  BY <1>5 DEF IInv, TypeOK, RequestInv, WireInv, TicketInv, ThreadInv, pipes, queue, thread
<1>6. ASSUME NEW d \in Calls PROVE RunInv(d)'
  BY <1>6 DEF IInv, TypeOK, RequestInv, WireInv, TicketInv, RunInv, ThreadInv, Early, transport, pipes, queue, thread
<1>. QED  BY <1>1, <1>2, <1>3, <1>4, <1>5, <1>6 DEF IInv, RequestInv

LEMMA ClaimInv == ASSUME IInv, Claim PROVE IInv'
<1> USE BridgeAssumption DEF Claim, MayRun, AtStep, CancelTickets
<1>1. TypeOK'
  BY DEF IInv, TypeOK, Exchange, transport, pipes, queue, thread
<1>2. ThreadInv'
  BY DEF IInv, TypeOK, RequestInv, TicketInv, ThreadInv, pipes, queue, thread
<1>3. ASSUME NEW d \in Calls PROVE CallerInv(d)'
  BY <1>3, TransportFrame
<1>4. ASSUME NEW d \in Calls PROVE WireInv(d)'
  BY <1>4 DEF IInv, TypeOK, RequestInv, CallerInv, WireInv, TicketInv, ThreadInv, Connected, Early, transport, pipes, queue, thread
<1>5. ASSUME NEW d \in Calls PROVE TicketInv(d)'
  BY <1>5 DEF IInv, TypeOK, RequestInv, WireInv, TicketInv, ThreadInv, pipes, queue, thread
<1>6. ASSUME NEW d \in Calls PROVE RunInv(d)'
  BY <1>6 DEF IInv, TypeOK, RequestInv, WireInv, TicketInv, RunInv, ThreadInv, Early, transport, pipes, queue, thread
<1>. QED  BY <1>1, <1>2, <1>3, <1>4, <1>5, <1>6 DEF IInv, RequestInv

LEMMA AnswerInv == ASSUME IInv, Answer PROVE IInv'
<1> USE BridgeAssumption DEF Answer, Finish, AtStep
<1>1. TypeOK'
  BY DEF IInv, TypeOK, Exchange, transport, pipes, queue, thread
<1>2. ThreadInv'
  BY DEF IInv, TypeOK, RequestInv, TicketInv, ThreadInv, pipes, queue, thread
<1>3. ASSUME NEW d \in Calls PROVE CallerInv(d)'
  BY <1>3, TransportFrame
<1>4. ASSUME NEW d \in Calls PROVE WireInv(d)'
  BY <1>4 DEF IInv, TypeOK, RequestInv, CallerInv, WireInv, TicketInv, ThreadInv, Connected, Early, transport, pipes, queue, thread
<1>5. ASSUME NEW d \in Calls PROVE TicketInv(d)'
  BY <1>5 DEF IInv, TypeOK, RequestInv, WireInv, TicketInv, ThreadInv, pipes, queue, thread
<1>6. ASSUME NEW d \in Calls PROVE RunInv(d)'
  BY <1>6 DEF IInv, TypeOK, RequestInv, WireInv, TicketInv, RunInv, ThreadInv, Early, transport, pipes, queue, thread
<1>. QED  BY <1>1, <1>2, <1>3, <1>4, <1>5, <1>6 DEF IInv, RequestInv

LEMMA CheckInv == ASSUME IInv, Check PROVE IInv'
<1> USE BridgeAssumption DEF Check, AtStep
<1>1. TypeOK'
  BY DEF IInv, TypeOK, Exchange, transport, pipes, queue, thread
<1>2. ThreadInv'
  BY DEF IInv, TypeOK, RequestInv, TicketInv, ThreadInv, pipes, queue, thread
<1>3. ASSUME NEW d \in Calls PROVE CallerInv(d)'
  BY <1>3, TransportFrame
<1>4. ASSUME NEW d \in Calls PROVE WireInv(d)'
  BY <1>4 DEF IInv, TypeOK, RequestInv, CallerInv, WireInv, TicketInv, ThreadInv, Connected, Early, transport, pipes, queue, thread
<1>5. ASSUME NEW d \in Calls PROVE TicketInv(d)'
  BY <1>5 DEF IInv, TypeOK, RequestInv, WireInv, TicketInv, ThreadInv, pipes, queue, thread
<1>6. ASSUME NEW d \in Calls PROVE RunInv(d)'
  BY <1>6 DEF IInv, TypeOK, RequestInv, WireInv, TicketInv, RunInv, ThreadInv, Early, transport, pipes, queue, thread
<1>. QED  BY <1>1, <1>2, <1>3, <1>4, <1>5, <1>6 DEF IInv, RequestInv

LEMMA RefuseInv == ASSUME IInv, Refuse PROVE IInv'
<1> USE BridgeAssumption DEF Refuse, Finish, AtStep
<1>1. TypeOK'
  BY DEF IInv, TypeOK, Exchange, transport, pipes, queue, thread
<1>2. ThreadInv'
  BY DEF IInv, TypeOK, RequestInv, TicketInv, ThreadInv, pipes, queue, thread
<1>3. ASSUME NEW d \in Calls PROVE CallerInv(d)'
  BY <1>3, TransportFrame
<1>4. ASSUME NEW d \in Calls PROVE WireInv(d)'
  BY <1>4 DEF IInv, TypeOK, RequestInv, CallerInv, WireInv, TicketInv, ThreadInv, Connected, Early, transport, pipes, queue, thread
<1>5. ASSUME NEW d \in Calls PROVE TicketInv(d)'
  BY <1>5 DEF IInv, TypeOK, RequestInv, WireInv, TicketInv, ThreadInv, pipes, queue, thread
<1>6. ASSUME NEW d \in Calls PROVE RunInv(d)'
  BY <1>6 DEF IInv, TypeOK, RequestInv, WireInv, TicketInv, RunInv, ThreadInv, Early, transport, pipes, queue, thread
<1>. QED  BY <1>1, <1>2, <1>3, <1>4, <1>5, <1>6 DEF IInv, RequestInv

LEMMA CallInv == ASSUME IInv, Call PROVE IInv'
<1> USE BridgeAssumption DEF Call, AtStep, Marker
<1>0. /\ current \in Mutations /\ current \in Calls
      /\ current \in Submits => Marker(current) \in Submits \cup {"shared"}
  BY DEF IInv, TypeOK, ThreadInv
<1>a. /\ attempts' \subseteq Submits \cup {"shared"}
      /\ native' \subseteq Nat \X Mutations
  BY <1>0 DEF IInv, TypeOK
<1>b. runs' \in [Calls -> Nat]
  BY <1>0 DEF IInv, TypeOK
<1>1. TypeOK'
  BY <1>0, <1>a, <1>b DEF IInv, TypeOK, Exchange, transport, pipes, queue, thread
<1>2. ThreadInv'
  BY DEF IInv, TypeOK, RequestInv, TicketInv, ThreadInv, pipes, queue, thread
<1>3. ASSUME NEW d \in Calls PROVE CallerInv(d)'
  BY <1>3, TransportFrame
<1>4. ASSUME NEW d \in Calls PROVE WireInv(d)'
  BY <1>4 DEF IInv, TypeOK, RequestInv, CallerInv, WireInv, TicketInv, ThreadInv, Connected, Early, transport, pipes, queue, thread
<1>5. ASSUME NEW d \in Calls PROVE TicketInv(d)'
  BY <1>5 DEF IInv, TypeOK, RequestInv, WireInv, TicketInv, ThreadInv, pipes, queue, thread
<1>6. ASSUME NEW d \in Calls PROVE RunInv(d)'
  BY <1>6 DEF IInv, TypeOK, RequestInv, WireInv, TicketInv, RunInv, ThreadInv, Early, transport, pipes, queue, thread
<1>. QED  BY <1>1, <1>2, <1>3, <1>4, <1>5, <1>6 DEF IInv, RequestInv

LEMMA ReturnInv == ASSUME IInv, Return PROVE IInv'
<1> USE BridgeAssumption DEF Return, Finish, AtStep, Outcomes
<1>1. TypeOK'
  BY DEF IInv, TypeOK, Exchange, transport, pipes, queue, thread
<1>2. ThreadInv'
  BY DEF IInv, TypeOK, RequestInv, TicketInv, ThreadInv, pipes, queue, thread
<1>3. ASSUME NEW d \in Calls PROVE CallerInv(d)'
  BY <1>3, TransportFrame
<1>4. ASSUME NEW d \in Calls PROVE WireInv(d)'
  BY <1>4 DEF IInv, TypeOK, RequestInv, CallerInv, WireInv, TicketInv, ThreadInv, Connected, Early, transport, pipes, queue, thread
<1>5. ASSUME NEW d \in Calls PROVE TicketInv(d)'
  BY <1>5 DEF IInv, TypeOK, RequestInv, WireInv, TicketInv, ThreadInv, pipes, queue, thread
<1>6. ASSUME NEW d \in Calls PROVE RunInv(d)'
  BY <1>6 DEF IInv, TypeOK, RequestInv, WireInv, TicketInv, RunInv, ThreadInv, Early, transport, pipes, queue, thread
<1>. QED  BY <1>1, <1>2, <1>3, <1>4, <1>5, <1>6 DEF IInv, RequestInv

LEMMA StartInv == ASSUME IInv, Start PROVE IInv'
<1> USE BridgeAssumption DEF Start, Listening
<1>0. inst' \in Nat /\ closed' \in BOOLEAN
  <2>1. inst' \in Nat
    BY DEF IInv, TypeOK
  <2>. QED  BY <2>1
<1>1. TypeOK'
  <2>1. /\ UNCHANGED <<instance, seen, pc, told, retried, pool, conn, link, inbox, inbound,
                      shut, job, pending, ticket, response, origin, step, current, runs, native>>
        /\ attempts' = {}
        /\ chan' \in [Pipes -> {"absent", "listening", "reading", "waiting", "writing"}]
    BY DEF transport, queue
  <2>. QED
    BY <2>1, <1>0, ZenonT(60) DEF IInv, TypeOK, Exchange, transport, pipes, queue, thread
<1>2. ThreadInv'
  BY DEF IInv, TypeOK, RequestInv, TicketInv, ThreadInv, pipes, queue, thread
<1>3. ASSUME NEW d \in Calls PROVE CallerInv(d)'
  BY <1>3, TransportFrame
<1>4. ASSUME NEW d \in Calls PROVE WireInv(d)'
  BY <1>4 DEF IInv, TypeOK, RequestInv, CallerInv, WireInv, TicketInv, ThreadInv, Connected, Early, transport, pipes, queue, thread
<1>5. ASSUME NEW d \in Calls PROVE TicketInv(d)'
  BY <1>5 DEF IInv, TypeOK, RequestInv, WireInv, TicketInv, ThreadInv, pipes, queue, thread
<1>6. ASSUME NEW d \in Calls PROVE RunInv(d)'
  BY <1>6 DEF IInv, TypeOK, RequestInv, WireInv, TicketInv, RunInv, ThreadInv, Early, transport, pipes, queue, thread
<1>. QED  BY <1>1, <1>2, <1>3, <1>4, <1>5, <1>6 DEF IInv, RequestInv

LEMMA StopInv == ASSUME IInv, Stop PROVE IInv'
<1> USE BridgeAssumption DEF Stop, QueueStops, Sever, CancelTickets
<1>1. TypeOK'
  BY DEF IInv, TypeOK, Exchange, transport, pipes, queue, thread
<1>2. ThreadInv'
  BY DEF IInv, TypeOK, RequestInv, TicketInv, ThreadInv, pipes, queue, thread
<1>3. ASSUME NEW d \in Calls PROVE CallerInv(d)'
  BY <1>3, TransportFrame
<1>4. ASSUME NEW d \in Calls PROVE WireInv(d)'
  BY <1>4 DEF IInv, TypeOK, RequestInv, CallerInv, WireInv, TicketInv, ThreadInv, Connected, Early, transport, pipes, queue, thread
<1>5. ASSUME NEW d \in Calls PROVE TicketInv(d)'
  BY <1>5 DEF IInv, TypeOK, RequestInv, WireInv, TicketInv, ThreadInv, pipes, queue, thread
<1>6. ASSUME NEW d \in Calls PROVE RunInv(d)'
  BY <1>6 DEF IInv, TypeOK, RequestInv, WireInv, TicketInv, RunInv, ThreadInv, Early, transport, pipes, queue, thread
<1>. QED  BY <1>1, <1>2, <1>3, <1>4, <1>5, <1>6 DEF IInv, RequestInv

LEMMA CrashInv == ASSUME IInv, Crash PROVE IInv'
<1> USE BridgeAssumption DEF Crash, QueueStops, Sever, CancelTickets, AtStep
<1>1. TypeOK'
  BY DEF IInv, TypeOK, Exchange, transport, pipes, queue, thread
<1>2. ThreadInv'
  BY DEF IInv, TypeOK, RequestInv, TicketInv, ThreadInv, pipes, queue, thread
<1>3. ASSUME NEW d \in Calls PROVE CallerInv(d)'
  BY <1>3, TransportFrame
<1>4. ASSUME NEW d \in Calls PROVE WireInv(d)'
  BY <1>4 DEF IInv, TypeOK, RequestInv, CallerInv, WireInv, TicketInv, ThreadInv, Connected, Early, transport, pipes, queue, thread
<1>5. ASSUME NEW d \in Calls PROVE TicketInv(d)'
  BY <1>5 DEF IInv, TypeOK, RequestInv, WireInv, TicketInv, ThreadInv, pipes, queue, thread
<1>6. ASSUME NEW d \in Calls PROVE RunInv(d)'
  BY <1>6 DEF IInv, TypeOK, RequestInv, WireInv, TicketInv, RunInv, ThreadInv, Early, transport, pipes, queue, thread
<1>. QED  BY <1>1, <1>2, <1>3, <1>4, <1>5, <1>6 DEF IInv, RequestInv

-----------------------------------------------------------------------------
LEMMA NextInv == ASSUME IInv, [Next]_vars PROVE IInv'
<1>1. ASSUME NEW c \in Calls, Request(c) PROVE IInv'
  BY <1>1, BeginInv, TakeSlotInv, SlotTimeoutInv, TakeClientInv, FailInv, ConnectInv, WriteInv,
     WrittenInv, ResendInv, ReceiveInv DEF Request
<1>2. ASSUME NEW p \in Pipes, Channel(p) PROVE IInv'
  BY <1>2, AcceptInv, ReadInv, ReplyInv, RepliedInv, HangupInv, RecreateInv DEF Channel
<1>3. CASE Pump
  BY <1>3, TakeInv, ClaimInv, AnswerInv, CheckInv, RefuseInv, CallInv, ReturnInv DEF Pump
<1>4. CASE UNCHANGED vars
  <2> USE <1>4 DEF vars
  <2>1. ASSUME NEW d \in Calls PROVE RequestInv(d)'
    BY <2>1 DEF IInv, RequestInv, CallerInv, WireInv, TicketInv, RunInv, transport, pipes, queue, thread
  <2>2. TypeOK' /\ ThreadInv'
    BY DEF IInv, TypeOK, ThreadInv, transport, pipes, queue, thread
  <2>. QED  BY <2>1, <2>2 DEF IInv
<1>. QED  BY <1>1, <1>2, <1>3, <1>4, StartInv, StopInv, CrashInv DEF Next

LEMMA Invariance == Spec => []IInv
<1>. QED  BY InitInv, NextInv, PTL DEF Spec

\* Every variable of the bridge keeps its type.
THEOREM TypeCorrect == Spec => []TypeOK
<1>1. IInv => TypeOK
  BY DEF IInv
<1>. QED  BY <1>1, Invariance, PTL

-----------------------------------------------------------------------------
\* Answers of the caller's side are answers of the promise.
LEMMA TellStep ==
  ASSUME IInv, NEW c \in Calls, NEW a, told' = [told EXCEPT ![c] = a], pc[c] # "done",
         c \in Mutations => a \in {"ok", "declined", "not_executed", "unknown"},
         c \in Mutations /\ a = "ok" => runs[c] = 1,
         c \in Mutations /\ a \in {"declined", "not_executed"} => runs[c] = 0,
         runs' = runs
  PROVE  [Promise!Next]_<<MutationRuns, MutationTold>>
<1>1. told[c] = "waiting"
  BY DEF IInv, RequestInv, CallerInv
<1>2. CASE c \in Mutations
  <2>1. MutationTold' = [MutationTold EXCEPT ![c] = a]
    BY <1>2 DEF IInv, TypeOK, Calls, MutationTold
  <2>2. Promise!Tell(c, a)
    BY <1>1, <1>2, <2>1 DEF Promise!Tell, MutationTold, MutationRuns
  <2>. QED  BY <1>2, <2>2 DEF Promise!Next, Promise!Answers
<1>3. CASE c \notin Mutations
  <2>1. MutationTold' = MutationTold
    BY <1>3 DEF IInv, TypeOK, Calls, MutationTold
  <2>. QED  BY <2>1 DEF MutationRuns
<1>. QED  BY <1>2, <1>3

LEMMA CallStep ==
  ASSUME IInv, Call
  PROVE  Promise!Run(current)
<1>1. current \in Mutations /\ runs[current] = 0 /\ current \in Calls
  BY BridgeAssumption DEF IInv, ThreadInv, TypeOK, Call, Calls
<1>2. told[current] \in {"waiting", "unknown"}
  BY <1>1 DEF IInv, TypeOK, ThreadInv, RequestInv, RunInv, Call
<1>3. runs' = [runs EXCEPT ![current] = 1] /\ told' = told
  BY <1>1 DEF Call, transport
<1>4. MutationRuns' = [MutationRuns EXCEPT ![current] = 1]
  BY <1>1, <1>3 DEF IInv, TypeOK, Calls, MutationRuns
<1>. QED  BY <1>1, <1>2, <1>3, <1>4 DEF Promise!Run, MutationRuns, MutationTold

LEMMA PromiseStep ==
  ASSUME IInv, [Next]_vars
  PROVE  [Promise!Next]_<<MutationRuns, MutationTold>>
<1>1. ASSUME NEW c \in Calls, Request(c)
      PROVE  [Promise!Next]_<<MutationRuns, MutationTold>>
  <2>0. runs' = runs
    BY <1>1 DEF Request, Begin, TakeSlot, SlotTimeout, TakeClient, Fail, Connect, Write, Written,
                Resend, Receive, thread
  <2>1. CASE Begin(c) \/ SlotTimeout(c)
    <3>1. pc[c] \in Early => runs[c] = 0
      BY DEF IInv, RequestInv, WireInv, TicketInv
    <3>2. told' = told \/ told' = [told EXCEPT ![c] = "not_executed"]
      BY <2>1 DEF Begin, SlotTimeout, End
    <3>3. pc[c] \in {"away", "waiting"}
      BY <2>1 DEF Begin, SlotTimeout
    <3>4. CASE told' = told
      BY <2>0, <3>4 DEF MutationRuns, MutationTold
    <3>5. CASE told' = [told EXCEPT ![c] = "not_executed"]
      BY <2>0, <3>1, <3>3, <3>5, TellStep DEF Early
    <3>. QED  BY <3>2, <3>4, <3>5
  <2>2. CASE Fail(c)
    BY <2>0, <2>2, TellStep DEF Fail, End, Failure, Exchange
  <2>3. CASE Receive(c)
    <3>1. \/ told' = [told EXCEPT ![c] = Failure(c)]
          \/ /\ told' = [told EXCEPT ![c] = response[c]]
             /\ response[c] \in {"ok", "declined", "not_executed"}
      BY <2>3 DEF Receive, End, Correlated
    <3>2. c \in Mutations /\ response[c] = "ok" => runs[c] = 1
      BY DEF IInv, RequestInv, RunInv
    <3>3. response[c] \in {"declined", "not_executed"} => runs[c] = 0
      BY DEF IInv, RequestInv, RunInv
    <3>4. pc[c] # "done"
      BY <2>3 DEF Receive
    <3>. QED  BY <2>0, <3>1, <3>2, <3>3, <3>4, TellStep DEF Failure
  <2>4. CASE told' = told
    BY <2>0, <2>4 DEF MutationRuns, MutationTold
  <2>. QED  BY <1>1, <2>1, <2>2, <2>3, <2>4
            DEF Request, TakeSlot, TakeClient, Connect, Write, Written, Resend, transport
<1>2. ASSUME NEW p \in Pipes, Channel(p) PROVE runs' = runs /\ told' = told
  BY <1>2 DEF Channel, Accept, Read, Reply, Replied, Hangup, Recreate, Listening, transport, thread
<1>3. CASE Pump
  <2>1. CASE Call
    <3>1. current \in Mutations
      BY <2>1 DEF IInv, ThreadInv, Call
    <3>. QED  BY <2>1, <3>1, CallStep DEF Promise!Next
  <2>2. CASE ~Call
    <3>1. runs' = runs /\ told' = told
      BY <1>3, <2>2 DEF Pump, Take, Claim, Answer, Check, Refuse, Return, transport
    <3>. QED  BY <3>1 DEF MutationRuns, MutationTold
  <2>. QED  BY <2>1, <2>2
<1>4. CASE Start \/ Stop \/ Crash \/ UNCHANGED vars
  <2>1. runs' = runs /\ told' = told
    BY <1>4 DEF Start, Listening, Stop, Crash, QueueStops, vars, transport, thread
  <2>. QED  BY <2>1 DEF MutationRuns, MutationTold
<1>. QED  BY <1>1, <1>2, <1>3, <1>4 DEF Next, MutationRuns, MutationTold

\* The bridge implements the promise to the callers of mutations: at most one
\* native call per request, and none for who was told "not_executed".
THEOREM BridgeKeepsPromise == Spec => PromiseKept
<1>1. Init => Promise!Init
  BY DEF Init, Promise!Init, Calls, MutationRuns, MutationTold
<1>2. IInv /\ [Next]_vars
        => [Promise!Next]_<<MutationRuns, MutationTold>>
  BY PromiseStep
<1>. QED  BY <1>1, <1>2, Invariance, PTL DEF Spec, PromiseKept, Promise!Spec

-----------------------------------------------------------------------------
\* A request is executed where it was addressed to.
LEMMA AddressStep == ASSUME IInv, AddressInv, [Next]_vars PROVE AddressInv'
<1> USE BridgeAssumption DEF AddressInv
<1>1. ASSUME NEW c \in Calls, Request(c) PROVE AddressInv'
  <2>1. UNCHANGED <<inst, closed, queue, thread>>
    BY <1>1 DEF Request, Begin, TakeSlot, SlotTimeout, TakeClient, Fail, Connect, Write, Written,
                Resend, Receive
  <2>2. \A d \in Calls : seen'[d] = seen[d] \/ ticket[d] = "none"
    BY <1>1 DEF Request, Begin, TakeSlot, SlotTimeout, TakeClient, Fail, Connect, Write, Written,
                Resend, Receive, transport, IInv, TypeOK, RequestInv, WireInv, Early
  <2>. QED  BY <2>1, <2>2 DEF queue, thread, IInv, ThreadInv, TypeOK, Calls
<1>2. ASSUME NEW p \in Pipes, Channel(p) PROVE AddressInv'
  <2>1. UNCHANGED <<transport, inst, thread>>
    BY <1>2 DEF Channel, Accept, Read, Reply, Replied, Hangup, Recreate, Listening
  <2>2. ASSUME NEW d \in Mutations
        PROVE  /\ ticket'[d] = "queued" => ticket[d] = "queued" \/ seen[d] = inst
               /\ ticket[d] # "none" => ticket'[d] # "none"
    BY <1>2, <2>2 DEF Channel, Accept, Read, Submit, Addressed, Reply, Replied, Hangup,
                      Recreate, Listening, CancelTickets, queue, IInv, TypeOK, Calls
  <2>. QED  BY <2>1, <2>2 DEF transport, thread
<1>3. CASE Pump
  <2>1. UNCHANGED <<transport, inst>>
    BY <1>3 DEF Pump, Take, Claim, Answer, Check, Refuse, Call, Return
  <2>2. ASSUME NEW d \in Mutations
        PROVE  /\ ticket'[d] = "queued" => ticket[d] = "queued"
               /\ ticket[d] # "none" => ticket'[d] # "none"
    BY <1>3, <2>2 DEF Pump, Take, Claim, MayRun, CancelTickets, Answer, Check, Refuse, Call, Return,
                      Finish, queue, IInv, TypeOK, Calls
  <2>3. step' \in {"running", "checked", "called"} =>
          /\ current' = current
          /\ step \in {"running", "checked", "called"} \/ ticket[current] = "queued"
    BY <1>3 DEF Pump, Take, Claim, MayRun, Answer, Check, Refuse, Call, Return, Finish, AtStep
  <2>4. native' = native \/ (step = "checked" /\ native' = native \cup {<<inst, current>>})
    BY <1>3 DEF Pump, Take, Claim, Answer, Check, Refuse, Call, Return
  <2>. QED  BY <2>1, <2>2, <2>3, <2>4 DEF transport, IInv, ThreadInv
<1>4. CASE Start
  <2>1. \A d \in Mutations : ticket[d] # "queued"
    BY <1>4 DEF Start, Listening, IInv, ThreadInv, RequestInv, TicketInv, TypeOK, Calls
  <2>. QED  BY <1>4, <2>1 DEF Start, Listening, transport, queue
<1>5. CASE Stop \/ Crash
  <2>1. UNCHANGED <<transport, inst, native>>
    BY <1>5 DEF Stop, Crash, QueueStops, thread
  <2>2. ASSUME NEW d \in Mutations
        PROVE  /\ ticket'[d] = "queued" => ticket[d] = "queued"
               /\ ticket[d] # "none" => ticket'[d] # "none"
    BY <1>5, <2>2 DEF Stop, Crash, QueueStops, CancelTickets, IInv, TypeOK, Calls
  <2>3. step' = "idle" \/ UNCHANGED <<step, current>>
    BY <1>5 DEF Stop, Crash, QueueStops, AtStep, thread
  <2>. QED  BY <2>1, <2>2, <2>3 DEF transport
<1>6. CASE UNCHANGED vars
  BY <1>6 DEF vars, transport, queue, thread
<1>. QED  BY <1>1, <1>2, <1>3, <1>4, <1>5, <1>6 DEF Next

\* A restarted strategy executes nothing that was meant for its predecessor.
THEOREM AddressesRespected == Spec => []RunsWhereAddressed
<1>1. Init => AddressInv
  BY DEF Init, AddressInv, Calls
<1>2. AddressInv => RunsWhereAddressed
  BY DEF AddressInv, RunsWhereAddressed
<1>3. IInv /\ AddressInv /\ [Next]_vars => AddressInv'
  BY AddressStep
<1>. QED  BY <1>1, <1>2, <1>3, Invariance, PTL DEF Spec

\* The markers of the running instance name the orders it placed.
LEMMA MarkerStep == ASSUME IInv, MarkerInv, [Next]_vars PROVE MarkerInv'
<1> USE BridgeAssumption DEF MarkerInv, OneOrderPerMarker
<1>1. CASE UNCHANGED <<inst, thread>>
  BY <1>1 DEF thread
<1>2. CASE Pump /\ ~Call
  <2>1. UNCHANGED <<inst, attempts, native>>
    BY <1>2 DEF Pump, Take, Claim, Answer, Check, Refuse, Return, thread
  <2>2. step' = "checked" =>
          /\ current' = current
          /\ step = "checked" \/ Unused(current)
    BY <1>2 DEF Pump, Take, Claim, Answer, Check, Refuse, Return, AtStep, Finish
  <2>3. step' = "checked" /\ current' \in Submits => Marker(current') \notin attempts'
    BY <2>1, <2>2 DEF Unused
  <2>4. OneOrderPerMarker'
    BY <2>1
  <2>. QED  BY <2>1, <2>3, <2>4
<1>3. CASE Call
  <2>1. /\ current \in Mutations /\ inst' = inst /\ inst \in Nat /\ step' = "called"
        /\ native' = native \cup {<<inst, current>>}
        /\ current \in Submits => /\ Marker(current) \notin attempts
                                  /\ attempts' = attempts \cup {Marker(current)}
        /\ current \notin Submits => attempts' = attempts
    BY <1>3 DEF Call, IInv, TypeOK, ThreadInv, AtStep
  <2>2. \A n \in native' : n \in native \/ (n[1] = inst /\ n[2] = current)
    BY <2>1
  <2>3. \A n \in native : n[1] = inst /\ n[2] \in Submits /\ current \in Submits
                          => Marker(n[2]) # Marker(current)
    BY <2>1
  <2>4. \A n \in native' : n[1] <= inst
    BY <2>1, <2>2
  <2>5. \A n \in native' : n[1] = inst /\ n[2] \in Submits => Marker(n[2]) \in attempts'
    BY <2>1, <2>2
  <2>6. OneOrderPerMarker'
    BY <2>1, <2>3 DEF IInv, TypeOK
  <2>. QED  BY <2>1, <2>4, <2>5, <2>6
<1>4. CASE Start
  <2>1. inst' = inst + 1 /\ inst \in Nat /\ native' = native /\ step' # "checked"
    BY <1>4 DEF Start, Listening, IInv, TypeOK
  <2>2. \A n \in native : n[1] \in Nat
    BY DEF IInv, TypeOK
  <2>. QED  BY <2>1, <2>2
<1>5. CASE Crash
  BY <1>5 DEF Crash, QueueStops, AtStep
<1>6. [Next]_vars => UNCHANGED <<inst, thread>> \/ Pump \/ Start \/ Crash
  BY DEF Next, Request, Begin, TakeSlot, SlotTimeout, TakeClient, Fail, Connect, Write, Written,
         Resend, Receive, Channel, Accept, Read, Reply, Replied, Hangup, Recreate, Listening,
         Stop, QueueStops, vars
<1>. QED  BY <1>1, <1>2, <1>3, <1>4, <1>5, <1>6

\* A correlation_ref is used for at most one order of an instance.
THEOREM MarkersUsedOnce == Spec => []OneOrderPerMarker
<1>1. Init => MarkerInv
  BY DEF Init, MarkerInv, OneOrderPerMarker
<1>2. MarkerInv => OneOrderPerMarker
  BY DEF MarkerInv
<1>3. IInv /\ MarkerInv /\ [Next]_vars => MarkerInv'
  BY MarkerStep
<1>. QED  BY <1>1, <1>2, <1>3, Invariance, PTL DEF Spec

-----------------------------------------------------------------------------
\* What does not touch the pipes leaves their contents to whom they belong.
LEMMA PipeFrame ==
  ASSUME IInv, PipeInv, UNCHANGED <<conn, pipes, closed>>,
         \A c \in Calls : pc[c] \in {"writing", "reading"} => pc'[c] \in {"writing", "reading"},
         \A c \in Calls : ticket[c] # "none" => ticket'[c] # "none"
  PROVE  PipeInv'
<1> USE BridgeAssumption DEF IInv, TypeOK, pipes, PipeInv
<1>1. LinkInv' /\ InboxInv'
  BY DEF LinkInv, InboxInv, Uses
<1>2. ConnectionInv'
  <2>1. \A p \in Pipes : chan[p] = "waiting" => job[p] \in Calls
    BY DEF ChannelInv
  <2>. QED  BY <2>1 DEF ConnectionInv, Uses
<1>3. ChannelInv'
  BY DEF ChannelInv, Linked
<1>. QED  BY <1>1, <1>2, <1>3

LEMMA FailPipes == ASSUME IInv, PipeInv, NEW c \in Calls, Fail(c) PROVE PipeInv'
<1> USE BridgeAssumption DEF IInv, TypeOK, PipeInv
<1>1. \A d \in Calls, k \in Clients : Uses(d, k) /\ k # conn[c] => Uses(d, k)'
  BY DEF Fail, End, Uses
<1>2. \A k \in Clients :
        IF k = conn[c] THEN link'[k] = None /\ inbox'[k] = None
                       ELSE link'[k] = link[k] /\ inbox'[k] = inbox[k]
  BY DEF Fail, CloseClient
<1>3. \/ conn[c] \in Clients /\ shut' = shut \cup ({link[conn[c]]} \cap Pipes)
      \/ conn[c] \notin Clients /\ shut' = shut
  BY DEF Fail, CloseClient
<1>4. \A p \in Pipes : inbound'[p] \in {inbound[p], None}
  BY DEF Fail, CloseClient
<1>5. UNCHANGED <<chan, job, closed, ticket>>
  BY DEF Fail, queue
<1>6. LinkInv'
  BY <1>2 DEF LinkInv
<1>7. InboxInv'
  BY <1>1, <1>2, <1>5 DEF InboxInv
<1>8. ConnectionInv'
  <2> SUFFICES ASSUME NEW k \in Clients, NEW p \in Pipes, link'[k] = p
               PROVE  /\ p \notin shut' /\ chan'[p] # "absent"
                      /\ inbound'[p] # None => Uses(inbound[p], k)' /\ inbound'[p] = inbound[p]
                      /\ chan'[p] = "waiting" => Uses(job[p], k)' /\ inbox'[k] = None
    BY DEF ConnectionInv
  <2>1. k # conn[c] /\ link[k] = p /\ inbox'[k] = inbox[k]
    BY <1>2
  <2>2. p \notin shut'
    BY <1>3, <2>1 DEF ConnectionInv, LinkInv
  <2>3. ASSUME inbound'[p] # None PROVE Uses(inbound[p], k)' /\ inbound'[p] = inbound[p]
    <3>1. inbound'[p] = inbound[p] /\ inbound[p] \in Calls
      BY <1>4, <2>3
    <3>2. Uses(inbound[p], k)
      BY <2>1, <2>3, <3>1 DEF ConnectionInv
    <3>. QED  BY <1>1, <2>1, <3>1, <3>2 DEF Uses
  <2>4. ASSUME chan[p] = "waiting" PROVE Uses(job[p], k)'
    <3>1. job[p] \in Calls /\ Uses(job[p], k)
      BY <2>1, <2>4 DEF ConnectionInv, ChannelInv
    <3>. QED  BY <1>1, <1>5, <2>1, <3>1 DEF Uses
  <2>. QED  BY <1>5, <2>1, <2>2, <2>3, <2>4 DEF ConnectionInv
<1>9. ChannelInv'
  <2>1. \A p \in Pipes : Linked(p) => Linked(p)' \/ p \in shut'
    BY <1>2, <1>3 DEF Linked
  <2>2. \A p \in Pipes : chan[p] = "absent" => p \notin shut'
    BY <1>3 DEF ConnectionInv, ChannelInv
  <2>3. shut \subseteq shut'
    BY <1>3
  <2>. QED  BY <1>4, <1>5, <2>1, <2>2, <2>3 DEF ChannelInv
<1>. QED  BY <1>6, <1>7, <1>8, <1>9

LEMMA ConnectPipes == ASSUME IInv, PipeInv, NEW c \in Calls, Connect(c) PROVE PipeInv'
<1> USE BridgeAssumption DEF Connect
<1>1. LinkInv'
  BY DEF IInv, TypeOK, RequestInv, CallerInv, WireInv, TicketInv, ThreadInv, Connected, Early, Exchange, PipeInv, LinkInv, InboxInv, ConnectionInv, ChannelInv, Uses, Linked, transport, pipes, queue, thread
<1>2. InboxInv'
  BY DEF IInv, TypeOK, RequestInv, CallerInv, WireInv, TicketInv, ThreadInv, Connected, Early, Exchange, PipeInv, LinkInv, InboxInv, ConnectionInv, ChannelInv, Uses, Linked, transport, pipes, queue, thread
<1>3. ConnectionInv'
  BY DEF IInv, TypeOK, RequestInv, CallerInv, WireInv, TicketInv, ThreadInv, Connected, Early, Exchange, PipeInv, LinkInv, InboxInv, ConnectionInv, ChannelInv, Uses, Linked, transport, pipes, queue, thread
<1>4. ChannelInv'
  BY DEF IInv, TypeOK, RequestInv, CallerInv, WireInv, TicketInv, ThreadInv, Connected, Early, Exchange, PipeInv, LinkInv, InboxInv, ConnectionInv, ChannelInv, Uses, Linked, transport, pipes, queue, thread
<1>. QED  BY <1>1, <1>2, <1>3, <1>4 DEF PipeInv

LEMMA WritePipes == ASSUME IInv, PipeInv, NEW c \in Calls, Write(c) PROVE PipeInv'
<1> USE BridgeAssumption DEF Write
<1>1. LinkInv'
  BY DEF IInv, TypeOK, RequestInv, CallerInv, WireInv, TicketInv, ThreadInv, Connected, Early, Exchange, PipeInv, LinkInv, InboxInv, ConnectionInv, ChannelInv, Uses, Linked, transport, pipes, queue, thread
<1>2. InboxInv'
  BY DEF IInv, TypeOK, RequestInv, CallerInv, WireInv, TicketInv, ThreadInv, Connected, Early, Exchange, PipeInv, LinkInv, InboxInv, ConnectionInv, ChannelInv, Uses, Linked, transport, pipes, queue, thread
<1>3. ConnectionInv'
  BY DEF IInv, TypeOK, RequestInv, CallerInv, WireInv, TicketInv, ThreadInv, Connected, Early, Exchange, PipeInv, LinkInv, InboxInv, ConnectionInv, ChannelInv, Uses, Linked, transport, pipes, queue, thread
<1>4. ChannelInv'
  BY DEF IInv, TypeOK, RequestInv, CallerInv, WireInv, TicketInv, ThreadInv, Connected, Early, Exchange, PipeInv, LinkInv, InboxInv, ConnectionInv, ChannelInv, Uses, Linked, transport, pipes, queue, thread
<1>. QED  BY <1>1, <1>2, <1>3, <1>4 DEF PipeInv

LEMMA ResendPipes == ASSUME IInv, PipeInv, NEW c \in Calls, Resend(c) PROVE PipeInv'
<1> USE BridgeAssumption DEF Resend, Unsent, CloseClient
<1>1. LinkInv'
  BY DEF IInv, TypeOK, RequestInv, CallerInv, WireInv, TicketInv, ThreadInv, Connected, Early, Exchange, PipeInv, LinkInv, InboxInv, ConnectionInv, ChannelInv, Uses, Linked, transport, pipes, queue, thread
<1>2. InboxInv'
  BY DEF IInv, TypeOK, RequestInv, CallerInv, WireInv, TicketInv, ThreadInv, Connected, Early, Exchange, PipeInv, LinkInv, InboxInv, ConnectionInv, ChannelInv, Uses, Linked, transport, pipes, queue, thread
<1>3. ConnectionInv'
  BY DEF IInv, TypeOK, RequestInv, CallerInv, WireInv, TicketInv, ThreadInv, Connected, Early, Exchange, PipeInv, LinkInv, InboxInv, ConnectionInv, ChannelInv, Uses, Linked, transport, pipes, queue, thread
<1>4. ChannelInv'
  BY DEF IInv, TypeOK, RequestInv, CallerInv, WireInv, TicketInv, ThreadInv, Connected, Early, Exchange, PipeInv, LinkInv, InboxInv, ConnectionInv, ChannelInv, Uses, Linked, transport, pipes, queue, thread
<1>. QED  BY <1>1, <1>2, <1>3, <1>4 DEF PipeInv

LEMMA ReceivePipes == ASSUME IInv, PipeInv, NEW c \in Calls, Receive(c) PROVE PipeInv'
<1> USE BridgeAssumption DEF Receive, End, PutBack
<1>1. LinkInv'
  BY DEF IInv, TypeOK, RequestInv, CallerInv, WireInv, TicketInv, ThreadInv, Connected, Early, Exchange, PipeInv, LinkInv, InboxInv, ConnectionInv, ChannelInv, Uses, Linked, transport, pipes, queue, thread
<1>2. InboxInv'
  BY DEF IInv, TypeOK, RequestInv, CallerInv, WireInv, TicketInv, ThreadInv, Connected, Early, Exchange, PipeInv, LinkInv, InboxInv, ConnectionInv, ChannelInv, Uses, Linked, transport, pipes, queue, thread
<1>3. ConnectionInv'
  BY DEF IInv, TypeOK, RequestInv, CallerInv, WireInv, TicketInv, ThreadInv, Connected, Early, Exchange, PipeInv, LinkInv, InboxInv, ConnectionInv, ChannelInv, Uses, Linked, transport, pipes, queue, thread
<1>4. ChannelInv'
  BY DEF IInv, TypeOK, RequestInv, CallerInv, WireInv, TicketInv, ThreadInv, Connected, Early, Exchange, PipeInv, LinkInv, InboxInv, ConnectionInv, ChannelInv, Uses, Linked, transport, pipes, queue, thread
<1>. QED  BY <1>1, <1>2, <1>3, <1>4 DEF PipeInv

LEMMA AcceptPipes == ASSUME IInv, PipeInv, NEW p \in Pipes, Accept(p) PROVE PipeInv'
<1> USE BridgeAssumption DEF Accept, Polling
<1>1. LinkInv'
  BY DEF IInv, TypeOK, RequestInv, CallerInv, WireInv, TicketInv, ThreadInv, Connected, Early, Exchange, PipeInv, LinkInv, InboxInv, ConnectionInv, ChannelInv, Uses, Linked, transport, pipes, queue, thread
<1>2. InboxInv'
  BY DEF IInv, TypeOK, RequestInv, CallerInv, WireInv, TicketInv, ThreadInv, Connected, Early, Exchange, PipeInv, LinkInv, InboxInv, ConnectionInv, ChannelInv, Uses, Linked, transport, pipes, queue, thread
<1>3. ConnectionInv'
  BY DEF IInv, TypeOK, RequestInv, CallerInv, WireInv, TicketInv, ThreadInv, Connected, Early, Exchange, PipeInv, LinkInv, InboxInv, ConnectionInv, ChannelInv, Uses, Linked, transport, pipes, queue, thread
<1>4. ChannelInv'
  BY DEF IInv, TypeOK, RequestInv, CallerInv, WireInv, TicketInv, ThreadInv, Connected, Early, Exchange, PipeInv, LinkInv, InboxInv, ConnectionInv, ChannelInv, Uses, Linked, transport, pipes, queue, thread
<1>. QED  BY <1>1, <1>2, <1>3, <1>4 DEF PipeInv

LEMMA ReadPipes == ASSUME IInv, PipeInv, NEW p \in Pipes, Read(p) PROVE PipeInv'
<1> USE BridgeAssumption DEF Read, Polling, Submit
<1>1. LinkInv'
  BY DEF IInv, TypeOK, RequestInv, CallerInv, WireInv, TicketInv, ThreadInv, Connected, Early, Exchange, PipeInv, LinkInv, InboxInv, ConnectionInv, ChannelInv, Uses, Linked, transport, pipes, queue, thread
<1>2. InboxInv'
  BY DEF IInv, TypeOK, RequestInv, CallerInv, WireInv, TicketInv, ThreadInv, Connected, Early, Exchange, PipeInv, LinkInv, InboxInv, ConnectionInv, ChannelInv, Uses, Linked, transport, pipes, queue, thread
<1>3. ConnectionInv'
  BY DEF IInv, TypeOK, RequestInv, CallerInv, WireInv, TicketInv, ThreadInv, Connected, Early, Exchange, PipeInv, LinkInv, InboxInv, ConnectionInv, ChannelInv, Uses, Linked, transport, pipes, queue, thread
<1>4. ChannelInv'
  BY DEF IInv, TypeOK, RequestInv, CallerInv, WireInv, TicketInv, ThreadInv, Connected, Early, Exchange, PipeInv, LinkInv, InboxInv, ConnectionInv, ChannelInv, Uses, Linked, transport, pipes, queue, thread
<1>. QED  BY <1>1, <1>2, <1>3, <1>4 DEF PipeInv

LEMMA ReplyPipes == ASSUME IInv, PipeInv, NEW p \in Pipes, Reply(p) PROVE PipeInv'
<1> USE BridgeAssumption DEF Reply, Polling
<1>1. LinkInv'
  BY DEF IInv, TypeOK, RequestInv, CallerInv, WireInv, TicketInv, ThreadInv, Connected, Early, Exchange, PipeInv, LinkInv, InboxInv, ConnectionInv, ChannelInv, Uses, Linked, transport, pipes, queue, thread
<1>2. InboxInv'
  BY DEF IInv, TypeOK, RequestInv, CallerInv, WireInv, TicketInv, ThreadInv, Connected, Early, Exchange, PipeInv, LinkInv, InboxInv, ConnectionInv, ChannelInv, Uses, Linked, transport, pipes, queue, thread
<1>3. ConnectionInv'
  BY DEF IInv, TypeOK, RequestInv, CallerInv, WireInv, TicketInv, ThreadInv, Connected, Early, Exchange, PipeInv, LinkInv, InboxInv, ConnectionInv, ChannelInv, Uses, Linked, transport, pipes, queue, thread
<1>4. ChannelInv'
  BY DEF IInv, TypeOK, RequestInv, CallerInv, WireInv, TicketInv, ThreadInv, Connected, Early, Exchange, PipeInv, LinkInv, InboxInv, ConnectionInv, ChannelInv, Uses, Linked, transport, pipes, queue, thread
<1>. QED  BY <1>1, <1>2, <1>3, <1>4 DEF PipeInv

LEMMA RepliedPipes == ASSUME IInv, PipeInv, NEW p \in Pipes, Replied(p) PROVE PipeInv'
<1> USE BridgeAssumption DEF Replied, Polling
<1>1. LinkInv'
  BY DEF IInv, TypeOK, RequestInv, CallerInv, WireInv, TicketInv, ThreadInv, Connected, Early, Exchange, PipeInv, LinkInv, InboxInv, ConnectionInv, ChannelInv, Uses, Linked, transport, pipes, queue, thread
<1>2. InboxInv'
  BY DEF IInv, TypeOK, RequestInv, CallerInv, WireInv, TicketInv, ThreadInv, Connected, Early, Exchange, PipeInv, LinkInv, InboxInv, ConnectionInv, ChannelInv, Uses, Linked, transport, pipes, queue, thread
<1>3. ConnectionInv'
  BY DEF IInv, TypeOK, RequestInv, CallerInv, WireInv, TicketInv, ThreadInv, Connected, Early, Exchange, PipeInv, LinkInv, InboxInv, ConnectionInv, ChannelInv, Uses, Linked, transport, pipes, queue, thread
<1>4. ChannelInv'
  BY DEF IInv, TypeOK, RequestInv, CallerInv, WireInv, TicketInv, ThreadInv, Connected, Early, Exchange, PipeInv, LinkInv, InboxInv, ConnectionInv, ChannelInv, Uses, Linked, transport, pipes, queue, thread
<1>. QED  BY <1>1, <1>2, <1>3, <1>4 DEF PipeInv

LEMMA HangupPipes == ASSUME IInv, PipeInv, NEW p \in Pipes, Hangup(p) PROVE PipeInv'
<1> USE BridgeAssumption DEF Hangup, Polling, Sever, CancelTickets
<1>1. LinkInv'
  BY DEF IInv, TypeOK, RequestInv, CallerInv, WireInv, TicketInv, ThreadInv, Connected, Early, Exchange, PipeInv, LinkInv, InboxInv, ConnectionInv, ChannelInv, Uses, Linked, transport, pipes, queue, thread
<1>2. InboxInv'
  BY DEF IInv, TypeOK, RequestInv, CallerInv, WireInv, TicketInv, ThreadInv, Connected, Early, Exchange, PipeInv, LinkInv, InboxInv, ConnectionInv, ChannelInv, Uses, Linked, transport, pipes, queue, thread
<1>3. ConnectionInv'
  BY DEF IInv, TypeOK, RequestInv, CallerInv, WireInv, TicketInv, ThreadInv, Connected, Early, Exchange, PipeInv, LinkInv, InboxInv, ConnectionInv, ChannelInv, Uses, Linked, transport, pipes, queue, thread
<1>4. ChannelInv'
  BY DEF IInv, TypeOK, RequestInv, CallerInv, WireInv, TicketInv, ThreadInv, Connected, Early, Exchange, PipeInv, LinkInv, InboxInv, ConnectionInv, ChannelInv, Uses, Linked, transport, pipes, queue, thread
<1>. QED  BY <1>1, <1>2, <1>3, <1>4 DEF PipeInv

LEMMA RecreatePipes == ASSUME IInv, PipeInv, NEW p \in Pipes, Recreate(p) PROVE PipeInv'
<1> USE BridgeAssumption DEF Recreate, Listening, Polling
<1>1. LinkInv'
  BY DEF IInv, TypeOK, RequestInv, CallerInv, WireInv, TicketInv, ThreadInv, Connected, Early, Exchange, PipeInv, LinkInv, InboxInv, ConnectionInv, ChannelInv, Uses, Linked, transport, pipes, queue, thread
<1>2. InboxInv'
  BY DEF IInv, TypeOK, RequestInv, CallerInv, WireInv, TicketInv, ThreadInv, Connected, Early, Exchange, PipeInv, LinkInv, InboxInv, ConnectionInv, ChannelInv, Uses, Linked, transport, pipes, queue, thread
<1>3. ConnectionInv'
  BY DEF IInv, TypeOK, RequestInv, CallerInv, WireInv, TicketInv, ThreadInv, Connected, Early, Exchange, PipeInv, LinkInv, InboxInv, ConnectionInv, ChannelInv, Uses, Linked, transport, pipes, queue, thread
<1>4. ChannelInv'
  BY DEF IInv, TypeOK, RequestInv, CallerInv, WireInv, TicketInv, ThreadInv, Connected, Early, Exchange, PipeInv, LinkInv, InboxInv, ConnectionInv, ChannelInv, Uses, Linked, transport, pipes, queue, thread
<1>. QED  BY <1>1, <1>2, <1>3, <1>4 DEF PipeInv

LEMMA StartPipes == ASSUME IInv, PipeInv, Start PROVE PipeInv'
<1> USE BridgeAssumption DEF Start, Listening
<1>1. LinkInv'
  BY DEF IInv, TypeOK, RequestInv, CallerInv, WireInv, TicketInv, ThreadInv, Connected, Early, Exchange, PipeInv, LinkInv, InboxInv, ConnectionInv, ChannelInv, Uses, Linked, transport, pipes, queue, thread
<1>2. InboxInv'
  BY DEF IInv, TypeOK, RequestInv, CallerInv, WireInv, TicketInv, ThreadInv, Connected, Early, Exchange, PipeInv, LinkInv, InboxInv, ConnectionInv, ChannelInv, Uses, Linked, transport, pipes, queue, thread
<1>3. ConnectionInv'
  BY DEF IInv, TypeOK, RequestInv, CallerInv, WireInv, TicketInv, ThreadInv, Connected, Early, Exchange, PipeInv, LinkInv, InboxInv, ConnectionInv, ChannelInv, Uses, Linked, transport, pipes, queue, thread
<1>4. ChannelInv'
  BY DEF IInv, TypeOK, RequestInv, CallerInv, WireInv, TicketInv, ThreadInv, Connected, Early, Exchange, PipeInv, LinkInv, InboxInv, ConnectionInv, ChannelInv, Uses, Linked, transport, pipes, queue, thread
<1>. QED  BY <1>1, <1>2, <1>3, <1>4 DEF PipeInv

LEMMA StopPipes == ASSUME IInv, PipeInv, Stop PROVE PipeInv'
<1> USE BridgeAssumption DEF Stop, QueueStops, Sever, CancelTickets
<1>1. LinkInv'
  BY DEF IInv, TypeOK, RequestInv, CallerInv, WireInv, TicketInv, ThreadInv, Connected, Early, Exchange, PipeInv, LinkInv, InboxInv, ConnectionInv, ChannelInv, Uses, Linked, transport, pipes, queue, thread
<1>2. InboxInv'
  BY DEF IInv, TypeOK, RequestInv, CallerInv, WireInv, TicketInv, ThreadInv, Connected, Early, Exchange, PipeInv, LinkInv, InboxInv, ConnectionInv, ChannelInv, Uses, Linked, transport, pipes, queue, thread
<1>3. ConnectionInv'
  BY DEF IInv, TypeOK, RequestInv, CallerInv, WireInv, TicketInv, ThreadInv, Connected, Early, Exchange, PipeInv, LinkInv, InboxInv, ConnectionInv, ChannelInv, Uses, Linked, transport, pipes, queue, thread
<1>4. ChannelInv'
  BY DEF IInv, TypeOK, RequestInv, CallerInv, WireInv, TicketInv, ThreadInv, Connected, Early, Exchange, PipeInv, LinkInv, InboxInv, ConnectionInv, ChannelInv, Uses, Linked, transport, pipes, queue, thread
<1>. QED  BY <1>1, <1>2, <1>3, <1>4 DEF PipeInv

LEMMA CrashPipes == ASSUME IInv, PipeInv, Crash PROVE PipeInv'
<1> USE BridgeAssumption DEF Crash, QueueStops, Sever, CancelTickets
<1>1. LinkInv'
  BY DEF IInv, TypeOK, RequestInv, CallerInv, WireInv, TicketInv, ThreadInv, Connected, Early, Exchange, PipeInv, LinkInv, InboxInv, ConnectionInv, ChannelInv, Uses, Linked, transport, pipes, queue, thread
<1>2. InboxInv'
  BY DEF IInv, TypeOK, RequestInv, CallerInv, WireInv, TicketInv, ThreadInv, Connected, Early, Exchange, PipeInv, LinkInv, InboxInv, ConnectionInv, ChannelInv, Uses, Linked, transport, pipes, queue, thread
<1>3. ConnectionInv'
  BY DEF IInv, TypeOK, RequestInv, CallerInv, WireInv, TicketInv, ThreadInv, Connected, Early, Exchange, PipeInv, LinkInv, InboxInv, ConnectionInv, ChannelInv, Uses, Linked, transport, pipes, queue, thread
<1>4. ChannelInv'
  BY DEF IInv, TypeOK, RequestInv, CallerInv, WireInv, TicketInv, ThreadInv, Connected, Early, Exchange, PipeInv, LinkInv, InboxInv, ConnectionInv, ChannelInv, Uses, Linked, transport, pipes, queue, thread
<1>. QED  BY <1>1, <1>2, <1>3, <1>4 DEF PipeInv

LEMMA PipeStep == ASSUME IInv, PipeInv, [Next]_vars PROVE PipeInv'
<1> USE BridgeAssumption
<1>1. ASSUME NEW c \in Calls, Request(c) PROVE PipeInv'
  <2>1. CASE Begin(c) \/ TakeSlot(c) \/ SlotTimeout(c) \/ Written(c)
    <3>1. UNCHANGED <<conn, pipes, closed, ticket>>
      BY <2>1 DEF Begin, TakeSlot, SlotTimeout, Written, queue
    <3>2. \A d \in Calls : pc[d] \in {"writing", "reading"} => pc'[d] \in {"writing", "reading"}
      BY <2>1 DEF Begin, TakeSlot, SlotTimeout, Written, End, IInv, TypeOK
    <3>. QED  BY <3>1, <3>2, PipeFrame
  <2>2. CASE TakeClient(c)
    <3>1. \A d \in Calls, k \in Clients : Uses(d, k) => Uses(d, k)'
      BY <2>2 DEF TakeClient, Uses, IInv, TypeOK
    <3>2. UNCHANGED <<pipes, closed, ticket>>
      BY <2>2 DEF TakeClient, queue
    <3>3. \A p \in Pipes : chan[p] = "waiting" => job[p] \in Calls
      BY DEF PipeInv, ChannelInv, IInv, TypeOK
    <3>4. LinkInv' /\ InboxInv' /\ ChannelInv'
      BY <3>1, <3>2 DEF PipeInv, LinkInv, InboxInv, ChannelInv, Linked, pipes, IInv, TypeOK
    <3>5. ConnectionInv'
      BY <3>1, <3>2, <3>3 DEF PipeInv, ConnectionInv, pipes, IInv, TypeOK
    <3>. QED  BY <3>4, <3>5 DEF PipeInv
  <2>. QED  BY <1>1, <2>1, <2>2, FailPipes, ConnectPipes, WritePipes, ResendPipes, ReceivePipes
            DEF Request
<1>2. ASSUME NEW p \in Pipes, Channel(p) PROVE PipeInv'
  BY <1>2, AcceptPipes, ReadPipes, ReplyPipes, RepliedPipes, HangupPipes, RecreatePipes DEF Channel
<1>3. CASE Pump
  <2>1. UNCHANGED <<transport, pipes, closed>>
    BY <1>3 DEF Pump, Take, Claim, Answer, Check, Refuse, Call, Return
  <2>2. \A d \in Calls : ticket[d] # "none" => ticket'[d] # "none"
    BY <1>3 DEF Pump, Take, Claim, CancelTickets, Answer, Check, Refuse, Call, Return, Finish, queue,
                IInv, TypeOK
  <2>. QED  BY <2>1, <2>2, PipeFrame DEF transport
<1>4. CASE UNCHANGED vars
  BY <1>4, PipeFrame DEF vars, transport, queue
<1>. QED  BY <1>1, <1>2, <1>3, <1>4, StartPipes, StopPipes, CrashPipes DEF Next

\* On a connection that many requests share in turn, each reads its own reply.
THEOREM RepliesBelong == Spec => []RepliesAreOwn
<1>1. Init => PipeInv
  BY BridgeAssumption DEF Init, PipeInv, LinkInv, InboxInv, ConnectionInv, ChannelInv
<1>2. IInv /\ PipeInv => RepliesAreOwn
  <2> SUFFICES ASSUME IInv, PipeInv, NEW c \in Calls, pc[c] = "reading", inbox[conn[c]] # None
               PROVE  inbox[conn[c]] = c
    BY DEF RepliesAreOwn
  <2>1. conn[c] \in Clients /\ inbox[conn[c]] \in Calls
    BY BridgeAssumption DEF IInv, TypeOK, RequestInv, CallerInv, Connected
  <2>2. Uses(inbox[conn[c]], conn[c])
    BY <2>1 DEF PipeInv, InboxInv
  <2>. QED  BY <2>1, <2>2, BridgeAssumption DEF Uses, IInv, RequestInv, CallerInv
<1>3. IInv /\ PipeInv /\ [Next]_vars => PipeInv'
  BY PipeStep
<1>. QED  BY <1>1, <1>2, <1>3, Invariance, PTL DEF Spec

\* A failed request takes away only the instance it had read.
THEOREM ObservedInstanceOnly == Spec => OnlyObservedIsInvalidated
<1>1. ASSUME IInv, [Next]_vars, instance' = None, instance # None
      PROVE  \E c \in Calls : pc[c] # "done" /\ pc'[c] = "done" /\ seen[c] = instance
  <2>1. PICK c \in Calls : Fail(c) \/ Receive(c)
    BY <1>1 DEF Next, Request, Begin, TakeSlot, SlotTimeout, TakeClient, Connect, Write, Written,
                Resend, Channel, Accept, Read, Reply, Replied, Hangup, Recreate, Listening, Pump,
                Take, Claim, Answer, Check, Refuse, Call, Return, Start, Stop, Crash, QueueStops, vars,
                transport
  <2>2. pc[c] # "done" /\ pc'[c] = "done"
    BY <2>1, <1>1 DEF Fail, Receive, Exchange, End, IInv, TypeOK
  <2>3. ASSUME Receive(c), instance' # Invalidated(c), instance' # instance
        PROVE  FALSE
    <3>1. c \in Pings /\ inbox[conn[c]] = c /\ origin[c] = None /\ response[c] # "none"
      BY <1>1, <2>3 DEF Receive, Correlated
    <3>. QED  BY <1>1, <3>1 DEF IInv, RequestInv, TicketInv
  <2>. QED  BY <1>1, <2>1, <2>2, <2>3 DEF Fail, Invalidated
<1>. QED  BY <1>1, Invariance, PTL DEF Spec, OnlyObservedIsInvalidated

-----------------------------------------------------------------------------
\* What OrderSubmit adds: the order list, and the watch over it.

OrderRow == [of : Submits, kind : {"signal", "broker"}, refused : BOOLEAN]
Placed(c) == \E n \in native : n[2] = c

\* A request that called the native function is on record.
NativeInv == \A c \in Mutations : runs[c] # 0 => Placed(c)

\* An order that was refused, by QMT or by the broker.
Dead(c) == Row(c, "signal", TRUE) \in rows \/ Row(c, "broker", TRUE) \in rows

\* The rows of an order: only one that was placed has rows, and one that was
\* refused is nowhere alive.
RowInv ==
    /\ rows \subseteq OrderRow
    /\ \A r \in rows : Placed(r.of)
    /\ \A c \in Submits :
         /\ Row(c, "signal", TRUE) \in rows => RowsOf(c) = {Row(c, "signal", TRUE)}
         /\ Row(c, "broker", TRUE) \in rows => Row(c, "broker", FALSE) \notin rows

\* An answer is made of a row with the marker of its request.
WatchInv ==
    /\ DOMAIN answer = Submits
    /\ \A c \in Submits : answer[c].row # None =>
         /\ Placed(c)
         /\ answer[c].row \in OrderRow /\ Marker(answer[c].row.of) = Marker(c)
         /\ Placed(answer[c].row.of)
         /\ IF answer[c].outcome = "submitted" THEN answer[c].row.kind = "broker"
            ELSE Dead(answer[c].row.of)

OrderInv == NativeInv /\ RowInv /\ WatchInv

LEMMA OrderStepIsBridgeStep == ASSUME OrderNext PROVE [Next]_vars
BY DEF OrderNext, BridgeStep, CheckOrder, ListOrder, Look, StopWatching, Next, Pump

\* What the bridge does to the history: it only grows.
LEMMA NativeStep ==
    ASSUME IInv, NativeInv, [Next]_vars
    PROVE  NativeInv' /\ \A c \in Submits : Placed(c) => Placed(c)'
<1>1. CASE Call
  <2>1. /\ native' = native \cup {<<inst, current>>}
        /\ runs' = [runs EXCEPT ![current] = @ + 1]
    BY <1>1 DEF Call
  <2>2. \E n \in native' : n[2] = current
    <3>1. <<inst, current>> \in native' /\ <<inst, current>>[2] = current
      BY <2>1
    <3>. QED  BY <3>1
  <2>3. \A c \in Calls : Placed(c) => Placed(c)'
    BY <2>1 DEF Placed
  <2>4. ASSUME NEW c \in Mutations, runs'[c] # 0
        PROVE  Placed(c)'
    <3>1. CASE c = current
      BY <2>2, <3>1 DEF Placed
    <3>2. CASE c # current
      <4>1. runs'[c] = runs[c]
        BY <2>1, <3>2 DEF IInv, TypeOK, Calls
      <4>. QED  BY <2>3, <2>4, <4>1 DEF NativeInv, Calls
    <3>. QED  BY <3>1, <3>2
  <2>. QED  BY <2>3, <2>4 DEF NativeInv, Calls, Mutations
<1>2. CASE ~Call
  <2>1. UNCHANGED <<runs, native>>
    BY <1>2 DEF Next, Request, Begin, TakeSlot, SlotTimeout, TakeClient, Fail, Connect, Write, Written,
                Resend, Receive, Channel, Accept, Read, Reply, Replied, Hangup, Recreate, Pump, Take,
                Claim, Answer, Check, Refuse, Return, Start, Stop, Crash, vars, thread
  <2>. QED  BY <2>1 DEF NativeInv, Placed
<1>. QED  BY <1>1, <1>2

\* The bridge does nothing to the order list and the answers.
LEMMA BridgeOrders ==
    ASSUME OrderInv, UNCHANGED <<rows, answer>>, NativeInv',
           \A c \in Submits : Placed(c) => Placed(c)'
    PROVE  OrderInv'
<1>1. RowInv'
  BY DEF OrderInv, RowInv, RowsOf, Row, OrderRow
<1>2. WatchInv'
  BY DEF OrderInv, WatchInv, Dead, OrderRow
<1>. QED  BY <1>1, <1>2 DEF OrderInv

\* QMT lists an order.
LEMMA ListOrderInv ==
    ASSUME IInv, OrderInv, NEW c \in Submits, ListOrder(c) PROVE OrderInv'
<1> USE DEF OrderInv
<1>1. UNCHANGED <<runs, native, answer>>
  BY DEF ListOrder, vars, thread
<1>2. NativeInv' /\ \A d : Placed(d)' = Placed(d)
  BY <1>1 DEF NativeInv, Placed
<1>3. Placed(c)
  BY BridgeAssumption DEF ListOrder, NativeInv, IInv, TypeOK, Mutations, Calls
<1>4. PICK new \in OrderRow :
        /\ new.of = c
        /\ \/ RowsOf(c) = {} /\ rows' = rows \cup {new} /\ new = Row(c, "signal", FALSE)
           \/ /\ RowsOf(c) = {Row(c, "signal", FALSE)}
              /\ \/ rows' = (rows \ RowsOf(c)) \cup {new} /\ new = Row(c, "signal", TRUE)
                 \/ rows' = rows \cup {new} /\ new.kind = "broker"
  <2>1. CASE RowsOf(c) = {} /\ rows' = rows \cup {Row(c, "signal", FALSE)}
    <3>1. Row(c, "signal", FALSE) \in OrderRow /\ Row(c, "signal", FALSE).of = c
      BY DEF Row, OrderRow
    <3>. QED  BY <2>1, <3>1
  <2>2. CASE /\ RowsOf(c) = {Row(c, "signal", FALSE)}
             /\ rows' = (rows \ RowsOf(c)) \cup {Row(c, "signal", TRUE)}
    <3>1. Row(c, "signal", TRUE) \in OrderRow /\ Row(c, "signal", TRUE).of = c
      BY DEF Row, OrderRow
    <3>. QED  BY <2>2, <3>1
  <2>3. ASSUME RowsOf(c) = {Row(c, "signal", FALSE)}, NEW refused \in BOOLEAN,
               rows' = rows \cup {Row(c, "broker", refused)}
        PROVE  \E new \in OrderRow :
                 new.of = c /\ rows' = rows \cup {new} /\ new.kind = "broker"
    <3>1. LET new == Row(c, "broker", refused)
          IN  new \in OrderRow /\ new.of = c /\ new.kind = "broker"
      BY DEF Row, OrderRow
    <3>. QED  BY <2>3, <3>1
  <2>. QED  BY <2>1, <2>2, <2>3 DEF ListOrder
<1>5. /\ Row(c, "signal", TRUE) \notin rows /\ Row(c, "broker", TRUE) \notin rows
      /\ Row(c, "broker", FALSE) \notin rows
  BY <1>4 DEF RowsOf, Row
<1>6. \A d \in Submits : d # c =>
        \A r : r.of = d => (r \in rows' <=> r \in rows)
  BY <1>4 DEF RowsOf
<1>7. RowInv'
  <2>1. rows' \subseteq OrderRow /\ \A r \in rows' : Placed(r.of)'
    BY <1>2, <1>3, <1>4 DEF RowInv
  <2>2. ASSUME NEW d \in Submits, d # c
        PROVE  /\ (Row(d, "signal", TRUE) \in rows => RowsOf(d) = {Row(d, "signal", TRUE)})'
               /\ (Row(d, "broker", TRUE) \in rows => Row(d, "broker", FALSE) \notin rows)'
    BY <1>6, <2>2 DEF RowInv, RowsOf, Row
  <2>3. (Row(c, "signal", TRUE) \in rows => RowsOf(c) = {Row(c, "signal", TRUE)})'
    <3> SUFFICES ASSUME Row(c, "signal", TRUE) \in rows'
                 PROVE  RowsOf(c)' = {Row(c, "signal", TRUE)}
      OBVIOUS
    <3>1. new = Row(c, "signal", TRUE)
      BY <1>4, <1>5
    <3>2. rows' = (rows \ RowsOf(c)) \cup {new}
      BY <1>4, <3>1 DEF Row
    <3>3. \A r \in rows' : r.of = c => r = Row(c, "signal", TRUE)
      BY <3>1, <3>2 DEF RowsOf
    <3>. QED  BY <1>4, <3>1, <3>2, <3>3 DEF RowsOf
  <2>4. (Row(c, "broker", TRUE) \in rows => Row(c, "broker", FALSE) \notin rows)'
    BY <1>4, <1>5 DEF Row
  <2>. QED  BY <2>1, <2>2, <2>3, <2>4 DEF RowInv
<1>8. \A d \in Submits : Dead(d) => Dead(d)'
  BY <1>5, <1>6 DEF Dead, Row
<1>9. WatchInv'
  BY <1>1, <1>2, <1>8 DEF WatchInv, OrderRow
<1>. QED  BY <1>2, <1>7, <1>9

\* One look at the order list finds an order, or leaves the outcome open.
LEMMA LookInv ==
    ASSUME IInv, OrderInv, NEW c \in Submits, Look(c) \/ StopWatching(c) PROVE OrderInv'
<1> USE DEF OrderInv
<1>1. UNCHANGED <<rows, runs, native>>
  BY DEF Look, StopWatching, vars, thread
<1>2. NativeInv' /\ RowInv' /\ (\A d : Placed(d)' = Placed(d)) /\ (\A d : Dead(d)' = Dead(d))
  BY <1>1 DEF NativeInv, Placed, RowInv, RowsOf, Dead
<1>3. Placed(c)
  BY BridgeAssumption
     DEF Look, StopWatching, Watching, NativeInv, IInv, RequestInv, RunInv, Mutations, Calls
<1>4. CASE answer' = [answer EXCEPT ![c] = Unknown]
  BY <1>2, <1>4 DEF WatchInv, Unknown
<1>5. ASSUME NEW r \in Select(c),
             answer' = [answer EXCEPT ![c] =
                 [outcome |-> IF r.refused THEN "rejected" ELSE "submitted", row |-> r]]
      PROVE  WatchInv'
  <2>1. r \in rows /\ r \in OrderRow /\ Marker(r.of) = Marker(c) /\ Placed(r.of)
    BY DEF Select, Broker, Marked, RowInv
  <2>2. r.kind = "broker" \/ r.refused
    BY DEF Select, Broker
  <2>3. r.refused => Dead(r.of)
    BY <2>1 DEF Dead, Row, OrderRow
  <2>4. IF r.refused THEN Dead(r.of) ELSE r.kind = "broker"
    BY <2>2, <2>3
  <2>. QED  BY <1>2, <1>3, <1>5, <2>1, <2>4 DEF WatchInv
<1>. QED  BY <1>2, <1>4, <1>5 DEF Look, StopWatching

LEMMA OrderStep ==
    ASSUME IInv, OrderInv, [OrderNext]_<<vars, orders>> PROVE OrderInv'
<1>1. CASE BridgeStep /\ UNCHANGED orders
  BY <1>1, OrderStepIsBridgeStep, NativeStep, BridgeOrders DEF OrderNext, orders, OrderInv
<1>2. CASE CheckOrder
  BY <1>2, OrderStepIsBridgeStep, NativeStep, BridgeOrders DEF OrderNext, CheckOrder, OrderInv
<1>3. CASE UNCHANGED <<vars, orders>>
  BY <1>3, NativeStep, BridgeOrders DEF orders, OrderInv
<1>. QED  BY <1>1, <1>2, <1>3, ListOrderInv, LookInv DEF OrderNext

LEMMA OrderSpecIsSpec == OrderSpec => Spec
<1>1. OrderInit => Init
  BY DEF OrderInit
<1>2. [OrderNext]_<<vars, orders>> => [Next]_vars
  BY OrderStepIsBridgeStep
<1>. QED  BY <1>1, <1>2, PTL DEF OrderSpec, Spec

\* However many requests carry one correlation_ref, and however late and often
\* the list shows their orders: a caller that is told of an order is told of
\* its own, or of one that the strategy placed before it was restarted.
THEOREM OwnOrderAnswered == OrderSpec => []AnswersOwnOrder
<1>1. OrderInit => OrderInv
  BY BridgeAssumption DEF OrderInit, Init, OrderInv, NativeInv, RowInv, WatchInv, NoAnswer, Mutations,
                          Calls
<1>2. IInv /\ OrderInv /\ [OrderNext]_<<vars, orders>> => OrderInv'
  BY OrderStep
<1>3. OrderInv /\ OneOrderPerMarker => AnswersOwnOrder
  <2> SUFFICES ASSUME OrderInv, OneOrderPerMarker, NEW c \in Submits, answer[c].row # None,
                      ~PlacedElsewhere(c, answer[c].row.of)
               PROVE  /\ answer[c].row.of = c
                      /\ IF answer[c].outcome = "submitted" THEN answer[c].row.kind = "broker"
                         ELSE Row(c, "broker", FALSE) \notin rows
    BY DEF AnswersOwnOrder
  <2> DEFINE d == answer[c].row.of
  <2>1. d \in Submits /\ Marker(d) = Marker(c)
    BY DEF OrderInv, WatchInv, OrderRow
  <2>2. PICK m \in native, n \in native : m[2] = c /\ n[2] = d /\ m[1] = n[1]
    BY DEF OrderInv, WatchInv, Placed, PlacedElsewhere
  <2>3. m = n
    BY <2>1, <2>2 DEF OneOrderPerMarker
  <2>4. d = c
    BY <2>2, <2>3
  <2>5. Dead(c) => Row(c, "broker", FALSE) \notin rows
    BY DEF OrderInv, RowInv, Dead, RowsOf, Row
  <2>. QED  BY <2>4, <2>5 DEF OrderInv, WatchInv
<1>4. OrderSpec => []IInv /\ []OneOrderPerMarker
  BY OrderSpecIsSpec, Invariance, MarkersUsedOnce, PTL
<1>. QED  BY <1>1, <1>2, <1>3, <1>4, PTL DEF OrderSpec
=============================================================================

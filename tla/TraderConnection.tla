--------------------------- MODULE TraderConnection ---------------------------
(***************************************************************************)
(* ConnectionManager of adapters/xtquant_2_0_6_1/connection.py: the native *)
(* trader, the reconnect worker threads, the heartbeat thread, the         *)
(* disconnect callbacks of the SDK, business calls, and the thread that    *)
(* starts and stops the manager.                                           *)
(*                                                                         *)
(* Every `with self._trader_lock` or `with self._state_lock` block is one  *)
(* action; so is one native call.  Delays and heartbeat periods have no    *)
(* length: waiting may end at any time.                                    *)
(***************************************************************************)
EXTENDS Naturals, FiniteSets

CONSTANTS
    Workers,      \* identities of _connection_worker threads, reused when done
    Callers,      \* client threads inside call_trader_method
    Traders,      \* identities of XtQuantTrader objects, reused when unreachable
    Hb,           \* the heartbeat thread
    Main,         \* the thread that calls start() or probe(), then stop()
    None,         \* Python's None
    EntryPoints,  \* what Main may call: "serve" is start(), "probe" is probe()
    MaxAttempts,  \* reconnect_max_attempts, 0 for unlimited
    AttemptCap,   \* _reconnect_attempts is counted up to this bound
    MaxFailures   \* heartbeat_max_failures

\* A trader object stands for the SDK thread that runs its on_disconnected.
Threads == Workers \cup Callers \cup Traders \cup {Hb, Main}

ASSUME ThreadAssumption ==
    /\ Hb \notin Workers \cup Callers \cup Traders \cup {Main, None}
    /\ Main \notin Workers \cup Callers \cup Traders \cup {None}
    /\ None \notin Workers \cup Callers \cup Traders
    /\ Workers \cap Callers = {}
    /\ Workers \cap Traders = {}
    /\ Callers \cap Traders = {}

ASSUME BoundAssumption ==
    /\ EntryPoints \subseteq {"serve", "probe"}
    /\ MaxAttempts \in Nat
    /\ AttemptCap \in Nat
    /\ MaxAttempts <= AttemptCap
    /\ MaxFailures \in Nat \ {0}

VARIABLES
    \* attributes of the manager
    trader,           \* _trader
    connected,        \* _connected
    connectionState,  \* _connection_state; "trying" is waiting_retry or connecting
    attempts,         \* _reconnect_attempts
    failures,         \* _heartbeat_failures
    reconnectThread,  \* _reconnect_thread
    stopEvent,        \* _stop_event
    unbroken,         \* threads whose copy of _disconnect_generation still equals it
    announced,        \* type of the last connection event put on the event bus
    \* threads
    mode,             \* what Main has called so far: nothing, start() or probe()
    pc,               \* the step each thread takes next
    held,             \* the trader each thread keeps in a local variable
    checked,          \* the trader the heartbeat's check thread queries
    \* the SDK and QMT, seen from the manager
    qmt,              \* whether QMT answers
    native,           \* life of each trader object
    session,          \* the native session of each trader object
    nativeLock,       \* _native_lock of each trader: the thread inside the SDK
    \* history
    disowned,         \* traders whose loss mark_disconnected has accepted
    overtaken         \* calls whose trader was lost or replaced, or that were
                      \* overtaken by stop(), while they waited to enter the SDK

manager == <<trader, connected, connectionState, attempts, failures,
             reconnectThread, stopEvent, unbroken, announced>>
locals == <<mode, pc, held, checked>>
sdk == <<qmt, native, session, nativeLock>>
history == <<disowned, overtaken>>
vars == <<manager, locals, sdk, history>>

Init ==
    /\ trader = None /\ connected = FALSE /\ connectionState = "disconnected"
    /\ attempts = 0 /\ failures = 0
    /\ reconnectThread = None /\ stopEvent = FALSE
    /\ unbroken = {} /\ announced = "none"
    /\ mode = "new"
    /\ pc = [a \in Threads |-> IF a = Hb THEN "off" ELSE "idle"]
    /\ held = [a \in Threads |-> None]
    /\ checked = None
    /\ qmt \in {"up", "down"}
    /\ native = [t \in Traders |-> "none"]
    /\ session = [t \in Traders |-> "none"]
    /\ nativeLock = [t \in Traders |-> None]
    /\ disowned = {} /\ overtaken = {}

-----------------------------------------------------------------------------
Goto(a, step) == pc' = [pc EXCEPT ![a] = step]

\* Where a thread goes on when its call of mark_disconnected or
\* schedule_reconnect returns.
Resume(a) == IF a = Hb THEN "wait" ELSE "idle"

\* Where connect() returns to: the reconnect loop, or the caller of probe().
AfterConnect(a, step) == IF a = Main THEN "idle" ELSE step

\* Calls that hold on to a trader and wait for its native lock.
Waiting(t) == {c \in Callers : pc[c] = "queued" /\ held[c] = t}

\* _stop_trader asks the trader that was taken a step before to stop, from a
\* thread of its own that is awaited for two seconds at most; a trader that does
\* not stop in time is detached.
NeverAsked(t) == native' = native  \* mutant: the old trader is dropped, not stopped
AskToStop(t) == native' = [native EXCEPT ![t] = "stopping"]

AfterStop(step) == CASE step = "stop_old" -> "create"
                     [] step = "stop_new" -> "connect"
                     [] step = "stopping" -> "stopped"

StopTrader(a) ==
    /\ pc[a] \in {"stop_old", "stop_new", "stopping"}
    /\ AskToStop(held[a])
    /\ held' = [held EXCEPT ![a] = None]
    /\ Goto(a, AfterStop(pc[a]))
    /\ UNCHANGED <<manager, mode, checked, qmt, session, nativeLock, history>>

\* No variable of the program refers to the object any more.  A hung check
\* thread may still sit in its lock, but writes only to a discarded result.
Unreachable(t) ==
    /\ native[t] # "started"
    /\ t # trader /\ t # checked
    /\ pc[t] = "idle"
    /\ \A a \in Threads : held[a] # t

-----------------------------------------------------------------------------
\* A notice that comes after the stop or is about a replaced trader.
StaleNotice(a) == stopEvent \/ trader # held[a]

\* Only on_disconnected publishes the event, and only when it counts.
AnnouncedEarly(a) == IF a = Hb THEN announced ELSE "disconnect"  \* mutant: before the check
Announcement(a) == IF a = Hb \/ StaleNotice(a) THEN announced ELSE "disconnect"

\* mark_disconnected: the section under the trader lock.
Mark(a) ==
    /\ pc[a] = "mark"
    /\ IF StaleNotice(a)
       THEN /\ Goto(a, Resume(a))
            /\ UNCHANGED <<connected, connectionState, unbroken, history>>
       ELSE /\ connected' = FALSE
            /\ connectionState' = "disconnected"
            /\ unbroken' = {}
            /\ disowned' = disowned \cup {held[a]}
            /\ overtaken' = overtaken \cup Waiting(held[a])
            /\ Goto(a, "sched_check")
    /\ announced' = Announcement(a)
    /\ held' = [held EXCEPT ![a] = None]
    /\ UNCHANGED <<trader, attempts, failures, reconnectThread, stopEvent,
                   mode, checked, sdk>>

\* schedule_reconnect: the stop event is read under the trader lock ...
SchedCheck(a) ==
    /\ pc[a] = "sched_check"
    /\ Goto(a, IF stopEvent THEN Resume(a) ELSE "sched")
    /\ UNCHANGED <<manager, mode, held, checked, sdk, history>>

WorkerWanted == reconnectThread = None /\ ~connected

\* ... then a worker is started under the state lock, unless one is alive or
\* the manager is connected.  A worker that schedules its successor has nothing
\* left to do and gives it its identity, or leaves it another one.
Sched(a) ==
    /\ pc[a] = "sched"
    /\ IF ~WorkerWanted
       THEN Goto(a, Resume(a)) /\ UNCHANGED reconnectThread
       ELSE \E w \in Workers :
              /\ pc[w] = "idle" \/ w = a
              /\ reconnectThread' = w
              /\ pc' = [pc EXCEPT ![a] = Resume(a), ![w] = "loop"]
    /\ UNCHANGED <<trader, connected, connectionState, attempts, failures,
                   stopEvent, unbroken, announced, mode, held, checked, sdk, history>>

-----------------------------------------------------------------------------
\* _reconnect_loop: the loop condition and the test of the attempt bound.
LoopTest(w) ==
    /\ pc[w] = "loop"
    /\ Goto(w, CASE stopEvent -> "clear"
                 [] ~stopEvent /\ MaxAttempts > 0 /\ attempts >= MaxAttempts -> "give_up"
                 [] OTHER -> "back_off")
    /\ UNCHANGED <<manager, mode, held, checked, sdk, history>>

GiveUp(w) ==
    /\ pc[w] = "give_up"
    /\ connectionState' = "exhausted"
    /\ Goto(w, "clear")
    /\ UNCHANGED <<trader, connected, attempts, failures, reconnectThread,
                   stopEvent, unbroken, announced, mode, held, checked, sdk, history>>

BackOff(w) ==
    /\ pc[w] = "back_off"
    /\ connectionState' = "trying"
    /\ Goto(w, "waiting")
    /\ UNCHANGED <<trader, connected, attempts, failures, reconnectThread,
                   stopEvent, unbroken, announced, mode, held, checked, sdk, history>>

\* _stop_event.wait(delay) ends with the delay or with the stop.
WaitEnds(w) ==
    /\ pc[w] = "waiting"
    /\ Goto(w, IF stopEvent THEN "clear" ELSE "attempt")
    /\ UNCHANGED <<manager, mode, held, checked, sdk, history>>

Attempt(w) ==
    /\ pc[w] = "attempt"
    /\ connectionState' = "trying"
    /\ attempts' = IF attempts < AttemptCap THEN attempts + 1 ELSE attempts
    /\ Goto(w, "reset")
    /\ UNCHANGED <<trader, connected, failures, reconnectThread, stopEvent,
                   unbroken, announced, mode, held, checked, sdk, history>>

TraderTaken == None

\* _reset_trader: the old trader is taken under the lock.  It is asked to stop,
\* if there is one, once the lock was released (StopTrader).
Reset(w) ==
    /\ pc[w] = "reset"
    /\ held' = [held EXCEPT ![w] = trader]
    /\ trader' = TraderTaken
    /\ connected' = FALSE
    /\ overtaken' = overtaken \cup Waiting(trader)
    /\ Goto(w, IF trader = None THEN "create" ELSE "stop_old")
    /\ UNCHANGED <<connectionState, attempts, failures, reconnectThread, stopEvent,
                   unbroken, announced, mode, checked, sdk, disowned>>

\* _init_trader outside the lock: the native object is constructed, gets its
\* callback and is started, or one of these fails.
CreateTrader(a) ==
    /\ pc[a] = "create"
    /\ \E t \in Traders :
         /\ Unreachable(t)
         /\ native' = [native EXCEPT ![t] = "started"]
         /\ session' = [session EXCEPT ![t] = "none"]
         /\ nativeLock' = [nativeLock EXCEPT ![t] = None]
         /\ disowned' = disowned \ {t}
         /\ held' = [held EXCEPT ![a] = t]
    /\ Goto(a, "publish")
    /\ UNCHANGED <<manager, mode, checked, qmt, overtaken>>

CreateFails(a) ==
    /\ pc[a] = "create"
    /\ qmt = "down"
    /\ Goto(a, "connect")
    /\ UNCHANGED <<manager, mode, held, checked, sdk, history>>

PublishAlways == TRUE  \* mutant: a stop during the construction is overlooked
MayPublish == ~stopEvent

\* _init_trader under the lock: published, unless the manager was stopped.
Publish(a) ==
    /\ pc[a] = "publish"
    /\ IF MayPublish
       THEN /\ trader' = held[a]
            /\ held' = [held EXCEPT ![a] = None]
            /\ Goto(a, "connect")
       ELSE Goto(a, "stop_new") /\ UNCHANGED <<trader, held>>
    /\ UNCHANGED <<connected, connectionState, attempts, failures, reconnectThread,
                   stopEvent, unbroken, announced, mode, checked, sdk, history>>

-----------------------------------------------------------------------------
\* connect(): trader and disconnect generation are read under the lock.
ConnectBegins(a) ==
    /\ pc[a] = "connect"
    /\ IF trader = None \/ stopEvent
       THEN Goto(a, AfterConnect(a, "loop")) /\ UNCHANGED <<held, unbroken>>
       ELSE /\ held' = [held EXCEPT ![a] = trader]
            /\ unbroken' = unbroken \cup {a}
            /\ Goto(a, "connecting")
    /\ UNCHANGED <<trader, connected, connectionState, attempts, failures,
                   reconnectThread, stopEvent, announced, mode, checked, sdk, history>>

\* trader.connect() under the native lock.
NativeConnect(a) ==
    /\ pc[a] = "connecting"
    /\ nativeLock[held[a]] = None
    /\ \/ /\ qmt = "up"
          /\ session' = [session EXCEPT ![held[a]] = "open"]
          /\ Goto(a, "recheck")
       \/ /\ qmt = "down"
          /\ Goto(a, "refused")
          /\ UNCHANGED session
    /\ UNCHANGED <<manager, mode, held, checked, qmt, native, nativeLock, history>>

\* A failed connect() or subscribe() leaves its own trader unconnected.
ConnectRefused(a) ==
    /\ pc[a] = "refused"
    /\ connected' = (connected /\ trader # held[a])
    /\ held' = [held EXCEPT ![a] = None]
    /\ unbroken' = unbroken \ {a}
    /\ Goto(a, AfterConnect(a, "loop"))
    /\ UNCHANGED <<trader, connectionState, attempts, failures, reconnectThread,
                   stopEvent, announced, mode, checked, sdk, history>>

\* Between the two native calls: is the trader still the current one?
Recheck(a) ==
    /\ pc[a] = "recheck"
    /\ IF trader # held[a] \/ stopEvent
       THEN /\ held' = [held EXCEPT ![a] = None]
            /\ unbroken' = unbroken \ {a}
            /\ Goto(a, AfterConnect(a, "loop"))
       ELSE Goto(a, "subscribing") /\ UNCHANGED <<held, unbroken>>
    /\ UNCHANGED <<trader, connected, connectionState, attempts, failures,
                   reconnectThread, stopEvent, announced, mode, checked, sdk, history>>

\* _subscribe_trader under the native lock.
NativeSubscribe(a) ==
    /\ pc[a] = "subscribing"
    /\ nativeLock[held[a]] = None
    /\ Goto(a, IF session[held[a]] = "open" THEN "commit" ELSE "refused")
    /\ UNCHANGED <<manager, mode, held, checked, sdk, history>>

CommitsBlindly(a) == trader = held[a] /\ ~stopEvent  \* mutant: no look at the generation
MayCommit(a) == trader = held[a] /\ ~stopEvent /\ a \in unbroken

\* The end of connect(): nothing may have changed since it began.
Commit(a) ==
    /\ pc[a] = "commit"
    /\ IF MayCommit(a)
       THEN /\ connected' = TRUE
            /\ connectionState' = "connected"
            /\ failures' = 0
            /\ Goto(a, AfterConnect(a, "succeeded"))
       ELSE /\ Goto(a, AfterConnect(a, "loop"))
            /\ UNCHANGED <<connected, connectionState, failures>>
    /\ held' = [held EXCEPT ![a] = None]
    /\ unbroken' = unbroken \ {a}
    /\ UNCHANGED <<trader, attempts, reconnectThread, stopEvent, announced, mode,
                   checked, sdk, history>>

\* _reconnect_loop after a successful connect(): the callback may have won.
Succeed(w) ==
    /\ pc[w] = "succeeded"
    /\ IF ~connected \/ stopEvent
       THEN Goto(w, "clear") /\ UNCHANGED <<attempts, failures, announced>>
       ELSE /\ attempts' = 0
            /\ failures' = 0
            /\ announced' = "reconnect"
            /\ Goto(w, "start_heartbeat")
    /\ UNCHANGED <<trader, connected, connectionState, reconnectThread, stopEvent,
                   unbroken, mode, held, checked, sdk, history>>

HbMayStart == trader # None /\ pc[Hb] = "off" /\ ~stopEvent

StartHeartbeat(w) ==
    /\ pc[w] = "start_heartbeat"
    /\ pc' = [pc EXCEPT ![w] = "clear", ![Hb] = IF HbMayStart THEN "wait" ELSE @]
    /\ UNCHANGED <<manager, mode, held, checked, sdk, history>>

\* _connection_worker, finally: ownership is given up under the state lock ...
ClearOwner(w) ==
    /\ pc[w] = "clear"
    /\ reconnectThread' = None
    /\ Goto(w, "retry")
    /\ UNCHANGED <<trader, connected, connectionState, attempts, failures, stopEvent,
                   unbroken, announced, mode, held, checked, sdk, history>>

NeverRetries == FALSE  \* mutant: the worker exits without a last look
RetryNeeded == ~connected /\ ~stopEvent /\ connectionState # "exhausted"

\* ... before the connection is looked at once more.
RetryTest(w) ==
    /\ pc[w] = "retry"
    /\ Goto(w, IF RetryNeeded THEN "sched_check" ELSE "idle")
    /\ UNCHANGED <<manager, mode, held, checked, sdk, history>>

-----------------------------------------------------------------------------
\* _heartbeat_loop: the wait ends; trader and generation are read when connected.
HbBegins ==
    /\ pc[Hb] = "wait"
    /\ IF stopEvent \/ ~connected
       THEN Goto(Hb, IF stopEvent THEN "off" ELSE "wait") /\ UNCHANGED <<held, unbroken>>
       ELSE /\ held' = [held EXCEPT ![Hb] = trader]
            /\ unbroken' = unbroken \cup {Hb}
            /\ Goto(Hb, "probe")
    /\ UNCHANGED <<trader, connected, connectionState, attempts, failures,
                   reconnectThread, stopEvent, announced, mode, checked, sdk, history>>

\* _do_heartbeat reads the trader again and leaves the query to a check thread.
HbProbes ==
    /\ pc[Hb] = "probe"
    /\ IF trader = None \/ ~connected
       THEN Goto(Hb, "failed") /\ UNCHANGED checked
       ELSE checked' = trader /\ Goto(Hb, "ask")
    /\ UNCHANGED <<manager, mode, held, sdk, history>>

AsksForever == FALSE  \* mutant: the check thread is joined without a timeout
AskTimesOut == nativeLock[checked] # None

\* The check thread gets the native lock, or the wait for its answer times out
\* while another call is inside the SDK.
HbAsks ==
    /\ pc[Hb] = "ask"
    /\ \/ /\ nativeLock[checked] = None
          /\ nativeLock' = [nativeLock EXCEPT ![checked] = Hb]
          /\ Goto(Hb, "query")
          /\ UNCHANGED checked
       \/ /\ AskTimesOut
          /\ checked' = None
          /\ Goto(Hb, "failed")
          /\ UNCHANGED nativeLock
    /\ UNCHANGED <<manager, mode, held, qmt, native, session, history>>

\* The query answers, fails, or hangs past the timeout with the lock in hand.
HbAnswered ==
    /\ pc[Hb] = "query"
    /\ \/ /\ session[checked] = "open"
          /\ Goto(Hb, "alive")
          /\ nativeLock' = [nativeLock EXCEPT ![checked] = None]
       \/ /\ session[checked] # "open"
          /\ Goto(Hb, "failed")
          /\ \/ nativeLock' = [nativeLock EXCEPT ![checked] = None]
             \/ UNCHANGED nativeLock
    /\ checked' = None
    /\ UNCHANGED <<manager, mode, held, qmt, native, session, history>>

\* A check thread that was given up returns from the SDK.
HungCheckReturns(t) ==
    /\ nativeLock[t] = Hb
    /\ t # checked
    /\ nativeLock' = [nativeLock EXCEPT ![t] = None]
    /\ UNCHANGED <<manager, locals, qmt, native, session, history>>

\* _heartbeat_loop: the answer counts if it is about the present connection.
HbJudges ==
    /\ pc[Hb] \in {"alive", "failed"}
    /\ LET stale == trader # held[Hb] \/ ~connected \/ Hb \notin unbroken
           ok    == pc[Hb] = "alive"
           lost  == ~stale /\ ~ok /\ failures + 1 >= MaxFailures
       IN  /\ failures' = CASE stale -> failures
                            [] ~stale /\ ok -> 0
                            [] OTHER -> failures + 1
           /\ Goto(Hb, IF lost THEN "mark" ELSE "wait")
           /\ held' = [held EXCEPT ![Hb] = IF lost THEN @ ELSE None]
    /\ unbroken' = unbroken \ {Hb}
    /\ UNCHANGED <<trader, connected, connectionState, attempts, reconnectThread,
                   stopEvent, announced, mode, checked, sdk, history>>

-----------------------------------------------------------------------------
\* call_trader_method: refused at once, or left waiting for the native lock.
CallBegins(c) ==
    /\ pc[c] = "idle"
    /\ trader # None /\ connected
    /\ held' = [held EXCEPT ![c] = trader]
    /\ Goto(c, "queued")
    /\ UNCHANGED <<manager, mode, checked, sdk, history>>

EntersBlindly(c) == TRUE  \* mutant: no second look after the wait for the lock
MayEnter(c) == trader = held[c] /\ connected /\ ~stopEvent

\* The call gets the native lock, and looks again under the trader lock ...
CallLooks(c) ==
    /\ pc[c] = "queued"
    /\ nativeLock[held[c]] = None
    /\ IF MayEnter(c)
       THEN /\ nativeLock' = [nativeLock EXCEPT ![held[c]] = c]
            /\ Goto(c, "cleared")
            /\ UNCHANGED <<held, overtaken>>
       ELSE /\ held' = [held EXCEPT ![c] = None]
            /\ overtaken' = overtaken \ {c}
            /\ Goto(c, "idle")
            /\ UNCHANGED nativeLock
    /\ UNCHANGED <<manager, mode, checked, qmt, native, session, disowned>>

\* ... which is released again before the SDK is entered.
CallEnters(c) ==
    /\ pc[c] = "cleared"
    /\ Goto(c, "in_sdk")
    /\ UNCHANGED <<manager, mode, held, checked, sdk, history>>

CallReturns(c) ==
    /\ pc[c] = "in_sdk"
    /\ nativeLock' = [nativeLock EXCEPT ![held[c]] = None]
    /\ held' = [held EXCEPT ![c] = None]
    /\ overtaken' = overtaken \ {c}
    /\ Goto(c, "idle")
    /\ UNCHANGED <<manager, mode, checked, qmt, native, session, disowned>>

-----------------------------------------------------------------------------
Start ==
    /\ "serve" \in EntryPoints
    /\ pc[Main] = "idle" /\ mode = "new" /\ ~stopEvent
    /\ mode' = "serve"
    /\ Goto(Main, "sched_check")
    /\ UNCHANGED <<manager, held, checked, sdk, history>>

Probe ==
    /\ "probe" \in EntryPoints
    /\ pc[Main] = "idle" /\ mode = "new" /\ ~stopEvent
    /\ mode' = "probe"
    /\ Goto(Main, "create")
    /\ UNCHANGED <<manager, held, checked, sdk, history>>

\* stop(): the event is set; the joins that follow may time out ...
StopBegins ==
    /\ pc[Main] = "idle"
    /\ stopEvent' = TRUE
    /\ overtaken' = overtaken \cup {c \in Callers : pc[c] = "queued"}
    /\ Goto(Main, "joining")
    /\ UNCHANGED <<trader, connected, connectionState, attempts, failures, reconnectThread,
                   unbroken, announced, mode, held, checked, sdk, disowned>>

\* ... and then the trader is taken under the lock.  It is asked to stop after
\* the lock was released (StopTrader): a worker that outlived the join may make
\* another one in between, which it will not publish.
StopTakes ==
    /\ pc[Main] = "joining"
    /\ held' = [held EXCEPT ![Main] = trader]
    /\ trader' = None
    /\ connected' = FALSE
    /\ connectionState' = "stopped"
    /\ Goto(Main, IF trader = None THEN "stopped" ELSE "stopping")
    /\ UNCHANGED <<attempts, failures, reconnectThread, stopEvent, unbroken,
                   announced, mode, checked, sdk, history>>

-----------------------------------------------------------------------------
\* QMT goes away: open sessions are lost, and the SDK tells of it or does not.
\* A trader's callbacks run one after the other.
QmtDown ==
    /\ qmt = "up"
    /\ qmt' = "down"
    /\ \E told \in SUBSET {t \in Traders : session[t] = "open" /\ pc[t] = "idle"} :
         /\ pc' = [a \in Threads |-> IF a \in told THEN "mark" ELSE pc[a]]
         /\ held' = [a \in Threads |-> IF a \in told THEN a ELSE held[a]]
    /\ session' = [t \in Traders |-> IF session[t] = "open" THEN "lost" ELSE session[t]]
    /\ UNCHANGED <<manager, mode, checked, native, nativeLock, history>>

QmtUp ==
    /\ qmt = "down"
    /\ qmt' = "up"
    /\ UNCHANGED <<manager, locals, native, session, nativeLock, history>>

-----------------------------------------------------------------------------
ConnectStep(a) ==
    \/ CreateTrader(a) \/ CreateFails(a) \/ Publish(a) \/ ConnectBegins(a)
    \/ NativeConnect(a) \/ ConnectRefused(a) \/ Recheck(a)
    \/ NativeSubscribe(a) \/ Commit(a)

ScheduleStep(a) == SchedCheck(a) \/ Sched(a)

WorkerStep(w) ==
    \/ LoopTest(w) \/ GiveUp(w) \/ BackOff(w) \/ WaitEnds(w) \/ Attempt(w)
    \/ Reset(w) \/ StopTrader(w) \/ ConnectStep(w) \/ Succeed(w) \/ StartHeartbeat(w)
    \/ ClearOwner(w) \/ RetryTest(w) \/ ScheduleStep(w)

HeartbeatStep ==
    \/ HbBegins \/ HbProbes \/ HbAsks \/ HbAnswered \/ HbJudges
    \/ Mark(Hb) \/ ScheduleStep(Hb)

CallbackStep(t) == Mark(t) \/ ScheduleStep(t)

CallerStep(c) == CallBegins(c) \/ CallLooks(c) \/ CallEnters(c) \/ CallReturns(c)

MainStep ==
    \/ Start \/ Probe \/ StopBegins \/ StopTakes \/ StopTrader(Main)
    \/ ConnectStep(Main) \/ ScheduleStep(Main)

Next ==
    \/ \E w \in Workers : WorkerStep(w)
    \/ HeartbeatStep
    \/ \E t \in Traders : CallbackStep(t) \/ HungCheckReturns(t)
    \/ \E c \in Callers : CallerStep(c)
    \/ MainStep
    \/ QmtDown
    \/ QmtUp

Spec == Init /\ [][Next]_vars

\* Every thread of the manager is scheduled, and the native connect and
\* subscribe return.  Nothing is assumed of business calls, of a hung check
\* thread, of QMT, or of when start() and stop() are called.  A step of a thread
\* moves its pc or changes nothing, so that pc can stand for vars here.
Fairness ==
    /\ \A w \in Workers : WF_pc(WorkerStep(w))
    /\ WF_pc(HeartbeatStep)
    /\ \A t \in Traders : WF_pc(CallbackStep(t))
    /\ WF_pc(StopTakes \/ StopTrader(Main) \/ ConnectStep(Main) \/ ScheduleStep(Main))

FairSpec == Spec /\ Fairness

-----------------------------------------------------------------------------
\* Types of all variables.
ConnectSteps == {"create", "publish", "stop_new", "connect", "connecting", "refused", "recheck",
                 "subscribing", "commit"}
LoopSteps == ConnectSteps \cup {"loop", "give_up", "back_off", "waiting", "attempt",
                                "reset", "stop_old", "succeeded", "start_heartbeat", "clear"}
ScheduleSteps == {"sched_check", "sched"}
HbSteps == ScheduleSteps \cup {"off", "wait", "probe", "ask", "query", "alive",
                               "failed", "mark"}
MainSteps == ScheduleSteps \cup ConnectSteps \cup {"idle", "joining", "stopping", "stopped"}
WorkerSteps == ScheduleSteps \cup LoopSteps \cup {"idle", "retry"}
CallbackSteps == ScheduleSteps \cup {"idle", "mark"}
CallSteps == {"idle", "queued", "cleared", "in_sdk"}

PcOK ==
    /\ pc \in [Threads -> WorkerSteps \cup HbSteps \cup MainSteps \cup CallSteps]
    /\ \A w \in Workers : pc[w] \in WorkerSteps
    /\ \A c \in Callers : pc[c] \in CallSteps
    /\ \A t \in Traders : pc[t] \in CallbackSteps
    /\ pc[Hb] \in HbSteps
    /\ pc[Main] \in MainSteps

TypeOK ==
    /\ trader \in Traders \cup {None}
    /\ connected \in BOOLEAN
    /\ connectionState \in {"disconnected", "trying", "connected", "exhausted", "stopped"}
    /\ attempts \in 0..AttemptCap
    /\ failures \in Nat
    /\ reconnectThread \in Workers \cup {None}
    /\ stopEvent \in BOOLEAN
    /\ unbroken \subseteq Threads
    /\ announced \in {"none", "disconnect", "reconnect"}
    /\ mode \in {"new", "serve", "probe"}
    /\ PcOK
    /\ held \in [Threads -> Traders \cup {None}]
    /\ checked \in Traders \cup {None}
    /\ qmt \in {"up", "down"}
    /\ native \in [Traders -> {"none", "started", "stopping"}]
    /\ session \in [Traders -> {"none", "open", "lost"}]
    /\ nativeLock \in [Traders -> Threads \cup {None}]
    /\ disowned \subseteq Traders
    /\ overtaken \subseteq Callers

\* The reconnect loop is run by the thread _reconnect_thread names and by no
\* other (schedule_reconnect "if not already running").
OneConnector ==
    \A w \in Workers :
        (reconnectThread = w) <=> pc[w] \in LoopSteps

\* A serving manager that is neither connected, stopped nor exhausted has
\* somebody on it: a running loop, or a thread about to schedule one.  A
\* disconnect that arrives while a worker exits is not lost.
NoLostReconnect ==
    (mode = "serve" /\ ~stopEvent /\ ~connected /\ connectionState # "exhausted")
        => \/ reconnectThread # None
           \/ \E a \in Threads : pc[a] \in {"retry", "sched_check", "sched"}

\* Ready for business calls only with the published trader, connected natively
\* and not asked to stop.
ConnectedIsCurrent ==
    connected => /\ trader # None
                 /\ native[trader] = "started"
                 /\ session[trader] # "none"

\* Once a trader's loss was accepted, no connect() that was under way can
\* report that trader as connected again.
DisconnectSticks == connected => trader \notin disowned

\* Two live trader objects share the session id at one moment only: stop() has
\* taken the one and is about to ask it to stop, while a worker that outlived the
\* join has made the other.  Neither of them is published, or will be.
OneLiveTrader ==
    \A t, u \in Traders : native[t] = "started" /\ native[u] = "started" /\ t # u
        => pc[Main] = "stopping" /\ held[Main] \in {t, u} /\ trader = None

\* What stop() has taken away stays away: a worker that outlives the joins brings
\* neither a trader nor the connection back.
StopIsFinal == pc[Main] \in {"stopping", "stopped"} => trader = None /\ ~connected

\* Subscribers were told of the present connection: the last connection event
\* on the bus is the worker's "reconnect", or the worker is about to put it there.
\* The converse does not hold: a loss found by the heartbeat is not announced.
EventsTellConnection ==
    (mode = "serve" /\ connected /\ ~stopEvent /\ announced # "reconnect")
        => \E w \in Workers : pc[w] = "succeeded"

\* A call whose trader was lost or replaced while it waited for the native lock
\* never reaches the SDK, nor does one that stop() overtook.  A loss that is
\* accepted after the call has looked again comes too late to hold it back.
NoCallOnLostTrader ==
    \A c \in Callers : pc[c] \in {"cleared", "in_sdk"} => c \notin overtaken

\* While QMT stays away for good or not, a session lost without a callback is
\* noticed by the heartbeat even if every check hangs inside the SDK.
SilentLossNoticed ==
    (mode = "serve" /\ connected /\ session[trader] = "lost")
        ~> (~connected \/ stopEvent \/ session[trader] = "open")

\* With unlimited attempts a serving manager comes back once QMT stays up,
\* whatever check threads still hang in old traders.
Recovery ==
    (<>[](qmt = "up") /\ <>(mode = "serve"))
        => []<>(stopEvent \/ (connected /\ session[trader] = "open"))

\* stop() ends every thread of the manager and every trader is asked to stop.
ShutdownCompletes ==
    stopEvent ~> [](/\ pc[Main] = "stopped" /\ pc[Hb] = "off"
                    /\ \A w \in Workers : pc[w] = "idle"
                    /\ \A t \in Traders : native[t] # "started")

\* "reports the actual outcome of a single attempt and never schedules retries"
\* (connection.py:251-252, probe).
ProbeNeverRetries == mode = "probe" => reconnectThread = None

=============================================================================

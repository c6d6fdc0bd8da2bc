------------------------ MODULE TraderConnectionProofs ------------------------
(***************************************************************************)
(* Theorems about TraderConnection, for any sets of workers, callers and   *)
(* traders and any bounds.                                                 *)
(***************************************************************************)
EXTENDS TraderConnection, TLAPS

\* What a thread holds at the steps that use it.
HeldOK ==
    /\ \A a \in Workers \cup {Main} :
         pc[a] \in (ConnectSteps \ {"create", "connect"}) \cup {"stop_old", "stopping"}
           => held[a] \in Traders
    /\ \A c \in Callers : pc[c] \in {"queued", "cleared", "in_sdk"} => held[c] \in Traders
    /\ \A t \in Traders : pc[t] = "mark" => held[t] = t
    /\ pc[Hb] \in {"probe", "ask", "query", "alive", "failed", "mark"} => held[Hb] \in Traders
    /\ pc[Hb] \in {"ask", "query"} => checked \in Traders
    /\ connected => trader \in Traders

TypeInv == TypeOK /\ HeldOK

USE DEF ConnectSteps, LoopSteps, ScheduleSteps, HbSteps, MainSteps, WorkerSteps,
        CallbackSteps, CallSteps, Goto, Resume, AfterConnect, Threads, history

LEMMA TypeInit == ASSUME Init PROVE TypeInv
<1> USE ThreadAssumption, BoundAssumption DEF Init
<1>1. PcOK
  BY DEF PcOK
<1>2. /\ held \in [Threads -> Traders \cup {None}]
      /\ native \in [Traders -> {"none", "started", "stopping"}]
      /\ session \in [Traders -> {"none", "open", "lost"}]
      /\ nativeLock \in [Traders -> Threads \cup {None}]
  OBVIOUS
<1>3. attempts \in 0..AttemptCap
  OBVIOUS
<1>4. failures \in Nat
  OBVIOUS
<1>5. TypeOK
  BY Zenon, <1>1, <1>2, <1>3, <1>4 DEF TypeOK
<1>6. HeldOK
  BY DEF HeldOK
<1> QED BY <1>5, <1>6 DEF TypeInv

LEMMA TypeSchedule ==
    ASSUME TypeInv, NEW a \in Workers \cup Traders \cup {Hb, Main}, ScheduleStep(a)
    PROVE  TypeInv'
<1>1. CASE SchedCheck(a)
  BY <1>1, ThreadAssumption DEF PcOK, SchedCheck, TypeInv, TypeOK, HeldOK, manager, sdk
<1>2. CASE Sched(a)
  <2>1. PcOK'
    BY <1>2, ThreadAssumption DEF PcOK, Sched, WorkerWanted, TypeInv, TypeOK, HeldOK, sdk
  <2>2. TypeOK'
    BY <1>2, ThreadAssumption, <2>1 DEF Sched, WorkerWanted, TypeInv, TypeOK, HeldOK, sdk
  <2>3. HeldOK'
    BY <1>2, ThreadAssumption, <2>2 DEF PcOK, Sched, WorkerWanted, TypeInv, TypeOK, HeldOK, sdk
  <2> QED BY <2>2, <2>3 DEF TypeInv
<1> QED BY <1>1, <1>2 DEF ScheduleStep

LEMMA TypeMark ==
    ASSUME TypeInv, NEW a \in Traders \cup {Hb}, Mark(a)
    PROVE  TypeInv'
<1> USE ThreadAssumption DEF Mark, sdk, TypeInv, TypeOK, HeldOK
<1>1. CASE StaleNotice(a)
  <2>1. PcOK'
    BY <1>1 DEF PcOK
  <2>2. TypeOK'
    BY <1>1, <2>1 DEF Announcement
  <2>3. HeldOK'
    BY <1>1 DEF PcOK, StaleNotice
  <2> QED BY <2>2, <2>3
<1>2. CASE ~StaleNotice(a)
  <2>1. PcOK'
    BY <1>2 DEF PcOK
  <2>2. /\ held' \in [Threads -> Traders \cup {None}]
        /\ disowned' \subseteq Traders
        /\ overtaken' \subseteq Callers
        /\ announced' \in {"none", "disconnect", "reconnect"}
    BY <1>2 DEF Announcement, PcOK, Waiting
  <2>4. TypeOK'
    BY <1>2, <2>1, <2>2
  <2>3. HeldOK'
    BY <1>2 DEF PcOK
  <2> QED BY <2>3, <2>4
<1> QED BY <1>1, <1>2

LEMMA TypeConnect ==
    ASSUME TypeInv, NEW a \in Workers \cup {Main}, ConnectStep(a)
    PROVE  TypeInv'
<1> USE ThreadAssumption, BoundAssumption
    DEF PcOK, TypeInv, TypeOK, HeldOK, manager, sdk
<1>1. CASE CreateTrader(a)
  <2>1. PcOK'
    BY <1>1 DEF CreateTrader, Unreachable
  <2>2. TypeOK'
    BY <1>1, <2>1 DEF CreateTrader, Unreachable
  <2>3. HeldOK'
    BY <1>1, <2>2 DEF CreateTrader, Unreachable
  <2> QED BY <2>2, <2>3 DEF TypeInv
<1>2. CASE CreateFails(a)
  BY <1>2 DEF CreateFails
<1>3. CASE Publish(a)
  <2>1. CASE MayPublish
    BY <1>3, <2>1 DEF Publish
  <2>2. CASE ~MayPublish
    BY <1>3, <2>2 DEF Publish
  <2> QED BY <2>1, <2>2
<1>4. CASE ConnectBegins(a)
  BY <1>4 DEF ConnectBegins
<1>5. CASE NativeConnect(a)
  BY <1>5 DEF NativeConnect
<1>6. CASE ConnectRefused(a)
  BY <1>6 DEF ConnectRefused
<1>7. CASE Recheck(a)
  BY <1>7 DEF Recheck
<1>8. CASE NativeSubscribe(a)
  BY <1>8 DEF NativeSubscribe
<1>9. CASE Commit(a)
  <2>1. CASE MayCommit(a)
    BY <1>9, <2>1 DEF Commit, MayCommit
  <2>2. CASE ~MayCommit(a)
    BY <1>9, <2>2 DEF Commit
  <2> QED BY <2>1, <2>2
<1> QED BY <1>1, <1>2, <1>3, <1>4, <1>5, <1>6, <1>7, <1>8, <1>9 DEF ConnectStep

LEMMA TypeStop ==
    ASSUME TypeInv, NEW a \in Workers \cup {Main}, StopTrader(a)
    PROVE  TypeInv'
<1> USE ThreadAssumption DEF PcOK, TypeInv, TypeOK, HeldOK, manager
<1>1. PcOK'
  BY DEF StopTrader, AfterStop
<1>2. /\ held' \in [Threads -> Traders \cup {None}]
      /\ native' \in [Traders -> {"none", "started", "stopping"}]
  BY DEF StopTrader, AskToStop
<1>3. TypeOK'
  <2> HIDE DEF PcOK
  <2> QED BY <1>1, <1>2 DEF StopTrader
<1>4. HeldOK'
  BY <1>3 DEF StopTrader, AfterStop
<1> QED BY <1>3, <1>4

LEMMA TypeLoop ==
    ASSUME TypeInv, NEW w \in Workers,
           \/ LoopTest(w) \/ GiveUp(w) \/ BackOff(w) \/ WaitEnds(w) \/ Attempt(w) \/ Reset(w)
           \/ Succeed(w) \/ StartHeartbeat(w) \/ ClearOwner(w) \/ RetryTest(w)
    PROVE  TypeInv'
<1> USE ThreadAssumption, BoundAssumption
    DEF PcOK, TypeInv, TypeOK, HeldOK, manager, sdk
<1>1. CASE LoopTest(w)
  BY <1>1 DEF LoopTest
<1>2. CASE GiveUp(w)
  BY <1>2 DEF GiveUp
<1>3. CASE BackOff(w)
  BY <1>3 DEF BackOff
<1>4. CASE WaitEnds(w)
  BY <1>4 DEF WaitEnds
<1>5. CASE Attempt(w)
  BY <1>5 DEF Attempt
<1>6. CASE Reset(w)
  <2>1. PcOK'
    BY <1>6 DEF Reset, TraderTaken
  <2>2. /\ held' \in [Threads -> Traders \cup {None}]
        /\ overtaken' \subseteq Callers
    BY <1>6 DEF Reset, Waiting
  <2>3. TypeOK'
    <3> HIDE DEF PcOK
    <3> QED BY <1>6, <2>1, <2>2 DEF Reset, TraderTaken
  <2>4. HeldOK'
    BY <1>6, <2>3 DEF Reset, TraderTaken
  <2> QED BY <2>3, <2>4 DEF TypeInv
<1>7. CASE Succeed(w)
  BY <1>7 DEF Succeed
<1>8. CASE StartHeartbeat(w)
  BY <1>8 DEF StartHeartbeat, HbMayStart
<1>9. CASE ClearOwner(w)
  BY <1>9 DEF ClearOwner
<1>10. CASE RetryTest(w)
  BY <1>10 DEF RetryTest, RetryNeeded
<1> QED BY <1>1, <1>2, <1>3, <1>4, <1>5, <1>6, <1>7, <1>8, <1>9, <1>10

LEMMA TypeHeartbeat ==
    ASSUME TypeInv,
           \/ HbBegins \/ HbProbes \/ HbAsks \/ HbAnswered \/ HbJudges
           \/ \E t \in Traders : HungCheckReturns(t)
    PROVE  TypeInv'
<1> USE ThreadAssumption, BoundAssumption
    DEF PcOK, TypeInv, TypeOK, HeldOK, manager, sdk, locals
<1>1. CASE HbBegins
  BY <1>1 DEF HbBegins
<1>2. CASE HbProbes
  BY <1>2 DEF HbProbes
<1>3. CASE HbAsks
  BY <1>3 DEF HbAsks, AskTimesOut
<1>4. CASE HbAnswered
  BY <1>4 DEF HbAnswered
<1>5. CASE HbJudges
  <2>1. PcOK'
    BY <1>5 DEF HbJudges
  <2>2. TypeOK'
    BY <1>5, <2>1 DEF HbJudges
  <2>3. HeldOK'
    BY <1>5, <2>2 DEF HbJudges
  <2> QED BY <2>2, <2>3 DEF TypeInv
<1>6. CASE \E t \in Traders : HungCheckReturns(t)
  BY <1>6 DEF HungCheckReturns
<1> QED BY <1>1, <1>2, <1>3, <1>4, <1>5, <1>6

LEMMA TypeCall ==
    ASSUME TypeInv, NEW c \in Callers, CallerStep(c)
    PROVE  TypeInv'
<1> USE ThreadAssumption, BoundAssumption
    DEF PcOK, TypeInv, TypeOK, HeldOK, manager
<1>1. CASE CallBegins(c)
  BY <1>1 DEF CallBegins, sdk
<1>2. CASE CallLooks(c)
  BY <1>2 DEF CallLooks, MayEnter
<1>3. CASE CallEnters(c)
  BY <1>3 DEF CallEnters, sdk
<1>4. CASE CallReturns(c)
  BY <1>4 DEF CallReturns
<1> QED BY <1>1, <1>2, <1>3, <1>4 DEF CallerStep

LEMMA TypeMain ==
    ASSUME TypeInv, Start \/ Probe \/ StopBegins \/ StopTakes \/ QmtDown \/ QmtUp
    PROVE  TypeInv'
<1> USE ThreadAssumption, BoundAssumption
    DEF PcOK, TypeInv, TypeOK, HeldOK, manager
<1>1. CASE Start
  BY <1>1 DEF Start, sdk
<1>2. CASE Probe
  BY <1>2 DEF Probe, sdk
<1>3. CASE StopBegins
  BY <1>3 DEF StopBegins, sdk
<1>4. CASE StopTakes
  <2>1. PcOK'
    BY <1>4 DEF StopTakes, sdk
  <2>2. TypeOK'
    BY <1>4, <2>1 DEF StopTakes, sdk
  <2>3. HeldOK'
    BY <1>4, <2>2 DEF StopTakes, sdk
  <2> QED BY <2>2, <2>3 DEF TypeInv
<1>5. CASE QmtDown
  BY <1>5 DEF QmtDown
<1>6. CASE QmtUp
  BY <1>6 DEF QmtUp, locals
<1> QED BY <1>1, <1>2, <1>3, <1>4, <1>5, <1>6

LEMMA TypeStep == TypeInv /\ [Next]_vars => TypeInv'
<1> SUFFICES ASSUME TypeInv, [Next]_vars PROVE TypeInv'
  OBVIOUS
<1>1. ASSUME NEW w \in Workers, WorkerStep(w) PROVE TypeInv'
  BY <1>1, TypeLoop, TypeStop, TypeConnect, TypeSchedule DEF WorkerStep
<1>2. CASE HeartbeatStep
  BY <1>2, TypeHeartbeat, TypeMark, TypeSchedule DEF HeartbeatStep
<1>3. ASSUME NEW t \in Traders, CallbackStep(t) \/ HungCheckReturns(t) PROVE TypeInv'
  BY <1>3, TypeHeartbeat, TypeMark, TypeSchedule DEF CallbackStep
<1>4. ASSUME NEW c \in Callers, CallerStep(c) PROVE TypeInv'
  BY <1>4, TypeCall
<1>5. CASE MainStep \/ QmtDown \/ QmtUp
  BY <1>5, TypeMain, TypeStop, TypeConnect, TypeSchedule DEF MainStep
<1>6. CASE UNCHANGED vars
  BY <1>6 DEF PcOK, vars, manager, locals, sdk, TypeInv, TypeOK, HeldOK
<1> QED BY <1>1, <1>2, <1>3, <1>4, <1>5, <1>6 DEF Next

\* Every variable keeps its type, and every thread has a trader at the steps
\* that use one; so has the manager while it is connected.
THEOREM TypeCorrect == Spec => [](TypeOK /\ HeldOK)
BY TypeInit, TypeStep, PTL DEF Spec, TypeInv

-----------------------------------------------------------------------------
\* Where Main is tells what it called.
MainPhase ==
    /\ stopEvent <=> pc[Main] \in {"joining", "stopping", "stopped"}
    /\ \A a \in Workers \cup {Main} : pc[a] = "stop_new" => stopEvent
    /\ pc[Main] \in ConnectSteps => mode = "probe"
    /\ pc[Main] \in ScheduleSteps => mode = "serve"

\* OneConnector ties the loop to _reconnect_thread, so that whoever takes the
\* connection down inside the loop is the one NoLostReconnect asks for.
SchedInv == OneConnector /\ NoLostReconnect /\ StopIsFinal /\ MainPhase

LEMMA SchedInit == ASSUME Init PROVE SchedInv
BY ThreadAssumption
   DEF Init, SchedInv, OneConnector, NoLostReconnect, StopIsFinal, MainPhase

LEMMA SchedSchedule ==
    ASSUME TypeInv, SchedInv, NEW a \in Workers \cup Traders \cup {Hb, Main}, ScheduleStep(a)
    PROVE  SchedInv'
<1> USE ThreadAssumption
    DEF TypeInv, TypeOK, PcOK, SchedInv, OneConnector, NoLostReconnect, StopIsFinal,
        MainPhase, manager, sdk
<1>1. CASE SchedCheck(a)
  BY <1>1 DEF SchedCheck
<1>2. CASE Sched(a)
  BY <1>2 DEF Sched, WorkerWanted
<1> QED BY <1>1, <1>2 DEF ScheduleStep

LEMMA SchedMark ==
    ASSUME TypeInv, SchedInv, NEW a \in Traders \cup {Hb}, Mark(a)
    PROVE  SchedInv'
BY ThreadAssumption
   DEF Mark, StaleNotice, TypeInv, TypeOK, PcOK, SchedInv, OneConnector, NoLostReconnect,
       StopIsFinal, MainPhase, sdk

LEMMA SchedConnect ==
    ASSUME TypeInv, SchedInv, NEW a \in Workers \cup {Main}, ConnectStep(a)
    PROVE  SchedInv'
<1> USE ThreadAssumption
    DEF TypeInv, TypeOK, PcOK, HeldOK, SchedInv, OneConnector, NoLostReconnect, StopIsFinal,
        MainPhase, manager, sdk
<1>1. CASE CreateTrader(a)
  BY <1>1 DEF CreateTrader
<1>2. CASE CreateFails(a)
  BY <1>2 DEF CreateFails
<1>3. CASE Publish(a)
  BY <1>3 DEF Publish, MayPublish
<1>4. CASE ConnectBegins(a)
  BY <1>4 DEF ConnectBegins
<1>5. CASE NativeConnect(a)
  BY <1>5 DEF NativeConnect
<1>6. CASE ConnectRefused(a)
  BY <1>6 DEF ConnectRefused
<1>7. CASE Recheck(a)
  BY <1>7 DEF Recheck
<1>8. CASE NativeSubscribe(a)
  BY <1>8 DEF NativeSubscribe
<1>9. CASE Commit(a)
  BY <1>9 DEF Commit, MayCommit
<1> QED BY <1>1, <1>2, <1>3, <1>4, <1>5, <1>6, <1>7, <1>8, <1>9 DEF ConnectStep

LEMMA SchedStop ==
    ASSUME TypeInv, SchedInv, NEW a \in Workers \cup {Main}, StopTrader(a)
    PROVE  SchedInv'
BY ThreadAssumption
   DEF StopTrader, AfterStop, TypeInv, TypeOK, PcOK, SchedInv, OneConnector, NoLostReconnect,
       StopIsFinal, MainPhase, manager

LEMMA SchedLoop ==
    ASSUME TypeInv, SchedInv, NEW w \in Workers,
           \/ LoopTest(w) \/ GiveUp(w) \/ BackOff(w) \/ WaitEnds(w) \/ Attempt(w) \/ Reset(w)
           \/ Succeed(w) \/ StartHeartbeat(w) \/ ClearOwner(w) \/ RetryTest(w)
    PROVE  SchedInv'
<1> USE ThreadAssumption
    DEF TypeInv, TypeOK, PcOK, SchedInv, OneConnector, NoLostReconnect, StopIsFinal,
        MainPhase, manager, sdk
<1>1. CASE LoopTest(w)
  BY <1>1 DEF LoopTest
<1>2. CASE GiveUp(w)
  BY <1>2 DEF GiveUp
<1>3. CASE BackOff(w)
  BY <1>3 DEF BackOff
<1>4. CASE WaitEnds(w)
  BY <1>4 DEF WaitEnds
<1>5. CASE Attempt(w)
  BY <1>5 DEF Attempt
<1>6. CASE Reset(w)
  BY <1>6 DEF Reset, TraderTaken
<1>7. CASE Succeed(w)
  BY <1>7 DEF Succeed
<1>8. CASE StartHeartbeat(w)
  BY <1>8 DEF StartHeartbeat
<1>9. CASE ClearOwner(w)
  BY <1>9 DEF ClearOwner
<1>10. CASE RetryTest(w)
  BY <1>10 DEF RetryTest, RetryNeeded
<1> QED BY <1>1, <1>2, <1>3, <1>4, <1>5, <1>6, <1>7, <1>8, <1>9, <1>10

LEMMA SchedRest ==
    ASSUME TypeInv, SchedInv,
           \/ HbBegins \/ HbProbes \/ HbAsks \/ HbAnswered \/ HbJudges
           \/ \E t \in Traders : HungCheckReturns(t)
           \/ \E c \in Callers : CallerStep(c)
           \/ Start \/ Probe \/ StopBegins \/ StopTakes \/ QmtDown \/ QmtUp
    PROVE  SchedInv'
<1> USE ThreadAssumption
    DEF TypeInv, TypeOK, PcOK, SchedInv, OneConnector, NoLostReconnect, StopIsFinal,
        MainPhase, manager, sdk
<1>1. CASE HbBegins
  BY <1>1 DEF HbBegins
<1>2. CASE HbProbes
  BY <1>2 DEF HbProbes
<1>3. CASE HbAsks
  BY <1>3 DEF HbAsks
<1>4. CASE HbAnswered
  BY <1>4 DEF HbAnswered
<1>5. CASE HbJudges
  BY <1>5 DEF HbJudges
<1>6. CASE (\E t \in Traders : HungCheckReturns(t)) \/ QmtUp
  BY <1>6 DEF HungCheckReturns, QmtUp, locals
<1>7. ASSUME NEW c \in Callers, CallerStep(c) PROVE SchedInv'
  BY <1>7 DEF CallerStep, CallBegins, CallLooks, CallEnters, CallReturns
<1>8. CASE Start \/ Probe
  BY <1>8 DEF Start, Probe
<1>9. CASE StopBegins \/ StopTakes
  BY <1>9 DEF StopBegins, StopTakes
<1>10. CASE QmtDown
  BY <1>10 DEF QmtDown
<1> QED BY <1>1, <1>2, <1>3, <1>4, <1>5, <1>6, <1>7, <1>8, <1>9, <1>10

LEMMA SchedStep == TypeInv /\ SchedInv /\ [Next]_vars => SchedInv'
<1> SUFFICES ASSUME TypeInv, SchedInv, [Next]_vars PROVE SchedInv'
  OBVIOUS
<1>1. ASSUME NEW w \in Workers, WorkerStep(w) PROVE SchedInv'
  BY <1>1, SchedLoop, SchedStop, SchedConnect, SchedSchedule DEF WorkerStep
<1>2. CASE HeartbeatStep
  BY <1>2, SchedRest, SchedMark, SchedSchedule DEF HeartbeatStep
<1>3. ASSUME NEW t \in Traders, CallbackStep(t) \/ HungCheckReturns(t) PROVE SchedInv'
  BY <1>3, SchedRest, SchedMark, SchedSchedule DEF CallbackStep
<1>4. ASSUME NEW c \in Callers, CallerStep(c) PROVE SchedInv'
  BY <1>4, SchedRest
<1>5. CASE MainStep \/ QmtDown \/ QmtUp
  BY <1>5, SchedRest, SchedStop, SchedConnect, SchedSchedule DEF MainStep
<1>6. CASE UNCHANGED vars
  BY <1>6 DEF vars, manager, locals, sdk, SchedInv, OneConnector, NoLostReconnect,
              StopIsFinal, MainPhase
<1> QED BY <1>1, <1>2, <1>3, <1>4, <1>5, <1>6 DEF Next

LEMMA SchedCorrect == Spec => []SchedInv
<1>1. Spec => []TypeInv
  BY TypeInit, TypeStep, PTL DEF Spec
<1> QED BY <1>1, SchedInit, SchedStep, PTL DEF Spec

\* schedule_reconnect keeps at most one reconnect loop running.
THEOREM OneConnectorHolds == Spec => []OneConnector
BY SchedCorrect, PTL DEF SchedInv

\* No interleaving of disconnects, heartbeats and exiting workers leaves a
\* serving manager disconnected with nobody about to reconnect it.
THEOREM NoReconnectIsLost == Spec => []NoLostReconnect
BY SchedCorrect, PTL DEF SchedInv

\* After stop() has returned, the manager stays without trader and connection.
THEOREM StopStays == Spec => []StopIsFinal
BY SchedCorrect, PTL DEF SchedInv

-----------------------------------------------------------------------------
Connectors == Workers \cup {Main}
EarlySteps == {"create", "publish", "connect", "connecting"}
MakeSteps == EarlySteps \cup {"stop_old", "stop_new"}

\* Before start(), and while probe() makes and connects its trader, nothing
\* else runs in the manager.
Undisturbed ==
    (mode = "new" \/ pc[Main] \in EarlySteps) =>
        /\ ~connected
        /\ reconnectThread = None
        /\ pc[Hb] = "off"
        /\ \A a \in Workers \cup Callers \cup Traders : pc[a] = "idle"
        /\ \A t \in Traders : session[t] = "none"

\* A trader is made when there is none, and reaches connect() unused.
FreshHere ==
    /\ mode = "new" => trader = None
    /\ \A a \in Connectors :
         /\ pc[a] \in {"create", "publish", "stop_old", "stop_new"} => trader = None /\ ~connected
         /\ pc[a] = "publish" => session[held[a]] = "none"
         /\ pc[a] = "publish" /\ ~stopEvent => native[held[a]] = "started"
         /\ pc[a] = "connect" /\ trader # None => session[trader] = "none"
         /\ pc[a] \in {"connecting", "recheck", "subscribing", "commit"}
              /\ a \in unbroken /\ held[a] = trader => trader \notin disowned
         /\ pc[a] \in {"recheck", "subscribing", "commit"} => session[held[a]] # "none"

\* Whoever can report a loss reports it of a trader that was connected once.
Sessions ==
    /\ \A t \in Traders : pc[t] = "mark" => session[t] # "none"
    /\ held[Hb] \in Traders => session[held[Hb]] # "none"
    /\ \A t \in disowned : session[t] # "none"
    /\ connected => session[trader] # "none"

\* A live trader is published, or in the hands of the thread that publishes it
\* or is about to ask it to stop.
Ownership ==
    /\ trader # None => native[trader] = "started"
    /\ \A t \in Traders : native[t] = "started" =>
         \/ t = trader
         \/ \E a \in Connectors :
              pc[a] \in {"publish", "stop_old", "stop_new", "stopping"} /\ held[a] = t

\* The disowned trader is the published one only while it is not connected.
LiveInv == Undisturbed /\ FreshHere /\ Sessions /\ Ownership /\ DisconnectSticks

LEMMA Exclusive ==
    ASSUME TypeInv, SchedInv, LiveInv, NEW a \in Connectors, NEW b \in Connectors,
           pc[a] \in MakeSteps, pc[b] \in MakeSteps
    PROVE  a = b
<1> USE ThreadAssumption DEF TypeInv, TypeOK, PcOK, SchedInv, MakeSteps, EarlySteps
<1>1. pc[Main] \in MakeSteps => pc[Main] \in EarlySteps
  BY DEF MainPhase
<1>2. pc[Main] \in EarlySteps => \A w \in Workers : pc[w] \notin MakeSteps
  BY DEF LiveInv, Undisturbed
<1>3. \A v, w \in Workers : pc[v] \in MakeSteps /\ pc[w] \in MakeSteps => v = w
  BY DEF OneConnector
<1> QED BY <1>1, <1>2, <1>3 DEF Connectors

LEMMA LiveInit == ASSUME Init PROVE LiveInv
BY ThreadAssumption
   DEF Init, LiveInv, Undisturbed, FreshHere, Sessions, Ownership, DisconnectSticks,
       Connectors, MakeSteps, EarlySteps

LEMMA LiveSchedule ==
    ASSUME TypeInv, SchedInv, LiveInv, NEW a \in Workers \cup Traders \cup {Hb, Main}, ScheduleStep(a)
    PROVE  LiveInv'
<1> USE ThreadAssumption
    DEF TypeInv, TypeOK, PcOK, HeldOK, SchedInv, OneConnector, LiveInv, Undisturbed, FreshHere,
        Sessions, Ownership, DisconnectSticks, Connectors, MakeSteps, EarlySteps, manager, sdk
<1>1. CASE SchedCheck(a)
  BY <1>1 DEF SchedCheck
<1>2. CASE Sched(a)
  <2>1. Undisturbed'
    BY <1>2 DEF Sched, WorkerWanted, MainPhase
  <2>2. FreshHere'
    BY <1>2 DEF Sched, WorkerWanted
  <2>3. Sessions'
    BY <1>2 DEF Sched, WorkerWanted
  <2>4. Ownership'
    BY <1>2 DEF Sched, WorkerWanted
  <2>5. DisconnectSticks'
    BY <1>2 DEF Sched, WorkerWanted
  <2> QED BY <2>1, <2>2, <2>3, <2>4, <2>5
<1> QED BY <1>1, <1>2 DEF ScheduleStep

LEMMA LiveMark ==
    ASSUME TypeInv, SchedInv, LiveInv, NEW a \in Traders \cup {Hb}, Mark(a)
    PROVE  LiveInv'
<1> USE ThreadAssumption
    DEF Mark, StaleNotice, TypeInv, TypeOK, PcOK, HeldOK, SchedInv, OneConnector, LiveInv,
        Undisturbed, FreshHere, Sessions, Ownership, DisconnectSticks, Connectors, MakeSteps, EarlySteps, sdk
<1>1. CASE StaleNotice(a)
  BY <1>1
<1>2. CASE ~StaleNotice(a)
  BY <1>2
<1> QED BY <1>1, <1>2

LEMMA LiveConnect ==
    ASSUME TypeInv, SchedInv, LiveInv, NEW a \in Workers \cup {Main}, ConnectStep(a)
    PROVE  LiveInv'
<1> USE ThreadAssumption, Exclusive
    DEF TypeInv, TypeOK, PcOK, HeldOK, SchedInv, OneConnector, LiveInv, Undisturbed, FreshHere,
        Sessions, Ownership, DisconnectSticks, Connectors, MakeSteps, EarlySteps, manager, sdk
<1>1. CASE CreateTrader(a)
  BY <1>1 DEF CreateTrader, Unreachable
<1>2. CASE CreateFails(a)
  BY <1>2 DEF CreateFails
<1>3. CASE Publish(a)
  <2>1. Undisturbed'
    BY <1>3 DEF Publish, MayPublish
  <2>2. FreshHere'
    <3>1. \A b \in Connectors : b # a => pc[b] \notin MakeSteps
      BY <1>3, Exclusive DEF Publish
    <3>2. session[held[a]] = "none" /\ held[a] \notin disowned
      BY <1>3 DEF Publish
    <3>3. \A b \in Connectors : b # a => pc'[b] = pc[b] /\ held'[b] = held[b]
      BY <1>3 DEF Publish
    <3>4. \/ pc'[a] = "connect"
          \/ pc'[a] = "stop_new" /\ trader' = None /\ ~connected'
      BY <1>3 DEF Publish
    <3>6. mode' # "new"
      BY <1>3 DEF Publish, MainPhase
    <3>5. /\ trader' \in {trader, held[a]} /\ trader = None
          /\ session' = session /\ unbroken' = unbroken /\ disowned' = disowned
          /\ connected' = connected /\ native' = native /\ stopEvent' = stopEvent
      BY <1>3 DEF Publish
    <3> QED BY <3>1, <3>2, <3>3, <3>4, <3>5, <3>6
  <2>3. Sessions'
    BY <1>3 DEF Publish, MayPublish
  <2>4. Ownership'
    BY <1>3 DEF Publish, MayPublish
  <2>5. DisconnectSticks'
    BY <1>3 DEF Publish, MayPublish
  <2> QED BY <2>1, <2>2, <2>3, <2>4, <2>5
<1>4. CASE ConnectBegins(a)
  BY <1>4 DEF ConnectBegins
<1>5. CASE NativeConnect(a)
  <2>1. Undisturbed'
    BY <1>5 DEF NativeConnect, MainPhase
  <2>2. FreshHere'
    BY <1>5 DEF NativeConnect
  <2>3. Sessions'
    BY <1>5 DEF NativeConnect
  <2>4. Ownership'
    BY <1>5 DEF NativeConnect
  <2>5. DisconnectSticks'
    BY <1>5 DEF NativeConnect
  <2> QED BY <2>1, <2>2, <2>3, <2>4, <2>5
<1>6. CASE ConnectRefused(a)
  BY <1>6 DEF ConnectRefused
<1>7. CASE Recheck(a)
  BY <1>7 DEF Recheck
<1>8. CASE NativeSubscribe(a)
  BY <1>8 DEF NativeSubscribe
<1>9. CASE Commit(a)
  BY <1>9 DEF Commit, MayCommit
<1> QED BY <1>1, <1>2, <1>3, <1>4, <1>5, <1>6, <1>7, <1>8, <1>9 DEF ConnectStep

LEMMA LiveStop ==
    ASSUME TypeInv, SchedInv, LiveInv, NEW a \in Workers \cup {Main}, StopTrader(a)
    PROVE  LiveInv'
<1> USE ThreadAssumption
    DEF TypeInv, TypeOK, PcOK, HeldOK, LiveInv, Connectors, manager
<1>1. /\ pc[a] \in {"stop_old", "stop_new", "stopping"}
      /\ pc' = [pc EXCEPT ![a] = AfterStop(pc[a])]
      /\ held' = [held EXCEPT ![a] = None]
      /\ native' = [native EXCEPT ![held[a]] = "stopping"]
      /\ UNCHANGED <<manager, mode, session, disowned>>
  BY DEF StopTrader, AskToStop
<1>2. trader = None /\ ~connected /\ held[a] \in Traders
  BY <1>1 DEF FreshHere, SchedInv, StopIsFinal
<1>3. \A b \in Connectors : b # a => pc'[b] = pc[b] /\ held'[b] = held[b]
  BY <1>1
<1>4. \/ pc[a] = "stop_old" /\ pc'[a] = "create" /\ a \in Workers
      \/ pc[a] = "stop_new" /\ pc'[a] = "connect" /\ a \in Workers
      \/ pc[a] = "stopping" /\ pc'[a] = "stopped" /\ a = Main /\ stopEvent
  BY <1>1 DEF AfterStop, SchedInv, MainPhase
<1>5. \A b \in Connectors : b # a /\ pc[b] = "publish" => stopEvent
  <2>1. pc[a] \in {"stop_old", "stop_new"} =>
          \A b \in Connectors : b # a => pc[b] # "publish"
    BY Exclusive DEF MakeSteps, EarlySteps
  <2> QED BY <1>4, <2>1
<1>6. Undisturbed'
  BY <1>1, <1>3, <1>4 DEF Undisturbed, EarlySteps
<1>7. FreshHere'
  BY <1>1, <1>2, <1>3, <1>4, <1>5 DEF FreshHere
<1>8. Sessions'
  BY <1>1, <1>4 DEF Sessions
<1>9. Ownership'
  BY <1>1, <1>2, <1>3 DEF Ownership
<1> QED BY <1>1, <1>2, <1>6, <1>7, <1>8, <1>9 DEF DisconnectSticks

LEMMA LiveLoop ==
    ASSUME TypeInv, SchedInv, LiveInv, NEW w \in Workers,
           \/ LoopTest(w) \/ GiveUp(w) \/ BackOff(w) \/ WaitEnds(w) \/ Attempt(w) \/ Reset(w)
           \/ Succeed(w) \/ StartHeartbeat(w) \/ ClearOwner(w) \/ RetryTest(w)
    PROVE  LiveInv'
<1> USE ThreadAssumption
    DEF TypeInv, TypeOK, PcOK, HeldOK, SchedInv, OneConnector, LiveInv, Undisturbed, FreshHere,
        Sessions, Ownership, DisconnectSticks, Connectors, MakeSteps, EarlySteps, manager, sdk
<1>1. CASE LoopTest(w)
  BY <1>1 DEF LoopTest
<1>2. CASE GiveUp(w)
  BY <1>2 DEF GiveUp
<1>3. CASE BackOff(w)
  BY <1>3 DEF BackOff
<1>4. CASE WaitEnds(w)
  BY <1>4 DEF WaitEnds
<1>5. CASE Attempt(w)
  BY <1>5 DEF Attempt
<1>6. CASE Reset(w)
  BY <1>6 DEF Reset, TraderTaken
<1>7. CASE Succeed(w)
  BY <1>7 DEF Succeed
<1>8. CASE StartHeartbeat(w)
  BY <1>8 DEF StartHeartbeat
<1>9. CASE ClearOwner(w)
  BY <1>9 DEF ClearOwner
<1>10. CASE RetryTest(w)
  BY <1>10 DEF RetryTest, RetryNeeded
<1> QED BY <1>1, <1>2, <1>3, <1>4, <1>5, <1>6, <1>7, <1>8, <1>9, <1>10

LEMMA LiveRest ==
    ASSUME TypeInv, SchedInv, LiveInv,
           \/ HbBegins \/ HbProbes \/ HbAsks \/ HbAnswered \/ HbJudges
           \/ \E t \in Traders : HungCheckReturns(t)
           \/ \E c \in Callers : CallerStep(c)
           \/ Start \/ Probe \/ StopBegins \/ StopTakes \/ QmtDown \/ QmtUp
    PROVE  LiveInv'
<1> USE ThreadAssumption
    DEF TypeInv, TypeOK, PcOK, HeldOK, SchedInv, OneConnector, LiveInv, Undisturbed, FreshHere,
        Sessions, Ownership, DisconnectSticks, Connectors, MakeSteps, EarlySteps, manager, sdk
<1>1. CASE HbBegins
  BY <1>1 DEF HbBegins
<1>2. CASE HbProbes
  BY <1>2 DEF HbProbes
<1>3. CASE HbAsks
  BY <1>3 DEF HbAsks
<1>4. CASE HbAnswered
  BY <1>4 DEF HbAnswered
<1>5. CASE HbJudges
  BY <1>5 DEF HbJudges
<1>6. CASE (\E t \in Traders : HungCheckReturns(t)) \/ QmtUp
  BY <1>6 DEF HungCheckReturns, QmtUp, locals
<1>7. ASSUME NEW c \in Callers, CallerStep(c) PROVE LiveInv'
  BY <1>7 DEF CallerStep, CallBegins, CallLooks, CallEnters, CallReturns
<1>8. CASE Start \/ Probe
  BY <1>8 DEF Start, Probe
<1>9. CASE StopBegins \/ StopTakes
  BY <1>9 DEF StopBegins, StopTakes
<1>10. CASE QmtDown
  <2>1. Undisturbed'
    BY <1>10 DEF QmtDown
  <2>2. FreshHere'
    BY <1>10 DEF QmtDown
  <2>3. Sessions'
    BY <1>10 DEF QmtDown
  <2>4. Ownership'
    <3>1. \A a \in Connectors : pc'[a] = pc[a] /\ held'[a] = held[a]
      BY <1>10 DEF QmtDown
    <3>2. trader' = trader /\ native' = native
      BY <1>10 DEF QmtDown
    <3> QED BY <3>1, <3>2
  <2>5. DisconnectSticks'
    BY <1>10 DEF QmtDown
  <2> QED BY <2>1, <2>2, <2>3, <2>4, <2>5
<1> QED BY <1>1, <1>2, <1>3, <1>4, <1>5, <1>6, <1>7, <1>8, <1>9, <1>10

LEMMA LiveStep == TypeInv /\ SchedInv /\ LiveInv /\ [Next]_vars => LiveInv'
<1> SUFFICES ASSUME TypeInv, SchedInv, LiveInv, [Next]_vars PROVE LiveInv'
  OBVIOUS
<1>1. ASSUME NEW w \in Workers, WorkerStep(w) PROVE LiveInv'
  BY <1>1, LiveLoop, LiveStop, LiveConnect, LiveSchedule DEF WorkerStep
<1>2. CASE HeartbeatStep
  BY <1>2, LiveRest, LiveMark, LiveSchedule DEF HeartbeatStep
<1>3. ASSUME NEW t \in Traders, CallbackStep(t) \/ HungCheckReturns(t) PROVE LiveInv'
  BY <1>3, LiveRest, LiveMark, LiveSchedule DEF CallbackStep
<1>4. ASSUME NEW c \in Callers, CallerStep(c) PROVE LiveInv'
  BY <1>4, LiveRest
<1>5. CASE MainStep \/ QmtDown \/ QmtUp
  BY <1>5, LiveRest, LiveStop, LiveConnect, LiveSchedule DEF MainStep
<1>6. CASE UNCHANGED vars
  BY <1>6 DEF vars, manager, locals, sdk, LiveInv, Undisturbed, FreshHere,
              Sessions, Ownership, DisconnectSticks
<1> QED BY <1>1, <1>2, <1>3, <1>4, <1>5, <1>6 DEF Next

LEMMA LiveCorrect == Spec => [](TypeInv /\ SchedInv /\ LiveInv)
<1>1. Spec => []TypeInv
  BY TypeInit, TypeStep, PTL DEF Spec
<1> QED BY <1>1, SchedCorrect, LiveInit, LiveStep, PTL DEF Spec

\* A disconnect that arrives anywhere between the start of connect() and its
\* last section is never overwritten by it.
THEOREM DisconnectWins == Spec => []DisconnectSticks
BY LiveCorrect, PTL DEF LiveInv

\* The manager reports itself connected only with the published, natively
\* connected trader that nobody has asked to stop.
THEOREM ConnectedMeansCurrent == Spec => []ConnectedIsCurrent
<1>1. TypeInv /\ LiveInv => ConnectedIsCurrent
  BY ThreadAssumption
     DEF TypeInv, HeldOK, LiveInv, Sessions, Ownership, ConnectedIsCurrent
<1> QED BY <1>1, LiveCorrect, PTL

\* A second trader lives on the session id only while stop() is about to ask the
\* first one to stop, and is not published.
THEOREM LiveTraderIsUnique == Spec => []OneLiveTrader
<1>1. ASSUME TypeInv, SchedInv, LiveInv, NEW t \in Traders, NEW u \in Traders,
             native[t] = "started", native[u] = "started", t # u
      PROVE  pc[Main] = "stopping" /\ held[Main] \in {t, u} /\ trader = None
  <2> USE ThreadAssumption DEF Connectors, MakeSteps, EarlySteps
  <2>1. ASSUME NEW a \in Connectors, pc[a] \in {"publish", "stop_old", "stop_new", "stopping"}
        PROVE  /\ trader = None
               /\ IF pc[a] = "stopping" THEN a = Main ELSE pc[a] \in MakeSteps
    BY <1>1, <2>1 DEF LiveInv, FreshHere, SchedInv, StopIsFinal, TypeInv, TypeOK, PcOK
  <2>2. trader = None
    BY <1>1, <2>1 DEF LiveInv, Ownership
  <2>3. PICK a \in Connectors :
          pc[a] \in {"publish", "stop_old", "stop_new", "stopping"} /\ held[a] = t
    BY <1>1, <2>2 DEF LiveInv, Ownership
  <2>4. PICK b \in Connectors :
          pc[b] \in {"publish", "stop_old", "stop_new", "stopping"} /\ held[b] = u
    BY <1>1, <2>2 DEF LiveInv, Ownership
  <2>5. pc[a] = "stopping" \/ pc[b] = "stopping"
    BY <1>1, <2>1, <2>3, <2>4, Exclusive
  <2> QED BY <2>1, <2>2, <2>3, <2>4, <2>5
<1>2. TypeInv /\ SchedInv /\ LiveInv => OneLiveTrader
  BY <1>1 DEF OneLiveTrader
<1> QED BY <1>2, LiveCorrect, PTL

-----------------------------------------------------------------------------
\* The present connection and the worker that tells of it.
LEMMA EventsSchedule ==
    ASSUME TypeInv, EventsTellConnection, NEW a \in Workers \cup Traders \cup {Hb, Main},
           ScheduleStep(a)
    PROVE  EventsTellConnection'
<1> USE DEF EventsTellConnection
<1>1. CASE SchedCheck(a)
  BY <1>1 DEF SchedCheck, TypeInv, TypeOK, PcOK, manager
<1>2. CASE Sched(a)
  BY <1>2 DEF Sched, TypeInv, TypeOK, PcOK
<1> QED BY <1>1, <1>2 DEF ScheduleStep

LEMMA EventsMark ==
    ASSUME TypeInv, EventsTellConnection, NEW a \in Traders \cup {Hb}, Mark(a)
    PROVE  EventsTellConnection'
BY ThreadAssumption DEF EventsTellConnection, Mark, Announcement, StaleNotice, TypeInv, TypeOK, PcOK

\* A probe connects too, but it does not serve.
LEMMA EventsConnect ==
    ASSUME TypeInv, SchedInv, EventsTellConnection, NEW a \in Workers \cup {Main}, ConnectStep(a)
    PROVE  EventsTellConnection'
<1> USE ThreadAssumption DEF EventsTellConnection, TypeInv, TypeOK, PcOK
<1>1. CASE CreateTrader(a) \/ CreateFails(a)
  BY <1>1 DEF CreateTrader, CreateFails, manager
<1>2. CASE Publish(a)
  BY <1>2 DEF Publish
<1>3. CASE ConnectBegins(a)
  BY <1>3 DEF ConnectBegins
<1>4. CASE NativeConnect(a) \/ NativeSubscribe(a)
  <2>1. /\ UNCHANGED <<mode, connected, stopEvent, announced>>
        /\ pc[a] # "succeeded"
        /\ \A w \in Workers \ {a} : pc'[w] = pc[w]
    BY <1>4 DEF NativeConnect, NativeSubscribe, manager
  <2> QED BY <2>1
<1>5. CASE ConnectRefused(a)
  BY <1>5 DEF ConnectRefused
<1>6. CASE Recheck(a)
  BY <1>6 DEF Recheck
<1>7. CASE Commit(a)
  <2>1. CASE a = Main
    <3>1. mode' # "serve"
      BY <1>7, <2>1 DEF Commit, SchedInv, MainPhase, ConnectSteps
    <3> QED BY <3>1
  <2>2. CASE a # Main /\ MayCommit(a)
    <3>1. a \in Workers /\ pc'[a] = "succeeded"
      BY <1>7, <2>2 DEF Commit, AfterConnect
    <3> QED BY <3>1
  <2>3. CASE a # Main /\ ~MayCommit(a)
    <3>1. /\ UNCHANGED <<mode, connected, stopEvent, announced>>
          /\ pc[a] # "succeeded"
          /\ \A w \in Workers \ {a} : pc'[w] = pc[w]
      BY <1>7, <2>3 DEF Commit
    <3> QED BY <3>1
  <2> QED BY <2>1, <2>2, <2>3
<1> QED BY <1>1, <1>2, <1>3, <1>4, <1>5, <1>6, <1>7 DEF ConnectStep

LEMMA EventsStop ==
    ASSUME TypeInv, EventsTellConnection, NEW a \in Workers \cup {Main}, StopTrader(a)
    PROVE  EventsTellConnection'
BY ThreadAssumption
   DEF EventsTellConnection, StopTrader, AfterStop, TypeInv, TypeOK, PcOK, manager

LEMMA EventsLoop ==
    ASSUME TypeInv, EventsTellConnection, NEW w \in Workers,
           \/ LoopTest(w) \/ GiveUp(w) \/ BackOff(w) \/ WaitEnds(w) \/ Attempt(w) \/ Reset(w)
           \/ Succeed(w) \/ StartHeartbeat(w) \/ ClearOwner(w) \/ RetryTest(w)
    PROVE  EventsTellConnection'
<1> USE ThreadAssumption DEF EventsTellConnection, TypeInv, TypeOK, PcOK, manager
<1>1. CASE LoopTest(w) \/ GiveUp(w) \/ BackOff(w) \/ WaitEnds(w)
  BY <1>1 DEF LoopTest, GiveUp, BackOff, WaitEnds
<1>2. CASE Attempt(w)
  BY <1>2 DEF Attempt
<1>3. CASE Reset(w)
  BY <1>3 DEF Reset
<1>4. CASE Succeed(w)
  BY <1>4 DEF Succeed
<1>5. CASE StartHeartbeat(w)
  BY <1>5 DEF StartHeartbeat
<1>6. CASE ClearOwner(w) \/ RetryTest(w)
  BY <1>6 DEF ClearOwner, RetryTest
<1> QED BY <1>1, <1>2, <1>3, <1>4, <1>5, <1>6

LEMMA EventsRest ==
    ASSUME TypeInv, LiveInv, EventsTellConnection,
           \/ HbBegins \/ HbProbes \/ HbAsks \/ HbAnswered \/ HbJudges
           \/ \E t \in Traders : HungCheckReturns(t)
           \/ \E c \in Callers : CallerStep(c)
           \/ Start \/ Probe \/ StopBegins \/ StopTakes \/ QmtDown \/ QmtUp
    PROVE  EventsTellConnection'
<1> USE ThreadAssumption DEF EventsTellConnection, TypeInv, TypeOK, PcOK, manager
<1>1. CASE HbBegins
  BY <1>1 DEF HbBegins
<1>2. CASE HbProbes \/ HbAsks \/ HbAnswered
  <2>1. /\ UNCHANGED <<mode, connected, stopEvent, announced>>
        /\ \A w \in Workers : pc'[w] = pc[w]
    BY <1>2 DEF HbProbes, HbAsks, HbAnswered
  <2> QED BY <2>1
<1>3. CASE HbJudges
  BY <1>3 DEF HbJudges
<1>4. CASE (\E t \in Traders : HungCheckReturns(t)) \/ QmtUp
  BY <1>4 DEF HungCheckReturns, QmtUp, locals
<1>5. ASSUME NEW c \in Callers, CallerStep(c) PROVE EventsTellConnection'
  <2>1. /\ UNCHANGED <<mode, connected, stopEvent, announced>>
        /\ \A w \in Workers : pc'[w] = pc[w]
    BY <1>5 DEF CallerStep, CallBegins, CallLooks, CallEnters, CallReturns
  <2> QED BY <2>1
<1>6. CASE Start \/ Probe
  <2>1. ~connected
    BY <1>6 DEF Start, Probe, LiveInv, Undisturbed
  <2> QED BY <1>6, <2>1 DEF Start, Probe
<1>7. CASE StopBegins \/ StopTakes
  BY <1>7 DEF StopBegins, StopTakes
<1>8. CASE QmtDown
  BY <1>8 DEF QmtDown
<1> QED BY <1>1, <1>2, <1>3, <1>4, <1>5, <1>6, <1>7, <1>8

LEMMA EventsStep ==
    TypeInv /\ SchedInv /\ LiveInv /\ EventsTellConnection /\ [Next]_vars => EventsTellConnection'
<1> SUFFICES ASSUME TypeInv, SchedInv, LiveInv, EventsTellConnection, [Next]_vars
             PROVE  EventsTellConnection'
  OBVIOUS
<1>1. ASSUME NEW w \in Workers, WorkerStep(w) PROVE EventsTellConnection'
  BY <1>1, EventsLoop, EventsStop, EventsConnect, EventsSchedule DEF WorkerStep
<1>2. CASE HeartbeatStep
  BY <1>2, EventsRest, EventsMark, EventsSchedule DEF HeartbeatStep
<1>3. ASSUME NEW t \in Traders, CallbackStep(t) \/ HungCheckReturns(t) PROVE EventsTellConnection'
  BY <1>3, EventsRest, EventsMark, EventsSchedule DEF CallbackStep
<1>4. ASSUME NEW c \in Callers, CallerStep(c) PROVE EventsTellConnection'
  BY <1>4, EventsRest
<1>5. CASE MainStep \/ QmtDown \/ QmtUp
  BY <1>5, EventsRest, EventsStop, EventsConnect, EventsSchedule DEF MainStep
<1>6. CASE UNCHANGED vars
  BY <1>6 DEF vars, manager, locals, EventsTellConnection
<1> QED BY <1>1, <1>2, <1>3, <1>4, <1>5, <1>6 DEF Next

\* While the manager serves and is connected, the last event on the bus tells
\* of it, or the worker that connected is about to put it there.
THEOREM EventsAreCurrent == Spec => []EventsTellConnection
<1>1. Init => EventsTellConnection
  BY DEF Init, EventsTellConnection
<1> QED BY <1>1, EventsStep, LiveCorrect, PTL DEF Spec

-----------------------------------------------------------------------------
\* A call that was overtaken still waits, and its second look will see why: its
\* trader is not published any more, was lost, or the manager was stopped.
Overtaken ==
    \A c \in overtaken :
      pc[c] = "queued" /\ (held[c] # trader \/ held[c] \in disowned \/ stopEvent)

\* A trader that is being made is in nobody else's hands.
NewToCallers ==
    \A a \in Connectors, c \in Callers : pc[a] = "publish" => held[c] # held[a]

CallInv == Overtaken /\ NewToCallers

LEMMA CallStop ==
    ASSUME TypeInv, CallInv, NEW a \in Workers \cup {Main}, StopTrader(a)
    PROVE  CallInv'
BY ThreadAssumption
   DEF StopTrader, AfterStop, TypeInv, TypeOK, PcOK, CallInv, Overtaken, NewToCallers, Connectors,
       manager

LEMMA CallSchedule ==
    ASSUME TypeInv, CallInv, NEW a \in Workers \cup Traders \cup {Hb, Main}, ScheduleStep(a)
    PROVE  CallInv'
<1> USE ThreadAssumption
    DEF TypeInv, TypeOK, PcOK, CallInv, Overtaken, NewToCallers, Connectors, manager, sdk
<1>1. CASE SchedCheck(a)
  BY <1>1 DEF SchedCheck
<1>2. CASE Sched(a)
  BY <1>2 DEF Sched
<1> QED BY <1>1, <1>2 DEF ScheduleStep

LEMMA CallMark ==
    ASSUME TypeInv, CallInv, NEW a \in Traders \cup {Hb}, Mark(a)
    PROVE  CallInv'
<1> USE ThreadAssumption
    DEF Mark, TypeInv, TypeOK, PcOK, CallInv, Overtaken, NewToCallers, Connectors, sdk
<1>1. CASE StaleNotice(a)
  BY <1>1
<1>2. CASE ~StaleNotice(a)
  BY <1>2 DEF Waiting
<1> QED BY <1>1, <1>2

\* A trader is published to calls that do not have it yet.
LEMMA CallConnect ==
    ASSUME TypeInv, CallInv, NEW a \in Workers \cup {Main}, ConnectStep(a)
    PROVE  CallInv'
<1> USE ThreadAssumption
    DEF TypeInv, TypeOK, PcOK, HeldOK, CallInv, Overtaken, NewToCallers, Connectors, manager, sdk
<1>1. CASE CreateTrader(a)
  BY <1>1 DEF CreateTrader, Unreachable
<1>2. CASE CreateFails(a)
  BY <1>2 DEF CreateFails
<1>3. CASE Publish(a)
  BY <1>3 DEF Publish, MayPublish
<1>4. CASE ConnectBegins(a)
  BY <1>4 DEF ConnectBegins
<1>5. CASE NativeConnect(a)
  BY <1>5 DEF NativeConnect
<1>6. CASE ConnectRefused(a)
  BY <1>6 DEF ConnectRefused
<1>7. CASE Recheck(a)
  BY <1>7 DEF Recheck
<1>8. CASE NativeSubscribe(a)
  BY <1>8 DEF NativeSubscribe
<1>9. CASE Commit(a)
  BY <1>9 DEF Commit
<1> QED BY <1>1, <1>2, <1>3, <1>4, <1>5, <1>6, <1>7, <1>8, <1>9 DEF ConnectStep

LEMMA CallLoop ==
    ASSUME TypeInv, CallInv, NEW w \in Workers,
           \/ LoopTest(w) \/ GiveUp(w) \/ BackOff(w) \/ WaitEnds(w) \/ Attempt(w) \/ Reset(w)
           \/ Succeed(w) \/ StartHeartbeat(w) \/ ClearOwner(w) \/ RetryTest(w)
    PROVE  CallInv'
<1> USE ThreadAssumption
    DEF TypeInv, TypeOK, PcOK, HeldOK, CallInv, Overtaken, NewToCallers, Connectors, manager, sdk
<1>1. CASE LoopTest(w) \/ GiveUp(w) \/ BackOff(w)
  BY <1>1 DEF LoopTest, GiveUp, BackOff
<1>2. CASE WaitEnds(w) \/ Attempt(w) \/ Succeed(w)
  BY <1>2 DEF WaitEnds, Attempt, Succeed
<1>3. CASE StartHeartbeat(w) \/ ClearOwner(w) \/ RetryTest(w)
  BY <1>3 DEF StartHeartbeat, ClearOwner, RetryTest
<1>4. CASE Reset(w)
  <2>1. \A c \in Callers : pc'[c] = pc[c] /\ held'[c] = held[c]
    BY <1>4 DEF Reset
  <2>2. trader' = None /\ UNCHANGED <<disowned, stopEvent>>
    BY <1>4 DEF Reset, TraderTaken
  <2>3. \A c \in overtaken' : c \in Callers /\ pc[c] = "queued"
    BY <1>4 DEF Reset, Waiting
  <2>4. \A b \in Connectors : pc'[b] = "publish" => pc[b] = "publish" /\ held'[b] = held[b]
    BY <1>4 DEF Reset
  <2> QED BY <2>1, <2>2, <2>3, <2>4
<1> QED BY <1>1, <1>2, <1>3, <1>4

LEMMA CallRest ==
    ASSUME TypeInv, LiveInv, CallInv,
           \/ HbBegins \/ HbProbes \/ HbAsks \/ HbAnswered \/ HbJudges
           \/ \E t \in Traders : HungCheckReturns(t)
           \/ \E c \in Callers : CallerStep(c)
           \/ Start \/ Probe \/ StopBegins \/ StopTakes \/ QmtDown \/ QmtUp
    PROVE  CallInv'
<1> USE ThreadAssumption
    DEF TypeInv, TypeOK, PcOK, HeldOK, CallInv, Overtaken, NewToCallers, Connectors, manager
<1>1. CASE HbBegins
  BY <1>1 DEF HbBegins, sdk
<1>2. CASE HbProbes
  BY <1>2 DEF HbProbes, sdk
<1>3. CASE HbAsks \/ HbAnswered
  BY <1>3 DEF HbAsks, HbAnswered
<1>4. CASE HbJudges
  BY <1>4 DEF HbJudges, sdk
<1>5. CASE (\E t \in Traders : HungCheckReturns(t)) \/ QmtUp
  BY <1>5 DEF HungCheckReturns, QmtUp, locals
<1>6. ASSUME NEW c \in Callers, CallBegins(c) PROVE CallInv'
  <2>1. \A a \in Connectors : pc[a] # "publish"
    BY <1>6 DEF CallBegins, LiveInv, FreshHere
  <2> QED BY <1>6, <2>1 DEF CallBegins, sdk
<1>7. ASSUME NEW c \in Callers, CallLooks(c) PROVE CallInv'
  BY <1>7 DEF CallLooks, MayEnter, LiveInv, DisconnectSticks
<1>8. ASSUME NEW c \in Callers, CallEnters(c) \/ CallReturns(c) PROVE CallInv'
  BY <1>8 DEF CallEnters, CallReturns, sdk
<1>9. CASE Start \/ Probe
  BY <1>9 DEF Start, Probe, sdk
<1>10. CASE StopBegins
  BY <1>10 DEF StopBegins, sdk
<1>11. CASE StopTakes
  BY <1>11 DEF StopTakes, sdk
<1>12. CASE QmtDown
  BY <1>12 DEF QmtDown
<1> QED BY <1>1, <1>2, <1>3, <1>4, <1>5, <1>6, <1>7, <1>8, <1>9, <1>10, <1>11, <1>12 DEF CallerStep

LEMMA CallInvStep == TypeInv /\ LiveInv /\ CallInv /\ [Next]_vars => CallInv'
<1> SUFFICES ASSUME TypeInv, LiveInv, CallInv, [Next]_vars PROVE CallInv'
  OBVIOUS
<1>1. ASSUME NEW w \in Workers, WorkerStep(w) PROVE CallInv'
  BY <1>1, CallLoop, CallStop, CallConnect, CallSchedule DEF WorkerStep
<1>2. CASE HeartbeatStep
  BY <1>2, CallRest, CallMark, CallSchedule DEF HeartbeatStep
<1>3. ASSUME NEW t \in Traders, CallbackStep(t) \/ HungCheckReturns(t) PROVE CallInv'
  BY <1>3, CallRest, CallMark, CallSchedule DEF CallbackStep
<1>4. ASSUME NEW c \in Callers, CallerStep(c) PROVE CallInv'
  BY <1>4, CallRest
<1>5. CASE MainStep \/ QmtDown \/ QmtUp
  BY <1>5, CallRest, CallStop, CallConnect, CallSchedule DEF MainStep
<1>6. CASE UNCHANGED vars
  BY <1>6 DEF vars, manager, locals, CallInv, Overtaken, NewToCallers
<1> QED BY <1>1, <1>2, <1>3, <1>4, <1>5, <1>6 DEF Next

\* A call that was overtaken, while it waited for the native lock, by the loss or
\* the replacement of its trader or by stop(), is refused: it is never cleared
\* for the SDK.
THEOREM OvertakenCallsAreRefused == Spec => []NoCallOnLostTrader
<1>1. Init => CallInv
  BY ThreadAssumption DEF Init, CallInv, Overtaken, NewToCallers, Connectors
<1>2. CallInv => NoCallOnLostTrader
  BY DEF CallInv, Overtaken, NoCallOnLostTrader
<1> QED BY <1>1, <1>2, CallInvStep, LiveCorrect, PTL DEF Spec

=============================================================================

------------------------- MODULE MaintenanceProofs -------------------------
(***************************************************************************)
(* Theorems about Maintenance, for any sets of requests, stop commands and *)
(* downloads.  The argument: the lock lets one stop command drain at a     *)
(* time; while it drains nobody is admitted, so what it found idle stays   *)
(* idle; without admitted requests no download starts; hence the state it  *)
(* waited for still holds when it has the server closed.                   *)
(***************************************************************************)
EXTENDS ClientCalls, TLAPS

\* The stop command between the lock and its release holds the lock.
LockInv ==
    \A s \in Stops : stopLock = s <=> stop[s] \notin {"idle", "answered"}

\* Requests, and what the gate counts of them.
PhaseInv ==
    \A r \in Requests :
        /\ r \in active <=> phase[r] \in {"admitted", "executing"}
        /\ phase[r] \in {"arrived", "admitted", "executing", "queued"} => r \in replies
        /\ r \in executed => phase[r] \in {"executing", "queued", "written", "cut"}
        /\ phase[r] # "away" => server # "starting"

\* No request is admitted, in execution, or has an executed reply to send.
Quiet ==
    /\ active = {}
    /\ \A r \in executed : phase[r] \in {"written", "cut"}

\* The drain's progress and what it has found idle.
DrainInv ==
    /\ \A s \in Stops :
         /\ stop[s] \in DrainSteps => draining /\ ~closing
         /\ stop[s] = "poll" => Quiet
         /\ stop[s] \in {"wait again", "drained"} => Quiet /\ DownloadsIdle
         /\ stop[s] = "launch" => closing
    /\ closing => draining /\ Quiet /\ DownloadsIdle
    /\ draining => closing \/ \E s \in Stops : stop[s] \in DrainSteps

\* Who closes the server.
CloseInv ==
    /\ closer # "none" => closing
    /\ server = "closed" => interrupted \/ closing
    /\ RepliesSurviveStop

IInv == TypeOK /\ LockInv /\ PhaseInv /\ DrainInv /\ CloseInv

USE DEF gate, runtime, stops, process, downloads, DrainSteps, Enter, StopAt, Conclude

-----------------------------------------------------------------------------
\* Downloads that are over stay over, and none starts by itself.
LEMMA DownloadsStayIdle ==
    ASSUME TypeOK, DownloadStep
    PROVE  /\ life' \in [Tasks -> Downloads!Phases] /\ called' \subseteq Tasks
           /\ DownloadsIdle => DownloadsIdle'
<1> USE DEF DownloadStep, Downloads!Next, TypeOK, DownloadsIdle, Downloads!Active,
            Downloads!Phases, Downloads!Ended
<1>1. CASE Downloads!Advance
  BY <1>1 DEF Downloads!Advance, Downloads!Moves
<1>2. ASSUME NEW t \in Tasks, Downloads!Begin(t) 
      PROVE  /\ life' \in [Tasks -> Downloads!Phases] /\ called' \subseteq Tasks
             /\ DownloadsIdle => DownloadsIdle'
  BY <1>2 DEF Downloads!Begin
<1>3. ASSUME NEW t \in Tasks, Downloads!Execute(t) 
      PROVE  /\ life' \in [Tasks -> Downloads!Phases] /\ called' \subseteq Tasks
             /\ DownloadsIdle => DownloadsIdle'
  BY <1>3 DEF Downloads!Execute
<1> QED BY <1>1, <1>2, <1>3

LEMMA InvInit == ASSUME Init PROVE IInv
BY NoneAssumption DEF Init, Downloads!Init, Downloads!Phases, Downloads!Active, IInv, TypeOK,
   LockInv, PhaseInv, DrainInv, CloseInv, Quiet, DownloadsIdle, RepliesSurviveStop

LEMMA InvArrive == ASSUME IInv, NEW r \in Requests, Arrive(r) PROVE IInv'
<1> USE NoneAssumption DEF Arrive, IInv, TypeOK
<1>1. TypeOK'
  OBVIOUS
<1>2. LockInv'
  BY DEF LockInv
<1>3. PhaseInv'
  BY DEF PhaseInv
<1>4. DrainInv'
  BY DEF LockInv, PhaseInv, DrainInv, Quiet, DownloadsIdle, Downloads!Active
<1>5. CloseInv'
  BY DEF PhaseInv, DrainInv, Quiet, CloseInv, RepliesSurviveStop
<1> QED BY <1>1, <1>2, <1>3, <1>4, <1>5

LEMMA InvAdmit == ASSUME IInv, NEW r \in Requests, Admit(r) PROVE IInv'
<1> USE NoneAssumption DEF Admit, IInv, TypeOK
<1>1. TypeOK'
  OBVIOUS
<1>2. LockInv'
  BY DEF LockInv
<1>3. PhaseInv'
  BY ZenonT(60) DEF PhaseInv
<1>4. DrainInv'
  BY DEF LockInv, PhaseInv, DrainInv, Quiet, DownloadsIdle, Downloads!Active
<1>5. CloseInv'
  BY DEF PhaseInv, DrainInv, Quiet, CloseInv, RepliesSurviveStop
<1> QED BY <1>1, <1>2, <1>3, <1>4, <1>5

LEMMA InvTurnAway == ASSUME IInv, NEW r \in Requests, TurnAway(r) PROVE IInv'
<1> USE NoneAssumption DEF TurnAway, IInv, TypeOK
<1>1. TypeOK'
  OBVIOUS
<1>2. LockInv'
  BY DEF LockInv
<1>3. PhaseInv'
  BY DEF PhaseInv
<1>4. DrainInv'
  BY DEF LockInv, PhaseInv, DrainInv, Quiet, DownloadsIdle, Downloads!Active
<1>5. CloseInv'
  BY DEF PhaseInv, DrainInv, Quiet, CloseInv, RepliesSurviveStop
<1> QED BY <1>1, <1>2, <1>3, <1>4, <1>5

LEMMA InvLeave == ASSUME IInv, NEW r \in Requests, Leave(r) PROVE IInv'
<1> USE NoneAssumption DEF Leave, IInv, TypeOK
<1>1. TypeOK'
  OBVIOUS
<1>2. LockInv'
  BY DEF LockInv
<1>3. PhaseInv'
  BY DEF PhaseInv
<1>4. DrainInv'
  BY DEF LockInv, PhaseInv, DrainInv, Quiet, DownloadsIdle, Downloads!Active
<1>5. CloseInv'
  BY DEF PhaseInv, DrainInv, Quiet, CloseInv, RepliesSurviveStop
<1> QED BY <1>1, <1>2, <1>3, <1>4, <1>5

LEMMA InvWrite == ASSUME IInv, NEW r \in Requests, Write(r) PROVE IInv'
<1> USE NoneAssumption DEF Write, IInv, TypeOK
<1>1. TypeOK'
  OBVIOUS
<1>2. LockInv'
  BY DEF LockInv
<1>3. PhaseInv'
  BY DEF PhaseInv
<1>4. DrainInv'
  BY DEF LockInv, PhaseInv, DrainInv, Quiet, DownloadsIdle, Downloads!Active
<1>5. CloseInv'
  BY DEF PhaseInv, DrainInv, Quiet, CloseInv, RepliesSurviveStop
<1> QED BY <1>1, <1>2, <1>3, <1>4, <1>5

LEMMA InvEndLease == ASSUME IInv, NEW r \in Requests, EndLease(r) PROVE IInv'
<1> USE NoneAssumption DEF EndLease, IInv, TypeOK, LeaseMayEnd
<1>1. TypeOK'
  OBVIOUS
<1>2. LockInv'
  BY DEF LockInv
<1>3. PhaseInv'
  BY DEF PhaseInv
<1>4. DrainInv'
  BY DEF LockInv, PhaseInv, DrainInv, Quiet, DownloadsIdle, Downloads!Active
<1>5. CloseInv'
  BY DEF PhaseInv, DrainInv, Quiet, CloseInv, RepliesSurviveStop
<1> QED BY <1>1, <1>2, <1>3, <1>4, <1>5

LEMMA InvExecute == ASSUME IInv, NEW r \in Requests, Execute(r) PROVE IInv'
<1> USE NoneAssumption DEF Execute, IInv, TypeOK, Downloads!Phases
<1>1. TypeOK'
  BY ZenonT(60)
<1>2. LockInv'
  BY DEF LockInv
<1>3. PhaseInv'
  BY DEF PhaseInv
<1>4. DrainInv'
  BY DEF LockInv, PhaseInv, DrainInv, Quiet, DownloadsIdle, Downloads!Active
<1>5. CloseInv'
  BY DEF PhaseInv, DrainInv, Quiet, CloseInv, RepliesSurviveStop
<1> QED BY <1>1, <1>2, <1>3, <1>4, <1>5

LEMMA InvTryLock == ASSUME IInv, NEW s \in Stops, TryLock(s) PROVE IInv'
<1> USE NoneAssumption DEF TryLock, IInv, TypeOK
<1>1. TypeOK'
  OBVIOUS
<1>2. LockInv'
  <2>1. CASE stopLock = None
    BY <2>1, ZenonT(60) DEF LockInv
  <2>2. CASE stopLock # None
    BY <2>2 DEF LockInv
  <2> QED BY <2>1, <2>2
<1>3. PhaseInv'
  BY DEF PhaseInv
<1>4. DrainInv'
  <2>1. CASE stopLock = None
    BY <2>1, ZenonT(60) DEF LockInv, PhaseInv, DrainInv, Quiet, DownloadsIdle, Downloads!Active
  <2>2. CASE stopLock # None
    <3>1. /\ stop'[s] = "answered"
          /\ \A q \in Stops \ {s} : stop'[q] = stop[q]
      BY <2>2
    <3>2. Quiet' = Quiet /\ DownloadsIdle' = DownloadsIdle
      BY DEF Quiet, DownloadsIdle, Downloads!Active
    <3>3. \A q \in Stops : stop'[q] # "answered" => stop'[q] = stop[q]
      BY <3>1
    <3>4. \A q \in Stops : stop[q] \in DrainSteps => stop'[q] \in DrainSteps
      BY <3>1
    <3> QED BY <3>2, <3>3, <3>4 DEF DrainInv
  <2> QED BY <2>1, <2>2
<1>5. CloseInv'
  BY DEF PhaseInv, DrainInv, Quiet, CloseInv, RepliesSurviveStop
<1> QED BY <1>1, <1>2, <1>3, <1>4, <1>5

LEMMA InvCheckServer == ASSUME IInv, NEW s \in Stops, CheckServer(s) PROVE IInv'
<1> USE NoneAssumption DEF CheckServer, IInv, TypeOK
<1>1. TypeOK'
  OBVIOUS
<1>2. LockInv'
  BY DEF LockInv
<1>3. PhaseInv'
  BY DEF PhaseInv
<1>4. DrainInv'
  BY ZenonT(60) DEF LockInv, PhaseInv, DrainInv, Quiet, DownloadsIdle, Downloads!Active
<1>5. CloseInv'
  BY DEF PhaseInv, DrainInv, Quiet, CloseInv, RepliesSurviveStop
<1> QED BY <1>1, <1>2, <1>3, <1>4, <1>5

LEMMA InvBeginDrain == ASSUME IInv, NEW s \in Stops, BeginDrain(s) PROVE IInv'
<1> USE NoneAssumption DEF BeginDrain, IInv, TypeOK, AfterRefusedDrain
<1>1. TypeOK'
  OBVIOUS
<1>2. LockInv'
  BY DEF LockInv
<1>3. PhaseInv'
  BY DEF PhaseInv
<1>4. DrainInv'
  BY ZenonT(60) DEF LockInv, PhaseInv, DrainInv, Quiet, DownloadsIdle, Downloads!Active
<1>5. CloseInv'
  BY DEF PhaseInv, DrainInv, Quiet, CloseInv, RepliesSurviveStop
<1> QED BY <1>1, <1>2, <1>3, <1>4, <1>5

LEMMA InvWaited == ASSUME IInv, NEW s \in Stops, Waited(s) PROVE IInv'
<1> USE NoneAssumption DEF Waited, IInv, TypeOK, RequestsIdle
<1>1. TypeOK'
  BY ZenonT(60)
<1>2. LockInv'
  BY ZenonT(60) DEF LockInv
<1>3. PhaseInv'
  BY DEF PhaseInv
<1>4. DrainInv'
  BY ZenonT(60) DEF LockInv, PhaseInv, DrainInv, Quiet, DownloadsIdle, Downloads!Active
<1>5. CloseInv'
  BY DEF PhaseInv, DrainInv, Quiet, CloseInv, RepliesSurviveStop
<1> QED BY <1>1, <1>2, <1>3, <1>4, <1>5

LEMMA InvTimesOut == ASSUME IInv, NEW s \in Stops, TimesOut(s) PROVE IInv'
<1> USE NoneAssumption DEF TimesOut, IInv, TypeOK, MayTimeOut
<1>1. TypeOK'
  OBVIOUS
<1>2. LockInv'
  BY DEF LockInv
<1>3. PhaseInv'
  BY DEF PhaseInv
<1>4. DrainInv'
  BY DEF LockInv, PhaseInv, DrainInv, Quiet, DownloadsIdle, Downloads!Active
<1>5. CloseInv'
  BY DEF PhaseInv, DrainInv, Quiet, CloseInv, RepliesSurviveStop
<1> QED BY <1>1, <1>2, <1>3, <1>4, <1>5

LEMMA InvRestore == ASSUME IInv, NEW s \in Stops, Restore(s) PROVE IInv'
<1> USE NoneAssumption DEF Restore, IInv, TypeOK
<1>1. TypeOK'
  OBVIOUS
<1>2. LockInv'
  BY DEF LockInv
<1>3. PhaseInv'
  BY DEF PhaseInv
<1>4. DrainInv'
  BY DEF LockInv, PhaseInv, DrainInv, Quiet, DownloadsIdle, Downloads!Active
<1>5. CloseInv'
  BY DEF PhaseInv, DrainInv, Quiet, CloseInv, RepliesSurviveStop
<1> QED BY <1>1, <1>2, <1>3, <1>4, <1>5

LEMMA InvSetClosing == ASSUME IInv, NEW s \in Stops, SetClosing(s) PROVE IInv'
<1> USE NoneAssumption DEF SetClosing, IInv, TypeOK
<1>1. TypeOK'
  OBVIOUS
<1>2. LockInv'
  BY DEF LockInv
<1>3. PhaseInv'
  BY DEF PhaseInv
<1>4. DrainInv'
  BY DEF LockInv, PhaseInv, DrainInv, Quiet, DownloadsIdle, Downloads!Active
<1>5. CloseInv'
  BY DEF PhaseInv, DrainInv, Quiet, CloseInv, RepliesSurviveStop
<1> QED BY <1>1, <1>2, <1>3, <1>4, <1>5

LEMMA InvLaunchClose == ASSUME IInv, NEW s \in Stops, LaunchClose(s) PROVE IInv'
<1> USE NoneAssumption DEF LaunchClose, IInv, TypeOK
<1>1. TypeOK'
  OBVIOUS
<1>2. LockInv'
  BY DEF LockInv
<1>3. PhaseInv'
  BY DEF PhaseInv
<1>4. DrainInv'
  BY DEF LockInv, PhaseInv, DrainInv, Quiet, DownloadsIdle, Downloads!Active
<1>5. CloseInv'
  BY DEF PhaseInv, DrainInv, Quiet, CloseInv, RepliesSurviveStop
<1> QED BY <1>1, <1>2, <1>3, <1>4, <1>5

LEMMA InvUnlock == ASSUME IInv, NEW s \in Stops, Unlock(s) PROVE IInv'
<1> USE NoneAssumption DEF Unlock, IInv, TypeOK
<1>1. TypeOK'
  OBVIOUS
<1>2. LockInv'
  BY DEF LockInv
<1>3. PhaseInv'
  BY DEF PhaseInv
<1>4. DrainInv'
  BY DEF LockInv, PhaseInv, DrainInv, Quiet, DownloadsIdle, Downloads!Active
<1>5. CloseInv'
  BY DEF PhaseInv, DrainInv, Quiet, CloseInv, RepliesSurviveStop
<1> QED BY <1>1, <1>2, <1>3, <1>4, <1>5

LEMMA InvServe == ASSUME IInv, Serve PROVE IInv'
<1> USE NoneAssumption DEF Serve, IInv, TypeOK
<1>1. TypeOK'
  OBVIOUS
<1>2. LockInv'
  BY DEF LockInv
<1>3. PhaseInv'
  BY DEF PhaseInv
<1>4. DrainInv'
  BY DEF LockInv, PhaseInv, DrainInv, Quiet, DownloadsIdle, Downloads!Active
<1>5. CloseInv'
  BY DEF PhaseInv, DrainInv, Quiet, CloseInv, RepliesSurviveStop
<1> QED BY <1>1, <1>2, <1>3, <1>4, <1>5

LEMMA InvClose == ASSUME IInv, Close PROVE IInv'
<1> USE NoneAssumption DEF Close, IInv, TypeOK
<1>1. TypeOK'
  OBVIOUS
<1>2. LockInv'
  BY DEF LockInv
<1>3. PhaseInv'
  BY DEF PhaseInv
<1>4. DrainInv'
  BY DEF LockInv, PhaseInv, DrainInv, Quiet, DownloadsIdle, Downloads!Active
<1>5. CloseInv'
  BY DEF PhaseInv, DrainInv, Quiet, CloseInv, RepliesSurviveStop
<1> QED BY <1>1, <1>2, <1>3, <1>4, <1>5

LEMMA InvInterrupt == ASSUME IInv, Interrupt PROVE IInv'
<1> USE NoneAssumption DEF Interrupt, IInv, TypeOK
<1>1. TypeOK'
  OBVIOUS
<1>2. LockInv'
  BY DEF LockInv
<1>3. PhaseInv'
  BY DEF PhaseInv
<1>4. DrainInv'
  BY DEF LockInv, PhaseInv, DrainInv, Quiet, DownloadsIdle, Downloads!Active
<1>5. CloseInv'
  BY DEF PhaseInv, DrainInv, Quiet, CloseInv, RepliesSurviveStop
<1> QED BY <1>1, <1>2, <1>3, <1>4, <1>5

LEMMA InvFinish == ASSUME IInv, Finish PROVE IInv'
<1> USE NoneAssumption DEF Finish, IInv, TypeOK
<1>1. TypeOK'
  OBVIOUS
<1>2. LockInv'
  BY DEF LockInv
<1>3. PhaseInv'
  BY DEF PhaseInv
<1>4. DrainInv'
  BY DEF LockInv, PhaseInv, DrainInv, Quiet, DownloadsIdle, Downloads!Active
<1>5. CloseInv'
  BY DEF PhaseInv, DrainInv, Quiet, CloseInv, RepliesSurviveStop
<1> QED BY <1>1, <1>2, <1>3, <1>4, <1>5

LEMMA InvDownloadStep == ASSUME IInv, DownloadStep PROVE IInv'
<1>1. /\ life' \in [Tasks -> Downloads!Phases] /\ called' \subseteq Tasks
      /\ DownloadsIdle => DownloadsIdle'
  BY DownloadsStayIdle DEF IInv
<1>2. UNCHANGED <<gate, runtime, phase, stops, process, executed>>
  BY DEF DownloadStep
<1> USE DEF IInv
<1>3. TypeOK'
  BY <1>1, <1>2 DEF TypeOK
<1>4. LockInv' /\ PhaseInv' /\ CloseInv'
  BY <1>2 DEF LockInv, PhaseInv, CloseInv, RepliesSurviveStop
<1>5. DrainInv'
  BY <1>1, <1>2 DEF DrainInv, Quiet
<1> QED BY <1>3, <1>4, <1>5

LEMMA InvStutter == ASSUME IInv, UNCHANGED vars PROVE IInv'
BY DEF vars, IInv, TypeOK, LockInv, PhaseInv, DrainInv, CloseInv, Quiet, DownloadsIdle,
       Downloads!Active, RepliesSurviveStop

LEMMA InvNext == ASSUME IInv, [Next]_vars PROVE IInv'
<1>1. ASSUME NEW r \in Requests, Arrive(r) \/ Execute(r) \/ ReplyStep(r) PROVE IInv'
  BY <1>1, InvArrive, InvExecute, InvTurnAway, InvAdmit, InvLeave, InvWrite, InvEndLease DEF ReplyStep
<1>2. ASSUME NEW s \in Stops, TryLock(s) \/ StopStep(s) PROVE IInv'
  BY <1>2, InvTryLock, InvCheckServer, InvBeginDrain, InvWaited, InvTimesOut, InvRestore,
     InvSetClosing, InvLaunchClose, InvUnlock DEF StopStep
<1>3. CASE ProcessStep \/ Interrupt
  BY <1>3, InvServe, InvClose, InvFinish, InvInterrupt DEF ProcessStep
<1> QED BY <1>1, <1>2, <1>3, InvDownloadStep, InvStutter DEF Next

LEMMA Invariance == Spec => []IInv
BY InvInit, InvNext, PTL DEF Spec

\* Every variable keeps its type.
THEOREM TypeCorrect == Spec => []TypeOK
BY Invariance, PTL DEF IInv

\* When the server is to close, no admitted request and no queued or running
\* download is left.
THEOREM OrderlyStopLosesNothing == Spec => []NothingLeftAtClose
<1>1. IInv => NothingLeftAtClose
  BY DEF IInv, DrainInv, Quiet, NothingLeftAtClose
<1> QED BY <1>1, Invariance, PTL

\* Without an interrupt, the reply of every executed request is written.
THEOREM RepliesAreWritten == Spec => []RepliesSurviveStop
BY Invariance, PTL DEF IInv, CloseInv

\* The gate is shut by a drain in progress or by one that succeeded, and is not
\* opened again once the server is to close.
THEOREM GateServesTheStop == Spec => []ShutExactlyForStop
<1>1. IInv => ShutExactlyForStop
  BY DEF IInv, DrainInv, ShutExactlyForStop
<1> QED BY <1>1, Invariance, PTL

-----------------------------------------------------------------------------
\* What ClientCalls adds: the way of a mutation's call.

ClientTypeOK ==
    /\ runs \in [Mutations -> {0, 1}]
    /\ reply \in [Mutations -> Outcomes]
    /\ told \in [Mutations -> {"waiting", "ok", "not_executed", "unknown"}]

\* The reply is fixed when the call leaves the handler or is refused, and only
\* an unknown outcome leaves open whether QMT is still to be called.
ReplyInv ==
    \A c \in Mutations :
        /\ reply[c] = "none" <=> phase[c] \in {"away", "arrived", "admitted", "executing"}
        /\ phase[c] \in {"away", "arrived", "admitted"} => runs[c] = 0
        /\ reply[c] = "ok" => runs[c] = 1
        /\ reply[c] \in {"not_executed", "no context"} => runs[c] = 0

\* A caller that was told for good has the reply, or never sent the request.
ToldInv ==
    \A c \in Mutations :
        /\ phase[c] \in {"arrived", "admitted", "executing"} => told[c] \in {"waiting", "unknown"}
        /\ reply[c] \in {"unknown", "no context"} => told[c] \in {"waiting", "unknown"}
        /\ told[c] = "ok" => reply[c] = "ok"

ClientInv == ClientTypeOK /\ ReplyInv /\ ToldInv

\* Every step of a request, of a stop command and of the process is one of
\* Maintenance's.
LEMMA ClientStepIsServerStep == ASSUME ClientNext PROVE [Next]_vars
BY DEF ClientNext, ServerStep, Next, ReplyStep, ArriveSent, AdmitOrRefuse, RefuseEarly,
       BeginHandler, EndHandler, NotSent, GiveUp, CallQmt, Receive

LEMMA ClientInvInit == ASSUME ClientInit PROVE ClientInv
BY MutationsAssumption DEF ClientInit, Init, Promise!Init, ClientInv, ClientTypeOK, ReplyInv,
   ToldInv, Outcomes

\* What a caller is told agrees with the promise, and leaves the invariant.
LEMMA ClientTold ==
    ASSUME TypeOK, ClientInv, NEW c \in Mutations, NotSent(c) \/ GiveUp(c) \/ Receive(c)
    PROVE  ClientInv' /\ Promise!Next
<1> USE MutationsAssumption DEF TypeOK, ClientInv, ClientTypeOK, Told, Promise!Tell,
        Promise!Answers, Promise!Next
<1>1. CASE NotSent(c)
  <2>1. ClientInv'
    BY <1>1 DEF NotSent, ReplyInv, ToldInv, vars
  <2>2. Promise!Tell(c, "not_executed")
    BY <1>1 DEF NotSent, ReplyInv
  <2> QED BY <2>1, <2>2
<1>2. CASE GiveUp(c)
  <2>1. ClientInv'
    BY <1>2 DEF GiveUp, ReplyInv, ToldInv, vars
  <2>2. Promise!Tell(c, "unknown")
    BY <1>2 DEF GiveUp
  <2> QED BY <2>1, <2>2
<1>3. CASE Receive(c)
  <2> DEFINE a == IF reply[c] = "no context" THEN "unknown" ELSE reply[c]
  <2>1. a \in {"ok", "not_executed", "unknown"}
    BY <1>3 DEF Receive, ReplyInv, Outcomes
  <2>2. ClientInv'
    BY <1>3, <2>1 DEF Receive, ReplyInv, ToldInv, vars
  <2>3. Promise!Tell(c, a)
    BY <1>3, <2>1 DEF Receive, ReplyInv
  <2> HIDE DEF a
  <2> QED BY <2>1, <2>2, <2>3
<1> QED BY <1>1, <1>2, <1>3

\* The operation runs.
LEMMA ClientRuns ==
    ASSUME TypeOK, ClientInv, NEW c \in Mutations, CallQmt(c)
    PROVE  ClientInv' /\ Promise!Next
<1> USE MutationsAssumption DEF TypeOK, ClientInv, ClientTypeOK, CallQmt
<1>1. ClientInv'
  BY DEF ReplyInv, ToldInv, vars
<1>2. told[c] \in {"waiting", "unknown"}
  BY DEF ReplyInv, ToldInv
<1>3. Promise!Run(c)
  BY <1>2 DEF Promise!Run
<1> QED BY <1>1, <1>3 DEF Promise!Next

LEMMA ClientBegins ==
    ASSUME TypeOK, ClientInv, NEW r \in Requests, BeginHandler(r)
    PROVE  ClientInv' /\ [Promise!Next]_<<runs, told>>
<1> USE MutationsAssumption DEF TypeOK, ClientInv, ClientTypeOK, BeginHandler, Execute
<1>1. ClientTypeOK'
  OBVIOUS
<1>2. phase' = [phase EXCEPT ![r] = "executing"] /\ phase[r] = "admitted"
  OBVIOUS
<1>3. ReplyInv'
  BY <1>2 DEF ReplyInv
<1>4. ToldInv'
  BY <1>2 DEF ToldInv
<1>5. CASE r \in Mutations /\ life' # life
  <2>1. runs[r] = 0 /\ told[r] \in {"waiting", "unknown"}
    BY <1>2, <1>5 DEF ReplyInv, ToldInv
  <2>2. runs' = [runs EXCEPT ![r] = 1]
    BY <1>5
  <2>3. Promise!Run(r)
    BY <2>1, <2>2 DEF Promise!Run
  <2> QED BY <1>1, <1>3, <1>4, <1>5, <2>3 DEF Promise!Next
<1>6. CASE r \notin Mutations \/ life' = life
  <2>1. runs' = runs
    BY <1>6
  <2> QED BY <1>1, <1>3, <1>4, <2>1
<1> QED BY <1>5, <1>6

\* The steps of a request that neither run the operation nor tell anybody.
LEMMA ClientRequest ==
    ASSUME TypeOK, ClientInv, NEW r \in Requests,
           ArriveSent(r) \/ AdmitOrRefuse(r) \/ RefuseEarly(r) \/ EndHandler(r)
    PROVE  ClientInv' /\ UNCHANGED <<runs, told>>
<1> USE MutationsAssumption DEF TypeOK, ClientInv, ClientTypeOK
<1>1. CASE ArriveSent(r)
  BY <1>1 DEF ArriveSent, Arrive, client, ReplyInv, ToldInv
<1>2. CASE AdmitOrRefuse(r)
  <2>1. CASE draining
    <3>1. /\ phase[r] = "arrived" /\ phase' = [phase EXCEPT ![r] = "queued"]
          /\ runs' = runs /\ told' = told
          /\ reply' = IF r \in Mutations THEN [reply EXCEPT ![r] = "not_executed"] ELSE reply
      BY <1>2, <2>1 DEF AdmitOrRefuse, Admit, Reply
    <3>2. ClientTypeOK'
      BY <3>1 DEF Outcomes
    <3> QED BY <3>1, <3>2 DEF ReplyInv, ToldInv
  <2>2. CASE ~draining
    <3>1. /\ phase[r] = "arrived" /\ phase' = [phase EXCEPT ![r] = "admitted"]
          /\ runs' = runs /\ told' = told /\ reply' = reply
      BY <1>2, <2>2 DEF AdmitOrRefuse, Admit
    <3> QED BY <3>1 DEF ReplyInv, ToldInv
  <2> QED BY <2>1, <2>2
<1>3. CASE RefuseEarly(r)
  <2>1. /\ phase[r] = "arrived" /\ phase' = [phase EXCEPT ![r] = "queued"]
        /\ runs' = runs /\ told' = told
    BY <1>3 DEF RefuseEarly, TurnAway
  <2>2. CASE r \in Mutations
    <3>1. PICK o \in {"not_executed", "no context"} : reply' = [reply EXCEPT ![r] = o]
      BY <1>3, <2>2 DEF RefuseEarly, Reply
    <3>2. ClientTypeOK'
      BY <2>1, <3>1 DEF Outcomes
    <3> QED BY <2>1, <3>1, <3>2 DEF ReplyInv, ToldInv
  <2>3. CASE r \notin Mutations
    <3>1. reply' = reply
      BY <1>3, <2>3 DEF RefuseEarly, Reply
    <3> QED BY <2>1, <2>3, <3>1 DEF ReplyInv, ToldInv
  <2> QED BY <2>2, <2>3
<1>4. CASE EndHandler(r)
  <2>1. /\ phase[r] = "executing" /\ phase' = [phase EXCEPT ![r] = "queued"]
        /\ runs' = runs /\ told' = told
    BY <1>4 DEF EndHandler, Leave
  <2>2. CASE r \in Mutations
    <3>1. PICK o \in OutcomeOf(r) : reply' = [reply EXCEPT ![r] = o]
      BY <1>4, <2>2 DEF EndHandler, Reply
    <3>2. /\ o \in {"ok", "unknown", "not_executed"}
          /\ o = "ok" => runs[r] = 1
          /\ o = "not_executed" => runs[r] = 0
      BY <2>2 DEF OutcomeOf
    <3>3. ClientTypeOK'
      BY <2>1, <3>1, <3>2 DEF Outcomes
    <3> QED BY <2>1, <3>1, <3>2, <3>3 DEF ReplyInv, ToldInv
  <2>3. CASE r \notin Mutations
    <3>1. reply' = reply
      BY <1>4, <2>3 DEF EndHandler, Reply
    <3> QED BY <2>1, <2>3, <3>1 DEF ReplyInv, ToldInv
  <2> QED BY <2>2, <2>3
<1> QED BY <1>1, <1>2, <1>3, <1>4

LEMMA ClientServerStep ==
    ASSUME TypeOK, ClientInv, ServerStep
    PROVE  ClientInv' /\ UNCHANGED <<runs, told>>
<1> USE MutationsAssumption DEF TypeOK, ClientInv, ClientTypeOK
<1>1. UNCHANGED <<runs, reply, told>>
  BY DEF ServerStep, client
<1>2. ASSUME NEW r \in Requests, Write(r) PROVE ClientInv'
  BY <1>1, <1>2 DEF Write, ReplyInv, ToldInv
<1>3. CASE ~\E r \in Requests : Write(r)
  <2>1. phase' = phase
    BY <1>3 DEF ServerStep, EndLease, DownloadStep, TryLock, StopStep, CheckServer, BeginDrain,
       Waited, TimesOut, Restore, SetClosing, LaunchClose, Unlock, ProcessStep, Serve, Close,
       Finish, Interrupt
  <2> QED BY <1>1, <2>1 DEF ReplyInv, ToldInv
<1> QED BY <1>1, <1>2, <1>3

\* Every step keeps the invariant, and is a step of the promise or none.
LEMMA ClientStep ==
    ASSUME TypeOK, ClientInv, [ClientNext]_allVars
    PROVE  ClientInv' /\ [Promise!Next]_<<runs, told>>
<1>1. CASE UNCHANGED allVars
  BY <1>1 DEF allVars, vars, client, ClientInv, ClientTypeOK, ReplyInv, ToldInv
<1>2. CASE ClientNext
  BY <1>2, ClientTold, ClientRuns, ClientBegins, ClientRequest, ClientServerStep DEF ClientNext
<1> QED BY <1>1, <1>2

LEMMA ClientSpecIsSpec == ClientSpec => Spec
<1>1. ClientInit => Init
  BY DEF ClientInit
<1>2. [ClientNext]_allVars => [Next]_vars
  <2>1. UNCHANGED allVars => UNCHANGED vars
    BY DEF allVars
  <2> QED BY <2>1, ClientStepIsServerStep
<1> QED BY <1>1, <1>2, PTL DEF ClientSpec, Spec

\* Whatever the server refuses while it drains, whichever request hangs, and
\* wherever the connection breaks: the operation of a call runs at most once,
\* never after its caller was told that it was not executed, and always before
\* its caller is told that it succeeded.
THEOREM UncertaintyIsNeverRejection == ClientSpec => MutationsKeepPromise
<1>1. ClientInit => ClientInv /\ Promise!Init
  BY ClientInvInit DEF ClientInit
<1>2. TypeOK /\ ClientInv /\ [ClientNext]_allVars => ClientInv' /\ [Promise!Next]_<<runs, told>>
  BY ClientStep
<1>3. ClientSpec => []TypeOK
  BY ClientSpecIsSpec, TypeCorrect, PTL
<1> QED BY <1>1, <1>2, <1>3, PTL DEF ClientSpec, MutationsKeepPromise, Promise!Spec

=============================================================================

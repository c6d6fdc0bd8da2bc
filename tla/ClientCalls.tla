----------------------------- MODULE ClientCalls -----------------------------
(***************************************************************************)
(* Calls of clients that order, cancel or start a download, from the       *)
(* client's invoke (transport/messages.py) through the server that may be  *)
(* told to stop meanwhile (Maintenance) and back: what the dispatcher      *)
(* answers in each phase of a call (server/dispatch.py), and what the      *)
(* client tells its caller.  Other calls, whose outcome does not matter,   *)
(* are known by their way through the server alone.                        *)
(***************************************************************************)
EXTENDS Maintenance

CONSTANT Mutations  \* the requests that order, cancel or start a download

ASSUME MutationsAssumption == Mutations \subseteq Requests

VARIABLES
    runs,   \* how often the operation was begun in QMT, or its task entered
    reply,  \* the outcome the server's reply reports
    told    \* what invoke told its caller, see MutationCall

client == <<runs, reply, told>>
allVars == <<vars, client>>

Promise == INSTANCE MutationCall WITH Calls <- Mutations

Outcomes == {"none", "ok", "not_executed", "unknown", "no context"}

ClientInit ==
    /\ Init
    /\ Promise!Init
    /\ reply = [c \in Mutations |-> "none"]

-----------------------------------------------------------------------------
\* The reply of request r, if anybody will ask what it says.
Reply(r, outcomes) ==
    IF r \in Mutations
    THEN \E o \in outcomes : reply' = [reply EXCEPT ![r] = o]
    ELSE UNCHANGED reply

Told(c, what) ==
    /\ told[c] = "waiting"
    /\ told' = [told EXCEPT ![c] = what]

\* invoke before it sends: the client is closed, or the arguments are invalid.
NotSent(c) ==
    /\ phase[c] = "away"
    /\ Told(c, "not_executed")
    /\ UNCHANGED <<vars, runs, reply>>

\* connection.root.call raises, or what it returns is no valid reply.  The
\* request may be on its way, being executed, or answered.
GiveUp(c) ==
    /\ Told(c, "unknown")
    /\ UNCHANGED <<vars, runs, reply>>

\* What was sent arrives, if it does, however late.
ArriveSent(r) ==
    /\ r \in Mutations => told[r] \in {"waiting", "unknown"}
    /\ Arrive(r)
    /\ UNCHANGED client

\* SERVER_DRAINING is reported as not executed.
AdmitOrRefuse(r) ==
    /\ Admit(r)
    /\ IF draining THEN Reply(r, {"not_executed"}) ELSE UNCHANGED reply
    /\ UNCHANGED <<runs, told>>

\* Other refusals too; before the envelope is read, without naming the request.
RefuseEarly(r) ==
    /\ TurnAway(r)
    /\ Reply(r, {"not_executed", "no context"})
    /\ UNCHANGED <<runs, told>>

\* The handler begins; only a mutation enters a download.
BeginHandler(r) ==
    /\ Execute(r)
    /\ r \notin Mutations => UNCHANGED life
    /\ runs' = [c \in Mutations |-> IF c = r /\ life' # life THEN 1 ELSE runs[c]]
    /\ UNCHANGED <<reply, told>>

\* QMT is called; a call whose outcome was given up as unknown may still be made.
CallQmt(c) ==
    /\ phase[c] = "executing" \/ reply[c] = "unknown"
    /\ runs[c] = 0
    /\ runs' = [runs EXCEPT ![c] = 1]
    /\ UNCHANGED <<vars, reply, told>>

OutcomeByPhaseSetLate(c) ==  \* mutant: phase is set when the handler has returned
    IF runs[c] = 1 THEN {"ok", "unknown", "not_executed"} ELSE {"unknown", "not_executed"}
\* What the handler of a mutation may end with: a result; a refusal of the
\* provider before it called QMT; any other exception, and a result that does
\* not validate.
OutcomeOf(c) ==
    IF runs[c] = 1 THEN {"ok", "unknown"} ELSE {"unknown", "not_executed"}

EndHandler(r) ==
    /\ Leave(r)
    /\ Reply(r, IF r \in Mutations THEN OutcomeOf(r) ELSE {})
    /\ UNCHANGED <<runs, told>>

\* The reply is read: one that does not name the request is as good as none.
Receive(c) ==
    /\ phase[c] = "written"
    /\ Told(c, IF reply[c] = "no context" THEN "unknown" ELSE reply[c])
    /\ UNCHANGED <<vars, runs, reply>>

-----------------------------------------------------------------------------
ServerStep ==
    /\ \/ \E r \in Requests : Write(r) \/ EndLease(r)
       \/ DownloadStep
       \/ \E s \in Stops : TryLock(s) \/ StopStep(s)
       \/ ProcessStep
       \/ Interrupt
    /\ UNCHANGED client

ClientNext ==
    \/ \E r \in Requests : ArriveSent(r) \/ AdmitOrRefuse(r) \/ RefuseEarly(r)
                              \/ BeginHandler(r) \/ EndHandler(r)
    \/ \E c \in Mutations : NotSent(c) \/ GiveUp(c) \/ CallQmt(c) \/ Receive(c)
    \/ ServerStep

ClientSpec ==
    /\ ClientInit /\ [][ClientNext]_allVars
    /\ \A s \in Stops : WF_allVars(StopStep(s) /\ UNCHANGED client)
    /\ WF_allVars(ProcessStep /\ UNCHANGED client)

-----------------------------------------------------------------------------
\* "Execution uncertainty is never inferred as rejection": the operation of a
\* call runs at most once, its caller is told that it was not executed only if
\* it never runs, and that it succeeded only if it did, whatever the server
\* refuses while it drains, whichever request hangs, and wherever the
\* connection breaks.
MutationsKeepPromise == Promise!Spec
=============================================================================

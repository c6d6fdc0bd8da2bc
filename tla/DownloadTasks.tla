---------------------------- MODULE DownloadTasks ----------------------------
(***************************************************************************)
(* DownloadTaskManager of server/downloads.py: client threads submitting   *)
(* downloads, the executor's worker threads running them, progress         *)
(* callbacks of the SDK, fail_pending, and the shutdown of the server.     *)
(*                                                                         *)
(* Every `with self._lock` block is one action; so is one call of the      *)
(* executor or of a future.  The executor may take queued work in any      *)
(* order.  Each task has one submitter, named by the task.                 *)
(***************************************************************************)
EXTENDS Naturals, FiniteSets

CONSTANTS
    Tasks,         \* identities of downloads: uuid4, never reused
    MaxWorkers,    \* max_workers
    MaxCompleted,  \* max_completed
    Clock,         \* values of datetime.now(); two calls may read the same
    FailPendings   \* how often fail_pending is called, at most

ASSUME BoundAssumption ==
    /\ MaxWorkers \in Nat \ {0}
    /\ MaxCompleted \in Nat \ {0}
    /\ Clock \subseteq Nat
    /\ FailPendings \in Nat

VARIABLES
    \* attributes of the manager
    tasks,        \* keys of _tasks
    futures,      \* keys of _futures
    accepting,    \* _accepting
    \* the DownloadTask objects; a submitter keeps its own when it was pruned
    status,       \* status, "new" before submit() inserts it
    error,        \* error, "none" unless it is set
    submittedAt,  \* submitted_at
    result,       \* tasks whose result was stored
    progress,     \* tasks whose progress was stored
    \* threads
    submitter,    \* the step of submit() the submitter of each task takes next
    worker,       \* the step of _run_* the executor takes next with each task
    doomed,       \* fail_pending's futures still to cancel
    closer,       \* the step of shutdown()
    \* the executor and its futures
    shut,         \* the executor takes no more work
    future,       \* state of each future
    callback,     \* the done callback of each future
    \* history
    executed,     \* tasks whose SDK function was called
    failures      \* calls of fail_pending so far

objects == <<status, error, submittedAt, result, progress>>
threads == <<submitter, worker, doomed, closer>>
executor == <<shut, future, callback>>
vars == <<tasks, futures, accepting, objects, threads, executor, executed, failures>>

Finished == {"completed", "failed"}

Init ==
    /\ tasks = {} /\ futures = {} /\ accepting = TRUE
    /\ status = [t \in Tasks |-> "new"]
    /\ error = [t \in Tasks |-> "none"]
    /\ submittedAt = [t \in Tasks |-> 0]
    /\ result = {} /\ progress = {}
    /\ submitter = [t \in Tasks |-> "start"]
    /\ worker = [t \in Tasks |-> "none"]
    /\ doomed = {}
    /\ closer = "start"
    /\ shut = FALSE
    /\ future = [t \in Tasks |-> "none"]
    /\ callback = [t \in Tasks |-> "none"]
    /\ executed = {}
    /\ failures = 0

-----------------------------------------------------------------------------
PrunableAny(ids, st) == ids  \* mutant: live tasks are dropped too
Prunable(ids, st) == {t \in ids : st[t] \in Finished}

Excess(ids) == Cardinality(ids) - MaxCompleted

\* _prune_locked: above the bound the finished tasks submitted first are
\* dropped, all of them if need be; equal times are ordered by the random ids.
Pruned(ids, st) ==
    LET over == Prunable(ids, st)
    IN  IF Cardinality(ids) <= MaxCompleted THEN {ids}
        ELSE {ids \ d : d \in {d \in SUBSET over :
                 /\ Cardinality(d) = IF Excess(ids) < Cardinality(over)
                                     THEN Excess(ids) ELSE Cardinality(over)
                 /\ \A t \in d, u \in over \ d : submittedAt[t] <= submittedAt[u]}}

Prune(ids) == tasks' \in Pruned(ids, status')

Fail(ids, why) ==
    /\ status' = [t \in Tasks |-> IF t \in ids THEN "failed" ELSE status[t]]
    /\ error' = [t \in Tasks |-> IF t \in ids THEN why ELSE error[t]]

\* Future.cancel: a future that is running or done stays as it is.
CancelFuture(ids) ==
    future' = [t \in Tasks |-> IF t \in ids /\ future[t] = "pending"
                               THEN "cancelled" ELSE future[t]]

-----------------------------------------------------------------------------
\* submit: the task object is made, with the time, before the lock is taken.
Stamp(t) ==
    /\ submitter[t] = "start"
    /\ \E now \in Clock : submittedAt' = [submittedAt EXCEPT ![t] = now]
    /\ submitter' = [submitter EXCEPT ![t] = "insert"]
    /\ UNCHANGED <<tasks, futures, accepting, status, error, result, progress,
                   worker, doomed, closer, executor, executed, failures>>

\* Under the lock: the task is entered as pending, or refused as failed.
Insert(t) ==
    /\ submitter[t] = "insert"
    /\ IF accepting
       THEN /\ status' = [status EXCEPT ![t] = "pending"]
            /\ submitter' = [submitter EXCEPT ![t] = "execute"]
            /\ UNCHANGED error
       ELSE /\ Fail({t}, "refused")
            /\ submitter' = [submitter EXCEPT ![t] = "returned"]
    /\ Prune(tasks \cup {t})
    /\ UNCHANGED <<futures, accepting, submittedAt, result, progress, worker,
                   doomed, closer, executor, executed, failures>>

\* executor.submit: the work is queued, or refused by an executor shut down.
Enqueue(t) ==
    /\ submitter[t] = "execute"
    /\ IF shut
       THEN submitter' = [submitter EXCEPT ![t] = "refused"] /\ UNCHANGED <<worker, future>>
       ELSE /\ submitter' = [submitter EXCEPT ![t] = "register"]
            /\ worker' = [worker EXCEPT ![t] = "queued"]
            /\ future' = [future EXCEPT ![t] = "pending"]
    /\ UNCHANGED <<tasks, futures, accepting, objects, doomed, closer, shut,
                   callback, executed, failures>>

\* except RuntimeError: the task object fails, in the table or not.
SubmitFails(t) ==
    /\ submitter[t] = "refused"
    /\ Fail({t}, "submit failed")
    /\ submitter' = [submitter EXCEPT ![t] = "returned"]
    /\ Prune(tasks)
    /\ UNCHANGED <<futures, accepting, submittedAt, result, progress, worker,
                   doomed, closer, executor, executed, failures>>

\* Under the lock: the future is registered, and a failure by now is noted.
Register(t) ==
    /\ submitter[t] = "register"
    /\ futures' = futures \cup {t}
    /\ submitter' = [submitter EXCEPT ![t] =
                        IF status[t] = "failed" THEN "hook_cancel" ELSE "hook"]
    /\ UNCHANGED <<tasks, accepting, objects, worker, doomed, closer, executor,
                   executed, failures>>

\* future.add_done_callback: called at once by a future that is done already.
Hook(t) ==
    /\ submitter[t] \in {"hook", "hook_cancel"}
    /\ callback' = [callback EXCEPT ![t] = "set"]
    /\ submitter' = [submitter EXCEPT ![t] =
                        IF @ = "hook" THEN "returned" ELSE "cancel"]
    /\ UNCHANGED <<tasks, futures, accepting, objects, worker, doomed, closer,
                   shut, future, executed, failures>>

CancelSubmitted(t) ==
    /\ submitter[t] = "cancel"
    /\ CancelFuture({t})
    /\ submitter' = [submitter EXCEPT ![t] = "returned"]
    /\ UNCHANGED <<tasks, futures, accepting, objects, worker, doomed, closer,
                   shut, callback, executed, failures>>

-----------------------------------------------------------------------------
Busy == {t \in Tasks : worker[t] \notin {"none", "queued", "over"}}

\* A worker thread takes a queued item; a cancelled future is passed over.
Pick(t) ==
    /\ worker[t] = "queued"
    /\ Cardinality(Busy) < MaxWorkers
    /\ IF future[t] = "pending"
       THEN /\ future' = [future EXCEPT ![t] = "running"]
            /\ worker' = [worker EXCEPT ![t] = "begin"]
       ELSE /\ worker' = [worker EXCEPT ![t] = "over"]
            /\ UNCHANGED future
    /\ UNCHANGED <<tasks, futures, accepting, objects, submitter, doomed, closer,
                   shut, callback, executed, failures>>

BeginsAnyway(t) == t \in tasks  \* mutant: the status is not looked at
MayBegin(t) == t \in tasks /\ status[t] = "pending"

\* _begin_task: under the lock, unless the task was failed or dropped meanwhile.
BeginTask(t) ==
    /\ worker[t] = "begin"
    /\ IF MayBegin(t)
       THEN /\ status' = [status EXCEPT ![t] = "running"]
            /\ worker' = [worker EXCEPT ![t] = "call"]
       ELSE /\ worker' = [worker EXCEPT ![t] = "ok"]
            /\ UNCHANGED status
    /\ UNCHANGED <<tasks, futures, accepting, error, submittedAt, result, progress,
                   submitter, doomed, closer, executor, executed, failures>>

\* func(...) is entered ...
CallSdk(t) ==
    /\ worker[t] = "call"
    /\ executed' = executed \cup {t}
    /\ worker' = [worker EXCEPT ![t] = "sdk"]
    /\ UNCHANGED <<tasks, futures, accepting, objects, submitter, doomed, closer,
                   executor, failures>>

\* ... and returns, or raises.
SdkReturns(t) ==
    /\ worker[t] = "sdk"
    /\ \/ worker' = [worker EXCEPT ![t] = "store"]
       \/ worker' = [worker EXCEPT ![t] = "raised"]
    /\ UNCHANGED <<tasks, futures, accepting, objects, submitter, doomed, closer,
                   executor, executed, failures>>

\* Under the lock: the encoded result is stored, or encode raises.
StoreResult(t) ==
    /\ worker[t] = "store"
    /\ \/ /\ result' = result \cup ({t} \cap tasks)
          /\ worker' = [worker EXCEPT ![t] = "ok"]
       \/ /\ t \in tasks
          /\ worker' = [worker EXCEPT ![t] = "raised"]
          /\ UNCHANGED result
    /\ UNCHANGED <<tasks, futures, accepting, status, error, submittedAt, progress,
                   submitter, doomed, closer, executor, executed, failures>>

\* The executor sets the future's outcome; the callbacks then run.
SetOutcome(t) ==
    /\ worker[t] \in {"ok", "raised"}
    /\ future' = [future EXCEPT ![t] = worker[t]]
    /\ worker' = [worker EXCEPT ![t] = "over"]
    /\ UNCHANGED <<tasks, futures, accepting, objects, submitter, doomed, closer,
                   shut, callback, executed, failures>>

TakesProgress(t) == t \in tasks /\ status[t] = "running"

\* on_progress: the SDK calls it during the download and possibly later.
Progress(t) ==
    /\ t \in executed
    /\ TakesProgress(t)
    /\ progress' = progress \cup {t}
    /\ UNCHANGED <<tasks, futures, accepting, status, error, submittedAt, result,
                   threads, executor, executed, failures>>

SettlesRunning(t) == t \in tasks /\ status[t] = "running"  \* mutant: pending work is forgotten
MaySettle(t) == t \in tasks /\ status[t] # "failed"

Unregistered(t) == futures \ {t}

\* _on_done, in the thread that finished the future or hooked the callback.
OnDone(t) ==
    /\ callback[t] = "set"
    /\ future[t] \in {"cancelled", "ok", "raised"}
    /\ callback' = [callback EXCEPT ![t] = "ran"]
    /\ futures' = Unregistered(t)
    /\ IF MaySettle(t)
       THEN /\ IF future[t] = "ok"
               THEN status' = [status EXCEPT ![t] = "completed"] /\ UNCHANGED error
               ELSE Fail({t}, future[t])
            /\ Prune(tasks)
       ELSE UNCHANGED <<tasks, status, error>>
    /\ UNCHANGED <<accepting, submittedAt, result, progress, threads, shut, future,
                   executed, failures>>

-----------------------------------------------------------------------------
FailsAllLive(t) == status[t] \in {"pending", "running"}  \* mutant: running work too
FailsNow(t) == status[t] = "pending"

\* fail_pending: under the lock, queued work fails and is pruned ...
FailPending ==
    /\ failures < FailPendings
    /\ doomed = {}
    /\ LET lost == {t \in tasks : FailsNow(t)}
       IN  /\ Fail(lost, "connection lost")
           /\ doomed' = lost \cap futures
    /\ Prune(tasks)
    /\ failures' = failures + 1
    /\ UNCHANGED <<futures, accepting, submittedAt, result, progress, submitter,
                   worker, closer, executor, executed>>

\* ... and the futures known by then are cancelled, without the lock.
CancelDoomed(t) ==
    /\ t \in doomed
    /\ CancelFuture({t})
    /\ doomed' = doomed \ {t}
    /\ UNCHANGED <<tasks, futures, accepting, objects, submitter, worker, closer,
                   shut, callback, executed, failures>>

-----------------------------------------------------------------------------
\* shutdown: no submission is accepted any more ...
StopAccepting ==
    /\ closer = "start"
    /\ accepting' = FALSE
    /\ closer' = "executor"
    /\ UNCHANGED <<tasks, futures, objects, submitter, worker, doomed, executor,
                   executed, failures>>

\* ... then the executor is shut down without waiting for it ...
ShutExecutor ==
    /\ closer = "executor"
    /\ shut' = TRUE
    /\ closer' = "drain"
    /\ UNCHANGED <<tasks, futures, accepting, objects, submitter, worker, doomed,
                   future, callback, executed, failures>>

\* ... and takes the work that no worker has taken from its queue, cancelling it.
DrainQueue(t) ==
    /\ closer = "drain"
    /\ worker[t] = "queued"
    /\ worker' = [worker EXCEPT ![t] = "over"]
    /\ CancelFuture({t})
    /\ UNCHANGED <<tasks, futures, accepting, objects, submitter, doomed, closer,
                   shut, callback, executed, failures>>

-----------------------------------------------------------------------------
SubmitStep(t) ==
    \/ Insert(t) \/ Enqueue(t) \/ SubmitFails(t) \/ Register(t) \/ Hook(t)
    \/ CancelSubmitted(t)

RunStep(t) ==
    \/ Pick(t) \/ BeginTask(t) \/ CallSdk(t) \/ SdkReturns(t) \/ StoreResult(t)
    \/ SetOutcome(t)

CloseStep == ShutExecutor \/ \E t \in Tasks : DrainQueue(t)

Next ==
    \/ \E t \in Tasks :
         \/ Stamp(t) \/ SubmitStep(t) \/ RunStep(t)
         \/ Progress(t) \/ OnDone(t) \/ CancelDoomed(t)
    \/ FailPending
    \/ StopAccepting
    \/ CloseStep

Spec == Init /\ [][Next]_vars

\* A call of submit() or shutdown() that was begun goes on, the executor's
\* threads are scheduled, and the SDK returns.
Fairness ==
    /\ \A t \in Tasks :
         /\ WF_vars(SubmitStep(t))
         /\ WF_vars(RunStep(t))
         /\ WF_vars(OnDone(t))
         /\ WF_vars(CancelDoomed(t))
    /\ WF_vars(CloseStep)

FairSpec == Spec /\ Fairness

-----------------------------------------------------------------------------
\* Types of all variables.
TypeOK ==
    /\ tasks \subseteq Tasks /\ futures \subseteq Tasks
    /\ accepting \in BOOLEAN
    /\ status \in [Tasks -> {"new", "pending", "running", "completed", "failed"}]
    /\ error \in [Tasks -> {"none", "refused", "submit failed", "connection lost",
                            "cancelled", "raised"}]
    /\ submittedAt \in [Tasks -> Clock \cup {0}]
    /\ result \subseteq Tasks /\ progress \subseteq Tasks
    /\ submitter \in [Tasks -> {"start", "insert", "execute", "refused", "register",
                                "hook", "hook_cancel", "cancel", "returned"}]
    /\ worker \in [Tasks -> {"none", "queued", "begin", "call", "sdk", "store",
                             "raised", "ok", "over"}]
    /\ doomed \subseteq Tasks
    /\ closer \in {"start", "executor", "drain"}
    /\ shut \in BOOLEAN
    /\ future \in [Tasks -> {"none", "pending", "running", "cancelled", "ok", "raised"}]
    /\ callback \in [Tasks -> {"none", "set", "ran"}]
    /\ executed \subseteq Tasks
    /\ failures \in Nat

\* "Terminate queued work": a download reported as refused, cancelled or failed
\* with the connection is never executed, however late its worker comes.
CancelledNeverRuns ==
    \A t \in Tasks :
        error[t] \in {"refused", "submit failed", "connection lost", "cancelled"}
            => t \notin executed

\* "preserve calls already executing in the SDK": once the SDK function was
\* called, the task ends with the outcome of that call and with no other.
OutcomeReported ==
    \A t \in executed :
        callback[t] = "ran" => /\ status[t] = (IF future[t] = "ok" THEN "completed"
                                              ELSE "failed")
                               /\ error[t] = (IF future[t] = "ok" THEN "none" ELSE "raised")

\* A client that sees a completed task finds the result of its download.
CompletedHasResult ==
    \A t \in Tasks : status[t] = "completed" => t \in executed \cap result

\* A task that is still to run or running is never dropped from the table.
LiveTasksKept ==
    \A t \in Tasks : status[t] \in {"pending", "running"} => t \in tasks

\* Above the bound there is nothing finished left to drop: the table grows with
\* live tasks only.
BoundKept == Cardinality(tasks) > MaxCompleted => Prunable(tasks, status) = {}

\* No future stays registered after its callback, whichever came first: the
\* outcome, or the registration by the submitter.
NoLeakedFuture == \A t \in futures : callback[t] # "ran"

\* What a client has read of a finished task stays what it was.
RecordIsFinal ==
    [][\A t \in Tasks : status[t] \in Finished
         => /\ status'[t] = status[t]
            /\ (t \in result' <=> t \in result)
            /\ (t \in progress' <=> t \in progress)]_vars

\* What an observer of the manager sees of each task.
Seen == [t \in Tasks |-> IF submitter[t] \in {"start", "insert"} THEN "none"
                         ELSE IF t \in tasks THEN status[t] ELSE "gone"]

Life == INSTANCE TaskLife WITH life <- Seen

\* The manager implements the life of a task its clients and the drain rely on.
ImplementsTaskLife == Life!Spec

\* Every task that was entered gets an outcome, a shutdown or failure of the
\* connection at any moment included.
TasksSettle == \A t \in Tasks : (status[t] = "pending") ~> (status[t] \in Finished)

=============================================================================

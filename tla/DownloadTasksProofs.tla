------------------------ MODULE DownloadTasksProofs ------------------------
(***************************************************************************)
(* Theorems about DownloadTasks and DownloadHandle, for any number of      *)
(* tasks and workers and any bound of the table.  The inductive invariant  *)
(* relates, task by task, the task object, the submitter, the worker, the  *)
(* future and the done callback: most properties rest on which of them can *)
(* still move.                                                             *)
(***************************************************************************)
EXTENDS DownloadHandle, FiniteSetTheorems, TLAPS

\* What the submitter's step says of the task.
SubmitInv(t) ==
    /\ submitter[t] \in {"start", "insert"} <=> status[t] = "new"
    /\ submitter[t] \in {"start", "insert", "execute", "refused"} => worker[t] = "none"
    /\ submitter[t] \in {"register", "hook", "hook_cancel", "cancel"} => worker[t] # "none"
    /\ submitter[t] \in {"hook_cancel", "cancel"} => status[t] = "failed"
    /\ callback[t] # "none" => submitter[t] \in {"cancel", "returned"}
    /\ callback[t] = "ran" => future[t] \in {"cancelled", "ok", "raised"}
    /\ t \in futures => /\ submitter[t] \in {"hook", "hook_cancel", "cancel", "returned"}
                        /\ callback[t] # "ran"
    /\ t \in doomed => status[t] = "failed"

\* What the worker's step says of it, while the worker has the task ...
WorkInv(t) ==
    /\ worker[t] = "none" => future[t] = "none" /\ status[t] \in {"new", "pending", "failed"}
    /\ worker[t] = "queued" => \/ (future[t] = "pending" /\ status[t] \in {"pending", "failed"})
                               \/ (future[t] = "cancelled" /\ status[t] = "failed")
    /\ worker[t] = "begin" => future[t] = "running" /\ status[t] \in {"pending", "failed"}
    /\ worker[t] \in {"call", "sdk", "store", "raised"}
            => future[t] = "running" /\ status[t] = "running"
    /\ worker[t] = "ok" => /\ future[t] = "running"
                           /\ \/ (status[t] = "running" /\ t \in executed \cap result)
                              \/ (status[t] = "failed" /\ t \notin executed)
    /\ worker[t] \in {"none", "queued", "begin", "call"} => t \notin executed
    /\ worker[t] \in {"sdk", "store", "raised"} => t \in executed

\* ... and when it is done with it.
OverInv(t) ==
    worker[t] = "over" =>
        \/ /\ future[t] = "cancelled" /\ t \notin executed
           /\ status[t] = "failed" \/ (status[t] = "pending" /\ callback[t] # "ran")
        \/ /\ future[t] = "raised" /\ t \in executed
           /\ \/ (callback[t] # "ran" /\ status[t] = "running")
              \/ (callback[t] = "ran" /\ status[t] = "failed" /\ error[t] = "raised")
        \/ /\ future[t] = "ok" /\ t \in executed \cap result
           /\ \/ (callback[t] # "ran" /\ status[t] = "running")
              \/ (callback[t] = "ran" /\ status[t] = "completed")
        \/ /\ future[t] = "ok" /\ t \notin executed
           /\ status[t] = "failed"

ErrorInv(t) ==
    /\ error[t] = "none" <=> status[t] # "failed"
    /\ error[t] = "raised" => future[t] = "raised" /\ worker[t] = "over"
    /\ status[t] = "failed" /\ error[t] # "raised" => t \notin executed

TableInv(t) ==
    /\ status[t] = "new" => t \notin tasks
    /\ status[t] \in {"pending", "running"} => t \in tasks

TaskInv(t) == SubmitInv(t) /\ WorkInv(t) /\ OverInv(t) /\ ErrorInv(t) /\ TableInv(t)

IInv == TypeOK /\ \A t \in Tasks : TaskInv(t)

SizeInv == IsFiniteSet(tasks) /\ BoundKept

USE DEF objects, threads, executor, Finished, Fail, CancelFuture

-----------------------------------------------------------------------------
\* _prune_locked keeps what is not finished and adds nothing.
LEMMA PruneKeepsLive ==
    ASSUME NEW ids, NEW st, NEW kept \in Pruned(ids, st)
    PROVE  /\ kept \subseteq ids
           /\ \A u \in ids : st[u] \notin Finished => u \in kept
<1>1. CASE Cardinality(ids) <= MaxCompleted
  BY <1>1 DEF Pruned
<1>2. CASE ~(Cardinality(ids) <= MaxCompleted)
  <2>1. PICK d \in SUBSET Prunable(ids, st) : kept = ids \ d
    BY <1>2 DEF Pruned
  <2> QED BY <2>1 DEF Prunable
<1> QED BY <1>1, <1>2

LEMMA InvInit == ASSUME Init PROVE IInv
BY BoundAssumption DEF Init, IInv, TypeOK, TaskInv, SubmitInv, WorkInv, OverInv, ErrorInv, TableInv

\* Steps that leave the table alone.
LEMMA InvStamp == ASSUME IInv, NEW t \in Tasks, Stamp(t) PROVE IInv'
<1> USE DEF Stamp
<1>1. TypeOK'
  BY DEF IInv, TypeOK
<1>2. ASSUME NEW u \in Tasks PROVE TaskInv(u)'
  <2>1. TypeOK /\ TaskInv(u)
    BY DEF IInv
  <2>2. SubmitInv(u)'
    BY <2>1 DEF TypeOK, TaskInv, SubmitInv, WorkInv, OverInv, ErrorInv, TableInv
  <2>3. WorkInv(u)'
    BY <2>1 DEF TypeOK, TaskInv, SubmitInv, WorkInv, OverInv, ErrorInv, TableInv
  <2>4. OverInv(u)'
    BY <2>1 DEF TypeOK, TaskInv, SubmitInv, WorkInv, OverInv, ErrorInv, TableInv
  <2>5. ErrorInv(u)'
    BY <2>1 DEF TypeOK, TaskInv, SubmitInv, WorkInv, OverInv, ErrorInv, TableInv
  <2>6. TableInv(u)'
    BY <2>1 DEF TypeOK, TaskInv, SubmitInv, WorkInv, OverInv, ErrorInv, TableInv
  <2> QED BY <2>2, <2>3, <2>4, <2>5, <2>6 DEF TaskInv
<1> QED BY <1>1, <1>2 DEF IInv

LEMMA InvEnqueue == ASSUME IInv, NEW t \in Tasks, Enqueue(t) PROVE IInv'
<1>1. submitter[t] = "execute"
  BY DEF Enqueue
<1>2. /\ tasks' = tasks /\ futures' = futures /\ accepting' = accepting
      /\ status' = status /\ error' = error /\ submittedAt' = submittedAt
      /\ result' = result /\ progress' = progress /\ doomed' = doomed
      /\ closer' = closer /\ shut' = shut /\ callback' = callback
      /\ executed' = executed /\ failures' = failures
  BY DEF Enqueue
<1>3. TypeOK
  BY DEF IInv
<1>4. CASE ~shut
  <2>1. /\ submitter' = [submitter EXCEPT ![t] = "register"]
        /\ worker' = [worker EXCEPT ![t] = "queued"]
        /\ future' = [future EXCEPT ![t] = "pending"]
    BY <1>4 DEF Enqueue
  <2>2. TypeOK'
    BY <1>2, <1>3, <2>1 DEF TypeOK
  <2>3. ASSUME NEW u \in Tasks, u # t PROVE TaskInv(u)'
    <3>1. /\ submitter'[u] = submitter[u] /\ worker'[u] = worker[u]
          /\ future'[u] = future[u]
      BY <1>3, <2>1, <2>3 DEF TypeOK
    <3> QED
      BY <1>2, <3>1 DEF IInv, TaskInv, SubmitInv, WorkInv, OverInv, ErrorInv, TableInv
  <2>4. TaskInv(t)'
    <3>1. /\ submitter'[t] = "register" /\ worker'[t] = "queued" /\ future'[t] = "pending"
      BY <1>3, <2>1 DEF TypeOK
    <3>2. TaskInv(t)
      BY DEF IInv
    <3>3. worker[t] = "none" /\ callback[t] = "none" /\ t \notin futures
      BY <1>1, <1>3, <3>2 DEF TypeOK, TaskInv, SubmitInv
    <3>4. status[t] \in {"pending", "failed"} /\ t \notin executed
      BY <1>1, <3>2, <3>3 DEF TaskInv, SubmitInv, WorkInv
    <3>5. SubmitInv(t)' /\ WorkInv(t)' /\ OverInv(t)'
      BY <1>1, <1>2, <3>1, <3>2, <3>3, <3>4 DEF TaskInv, SubmitInv, WorkInv, OverInv
    <3>6. ErrorInv(t)' /\ TableInv(t)'
      BY <1>2, <3>1, <3>2, <3>3 DEF TaskInv, ErrorInv, TableInv, WorkInv
    <3> QED BY <3>5, <3>6 DEF TaskInv
  <2> QED BY <2>2, <2>3, <2>4 DEF IInv
<1>5. CASE shut
  <2>1. /\ submitter' = [submitter EXCEPT ![t] = "refused"]
        /\ worker' = worker /\ future' = future
    BY <1>5 DEF Enqueue
  <2>2. TypeOK'
    BY <1>2, <1>3, <2>1 DEF TypeOK
  <2>3. ASSUME NEW u \in Tasks PROVE TaskInv(u)'
    <3>1. \/ submitter'[u] = submitter[u]
          \/ submitter[u] = "execute" /\ submitter'[u] = "refused"
      BY <1>1, <1>3, <2>1 DEF TypeOK
    <3>2. TaskInv(u)
      BY DEF IInv
    <3>3. SubmitInv(u)'
      BY <1>2, <2>1, <3>1, <3>2 DEF TaskInv, SubmitInv
    <3> QED
      BY <1>2, <2>1, <3>2, <3>3 DEF TaskInv, WorkInv, OverInv, ErrorInv, TableInv
  <2> QED BY <2>2, <2>3 DEF IInv
<1> QED BY <1>4, <1>5

LEMMA InvRegister == ASSUME IInv, NEW t \in Tasks, Register(t) PROVE IInv'
<1> USE DEF Register
<1>1. TypeOK'
  BY DEF IInv, TypeOK
<1>2. ASSUME NEW u \in Tasks PROVE TaskInv(u)'
  <2>1. TypeOK /\ TaskInv(u)
    BY DEF IInv
  <2>2. SubmitInv(u)'
    BY <2>1 DEF TypeOK, TaskInv, SubmitInv, WorkInv, OverInv, ErrorInv, TableInv
  <2>3. WorkInv(u)'
    BY <2>1 DEF TypeOK, TaskInv, SubmitInv, WorkInv, OverInv, ErrorInv, TableInv
  <2>4. OverInv(u)'
    BY <2>1 DEF TypeOK, TaskInv, SubmitInv, WorkInv, OverInv, ErrorInv, TableInv
  <2>5. ErrorInv(u)'
    BY <2>1 DEF TypeOK, TaskInv, SubmitInv, WorkInv, OverInv, ErrorInv, TableInv
  <2>6. TableInv(u)'
    BY <2>1 DEF TypeOK, TaskInv, SubmitInv, WorkInv, OverInv, ErrorInv, TableInv
  <2> QED BY <2>2, <2>3, <2>4, <2>5, <2>6 DEF TaskInv
<1> QED BY <1>1, <1>2 DEF IInv

LEMMA InvHook == ASSUME IInv, NEW t \in Tasks, Hook(t) PROVE IInv'
<1> USE DEF Hook
<1>1. TypeOK'
  BY DEF IInv, TypeOK
<1>2. ASSUME NEW u \in Tasks PROVE TaskInv(u)'
  <2>1. TypeOK /\ TaskInv(u)
    BY DEF IInv
  <2>2. SubmitInv(u)'
    BY <2>1 DEF TypeOK, TaskInv, SubmitInv, WorkInv, OverInv, ErrorInv, TableInv
  <2>3. WorkInv(u)'
    BY <2>1 DEF TypeOK, TaskInv, SubmitInv, WorkInv, OverInv, ErrorInv, TableInv
  <2>4. OverInv(u)'
    BY <2>1 DEF TypeOK, TaskInv, SubmitInv, WorkInv, OverInv, ErrorInv, TableInv
  <2>5. ErrorInv(u)'
    BY <2>1 DEF TypeOK, TaskInv, SubmitInv, WorkInv, OverInv, ErrorInv, TableInv
  <2>6. TableInv(u)'
    BY <2>1 DEF TypeOK, TaskInv, SubmitInv, WorkInv, OverInv, ErrorInv, TableInv
  <2> QED BY <2>2, <2>3, <2>4, <2>5, <2>6 DEF TaskInv
<1> QED BY <1>1, <1>2 DEF IInv

LEMMA InvCancelSubmitted == ASSUME IInv, NEW t \in Tasks, CancelSubmitted(t) PROVE IInv'
<1> USE DEF CancelSubmitted
<1>1. TypeOK'
  BY DEF IInv, TypeOK
<1>2. ASSUME NEW u \in Tasks PROVE TaskInv(u)'
  <2>1. TypeOK /\ TaskInv(u)
    BY DEF IInv
  <2>2. SubmitInv(u)'
    BY <2>1 DEF TypeOK, TaskInv, SubmitInv, WorkInv, OverInv, ErrorInv, TableInv
  <2>3. WorkInv(u)'
    BY <2>1 DEF TypeOK, TaskInv, SubmitInv, WorkInv, OverInv, ErrorInv, TableInv
  <2>4. OverInv(u)'
    BY <2>1 DEF TypeOK, TaskInv, SubmitInv, WorkInv, OverInv, ErrorInv, TableInv
  <2>5. ErrorInv(u)'
    BY <2>1 DEF TypeOK, TaskInv, SubmitInv, WorkInv, OverInv, ErrorInv, TableInv
  <2>6. TableInv(u)'
    BY <2>1 DEF TypeOK, TaskInv, SubmitInv, WorkInv, OverInv, ErrorInv, TableInv
  <2> QED BY <2>2, <2>3, <2>4, <2>5, <2>6 DEF TaskInv
<1> QED BY <1>1, <1>2 DEF IInv

LEMMA InvPick == ASSUME IInv, NEW t \in Tasks, Pick(t) PROVE IInv'
<1> USE DEF Pick
<1>1. TypeOK'
  BY ZenonT(60) DEF IInv, TypeOK
<1>2. ASSUME NEW u \in Tasks PROVE TaskInv(u)'
  <2>1. TypeOK /\ TaskInv(u)
    BY DEF IInv
  <2>2. SubmitInv(u)'
    BY <2>1, ZenonT(60) DEF TypeOK, TaskInv, SubmitInv, WorkInv, OverInv, ErrorInv, TableInv
  <2>3. WorkInv(u)'
    <3>1. CASE u = t
      BY <3>1, <2>1, ZenonT(60) DEF TypeOK, TaskInv, SubmitInv, WorkInv, OverInv, ErrorInv, TableInv
    <3>2. CASE u # t
      BY <3>2, <2>1, ZenonT(60) DEF TypeOK, TaskInv, SubmitInv, WorkInv, OverInv, ErrorInv, TableInv
    <3> QED BY <3>1, <3>2
  <2>4. OverInv(u)'
    BY <2>1, ZenonT(60) DEF TypeOK, TaskInv, SubmitInv, WorkInv, OverInv, ErrorInv, TableInv
  <2>5. ErrorInv(u)'
    BY <2>1 DEF TypeOK, TaskInv, SubmitInv, WorkInv, OverInv, ErrorInv, TableInv
  <2>6. TableInv(u)'
    BY <2>1 DEF TypeOK, TaskInv, SubmitInv, WorkInv, OverInv, ErrorInv, TableInv
  <2> QED BY <2>2, <2>3, <2>4, <2>5, <2>6 DEF TaskInv
<1> QED BY <1>1, <1>2 DEF IInv

LEMMA InvBeginTask == ASSUME IInv, NEW t \in Tasks, BeginTask(t) PROVE IInv'
<1> USE DEF BeginTask
<1>1. TypeOK'
  BY ZenonT(60) DEF IInv, TypeOK, MayBegin
<1>2. ASSUME NEW u \in Tasks PROVE TaskInv(u)'
  <2>1. TypeOK /\ TaskInv(u)
    BY DEF IInv
  <2>2. SubmitInv(u)'
    BY <2>1, ZenonT(60) DEF TypeOK, TaskInv, SubmitInv, WorkInv, OverInv, ErrorInv, TableInv, MayBegin
  <2>3. WorkInv(u)'
    <3>1. CASE u = t
      BY <3>1, <2>1, ZenonT(60) DEF TypeOK, TaskInv, SubmitInv, WorkInv, OverInv, ErrorInv, TableInv, MayBegin
    <3>2. CASE u # t
      BY <3>2, <2>1, ZenonT(60) DEF TypeOK, TaskInv, SubmitInv, WorkInv, OverInv, ErrorInv, TableInv, MayBegin
    <3> QED BY <3>1, <3>2
  <2>4. OverInv(u)'
    BY <2>1, ZenonT(60) DEF TypeOK, TaskInv, SubmitInv, WorkInv, OverInv, ErrorInv, TableInv, MayBegin
  <2>5. ErrorInv(u)'
    BY <2>1 DEF TypeOK, TaskInv, SubmitInv, WorkInv, OverInv, ErrorInv, TableInv, MayBegin
  <2>6. TableInv(u)'
    BY <2>1 DEF TypeOK, TaskInv, SubmitInv, WorkInv, OverInv, ErrorInv, TableInv, MayBegin
  <2> QED BY <2>2, <2>3, <2>4, <2>5, <2>6 DEF TaskInv
<1> QED BY <1>1, <1>2 DEF IInv

LEMMA InvCallSdk == ASSUME IInv, NEW t \in Tasks, CallSdk(t) PROVE IInv'
<1> USE DEF CallSdk
<1>1. TypeOK'
  BY DEF IInv, TypeOK
<1>2. ASSUME NEW u \in Tasks PROVE TaskInv(u)'
  <2>1. TypeOK /\ TaskInv(u)
    BY DEF IInv
  <2>2. SubmitInv(u)'
    BY <2>1 DEF TypeOK, TaskInv, SubmitInv, WorkInv, OverInv, ErrorInv, TableInv
  <2>3. WorkInv(u)'
    BY <2>1 DEF TypeOK, TaskInv, SubmitInv, WorkInv, OverInv, ErrorInv, TableInv
  <2>4. OverInv(u)'
    BY <2>1 DEF TypeOK, TaskInv, SubmitInv, WorkInv, OverInv, ErrorInv, TableInv
  <2>5. ErrorInv(u)'
    BY <2>1 DEF TypeOK, TaskInv, SubmitInv, WorkInv, OverInv, ErrorInv, TableInv
  <2>6. TableInv(u)'
    BY <2>1 DEF TypeOK, TaskInv, SubmitInv, WorkInv, OverInv, ErrorInv, TableInv
  <2> QED BY <2>2, <2>3, <2>4, <2>5, <2>6 DEF TaskInv
<1> QED BY <1>1, <1>2 DEF IInv

LEMMA InvSdkReturns == ASSUME IInv, NEW t \in Tasks, SdkReturns(t) PROVE IInv'
<1> USE DEF SdkReturns
<1>1. TypeOK'
  BY DEF IInv, TypeOK
<1>2. ASSUME NEW u \in Tasks PROVE TaskInv(u)'
  <2>1. TypeOK /\ TaskInv(u)
    BY DEF IInv
  <2>2. SubmitInv(u)'
    BY <2>1, ZenonT(60) DEF TypeOK, TaskInv, SubmitInv, WorkInv, OverInv, ErrorInv, TableInv
  <2>3. WorkInv(u)'
    <3>1. CASE u = t
      BY <2>1, <3>1, ZenonT(60) DEF TypeOK, TaskInv, SubmitInv, WorkInv, OverInv, ErrorInv, TableInv
    <3>2. CASE u # t
      BY <2>1, <3>2, ZenonT(60) DEF TypeOK, TaskInv, SubmitInv, WorkInv, OverInv, ErrorInv, TableInv
    <3> QED BY <3>1, <3>2
  <2>4. OverInv(u)'
    BY <2>1 DEF TypeOK, TaskInv, SubmitInv, WorkInv, OverInv, ErrorInv, TableInv
  <2>5. ErrorInv(u)'
    BY <2>1 DEF TypeOK, TaskInv, SubmitInv, WorkInv, OverInv, ErrorInv, TableInv
  <2>6. TableInv(u)'
    BY <2>1 DEF TypeOK, TaskInv, SubmitInv, WorkInv, OverInv, ErrorInv, TableInv
  <2> QED BY <2>2, <2>3, <2>4, <2>5, <2>6 DEF TaskInv
<1> QED BY <1>1, <1>2 DEF IInv

LEMMA InvStoreResult == ASSUME IInv, NEW t \in Tasks, StoreResult(t) PROVE IInv'
<1> USE DEF StoreResult
<1>1. TypeOK'
  BY DEF IInv, TypeOK
<1>2. ASSUME NEW u \in Tasks PROVE TaskInv(u)'
  <2>1. TypeOK /\ TaskInv(u)
    BY DEF IInv
  <2>2. SubmitInv(u)'
    BY <2>1, ZenonT(60) DEF TypeOK, TaskInv, SubmitInv, WorkInv, OverInv, ErrorInv, TableInv
  <2>3. WorkInv(u)'
    BY <2>1, ZenonT(60) DEF TypeOK, TaskInv, SubmitInv, WorkInv, OverInv, ErrorInv, TableInv
  <2>4. OverInv(u)'
    BY <2>1 DEF TypeOK, TaskInv, SubmitInv, WorkInv, OverInv, ErrorInv, TableInv
  <2>5. ErrorInv(u)'
    BY <2>1 DEF TypeOK, TaskInv, SubmitInv, WorkInv, OverInv, ErrorInv, TableInv
  <2>6. TableInv(u)'
    BY <2>1 DEF TypeOK, TaskInv, SubmitInv, WorkInv, OverInv, ErrorInv, TableInv
  <2> QED BY <2>2, <2>3, <2>4, <2>5, <2>6 DEF TaskInv
<1> QED BY <1>1, <1>2 DEF IInv

LEMMA InvSetOutcome == ASSUME IInv, NEW t \in Tasks, SetOutcome(t) PROVE IInv'
<1> USE DEF SetOutcome
<1>1. TypeOK'
  BY DEF IInv, TypeOK
<1>2. ASSUME NEW u \in Tasks PROVE TaskInv(u)'
  <2>1. TypeOK /\ TaskInv(u)
    BY DEF IInv
  <2>2. SubmitInv(u)'
    BY <2>1 DEF TypeOK, TaskInv, SubmitInv, WorkInv, OverInv, ErrorInv, TableInv
  <2>3. WorkInv(u)'
    BY <2>1 DEF TypeOK, TaskInv, SubmitInv, WorkInv, OverInv, ErrorInv, TableInv
  <2>4. OverInv(u)'
    BY <2>1 DEF TypeOK, TaskInv, SubmitInv, WorkInv, OverInv, ErrorInv, TableInv
  <2>5. ErrorInv(u)'
    BY <2>1 DEF TypeOK, TaskInv, SubmitInv, WorkInv, OverInv, ErrorInv, TableInv
  <2>6. TableInv(u)'
    BY <2>1 DEF TypeOK, TaskInv, SubmitInv, WorkInv, OverInv, ErrorInv, TableInv
  <2> QED BY <2>2, <2>3, <2>4, <2>5, <2>6 DEF TaskInv
<1> QED BY <1>1, <1>2 DEF IInv

LEMMA InvProgress == ASSUME IInv, NEW t \in Tasks, Progress(t) PROVE IInv'
<1> USE DEF Progress
<1>1. TypeOK'
  BY DEF IInv, TypeOK, TakesProgress
<1>2. ASSUME NEW u \in Tasks PROVE TaskInv(u)'
  <2>1. TypeOK /\ TaskInv(u)
    BY DEF IInv
  <2>2. SubmitInv(u)'
    BY <2>1 DEF TypeOK, TaskInv, SubmitInv, WorkInv, OverInv, ErrorInv, TableInv, TakesProgress
  <2>3. WorkInv(u)'
    BY <2>1 DEF TypeOK, TaskInv, SubmitInv, WorkInv, OverInv, ErrorInv, TableInv, TakesProgress
  <2>4. OverInv(u)'
    BY <2>1 DEF TypeOK, TaskInv, SubmitInv, WorkInv, OverInv, ErrorInv, TableInv, TakesProgress
  <2>5. ErrorInv(u)'
    BY <2>1 DEF TypeOK, TaskInv, SubmitInv, WorkInv, OverInv, ErrorInv, TableInv, TakesProgress
  <2>6. TableInv(u)'
    BY <2>1 DEF TypeOK, TaskInv, SubmitInv, WorkInv, OverInv, ErrorInv, TableInv, TakesProgress
  <2> QED BY <2>2, <2>3, <2>4, <2>5, <2>6 DEF TaskInv
<1> QED BY <1>1, <1>2 DEF IInv

LEMMA InvCancelDoomed == ASSUME IInv, NEW t \in Tasks, CancelDoomed(t) PROVE IInv'
<1> USE DEF CancelDoomed
<1>1. TypeOK'
  BY DEF IInv, TypeOK
<1>2. ASSUME NEW u \in Tasks PROVE TaskInv(u)'
  <2>1. TypeOK /\ TaskInv(u)
    BY DEF IInv
  <2>2. SubmitInv(u)'
    BY <2>1 DEF TypeOK, TaskInv, SubmitInv, WorkInv, OverInv, ErrorInv, TableInv
  <2>3. WorkInv(u)'
    BY <2>1 DEF TypeOK, TaskInv, SubmitInv, WorkInv, OverInv, ErrorInv, TableInv
  <2>4. OverInv(u)'
    BY <2>1 DEF TypeOK, TaskInv, SubmitInv, WorkInv, OverInv, ErrorInv, TableInv
  <2>5. ErrorInv(u)'
    BY <2>1 DEF TypeOK, TaskInv, SubmitInv, WorkInv, OverInv, ErrorInv, TableInv
  <2>6. TableInv(u)'
    BY <2>1 DEF TypeOK, TaskInv, SubmitInv, WorkInv, OverInv, ErrorInv, TableInv
  <2> QED BY <2>2, <2>3, <2>4, <2>5, <2>6 DEF TaskInv
<1> QED BY <1>1, <1>2 DEF IInv

LEMMA InvDrainQueue == ASSUME IInv, NEW t \in Tasks, DrainQueue(t) PROVE IInv'
<1> USE DEF DrainQueue
<1>1. TypeOK'
  BY DEF IInv, TypeOK
<1>2. ASSUME NEW u \in Tasks PROVE TaskInv(u)'
  <2>1. TypeOK /\ TaskInv(u)
    BY DEF IInv
  <2>2. SubmitInv(u)'
    BY <2>1 DEF TypeOK, TaskInv, SubmitInv, WorkInv, OverInv, ErrorInv, TableInv
  <2>3. WorkInv(u)'
    BY <2>1 DEF TypeOK, TaskInv, SubmitInv, WorkInv, OverInv, ErrorInv, TableInv
  <2>4. OverInv(u)'
    BY <2>1 DEF TypeOK, TaskInv, SubmitInv, WorkInv, OverInv, ErrorInv, TableInv
  <2>5. ErrorInv(u)'
    BY <2>1 DEF TypeOK, TaskInv, SubmitInv, WorkInv, OverInv, ErrorInv, TableInv
  <2>6. TableInv(u)'
    BY <2>1 DEF TypeOK, TaskInv, SubmitInv, WorkInv, OverInv, ErrorInv, TableInv
  <2> QED BY <2>2, <2>3, <2>4, <2>5, <2>6 DEF TaskInv
<1> QED BY <1>1, <1>2 DEF IInv

\* Steps that prune it.
LEMMA InvInsert == ASSUME IInv, NEW t \in Tasks, Insert(t) PROVE IInv'
<1> USE DEF Insert
<1>1. /\ tasks' \subseteq tasks \cup {t}
      /\ \A u \in tasks \cup {t} : status'[u] \notin Finished => u \in tasks'
  BY PruneKeepsLive DEF Prune
<1>2. CASE accepting
  <2>1. TypeOK'
    BY <1>1, <1>2 DEF IInv, TypeOK
  <2>2. ASSUME NEW u \in Tasks PROVE TaskInv(u)'
    <3>1. TypeOK /\ TaskInv(u)
      BY DEF IInv
    <3>2. SubmitInv(u)'
      BY <1>1, <1>2, <3>1, ZenonT(60) DEF TypeOK, TaskInv, SubmitInv, WorkInv, OverInv, ErrorInv, TableInv
    <3>3. WorkInv(u)'
      BY <1>1, <1>2, <3>1 DEF TypeOK, TaskInv, SubmitInv, WorkInv, OverInv, ErrorInv, TableInv
    <3>4. OverInv(u)'
      BY <1>1, <1>2, <3>1 DEF TypeOK, TaskInv, SubmitInv, WorkInv, OverInv, ErrorInv, TableInv
    <3>5. ErrorInv(u)'
      BY <1>1, <1>2, <3>1 DEF TypeOK, TaskInv, SubmitInv, WorkInv, OverInv, ErrorInv, TableInv
    <3>6. TableInv(u)'
      BY <1>1, <1>2, <3>1 DEF TypeOK, TaskInv, SubmitInv, WorkInv, OverInv, ErrorInv, TableInv
    <3> QED BY <3>2, <3>3, <3>4, <3>5, <3>6 DEF TaskInv
  <2> QED BY <2>1, <2>2 DEF IInv
<1>3. CASE ~accepting
  <2>0. /\ submitter[t] = "insert"
        /\ submitter' = [submitter EXCEPT ![t] = "returned"]
        /\ status' = [x \in Tasks |-> IF x = t THEN "failed" ELSE status[x]]
        /\ error' = [x \in Tasks |-> IF x = t THEN "refused" ELSE error[x]]
        /\ UNCHANGED <<futures, accepting, submittedAt, result, progress, worker,
                       doomed, closer, shut, future, callback, executed, failures>>
    <3>1. Fail({t}, "refused")
      BY <1>3
    <3> QED BY <1>3, <3>1
  <2> HIDE DEF Insert
  <2>1. TypeOK'
    BY <1>1, <2>0 DEF IInv, TypeOK
  <2>2. ASSUME NEW u \in Tasks PROVE TaskInv(u)'
    <3>1. TypeOK /\ TaskInv(u)
      BY DEF IInv
    <3>2. SubmitInv(u)'
      BY <1>1, <2>0, <3>1 DEF TypeOK, TaskInv, SubmitInv, WorkInv, OverInv, ErrorInv, TableInv
    <3>3. WorkInv(u)'
      BY <1>1, <2>0, <3>1 DEF TypeOK, TaskInv, SubmitInv, WorkInv, OverInv, ErrorInv, TableInv
    <3>4. OverInv(u)'
      BY <1>1, <2>0, <3>1 DEF TypeOK, TaskInv, SubmitInv, WorkInv, OverInv, ErrorInv, TableInv
    <3>5. ErrorInv(u)'
      BY <1>1, <2>0, <3>1 DEF TypeOK, TaskInv, SubmitInv, WorkInv, OverInv, ErrorInv, TableInv
    <3>6. TableInv(u)'
      BY <1>1, <2>0, <3>1 DEF TypeOK, TaskInv, SubmitInv, WorkInv, OverInv, ErrorInv, TableInv
    <3> QED BY <3>2, <3>3, <3>4, <3>5, <3>6 DEF TaskInv
  <2> QED BY <2>1, <2>2 DEF IInv
<1> QED BY <1>2, <1>3

LEMMA InvSubmitFails == ASSUME IInv, NEW t \in Tasks, SubmitFails(t) PROVE IInv'
<1> USE DEF SubmitFails
<1>1. /\ tasks' \subseteq tasks
      /\ \A u \in tasks : status'[u] \notin Finished => u \in tasks'
  BY PruneKeepsLive DEF Prune
<1>2. TypeOK'
  BY <1>1 DEF IInv, TypeOK
<1>3. ASSUME NEW u \in Tasks PROVE TaskInv(u)'
  <2>1. TypeOK /\ TaskInv(u)
    BY DEF IInv
  <2>2. SubmitInv(u)'
    BY <1>1, <2>1 DEF TypeOK, TaskInv, SubmitInv, WorkInv, OverInv, ErrorInv, TableInv
  <2>3. WorkInv(u)'
    BY <1>1, <2>1 DEF TypeOK, TaskInv, SubmitInv, WorkInv, OverInv, ErrorInv, TableInv
  <2>4. OverInv(u)'
    BY <1>1, <2>1 DEF TypeOK, TaskInv, SubmitInv, WorkInv, OverInv, ErrorInv, TableInv
  <2>5. ErrorInv(u)'
    BY <1>1, <2>1 DEF TypeOK, TaskInv, SubmitInv, WorkInv, OverInv, ErrorInv, TableInv
  <2>6. TableInv(u)'
    BY <1>1, <2>1 DEF TypeOK, TaskInv, SubmitInv, WorkInv, OverInv, ErrorInv, TableInv
  <2> QED BY <2>2, <2>3, <2>4, <2>5, <2>6 DEF TaskInv
<1> QED BY <1>2, <1>3 DEF IInv

LEMMA InvOnDone == ASSUME IInv, NEW t \in Tasks, OnDone(t) PROVE IInv'
<1> USE DEF OnDone, MaySettle, Unregistered
<1>1. /\ tasks' \subseteq tasks
      /\ \A u \in tasks : status'[u] \notin Finished => u \in tasks'
  <2>1. CASE MaySettle(t)
    BY <2>1, PruneKeepsLive DEF Prune
  <2>2. CASE ~MaySettle(t)
    BY <2>2
  <2> QED BY <2>1, <2>2
<1>2. CASE MaySettle(t) /\ future[t] = "ok"
  <2>1. TypeOK'
    BY <1>1, <1>2 DEF IInv, TypeOK
  <2>2. ASSUME NEW u \in Tasks PROVE TaskInv(u)'
    <3>1. TypeOK /\ TaskInv(u)
      BY DEF IInv
    <3>2. SubmitInv(u)'
      BY <1>1, <1>2, <3>1 DEF TypeOK, TaskInv, SubmitInv, WorkInv, OverInv, ErrorInv, TableInv
    <3>3. WorkInv(u)'
      BY <1>1, <1>2, <3>1 DEF TypeOK, TaskInv, SubmitInv, WorkInv, OverInv, ErrorInv, TableInv
    <3>4. OverInv(u)'
      BY <1>1, <1>2, <3>1 DEF TypeOK, TaskInv, SubmitInv, WorkInv, OverInv, ErrorInv, TableInv
    <3>5. ErrorInv(u)'
      BY <1>1, <1>2, <3>1 DEF TypeOK, TaskInv, SubmitInv, WorkInv, OverInv, ErrorInv, TableInv
    <3>6. TableInv(u)'
      BY <1>1, <1>2, <3>1 DEF TypeOK, TaskInv, SubmitInv, WorkInv, OverInv, ErrorInv, TableInv
    <3> QED BY <3>2, <3>3, <3>4, <3>5, <3>6 DEF TaskInv
  <2> QED BY <2>1, <2>2 DEF IInv
<1>3. CASE MaySettle(t) /\ future[t] # "ok"
  <2>0. /\ callback[t] = "set" /\ status[t] # "failed"
        /\ future[t] \in {"cancelled", "raised"}
        /\ callback' = [callback EXCEPT ![t] = "ran"]
        /\ futures' = futures \ {t}
        /\ status' = [x \in Tasks |-> IF x = t THEN "failed" ELSE status[x]]
        /\ error' = [x \in Tasks |-> IF x = t THEN future[t] ELSE error[x]]
        /\ UNCHANGED <<accepting, submittedAt, result, progress, submitter, worker,
                       doomed, closer, shut, future, executed, failures>>
    <3>1. Fail({t}, future[t])
      BY <1>3
    <3> QED BY <1>3, <3>1
  <2> HIDE DEF OnDone
  <2>1. TypeOK'
    BY <1>1, <2>0 DEF IInv, TypeOK
  <2>2. ASSUME NEW u \in Tasks PROVE TaskInv(u)'
    <3>1. TypeOK /\ TaskInv(u)
      BY DEF IInv
    <3>2. SubmitInv(u)'
      BY <1>1, <2>0, <3>1 DEF TypeOK, TaskInv, SubmitInv, WorkInv, OverInv, ErrorInv, TableInv
    <3>3. WorkInv(u)'
      BY <1>1, <2>0, <3>1 DEF TypeOK, TaskInv, SubmitInv, WorkInv, OverInv, ErrorInv, TableInv
    <3>4. OverInv(u)'
      BY <1>1, <2>0, <3>1 DEF TypeOK, TaskInv, SubmitInv, WorkInv, OverInv, ErrorInv, TableInv
    <3>5. ErrorInv(u)'
      BY <1>1, <2>0, <3>1 DEF TypeOK, TaskInv, SubmitInv, WorkInv, OverInv, ErrorInv, TableInv
    <3>6. TableInv(u)'
      BY <1>1, <2>0, <3>1 DEF TypeOK, TaskInv, SubmitInv, WorkInv, OverInv, ErrorInv, TableInv
    <3> QED BY <3>2, <3>3, <3>4, <3>5, <3>6 DEF TaskInv
  <2> QED BY <2>1, <2>2 DEF IInv
<1>4. CASE ~MaySettle(t)
  <2>1. TypeOK'
    BY <1>1, <1>4 DEF IInv, TypeOK
  <2>2. ASSUME NEW u \in Tasks PROVE TaskInv(u)'
    <3>1. TypeOK /\ TaskInv(u)
      BY DEF IInv
    <3>2. SubmitInv(u)'
      BY <1>1, <1>4, <3>1 DEF TypeOK, TaskInv, SubmitInv, WorkInv, OverInv, ErrorInv, TableInv
    <3>3. WorkInv(u)'
      BY <1>1, <1>4, <3>1 DEF TypeOK, TaskInv, SubmitInv, WorkInv, OverInv, ErrorInv, TableInv
    <3>4. OverInv(u)'
      BY <1>1, <1>4, <3>1 DEF TypeOK, TaskInv, SubmitInv, WorkInv, OverInv, ErrorInv, TableInv
    <3>5. ErrorInv(u)'
      BY <1>1, <1>4, <3>1 DEF TypeOK, TaskInv, SubmitInv, WorkInv, OverInv, ErrorInv, TableInv
    <3>6. TableInv(u)'
      BY <1>1, <1>4, <3>1 DEF TypeOK, TaskInv, SubmitInv, WorkInv, OverInv, ErrorInv, TableInv
    <3> QED BY <3>2, <3>3, <3>4, <3>5, <3>6 DEF TaskInv
  <2> QED BY <2>1, <2>2 DEF IInv
<1> QED BY <1>2, <1>3, <1>4

LEMMA InvFailPending == ASSUME IInv, FailPending PROVE IInv'
<1> USE DEF FailPending, FailsNow
<1>1. /\ tasks' \subseteq tasks
      /\ \A u \in tasks : status'[u] \notin Finished => u \in tasks'
  BY PruneKeepsLive DEF Prune
<1>2. TypeOK'
  <2>1. TypeOK
    BY DEF IInv
  <2>2. /\ status' \in [Tasks -> {"new", "pending", "running", "completed", "failed"}]
        /\ error' \in [Tasks -> {"none", "refused", "submit failed", "connection lost",
                                 "cancelled", "raised"}]
    BY <2>1 DEF TypeOK
  <2>3. tasks' \subseteq Tasks /\ doomed' \subseteq Tasks
    BY <1>1, <2>1 DEF TypeOK
  <2>4. failures \in Nat /\ failures' = failures + 1
    BY <2>1 DEF TypeOK
  <2>5. failures' \in Nat
    <3> HIDE DEF FailPending
    <3> QED BY <2>4
  <2> QED BY <2>1, <2>2, <2>3, <2>5 DEF TypeOK
<1>3. ASSUME NEW u \in Tasks PROVE TaskInv(u)'
  <2>1. TypeOK /\ TaskInv(u)
    BY DEF IInv
  <2>2. SubmitInv(u)'
    BY <1>1, <2>1 DEF TypeOK, TaskInv, SubmitInv, WorkInv, OverInv, ErrorInv, TableInv
  <2>3. WorkInv(u)'
    BY <1>1, <2>1 DEF TypeOK, TaskInv, SubmitInv, WorkInv, OverInv, ErrorInv, TableInv
  <2>4. OverInv(u)'
    BY <1>1, <2>1 DEF TypeOK, TaskInv, SubmitInv, WorkInv, OverInv, ErrorInv, TableInv
  <2>5. ErrorInv(u)'
    BY <1>1, <2>1 DEF TypeOK, TaskInv, SubmitInv, WorkInv, OverInv, ErrorInv, TableInv
  <2>6. TableInv(u)'
    BY <1>1, <2>1 DEF TypeOK, TaskInv, SubmitInv, WorkInv, OverInv, ErrorInv, TableInv
  <2> QED BY <2>2, <2>3, <2>4, <2>5, <2>6 DEF TaskInv
<1> QED BY <1>2, <1>3 DEF IInv

\* StopAccepting and ShutExecutor touch no task.
LEMMA InvCloser == ASSUME IInv, StopAccepting \/ ShutExecutor \/ UNCHANGED vars PROVE IInv'
<1>1. UNCHANGED <<tasks, futures, objects, submitter, worker, doomed, future, callback,
                  executed, failures>>
  BY DEF StopAccepting, ShutExecutor, vars
<1>2. TypeOK'
  BY <1>1 DEF IInv, TypeOK, StopAccepting, ShutExecutor, vars
<1>3. ASSUME NEW u \in Tasks PROVE TaskInv(u)'
  <2>1. TaskInv(u)
    BY DEF IInv
  <2> QED BY <1>1, <2>1 DEF TaskInv, SubmitInv, WorkInv, OverInv, ErrorInv, TableInv
<1> QED BY <1>2, <1>3 DEF IInv

LEMMA InvNext == ASSUME IInv, [Next]_vars PROVE IInv'
<1>1. ASSUME NEW t \in Tasks, SubmitStep(t) \/ Stamp(t) PROVE IInv'
  BY <1>1, InvStamp, InvInsert, InvEnqueue, InvSubmitFails, InvRegister, InvHook,
     InvCancelSubmitted DEF SubmitStep
<1>2. ASSUME NEW t \in Tasks, RunStep(t) PROVE IInv'
  BY <1>2, InvPick, InvBeginTask, InvCallSdk, InvSdkReturns, InvStoreResult,
     InvSetOutcome DEF RunStep
<1>3. ASSUME NEW t \in Tasks, Progress(t) \/ OnDone(t) \/ CancelDoomed(t) PROVE IInv'
  BY <1>3, InvProgress, InvOnDone, InvCancelDoomed
<1>4. CASE FailPending \/ StopAccepting \/ CloseStep
  BY <1>4, InvFailPending, InvCloser, InvDrainQueue DEF CloseStep
<1>5. CASE UNCHANGED vars
  BY <1>5, InvCloser
<1> QED BY <1>1, <1>2, <1>3, <1>4, <1>5 DEF Next

LEMMA Invariance == Spec => []IInv
BY InvInit, InvNext, PTL DEF Spec

\* Every variable keeps its type.
THEOREM TypeCorrect == Spec => []TypeOK
BY Invariance, PTL DEF IInv

\* A download that was reported as refused, cancelled or lost never reaches the SDK.
THEOREM CancelledStaysUnrun == Spec => []CancelledNeverRuns
<1>1. IInv => CancelledNeverRuns
  BY DEF IInv, TypeOK, TaskInv, ErrorInv, CancelledNeverRuns
<1> QED BY <1>1, Invariance, PTL

\* An executed download ends with the outcome of its SDK call.
THEOREM OutcomeIsTheCalls == Spec => []OutcomeReported
<1>1. IInv => OutcomeReported
  <2> SUFFICES ASSUME IInv, NEW t \in executed, callback[t] = "ran"
               PROVE  /\ status[t] = (IF future[t] = "ok" THEN "completed" ELSE "failed")
                      /\ error[t] = (IF future[t] = "ok" THEN "none" ELSE "raised")
    BY DEF OutcomeReported
  <2>1. TypeOK /\ TaskInv(t) /\ t \in Tasks
    BY DEF IInv, TypeOK
  <2> QED BY <2>1 DEF TypeOK, TaskInv, SubmitInv, WorkInv, OverInv, ErrorInv
<1> QED BY <1>1, Invariance, PTL

\* A completed task was executed and has its result.
THEOREM CompletedIsServed == Spec => []CompletedHasResult
<1>1. IInv => CompletedHasResult
  <2> SUFFICES ASSUME IInv, NEW t \in Tasks, status[t] = "completed"
               PROVE  t \in executed \cap result
    BY DEF CompletedHasResult
  <2>1. TypeOK /\ TaskInv(t)
    BY DEF IInv
  <2> QED BY <2>1 DEF TypeOK, TaskInv, WorkInv, OverInv
<1> QED BY <1>1, Invariance, PTL

\* Pruning never loses a task that is still to run or running.
THEOREM LiveTasksStay == Spec => []LiveTasksKept
<1>1. IInv => LiveTasksKept
  BY DEF IInv, TaskInv, TableInv, LiveTasksKept
<1> QED BY <1>1, Invariance, PTL

\* A future whose callback ran is registered no more.
THEOREM FuturesLetGo == Spec => []NoLeakedFuture
<1>1. IInv => NoLeakedFuture
  BY DEF IInv, TypeOK, TaskInv, SubmitInv, NoLeakedFuture
<1> QED BY <1>1, Invariance, PTL

-----------------------------------------------------------------------------
\* The steps that change no status and no table ...
QuietRun(t) ==
    \/ Pick(t) \/ CallSdk(t) \/ SdkReturns(t) \/ StoreResult(t) \/ SetOutcome(t)
    \/ Progress(t) \/ CancelDoomed(t) \/ DrainQueue(t)

QuietSubmit(t) ==
    Stamp(t) \/ Enqueue(t) \/ Register(t) \/ Hook(t) \/ CancelSubmitted(t)

QuietClose == StopAccepting \/ ShutExecutor \/ UNCHANGED vars

\* ... and those that do.
LoudStep(t) == Insert(t) \/ SubmitFails(t) \/ OnDone(t) \/ FailPending

LEMMA StepKinds ==
    ASSUME [Next]_vars
    PROVE  \/ QuietClose \/ FailPending
           \/ \E t \in Tasks : QuietRun(t) \/ QuietSubmit(t) \/ BeginTask(t) \/ LoudStep(t)
BY DEF Next, SubmitStep, RunStep, CloseStep, QuietRun, QuietSubmit, QuietClose, LoudStep

LEMMA QuietChanges ==
    ASSUME IInv, NEW t \in Tasks, QuietRun(t) \/ QuietSubmit(t) \/ QuietClose
    PROVE  /\ UNCHANGED <<tasks, status>>
           /\ \A u \in Tasks : submitter'[u] \in {"start", "insert"}
                                <=> submitter[u] \in {"start", "insert"}
<1>1. submitter \in [Tasks -> {"start", "insert", "execute", "refused", "register",
                               "hook", "hook_cancel", "cancel", "returned"}]
  BY DEF IInv, TypeOK
<1>2. CASE QuietRun(t)
  BY <1>2 DEF QuietRun, Pick, CallSdk, SdkReturns, StoreResult, SetOutcome, Progress,
              CancelDoomed, DrainQueue
<1>3. CASE QuietSubmit(t)
  BY <1>1, <1>3 DEF QuietSubmit, Stamp, Enqueue, Register, Hook, CancelSubmitted
<1>4. CASE QuietClose
  BY <1>4 DEF QuietClose, StopAccepting, ShutExecutor, vars
<1> QED BY <1>2, <1>3, <1>4

\* What a loud step does to one task.
LoudMove(u) ==
    \/ status'[u] = status[u] /\ (submitter[u] = "insert" <=> submitter'[u] = "insert")
    \/ submitter[u] = "insert" /\ status'[u] \in {"pending", "failed"}
    \/ status[u] = "pending" /\ status'[u] = "failed"
    \/ status[u] = "running" /\ status'[u] \in {"completed", "failed"} /\ u \in executed

LEMMA LoudChanges ==
    ASSUME IInv, NEW t \in Tasks, LoudStep(t), NEW u \in Tasks
    PROVE  /\ LoudMove(u)
           /\ u \in tasks' => u \in tasks \/ submitter[u] = "insert"
           /\ submitter'[u] \in {"start", "insert"} <=>
                 submitter[u] \in {"start", "insert"} /\ status'[u] = "new"
           /\ UNCHANGED <<executed, result, progress>>
<1>1. TypeOK /\ TaskInv(u) /\ TaskInv(t)
  BY DEF IInv
<1>2. CASE Insert(t)
  <2>1. tasks' \subseteq tasks \cup {t}
    BY <1>2, PruneKeepsLive DEF Insert, Prune
  <2>2. UNCHANGED <<executed, result, progress>>
    BY <1>2 DEF Insert
  <2>3. CASE accepting
    <3>1. /\ status' = [status EXCEPT ![t] = "pending"]
          /\ submitter' = [submitter EXCEPT ![t] = "execute"]
          /\ submitter[t] = "insert"
      BY <1>2, <2>3 DEF Insert
    <3>2. CASE u = t
      BY <1>1, <2>1, <2>2, <3>1, <3>2 DEF LoudMove, TypeOK, TaskInv, SubmitInv
    <3>3. CASE u # t
      BY <1>1, <2>1, <2>2, <3>1, <3>3 DEF LoudMove, TypeOK, TaskInv, SubmitInv
    <3> QED BY <3>2, <3>3
  <2>4. CASE ~accepting
    <3>1. /\ status' = [x \in Tasks |-> IF x \in {t} THEN "failed" ELSE status[x]]
          /\ submitter' = [submitter EXCEPT ![t] = "returned"]
          /\ submitter[t] = "insert"
      BY <1>2, <2>4 DEF Insert
    <3>2. CASE u = t
      BY <1>1, <2>1, <2>2, <3>1, <3>2 DEF LoudMove, TypeOK, TaskInv, SubmitInv
    <3>3. CASE u # t
      BY <1>1, <2>1, <2>2, <3>1, <3>3 DEF LoudMove, TypeOK, TaskInv, SubmitInv
    <3> QED BY <3>2, <3>3
  <2> QED BY <2>3, <2>4
<1>3. CASE SubmitFails(t)
  <2>1. tasks' \subseteq tasks
    BY <1>3, PruneKeepsLive DEF SubmitFails, Prune
  <2> QED BY <1>1, <1>3, <2>1 DEF SubmitFails, LoudMove, TypeOK, TaskInv, SubmitInv, WorkInv
<1>4. CASE OnDone(t)
  <2>1. tasks' \subseteq tasks
    <3>1. CASE MaySettle(t)
      BY <1>4, <3>1, PruneKeepsLive DEF OnDone, Prune
    <3>2. CASE ~MaySettle(t)
      BY <1>4, <3>2 DEF OnDone
    <3> QED BY <3>1, <3>2
  <2>2. UNCHANGED <<executed, result, progress, submitter>>
    BY <1>4 DEF OnDone
  <2>3. \/ UNCHANGED status
        \/ /\ status[t] # "failed" /\ callback[t] = "set"
           /\ future[t] \in {"cancelled", "ok", "raised"}
           /\ \E v \in {"completed", "failed"} :
                /\ status' = [x \in Tasks |-> IF x = t THEN v ELSE status[x]]
                /\ v = "completed" => future[t] = "ok"
    <3>1. CASE ~MaySettle(t)
      BY <1>4, <3>1 DEF OnDone
    <3>2. CASE MaySettle(t) /\ future[t] = "ok"
      BY <1>1, <1>4, <3>2 DEF OnDone, MaySettle, TypeOK
    <3>3. CASE MaySettle(t) /\ future[t] # "ok"
      <4>1. Fail({t}, future[t])
        BY <1>4, <3>3 DEF OnDone
      <4>2. status' = [x \in Tasks |-> IF x = t THEN "failed" ELSE status[x]]
        BY <4>1
      <4> QED BY <1>4, <3>3, <4>2 DEF OnDone, MaySettle
    <3> QED BY <3>1, <3>2, <3>3
  <2>4. status \in [Tasks -> {"new", "pending", "running", "completed", "failed"}]
    BY <1>1 DEF TypeOK
  <2>5. CASE UNCHANGED status
    BY <1>1, <2>1, <2>2, <2>5 DEF LoudMove, TaskInv, SubmitInv
  <2>6. CASE ~UNCHANGED status
    <3>1. PICK v \in {"completed", "failed"} :
            /\ status' = [x \in Tasks |-> IF x = t THEN v ELSE status[x]]
            /\ v = "completed" => future[t] = "ok"
      BY <2>3, <2>6
    <3>2. /\ status[t] \in {"pending", "running"}
          /\ status[t] = "running" => t \in executed
          /\ status[t] = "pending" => future[t] # "ok"
      BY <1>1, <2>3, <2>6 DEF TypeOK, TaskInv, SubmitInv, WorkInv, OverInv
    <3>3. LoudMove(u)
      BY <2>2, <2>4, <3>1, <3>2 DEF LoudMove
    <3>4. status'[u] = "new" <=> status[u] = "new"
      BY <2>4, <3>1, <3>2
    <3> QED BY <1>1, <2>1, <2>2, <3>3, <3>4 DEF TaskInv, SubmitInv
  <2> QED BY <2>5, <2>6
<1>5. CASE FailPending
  <2>1. tasks' \subseteq tasks
    BY <1>5, PruneKeepsLive DEF FailPending, Prune
  <2> QED BY <1>1, <1>5, <2>1 DEF FailPending, FailsNow, LoudMove, TypeOK, TaskInv, SubmitInv
<1> QED BY <1>2, <1>3, <1>4, <1>5 DEF LoudStep

\* No late callback, worker or submitter, and no second failure, touches what is
\* recorded of a finished task.
LEMMA FinishedStays ==
    ASSUME IInv, [Next]_vars, NEW u \in Tasks, status[u] \in Finished
    PROVE  /\ status'[u] = status[u]
           /\ (u \in result' <=> u \in result)
           /\ (u \in progress' <=> u \in progress)
<1>1. TypeOK /\ TaskInv(u)
  BY DEF IInv
<1>2. submitter[u] # "insert"
  BY <1>1 DEF TaskInv, SubmitInv
<1>3. worker[u] # "store"
  BY <1>1 DEF TaskInv, WorkInv
<1>4. CASE QuietClose
  BY <1>4 DEF QuietClose, StopAccepting, ShutExecutor, vars
<1>5. ASSUME NEW t \in Tasks, QuietSubmit(t) PROVE UNCHANGED <<status, result, progress>>
  BY <1>5 DEF QuietSubmit, Stamp, Enqueue, Register, Hook, CancelSubmitted
<1>6. ASSUME NEW t \in Tasks, QuietRun(t)
      PROVE  /\ status' = status
             /\ u \in result' <=> u \in result
             /\ u \in progress' <=> u \in progress
  BY <1>3, <1>6 DEF QuietRun, Pick, CallSdk, SdkReturns, StoreResult, SetOutcome,
     Progress, TakesProgress, CancelDoomed, DrainQueue
<1>7. ASSUME NEW t \in Tasks, BeginTask(t)
      PROVE  status'[u] = status[u] /\ UNCHANGED <<result, progress>>
  BY <1>1, <1>7 DEF BeginTask, MayBegin, TypeOK
<1>8. ASSUME NEW t \in Tasks, LoudStep(t)
      PROVE  status'[u] = status[u] /\ UNCHANGED <<result, progress>>
  BY <1>2, <1>8, LoudChanges DEF LoudMove
<1>9. ASSUME FailPending
      PROVE  status'[u] = status[u] /\ UNCHANGED <<result, progress>>
  BY <1>8, <1>9 DEF LoudStep
<1> QED BY <1>4, <1>5, <1>6, <1>7, <1>8, <1>9, StepKinds

\* The record of a finished task is what it was.
THEOREM RecordsAreFinal == Spec => RecordIsFinal
<1>1. IInv /\ [Next]_vars => [\A t \in Tasks : status[t] \in Finished
         => /\ status'[t] = status[t]
            /\ (t \in result' <=> t \in result)
            /\ (t \in progress' <=> t \in progress)]_vars
  BY FinishedStays
<1> QED BY <1>1, Invariance, PTL DEF Spec, RecordIsFinal

\* A task that was entered stays entered.
LEMMA EnteredStays ==
    ASSUME IInv, [Next]_vars, NEW u \in Tasks, status[u] # "new"
    PROVE  status'[u] # "new"
<1>1. TypeOK /\ TaskInv(u)
  BY DEF IInv
<1>2. ASSUME NEW t \in Tasks, QuietRun(t) \/ QuietSubmit(t) \/ QuietClose PROVE status' = status
  BY <1>2, QuietChanges
<1>3. ASSUME QuietClose PROVE status' = status
  BY <1>3 DEF QuietClose, StopAccepting, ShutExecutor, vars
<1>4. ASSUME NEW t \in Tasks, BeginTask(t) PROVE status'[u] # "new"
  BY <1>1, <1>4 DEF BeginTask, TypeOK
<1>5. ASSUME NEW t \in Tasks, LoudStep(t) PROVE status'[u] # "new"
  BY <1>1, <1>5, LoudChanges DEF LoudMove, TaskInv, SubmitInv
<1>6. ASSUME FailPending PROVE status'[u] # "new"
  BY <1>5, <1>6 DEF LoudStep
<1> QED BY <1>2, <1>3, <1>4, <1>5, <1>6, StepKinds

-----------------------------------------------------------------------------
\* What is seen of a task that a loud step touches moves as TaskLife allows.
LEMMA LoudAdvances ==
    ASSUME IInv, NEW t \in Tasks, LoudStep(t), NEW u \in Tasks
    PROVE  /\ Seen'[u] \in Life!Phases
           /\ Seen'[u] \in Life!Moves(Seen[u])
           /\ Seen'[u] = "running" => Seen[u] = "running"
           /\ Seen'[u] = "completed" /\ Seen[u] # "completed" => u \in executed
<1>1. TypeOK /\ TaskInv(u)
  BY DEF IInv
<1>2. IInv'
  BY StepKinds, InvInsert, InvSubmitFails, InvOnDone, InvFailPending DEF LoudStep
<1>3. TypeOK' /\ TaskInv(u)'
  BY <1>2 DEF IInv
<1>4. /\ status[u] \in {"new", "pending", "running", "completed", "failed"}
      /\ status'[u] \in {"new", "pending", "running", "completed", "failed"}
  BY <1>1, <1>3 DEF TypeOK
<1>5. /\ status[u] = "new" <=> submitter[u] \in {"start", "insert"}
      /\ status'[u] = "new" <=> submitter'[u] \in {"start", "insert"}
      /\ status[u] \in {"pending", "running"} => u \in tasks
      /\ status'[u] \in {"pending", "running"} => u \in tasks'
  BY <1>1, <1>3 DEF TaskInv, SubmitInv, TableInv
<1>6. /\ Seen[u] = IF status[u] = "new" THEN "none" ELSE IF u \in tasks THEN status[u] ELSE "gone"
      /\ Seen'[u] = IF status'[u] = "new" THEN "none"
                    ELSE IF u \in tasks' THEN status'[u] ELSE "gone"
  BY <1>5 DEF Seen
<1>7. /\ LoudMove(u)
      /\ u \in tasks' => u \in tasks \/ submitter[u] = "insert"
  BY LoudChanges
<1>8. \/ status'[u] = status[u]
      \/ status[u] = "new" /\ status'[u] \in {"pending", "failed"}
      \/ status[u] = "pending" /\ status'[u] = "failed"
      \/ status[u] = "running" /\ status'[u] \in {"completed", "failed"} /\ u \in executed
  BY <1>5, <1>7 DEF LoudMove
<1> QED BY <1>4, <1>5, <1>6, <1>7, <1>8 DEF Life!Phases, Life!Moves, Life!Ended

\* The manager implements TaskLife.
THEOREM ManagerImplementsTaskLife == Spec => ImplementsTaskLife
<1>1. Init => Life!Init
  BY DEF Init, Life!Init, Seen
<1>2. ASSUME IInv, [Next]_vars PROVE [Life!Next]_<<Seen, executed>>
  <2> USE DEF Life!Next
  <2>1. TypeOK /\ \A u \in Tasks : TaskInv(u)
    BY <1>2 DEF IInv
  <2>2. ASSUME UNCHANGED <<tasks, status>>,
               \A u \in Tasks : submitter'[u] \in {"start", "insert"}
                               <=> submitter[u] \in {"start", "insert"}
        PROVE  UNCHANGED Seen
    BY <2>2 DEF Seen
  <2>3. CASE QuietClose
    BY <2>3, <2>2 DEF QuietClose, StopAccepting, ShutExecutor, vars
  <2>4. ASSUME NEW t \in Tasks, QuietSubmit(t) PROVE UNCHANGED <<Seen, executed>>
    <3>1. UNCHANGED executed
      BY <2>4 DEF QuietSubmit, Stamp, Enqueue, Register, Hook, CancelSubmitted
    <3> QED BY <1>2, <2>2, <2>4, <3>1, QuietChanges
  <2>5. ASSUME NEW t \in Tasks, QuietRun(t) PROVE [Life!Next]_<<Seen, executed>>
    <3>1. UNCHANGED Seen
      BY <1>2, <2>2, <2>5, QuietChanges
    <3>2. CASE CallSdk(t)
      <4>1. worker[t] = "call" /\ executed' = executed \cup {t}
        BY <3>2 DEF CallSdk
      <4>2. status[t] = "running" /\ t \in tasks /\ t \notin executed
            /\ submitter[t] \notin {"start", "insert"}
        BY <2>1, <4>1 DEF TypeOK, TaskInv, SubmitInv, WorkInv, TableInv
      <4>3. Seen[t] = "running"
        BY <4>2 DEF Seen
      <4> QED BY <3>1, <4>1, <4>2, <4>3 DEF Life!Execute
    <3>3. CASE ~CallSdk(t)
      BY <2>5, <3>1, <3>3 DEF QuietRun, Pick, SdkReturns, StoreResult, SetOutcome,
         Progress, CancelDoomed, DrainQueue
    <3> QED BY <3>2, <3>3
  <2>6. ASSUME NEW t \in Tasks, BeginTask(t) PROVE [Life!Next]_<<Seen, executed>>
    <3>1. UNCHANGED <<tasks, submitter, executed>>
      BY <2>6 DEF BeginTask
    <3>2. CASE MayBegin(t)
      <4>1. /\ status[t] = "pending" /\ t \in tasks
            /\ status' = [status EXCEPT ![t] = "running"]
        BY <2>6, <3>2 DEF BeginTask, MayBegin
      <4>2. submitter[t] \notin {"start", "insert"}
        BY <2>1, <4>1 DEF TaskInv, SubmitInv
      <4>3. Seen[t] = "pending" /\ Seen' = [Seen EXCEPT ![t] = "running"]
        BY <2>1, <3>1, <4>1, <4>2 DEF Seen, TypeOK
      <4> QED BY <3>1, <4>3 DEF Life!Begin
    <3>3. CASE ~MayBegin(t)
      BY <2>2, <2>6, <3>1, <3>3 DEF BeginTask
    <3> QED BY <3>2, <3>3
  <2>7. ASSUME NEW t \in Tasks, LoudStep(t) PROVE Life!Next
    <3>1. UNCHANGED executed
      BY <2>7 DEF LoudStep, Insert, SubmitFails, OnDone, FailPending
    <3>2. Seen' \in [Tasks -> Life!Phases]
      BY <1>2, <2>7, LoudAdvances DEF Seen
    <3> QED BY <1>2, <2>7, <3>1, <3>2, LoudAdvances DEF Life!Advance
  <2>8. CASE FailPending
    <3>1. CASE Tasks = {}
      BY <2>8, <3>1 DEF FailPending, Seen
    <3>2. CASE Tasks # {}
      BY <2>7, <2>8, <3>2 DEF LoudStep
    <3> QED BY <3>1, <3>2
  <2> QED BY <1>2, <2>3, <2>4, <2>5, <2>6, <2>7, <2>8, StepKinds
<1> QED BY <1>1, <1>2, Invariance, PTL DEF Spec, ImplementsTaskLife, Life!Spec

-----------------------------------------------------------------------------
\* What _prune_locked leaves is within the bound, or has nothing finished in it.
LEMMA PruneBounds ==
    ASSUME NEW ids, IsFiniteSet(ids), NEW st, NEW kept \in Pruned(ids, st)
    PROVE  /\ IsFiniteSet(kept)
           /\ Cardinality(kept) > MaxCompleted => Prunable(kept, st) = {}
<1>0. MaxCompleted \in Nat /\ Cardinality(ids) \in Nat
  BY BoundAssumption, FS_CardinalityType
<1>1. CASE Cardinality(ids) <= MaxCompleted
  BY <1>0, <1>1 DEF Pruned
<1>2. CASE ~(Cardinality(ids) <= MaxCompleted)
  <2> DEFINE over == Prunable(ids, st)
  <2>1. PICK d \in SUBSET over :
          /\ kept = ids \ d
          /\ Cardinality(d) = IF Excess(ids) < Cardinality(over)
                              THEN Excess(ids) ELSE Cardinality(over)
    BY <1>2 DEF Pruned
  <2>2. over \subseteq ids /\ d \subseteq ids
    BY DEF Prunable
  <2>3. IsFiniteSet(over) /\ IsFiniteSet(d) /\ IsFiniteSet(kept)
    BY <2>1, <2>2, FS_Subset
  <2>4. /\ Cardinality(over) \in Nat /\ Cardinality(d) \in Nat
        /\ Cardinality(kept) = Cardinality(ids) - Cardinality(d)
    <3>1. ids \cap d = d
      BY <2>2
    <3>2. Cardinality(ids \ d) = Cardinality(ids) - Cardinality(ids \cap d)
      BY <2>3, FS_Difference
    <3>3. Cardinality(over) \in Nat /\ Cardinality(d) \in Nat
      BY <2>3, FS_CardinalityType
    <3> QED BY <2>1, <3>1, <3>2, <3>3
  <2>5. CASE Excess(ids) < Cardinality(over)
    BY <1>0, <2>1, <2>3, <2>4, <2>5 DEF Excess
  <2>6. CASE ~(Excess(ids) < Cardinality(over))
    <3>1. d = over
      BY <2>1, <2>3, <2>6, FS_Subset
    <3>2. Prunable(kept, st) = {}
      BY <2>1, <3>1 DEF Prunable
    <3> QED BY <2>3, <3>2
  <2> QED BY <2>5, <2>6
<1> QED BY <1>1, <1>2

\* The table is finite and grows above its bound with live tasks only.
THEOREM TableIsBounded == Spec => []BoundKept
<1>1. Init => SizeInv
  BY FS_EmptySet, BoundAssumption DEF Init, SizeInv, BoundKept
<1>2. ASSUME IInv, SizeInv, [Next]_vars PROVE SizeInv'
  <2>1. ASSUME NEW ids, IsFiniteSet(ids), Prune(ids) PROVE SizeInv'
    BY <2>1, PruneBounds DEF Prune, SizeInv, BoundKept
  <2>2. ASSUME UNCHANGED <<tasks, status>> PROVE SizeInv'
    BY <1>2, <2>2 DEF SizeInv, BoundKept, Prunable
  <2>3. ASSUME NEW t \in Tasks, QuietRun(t) \/ QuietSubmit(t) \/ QuietClose PROVE SizeInv'
    BY <1>2, <2>2, <2>3, QuietChanges
  <2>4. CASE QuietClose
    BY <2>2, <2>4 DEF QuietClose, StopAccepting, ShutExecutor, vars
  <2>5. ASSUME NEW t \in Tasks, BeginTask(t) PROVE SizeInv'
    <3>1. UNCHANGED tasks /\ Prunable(tasks, status') \subseteq Prunable(tasks, status)
      BY <1>2, <2>5, ZenonT(60) DEF BeginTask, MayBegin, Prunable, IInv, TypeOK
    <3> QED BY <1>2, <3>1 DEF SizeInv, BoundKept, Prunable
  <2>6. IsFiniteSet(tasks)
    BY <1>2 DEF SizeInv
  <2>7. ASSUME NEW t \in Tasks, LoudStep(t) PROVE SizeInv'
    <3>1. CASE Insert(t)
      BY <2>1, <2>6, <3>1, FS_AddElement DEF Insert
    <3>2. CASE SubmitFails(t) \/ FailPending
      BY <2>1, <2>6, <3>2 DEF SubmitFails, FailPending
    <3>3. CASE OnDone(t)
      BY <2>1, <2>2, <2>6, <3>3 DEF OnDone
    <3> QED BY <2>7, <3>1, <3>2, <3>3 DEF LoudStep
  <2>8. CASE FailPending
    BY <2>1, <2>6, <2>8 DEF FailPending
  <2> QED BY <1>2, <2>3, <2>4, <2>5, <2>7, <2>8, StepKinds
<1> QED BY <1>1, <1>2, Invariance, PTL DEF Spec, SizeInv

-----------------------------------------------------------------------------
(* What a wait tells the client of a download is true: a poll reads a      *)
(* record that is final once it is finished, and what is over stays what   *)
(* it was.                                                                 *)

\* What was told is what is recorded.
ToldInv(t) ==
    /\ handle[t] \in {"completed", "failed"} => status[t] = handle[t]
    /\ handle[t] = "not found" => status[t] \in Finished
    /\ handle[t] # "none" => status[t] # "new"

Tellings == {"none", "waiting", "timed out", "not found", "completed", "failed"}

HandleInv == handle \in [Tasks -> Tellings] /\ \A t \in Tasks : ToldInv(t)

\* Telling of one download leaves the others.
LEMMA TellsOne ==
    ASSUME HandleInv, NEW t \in Tasks, NEW what \in Tellings, UNCHANGED status,
           handle' = [handle EXCEPT ![t] = what],
           what \in {"completed", "failed"} => status[t] = what,
           what = "not found" => status[t] \in {"completed", "failed"},
           status[t] # "new"
    PROVE  HandleInv'
<1>1. handle' \in [Tasks -> Tellings]
  BY DEF HandleInv
<1>2. ASSUME NEW u \in Tasks PROVE ToldInv(u)'
  <2>1. ToldInv(u) /\ handle'[u] = IF u = t THEN what ELSE handle[u]
    BY DEF HandleInv
  <2> QED BY <2>1 DEF ToldInv, Finished
<1> QED BY <1>1, <1>2 DEF HandleInv

LEMMA HandleStep ==
    ASSUME IInv, HandleInv, [HandleNext]_allVars
    PROVE  HandleInv'
<1>1. CASE [Next]_vars /\ UNCHANGED handle
  <2>1. ASSUME NEW u \in Tasks PROVE ToldInv(u)'
    <3>1. ToldInv(u)
      BY DEF HandleInv
    <3> QED BY <1>1, <3>1, FinishedStays, EnteredStays DEF ToldInv, Finished
  <2> QED BY <1>1, <2>1 DEF HandleInv
<1>2. ASSUME NEW t \in Tasks, Wait(t) \/ Poll(t) \/ TimesOut(t) PROVE HandleInv'
  <2>1. status' = status
    BY <1>2 DEF Wait, Poll, TimesOut, Tells, vars, objects
  <2>2. TypeOK /\ TaskInv(t) /\ ToldInv(t)
    BY DEF IInv, HandleInv
  <2>3. CASE Wait(t)
    <3>1. status[t] # "new" /\ handle' = [handle EXCEPT ![t] = "waiting"]
      BY <2>2, <2>3 DEF Wait, Tells, TaskInv, SubmitInv
    <3> QED BY <2>1, <3>1, TellsOne DEF Tellings
  <2>4. CASE Poll(t)
    <3>1. /\ handle[t] = "waiting" /\ handle' = [handle EXCEPT ![t] = Status(t)]
          /\ Status(t) \in {"completed", "failed", "not found"}
      BY <2>4 DEF Poll, Tells, Finished
    <3>2. Status(t) # "not found" => status[t] = Status(t)
      BY DEF Status
    <3>3. status[t] \in {"new", "pending", "running", "completed", "failed"}
      BY <2>2 DEF TypeOK
    <3>4. Status(t) = "not found" => status[t] \in Finished
      BY <2>2, <3>1, <3>3 DEF Status, ToldInv, TaskInv, TableInv, Finished
    <3> QED BY <2>1, <2>2, <3>1, <3>2, <3>4, TellsOne DEF Tellings, ToldInv, Finished
  <2>5. CASE TimesOut(t)
    <3>1. handle[t] = "waiting" /\ handle' = [handle EXCEPT ![t] = "timed out"]
      BY <2>5 DEF TimesOut, Tells
    <3> QED BY <2>1, <2>2, <3>1, TellsOne DEF Tellings, ToldInv
  <2> QED BY <1>2, <2>3, <2>4, <2>5
<1>3. \/ [Next]_vars /\ UNCHANGED handle
      \/ \E t \in Tasks : Wait(t) \/ Poll(t) \/ TimesOut(t)
  BY DEF HandleNext, allVars
<1> QED BY <1>1, <1>2, <1>3

\* A wait never tells of a success that was none, of a failure whose call may
\* still succeed, or that a live download is not found.
THEOREM WaitsTellTheTruth == HandleSpec => []WaitTellsTruth
<1>1. HandleInit => IInv /\ HandleInv
  BY InvInit DEF HandleInit, HandleInv, ToldInv, Tellings, Finished
<1>2. IInv /\ [HandleNext]_allVars => IInv'
  <2> SUFFICES ASSUME IInv, [HandleNext]_allVars PROVE IInv'
    OBVIOUS
  <2>1. [Next]_vars
    BY DEF HandleNext, allVars, Wait, Poll, TimesOut, Tells
  <2> QED BY <2>1, InvNext
<1>3. IInv /\ HandleInv /\ [HandleNext]_allVars => HandleInv'
  BY HandleStep
<1>4. IInv /\ HandleInv => WaitTellsTruth
  <2> SUFFICES ASSUME IInv, HandleInv, NEW t \in Tasks
               PROVE  /\ handle[t] = "completed" => t \in executed /\ future[t] = "ok"
                      /\ handle[t] = "failed" => t \notin executed \/ future[t] = "raised"
                      /\ handle[t] = "not found" => status[t] \in Finished
    BY DEF WaitTellsTruth
  <2>1. TypeOK /\ TaskInv(t) /\ ToldInv(t)
    BY DEF IInv, HandleInv
  <2>2. status[t] = "completed" => t \in executed /\ future[t] = "ok"
    BY <2>1 DEF TypeOK, TaskInv, WorkInv, OverInv
  <2>3. status[t] = "failed" => t \notin executed \/ future[t] = "raised"
    BY <2>1 DEF TaskInv, ErrorInv
  <2> QED BY <2>1, <2>2, <2>3 DEF ToldInv, Finished
<1> QED BY <1>1, <1>2, <1>3, <1>4, PTL DEF HandleSpec
=============================================================================

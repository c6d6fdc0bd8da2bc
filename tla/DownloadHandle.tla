--------------------------- MODULE DownloadHandle ---------------------------
(***************************************************************************)
(* The DownloadHandle of client/downloads.py, which waits for a download   *)
(* of DownloadTasks by polling it through server/download_service.py.  A   *)
(* deadline of the client may have passed at any poll.                     *)
(***************************************************************************)
EXTENDS DownloadTasks

VARIABLE handle  \* what wait() is about to tell the client of each download, or told it

allVars == <<vars, handle>>

HandleInit == Init /\ handle = [t \in Tasks |-> "none"]

Tells(t, what) ==
    /\ handle' = [handle EXCEPT ![t] = what]
    /\ UNCHANGED vars

\* DownloadService.get_task: TASK_NOT_FOUND of a task that is not in the table.
Status(t) == IF t \in tasks THEN status[t] ELSE "not found"

\* The TaskRef has come, and the client waits; it may wait again after a timeout.
Wait(t) ==
    /\ submitter[t] = "returned" /\ handle[t] \in {"none", "timed out"}
    /\ Tells(t, "waiting")

\* A poll that ends the wait.
Poll(t) ==
    /\ handle[t] = "waiting"
    /\ Status(t) \in Finished \cup {"not found"}
    /\ Tells(t, Status(t))

\* A poll that finds the download still going on, after the deadline.
TimesOut(t) ==
    /\ handle[t] = "waiting"
    /\ Status(t) \notin Finished \cup {"not found"}
    /\ Tells(t, "timed out")

HandleNext ==
    \/ Next /\ UNCHANGED handle
    \/ \E t \in Tasks : Wait(t) \/ Poll(t) \/ TimesOut(t)

HandleSpec == HandleInit /\ [][HandleNext]_allVars

\* The client goes on polling.
HandleFairSpec ==
    HandleSpec /\ Fairness /\ \A t \in Tasks : WF_allVars(Poll(t))

-----------------------------------------------------------------------------
\* What a wait tells is true of the SDK call itself: "completed" of one that
\* returned; "failed" of one that raised, or is never made behind the client's
\* back; and a download that is not found any more
\* is over, however full the table of downloads is.
WaitTellsTruth ==
    \A t \in Tasks :
        /\ handle[t] = "completed" => t \in executed /\ future[t] = "ok"
        /\ handle[t] = "failed" => t \notin executed \/ future[t] = "raised"
        /\ handle[t] = "not found" => status[t] \in Finished
=============================================================================

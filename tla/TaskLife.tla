------------------------------ MODULE TaskLife ------------------------------
(***************************************************************************)
(* What the download manager promises about the life of a task, to its     *)
(* clients and to the maintenance drain: a task is executed at most once,  *)
(* only on its way from pending to an outcome, and an outcome is final.    *)
(* Finished tasks may be forgotten at any time.                            *)
(***************************************************************************)
EXTENDS Naturals

CONSTANT Tasks  \* identities of submitted downloads, never reused

VARIABLES
    life,     \* what an observer of the manager sees of each task
    executed  \* tasks whose SDK function was called

Phases == {"none", "pending", "running", "completed", "failed", "gone"}
Ended == {"completed", "failed", "gone"}

\* Several tasks may move in one step, and what ends may be forgotten at once.
Moves(from) ==
    CASE from = "none"    -> {"none", "pending", "failed", "gone"}
      [] from = "pending" -> {"pending", "running", "failed", "gone"}
      [] from = "running" -> {"running"} \cup Ended
      [] OTHER            -> {from, "gone"}

Init ==
    /\ life = [t \in Tasks |-> "none"]
    /\ executed = {}

\* Submissions, refusals, failures, outcomes and evictions.
Advance ==
    /\ life' \in [Tasks -> Phases]
    /\ \A t \in Tasks : life'[t] \in Moves(life[t])
    /\ \A t \in Tasks : life'[t] = "running" => life[t] = "running"
    /\ \A t \in Tasks : life'[t] = "completed" /\ life[t] # "completed" => t \in executed
    /\ UNCHANGED executed

\* A worker takes a pending task ...
Begin(t) ==
    /\ life[t] = "pending"
    /\ life' = [life EXCEPT ![t] = "running"]
    /\ UNCHANGED executed

\* ... and calls its function, once.
Execute(t) ==
    /\ life[t] = "running"
    /\ t \notin executed
    /\ executed' = executed \cup {t}
    /\ UNCHANGED life

Next == Advance \/ \E t \in Tasks : Begin(t) \/ Execute(t)

Spec == Init /\ [][Next]_<<life, executed>>

\* A task somebody still works on or will work on.
Active == {t \in Tasks : life[t] \in {"pending", "running"}}
=============================================================================

----------------------------- MODULE MutationCall -----------------------------
(***************************************************************************)
(* What the bridge to BigQMT promises to whoever orders or cancels through *)
(* it: the native function is called at most once per request, and never   *)
(* for a request whose caller was told that nothing was executed.  Only an *)
(* unknown outcome leaves it open whether the function was, or will be,    *)
(* called.                                                                 *)
(***************************************************************************)
EXTENDS Naturals

CONSTANT Calls  \* identities of the requests, never reused

VARIABLES
    runs,  \* how often the native function was called for each request
    told   \* what the caller of each request knows

Answers == {"ok", "declined", "not_executed", "unknown"}

Init ==
    /\ runs = [c \in Calls |-> 0]
    /\ told = [c \in Calls |-> "waiting"]

\* The native function is called, possibly after the caller gave up.
Run(c) ==
    /\ runs[c] = 0
    /\ told[c] \in {"waiting", "unknown"}
    /\ runs' = [runs EXCEPT ![c] = 1]
    /\ UNCHANGED told

\* The caller gets its answer, which is final.
Tell(c, a) ==
    /\ told[c] = "waiting"
    /\ a = "ok" => runs[c] = 1
    /\ a \in {"declined", "not_executed"} => runs[c] = 0
    /\ told' = [told EXCEPT ![c] = a]
    /\ UNCHANGED runs

Next == \E c \in Calls : Run(c) \/ \E a \in Answers : Tell(c, a)

Spec == Init /\ [][Next]_<<runs, told>>
=============================================================================

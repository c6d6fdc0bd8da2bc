----------------------------- MODULE BatchReads -----------------------------
(***************************************************************************)
(* A batch of securities read from BigQMT, one result each, in a bounded   *)
(* pool of threads: adapters/batch.py, its users in adapters/bigqmt, and   *)
(* the two that have a pool of their own, options.py and financials.py.    *)
(* Some ask the bridge for every security, others once for all of them     *)
(* before the pool begins.                                                 *)
(*                                                                         *)
(* The threads read through the transport of OptionDiscovery, beside its   *)
(* health loop, while the strategy may be restarted.                       *)
(***************************************************************************)
EXTENDS OptionDiscovery

CONSTANTS
    Size,     \* bound: securities of a batch
    Workers   \* workers, threads of the pool

ASSUME BatchAssumption == Size \in Nat \ {0} /\ Workers \in Nat \ {0}

VARIABLES
    batch,  \* the caller: its operation and step, and the read for all
    item    \* the securities, in the order of the request

batchVars == <<batch, item>>
Items == 1..Size

\* Why an item's own read failed is kept beside what is made of it: it was "bad",
\* or the bridge, or what it should offer, was "lost".
Queued == [at |-> "queued", addressed |-> Nothing, answers |-> 0, why |-> "none"]
NoBatch == [operation |-> "none", step |-> "idle", addressed |-> Nothing, lost |-> FALSE]

BatchInit == batch = NoBatch /\ item = [i \in Items |-> Queued]

-----------------------------------------------------------------------------
(* The operations: how the item of a security goes on after an answer. *)

Settled == {"found", "failed"}

\* get_details: the general view, and if it is there the one of an option.
DetailsNext(answers) == IF answers = 1 THEN {"reading", "failed"} ELSE Settled

\* get_trading_reference: one view, which may lack what is required.
ReferenceNext == Settled

\* get_reports: one read, which may omit the security or be malformed.
ReportsNext == Settled

\* get_contract_details, get_ticks: the row of the security among those that were
\* read for all; it may be missing, malformed or the mark of a failed read.
RowNext == Settled

Grouped == {"contracts", "ticks"}
Operations == Grouped \cup {"details", "reference", "reports"}

AfterAnswer(answers) ==
    CASE batch.operation = "details" -> DetailsNext(answers)
      [] batch.operation = "reference" -> ReferenceNext
      [] batch.operation = "reports" -> ReportsNext
      [] OTHER -> RowNext

-----------------------------------------------------------------------------
(* The caller. *)

AskBatch(operation) ==
    /\ batch.step = "idle"
    /\ batch' = [batch EXCEPT !.operation = operation,
                              !.step = IF operation \in Grouped THEN "group" ELSE "pool"]
    /\ UNCHANGED <<item, discoveryVars>>

\* The read for all is addressed like any other, ...
SendGroup ==
    /\ batch.step = "group" /\ batch.addressed = Nothing
    /\ batch' = IF instance = Nothing THEN [batch EXCEPT !.step = "raised", !.lost = TRUE]
                ELSE [batch EXCEPT !.addressed = instance]
    /\ UNCHANGED <<item, discoveryVars>>

\* ... contracts in groups of 16, ...
ReplyGroup ==
    /\ batch.addressed # Nothing /\ batch.addressed = strategy
    /\ \E step \in IF batch.operation = "contracts" THEN {"group", "pool"} ELSE {"pool"} :
         batch' = [batch EXCEPT !.step = step, !.addressed = Nothing]
    /\ UNCHANGED <<item, discoveryVars>>

\* ... and whatever fails, fails for all.
GroupFails ==
    /\ batch.addressed # Nothing
    /\ \/ batch.addressed # strategy /\ instance' = Invalidated(batch.addressed) /\ UNCHANGED faults
       \/ /\ faults < MaxFailures /\ faults' = faults + 1
          /\ instance' \in {instance, Invalidated(batch.addressed)}
    /\ batch' = [batch EXCEPT !.step = "raised", !.addressed = Nothing, !.lost = TRUE]
    /\ UNCHANGED <<strategy, started, health, my, cacheVars, item>>

-----------------------------------------------------------------------------
(* The threads of the pool. *)

Running == {i \in Items : item[i].at = "reading"}

\* The items are begun in order.
Begin(i) ==
    /\ batch.step = "pool" /\ Cardinality(Running) < Workers
    /\ item[i].at = "queued" /\ \A j \in 1..(i - 1) : item[j].at # "queued"
    /\ item' = [item EXCEPT ![i].at = "reading"]
    /\ UNCHANGED <<batch, discoveryVars>>

NeverRethrown(why) == "failed"  \* mutant: whatever an item meets becomes its result
\* NOT_CONNECTED and API_UNAVAILABLE are no result of an item.
Rethrown(why) == IF why = "lost" THEN "raised" ELSE "failed"

Fails(i, why) ==
    item' = [item EXCEPT ![i].at = Rethrown(why), ![i].why = why, ![i].addressed = Nothing]

Reading(i) == item[i].at = "reading" /\ item[i].addressed = Nothing

\* A read is addressed to the instance known now; there may be none.
SendItem(i) ==
    /\ Reading(i) /\ batch.operation \notin Grouped
    /\ IF instance = Nothing THEN Fails(i, "lost") ELSE item' = [item EXCEPT ![i].addressed = instance]
    /\ UNCHANGED <<batch, discoveryVars>>

\* An answer, of the strategy or from the rows read for all, is made a result.
Answered(i) ==
    /\ \/ item[i].addressed # Nothing /\ item[i].addressed = strategy
       \/ Reading(i) /\ batch.operation \in Grouped
    /\ \E at \in AfterAnswer(item[i].answers + 1) :
        IF at = "failed" THEN Fails(i, "bad")
        ELSE item' = [item EXCEPT ![i].at = at, ![i].answers = @ + 1, ![i].addressed = Nothing]
    /\ UNCHANGED <<batch, discoveryVars>>

\* The exchange breaks down, the strategy lacks the function, or no slot of the
\* bridge becomes free in time, which is a failure of the item.
ItemFails(i) ==
    /\ item[i].addressed # Nothing
    /\ \/ /\ item[i].addressed # strategy /\ UNCHANGED faults
          /\ instance' = Invalidated(item[i].addressed) /\ Fails(i, "lost")
       \/ /\ faults < MaxFailures /\ faults' = faults + 1
          /\ \/ instance' = Invalidated(item[i].addressed) /\ Fails(i, "lost")
             \/ UNCHANGED instance /\ \E why \in {"lost", "bad"} : Fails(i, why)
    /\ UNCHANGED <<strategy, started, health, my, cacheVars, batch>>

-----------------------------------------------------------------------------
(* The caller collects the results in order. *)

Collect ==
    /\ batch.step = "pool" /\ \A i \in Items : item[i].at \in Settled
    /\ batch' = [batch EXCEPT !.step = "answered"]
    /\ UNCHANGED <<item, discoveryVars>>

\* The first exception in this order ends the collection; what was not begun is
\* cancelled, ...
Raise ==
    /\ batch.step = "pool"
    /\ \E i \in Items : item[i].at = "raised" /\ \A j \in 1..(i - 1) : item[j].at \in Settled
    /\ batch' = [batch EXCEPT !.step = "leaving"]
    /\ item' = [i \in Items |-> IF item[i].at = "queued" THEN [item[i] EXCEPT !.at = "cancelled"]
                                ELSE item[i]]
    /\ UNCHANGED discoveryVars

\* ... and the pool is left when its threads are done.
LeavePool ==
    /\ batch.step = "leaving" /\ Running = {}
    /\ batch' = [batch EXCEPT !.step = "raised"]
    /\ UNCHANGED <<item, discoveryVars>>

ReturnBatch ==
    /\ batch.step \in {"answered", "raised"}
    /\ batch' = NoBatch /\ item' = [i \in Items |-> Queued]
    /\ UNCHANGED discoveryVars

-----------------------------------------------------------------------------
BatchNext ==
    \/ (Restart \/ Ping \/ Adopt \/ PingFails \/ Stop) /\ UNCHANGED batchVars
    \/ \E operation \in Operations : AskBatch(operation)
    \/ SendGroup \/ ReplyGroup \/ GroupFails
    \/ \E i \in Items : Begin(i) \/ SendItem(i) \/ Answered(i) \/ ItemFails(i)
    \/ Collect \/ Raise \/ LeavePool \/ ReturnBatch

\* A batch is answered whole or not at all: whoever is given one finds for every
\* security what its own reads gave, and a failed one never stands for a bridge
\* that was lost on the way; a batch is raised only for a lost bridge (or a failed
\* read for all), never for one bad security; and none of its reads goes on after.
BatchIsWhole ==
    /\ batch.step = "answered" => \A i \in Items :
         \/ item[i].at = "found" /\ item[i].answers = (IF batch.operation = "details" THEN 2 ELSE 1)
         \/ item[i].at = "failed" /\ item[i].why = "bad"
    /\ batch.step = "raised" => batch.lost \/ \E i \in Items : item[i].why = "lost"
    /\ batch.step \in {"answered", "raised"} => Running = {}
=============================================================================

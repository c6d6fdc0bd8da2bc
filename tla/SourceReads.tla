----------------------------- MODULE SourceReads -----------------------------
(***************************************************************************)
(* What a thread that reads from BigQMT through storage/providers.py may   *)
(* wait for.  Expiry dates and the list of underlyings are discovered anew *)
(* under a partition lock; chains are passed through to the discovery      *)
(* cache without one.  So nobody who has a lock leads or follows a flight, *)
(* and the two may be looked at one after the other.                       *)
(***************************************************************************)
EXTENDS PartitionLocks, BatchReads

CONSTANT Traffic  \* bound: what the threads do at the same time

ASSUME TrafficAssumption == Traffic \subseteq SUBSET {"queries", "discovery", "batches"}

VARIABLE incoming

readsVars == <<vars, discoveryVars, batchVars, incoming>>

ReadsInit == Init /\ DiscoveryInit /\ BatchInit /\ incoming \in Traffic

ReadsNext ==
    /\ \/ "queries" \in incoming /\ Next /\ UNCHANGED <<discoveryVars, batchVars>>
       \/ "discovery" \in incoming /\ DiscoveryNext /\ UNCHANGED <<vars, batchVars>>
       \/ "batches" \in incoming /\ BatchNext /\ UNCHANGED vars
    /\ UNCHANGED incoming

ReadsSpec == ReadsInit /\ [][ReadsNext]_readsVars

-----------------------------------------------------------------------------
\* The threads in progress never all wait for each other: of the queries one is
\* not waiting, or the lock it waits for is free; a flight that somebody waits
\* for is flown by its leader, who waits for nobody.
QueriesMove ==
    /\ (\E t \in Threads : plan[t] # {}) =>
         \E t \in Threads :
            /\ plan[t] # {}
            /\ \A k \in Keys : at[t][k] = "waiting" => owner[lock[t][k]] = None
    /\ \A c \in Callers : get[c].at = "wait" =>
         get[get[c].leader].at \in {"load", "store"} /\ my[get[c].leader].step # "idle"
=============================================================================

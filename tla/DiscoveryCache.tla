--------------------------- MODULE DiscoveryCache ---------------------------
(***************************************************************************)
(* adapters/bigqmt/cache.py: a bounded cache whose misses are loaded once  *)
(* for all callers that wait for the same key.                             *)
(*                                                                         *)
(* Every section under the lock is one action.  A future is known by the   *)
(* caller that made it, its leader, and its result is handed to the        *)
(* callers that wait for it when it is set.  Time is not counted: at any   *)
(* get, any of the values may have expired.                                *)
(***************************************************************************)
EXTENDS Naturals, FiniteSets

CONSTANTS
    Callers,   \* threads that discover
    Capacity,  \* capacity
    MaxClears, \* bound: how often the cache is cleared
    Nothing    \* Python's None

ASSUME CacheAssumption ==
    /\ Capacity \in Nat \ {0} /\ MaxClears \in Nat
    /\ Nothing \notin Callers /\ IsFiniteSet(Callers)

VARIABLES
    values,      \* values: [key, value, rank], the least recently used has rank 1
    pending,     \* pending: the flights [generation, key, leader]
    generation,  \* generation
    get          \* where each caller is in get()

cacheVars == <<values, pending, generation, get>>

\* The caller is not in get().  A result is <<value>>, or <<>> when the load failed.
Outside == [at |-> "out", key |-> Nothing, generation |-> 0, leader |-> Nothing, result |-> <<>>]

CacheInit ==
    /\ values = {} /\ pending = {} /\ generation = 0
    /\ get = [c \in Callers |-> Outside]

Leaves(c, result) == get' = [get EXCEPT ![c].at = "left", ![c].result = result]

-----------------------------------------------------------------------------
AnyFlightOf(k) == {f \in pending : f.key = k}  \* mutant: flights are not told apart by generation
FlightOf(k) == {f \in pending : f.key = k /\ f.generation = generation}

\* The values in S, in their order; the last use has the highest rank.
Ranked(S) == {[v EXCEPT !.rank = Cardinality({w \in S : w.rank <= v.rank})] : v \in S}
Last == Capacity + 1

\* A hit is moved to the end.
Hit(c, k, kept) ==
    \E v \in kept :
        /\ v.key = k
        /\ values' = Ranked((kept \ {v}) \cup {[v EXCEPT !.rank = Last]})
        /\ get' = [get EXCEPT ![c] = [Outside EXCEPT !.at = "left", !.key = k, !.generation = generation,
                                                     !.result = <<v.value>>]]
        /\ UNCHANGED pending

\* A follower waits for the leader's future, which may be set already; ...
Follow(c, k, f) ==
    /\ get' = [get EXCEPT ![c] = [Outside EXCEPT
                   !.at = IF get[f.leader].at = "set" THEN "left" ELSE "wait",
                   !.key = k, !.generation = generation, !.leader = f.leader,
                   !.result = get[f.leader].result]]
    /\ UNCHANGED pending

\* ... a leader loads, and is followed only while there are few flights.
Lead(c, k) ==
    /\ get' = [get EXCEPT ![c] = [Outside EXCEPT !.at = "load", !.key = k, !.generation = generation]]
    /\ pending' = IF Cardinality(pending) < Capacity
                  THEN pending \cup {[generation |-> generation, key |-> k, leader |-> c]}
                  ELSE pending

\* get, first section: values that have expired are dropped.
Get(c, k) ==
    /\ get[c].at = "out"
    /\ \E kept \in SUBSET values :
           IF \E v \in kept : v.key = k THEN Hit(c, k, kept)
           ELSE /\ values' = Ranked(kept)
                /\ IF FlightOf(k) # {} THEN \E f \in FlightOf(k) : Follow(c, k, f) ELSE Lead(c, k)
    /\ UNCHANGED generation

-----------------------------------------------------------------------------
MayStore(c) == get[c].generation = generation

\* The store of a loaded value, within the capacity, ...
Loaded(c, value) ==
    /\ get[c].at = "load"
    /\ get' = [get EXCEPT ![c].at = "store", ![c].result = <<value>>]
    /\ LET all == {v \in values : v.key # get[c].key}
                     \cup {[key |-> get[c].key, value |-> value, rank |-> Last]}
       IN values' = IF MayStore(c)
                    THEN Ranked({v \in all : v.rank > 1 \/ Cardinality(all) <= Capacity})
                    ELSE values
    /\ UNCHANGED <<pending, generation>>

\* The leader's result, and that of all who wait for it.
Settle(c, result) ==
    get' = [d \in Callers |->
              IF d = c THEN [get[c] EXCEPT !.at = "set", !.result = result]
              ELSE IF get[d].at = "wait" /\ get[d].leader = c
                   THEN [get[d] EXCEPT !.at = "left", !.result = result]
              ELSE get[d]]

\* ... set_result, or set_exception when load() raised, ...
SetResult(c) ==
    /\ get[c].at = "store" /\ Settle(c, get[c].result)
    /\ UNCHANGED <<values, pending, generation>>

LoadFails(c) ==
    /\ get[c].at = "load" /\ Settle(c, <<>>)
    /\ UNCHANGED <<values, pending, generation>>

\* ... and the end of the flight.
Untrack(c) ==
    /\ get[c].at = "set" /\ Leaves(c, get[c].result)
    /\ pending' = {f \in pending : f.leader # c}
    /\ UNCHANGED <<values, generation>>

Clear ==
    /\ generation < MaxClears
    /\ generation' = generation + 1 /\ values' = {}
    /\ UNCHANGED <<pending, get>>
=============================================================================

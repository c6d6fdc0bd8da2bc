--------------------------- MODULE PartitionLocks ---------------------------
(***************************************************************************)
(* storage/concurrency.py: a lock per key that exists only while somebody  *)
(* uses it, and the calls of storage/service.py that hold one or several   *)
(* of them around their reads of the cache and of the source.              *)
(*                                                                         *)
(* Each section under _guard is one action.  A lock object is a member of  *)
(* Locks; a fresh one is one that nobody refers to.  No call holds a key   *)
(* twice, so that the locks need not be reentrant.                         *)
(***************************************************************************)
EXTENDS Integers, FiniteSets

CONSTANTS
    Threads,     \* threads that answer queries
    Securities,  \* security codes, as numbers in the order of the codes
    Calendar,    \* the key of a market's calendar
    Locks,       \* lock objects
    None         \* Python's None

ASSUME LocksAssumption ==
    /\ IsFiniteSet(Threads)
    /\ Securities \subseteq Int /\ Calendar \in Int
    /\ \A s \in Securities : s < Calendar
    /\ None \notin Locks \cup Threads

Keys == Securities \cup {Calendar}

VARIABLES
    entries,  \* _entries: the lock and the number of users of each key
    owner,    \* the thread that has each lock object
    plan,     \* the keys each thread's call holds
    at,       \* where each thread is in hold(key)
    lock,     \* the local variable of hold(key)
    leaving   \* the body under the locks taken so far has ended

vars == <<entries, owner, plan, at, lock, leaving>>

NoEntry == [lock |-> None, users |-> 0]

\* details() takes the locks of its codes; the other queries take the lock of a
\* security, that of a calendar, or the first and within it the second, for
\* evidence and for filling.
Plans ==
    ((SUBSET Securities) \ {{}}) \cup {{Calendar}} \cup {{s, Calendar} : s \in Securities}

Init ==
    /\ entries = [k \in Keys |-> NoEntry]
    /\ owner = [l \in Locks |-> None]
    /\ plan = [t \in Threads |-> {}]
    /\ at = [t \in Threads |-> [k \in Keys |-> "out"]]
    /\ lock = [t \in Threads |-> [k \in Keys |-> None]]
    /\ leaving = [t \in Threads |-> FALSE]

\* Locks that an entry or a thread refers to.
Referenced == {entries[k].lock : k \in Keys} \cup {lock[t][k] : t \in Threads, k \in Keys}

\* A call comes with the keys it will hold.
Call(t) ==
    /\ plan[t] = {}
    /\ \E p \in Plans : plan' = [plan EXCEPT ![t] = p]
    /\ leaving' = [leaving EXCEPT ![t] = FALSE]
    /\ UNCHANGED <<entries, owner, at, lock>>

DueAsAsked(t, k) ==  \* mutant: the order of the request is kept
    /\ k \in plan[t] /\ at[t][k] = "out" /\ ~leaving[t]
    /\ \A j \in plan[t] : at[t][j] \in {"in", "out"}

\* The locks are taken in the order of the keys.
Due(t, k) ==
    /\ k \in plan[t] /\ at[t][k] = "out" /\ ~leaving[t]
    /\ \A j \in plan[t] : j < k => at[t][j] = "in"

\* hold, first section: find or make the entry of the key.
Enter(t, k) ==
    /\ Due(t, k)
    /\ \E l \in IF entries[k].users = 0 THEN Locks \ Referenced ELSE {entries[k].lock} :
        /\ entries' = [entries EXCEPT ![k] = [lock |-> l, users |-> entries[k].users + 1]]
        /\ lock' = [lock EXCEPT ![t][k] = l]
    /\ at' = [at EXCEPT ![t][k] = "waiting"]
    /\ UNCHANGED <<owner, plan, leaving>>

\* with lock: blocks while another thread has it.
Acquire(t, k) ==
    /\ at[t][k] = "waiting"
    /\ owner[lock[t][k]] = None
    /\ owner' = [owner EXCEPT ![lock[t][k]] = t]
    /\ at' = [at EXCEPT ![t][k] = "in"]
    /\ UNCHANGED <<entries, plan, lock, leaving>>

\* The body ends, with all locks taken or without having needed the calendar.
Finish(t) ==
    /\ plan[t] # {} /\ ~leaving[t]
    /\ \A k \in plan[t] : at[t][k] = "in" \/ (k = Calendar /\ at[t][k] = "out" /\ plan[t] # {k})
    /\ leaving' = [leaving EXCEPT ![t] = TRUE]
    /\ UNCHANGED <<entries, owner, plan, at, lock>>

\* The end of with: the lock taken last is released first ...
Release(t, k) ==
    /\ leaving[t] /\ at[t][k] = "in"
    /\ \A j \in plan[t] : j > k => at[t][j] = "out"
    /\ owner' = [owner EXCEPT ![lock[t][k]] = None]
    /\ at' = [at EXCEPT ![t][k] = "released"]
    /\ UNCHANGED <<entries, plan, lock, leaving>>

LeftDeleting(t, k) == NoEntry  \* mutant: every user deletes the entry

\* The entry of key k when thread t leaves it: the last user deletes it.
Left(t, k) ==
    IF entries[k].users = 1 THEN NoEntry
    ELSE [lock |-> lock[t][k], users |-> entries[k].users - 1]

\* ... and hold, last section.  A call that is left without keys is over; one
\* that leaves the calendar goes on under the lock of its security, and may
\* come back to the calendar.
Leave(t, k) ==
    /\ at[t][k] = "released"
    /\ entries' = [entries EXCEPT ![k] = Left(t, k)]
    /\ at' = [at EXCEPT ![t][k] = "out"]
    /\ lock' = [lock EXCEPT ![t][k] = None]
    /\ plan' = [plan EXCEPT ![t] = IF \A j \in Keys \ {k} : at[t][j] = "out" THEN {} ELSE @]
    /\ leaving' = [leaving EXCEPT ![t] = k # Calendar]
    /\ UNCHANGED owner

Next == \E t \in Threads :
    \/ Call(t) \/ Finish(t)
    \/ \E k \in Keys : Enter(t, k) \/ Acquire(t, k) \/ Release(t, k) \/ Leave(t, k)

Spec == Init /\ [][Next]_vars

-----------------------------------------------------------------------------
TypeOK ==
    /\ entries \in [Keys -> [lock : Locks \cup {None}, users : Nat]]
    /\ owner \in [Locks -> Threads \cup {None}]
    /\ plan \in [Threads -> SUBSET Keys]
    /\ at \in [Threads -> [Keys -> {"out", "waiting", "in", "released"}]]
    /\ lock \in [Threads -> [Keys -> Locks \cup {None}]]
    /\ leaving \in [Threads -> BOOLEAN]

\* No two threads are in the body of hold for the same key, although the lock
\* of a key is dropped and made anew: otherwise two queries of one security
\* would read, ask and write over each other.
MutualExclusion ==
    \A t, u \in Threads, k \in Keys : at[t][k] = "in" /\ at[u][k] = "in" => t = u

=============================================================================

----------------------------- MODULE QueryTime -----------------------------
(***************************************************************************)
(* What the queries of storage/service.py share: the threads that serve    *)
(* them, the clock, the freshness rules of storage/policy.py and the       *)
(* partition locks.  A lock is a place that one thread has at a time, as   *)
(* PartitionLocks!MutualExclusion shows of storage/concurrency.py.         *)
(***************************************************************************)
EXTENDS Integers, FiniteSets

CONSTANTS
    Threads,    \* the threads that serve queries
    TicksPerDay, FirstDay, \* instants of a day, and the day of the first one
    LastClock,  \* bound: the last instant
    MaxFaults,  \* bound: calls of the source and of SQLite that fail
    None        \* Python's None

ASSUME TimeAssumption ==
    /\ TicksPerDay \in Nat \ {0} /\ FirstDay \in Nat \ {0} /\ LastClock \in Nat
    /\ MaxFaults \in Nat /\ None \notin Int /\ None \notin Threads

VARIABLES
    clock,   \* utc_now
    at,      \* the step each thread takes next, "done" when it has answered
    lock,    \* the thread that has each partition lock
    faults   \* failures so far

\* The locks of one security, of its market's calendar and of the two lists.
Locks == {"security", "calendar", "underlyings", "expiry"}

Instants == 0..LastClock

\* QueryTime.today: the Shanghai date of an instant.
Day(instant) == FirstDay + instant \div TicksPerDay

\* Freshness.valid for the policies "forever" and "day".
ValidForever(updated, now) == updated # None /\ updated <= now
ValidDay(updated, now) == ValidForever(updated, now) /\ Day(updated) = Day(now)

Free(l) == lock[l] = None
\* The locks when t leaves the with-blocks of S.
Leaving(t, S) == [l \in Locks |-> IF l \in S /\ lock[l] = t THEN None ELSE lock[l]]

\* One more call may fail.
MayFail == faults < MaxFaults
=============================================================================

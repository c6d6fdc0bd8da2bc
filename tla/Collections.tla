---------------------------- MODULE Collections ----------------------------
(***************************************************************************)
(* The queries of storage/service.py whose answer is stored whole: the     *)
(* details of a security, the underlyings of options, the expiry dates of  *)
(* one of them, and the financial reports in their two views.  What the    *)
(* source returns is named by the instant at which it returns it.          *)
(***************************************************************************)
EXTENDS QueryTime

CONSTANTS
    FinancialsAttested, \* a source that says its reports are complete
    ListQueries         \* the requests that come: a key, and whether to refresh

Views == {"report_time", "announce_time"}
Keys == {"details", "underlyings", "expiry"} \cup Views

ASSUME ListsAssumption == ListQueries \subseteq [key : Keys, refresh : BOOLEAN]

\* Details and reports are read under the lock of their security.
LockOf(key) == IF key \in {"underlyings", "expiry"} THEN key ELSE "security"

VARIABLES
    lists,  \* the stored value of each key, and since when it counts as known
    wants   \* the query of each thread, what it got, and when

listVars == <<lists, wants>>

Nothing == [value |-> None, since |-> None]
NoWish == [r |-> None]

ListsInit ==
    /\ lists = [k \in Keys |-> Nothing]
    /\ wants = [t \in Threads |-> NoWish]

Fresh(key, now) ==
    IF key \in Views THEN ValidForever(lists[key].since, now) ELSE ValidDay(lists[key].since, now)

End(t, want, held) ==
    /\ at' = [at EXCEPT ![t] = "done"]
    /\ wants' = [wants EXCEPT ![t] = want]
    /\ lock' = Leaving(t, held)

-----------------------------------------------------------------------------
\* The query comes; expiry_dates reads the date of its answer before the lock.
AskList(t) ==
    /\ at[t] = "idle"
    /\ \E r \in ListQueries :
         wants' = [wants EXCEPT ![t] = [r |-> r, asked |-> clock, value |-> None, started |-> None]]
    /\ at' = [at EXCEPT ![t] = "read list"]
    /\ UNCHANGED <<clock, lock, faults, lists>>

\* With the lock: the stored value, or a call whose beginning is noted.
ReadList(t) ==
    /\ at[t] = "read list"
    /\ LET w == wants[t]
           key == w.r.key
       IN /\ Free(LockOf(key))
          /\ IF ~w.r.refresh /\ Fresh(key, clock)
             THEN End(t, [w EXCEPT !.value = lists[key].value], {})
             ELSE /\ lock' = [lock EXCEPT ![LockOf(key)] = t]
                  /\ wants' = [wants EXCEPT ![t].started = clock]
                  /\ at' = [at EXCEPT ![t] = "call list"]
    /\ UNCHANGED <<clock, faults, lists>>

CallList(t) ==
    /\ at[t] = "call list"
    /\ wants' = [wants EXCEPT ![t].value = clock]
    /\ at' = [at EXCEPT ![t] = "write list"]
    /\ UNCHANGED <<clock, lock, faults, lists>>

\* The source fails, or its result does not satisfy the contract.
ListFails(t) ==
    /\ at[t] = "call list"
    /\ MayFail /\ faults' = faults + 1
    /\ End(t, NoWish, Locks)
    /\ UNCHANGED <<clock, lists>>

StampedLate(w) == clock  \* mutant: the time of the write
Stamp(w) == w.started

\* Reports of one view withdraw what was known of the other.
WriteList(t) ==
    /\ at[t] = "write list"
    /\ LET w == wants[t]
           key == w.r.key
           known == IF key \in Views /\ ~FinancialsAttested THEN None ELSE Stamp(w)
           written == [k \in Keys |->
                         IF k = key THEN [value |-> w.value, since |-> known]
                         ELSE IF {k, key} = Views THEN Nothing ELSE lists[k]]
       IN /\ End(t, w, Locks)
          /\ \/ lists' = written /\ UNCHANGED faults
             \/ UNCHANGED lists /\ MayFail /\ faults' = faults + 1
    /\ UNCHANGED clock

ListStep(t) == AskList(t) \/ ReadList(t) \/ CallList(t) \/ ListFails(t) \/ WriteList(t)

-----------------------------------------------------------------------------
\* What a list or a security is said to be is never older than the day on
\* which it was asked for, and on a refresh never older than the question:
\* whatever midnight falls into, the wait for the lock or the call before it.
\* The views of financial reports are kept for ever, and exempt from the first;
\* the date that expiry dates are labelled with is not modelled.
CollectionsOfToday ==
    \A t \in Threads : at[t] = "done" /\ wants[t].r # None =>
        LET w == wants[t] IN
        /\ w.r.key \notin Views => Day(w.value) >= Day(w.asked)
        /\ w.r.refresh => w.value >= w.asked
=============================================================================

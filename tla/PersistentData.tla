--------------------------- MODULE PersistentData ---------------------------
(***************************************************************************)
(* The queries that storage/service.py serves at the same time: each       *)
(* thread serves one.  They meet at the clock, at the locks of a security  *)
(* and of the calendar, and in the store.                                  *)
(***************************************************************************)
EXTENDS DailyBars, Collections

CONSTANTS
    BarThreads,   \* threads that serve queries of bars and of events
    DateThreads,  \* threads that serve queries of dates
    Traffic       \* bound: the kinds of queries that come at the same time

Kinds == {"bars", "dates", "lists"}

ASSUME ThreadsAssumption ==
    BarThreads \cup DateThreads \subseteq Threads /\ Traffic \subseteq SUBSET Kinds

VARIABLE incoming  \* the kinds of queries that come

vars == <<clock, at, lock, faults, barsVars, listVars, incoming>>

Init ==
    /\ clock = 0 /\ faults = 0
    /\ at = [t \in Threads |-> "idle"] /\ lock = [l \in Locks |-> None]
    /\ incoming \in Traffic
    /\ BarsInit /\ ListsInit
    /\ "bars" \notin incoming =>
         attests /\ bar = [d \in Days |-> 0] /\ events = {} /\ store = EmptyStore

Next ==
    /\ \/ Tick /\ UNCHANGED listVars
       \/ "bars" \in incoming /\ (Download \/ Announce) /\ UNCHANGED listVars
       \/ \E t \in BarThreads :
            "bars" \in incoming /\ (BarsStep(t) \/ DividendStep(t)) /\ UNCHANGED listVars
       \/ \E t \in DateThreads : "dates" \in incoming /\ TakeDates(t) /\ UNCHANGED listVars
       \/ \E t \in Threads : UsesDates(t) /\ UNCHANGED listVars
       \/ \E t \in Threads : "lists" \in incoming /\ ListStep(t) /\ UNCHANGED barsVars
    /\ UNCHANGED incoming

Spec == Init /\ [][Next]_vars

-----------------------------------------------------------------------------
\* Nothing that is served was overtaken by a midnight: prices are adjusted with
\* the events of the day of the query, and a list, but for the views of financial
\* reports, is not older than the day on which it was asked for.
ServedOfItsDay == FactorsOfToday /\ CollectionsOfToday
=============================================================================

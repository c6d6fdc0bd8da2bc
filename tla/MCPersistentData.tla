-------------------------- MODULE MCPersistentData --------------------------
(* Instance of PersistentData for TLC: one midnight, four days, the second  *)
(* of which is no session.                                                  *)
EXTENDS PersistentData

Bars(start, end, count, adjustment, fill, refresh, cutoff) ==
    [start |-> start, end |-> end, count |-> count, adjustment |-> adjustment,
     fill |-> fill, refresh |-> refresh, cutoff |-> cutoff]

\* A closed window of one year, counted ones to a closed day and to today, one
\* with a cutoff, and one that ends in the future at first.
SomeBars ==
    {Bars(None, 2, None, "none", FALSE, FALSE, None),
     Bars(None, 2, 1, "none", FALSE, FALSE, None),
     Bars(None, None, 2, "front", TRUE, FALSE, None),
     Bars(2, None, None, "back", FALSE, FALSE, 2),
     Bars(3, 4, None, "back", TRUE, TRUE, None)}
SomeDates == {[start |-> 1, end |-> None, count |-> None, refresh |-> FALSE]}
SomeDividends == {[start |-> 1, end |-> 2, refresh |-> FALSE]}
SomeLists == {[key |-> k, refresh |-> b] : k \in {"details", "expiry", "announce_time"}, b \in BOOLEAN}
SomeTraffic == {{"bars", "dates"}, {"lists"}}
=============================================================================

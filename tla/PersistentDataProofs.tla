------------------------ MODULE PersistentDataProofs ------------------------
(***************************************************************************)
(* Proofs about the queries of the persistent store: what it stores is     *)
(* over, and what it answers is of the day on which it was asked and as    *)
(* complete as the source was then.  What is known of a thread is a        *)
(* predicate of its step, its locals and the state of the source (Holds),  *)
(* so that it can be said of the step a thread takes next and of a source  *)
(* that moves on meanwhile.                                                *)
(***************************************************************************)
EXTENDS PersistentData, FiniteSetTheorems, WellFoundedInduction, TLAPS

-----------------------------------------------------------------------------
(* What a query for bars knows. *)

Series == UNION {[S -> {1, 2}] : S \in SUBSET Days}
Written == UNION {[S -> {0, 2}] : S \in SUBSET Days}
Dates == Days \cup {None}
Counts == (Nat \ {0}) \cup {None}
Backs == {"tail", "gap", "raw", "front", "fill"}

Requests == [start : Nat \cup {None}, end : Nat, count : Counts,
             adjustment : {"none", "front", "back"}, fill : BOOLEAN, refresh : BOOLEAN,
             cutoff : Dates]
Writes == [rows : Written, sure : SUBSET Days, unsure : SUBSET Days, doubt : BOOLEAN]
AskedParts == [lo : Int, hi : Int, count : Counts, bounded : BOOLEAN, tail : BOOLEAN]
Calendars == [lo : Int, hi : Int, parts : Seq(AskedParts), dates : (SUBSET Days) \cup {None},
              back : Backs \cup {"none", "answer dates"}]
Windows == [lo : Int, hi : Int]
Memory == [r : Requests, ctx : Nat, then : [Days -> 0..2], known : SUBSET EventDays,
           evs : SUBSET EventDays, attested : BOOLEAN, publishes : BOOLEAN, staged : Writes,
           history : Int \cup {None}, tail : Series, raw : Series, lo : Int, rows : Series,
           missing : SUBSET Days, window : Windows, local : BOOLEAN, complete : BOOLEAN,
           cal : Calendars]
Fields == {"r", "ctx", "then", "known", "evs", "attested", "publishes", "staged", "history",
           "tail", "raw", "lo", "rows", "missing", "window", "local", "complete", "cal"}
DatesMemory == [r : CalendarQueries, ctx : Nat, cal : Calendars]

\* All but the fields in S are as they were.
Same(w, m, S) == \A f \in Fields \ S : w[f] = m[f]

\* Rows are as the source had them when the query began, or newer.
Real(f, m, b) == \A d \in DOMAIN f : m.then[d] <= f[d] /\ f[d] <= b[d]
\* All that the source had in a window is there.
Has(f, m, lo, hi) == \A d \in Window(lo, hi) : m.then[d] # 0 => d \in DOMAIN f
Within(f, lo, hi) == DOMAIN f \subseteq Window(lo, hi)
\* The rows since lo, or as many of the newest as are counted.
Newest(f, m, lo) ==
    /\ Within(f, lo, m.r.end)
    /\ m.r.count = None \/ Cardinality(DOMAIN f) < m.r.count => Has(f, m, lo, m.r.end)
    /\ m.r.count # None /\ Cardinality(DOMAIN f) >= m.r.count =>
         Has(f, m, Lowest(DOMAIN f), m.r.end)

\* The rows an answer can be made from.
Ready(m) ==
    /\ Within(m.rows, m.lo, m.r.end) /\ Has(m.rows, m, m.lo, m.r.end)
    /\ m.r.count = None => m.lo = Start(m.r)
    /\ m.r.count # None /\ Cardinality(DOMAIN m.rows) < m.r.count =>
         Has(m.rows, m, 0, m.r.end)

\* The rows found so far, with gaps still to be asked for.
Gapped(m) ==
    /\ m.r.start # None /\ m.lo = m.r.start
    /\ m.missing \subseteq Window(m.lo, m.history) /\ m.missing # {}
    /\ Within(m.rows, m.lo, m.r.end)
    /\ \A d \in Window(m.lo, m.r.end) \ m.missing : m.then[d] # 0 => d \in DOMAIN m.rows

\* The rows that evidence is sought for are final.
Final(m) ==
    /\ m.window.hi < Today(m)
    /\ \A d \in DOMAIN m.raw \cap Window(m.window.lo, m.window.hi) : m.raw[d] = 2

\* The rows of days that were over when the query began are final.
Closed(f, m) == \A d \in DOMAIN f : d < Today(m) => f[d] = 2

\* What is staged may be written at any time.
Sound(w, m, b) ==
    /\ DOMAIN w.rows \subseteq w.sure \cup w.unsure
    /\ \A d \in DOMAIN w.rows : w.rows[d] <= b[d]
    /\ \A d \in w.sure : /\ d < Today(m) /\ d \in DOMAIN w.rows
                         /\ w.rows[d] = IF d \in Sessions THEN 2 ELSE 0

\* The events of the query are the source's, and of its day.
Factors(m, c, ev, mo) ==
    /\ m.evs \subseteq ev /\ m.known \subseteq ev
    /\ m.publishes /\ Day(m.ctx) = Day(c) => mo \subseteq m.evs

\* Always, of a query for bars, when it is c o'clock, the source has the bars b
\* and the events ev, and had the events mo in the morning.
Base(m, c, b, ev, mo) ==
    /\ m \in Memory /\ m.ctx <= c
    /\ m.r.count # None <=> m.r.start = None
    /\ \A d \in Days : m.then[d] <= b[d]
    /\ Real(m.tail, m, b) /\ Real(m.raw, m, b) /\ Real(m.rows, m, b)
    /\ Sound(m.staged, m, b)
    /\ Factors(m, c, ev, mo)

Opening == {"events", "call events"}
Splits == {"call tail", "tail rows", "tail", "call gap", "gap"}
Phases == Opening \cup Splits \cup
          {"plan", "call raw", "raw rows", "raw", "front", "fill", "call original"}

\* What holds at step p, whether a calendar is to be read there or not.
Phase(p, m) ==
    /\ p \in Opening \cup {"plan"} => m.staged = NoWrites /\ m.tail = NoRows /\ m.rows = NoRows
    /\ p \notin Opening => m.known \subseteq m.evs
    /\ p \in Splits => m.history \in Int /\ m.history <= m.r.end
    /\ p \in {"call tail", "tail rows", "tail"} => Start(m.r) <= m.history
    /\ p = "tail rows" => /\ Within(m.raw, m.history + 1, m.r.end)
                          /\ Has(m.raw, m, m.history + 1, m.r.end)
                          /\ Closed(m.raw, m)
    /\ p = "tail" => Newest(m.tail, m, m.history + 1)
    /\ p \in {"call gap", "gap"} => Gapped(m)
    /\ p = "gap" => /\ Within(m.raw, m.lo, m.r.end)
                    /\ Has(m.raw, m, m.window.lo, m.window.hi)
    /\ p = "raw rows" => Newest(m.raw, m, Start(m.r)) /\ Closed(m.raw, m)
    /\ p \in {"raw", "front", "fill"} => Ready(m)
    /\ p \in {"tail", "gap", "raw"} => Final(m)

\* The days whose calendar is read for p, and what is known of it there.
Asked(p, m) ==
    IF p \in {"tail", "gap", "raw"} THEN Window(m.window.lo, m.window.hi)
    ELSE Window(m.lo, m.r.end)
Dated(p, m) ==
    /\ p \in Backs /\ m.cal.dates # None => m.cal.dates = Sessions \cap Asked(p, m)
    /\ p = "fill" /\ m.r.fill => m.cal.dates = Sessions \cap Asked(p, m)

\* The windows of the calendar that are still to be asked for.
PartsOK(ps) ==
    /\ ps \in Seq(AskedParts) /\ ps # <<>>
    /\ \A i \in 1..Len(ps) : ps[i].bounded => ps[i].count = None
Left(ps) == {d \in Days : \E i \in 1..Len(ps) : d \in Window(ps[i].lo, ps[i].hi)}

ReadsDates(m) ==
    /\ m.cal.back \in Backs /\ Phase(m.cal.back, m)
    /\ Window(m.cal.lo, m.cal.hi) = Asked(m.cal.back, m)
AsksDates(m) ==
    /\ m.cal.back \in Backs /\ Phase(m.cal.back, m)
    /\ PartsOK(m.cal.parts) /\ \A i \in 1..Len(m.cal.parts) : m.cal.parts[i].count = None
    /\ m.cal.dates \in SUBSET Days
    /\ m.cal.dates \cup (Sessions \cap Left(m.cal.parts)) = Sessions \cap Asked(m.cal.back, m)

Queries(s, m, c, b, ev, mo) ==
    /\ Base(m, c, b, ev, mo)
    /\ \/ s \in Phases /\ Phase(s, m) /\ Dated(s, m)
       \/ s = "dates" /\ ReadsDates(m)
       \/ s = "call dates" /\ AsksDates(m)

\* A client's query for dates.
OnlyDates(m, c) ==
    /\ m \in DatesMemory /\ m.ctx <= c /\ m.cal.back = "answer dates"
    /\ PartsOK(m.cal.parts) /\ m.cal.dates \in SUBSET Days

-----------------------------------------------------------------------------
(* An answer. *)

Unfilled(a) == {d \in DOMAIN a : ~a[d].filled}
Beginning(r, a) ==
    IF r.count # None /\ Cardinality(DOMAIN a) = r.count THEN Lowest(DOMAIN a) ELSE Start(r)
Due(r, evs, d) ==
    {e \in evs : (r.cutoff = None \/ e <= r.cutoff) /\ IF Forward(r) THEN e > d ELSE e <= d}

Current(m, b) ==
    /\ \A d \in Window(Beginning(m.r, m.answer), m.r.end) :
          m.then[d] # 0 => d \in Unfilled(m.answer)
    /\ \A d \in Unfilled(m.answer) : m.then[d] <= m.answer[d].value /\ m.answer[d].value <= b[d]
    /\ m.then \in [Days -> 0..2] /\ Unfilled(m.answer) \subseteq Days
    /\ \A d \in Unfilled(m.answer) : m.answer[d].value \in 0..2
Factored(m, ev) ==
    m.r.adjustment # "none" =>
        \A d \in Unfilled(m.answer) :
          /\ Due(m.r, m.known, d) \subseteq m.answer[d].factors
          /\ m.answer[d].factors \subseteq Due(m.r, ev, d)

ListSteps == {"read list", "call list", "write list"}

\* What is known of a thread at step s with the locals m.
Holds(s, m, c, b, ev, mo) ==
    \/ s \in {"idle"} \cup ListSteps /\ m = Idle
    \/ s = "done" /\ (m = Idle \/ (Current(m, b) /\ Factored(m, ev)))
    \/ s = "call dividends" /\ m.days \subseteq Days
    \/ s = "answer dates"
    \/ s = "call dates" /\ OnlyDates(m, c)
    \/ Queries(s, m, c, b, ev, mo)

\* A query of the security's bars or events, which has its lock.
Secure(s, m) ==
    \/ s \in Phases \cup {"call dividends"}
    \/ s \in {"dates", "call dates"} /\ m.cal.back \in Backs

\* A query for what is stored whole.
Served(w) ==
    /\ w.r.key \notin Views => Day(w.value) >= Day(w.asked)
    /\ w.r.refresh => w.value >= w.asked
Wishes == [r : ListQueries, asked : Nat, value : Nat \cup {None}, started : Nat \cup {None}]
Wish(s, w, c) ==
    IF s \in ListSteps
    THEN /\ w \in Wishes /\ w.asked <= c
         /\ s # "read list" => w.started \in Nat /\ w.asked <= w.started /\ w.started <= c
         /\ s = "write list" => w.value \in Nat /\ w.started <= w.value /\ w.value <= c
    ELSE w = NoWish \/ (s = "done" /\ Served(w))

-----------------------------------------------------------------------------
(* The invariant. *)

TypeInv ==
    /\ clock \in Nat /\ DOMAIN at = Threads /\ DOMAIN my = Threads /\ DOMAIN wants = Threads
    /\ DOMAIN lock = Locks /\ DOMAIN lists = Keys

SourceInv ==
    /\ attests \in BOOLEAN /\ bar \in [Days -> 0..2]
    /\ \A d \in Days : /\ d \notin Sessions \/ d > Day(clock) => bar[d] = 0
                       /\ d < Day(clock) => bar[d] # 1
                       /\ d = Day(clock) => bar[d] # 2
    /\ events \subseteq EventDays /\ morning \subseteq events

StoreTypes == [bars : [Days -> {0, 2}], proven : SUBSET Days, dates : SUBSET Days,
               since : [Days -> Int \cup {None}], rights : SUBSET EventDays,
               whole : SUBSET Days, checked : Int \cup {None}]

\* What is stored: bars that are final, proofs that are complete, and events
\* that are of the day if they were checked on it.
StoredBars(s, c, b) ==
    /\ \A d \in Days : s.bars[d] <= b[d]
    /\ \A d \in s.proven : d < Day(c) /\ s.bars[d] = IF d \in Sessions THEN 2 ELSE 0
    /\ \A d \in Days : s.since[d] # None => d < Day(c) /\ (d \in s.dates <=> d \in Sessions)
StoredEvents(s, c, ev, mo) ==
    /\ s.rights \subseteq ev
    /\ s.checked # None => s.checked <= c /\ (Day(s.checked) = Day(c) => mo \subseteq s.rights)
StoreInv == store \in StoreTypes /\ StoredBars(store, clock, bar)
            /\ StoredEvents(store, clock, events, morning)

ThreadInv == \A t \in Threads : Holds(at[t], my[t], clock, bar, events, morning)
LockInv == \A t \in Threads : Secure(at[t], my[t]) => lock["security"] = t

\* A query that is about to look for its events finds all that it has to know.
KnownInv == \A t \in Threads :
    at[t] = "events" /\ store.checked # None /\ Day(store.checked) = Day(my[t].ctx)
      /\ ~my[t].r.refresh => my[t].known \subseteq store.rights

ListsInv == \A k \in Keys : lists[k].since # None =>
    lists[k].since \in Nat /\ lists[k].value \in Nat /\ lists[k].since <= lists[k].value
      /\ lists[k].value <= clock
WishInv == \A t \in Threads : Wish(at[t], wants[t], clock)

IInv == TypeInv /\ SourceInv /\ StoreInv /\ ThreadInv /\ LockInv /\ KnownInv /\ ListsInv /\ WishInv

-----------------------------------------------------------------------------
(* Days. *)

LEMMA DayIsMonotone ==
    ASSUME NEW i \in Int, NEW j \in Int, i <= j
    PROVE  Day(i) \in Int /\ Day(j) \in Int /\ Day(i) <= Day(j)
BY TimeAssumption DEF Day

LEMMA NextDay ==
    ASSUME NEW i \in Int
    PROVE  Day(i) \in Int /\ Day(i) <= Day(i + 1) /\ Day(i + 1) <= Day(i) + 1
BY TimeAssumption DEF Day

LEMMA FirstDays == Day(0) = FirstDay /\ Day(0 - TicksPerDay) = FirstDay - 1
BY TimeAssumption DEF Day

LEMMA DaysAreNumbers == Days \subseteq Int /\ \A d \in Days : d >= 1
BY DaysAssumption DEF Days

LEMMA DaysAreFinite == ASSUME NEW S, S \subseteq Days PROVE IsFiniteSet(S) /\ Cardinality(S) \in Nat
<1>1. IsFiniteSet(1..LastDay)
  BY DaysAssumption, FS_Interval
<1> QED BY <1>1, FS_Subset, FS_CardinalityType DEF Days

LEMMA WindowsAreDays == ASSUME NEW lo, NEW hi PROVE Window(lo, hi) \subseteq Days
BY DEF Window

LEMMA HighestIs ==
    ASSUME NEW S, S \subseteq Days, S # {}
    PROVE  Highest(S) \in S /\ \A e \in S : e <= Highest(S)
<1> DEFINE Up(d) == {e \in S : e >= d}
           T == {Up(d) : d \in S}
<1>1. IsWellFoundedOn(StrictSubsetOrdering(S), FiniteSubsetsOf(S))
  BY FS_StrictSubsetOrderingWellFounded
<1>2. T \subseteq FiniteSubsetsOf(S) /\ T # {}
  BY DaysAreFinite DEF FiniteSubsetsOf
<1>3. PICK x \in T : \A y \in T : ~(<<y, x>> \in StrictSubsetOrdering(S))
  BY <1>1, <1>2, WFMin
<1>4. PICK d \in S : x = Up(d)
  BY <1>3
<1>5. \A e \in S : e <= d
  <2> SUFFICES ASSUME NEW e \in S, ~(e <= d) PROVE FALSE
    OBVIOUS
  <2>1. d \in Int /\ e \in Int /\ S \subseteq Int
    BY DaysAreNumbers
  <2>2. Up(e) \subseteq Up(d)
    <3> SUFFICES ASSUME NEW f \in Up(e) PROVE f \in Up(d)
      BY Zenon
    <3>1. f \in S /\ f \in Int
      BY <2>1
    <3> QED BY <2>1, <3>1
  <2>3. d \in Up(d) /\ d \notin Up(e)
    BY <2>1
  <2>4. Up(e) \in T /\ Up(e) \subseteq S /\ x \subseteq S
    BY <1>4
  <2>5. <<Up(e), x>> \in StrictSubsetOrdering(S)
    BY <2>2, <2>3, <2>4, <1>4 DEF StrictSubsetOrdering
  <2> QED BY <2>4, <2>5, <1>3
<1>6. \A e \in S : d >= e
  BY <1>5, DaysAreNumbers
<1>7. Highest(S) \in S /\ \A e \in S : Highest(S) >= e
  BY <1>6 DEF Highest
<1> QED BY <1>7, DaysAreNumbers

LEMMA LowestIs ==
    ASSUME NEW S, S \subseteq Days, S # {}
    PROVE  Lowest(S) \in S /\ \A e \in S : Lowest(S) <= e
<1> DEFINE Up(d) == {e \in S : e <= d}
           T == {Up(d) : d \in S}
<1>1. IsWellFoundedOn(StrictSubsetOrdering(S), FiniteSubsetsOf(S))
  BY FS_StrictSubsetOrderingWellFounded
<1>2. T \subseteq FiniteSubsetsOf(S) /\ T # {}
  BY DaysAreFinite DEF FiniteSubsetsOf
<1>3. PICK x \in T : \A y \in T : ~(<<y, x>> \in StrictSubsetOrdering(S))
  BY <1>1, <1>2, WFMin
<1>4. PICK d \in S : x = Up(d)
  BY <1>3
<1>5. \A e \in S : d <= e
  <2> SUFFICES ASSUME NEW e \in S, ~(d <= e) PROVE FALSE
    OBVIOUS
  <2>1. d \in Int /\ e \in Int /\ S \subseteq Int
    BY DaysAreNumbers
  <2>2. Up(e) \subseteq Up(d)
    <3> SUFFICES ASSUME NEW f \in Up(e) PROVE f \in Up(d)
      BY Zenon
    <3>1. f \in S /\ f \in Int
      BY <2>1
    <3> QED BY <2>1, <3>1
  <2>3. d \in Up(d) /\ d \notin Up(e)
    BY <2>1
  <2>4. Up(e) \in T /\ Up(e) \subseteq S /\ x \subseteq S
    BY <1>4
  <2>5. <<Up(e), x>> \in StrictSubsetOrdering(S)
    BY <2>2, <2>3, <2>4, <1>4 DEF StrictSubsetOrdering
  <2> QED BY <2>4, <2>5, <1>3
<1> QED BY <1>5 DEF Lowest

\* The last n of S are all, or n, and none is left out between them.
LEMMA LastOfIs ==
    ASSUME NEW S, S \subseteq Days, NEW n \in Nat
    PROVE  /\ LastOf(S, n) \subseteq S
           /\ \A d \in LastOf(S, n), e \in S : d <= e => e \in LastOf(S, n)
           /\ Cardinality(LastOf(S, n)) <= n
           /\ Cardinality(LastOf(S, n)) < n => LastOf(S, n) = S
<1> DEFINE L == LastOf(S, n)
           From(d) == {e \in S : e >= d}
<1>0. S \subseteq Int
  BY DaysAreNumbers
<1>1. L \subseteq S /\ \A d \in S : d \in L <=> Cardinality(From(d)) <= n
  BY DEF LastOf
<1>2. \A d \in L, e \in S : d <= e => e \in L
  <2> SUFFICES ASSUME NEW d \in L, NEW e \in S, d <= e PROVE e \in L
    OBVIOUS
  <2>1. From(e) \subseteq From(d)
    <3> SUFFICES ASSUME NEW f \in From(e) PROVE f \in From(d)
      BY Zenon
    <3>1. f \in S /\ f \in Int /\ d \in Int /\ e \in Int
      BY <1>0, <1>1
    <3> QED BY <3>1
  <2>2. Cardinality(From(e)) <= Cardinality(From(d))
    BY <2>1, DaysAreFinite, FS_Subset
  <2>3. Cardinality(From(e)) \in Nat /\ Cardinality(From(d)) \in Nat
    BY DaysAreFinite
  <2>4. Cardinality(From(d)) <= n
    BY <1>1
  <2> HIDE DEF From
  <2> QED BY <2>2, <2>3, <2>4, <1>1
<1>3. Cardinality(L) <= n
  <2>1. CASE L = {}
    BY <2>1, FS_EmptySet
  <2>2. CASE L # {}
    <3> DEFINE d == Lowest(L)
    <3>1. d \in L /\ \A e \in L : d <= e
      BY <2>2, <1>1, LowestIs
    <3> HIDE DEF d
    <3>2. L = From(d)
      BY <3>1, <1>0, <1>1, <1>2
    <3>3. Cardinality(From(d)) <= n
      BY <3>1, <1>1
    <3> HIDE DEF L, From
    <3> QED BY <3>2, <3>3
  <2> QED BY <2>1, <2>2
<1>4. ASSUME Cardinality(L) < n PROVE L = S
  <2> SUFFICES ASSUME L # S PROVE FALSE
    OBVIOUS
  <2> DEFINE R == S \ L
             d == Highest(R)
  <2>1. R # {} /\ R \subseteq Days
    BY <1>1
  <2>2. d \in R /\ \A e \in R : e <= d
    BY <2>1, HighestIs
  <2> HIDE DEF d
  <2>3. From(d) \subseteq L \cup {d}
    <3> SUFFICES ASSUME NEW f \in From(d), f # d PROVE f \in L
      BY Zenon
    <3>1. f \in S /\ f \in Int /\ d \in Int /\ f >= d
      BY <1>0, <2>2
    <3>2. f \notin R
      BY <2>2, <3>1
    <3> QED BY <3>1, <3>2
  <2>4. IsFiniteSet(L) /\ d \notin L /\ Cardinality(L) \in Nat
    BY <1>1, <2>2, DaysAreFinite
  <2>5. IsFiniteSet(L \cup {d}) /\ Cardinality(L \cup {d}) = Cardinality(L) + 1
    BY <2>4, FS_AddElement
  <2>6. Cardinality(From(d)) <= Cardinality(L) + 1
    BY <2>3, <2>5, FS_Subset
  <2>7. Cardinality(From(d)) \in Nat
    BY DaysAreFinite
  <2>8. ~(Cardinality(From(d)) <= n)
    BY <1>1, <2>2
  <2> HIDE DEF From, L
  <2> QED BY <1>4, <2>4, <2>6, <2>7, <2>8
<1> HIDE DEF L, From
<1> QED BY <1>1, <1>2, <1>3, <1>4 DEF L

-----------------------------------------------------------------------------
(* Series of bars. *)

LEMMA SeriesIs ==
    ASSUME NEW f \in Series
    PROVE  DOMAIN f \subseteq Days /\ \A d \in DOMAIN f : f[d] \in {1, 2}
BY DEF Series

LEMMA SeriesOf ==
    ASSUME NEW f, DOMAIN f \subseteq Days, \A d \in DOMAIN f : f[d] \in {1, 2},
           NEW S, S \subseteq DOMAIN f
    PROVE  [d \in S |-> f[d]] \in Series
<1>1. [d \in S |-> f[d]] \in [S -> {1, 2}]
  OBVIOUS
<1> QED BY <1>1 DEF Series

LEMMA NoRowsIs == NoRows \in Series /\ NoRows \in Written /\ DOMAIN NoRows = {}
<1>1. NoRows \in [{} -> {1, 2}] /\ NoRows \in [{} -> {0, 2}] /\ {} \in SUBSET Days
  BY DEF NoRows
<1> QED BY <1>1 DEF Series, Written

LEMMA OverIs ==
    ASSUME NEW f, NEW g
    PROVE  /\ DOMAIN Over(f, g) = DOMAIN f \cup DOMAIN g
           /\ \A d \in DOMAIN f : Over(f, g)[d] = f[d]
           /\ \A d \in DOMAIN g : d \notin DOMAIN f => Over(f, g)[d] = g[d]
BY DEF Over

LEMMA OverSeries ==
    ASSUME NEW f \in Series, NEW g \in Series
    PROVE  Over(f, g) \in Series
<1> DEFINE D == DOMAIN f \cup DOMAIN g
<1>1. D \in SUBSET Days /\ Over(f, g) \in [D -> {1, 2}]
  BY SeriesIs DEF Over
<1> QED BY <1>1 DEF Series

LEMMA OverReal ==
    ASSUME NEW f, NEW g, NEW m, NEW b, Real(f, m, b), Real(g, m, b)
    PROVE  Real(Over(f, g), m, b)
<1> SUFFICES ASSUME NEW d \in DOMAIN Over(f, g)
             PROVE  m.then[d] <= Over(f, g)[d] /\ Over(f, g)[d] <= b[d]
  BY DEF Real
<1>1. CASE d \in DOMAIN f
  BY <1>1, OverIs DEF Real
<1>2. CASE d \notin DOMAIN f
  <2>1. d \in DOMAIN g
    BY <1>2, OverIs
  <2>2. Over(f, g)[d] = g[d]
    BY <1>2, <2>1 DEF Over
  <2>3. m.then[d] <= g[d] /\ g[d] <= b[d]
    BY <2>1 DEF Real
  <2> QED BY <2>2, <2>3
<1> QED BY <1>1, <1>2

LEMMA RowsNowIs ==
    ASSUME bar \in [Days -> 0..2], NEW S, S \subseteq Days
    PROVE  /\ RowsNow(S) \in Series /\ DOMAIN RowsNow(S) = {d \in S : bar[d] # 0}
           /\ \A d \in DOMAIN RowsNow(S) : RowsNow(S)[d] = bar[d]
<1> DEFINE D == {d \in S : bar[d] # 0}
<1>1. D \in SUBSET Days /\ RowsNow(S) \in [D -> {1, 2}]
  BY DEF RowsNow
<1>2. RowsNow(S) \in Series
  BY <1>1 DEF Series
<1> QED BY <1>2 DEF RowsNow

LEMMA TrimmedIs ==
    ASSUME NEW r, r.count \in Counts, NEW f, DOMAIN f \subseteq Days
    PROVE  /\ DOMAIN Trimmed(r, f) \subseteq DOMAIN f
           /\ \A d \in DOMAIN Trimmed(r, f) : Trimmed(r, f)[d] = f[d]
           /\ r.count = None => Trimmed(r, f) = f
           /\ r.count # None => DOMAIN Trimmed(r, f) = LastOf(DOMAIN f, r.count)
<1>1. CASE r.count = None
  BY <1>1 DEF Trimmed
<1>2. CASE r.count # None
  <2>1. Trimmed(r, f) = [d \in LastOf(DOMAIN f, r.count) |-> f[d]]
    BY <1>2 DEF Trimmed
  <2>2. LastOf(DOMAIN f, r.count) \subseteq DOMAIN f
    BY DEF LastOf
  <2> QED BY <1>2, <2>1, <2>2
<1> QED BY <1>1, <1>2

LEMMA TrimmedSeries ==
    ASSUME NEW r, r.count \in Counts, NEW f \in Series
    PROVE  Trimmed(r, f) \in Series
<1>1. CASE r.count = None
  BY <1>1 DEF Trimmed
<1>2. CASE r.count # None
  <2>1. Trimmed(r, f) = [d \in LastOf(DOMAIN f, r.count) |-> f[d]]
    BY <1>2 DEF Trimmed
  <2>2. LastOf(DOMAIN f, r.count) \subseteq DOMAIN f
    BY DEF LastOf
  <2> QED BY <2>1, <2>2, SeriesIs, SeriesOf
<1> QED BY <1>1, <1>2

\* Trimming keeps the newest, and either as many as are counted or all.
LEMMA TrimmedKeeps ==
    ASSUME NEW r, r.count \in Counts, NEW f, DOMAIN f \subseteq Days, r.count # None
    PROVE  /\ \A d \in DOMAIN Trimmed(r, f), e \in DOMAIN f : d <= e => e \in DOMAIN Trimmed(r, f)
           /\ Cardinality(DOMAIN Trimmed(r, f)) <= r.count
           /\ Cardinality(DOMAIN Trimmed(r, f)) < r.count => DOMAIN Trimmed(r, f) = DOMAIN f
           /\ r.count \in Nat \ {0}
<1>1. r.count \in Nat \ {0}
  BY DEF Counts
<1>2. DOMAIN Trimmed(r, f) = LastOf(DOMAIN f, r.count)
  BY TrimmedIs
<1> QED BY <1>1, <1>2, LastOfIs

LEMMA TrimmedIsNewest ==
    ASSUME NEW m, m.r \in Requests, NEW lo \in Int, NEW f, DOMAIN f \subseteq Days,
           Within(f, lo, m.r.end), Has(f, m, lo, m.r.end)
    PROVE  Newest(Trimmed(m.r, f), m, lo)
<1> DEFINE g == Trimmed(m.r, f)
<1>1. m.r.count \in Counts /\ m.r.end \in Nat
  BY DEF Requests
<1>2. Within(g, lo, m.r.end)
  BY <1>1, TrimmedIs DEF Within
<1>3. CASE m.r.count = None
  <2>1. g = f
    BY <1>1, <1>3, TrimmedIs
  <2> QED BY <1>2, <1>3, <2>1 DEF Newest
<1>4. CASE m.r.count # None
  <2>1. Cardinality(DOMAIN g) < m.r.count => Has(g, m, lo, m.r.end)
    BY <1>1, <1>4, TrimmedKeeps DEF Has
  <2>2. ASSUME Cardinality(DOMAIN g) >= m.r.count PROVE Has(g, m, Lowest(DOMAIN g), m.r.end)
    <3>1. DOMAIN g # {}
      BY <1>1, <1>4, <2>2, TrimmedKeeps, FS_EmptySet
    <3>2. DOMAIN g \subseteq DOMAIN f /\ DOMAIN g \subseteq Days
      BY <1>1, TrimmedIs
    <3>3. Lowest(DOMAIN g) \in DOMAIN g
      BY <3>1, <3>2, LowestIs
    <3>4. Lowest(DOMAIN g) \in Int /\ lo <= Lowest(DOMAIN g)
      BY <3>2, <3>3, DaysAreNumbers DEF Within, Window
    <3> SUFFICES ASSUME NEW d \in Window(Lowest(DOMAIN g), m.r.end), m.then[d] # 0
                 PROVE  d \in DOMAIN g
      BY DEF Has
    <3>5. d \in Days /\ d \in Int /\ Lowest(DOMAIN g) <= d /\ d <= m.r.end
      BY DaysAreNumbers DEF Window
    <3>6. d \in DOMAIN f
      BY <3>4, <3>5 DEF Has, Window
    <3> QED BY <1>1, <1>4, <3>3, <3>5, <3>6, TrimmedKeeps
  <2> QED BY <1>2, <1>4, <2>1, <2>2 DEF Newest
<1> QED BY <1>1, <1>3, <1>4

LEMMA NothingIsNewest ==
    ASSUME NEW m, m.r \in Requests, NEW lo \in Int, lo > m.r.end
    PROVE  Newest(NoRows, m, lo)
<1>1. m.r.count \in Counts /\ m.r.end \in Nat
  BY DEF Requests
<1>2. Window(lo, m.r.end) = {}
  <2> SUFFICES ASSUME NEW d \in Window(lo, m.r.end) PROVE FALSE
    OBVIOUS
  <2>1. d \in Int /\ lo <= d /\ d <= m.r.end
    BY DaysAreNumbers DEF Window
  <2> QED BY <1>1, <2>1
<1>3. DOMAIN NoRows = {} /\ Cardinality({}) = 0
  BY NoRowsIs, FS_EmptySet
<1>4. m.r.count # None => ~(0 >= m.r.count)
  BY <1>1 DEF Counts
<1> QED BY <1>2, <1>3, <1>4 DEF Newest, Within, Has

-----------------------------------------------------------------------------
(* What is known stays true while the source moves on and time passes. *)

LEMMA BaseLater ==
    ASSUME NEW m, NEW c \in Nat, NEW c2 \in Nat, c <= c2,
           NEW b \in [Days -> 0..2], NEW b2 \in [Days -> 0..2], \A d \in Days : b[d] <= b2[d],
           NEW ev, NEW ev2, ev \subseteq ev2, NEW mo, NEW mo2, Day(c) = Day(c2) => mo2 = mo,
           Base(m, c, b, ev, mo)
    PROVE  Base(m, c2, b2, ev2, mo2)
<1>1. m \in Memory /\ m.ctx \in Nat /\ m.then \in [Days -> 0..2]
      /\ m.tail \in Series /\ m.raw \in Series /\ m.rows \in Series /\ m.staged.rows \in Written
  BY DEF Base, Memory, Writes
<1>2. m.ctx <= c2 /\ m.ctx <= c
  BY <1>1 DEF Base
<1>3. \A d \in Days : m.then[d] <= b2[d]
  BY <1>1 DEF Base
<1>4. ASSUME NEW f \in Series, Real(f, m, b) PROVE Real(f, m, b2)
  BY <1>1, <1>4, SeriesIs DEF Real
<1>5. DOMAIN m.staged.rows \subseteq Days /\ \A d \in DOMAIN m.staged.rows : m.staged.rows[d] \in {0, 2}
  BY <1>1 DEF Written
<1>6. Sound(m.staged, m, b2)
  BY <1>5 DEF Sound, Base
<1>7. Day(m.ctx) <= Day(c) /\ Day(c) <= Day(c2) /\ Day(m.ctx) \in Int /\ Day(c) \in Int /\ Day(c2) \in Int
  BY <1>1, <1>2, DayIsMonotone
<1>8. Factors(m, c2, ev2, mo2)
  BY <1>7 DEF Factors, Base
<1> QED BY <1>1, <1>2, <1>3, <1>4, <1>6, <1>8 DEF Base

LEMMA CurrentLater ==
    ASSUME NEW m, NEW b \in [Days -> 0..2], NEW b2 \in [Days -> 0..2],
           \A d \in Days : b[d] <= b2[d], Current(m, b)
    PROVE  Current(m, b2)
<1>1. \A d \in Unfilled(m.answer) : d \in Days /\ b[d] \in 0..2 /\ b2[d] \in 0..2 /\ b[d] <= b2[d]
                                    /\ m.answer[d].value \in 0..2 /\ m.answer[d].value <= b[d]
  BY DEF Current
<1>2. \A d \in Unfilled(m.answer) : m.answer[d].value <= b2[d]
  BY <1>1
<1> QED BY <1>2 DEF Current

LEMMA FactoredLater ==
    ASSUME NEW m, NEW ev, NEW ev2, ev \subseteq ev2, Factored(m, ev)
    PROVE  Factored(m, ev2)
<1>1. \A d : Due(m.r, ev, d) \subseteq Due(m.r, ev2, d)
  BY DEF Due
<1> QED BY <1>1 DEF Factored

LEMMA HoldsLater ==
    ASSUME NEW s, NEW m, NEW c \in Nat, NEW c2 \in Nat, c <= c2,
           NEW b \in [Days -> 0..2], NEW b2 \in [Days -> 0..2], \A d \in Days : b[d] <= b2[d],
           NEW ev, NEW ev2, ev \subseteq ev2, NEW mo, NEW mo2, Day(c) = Day(c2) => mo2 = mo,
           Holds(s, m, c, b, ev, mo)
    PROVE  Holds(s, m, c2, b2, ev2, mo2)
<1>1. CASE s = "done" /\ (m = Idle \/ (Current(m, b) /\ Factored(m, ev)))
  BY <1>1, CurrentLater, FactoredLater DEF Holds
<1>2. CASE s = "call dates" /\ OnlyDates(m, c)
  <2>1. m.ctx \in Nat /\ m.ctx <= c
    BY <1>2 DEF OnlyDates, DatesMemory
  <2>2. m.ctx <= c2
    BY <2>1
  <2>3. OnlyDates(m, c2)
    BY <1>2, <2>2 DEF OnlyDates
  <2> QED BY <1>2, <2>3 DEF Holds
<1>3. CASE Queries(s, m, c, b, ev, mo)
  <2>1. Base(m, c2, b2, ev2, mo2)
    BY <1>3, BaseLater DEF Queries
  <2>2. Queries(s, m, c2, b2, ev2, mo2)
    BY <1>3, <2>1 DEF Queries
  <2> QED BY <2>2 DEF Holds
<1> QED BY <1>1, <1>2, <1>3 DEF Holds

-----------------------------------------------------------------------------
(* The ways of a query for bars: every one leads to a step at which what    *)
(* has to hold there holds (Good).                                          *)

Knows(m) == Base(m, clock, bar, events, morning) /\ m.known \subseteq m.evs
Arrives(t, s, m) ==
    /\ at' = [at EXCEPT ![t] = s] /\ my' = [my EXCEPT ![t] = m]
    /\ Holds(s, m, clock, bar, events, morning) /\ s \notin ListSteps
    /\ \/ lock' = lock /\ Secure(s, m) /\ s # "events"
       \/ lock' = Leaving(t, {"security", "calendar"}) /\ s = "done"
Good(t) == \E s, m : Arrives(t, s, m)

LEMMA EndsIs == ASSUME NEW t, Ends(t) PROVE Good(t)
<1>1. Arrives(t, "done", Idle)
  BY DEF Ends, Done, Arrives, Holds, ListSteps
<1> QED BY <1>1 DEF Good

LEMMA GoIs ==
    ASSUME NEW t, NEW s \in (Phases \ {"events"}) \cup {"dates"}, NEW m, Go(t, s, m),
           Queries(s, m, clock, bar, events, morning)
    PROVE  Good(t)
<1>1. s \notin ListSteps /\ s # "events"
  BY DEF ListSteps, Phases, Opening, Splits
<1>2. Secure(s, m)
  BY DEF Secure, Queries, ReadsDates, Phases, Opening, Splits
<1>3. Arrives(t, s, m)
  BY <1>1, <1>2 DEF Go, Arrives, Holds
<1> QED BY <1>3 DEF Good

\* What a change of the fields no fact of Base is about leaves true.
LEMMA BaseKept ==
    ASSUME NEW m, NEW w \in Memory, NEW c, NEW b, NEW ev, NEW mo, Base(m, c, b, ev, mo),
           Same(w, m, {"history", "lo", "missing", "window", "local", "complete", "cal", "attested"})
    PROVE  Base(w, c, b, ev, mo)
<1>1. w.r = m.r /\ w.ctx = m.ctx /\ w.then = m.then /\ w.tail = m.tail /\ w.raw = m.raw
      /\ w.rows = m.rows /\ w.staged = m.staged /\ w.evs = m.evs /\ w.known = m.known
      /\ w.publishes = m.publishes
  BY DEF Same, Fields
<1> QED BY <1>1 DEF Base, Real, Sound, Factors, Today

LEMMA NewestKept ==
    ASSUME NEW m, NEW w, w.r = m.r, w.then = m.then, NEW f, NEW lo, Newest(f, m, lo)
    PROVE  Newest(f, w, lo)
BY DEF Newest, Has

LEMMA GappedKept ==
    ASSUME NEW m, NEW w, Same(w, m, {"window", "cal", "raw"}), Gapped(m)
    PROVE  Gapped(w)
<1>1. w.r = m.r /\ w.then = m.then /\ w.lo = m.lo /\ w.missing = m.missing /\ w.rows = m.rows
      /\ w.history = m.history
  BY DEF Same, Fields
<1> QED BY <1>1 DEF Gapped

LEMMA ReadyKept ==
    ASSUME NEW m, NEW w, w.r = m.r, w.then = m.then, w.rows = m.rows, w.lo = m.lo, Ready(m)
    PROVE  Ready(w)
BY DEF Ready, Has

LEMMA PhaseKept ==
    ASSUME NEW p \in Backs, NEW m, NEW w, Same(w, m, {"cal"}), Phase(p, m)
    PROVE  Phase(p, w) /\ Asked(p, w) = Asked(p, m)
<1>1. w.r = m.r /\ w.then = m.then /\ w.lo = m.lo /\ w.missing = m.missing /\ w.rows = m.rows
      /\ w.history = m.history /\ w.window = m.window /\ w.raw = m.raw /\ w.tail = m.tail
      /\ w.known = m.known /\ w.evs = m.evs /\ w.staged = m.staged /\ w.ctx = m.ctx
  BY DEF Same, Fields
<1>2. /\ Newest(m.tail, m, m.history + 1) => Newest(w.tail, w, w.history + 1)
      /\ Ready(m) => Ready(w)
      /\ Gapped(m) => Gapped(w)
      /\ Final(m) => Final(w)
  BY <1>1, NewestKept, ReadyKept DEF Gapped, Final, Today
<1>3. /\ Has(m.raw, m, m.window.lo, m.window.hi) => Has(w.raw, w, w.window.lo, w.window.hi)
      /\ Within(m.raw, m.lo, m.r.end) => Within(w.raw, w.lo, w.r.end)
  BY <1>1 DEF Has, Within
<1>4. p \notin Opening \cup {"plan", "tail rows", "raw rows", "call gap"}
  BY DEF Backs, Opening
<1>5. Asked(p, w) = Asked(p, m)
  BY <1>1 DEF Asked
<1>6. Start(w.r) = Start(m.r)
  BY <1>1
<1> HIDE DEF Newest, Ready
<1> QED BY <1>1, <1>2, <1>3, <1>4, <1>5, <1>6 DEF Phase

Reading(lo, hi, p) == [NoCalendar EXCEPT !.lo = lo, !.hi = hi, !.back = p]

LEMMA CalendarIs == NoCalendar \in Calendars /\ NoCalendar.dates = None
<1>1. <<>> \in Seq(AskedParts)
  OBVIOUS
<1>2. /\ NoCalendar.parts = <<>> /\ NoCalendar.dates = None /\ NoCalendar.lo = 0
      /\ NoCalendar.hi = 0 /\ NoCalendar.back = "none"
  BY DEF NoCalendar
<1>3. NoCalendar = [lo |-> NoCalendar.lo, hi |-> NoCalendar.hi, parts |-> NoCalendar.parts,
                    dates |-> NoCalendar.dates, back |-> NoCalendar.back]
  BY DEF NoCalendar
<1>4. NoCalendar \in Calendars
  <2>1. NoCalendar.back \in Backs \cup {"none", "answer dates"}
    BY <1>2
  <2>2. NoCalendar.dates \in (SUBSET Days) \cup {None} /\ NoCalendar.lo \in Int /\ NoCalendar.hi \in Int
    BY <1>2
  <2>3. NoCalendar.parts \in Seq(AskedParts)
    BY <1>1, <1>2
  <2> QED BY <1>3, <2>1, <2>2, <2>3 DEF Calendars
<1> QED BY <1>2, <1>4

LEMMA ReadingIs ==
    ASSUME NEW lo \in Int, NEW hi \in Int, NEW p \in Backs \cup {"answer dates"}
    PROVE  /\ Reading(lo, hi, p) \in Calendars /\ Reading(lo, hi, p).dates = None
           /\ Reading(lo, hi, p).lo = lo /\ Reading(lo, hi, p).hi = hi
BY CalendarIs DEF Calendars, Reading

LEMMA ReadingGoesBack == ASSUME NEW lo, NEW hi, NEW p PROVE Reading(lo, hi, p).back = p
<1>1. NoCalendar \in Calendars
  BY CalendarIs
<1> QED BY <1>1 DEF Calendars, Reading

LEMMA NeedDatesIs ==
    ASSUME NEW t, NEW m, NEW p \in Backs, NEW lo \in Int, NEW hi \in Int,
           Base(m, clock, bar, events, morning), Phase(p, m), Window(lo, hi) = Asked(p, m),
           NeedDates(t, m, lo, hi, p)
    PROVE  Good(t)
<1> DEFINE c == Reading(lo, hi, p)
           w == [m EXCEPT !.cal = c]
<1>1. c \in Calendars /\ c.lo = lo /\ c.hi = hi /\ c.back = p
  <2>1. p \in Backs \cup {"answer dates"}
    OBVIOUS
  <2>2. c \in Calendars /\ c.lo = lo /\ c.hi = hi
    BY <2>1, ReadingIs
  <2>3. c.back = p
    BY ReadingGoesBack
  <2> QED BY <2>2, <2>3
<1>2. Go(t, "dates", w)
  BY DEF NeedDates, Reading
<1> HIDE DEF c
<1>3. m \in Memory
  BY DEF Base
<1>4. w \in Memory /\ Same(w, m, {"cal"}) /\ w.cal = c
  BY <1>1, <1>3 DEF Memory, Same, Fields
<1> HIDE DEF w
<1>5. Base(w, clock, bar, events, morning)
  BY <1>4, BaseKept DEF Same
<1>6. Phase(p, w) /\ Asked(p, w) = Asked(p, m)
  BY <1>4, PhaseKept
<1>7. ReadsDates(w)
  BY <1>1, <1>4, <1>6 DEF ReadsDates
<1> QED BY <1>2, <1>5, <1>7, GoIs DEF Queries

\* The window whose evidence is weighed next.
Weighing(m, lo, hi) == [m EXCEPT !.window = [lo |-> lo, hi |-> hi], !.cal = NoCalendar]

LEMMA WeighingIs ==
    ASSUME NEW m \in Memory, NEW lo \in Int, NEW hi \in Int
    PROVE  LET w == Weighing(m, lo, hi) IN
           /\ w \in Memory /\ Same(w, m, {"window", "cal"})
           /\ w.window.lo = lo /\ w.window.hi = hi /\ w.cal = NoCalendar
<1> DEFINE x == [lo |-> lo, hi |-> hi]
           w == [m EXCEPT !.window = x, !.cal = NoCalendar]
<1>1. x \in Windows /\ x.lo = lo /\ x.hi = hi
  BY DEF Windows
<1> HIDE DEF x
<1>2. w \in Memory /\ Same(w, m, {"window", "cal"}) /\ w.window = x /\ w.cal = NoCalendar
  BY <1>1, CalendarIs DEF Memory, Same, Fields
<1> QED BY <1>1, <1>2 DEF Weighing, x

LEMMA AssessIs ==
    ASSUME NEW t, NEW m, NEW p \in {"tail", "gap", "raw"}, NEW lo \in Int, NEW hi \in Int,
           Base(m, clock, bar, events, morning), Phase(p, Weighing(m, lo, hi)),
           Assess(t, m, lo, hi, p)
    PROVE  Good(t)
<1> DEFINE w == Weighing(m, lo, hi)
<1>1. /\ w \in Memory /\ Same(w, m, {"window", "cal"})
      /\ w.window.lo = lo /\ w.window.hi = hi /\ w.cal = NoCalendar
  BY WeighingIs DEF Base
<1>2. NeedDates(t, w, lo, hi, p) \/ Go(t, p, w)
  BY DEF Assess, Weighing
<1> HIDE DEF w
<1>3. Base(w, clock, bar, events, morning)
  BY <1>1, BaseKept DEF Same
<1>4. p \in Backs /\ p \in (Phases \ {"events"}) /\ p # "fill"
  BY DEF Backs, Phases, Splits, Opening
<1>5. CASE NeedDates(t, w, lo, hi, p)
  <2>1. Asked(p, w) = Window(lo, hi)
    BY <1>1 DEF Asked
  <2> QED BY <1>3, <1>4, <1>5, <2>1, NeedDatesIs DEF w
<1>6. CASE Go(t, p, w)
  <2>1. Dated(p, w)
    BY <1>1, <1>4, CalendarIs DEF Dated
  <2>2. Queries(p, w, clock, bar, events, morning)
    BY <1>3, <1>4, <2>1 DEF Queries, w
  <2> QED BY <1>4, <1>6, <2>2, GoIs
<1> QED BY <1>2, <1>5, <1>6

\* The steps of which nothing more is known.
LEMMA PlainPhase ==
    ASSUME NEW m, Knows(m), NEW s \in {"call original", "call raw"}
    PROVE  Queries(s, m, clock, bar, events, morning) /\ s \in Phases \ {"events"}
<1>1. s \in Phases \ {"events"} /\ s \notin Opening \cup Backs \cup Splits
  BY DEF Phases, Opening, Backs, Splits
<1>2. Phase(s, m)
  BY <1>1 DEF Phase, Knows
<1>3. Dated(s, m)
  BY <1>1 DEF Dated
<1> QED BY <1>1, <1>2, <1>3 DEF Queries, Knows

LEMMA AskSourceIs == ASSUME NEW t, NEW m, Knows(m), AskSource(t, m) PROVE Good(t)
BY PlainPhase, GoIs DEF AskSource

LEMMA UnsupportedIs == ASSUME NEW t, NEW m, Knows(m), Unsupported(t, m) PROVE Good(t)
BY AskSourceIs, EndsIs DEF Unsupported

LEMMA KnowsKept ==
    ASSUME NEW m, NEW w \in Memory, Knows(m),
           Same(w, m, {"history", "lo", "missing", "window", "local", "complete", "cal"})
    PROVE  Knows(w)
<1>1. w.known = m.known /\ w.evs = m.evs
  BY DEF Same, Fields
<1>2. Same(w, m, {"history", "lo", "missing", "window", "local", "complete", "cal", "attested"})
  BY DEF Same
<1> QED BY <1>1, <1>2, BaseKept DEF Knows

LEMMA SourceDailyIs == ASSUME NEW t, NEW m, Knows(m), SourceDaily(t, m) PROVE Good(t)
<1> DEFINE local == m.r.end <= Today(m) /\ MayDerive(m, Start(m.r))
           w == [m EXCEPT !.local = local]
<1>1. Ends(t) \/ Go(t, "call raw", w) \/ AskSource(t, m)
  BY DEF SourceDaily
<1>2. CASE Go(t, "call raw", w)
  <2>1. m \in Memory /\ local \in BOOLEAN
    BY DEF Knows, Base
  <2> HIDE DEF local
  <2>2. w \in Memory /\ Same(w, m, {"local"})
    BY <2>1 DEF Memory, Same, Fields
  <2> HIDE DEF w
  <2>3. Knows(w)
    BY <2>2, KnowsKept DEF Same
  <2> QED BY <1>2, <2>3, PlainPhase, GoIs
<1> QED BY <1>1, <1>2, EndsIs, AskSourceIs

LEMMA FinishIs ==
    ASSUME NEW t, NEW m, Knows(m), Ready(m),
           m.cal.dates # None => m.cal.dates = Sessions \cap Window(m.lo, m.r.end),
           Finish(t, m)
    PROVE  Good(t)
<1>1. Asked("fill", m) = Window(m.lo, m.r.end) /\ "fill" \in Backs /\ "fill" \in Phases \ {"events"}
  BY DEF Asked, Backs, Phases, Opening, Splits
<1>2. Phase("fill", m)
  BY <1>1 DEF Phase, Opening, Splits, Knows
<1>3. \/ Unsupported(t, m)
      \/ NeedDates(t, m, m.lo, m.r.end, "fill")
      \/ ~(m.r.fill /\ m.cal.dates = None) /\ Go(t, "fill", m)
  BY DEF Finish
<1>4. CASE NeedDates(t, m, m.lo, m.r.end, "fill")
  <2>1. m.lo \in Int /\ m.r.end \in Int
    BY DEF Knows, Base, Memory, Requests
  <2> QED BY <1>1, <1>2, <1>4, <2>1, NeedDatesIs DEF Knows
<1>5. CASE ~(m.r.fill /\ m.cal.dates = None) /\ Go(t, "fill", m)
  <2>1. Dated("fill", m)
    BY <1>1, <1>5 DEF Dated
  <2>2. Queries("fill", m, clock, bar, events, morning)
    BY <1>1, <1>2, <2>1 DEF Queries, Knows
  <2> QED BY <1>1, <1>5, <2>2, GoIs
<1> QED BY <1>3, <1>4, <1>5, UnsupportedIs

LEMMA DeriveIs ==
    ASSUME NEW t, NEW m, Knows(m), Ready(m), Derive(t, m)
    PROVE  Good(t)
<1> DEFINE c == [m EXCEPT !.cal = NoCalendar]
<1>1. m \in Memory
  BY DEF Knows, Base
<1>2. c \in Memory /\ Same(c, m, {"cal"}) /\ c.cal = NoCalendar
  BY <1>1, CalendarIs DEF Memory, Same, Fields
<1>3. NeedDates(t, c, m.lo, m.r.end, "front") \/ Finish(t, c)
  BY DEF Derive
<1> HIDE DEF c
<1>4. Knows(c)
  BY <1>2, KnowsKept DEF Same
<1>5. c.r = m.r /\ c.then = m.then /\ c.rows = m.rows /\ c.lo = m.lo
  BY <1>2 DEF Same, Fields
<1>6. Ready(c)
  BY <1>5, ReadyKept
<1>7. CASE NeedDates(t, c, m.lo, m.r.end, "front")
  <2>1. m.lo \in Int /\ m.r.end \in Int
    BY <1>1 DEF Memory, Requests
  <2>2. Asked("front", c) = Window(m.lo, m.r.end) /\ "front" \in Backs
    BY <1>5 DEF Asked, Backs
  <2>3. Phase("front", c)
    BY <1>4, <1>6 DEF Phase, Opening, Splits, Knows
  <2> QED BY <1>4, <1>7, <2>1, <2>2, <2>3, NeedDatesIs DEF Knows
<1>8. CASE Finish(t, c)
  BY <1>2, <1>4, <1>6, <1>8, CalendarIs, FinishIs
<1> QED BY <1>3, <1>7, <1>8

LEMMA AnswerIs ==
    ASSUME NEW t, NEW m, Knows(m), m.complete => Ready(m), Answer(t, m)
    PROVE  Good(t)
BY DeriveIs, EndsIs, AskSourceIs, SourceDailyIs DEF Answer

\* Rows that complete what _history_bars hands over.
Enough(f, m, lo) ==
    /\ Within(f, lo, m.r.end) /\ Has(f, m, lo, m.r.end)
    /\ m.r.count = None => lo = Start(m.r)
    /\ m.r.count # None /\ Cardinality(DOMAIN f) < m.r.count => Has(f, m, 0, m.r.end)

LEMMA FromIs ==
    ASSUME NEW t, NEW m, Knows(m), NEW lo \in Int, NEW f \in Series, Real(f, m, bar),
           NEW complete \in BOOLEAN, complete => Enough(f, m, lo),
           Answer(t, [m EXCEPT !.lo = lo, !.rows = f, !.complete = complete])
    PROVE  Good(t)
<1> DEFINE w == [m EXCEPT !.lo = lo, !.rows = f, !.complete = complete]
<1>1. m \in Memory /\ Base(m, clock, bar, events, morning) /\ m.known \subseteq m.evs
  BY DEF Knows, Base
<1>2. w \in Memory /\ Same(w, m, {"lo", "rows", "complete"})
      /\ w.lo = lo /\ w.rows = f /\ w.complete = complete
  BY <1>1 DEF Memory, Same, Fields
<1> HIDE DEF w
<1>3. w.r = m.r /\ w.ctx = m.ctx /\ w.then = m.then /\ w.tail = m.tail /\ w.raw = m.raw
      /\ w.staged = m.staged /\ w.evs = m.evs /\ w.known = m.known /\ w.publishes = m.publishes
  BY <1>2 DEF Same, Fields
<1>4. Knows(w)
  BY <1>1, <1>2, <1>3 DEF Knows, Base, Real, Sound, Factors, Today
<1>5. w.complete => Ready(w)
  BY <1>2, <1>3 DEF Enough, Ready, Has
<1> QED BY <1>4, <1>5, AnswerIs DEF w

\* The rows the store has of a window.
Cached(m, S) == [d \in {e \in S : store.bars[e] # 0} |-> store.bars[d]]

LEMMA CachedIs ==
    ASSUME SourceInv, StoreInv, NEW m, m.then \in [Days -> 0..2], \A d \in Days : m.then[d] <= bar[d],
           NEW S, S \subseteq store.proven
    PROVE  /\ Cached(m, S) \in Series /\ DOMAIN Cached(m, S) \subseteq S
           /\ Real(Cached(m, S), m, bar)
           /\ \A d \in S : m.then[d] # 0 => d \in DOMAIN Cached(m, S)
           /\ \A d \in DOMAIN Cached(m, S) : Cached(m, S)[d] = 2
<1> DEFINE D == {e \in S : store.bars[e] # 0}
           f == Cached(m, S)
<1>1. S \subseteq Days /\ store.bars \in [Days -> {0, 2}] /\ bar \in [Days -> 0..2]
  BY DEF StoreInv, StoreTypes, SourceInv
<1>2. DOMAIN f = D /\ \A d \in D : f[d] = store.bars[d] /\ f[d] = 2
  BY <1>1 DEF Cached
<1>3. f \in Series
  <2>1. D \in SUBSET Days /\ f \in [D -> {1, 2}]
    BY <1>1 DEF Cached
  <2> QED BY <2>1 DEF Series
<1>4. Real(f, m, bar)
  <2> SUFFICES ASSUME NEW d \in D PROVE m.then[d] <= f[d] /\ f[d] <= bar[d]
    BY <1>2 DEF Real
  <2>1. f[d] = 2 /\ f[d] = store.bars[d] /\ d \in Days
    BY <1>1, <1>2
  <2>2. store.bars[d] <= bar[d] /\ m.then[d] \in 0..2
    BY <2>1 DEF StoreInv, StoredBars
  <2> QED BY <2>1, <2>2
<1>5. \A d \in S : m.then[d] # 0 => d \in D
  <2> SUFFICES ASSUME NEW d \in S, m.then[d] # 0 PROVE store.bars[d] # 0
    OBVIOUS
  <2>1. d \in Days /\ m.then[d] \in 0..2 /\ bar[d] \in 0..2 /\ m.then[d] <= bar[d]
    BY <1>1
  <2>2. bar[d] # 0
    BY <2>1
  <2>3. d \in Sessions
    BY <2>1, <2>2 DEF SourceInv
  <2> QED BY <2>3 DEF StoreInv, StoredBars
<1> HIDE DEF f
<1> QED BY <1>2, <1>3, <1>4, <1>5 DEF f

\* A row of the history and the rows of the tail.
LEMMA JoinedIs ==
    ASSUME NEW m, m \in Memory, m.history \in Int, m.history <= m.r.end,
           Newest(m.tail, m, m.history + 1), NEW lo \in Int,
           NEW h \in Series, Within(h, lo, m.history), Has(h, m, lo, m.history),
           m.r.count = None \/ Cardinality(DOMAIN m.tail) < m.r.count
    PROVE  /\ Has(Over(h, m.tail), m, lo, m.r.end)
           /\ lo <= m.history + 1 => Within(Over(h, m.tail), lo, m.r.end)
<1>1. m.r.end \in Nat /\ m.tail \in Series
  BY DEF Memory, Requests
<1>2. Has(m.tail, m, m.history + 1, m.r.end) /\ Within(m.tail, m.history + 1, m.r.end)
  BY DEF Newest
<1>3. DOMAIN Over(h, m.tail) = DOMAIN h \cup DOMAIN m.tail
  BY OverIs
<1>4. Has(Over(h, m.tail), m, lo, m.r.end)
  <2> SUFFICES ASSUME NEW d \in Window(lo, m.r.end), m.then[d] # 0
               PROVE  d \in DOMAIN h \cup DOMAIN m.tail
    BY <1>3 DEF Has
  <2>1. d \in Days /\ d \in Int /\ lo <= d /\ d <= m.r.end
    BY DaysAreNumbers DEF Window
  <2>2. CASE d <= m.history
    BY <2>1, <2>2 DEF Has, Window
  <2>3. CASE ~(d <= m.history)
    <3>1. m.history + 1 <= d
      BY <2>1, <2>3
    <3> QED BY <1>2, <2>1, <3>1 DEF Has, Window
  <2> QED BY <2>2, <2>3
<1>5. ASSUME lo <= m.history + 1 PROVE Within(Over(h, m.tail), lo, m.r.end)
  <2> SUFFICES ASSUME NEW d \in DOMAIN h \cup DOMAIN m.tail PROVE d \in Window(lo, m.r.end)
    BY <1>3 DEF Within
  <2>1. d \in Days /\ d \in Int
    BY <1>1, SeriesIs, DaysAreNumbers
  <2>2. CASE d \in DOMAIN h
    <3>1. lo <= d /\ d <= m.history
      BY <2>2 DEF Within, Window
    <3> QED BY <1>1, <2>1, <3>1 DEF Window
  <2>3. CASE d \in DOMAIN m.tail
    <3>1. m.history + 1 <= d /\ d <= m.r.end
      BY <1>2, <2>3 DEF Within, Window
    <3> QED BY <1>5, <2>1, <3>1 DEF Window
  <2> QED BY <2>2, <2>3
<1> QED BY <1>4, <1>5

LEMMA HistoryIs ==
    ASSUME SourceInv, StoreInv, NEW t, NEW m, Knows(m), m.history \in Int, m.history <= m.r.end,
           Newest(m.tail, m, m.history + 1),
           Start(m.r) <= m.history \/ m.tail = NoRows, History(t, m)
    PROVE  Good(t)
<1> DEFINE covered == Covered(m.r)
           window == Window(Start(m.r), m.history)
           rows == Cached(m, window \cap covered)
           n == m.r.count - Cardinality(DOMAIN m.tail)
           suffix == {d \in window : \A e \in d..m.history : e \in covered}
           chosen == LastOf(DOMAIN rows \cap suffix, n)
           kept == [d \in chosen |-> rows[d]]
           counted == m.r.count # None /\ ~m.r.refresh
           From(lo, had, complete) ==
             Answer(t, [m EXCEPT !.lo = lo, !.rows = Over(had, m.tail), !.complete = complete])
           gapped == [m EXCEPT !.lo = m.r.start, !.rows = Over(rows, m.tail),
                               !.missing = window \ covered]
<1>1. /\ m \in Memory /\ m.r \in Requests /\ m.then \in [Days -> 0..2] /\ m.tail \in Series
      /\ m.r.end \in Nat /\ m.r.count \in Counts /\ m.r.start \in Nat \cup {None}
      /\ m.r.refresh \in BOOLEAN
  BY DEF Knows, Base, Memory, Requests
<1>2. /\ m.r.count # None <=> m.r.start = None
      /\ \A d \in Days : m.then[d] <= bar[d]
      /\ Real(m.tail, m, bar)
  BY DEF Knows, Base
<1>3. Start(m.r) \in Nat
  BY <1>1 DEF Start
<1>4. covered \subseteq store.proven /\ covered \subseteq Days /\ window \subseteq Days
  BY DEF Covered, StoreInv, StoreTypes, Window
<1>5. \/ counted /\ n <= 0 /\ From(Lowest(DOMAIN m.tail), NoRows, TRUE)
      \/ counted /\ ~(n <= 0) /\ Cardinality(chosen) >= n /\ From(Lowest(chosen), kept, TRUE)
      \/ (m.r.start = None \/ window \subseteq covered) /\ From(Start(m.r), rows, m.r.start # None)
      \/ m.r.start # None /\ ~(window \subseteq covered) /\ Go(t, "call gap", gapped)
  BY DEF History, Cached
<1> HIDE DEF covered
<1>6. /\ rows \in Series /\ DOMAIN rows \subseteq window \cap covered /\ Real(rows, m, bar)
      /\ \A d \in window \cap covered : m.then[d] # 0 => d \in DOMAIN rows
  BY <1>1, <1>2, <1>4, CachedIs
<1> HIDE DEF rows
<1>7. CASE counted /\ n <= 0 /\ From(Lowest(DOMAIN m.tail), NoRows, TRUE)
  <2> DEFINE lo == Lowest(DOMAIN m.tail)
             f == Over(NoRows, m.tail)
  <2>1. Cardinality(DOMAIN m.tail) \in Nat /\ m.r.count \in Nat \ {0} /\ DOMAIN m.tail \subseteq Days
    BY <1>1, <1>7, DaysAreFinite, SeriesIs DEF Counts
  <2>2. Cardinality(DOMAIN m.tail) >= m.r.count
    BY <1>7, <2>1
  <2>3. DOMAIN m.tail # {}
    BY <2>1, <2>2, FS_EmptySet
  <2>4. lo \in DOMAIN m.tail /\ (\A e \in DOMAIN m.tail : lo <= e) /\ lo \in Int
    BY <2>1, <2>3, LowestIs, DaysAreNumbers
  <2>5. DOMAIN f = DOMAIN m.tail /\ f \in Series /\ Real(f, m, bar)
    <3>1. DOMAIN f = DOMAIN m.tail
      <4>1. DOMAIN f = DOMAIN NoRows \cup DOMAIN m.tail
        BY OverIs
      <4> QED BY <4>1, NoRowsIs
    <3>2. Real(NoRows, m, bar)
      BY NoRowsIs DEF Real
    <3> QED BY <1>1, <1>2, <3>1, <3>2, NoRowsIs, OverSeries, OverReal
  <2>6. Has(m.tail, m, lo, m.r.end) /\ Within(m.tail, m.history + 1, m.r.end)
    BY <1>7, <2>2 DEF Newest
  <2>7. Within(f, lo, m.r.end)
    BY <2>4, <2>5, <2>6 DEF Within, Window
  <2>8. Enough(f, m, lo)
    <3>1. Has(f, m, lo, m.r.end)
      BY <2>5, <2>6 DEF Has
    <3>2. ~(Cardinality(DOMAIN f) < m.r.count)
      BY <2>1, <2>2, <2>5
    <3> QED BY <1>7, <2>7, <3>1, <3>2 DEF Enough
  <2> HIDE DEF lo, f
  <2> QED BY <1>7, <2>4, <2>5, <2>8, FromIs DEF lo, f
<1>8. CASE counted /\ ~(n <= 0) /\ Cardinality(chosen) >= n /\ From(Lowest(chosen), kept, TRUE)
  <2> DEFINE lo == Lowest(chosen)
             f == Over(kept, m.tail)
             S == DOMAIN rows \cap suffix
  <2>1. Cardinality(DOMAIN m.tail) \in Nat /\ m.r.count \in Nat \ {0} /\ DOMAIN m.tail \subseteq Days
    BY <1>1, <1>8, DaysAreFinite, SeriesIs DEF Counts
  <2>2. n \in Nat \ {0} /\ Cardinality(DOMAIN m.tail) < m.r.count
    BY <1>8, <2>1
  <2> HIDE DEF n
  <2>3. S \subseteq Days
    BY <1>4
  <2>4. chosen \subseteq S /\ \A d \in chosen, e \in S : d <= e => e \in chosen
    BY <2>2, <2>3, LastOfIs
  <2>5. Cardinality(chosen) \in Nat /\ chosen \subseteq Days /\ IsFiniteSet(chosen)
    BY <2>3, <2>4, DaysAreFinite
  <2>6. chosen # {}
    BY <1>8, <2>2, <2>5, FS_EmptySet
  <2> HIDE DEF chosen
  <2>7. lo \in chosen /\ (\A e \in chosen : lo <= e) /\ lo \in Int
    BY <2>5, <2>6, LowestIs, DaysAreNumbers
  <2>8. DOMAIN kept = chosen /\ kept \in Series /\ Real(kept, m, bar)
    <3>1. chosen \subseteq DOMAIN rows /\ DOMAIN rows \subseteq Days
      BY <1>6, <2>4, SeriesIs
    <3>2. kept \in Series
      BY <1>6, <3>1, SeriesIs, SeriesOf
    <3>3. Real(kept, m, bar)
      BY <1>6, <3>1 DEF Real
    <3> QED BY <3>2, <3>3
  <2>9. lo \in window /\ Start(m.r) <= lo /\ lo <= m.history
    BY <2>4, <2>7 DEF Window
  <2>10. Within(kept, lo, m.history)
    <3> SUFFICES ASSUME NEW d \in chosen PROVE d \in Window(lo, m.history)
      BY <2>8 DEF Within
    <3> QED BY <2>4, <2>5, <2>7 DEF Window
  <2>11. Has(kept, m, lo, m.history)
    <3> SUFFICES ASSUME NEW d \in Window(lo, m.history), m.then[d] # 0 PROVE d \in chosen
      BY <2>8 DEF Has
    <3>1. d \in Days /\ d \in Int /\ lo <= d /\ d <= m.history
      BY DaysAreNumbers DEF Window
    <3>2. \A e \in lo..m.history : e \in covered
      BY <2>4, <2>7
    <3>3. d \in covered
      BY <2>7, <3>1, <3>2
    <3>4. d \in window
      BY <1>3, <2>7, <2>9, <3>1 DEF Window
    <3>5. \A e \in d..m.history : e \in covered
      BY <2>7, <3>1, <3>2
    <3>6. d \in S
      BY <1>6, <3>3, <3>4, <3>5
    <3> QED BY <2>4, <2>7, <3>1, <3>6
  <2>12. f \in Series /\ Real(f, m, bar)
    BY <1>1, <1>2, <2>8, OverSeries, OverReal
  <2>13. Has(f, m, lo, m.r.end) /\ Within(f, lo, m.r.end)
    BY <1>1, <2>2, <2>7, <2>8, <2>9, <2>10, <2>11, JoinedIs
  <2>14. ~(Cardinality(DOMAIN f) < m.r.count)
    <3>1. DOMAIN f = chosen \cup DOMAIN m.tail
      BY <2>8, OverIs
    <3>2. chosen \cap DOMAIN m.tail = {}
      <4> SUFFICES ASSUME NEW d \in chosen, d \in DOMAIN m.tail PROVE FALSE
        OBVIOUS
      <4>1. d \in Int /\ d <= m.history
        BY <2>4, <2>5, DaysAreNumbers DEF Window
      <4>2. m.history + 1 <= d
        BY DEF Newest, Within, Window
      <4> QED BY <4>1, <4>2
    <3>3. IsFiniteSet(DOMAIN m.tail)
      BY <2>1, DaysAreFinite
    <3>4. Cardinality(chosen \cup DOMAIN m.tail)
            = Cardinality(chosen) + Cardinality(DOMAIN m.tail) - Cardinality(chosen \cap DOMAIN m.tail)
      BY <2>5, <3>3, FS_Union
    <3>5. Cardinality(chosen \cap DOMAIN m.tail) = 0
      BY <3>2, FS_EmptySet
    <3>6. Cardinality(DOMAIN f) = Cardinality(chosen) + Cardinality(DOMAIN m.tail)
      BY <2>1, <2>5, <3>1, <3>4, <3>5
    <3> QED BY <1>8, <2>1, <2>5, <3>6 DEF n
  <2>15. Enough(f, m, lo)
    BY <1>8, <2>13, <2>14 DEF Enough
  <2> HIDE DEF lo, f, kept
  <2> QED BY <1>8, <2>7, <2>12, <2>15, FromIs DEF lo, f
<1>9. CASE (m.r.start = None \/ window \subseteq covered) /\ From(Start(m.r), rows, m.r.start # None)
  <2> DEFINE f == Over(rows, m.tail)
             complete == m.r.start # None
  <2>1. f \in Series /\ Real(f, m, bar)
    BY <1>1, <1>2, <1>6, OverSeries, OverReal
  <2>2. ASSUME complete PROVE Enough(f, m, Start(m.r))
    <3>1. m.r.count = None /\ window \subseteq covered
      BY <1>2, <1>9, <2>2
    <3>2. Within(rows, Start(m.r), m.history) /\ Has(rows, m, Start(m.r), m.history)
      BY <1>6, <3>1 DEF Within, Has
    <3>3. Has(f, m, Start(m.r), m.r.end)
      BY <1>1, <1>3, <1>6, <3>1, <3>2, JoinedIs
    <3>4. Within(f, Start(m.r), m.r.end)
      <4>1. CASE Start(m.r) <= m.history + 1
        BY <1>1, <1>3, <1>6, <3>1, <3>2, <4>1, JoinedIs
      <4>2. CASE ~(Start(m.r) <= m.history + 1)
        <5>1. m.tail = NoRows
          BY <1>3, <4>2
        <5>2. window = {}
          <6> SUFFICES ASSUME NEW d \in window PROVE FALSE
            OBVIOUS
          <6>1. d \in Int /\ Start(m.r) <= d /\ d <= m.history
            BY DaysAreNumbers DEF Window
          <6> QED BY <1>3, <4>2, <6>1
        <5>3. DOMAIN f = DOMAIN rows \cup DOMAIN m.tail
          BY OverIs
        <5>4. DOMAIN f = {}
          BY <1>6, <5>1, <5>2, <5>3, NoRowsIs
        <5> QED BY <5>4 DEF Within
      <4> QED BY <4>1, <4>2
    <3> QED BY <3>1, <3>3, <3>4 DEF Enough
  <2>3. complete \in BOOLEAN
    OBVIOUS
  <2>4. Answer(t, [m EXCEPT !.lo = Start(m.r), !.rows = f, !.complete = complete])
    BY <1>9
  <2>5. Start(m.r) \in Int
    BY <1>3
  <2> HIDE DEF f, complete
  <2> QED BY <2>1, <2>2, <2>3, <2>4, <2>5, FromIs, Zenon
<1>10. CASE m.r.start # None /\ ~(window \subseteq covered) /\ Go(t, "call gap", gapped)
  <2> DEFINE f == Over(rows, m.tail)
  <2>1. f \in Series /\ Real(f, m, bar)
    BY <1>1, <1>2, <1>6, OverSeries, OverReal
  <2>2. DOMAIN f = DOMAIN rows \cup DOMAIN m.tail
    BY OverIs
  <2> HIDE DEF f
  <2>3. gapped \in Memory /\ Same(gapped, m, {"lo", "rows", "missing"}) /\ gapped.lo = m.r.start
        /\ gapped.rows = f /\ gapped.missing = window \ covered
    <3>1. m.r.start \in Int /\ window \ covered \in SUBSET Days
      <4>1. m.r.start \in Int
        <5>1. m.r.start \in Nat \cup {None}
          BY <1>1
        <5>2. m.r.start # None
          BY <1>10
        <5> QED BY <5>1, <5>2
      <4>2. window \ covered \subseteq Days
        BY <1>4
      <4> QED BY <4>1, <4>2
    <3>2. gapped = [m EXCEPT !.lo = m.r.start, !.rows = f, !.missing = window \ covered]
      BY DEF f
    <3> HIDE DEF gapped, window
    <3> QED BY <1>1, <2>1, <3>1, <3>2 DEF Memory, Same, Fields
  <2> HIDE DEF gapped
  <2>4. gapped.r = m.r /\ gapped.ctx = m.ctx /\ gapped.then = m.then /\ gapped.tail = m.tail
        /\ gapped.raw = m.raw /\ gapped.staged = m.staged /\ gapped.evs = m.evs
        /\ gapped.known = m.known /\ gapped.publishes = m.publishes /\ gapped.history = m.history
    BY <2>3 DEF Same, Fields
  <2>5. Base(gapped, clock, bar, events, morning) /\ gapped.known \subseteq gapped.evs
    BY <2>1, <2>3, <2>4 DEF Knows, Base, Real, Sound, Factors, Today
  <2>6. m.r.start = Start(m.r) /\ m.r.count = None
    BY <1>2, <1>10 DEF Start
  <2>7. Start(m.r) <= m.history
    <3>1. PICK d \in window : d \notin covered
      BY <1>10
    <3>2. d \in Int /\ Start(m.r) <= d /\ d <= m.history
      BY DaysAreNumbers DEF Window
    <3> QED BY <1>3, <3>2
  <2>8. Within(m.tail, m.history + 1, m.r.end) /\ Has(m.tail, m, m.history + 1, m.r.end)
    BY <2>6 DEF Newest
  <2>9. Within(f, Start(m.r), m.r.end)
    <3> SUFFICES ASSUME NEW d \in DOMAIN rows \cup DOMAIN m.tail
                 PROVE  d \in Days /\ Start(m.r) <= d /\ d <= m.r.end
      BY <2>2 DEF Within, Window
    <3>1. CASE d \in DOMAIN rows
      <4>1. d \in Days /\ d \in Int /\ Start(m.r) <= d /\ d <= m.history
        BY <1>6, <3>1, DaysAreNumbers DEF Window
      <4> QED BY <1>1, <4>1
    <3>2. CASE d \in DOMAIN m.tail
      <4>1. d \in Days /\ d \in Int /\ m.history + 1 <= d /\ d <= m.r.end
        BY <2>8, <3>2, DaysAreNumbers DEF Within, Window
      <4> QED BY <1>3, <2>7, <4>1
    <3> QED BY <3>1, <3>2
  <2>10. \A d \in Window(Start(m.r), m.r.end) \ (window \ covered) : m.then[d] # 0 => d \in DOMAIN f
    <3> SUFFICES ASSUME NEW d \in Window(Start(m.r), m.r.end), d \notin window \ covered, m.then[d] # 0
                 PROVE  d \in DOMAIN rows \cup DOMAIN m.tail
      BY <2>2
    <3>1. d \in Days /\ d \in Int /\ Start(m.r) <= d /\ d <= m.r.end
      BY DaysAreNumbers DEF Window
    <3>2. CASE d <= m.history
      <4>1. d \in window
        BY <3>1, <3>2 DEF Window
      <4> QED BY <1>6, <4>1
    <3>3. CASE ~(d <= m.history)
      <4>1. m.history + 1 <= d
        BY <3>1, <3>3
      <4> QED BY <2>8, <3>1, <4>1 DEF Has, Window
    <3> QED BY <3>2, <3>3
  <2>11. Gapped(gapped)
    BY <1>10, <2>3, <2>4, <2>6, <2>9, <2>10 DEF Gapped
  <2>12. /\ "call gap" \in Splits /\ "call gap" \in Phases \ {"events"}
         /\ "call gap" \notin Opening \cup Backs
    BY DEF Splits, Phases, Opening, Backs
  <2>13. Phase("call gap", gapped)
    BY <2>4, <2>5, <2>11, <2>12 DEF Phase
  <2>14. Queries("call gap", gapped, clock, bar, events, morning)
    BY <2>5, <2>12, <2>13 DEF Queries, Dated
  <2> QED BY <1>10, <2>12, <2>14, GoIs
<1> QED BY <1>5, <1>7, <1>8, <1>9, <1>10

-----------------------------------------------------------------------------
(* One thread moves. *)

LEMMA ThreadMoves ==
    ASSUME IInv, NEW t \in Threads, at[t] \notin ListSteps \cup {"done"},
           NEW s, NEW m, s \notin ListSteps,
           at' = [at EXCEPT ![t] = s], my' = [my EXCEPT ![t] = m],
           Holds(s, m, clock, bar, events, morning),
           UNCHANGED <<clock, attests, bar, events, morning, lists, wants>>,
           DOMAIN lock' = Locks,
           \A u \in Threads : u # t /\ lock["security"] = u => lock'["security"] = u,
           Secure(s, m) => lock'["security"] = t,
           StoreInv',
           \/ store'.rights = store.rights /\ store'.checked = store.checked
           \/ lock["security"] = t,
           s = "events" /\ store'.checked # None /\ Day(store'.checked) = Day(m.ctx)
             /\ ~m.r.refresh => m.known \subseteq store'.rights
    PROVE  IInv'
<1>1. TypeInv'
  BY DEF IInv, TypeInv
<1>2. SourceInv'
  BY DEF IInv, SourceInv
<1>3. at'[t] = s /\ my'[t] = m /\ \A u \in Threads : u # t => at'[u] = at[u] /\ my'[u] = my[u]
  BY DEF IInv, TypeInv
<1>4. ThreadInv'
  <2> SUFFICES ASSUME NEW u \in Threads
               PROVE  Holds(at'[u], my'[u], clock', bar', events', morning')
    BY DEF ThreadInv
  <2>1. Holds(at[u], my[u], clock, bar, events, morning)
    BY DEF IInv, ThreadInv
  <2> QED BY <1>3, <2>1
<1>5. LockInv'
  <2> SUFFICES ASSUME NEW u \in Threads, Secure(at'[u], my'[u]) PROVE lock'["security"] = u
    BY DEF LockInv
  <2>1. Secure(at[u], my[u]) => lock["security"] = u
    BY DEF IInv, LockInv
  <2> QED BY <1>3, <2>1
<1>6. KnownInv'
  <2> SUFFICES ASSUME NEW u \in Threads, at'[u] = "events", store'.checked # None,
                      Day(store'.checked) = Day(my'[u].ctx), ~my'[u].r.refresh
               PROVE  my'[u].known \subseteq store'.rights
    BY DEF KnownInv, Day
  <2>1. CASE u = t
    BY <1>3, <2>1
  <2>2. CASE u # t
    <3>1. at[u] = "events" /\ my'[u] = my[u]
      BY <1>3, <2>2
    <3>2. lock["security"] = u
      BY <3>1 DEF IInv, LockInv, Secure, Phases, Opening
    <3>3. store'.rights = store.rights /\ store'.checked = store.checked
      BY <2>2, <3>2
    <3> QED BY <3>1, <3>3 DEF IInv, KnownInv
  <2> QED BY <2>1, <2>2
<1>7. ListsInv'
  BY DEF IInv, ListsInv
<1>8. WishInv'
  <2> SUFFICES ASSUME NEW u \in Threads PROVE Wish(at'[u], wants'[u], clock')
    BY DEF WishInv
  <2>1. Wish(at[u], wants[u], clock)
    BY DEF IInv, WishInv
  <2>2. CASE u = t
    BY <1>3, <2>1, <2>2 DEF Wish
  <2>3. CASE u # t
    BY <1>3, <2>1, <2>3
  <2> QED BY <2>2, <2>3
<1> QED BY <1>1, <1>2, <1>4, <1>5, <1>6, <1>7, <1>8 DEF IInv

Elsewhere == UNCHANGED <<lists, wants>>

LEMMA LeavingIs ==
    ASSUME NEW t, NEW S
    PROVE  DOMAIN Leaving(t, S) = Locks /\ \A u : u # t /\ lock["security"] = u => Leaving(t, S)["security"] = u
BY DEF Leaving, Locks

LEMMA StoreStays == ASSUME StoreInv, UNCHANGED <<clock, bar, events, morning, store>> PROVE StoreInv'
BY DEF StoreInv

\* A step of a query that has the lock of the security and changes nothing else.
LEMMA GoodMoves ==
    ASSUME IInv, NEW t \in Threads, Secure(at[t], my[t]), Good(t),
           UNCHANGED <<clock, attests, bar, events, morning, store>>, Elsewhere
    PROVE  IInv'
<1>1. PICK s, m : Arrives(t, s, m)
  BY DEF Good
<1>2. lock["security"] = t
  BY DEF IInv, LockInv
<1>3. at[t] \notin ListSteps \cup {"done"}
  BY DEF Secure, Phases, Opening, Splits, ListSteps
<1>4. StoreInv'
  BY StoreStays DEF IInv
<1>5. DOMAIN lock' = Locks /\ (\A u \in Threads : u # t /\ lock["security"] = u => lock'["security"] = u)
      /\ (Secure(s, m) => lock'["security"] = t)
  <2>1. CASE lock' = lock
    BY <1>2, <2>1 DEF IInv, TypeInv
  <2>2. CASE lock' = Leaving(t, {"security", "calendar"}) /\ s = "done"
    <3>1. ~Secure(s, m)
      BY <2>2 DEF Secure, Phases, Opening, Splits
    <3> QED BY <2>2, <3>1, LeavingIs
  <2> QED BY <1>1, <2>1, <2>2 DEF Arrives
<1>6. s # "events"
  BY <1>1 DEF Arrives
<1> QED BY <1>1, <1>2, <1>3, <1>4, <1>5, <1>6, ThreadMoves DEF Arrives, Elsewhere

\* What is known of a query at the steps of its own.
LEMMA QueryAt ==
    ASSUME IInv, NEW t \in Threads, at[t] \in Phases
    PROVE  Base(my[t], clock, bar, events, morning) /\ Phase(at[t], my[t]) /\ Dated(at[t], my[t])
<1>1. Holds(at[t], my[t], clock, bar, events, morning)
  BY DEF IInv, ThreadInv
<1>2. at[t] \notin {"idle", "done", "call dividends", "answer dates", "call dates", "dates"} \cup ListSteps
  BY DEF Phases, Opening, Splits, ListSteps
<1>3. Queries(at[t], my[t], clock, bar, events, morning)
  BY <1>1, <1>2 DEF Holds
<1> QED BY <1>2, <1>3 DEF Queries

LEMMA KnowsAt ==
    ASSUME IInv, NEW t \in Threads, at[t] \in Phases \ Opening
    PROVE  Knows(my[t]) /\ my[t] \in Memory /\ my[t].r \in Requests
<1>1. Base(my[t], clock, bar, events, morning) /\ Phase(at[t], my[t])
  BY QueryAt
<1> QED BY <1>1 DEF Knows, Phase, Base, Memory

\* A step that changes what only this query knows.
LEMMA KnowsOf ==
    ASSUME NEW m, NEW w \in Memory, Knows(m),
           Same(w, m, {"staged", "history", "tail", "raw", "lo", "rows", "missing", "window", "local",
                       "complete", "cal"}),
           Real(w.tail, m, bar), Real(w.raw, m, bar), Real(w.rows, m, bar), Sound(w.staged, m, bar)
    PROVE  Knows(w) /\ w.r = m.r /\ w.then = m.then /\ w.ctx = m.ctx
<1>1. w.r = m.r /\ w.ctx = m.ctx /\ w.then = m.then /\ w.evs = m.evs /\ w.known = m.known
      /\ w.publishes = m.publishes
  BY DEF Same, Fields
<1> QED BY <1>1 DEF Knows, Base, Real, Sound, Factors, Today

\* What the source returns now is no older than it was when the query began.
LEMMA RowsNowAreReal ==
    ASSUME NEW m, Knows(m), bar \in [Days -> 0..2], NEW S, S \subseteq Days
    PROVE  /\ Real(RowsNow(S), m, bar) /\ RowsNow(S) \in Series /\ DOMAIN RowsNow(S) \subseteq S
           /\ \A d \in S : m.then[d] # 0 => d \in DOMAIN RowsNow(S)
<1>1. m.then \in [Days -> 0..2] /\ \A d \in Days : m.then[d] <= bar[d]
  BY DEF Knows, Base, Memory
<1>2. /\ RowsNow(S) \in Series /\ DOMAIN RowsNow(S) = {d \in S : bar[d] # 0}
      /\ \A d \in DOMAIN RowsNow(S) : RowsNow(S)[d] = bar[d]
  BY RowsNowIs
<1>3. Real(RowsNow(S), m, bar)
  BY <1>1, <1>2 DEF Real
<1>4. ASSUME NEW d \in S, m.then[d] # 0 PROVE d \in DOMAIN RowsNow(S)
  <2>1. d \in Days /\ m.then[d] \in 0..2 /\ bar[d] \in 0..2 /\ m.then[d] <= bar[d]
    BY <1>1
  <2>2. bar[d] # 0
    BY <1>4, <2>1
  <2> QED BY <1>2, <2>2
<1> QED BY <1>2, <1>3, <1>4

-----------------------------------------------------------------------------
(* A query for bars begins. *)

LEMMA NoWritesIs == ASSUME NEW m, NEW b PROVE NoWrites \in Writes /\ Sound(NoWrites, m, b)
<1>1. NoWrites.rows = NoRows /\ NoWrites.sure = {} /\ NoWrites.unsure = {} /\ NoWrites.doubt = FALSE
  BY DEF NoWrites
<1>2. NoWrites \in Writes
  BY NoRowsIs DEF NoWrites, Writes
<1>3. Sound(NoWrites, m, b)
  BY <1>1, NoRowsIs DEF Sound
<1> QED BY <1>2, <1>3

LEMMA NormalizedIs ==
    ASSUME NEW r \in BarQueries, NEW today \in Nat, NEW known \in BOOLEAN, NEW q,
           q = Normalized(r, today, known)
    PROVE  q \in Requests /\ (q.count # None <=> q.start = None)
<1> DEFINE end == IF r.end = None THEN today ELSE r.end
           first == IF r.start # None THEN r.start ELSE IF end > Year THEN end - Year ELSE 0
           start == IF known /\ first < Listed /\ Listed <= end THEN Listed ELSE first
           x == IF r.count # None THEN None ELSE start
<1>1. r \in [start : Days \cup {None}, end : Days \cup {None}, count : (Nat \ {0}) \cup {None},
             adjustment : {"none", "front", "back"}, fill : BOOLEAN, refresh : BOOLEAN,
             cutoff : Days \cup {None}]
  BY QueriesAssumption
<1>2. Days \subseteq Nat /\ Listed \in Nat /\ Year \in Nat /\ None \notin Nat
  BY DaysAssumption, TimeAssumption, DaysAreNumbers
<1>3. end \in Nat
  BY <1>1, <1>2
<1> HIDE DEF end
<1>4. first \in Nat
  <2>1. r.start \in Days \cup {None}
    BY <1>1
  <2>2. r.start # None => r.start \in Nat
    BY <1>2, <2>1
  <2> QED BY <1>2, <1>3, <2>2
<1> HIDE DEF first
<1>5. start \in Nat
  BY <1>2, <1>4
<1> HIDE DEF start
<1>6. x \in Nat \cup {None} /\ (r.count # None <=> x = None)
  BY <1>2, <1>5
<1>7. q = [r EXCEPT !.end = end, !.start = x]
  BY DEF Normalized, end, first, start
<1> HIDE DEF x
<1> QED BY <1>1, <1>3, <1>6, <1>7 DEF Requests, Counts, Dates

LEMMA TakeBarsKeeps == ASSUME IInv, NEW t \in Threads, TakeBars(t), Elsewhere PROVE IInv'
<1>1. clock \in Nat /\ Day(clock) \in Nat /\ bar \in [Days -> 0..2] /\ events \subseteq EventDays
      /\ morning \subseteq events
  <2>1. clock \in Nat /\ bar \in [Days -> 0..2] /\ events \subseteq EventDays /\ morning \subseteq events
    BY DEF IInv, TypeInv, SourceInv
  <2>2. Day(0) <= Day(clock) /\ Day(clock) \in Int /\ Day(0) \in Nat
    BY <2>1, DayIsMonotone, FirstDays, TimeAssumption
  <2> QED BY <2>1, <2>2
<1> DEFINE Start0(r, known) ==
             [r |-> Normalized(r, Day(clock), known), ctx |-> clock, then |-> bar,
              known |-> IF r.adjustment = "none" THEN {}
                        ELSE IF r.refresh THEN events ELSE morning,
              evs |-> {}, attested |-> TRUE, publishes |-> FALSE, staged |-> NoWrites,
              history |-> 0, tail |-> NoRows, raw |-> NoRows, lo |-> 0,
              rows |-> NoRows, missing |-> {}, window |-> [lo |-> 0, hi |-> 0], local |-> FALSE,
              complete |-> FALSE, cal |-> NoCalendar]
           s(r) == IF r.adjustment = "none" THEN "plan" ELSE "events"
<1>2. PICK r \in BarQueries, known \in BOOLEAN :
        at' = [at EXCEPT ![t] = s(r)] /\ my' = [my EXCEPT ![t] = Start0(r, known)]
  BY DEF TakeBars
<1> DEFINE q == Normalized(r, Day(clock), known)
           k == IF r.adjustment = "none" THEN {} ELSE IF r.refresh THEN events ELSE morning
           w == [lo |-> 0, hi |-> 0]
           m == [r |-> q, ctx |-> clock, then |-> bar, known |-> k,
                 evs |-> {}, attested |-> TRUE, publishes |-> FALSE, staged |-> NoWrites,
                 history |-> 0, tail |-> NoRows, raw |-> NoRows, lo |-> 0,
                 rows |-> NoRows, missing |-> {}, window |-> w, local |-> FALSE,
                 complete |-> FALSE, cal |-> NoCalendar]
<1>3. q \in Requests /\ (q.count # None <=> q.start = None)
  BY <1>1, NormalizedIs
<1>4. q.refresh = r.refresh
  <2>1. r \in [start : Days \cup {None}, end : Days \cup {None}, count : (Nat \ {0}) \cup {None},
             adjustment : {"none", "front", "back"}, fill : BOOLEAN, refresh : BOOLEAN,
             cutoff : Days \cup {None}]
    BY QueriesAssumption
  <2> QED BY <2>1 DEF Normalized
<1>5. k \subseteq events /\ (r.adjustment = "none" => k = {})
      /\ (~r.refresh => k \subseteq morning)
  BY <1>1
<1>6. w \in Windows
  BY DEF Windows
<1>7. my' = [my EXCEPT ![t] = m]
  BY <1>2
<1> HIDE DEF q, k, w
<1>8. m \in Memory
  <2>1. k \in SUBSET EventDays /\ {} \in SUBSET EventDays /\ {} \in SUBSET Days
    BY <1>1, <1>5
  <2>2. NoWrites \in Writes
    BY NoWritesIs
  <2> QED BY <1>1, <1>3, <1>6, <2>1, <2>2, NoRowsIs, CalendarIs DEF Memory
<1>9. /\ m.r = q /\ m.ctx = clock /\ m.then = bar /\ m.known = k /\ m.evs = {} /\ m.publishes = FALSE
      /\ m.staged = NoWrites /\ m.tail = NoRows /\ m.raw = NoRows /\ m.rows = NoRows
  OBVIOUS
<1> HIDE DEF m
<1>10. Base(m, clock, bar, events, morning)
  <2>1. \A d \in Days : m.then[d] <= bar[d]
    BY <1>1, <1>9
  <2>2. Real(NoRows, m, bar)
    BY NoRowsIs DEF Real
  <2>3. Sound(m.staged, m, bar)
    BY <1>9, NoWritesIs
  <2>4. Factors(m, clock, events, morning)
    BY <1>5, <1>9 DEF Factors
  <2> QED BY <1>1, <1>3, <1>8, <1>9, <2>1, <2>2, <2>3, <2>4 DEF Base
<1>11. s(r) \in {"plan", "events"} /\ (s(r) = "plan" => k = {})
  BY <1>5
<1> HIDE DEF s
<1>12. Queries(s(r), m, clock, bar, events, morning)
  <2>1. s(r) \in Phases /\ s(r) \notin Backs \cup Splits
    BY <1>11 DEF Phases, Opening, Splits, Backs
  <2>2. Phase(s(r), m)
    <3>1. s(r) \notin Opening => k = {}
      BY <1>11 DEF Opening
    <3>2. s(r) \notin {"tail", "tail rows", "call tail", "call gap", "gap", "raw rows", "raw", "front",
                      "fill"}
      BY <1>11
    <3> QED BY <1>9, <2>1, <3>1, <3>2 DEF Phase
  <2>3. Dated(s(r), m)
    BY <1>11, <2>1 DEF Dated
  <2> QED BY <1>10, <2>1, <2>2, <2>3 DEF Queries
<1>13. at[t] = "idle" /\ lock["security"] = None /\ lock' = [lock EXCEPT !["security"] = t]
       /\ UNCHANGED <<clock, attests, bar, events, morning, store>>
  BY DEF TakeBars, Free, source
<1>14. lock'["security"] = t /\ DOMAIN lock' = Locks
  BY <1>13 DEF IInv, TypeInv, Locks
<1>15. \A u \in Threads : lock["security"] # u
  BY <1>13, TimeAssumption
<1>16. s(r) = "events" /\ store'.checked # None /\ Day(store'.checked) = Day(m.ctx)
             /\ ~m.r.refresh => m.known \subseteq store'.rights
  <2> SUFFICES ASSUME store.checked # None, Day(store.checked) = Day(clock), ~r.refresh
               PROVE  k \subseteq store.rights
    BY <1>4, <1>9, <1>13
  <2>1. morning \subseteq store.rights
    BY DEF IInv, StoreInv, StoredEvents
  <2> QED BY <1>5, <2>1
<1>17. StoreInv'
  BY <1>13, StoreStays DEF IInv
<1>18. at[t] \notin ListSteps \cup {"done"} /\ s(r) \notin ListSteps
  BY <1>11, <1>13 DEF ListSteps
<1>19. Holds(s(r), m, clock, bar, events, morning)
  BY <1>12 DEF Holds
<1>20. at' = [at EXCEPT ![t] = s(r)]
  BY <1>2
<1> QED BY <1>7, <1>13, <1>14, <1>15, <1>16, <1>17, <1>18, <1>19, <1>20, ThreadMoves DEF Elsewhere

-----------------------------------------------------------------------------
(* The events of a query, and what the cache leaves to ask. *)

\* Only the events change before anything is planned.
LEMMA PlanNext ==
    ASSUME NEW m, NEW w \in Memory, NEW p \in Opening, Base(m, clock, bar, events, morning), Phase(p, m),
           Same(w, m, {"evs", "attested", "publishes"}),
           w.evs \subseteq events, m.known \subseteq w.evs,
           Day(m.ctx) = Day(clock) => morning \subseteq w.evs
    PROVE  Queries("plan", w, clock, bar, events, morning)
<1>1. w.r = m.r /\ w.ctx = m.ctx /\ w.then = m.then /\ w.tail = m.tail /\ w.raw = m.raw
      /\ w.rows = m.rows /\ w.staged = m.staged /\ w.known = m.known
  BY DEF Same, Fields
<1>2. Base(w, clock, bar, events, morning)
  BY <1>1 DEF Base, Real, Sound, Factors, Today
<1>3. m.staged = NoWrites /\ m.tail = NoRows /\ m.rows = NoRows
  BY DEF Phase
<1>4. "plan" \in Phases /\ "plan" \notin Backs \cup Splits
  BY DEF Phases, Opening, Splits, Backs
<1>5. Phase("plan", w)
  BY <1>1, <1>3, <1>4 DEF Phase
<1>6. Dated("plan", w)
  BY <1>4 DEF Dated
<1> QED BY <1>2, <1>4, <1>5, <1>6 DEF Queries

LEMMA ReadEventsKeeps == ASSUME IInv, NEW t \in Threads, ReadEvents(t), Elsewhere PROVE IInv'
<1> DEFINE m == my[t]
           w == [m EXCEPT !.evs = store.rights]
<1>1. at[t] = "events" /\ UNCHANGED <<clock, attests, bar, events, morning, store>>
  BY DEF ReadEvents, source
<1>2. at[t] \in Phases /\ Secure(at[t], m) /\ at[t] \in Opening
  BY <1>1 DEF Secure, Phases, Opening
<1>3. Base(m, clock, bar, events, morning) /\ Phase(at[t], m) /\ Dated(at[t], m)
  BY <1>2, QueryAt
<1>4. m \in Memory /\ store.rights \in SUBSET EventDays /\ store.rights \subseteq events
  BY <1>3 DEF Base, IInv, StoreInv, StoreTypes, StoredEvents
<1>5. CASE ~m.r.refresh /\ store.whole = Days /\ ValidDay(store.checked, m.ctx) /\ Go(t, "plan", w)
  <2>1. w \in Memory /\ Same(w, m, {"evs"}) /\ w.evs = store.rights
    BY <1>4 DEF Memory, Same, Fields
  <2> HIDE DEF w
  <2>2. store.checked # None /\ Day(store.checked) = Day(m.ctx)
    BY <1>5 DEF ValidDay, ValidForever
  <2>3. m.known \subseteq store.rights
    BY <1>1, <1>5, <2>2 DEF IInv, KnownInv
  <2>4. Day(m.ctx) = Day(clock) => morning \subseteq store.rights
    BY <2>2 DEF IInv, StoreInv, StoredEvents
  <2>5. Same(w, m, {"evs", "attested", "publishes"})
    BY <2>1 DEF Same
  <2>6. Queries("plan", w, clock, bar, events, morning)
    BY <1>2, <1>3, <1>4, <2>1, <2>3, <2>4, <2>5, PlanNext
  <2>7. "plan" \in Phases \ {"events"}
    BY DEF Phases
  <2> QED BY <1>1, <1>2, <1>5, <2>6, <2>7, GoIs, GoodMoves
<1>6. CASE Go(t, "call events", m)
  <2>1. Phase("call events", m) /\ Dated("call events", m) /\ "call events" \in Phases \ {"events"}
    BY <1>1, <1>3 DEF Phase, Dated, Opening, Splits, Backs, Phases
  <2>2. Queries("call events", m, clock, bar, events, morning)
    BY <1>3, <2>1 DEF Queries
  <2> QED BY <1>1, <1>2, <1>6, <2>1, <2>2, GoIs, GoodMoves
<1> QED BY <1>5, <1>6 DEF ReadEvents

LEMMA CallEventsKeeps == ASSUME IInv, NEW t \in Threads, CallEvents(t), Elsewhere PROVE IInv'
<1> DEFINE m == my[t]
           e == EventsOf(Days)
           w == [m EXCEPT !.evs = e, !.attested = attests, !.publishes = TRUE]
<1>1. at[t] = "call events" /\ UNCHANGED <<clock, attests, bar, events, morning, store>>
      /\ Go(t, "plan", w)
  BY DEF CallEvents, source
<1>2. at[t] \in Phases /\ Secure(at[t], m) /\ at[t] \in Opening
  BY <1>1 DEF Secure, Phases, Opening
<1>3. Base(m, clock, bar, events, morning) /\ Phase(at[t], m)
  BY <1>2, QueryAt
<1>4. m \in Memory /\ m.known \subseteq events
  BY <1>3 DEF Base, Factors
<1>5. attests \in BOOLEAN /\ events \subseteq EventDays /\ morning \subseteq events /\ e = events
  BY DaysAssumption DEF IInv, SourceInv, EventsOf
<1> HIDE DEF e
<1>6. w \in Memory /\ Same(w, m, {"evs", "attested", "publishes"}) /\ w.evs = e
  BY <1>4, <1>5 DEF Memory, Same, Fields
<1> HIDE DEF w
<1>7. Queries("plan", w, clock, bar, events, morning)
  BY <1>2, <1>3, <1>4, <1>5, <1>6, PlanNext
<1>8. "plan" \in Phases \ {"events"}
  BY DEF Phases
<1> QED BY <1>1, <1>2, <1>7, <1>8, GoIs, GoodMoves

LEMMA CallFailsKeeps == ASSUME IInv, NEW t \in Threads, CallFails(t), Elsewhere PROVE IInv'
<1>1. Secure(at[t], my[t]) /\ Ends(t) /\ UNCHANGED <<clock, attests, bar, events, morning, store>>
  BY DEF CallFails, source, Secure, Phases, Opening, Splits
<1> QED BY <1>1, EndsIs, GoodMoves

LEMMA SplitIs ==
    ASSUME NEW start \in Int, NEW end \in Int, NEW today, NEW proven, proven \subseteq Days,
           NEW s, s = LiveSplit(start, end, today, proven)
    PROVE  \/ s[1] = None
           \/ s[1] = end /\ s[2] = None /\ end # today
           \/ s[1] \in Int /\ start <= s[1] /\ s[1] <= end - 1 /\ s[2] = s[1] + 1
<1> DEFINE last == IF Highest(proven) < end THEN Highest(proven) ELSE end - 1
<1>1. CASE end # today
  BY <1>1 DEF LiveSplit
<1>2. CASE end = today /\ proven = {}
  BY <1>2 DEF LiveSplit
<1>3. CASE end = today /\ proven # {}
  <2>1. Highest(proven) \in Int
    BY <1>3, HighestIs, DaysAreNumbers
  <2>2. last \in Int /\ last <= end - 1
    BY <2>1
  <2>3. s = IF last < start THEN <<None, None>> ELSE <<last, last + 1>>
    BY <1>3 DEF LiveSplit
  <2> HIDE DEF last
  <2> QED BY <2>2, <2>3
<1> QED BY <1>1, <1>2, <1>3

LEMMA StartIs == ASSUME NEW m \in Memory PROVE Start(m.r) \in Nat /\ m.r.end \in Nat /\ m.r \in Requests
BY DEF Memory, Requests, Start

LEMMA PlanKeeps == ASSUME IInv, NEW t \in Threads, Plan(t), Elsewhere PROVE IInv'
<1> DEFINE m == my[t]
           split == LiveSplit(Start(m.r), m.r.end, Today(m), Covered(m.r))
           cut == [m EXCEPT !.history = split[1]]
<1>1. at[t] = "plan" /\ UNCHANGED <<clock, attests, bar, events, morning, store>>
  BY DEF Plan, source
<1>2. at[t] \in Phases \ Opening /\ Secure(at[t], m)
  BY <1>1 DEF Secure, Phases, Opening
<1>3. Knows(m) /\ m \in Memory
  BY <1>2, KnowsAt
<1>4. m.tail = NoRows /\ m.r.end \in Nat /\ Start(m.r) \in Nat /\ m.r \in Requests
  BY <1>1, <1>2, <1>3, QueryAt, StartIs DEF Phase
<1>5. Covered(m.r) \subseteq Days
  BY DEF Covered, IInv, StoreInv, StoreTypes
<1>6. \/ split[1] = None
      \/ split[1] = m.r.end /\ split[2] = None
      \/ split[1] \in Int /\ Start(m.r) <= split[1] /\ split[1] <= m.r.end - 1 /\ split[2] = split[1] + 1
  BY <1>4, <1>5, SplitIs
<1>7. \/ SourceDaily(t, m)
      \/ split[1] # None /\ split[2] # None /\ Go(t, "call tail", cut)
      \/ split[1] # None /\ split[2] = None /\ History(t, cut)
  BY DEF Plan
<1> HIDE DEF split
<1>8. CASE SourceDaily(t, m)
  BY <1>1, <1>2, <1>3, <1>8, SourceDailyIs, GoodMoves
<1>9. ASSUME split[1] # None
      PROVE  cut \in Memory /\ Same(cut, m, {"history"}) /\ cut.history = split[1] /\ Knows(cut)
             /\ cut.r = m.r /\ cut.tail = m.tail /\ split[1] \in Int /\ split[1] <= m.r.end
  <2>1. split[1] \in Int /\ split[1] <= m.r.end
    BY <1>4, <1>6, <1>9
  <2>2. cut \in Memory /\ Same(cut, m, {"history"}) /\ cut.history = split[1]
    BY <1>3, <2>1 DEF Memory, Same, Fields
  <2> HIDE DEF cut
  <2>3. Knows(cut)
    BY <1>3, <2>2, KnowsKept DEF Same
  <2>4. cut.r = m.r /\ cut.tail = m.tail
    BY <2>2 DEF Same, Fields
  <2> QED BY <2>1, <2>2, <2>3, <2>4
<1> HIDE DEF cut
<1>10. CASE split[1] # None /\ split[2] # None /\ Go(t, "call tail", cut)
  <2>1. Start(m.r) <= split[1]
    BY <1>6, <1>10
  <2>2. "call tail" \in Phases \ {"events"} /\ "call tail" \notin Opening \cup Backs
    BY DEF Phases, Splits, Opening, Backs
  <2>3. Phase("call tail", cut)
    BY <1>9, <1>10, <2>1, <2>2 DEF Phase, Knows
  <2>4. Dated("call tail", cut)
    BY <2>2 DEF Dated
  <2>5. Queries("call tail", cut, clock, bar, events, morning)
    BY <1>9, <1>10, <2>2, <2>3, <2>4 DEF Queries, Knows
  <2> QED BY <1>1, <1>2, <1>10, <2>2, <2>5, GoIs, GoodMoves
<1>11. CASE split[1] # None /\ split[2] = None /\ History(t, cut)
  <2>1. split[1] = m.r.end
    BY <1>6, <1>9, <1>11, TimeAssumption
  <2>2. cut.history + 1 \in Int /\ cut.history + 1 > cut.r.end
    BY <1>4, <1>9, <1>11, <2>1
  <2>3. Newest(cut.tail, cut, cut.history + 1)
    BY <1>4, <1>9, <1>11, <2>2, NothingIsNewest
  <2>4. Good(t)
    BY <1>4, <1>9, <1>11, <2>3, HistoryIs DEF IInv
  <2> QED BY <1>1, <1>2, <2>4, GoodMoves
<1> QED BY <1>7, <1>8, <1>10, <1>11

-----------------------------------------------------------------------------
(* Writes that are staged. *)

LEMMA StagedIs ==
    ASSUME bar \in [Days -> 0..2], NEW m, Knows(m), Final(m), NEW p \in {"tail", "gap", "raw"}, Dated(p, m)
    PROVE  Staged(m, m.raw) \in Writes /\ Sound(Staged(m, m.raw), m, bar)
<1> DEFINE W == Window(m.window.lo, m.window.hi)
           P == Proves(m, m.raw)
           D == IF P THEN W ELSE DOMAIN m.raw \cap W
           f == [d \in D |-> IF d \in DOMAIN m.raw THEN m.raw[d] ELSE 0]
           s == IF P THEN W ELSE {}
           u == IF P THEN {} ELSE W
           b == ~P
           w == [rows |-> f, sure |-> s, unsure |-> u, doubt |-> b]
<1>1. m \in Memory /\ m.raw \in Series /\ m.window \in Windows /\ m.ctx \in Nat
  BY DEF Knows, Base, Memory
<1>2. W \subseteq Days /\ DOMAIN m.raw \subseteq Days /\ D \subseteq Days
  BY <1>1, SeriesIs, WindowsAreDays
<1>3. P => DOMAIN m.raw \cap W = Sessions \cap W
  BY DEF Proves, Dated, Asked, Backs
<1>4. \A d \in DOMAIN m.raw \cap W : m.raw[d] = 2 /\ m.raw[d] <= bar[d]
  BY DEF Final, Knows, Base, Real
<1>5. \A d \in W : d < Today(m)
  <2> SUFFICES ASSUME NEW d \in W PROVE d < Today(m)
    OBVIOUS
  <2>1. m.window.lo \in Int /\ m.window.hi \in Int /\ Today(m) \in Int /\ m.window.hi < Today(m)
    BY <1>1, DayIsMonotone DEF Windows, Final, Today
  <2>2. d \in Int /\ d <= m.window.hi
    BY <1>2, DaysAreNumbers DEF Window
  <2> QED BY <2>1, <2>2
<1>6. Staged(m, m.raw) = w
  BY DEF Staged, BarsWrite
<1> HIDE DEF P, W
<1>7. f \in Written /\ \A d \in D : f[d] <= bar[d]
  <2>1. \A d \in D : (IF d \in DOMAIN m.raw THEN m.raw[d] ELSE 0) \in {0, 2}
    BY <1>4
  <2>2. f \in [D -> {0, 2}]
    BY <2>1
  <2>3. \A d \in D : f[d] <= bar[d]
    <3> SUFFICES ASSUME NEW d \in D PROVE f[d] <= bar[d]
      OBVIOUS
    <3>1. bar[d] \in 0..2
      BY <1>2
    <3> QED BY <1>4, <3>1
  <2> QED BY <1>2, <2>2, <2>3 DEF Written
<1>8. \A d \in s : d \in D /\ f[d] = IF d \in Sessions THEN 2 ELSE 0
  <2> SUFFICES ASSUME P, NEW d \in W PROVE f[d] = IF d \in Sessions THEN 2 ELSE 0
    OBVIOUS
  <2>1. d \in DOMAIN m.raw <=> d \in Sessions
    BY <1>3
  <2>2. d \in DOMAIN m.raw => m.raw[d] = 2
    BY <1>4
  <2> QED BY <2>1, <2>2
<1>9. D \subseteq s \cup u /\ \A d \in s : d < Today(m)
  BY <1>5
<1>10. s \in SUBSET Days /\ u \in SUBSET Days /\ b \in BOOLEAN /\ DOMAIN f = D
  BY <1>2
<1> HIDE DEF f, s, u, b, D
<1>11. w.rows = f /\ w.sure = s /\ w.unsure = u
  OBVIOUS
<1>12. w \in Writes
  BY <1>7, <1>10 DEF Writes
<1> HIDE DEF w
<1>13. Sound(w, m, bar)
  BY <1>7, <1>8, <1>9, <1>10, <1>11 DEF Sound
<1> QED BY <1>6, <1>12, <1>13

LEMMA OverWritten ==
    ASSUME NEW f \in Written, NEW g \in Written
    PROVE  Over(f, g) \in Written
<1>1. /\ DOMAIN f \subseteq Days /\ DOMAIN g \subseteq Days
      /\ (\A d \in DOMAIN f : f[d] \in {0, 2}) /\ (\A d \in DOMAIN g : g[d] \in {0, 2})
  BY DEF Written
<1>2. Over(f, g) \in [DOMAIN f \cup DOMAIN g -> {0, 2}]
  BY <1>1 DEF Over
<1> QED BY <1>1, <1>2 DEF Written

LEMMA FollowingIs ==
    ASSUME NEW m, NEW ws \in Writes, NEW w \in Writes, Sound(ws, m, bar), Sound(w, m, bar)
    PROVE  Following(ws, w) \in Writes /\ Sound(Following(ws, w), m, bar)
<1> DEFINE f == Over(w.rows, ws.rows)
           s == (ws.sure \ w.unsure) \cup w.sure
           u == (ws.unsure \ w.sure) \cup w.unsure
           b == ws.doubt \/ w.doubt
           x == [rows |-> f, sure |-> s, unsure |-> u, doubt |-> b]
<1>1. w.rows \in Written /\ ws.rows \in Written /\ s \in SUBSET Days /\ u \in SUBSET Days /\ b \in BOOLEAN
  BY DEF Writes
<1>2. f \in Written
  BY <1>1, OverWritten
<1>3. /\ DOMAIN f = DOMAIN w.rows \cup DOMAIN ws.rows
      /\ \A d \in DOMAIN w.rows : f[d] = w.rows[d]
      /\ \A d \in DOMAIN ws.rows : d \notin DOMAIN w.rows => f[d] = ws.rows[d]
  BY OverIs
<1>4. DOMAIN f \subseteq s \cup u
  BY <1>3 DEF Sound
<1> HIDE DEF f
<1>5. \A d \in DOMAIN f : f[d] <= bar[d]
  <2> SUFFICES ASSUME NEW d \in DOMAIN f PROVE f[d] <= bar[d]
    OBVIOUS
  <2>1. CASE d \in DOMAIN w.rows
    BY <1>3, <2>1 DEF Sound
  <2>2. CASE d \notin DOMAIN w.rows
    BY <1>3, <2>2 DEF Sound
  <2> QED BY <2>1, <2>2
<1>6. \A d \in s : d < Today(m) /\ d \in DOMAIN f /\ f[d] = IF d \in Sessions THEN 2 ELSE 0
  <2> SUFFICES ASSUME NEW d \in s
               PROVE  d < Today(m) /\ d \in DOMAIN f /\ f[d] = IF d \in Sessions THEN 2 ELSE 0
    OBVIOUS
  <2>1. CASE d \in w.sure
    BY <1>3, <2>1 DEF Sound
  <2>2. CASE d \notin w.sure
    <3>1. d \in ws.sure /\ d \notin w.unsure
      BY <2>2
    <3>2. d \notin DOMAIN w.rows
      BY <2>2, <3>1 DEF Sound
    <3> QED BY <1>3, <3>1, <3>2 DEF Sound
  <2> QED BY <2>1, <2>2
<1>7. Following(ws, w) = x
  BY DEF Following, f
<1> HIDE DEF s, u, b
<1>8. x \in Writes /\ x.rows = f /\ x.sure = s /\ x.unsure = u
  BY <1>1, <1>2 DEF Writes
<1> HIDE DEF x
<1>9. Sound(x, m, bar)
  BY <1>4, <1>5, <1>6, <1>8 DEF Sound
<1> QED BY <1>7, <1>8, <1>9

-----------------------------------------------------------------------------
(* The tail and the raw series. *)

LEMMA CallBarsKeeps == ASSUME IInv, NEW t \in Threads, CallBars(t), Elsewhere PROVE IInv'
<1> DEFINE m == my[t]
           near == RowsNow(Window(m.history + 1, m.r.end))
           all == RowsNow(Window(Start(m.r), m.r.end))
           w(f) == [m EXCEPT !.raw = f]
<1>1. at[t] \in {"call tail", "call raw"} /\ UNCHANGED <<clock, attests, bar, events, morning, store>>
  BY DEF CallBars, source
<1>2. at[t] \in Phases \ Opening /\ Secure(at[t], m)
  BY <1>1 DEF Secure, Phases, Opening, Splits
<1>3. Knows(m) /\ m \in Memory /\ Phase(at[t], m)
  BY <1>2, KnowsAt, QueryAt
<1>4. m.r.end \in Nat /\ Start(m.r) \in Nat /\ m.r \in Requests /\ m.r.count \in Counts /\ m.ctx \in Nat
  BY <1>3, StartIs DEF Memory, Requests
<1>5. bar \in [Days -> 0..2] /\ clock \in Nat
  BY DEF IInv, SourceInv, TypeInv
<1>6. ASSUME NEW S, S \subseteq Days PROVE Closed(RowsNow(S), m)
  <2> SUFFICES ASSUME NEW d \in DOMAIN RowsNow(S), d < Today(m) PROVE RowsNow(S)[d] = 2
    BY DEF Closed
  <2>1. d \in Days /\ bar[d] # 0 /\ bar[d] \in 0..2 /\ RowsNow(S)[d] = bar[d] /\ d \in Int
    BY <1>5, <1>6, RowsNowIs, DaysAreNumbers
  <2>2. Today(m) <= Day(clock) /\ Today(m) \in Int /\ Day(clock) \in Int
    BY <1>3, <1>4, <1>5, DayIsMonotone DEF Knows, Base, Today
  <2>3. d < Day(clock)
    BY <2>1, <2>2
  <2>4. bar[d] # 1
    BY <2>1, <2>3 DEF IInv, SourceInv
  <2> QED BY <2>1, <2>4
<1>7. ASSUME NEW f \in Series, Real(f, m, bar), Closed(f, m)
      PROVE  /\ Knows(w(f)) /\ w(f).r = m.r /\ w(f).then = m.then /\ w(f).raw = f
             /\ w(f).history = m.history /\ Closed(w(f).raw, w(f))
  <2> DEFINE x == w(f)
  <2>1. x \in Memory /\ Same(x, m, {"raw"}) /\ x.raw = f
    BY <1>3, <1>7 DEF Memory, Same, Fields
  <2> HIDE DEF x
  <2>2. x.tail = m.tail /\ x.rows = m.rows /\ x.staged = m.staged /\ x.history = m.history
    BY <2>1 DEF Same, Fields
  <2>3. Knows(x) /\ x.r = m.r /\ x.then = m.then /\ x.ctx = m.ctx
    BY <1>3, <1>7, <2>1, <2>2, KnowsOf DEF Same, Knows, Base
  <2> QED BY <1>7, <2>1, <2>2, <2>3 DEF Closed, Today, x
<1>8. CASE at[t] = "call tail" /\ Go(t, "tail rows", w(near))
  <2>1. /\ Real(near, m, bar) /\ near \in Series /\ DOMAIN near \subseteq Window(m.history + 1, m.r.end)
        /\ \A d \in Window(m.history + 1, m.r.end) : m.then[d] # 0 => d \in DOMAIN near
    BY <1>3, <1>5, RowsNowAreReal, WindowsAreDays
  <2>2. Closed(near, m)
    BY <1>6, WindowsAreDays
  <2> HIDE DEF near
  <2>3. /\ Knows(w(near)) /\ w(near).r = m.r /\ w(near).then = m.then /\ w(near).raw = near
        /\ w(near).history = m.history /\ Closed(w(near).raw, w(near))
    BY <1>7, <2>1, <2>2
  <2> HIDE DEF w
  <2>4. "tail rows" \in Phases \ {"events"} /\ "tail rows" \notin Opening \cup Backs
    BY DEF Phases, Splits, Opening, Backs
  <2>5. m.history \in Int /\ m.history <= m.r.end /\ Start(m.r) <= m.history
    BY <1>3, <1>8 DEF Phase, Splits
  <2>6. Phase("tail rows", w(near))
    BY <2>1, <2>3, <2>4, <2>5 DEF Phase, Knows, Within, Has
  <2>7. Dated("tail rows", w(near))
    BY <2>4 DEF Dated
  <2>8. Queries("tail rows", w(near), clock, bar, events, morning)
    BY <2>3, <2>4, <2>6, <2>7 DEF Queries, Knows
  <2> QED BY <1>1, <1>2, <1>8, <2>4, <2>8, GoIs, GoodMoves
<1>9. CASE at[t] = "call raw" /\ Go(t, "raw rows", w(Trimmed(m.r, all)))
  <2> DEFINE f == Trimmed(m.r, all)
  <2>1. /\ Real(all, m, bar) /\ all \in Series /\ DOMAIN all \subseteq Window(Start(m.r), m.r.end)
        /\ \A d \in Window(Start(m.r), m.r.end) : m.then[d] # 0 => d \in DOMAIN all
    BY <1>3, <1>5, RowsNowAreReal, WindowsAreDays
  <2>2. Closed(all, m)
    BY <1>6, WindowsAreDays
  <2> HIDE DEF all
  <2>3. DOMAIN all \subseteq Days /\ Within(all, Start(m.r), m.r.end) /\ Has(all, m, Start(m.r), m.r.end)
    BY <2>1, SeriesIs DEF Within, Has
  <2>4. DOMAIN f \subseteq DOMAIN all /\ \A d \in DOMAIN f : f[d] = all[d]
    BY <1>4, <2>3, TrimmedIs
  <2>5. f \in Series
    BY <1>4, <2>1, TrimmedSeries
  <2>6. Newest(f, m, Start(m.r))
    BY <1>4, <2>3, TrimmedIsNewest
  <2> HIDE DEF f
  <2>7. Real(f, m, bar) /\ Closed(f, m)
    BY <2>1, <2>2, <2>4 DEF Real, Closed
  <2>8. /\ Knows(w(f)) /\ w(f).r = m.r /\ w(f).then = m.then /\ w(f).raw = f
        /\ Closed(w(f).raw, w(f))
    BY <1>7, <2>5, <2>7
  <2> HIDE DEF w
  <2>9. "raw rows" \in Phases \ {"events"} /\ "raw rows" \notin Opening \cup Backs \cup Splits
    BY DEF Phases, Splits, Opening, Backs
  <2>10. Newest(w(f).raw, w(f), Start(w(f).r))
    BY <2>6, <2>8, NewestKept
  <2>11. Phase("raw rows", w(f))
    BY <2>8, <2>9, <2>10 DEF Phase, Knows
  <2>12. Dated("raw rows", w(f))
    BY <2>9 DEF Dated
  <2>13. Queries("raw rows", w(f), clock, bar, events, morning)
    BY <2>8, <2>9, <2>11, <2>12 DEF Queries, Knows
  <2> QED BY <1>1, <1>2, <1>9, <2>9, <2>13, GoIs, GoodMoves DEF f
<1>10. \/ at[t] = "call tail" /\ Go(t, "tail rows", w(near))
       \/ at[t] = "call raw" /\ Go(t, "raw rows", w(Trimmed(m.r, all)))
  BY <1>1 DEF CallBars
<1> QED BY <1>8, <1>9, <1>10

LEMMA TailRowsKeeps == ASSUME IInv, NEW t \in Threads, TailRows(t), Elsewhere PROVE IInv'
<1> DEFINE m == my[t]
           closed == {d \in DOMAIN m.raw : d < Today(m)}
           f == Trimmed(m.r, m.raw)
           g == [d \in closed |-> m.raw[d]]
           got == [m EXCEPT !.tail = f, !.raw = g]
           lo == m.history + 1
           hi == Highest(closed)
           w == Weighing(got, lo, hi)
<1>1. at[t] = "tail rows" /\ UNCHANGED <<clock, attests, bar, events, morning, store>>
      /\ \/ closed = {} /\ History(t, got)
         \/ closed # {} /\ Assess(t, got, lo, hi, "tail")
  BY DEF TailRows, source
<1>2. at[t] \in Phases \ Opening /\ Secure(at[t], m)
  BY <1>1 DEF Secure, Phases, Opening, Splits
<1>3. Knows(m) /\ m \in Memory /\ Phase(at[t], m)
  BY <1>2, KnowsAt, QueryAt
<1>4. m.r.end \in Nat /\ m.r \in Requests /\ m.r.count \in Counts /\ m.ctx \in Nat
      /\ m.raw \in Series /\ DOMAIN m.raw \subseteq Days
  BY <1>3, StartIs, SeriesIs DEF Memory, Requests
<1>5. /\ m.history \in Int /\ m.history <= m.r.end /\ Start(m.r) <= m.history
      /\ Within(m.raw, lo, m.r.end) /\ Has(m.raw, m, lo, m.r.end) /\ Closed(m.raw, m)
  BY <1>1, <1>3 DEF Phase, Splits
<1>6. f \in Series /\ Real(f, m, bar) /\ Newest(f, m, lo)
  <2>1. DOMAIN f \subseteq DOMAIN m.raw /\ \A d \in DOMAIN f : f[d] = m.raw[d]
    BY <1>4, TrimmedIs
  <2>2. Newest(f, m, lo)
    BY <1>4, <1>5, TrimmedIsNewest
  <2>3. f \in Series
    BY <1>4, TrimmedSeries
  <2> HIDE DEF f
  <2> QED BY <1>3, <2>1, <2>2, <2>3 DEF Real, Knows, Base
<1>7. g \in Series /\ Real(g, m, bar) /\ DOMAIN g = closed /\ \A d \in closed : g[d] = 2
  <2>1. \A d \in DOMAIN m.raw : m.raw[d] \in {1, 2}
    BY <1>4, SeriesIs
  <2>2. g \in Series
    BY <1>4, <2>1, SeriesOf
  <2>3. \A d \in closed : m.raw[d] = 2
    BY <1>5 DEF Closed
  <2> QED BY <1>3, <2>2, <2>3 DEF Real, Knows, Base
<1>8. closed \subseteq Days
  BY <1>4
<1> HIDE DEF f, g, closed
<1>9. got \in Memory /\ Same(got, m, {"tail", "raw"}) /\ got.tail = f /\ got.raw = g
  BY <1>3, <1>6, <1>7 DEF Memory, Same, Fields
<1> HIDE DEF got
<1>10. got.rows = m.rows /\ got.staged = m.staged /\ got.history = m.history
  BY <1>9 DEF Same, Fields
<1>11. Knows(got) /\ got.r = m.r /\ got.then = m.then /\ got.ctx = m.ctx
  BY <1>3, <1>6, <1>7, <1>9, <1>10, KnowsOf DEF Same, Knows, Base
<1>12. Newest(got.tail, got, got.history + 1)
  BY <1>6, <1>9, <1>10, <1>11, NewestKept
<1>13. CASE closed = {} /\ History(t, got)
  <2>1. Good(t)
    BY <1>5, <1>10, <1>11, <1>12, <1>13, HistoryIs DEF IInv
  <2> QED BY <1>1, <1>2, <2>1, GoodMoves
<1>14. CASE closed # {} /\ Assess(t, got, lo, hi, "tail")
  <2>1. hi \in closed /\ hi \in Int /\ lo \in Int
    <3>1. closed # {} /\ lo \in Int
      BY <1>5, <1>14
    <3>2. hi \in closed
      BY <1>8, <3>1, HighestIs
    <3> QED BY <1>8, <3>1, <3>2, DaysAreNumbers
  <2>2. hi < Today(m)
    BY <2>1 DEF closed
  <2> HIDE DEF hi, lo
  <2>3. w \in Memory /\ Same(w, got, {"window", "cal"}) /\ w.window.hi = hi
    BY <1>9, <2>1, WeighingIs
  <2> HIDE DEF w
  <2>4. /\ w.r = got.r /\ w.ctx = got.ctx /\ w.then = got.then /\ w.tail = got.tail /\ w.raw = got.raw
        /\ w.history = got.history /\ w.known = got.known /\ w.evs = got.evs
    BY <2>3 DEF Same, Fields
  <2>5. Newest(w.tail, w, w.history + 1)
    BY <1>12, <2>4, NewestKept
  <2>6. Final(w)
    BY <1>7, <1>9, <1>11, <2>2, <2>3, <2>4 DEF Final, Today
  <2>7. "tail" \notin Opening /\ "tail" \in Splits
    BY DEF Opening, Splits
  <2>8. Phase("tail", w)
    BY <1>5, <1>10, <1>11, <2>4, <2>5, <2>6, <2>7 DEF Phase, Knows
  <2>9. Good(t)
    BY <1>11, <1>14, <2>1, <2>8, AssessIs DEF Knows, w
  <2> QED BY <1>1, <1>2, <2>9, GoodMoves
<1> QED BY <1>1, <1>13, <1>14

LEMMA TailProvedKeeps == ASSUME IInv, NEW t \in Threads, TailProved(t), Elsewhere PROVE IInv'
<1> DEFINE m == my[t]
           s == IF Proves(m, m.raw) THEN Staged(m, m.raw) ELSE NoWrites
           w == [m EXCEPT !.staged = s]
<1>1. at[t] = "tail" /\ UNCHANGED <<clock, attests, bar, events, morning, store>> /\ History(t, w)
  BY DEF TailProved, source
<1>2. at[t] \in Phases \ Opening /\ Secure(at[t], m)
  BY <1>1 DEF Secure, Phases, Opening, Splits
<1>3. Knows(m) /\ m \in Memory /\ Phase(at[t], m) /\ Dated(at[t], m)
  BY <1>2, KnowsAt, QueryAt
<1>4. /\ m.history \in Int /\ m.history <= m.r.end /\ Start(m.r) <= m.history /\ Final(m)
      /\ Newest(m.tail, m, m.history + 1)
  BY <1>1, <1>3 DEF Phase, Splits
<1>5. s \in Writes /\ Sound(s, m, bar)
  <2>1. Staged(m, m.raw) \in Writes /\ Sound(Staged(m, m.raw), m, bar)
    BY <1>1, <1>3, <1>4, StagedIs DEF IInv, SourceInv
  <2> QED BY <2>1, NoWritesIs
<1> HIDE DEF s
<1>6. w \in Memory /\ Same(w, m, {"staged"}) /\ w.staged = s
  BY <1>3, <1>5 DEF Memory, Same, Fields
<1> HIDE DEF w
<1>7. w.rows = m.rows /\ w.tail = m.tail /\ w.raw = m.raw /\ w.history = m.history
  BY <1>6 DEF Same, Fields
<1>8. Knows(w) /\ w.r = m.r /\ w.then = m.then
  BY <1>3, <1>5, <1>6, <1>7, KnowsOf DEF Same, Knows, Base
<1>9. Newest(w.tail, w, w.history + 1)
  BY <1>4, <1>7, <1>8, NewestKept
<1>10. Good(t)
  BY <1>1, <1>4, <1>7, <1>8, <1>9, HistoryIs DEF IInv
<1> QED BY <1>1, <1>2, <1>10, GoodMoves

-----------------------------------------------------------------------------
(* The gaps of the cache. *)

LEMMA ClosedEndIs ==
    ASSUME NEW end \in Int, NEW today \in Int
    PROVE  ClosedEnd(end, today) \in Int /\ ClosedEnd(end, today) < today /\ ClosedEnd(end, today) <= end
BY DEF ClosedEnd

LEMMA CallGapKeeps == ASSUME IInv, NEW t \in Threads, CallGap(t), Elsewhere PROVE IInv'
<1> DEFINE m == my[t]
           lo == Lowest(m.missing)
           ends == {d \in m.missing : lo..d \subseteq m.missing}
           last == Highest(ends)
           f == RowsNow(Window(lo, last))
           got == [m EXCEPT !.raw = f]
           hi == ClosedEnd(last, Today(m))
           w == Weighing(got, lo, hi)
<1>1. at[t] = "call gap" /\ UNCHANGED <<clock, attests, bar, events, morning, store>>
      /\ Assess(t, got, lo, hi, "gap")
  BY DEF CallGap, source
<1>2. at[t] \in Phases \ Opening /\ Secure(at[t], m)
  BY <1>1 DEF Secure, Phases, Opening, Splits
<1>3. Knows(m) /\ m \in Memory /\ Phase(at[t], m)
  BY <1>2, KnowsAt, QueryAt
<1>4. bar \in [Days -> 0..2] /\ clock \in Nat /\ m.ctx \in Nat /\ m.r.end \in Nat
  BY <1>3, StartIs DEF IInv, SourceInv, TypeInv, Memory
<1>5. m.history \in Int /\ m.history <= m.r.end /\ Gapped(m)
  BY <1>1, <1>3 DEF Phase, Splits
<1>6. m.missing \subseteq Days /\ m.missing # {} /\ m.missing \subseteq Window(m.lo, m.history) /\ m.lo \in Int
  BY <1>3, <1>5 DEF Gapped, Memory
<1>7. lo \in m.missing /\ lo \in Int
  BY <1>6, LowestIs, DaysAreNumbers
<1>8. last \in m.missing /\ last \in Int
  <2>1. lo..lo \subseteq m.missing
    BY <1>7
  <2>2. ends # {} /\ ends \subseteq Days
    BY <1>6, <1>7, <2>1
  <2>3. last \in ends
    BY <2>2, HighestIs
  <2> QED BY <1>6, <2>3, DaysAreNumbers
<1> HIDE DEF lo, last
<1>9. m.lo <= lo /\ last <= m.history
  BY <1>6, <1>7, <1>8 DEF Window
<1>10. Today(m) \in Int /\ Today(m) <= Day(clock) /\ Day(clock) \in Int
  BY <1>3, <1>4, DayIsMonotone DEF Knows, Base, Today
<1>11. hi \in Int /\ hi < Today(m) /\ hi <= last
  BY <1>8, <1>10, ClosedEndIs
<1> HIDE DEF hi
<1>12. /\ Real(f, m, bar) /\ f \in Series /\ DOMAIN f \subseteq Window(lo, last)
       /\ \A d \in Window(lo, last) : m.then[d] # 0 => d \in DOMAIN f
  BY <1>3, <1>4, RowsNowAreReal, WindowsAreDays
<1>13. \A d \in DOMAIN f \cap Window(lo, hi) : f[d] = 2
  <2> SUFFICES ASSUME NEW d \in DOMAIN f, d \in Window(lo, hi) PROVE f[d] = 2
    OBVIOUS
  <2>1. d \in Days /\ d \in Int /\ d <= hi
    BY DaysAreNumbers DEF Window
  <2>2. bar[d] # 0 /\ f[d] = bar[d] /\ bar[d] \in 0..2
    BY <1>4, <2>1, RowsNowIs, WindowsAreDays
  <2>3. d < Day(clock)
    BY <1>10, <1>11, <2>1
  <2>4. bar[d] # 1
    BY <2>1, <2>3 DEF IInv, SourceInv
  <2> QED BY <2>2, <2>4
<1>14. Within(f, m.lo, m.r.end) /\ Has(f, m, lo, hi)
  <2>1. ASSUME NEW d \in Window(lo, last) PROVE d \in Window(m.lo, m.r.end)
    <3>1. d \in Days /\ d \in Int /\ lo <= d /\ d <= last
      BY DaysAreNumbers DEF Window
    <3>2. m.lo <= d /\ d <= m.r.end
      BY <1>4, <1>5, <1>6, <1>7, <1>8, <1>9, <3>1
    <3> QED BY <3>1, <3>2 DEF Window
  <2>2. ASSUME NEW d \in Window(lo, hi) PROVE d \in Window(lo, last)
    <3>1. d \in Days /\ d \in Int /\ lo <= d /\ d <= hi
      BY DaysAreNumbers DEF Window
    <3> QED BY <1>8, <1>11, <3>1 DEF Window
  <2> QED BY <1>12, <2>1, <2>2 DEF Within, Has
<1> HIDE DEF f
<1>15. got \in Memory /\ Same(got, m, {"raw"}) /\ got.raw = f
  BY <1>3, <1>12 DEF Memory, Same, Fields
<1> HIDE DEF got
<1>16. got.rows = m.rows /\ got.staged = m.staged /\ got.tail = m.tail
  BY <1>15 DEF Same, Fields
<1>17. Knows(got) /\ got.r = m.r /\ got.then = m.then /\ got.ctx = m.ctx
  BY <1>3, <1>12, <1>15, <1>16, KnowsOf DEF Same, Knows, Base
<1>18. w \in Memory /\ Same(w, got, {"window", "cal"}) /\ w.window.hi = hi /\ w.window.lo = lo
  BY <1>7, <1>11, <1>15, WeighingIs
<1> HIDE DEF w
<1>19. Same(w, m, {"window", "cal", "raw"})
  BY <1>15, <1>18 DEF Same
<1>20. w.r = m.r /\ w.ctx = m.ctx /\ w.then = m.then /\ w.raw = f /\ w.lo = m.lo
       /\ w.history = m.history /\ w.known = m.known /\ w.evs = m.evs
  BY <1>15, <1>18, <1>19 DEF Same, Fields
<1>21. Gapped(w)
  BY <1>5, <1>19, GappedKept
<1>22. Final(w)
  BY <1>11, <1>13, <1>18, <1>20 DEF Final, Today
<1>23. "gap" \notin Opening /\ "gap" \in Splits
  BY DEF Opening, Splits
<1>24. Phase("gap", w)
  BY <1>3, <1>5, <1>14, <1>18, <1>20, <1>21, <1>22, <1>23 DEF Phase, Knows, Has
<1>25. Good(t)
  BY <1>1, <1>7, <1>11, <1>17, <1>24, AssessIs DEF Knows, w
<1> QED BY <1>1, <1>2, <1>25, GoodMoves

LEMMA GapProvedKeeps == ASSUME IInv, NEW t \in Threads, GapProved(t), Elsewhere PROVE IInv'
<1> DEFINE m == my[t]
           left == m.missing \ Window(m.window.lo, m.window.hi)
           s == Following(m.staged, Staged(m, m.raw))
           f == Over(m.raw, m.rows)
           got == [m EXCEPT !.staged = s, !.rows = f, !.missing = left]
           w(b) == [got EXCEPT !.complete = b]
<1>1. at[t] = "gap" /\ UNCHANGED <<clock, attests, bar, events, morning, store>>
      /\ \/ Answer(t, w(FALSE))
         \/ left # {} /\ Go(t, "call gap", got)
         \/ left = {} /\ Answer(t, w(TRUE))
  BY DEF GapProved, source
<1>2. at[t] \in Phases \ Opening /\ Secure(at[t], m)
  BY <1>1 DEF Secure, Phases, Opening, Splits
<1>3. Knows(m) /\ m \in Memory /\ Phase(at[t], m) /\ Dated(at[t], m)
  BY <1>2, KnowsAt, QueryAt
<1>4. /\ m.history \in Int /\ m.history <= m.r.end /\ Gapped(m) /\ Final(m)
      /\ Within(m.raw, m.lo, m.r.end) /\ Has(m.raw, m, m.window.lo, m.window.hi)
  BY <1>1, <1>3 DEF Phase, Splits
<1>5. s \in Writes /\ Sound(s, m, bar)
  <2>1. Staged(m, m.raw) \in Writes /\ Sound(Staged(m, m.raw), m, bar)
    BY <1>1, <1>3, <1>4, StagedIs DEF IInv, SourceInv
  <2>2. m.staged \in Writes /\ Sound(m.staged, m, bar)
    BY <1>3 DEF Knows, Base, Memory
  <2> QED BY <2>1, <2>2, FollowingIs
<1>6. f \in Series /\ Real(f, m, bar) /\ DOMAIN f = DOMAIN m.raw \cup DOMAIN m.rows
  <2>1. m.raw \in Series /\ m.rows \in Series /\ Real(m.raw, m, bar) /\ Real(m.rows, m, bar)
    BY <1>3 DEF Knows, Base, Memory
  <2> QED BY <2>1, OverSeries, OverReal, OverIs
<1>7. left \subseteq m.missing /\ left \in SUBSET Days /\ left \subseteq Window(m.lo, m.history)
  BY <1>3, <1>4 DEF Memory, Gapped
<1>8. \A d \in Window(m.lo, m.r.end) \ left : m.then[d] # 0 => d \in DOMAIN f
  <2> SUFFICES ASSUME NEW d \in Window(m.lo, m.r.end), d \notin left, m.then[d] # 0 PROVE d \in DOMAIN f
    OBVIOUS
  <2>1. CASE d \in m.missing
    BY <1>4, <1>6, <2>1 DEF Has
  <2>2. CASE d \notin m.missing
    BY <1>4, <1>6, <2>2 DEF Gapped
  <2> QED BY <2>1, <2>2
<1>9. Within(f, m.lo, m.r.end)
  BY <1>4, <1>6 DEF Gapped, Within
<1> HIDE DEF s, f, left
<1>10. got \in Memory /\ Same(got, m, {"staged", "rows", "missing"})
       /\ got.staged = s /\ got.rows = f /\ got.missing = left
  BY <1>3, <1>5, <1>6, <1>7 DEF Memory, Same, Fields
<1> HIDE DEF got
<1>11. got.raw = m.raw /\ got.tail = m.tail /\ got.history = m.history /\ got.lo = m.lo
  BY <1>10 DEF Same, Fields
<1>12. Knows(got) /\ got.r = m.r /\ got.then = m.then
  BY <1>3, <1>5, <1>6, <1>10, <1>11, KnowsOf DEF Same, Knows, Base
<1>13. ASSUME NEW b \in BOOLEAN
       PROVE  Knows(w(b)) /\ w(b).complete = b /\ w(b).r = m.r /\ w(b).then = m.then
              /\ w(b).rows = f /\ w(b).lo = m.lo
  <2> DEFINE x == w(b)
  <2>1. x \in Memory /\ Same(x, got, {"complete"}) /\ x.complete = b
    BY <1>10 DEF Memory, Same, Fields
  <2> HIDE DEF x
  <2>2. Knows(x)
    BY <1>12, <2>1, KnowsKept DEF Same
  <2>3. x.r = m.r /\ x.then = m.then /\ x.rows = f /\ x.lo = m.lo
    BY <1>10, <1>11, <1>12, <2>1 DEF Same, Fields
  <2> QED BY <2>1, <2>2, <2>3 DEF x
<1> HIDE DEF w
<1>14. CASE Answer(t, w(FALSE))
  <2>1. Knows(w(FALSE)) /\ w(FALSE).complete = FALSE
    BY <1>13
  <2>2. Good(t)
    BY <1>14, <2>1, AnswerIs
  <2> QED BY <1>1, <1>2, <2>2, GoodMoves
<1>15. CASE left # {} /\ Go(t, "call gap", got)
  <2>1. Gapped(got)
    BY <1>4, <1>7, <1>8, <1>9, <1>10, <1>11, <1>12, <1>15 DEF Gapped
  <2>2. "call gap" \in Phases \ {"events"} /\ "call gap" \notin Opening \cup Backs
    BY DEF Phases, Splits, Opening, Backs
  <2>3. Phase("call gap", got)
    BY <1>4, <1>11, <1>12, <2>1, <2>2 DEF Phase, Knows
  <2>4. Dated("call gap", got)
    BY <2>2 DEF Dated
  <2>5. Queries("call gap", got, clock, bar, events, morning)
    BY <1>12, <2>2, <2>3, <2>4 DEF Queries, Knows
  <2> QED BY <1>1, <1>2, <1>15, <2>2, <2>5, GoIs, GoodMoves
<1>16. CASE left = {} /\ Answer(t, w(TRUE))
  <2>1. Knows(w(TRUE)) /\ w(TRUE).r = m.r /\ w(TRUE).then = m.then /\ w(TRUE).rows = f /\ w(TRUE).lo = m.lo
    BY <1>13
  <2>2. m.r.start # None /\ m.lo = m.r.start /\ m.r.count = None
    BY <1>3, <1>4 DEF Gapped, Knows, Base
  <2>3. Has(f, m, m.lo, m.r.end)
    BY <1>8, <1>16 DEF Has
  <2>4. Ready(w(TRUE))
    BY <1>9, <2>1, <2>2, <2>3 DEF Ready, Has, Start
  <2>5. Good(t)
    BY <1>16, <2>1, <2>4, AnswerIs
  <2> QED BY <1>1, <1>2, <2>5, GoodMoves
<1> QED BY <1>1, <1>14, <1>15, <1>16

-----------------------------------------------------------------------------
(* The raw series. *)

\* The newest rows there are make an answer.
LEMMA NewestIsReady ==
    ASSUME NEW m \in Memory, NEW w, w.r = m.r, w.then = m.then, w.rows = m.raw,
           m.r.count # None <=> m.r.start = None, Newest(m.raw, m, Start(m.r)),
           w.lo = IF m.r.count # None /\ DOMAIN m.raw # {} THEN Lowest(DOMAIN m.raw) ELSE Start(m.r)
    PROVE  Ready(w) /\ w.lo \in Int
<1> DEFINE f == m.raw
           S == DOMAIN f
<1>1. f \in Series /\ S \subseteq Days /\ m.r.count \in Counts /\ Start(m.r) \in Nat /\ m.r.end \in Nat
  BY StartIs, SeriesIs DEF Memory, Requests
<1>2. Cardinality(S) \in Nat
  BY <1>1, DaysAreFinite
<1> HIDE DEF f, S
<1>3. Within(f, Start(m.r), m.r.end) /\ S = DOMAIN f
      /\ (m.r.count = None \/ Cardinality(S) < m.r.count => Has(f, m, Start(m.r), m.r.end))
      /\ (m.r.count # None /\ Cardinality(S) >= m.r.count => Has(f, m, Lowest(S), m.r.end))
  BY DEF Newest, f, S
<1>4. w.rows = f /\ w.lo = IF m.r.count # None /\ S # {} THEN Lowest(S) ELSE Start(m.r)
  BY DEF f, S
<1>5. CASE m.r.count = None
  <2>1. w.lo = Start(m.r)
    BY <1>4, <1>5
  <2> QED BY <1>1, <1>3, <1>4, <1>5, <2>1 DEF Ready, Has
<1>6. CASE m.r.count # None
  <2>1. m.r.count \in Nat \ {0} /\ Start(m.r) = 0
    BY <1>1, <1>6 DEF Counts, Start
  <2>2. w.lo \in Int /\ Start(m.r) <= w.lo /\ Within(f, w.lo, m.r.end)
    <3>1. CASE S = {}
      BY <1>1, <1>3, <1>4, <3>1 DEF Within
    <3>2. CASE S # {}
      <4>1. w.lo = Lowest(S)
        BY <1>4, <1>6, <3>2
      <4>2. w.lo \in S /\ (\A e \in S : w.lo <= e) /\ w.lo \in Int
        BY <1>1, <3>2, <4>1, LowestIs, DaysAreNumbers
      <4>3. Start(m.r) <= w.lo
        BY <1>3, <4>2 DEF Within, Window
      <4>4. ASSUME NEW d \in S PROVE d \in Window(w.lo, m.r.end)
        BY <1>3, <4>2, <4>4 DEF Within, Window
      <4> QED BY <1>3, <4>2, <4>3, <4>4 DEF Within
    <3> QED BY <3>1, <3>2
  <2>3. CASE Cardinality(S) < m.r.count
    <3>1. Has(f, m, Start(m.r), m.r.end)
      BY <1>3, <2>3
    <3>2. ASSUME NEW d \in Window(w.lo, m.r.end) PROVE d \in Window(Start(m.r), m.r.end)
      <4>1. d \in Days /\ d \in Int /\ w.lo <= d /\ d <= m.r.end
        BY DaysAreNumbers DEF Window
      <4> QED BY <1>1, <2>2, <4>1 DEF Window
    <3>3. Has(f, m, w.lo, m.r.end)
      BY <3>1, <3>2 DEF Has
    <3> QED BY <1>4, <1>6, <2>1, <2>2, <3>1, <3>3 DEF Ready, Has
  <2>4. CASE ~(Cardinality(S) < m.r.count)
    <3>1. Cardinality(S) >= m.r.count /\ S # {}
      BY <1>2, <2>1, <2>4, FS_EmptySet
    <3>2. Has(f, m, w.lo, m.r.end)
      BY <1>3, <1>4, <1>6, <3>1
    <3> QED BY <1>3, <1>4, <1>6, <2>2, <2>4, <3>2 DEF Ready, Has
  <2> QED BY <2>3, <2>4
<1> QED BY <1>5, <1>6

LEMMA RawRowsKeeps == ASSUME IInv, NEW t \in Threads, RawRows(t), Elsewhere PROVE IInv'
<1> DEFINE m == my[t]
           days == DOMAIN m.raw
           closed == {d \in days : d < Today(m)}
           suffix == m.r.start = None /\ closed # {}
           g == [d \in closed |-> m.raw[d]]
           from == IF m.r.count # None /\ days # {} THEN Lowest(days) ELSE Start(m.r)
           got == [m EXCEPT !.rows = m.raw, !.raw = g, !.lo = from]
           lo == IF suffix THEN Lowest(closed) ELSE Start(m.r)
           hi == ClosedEnd(m.r.end, Today(m))
           w == Weighing(got, lo, hi)
<1>1. at[t] = "raw rows" /\ UNCHANGED <<clock, attests, bar, events, morning, store>>
      /\ (Assess(t, got, lo, hi, "raw") \/ Go(t, "raw", w))
  BY DEF RawRows, source, Weighing
<1>2. at[t] \in Phases \ Opening /\ Secure(at[t], m)
  BY <1>1 DEF Secure, Phases, Opening, Splits
<1>3. Knows(m) /\ m \in Memory /\ Phase(at[t], m)
  BY <1>2, KnowsAt, QueryAt
<1>4. m.r.end \in Nat /\ m.r \in Requests /\ m.r.count \in Counts /\ m.ctx \in Nat /\ Start(m.r) \in Nat
      /\ m.raw \in Series /\ days \subseteq Days /\ (m.r.count # None <=> m.r.start = None)
  BY <1>3, StartIs, SeriesIs DEF Memory, Requests, Knows, Base
<1>5. Newest(m.raw, m, Start(m.r)) /\ Closed(m.raw, m)
  BY <1>1, <1>3 DEF Phase
<1>6. g \in Series /\ Real(g, m, bar) /\ DOMAIN g = closed /\ \A d \in closed : g[d] = 2
  <2>1. \A d \in DOMAIN m.raw : m.raw[d] \in {1, 2}
    BY <1>4, SeriesIs
  <2>2. g \in Series
    BY <1>4, <2>1, SeriesOf
  <2>3. \A d \in closed : m.raw[d] = 2
    BY <1>5 DEF Closed
  <2> QED BY <1>3, <2>2, <2>3 DEF Real, Knows, Base
<1>7. closed \subseteq Days
  BY <1>4
<1>8. from \in Int
  <2>1. days # {} => Lowest(days) \in Int
    BY <1>4, LowestIs, DaysAreNumbers
  <2> QED BY <1>4, <2>1
<1>9. lo \in Int
  <2>1. closed # {} => Lowest(closed) \in Int
    BY <1>7, LowestIs, DaysAreNumbers
  <2> QED BY <1>4, <2>1
<1>10. hi \in Int /\ hi < Today(m)
  <2>1. m.r.end \in Int /\ m.ctx \in Int /\ m.ctx <= m.ctx
    BY <1>4
  <2>2. Today(m) \in Int
    BY <2>1, DayIsMonotone DEF Today
  <2> QED BY <2>1, <2>2, ClosedEndIs
<1> HIDE DEF lo, hi, g, closed
<1>11. got \in Memory /\ Same(got, m, {"rows", "raw", "lo"}) /\ got.rows = m.raw /\ got.raw = g
       /\ got.lo = from
  BY <1>3, <1>4, <1>6, <1>8 DEF Memory, Same, Fields
<1> HIDE DEF got
<1>12. got.tail = m.tail /\ got.staged = m.staged
  BY <1>11 DEF Same, Fields
<1>13. Knows(got) /\ got.r = m.r /\ got.then = m.then /\ got.ctx = m.ctx
  BY <1>3, <1>6, <1>11, <1>12, KnowsOf DEF Same, Knows, Base
<1>14. Ready(got)
  BY <1>3, <1>4, <1>5, <1>11, <1>13, NewestIsReady
<1>15. w \in Memory /\ Same(w, got, {"window", "cal"}) /\ w.window.hi = hi /\ w.window.lo = lo
       /\ w.cal = NoCalendar
  BY <1>9, <1>10, <1>11, WeighingIs
<1> HIDE DEF w
<1>16. w.r = got.r /\ w.ctx = got.ctx /\ w.then = got.then /\ w.raw = got.raw /\ w.rows = got.rows
       /\ w.lo = got.lo /\ w.known = got.known /\ w.evs = got.evs
  BY <1>15 DEF Same, Fields
<1>17. Ready(w)
  BY <1>14, <1>16, ReadyKept
<1>18. Final(w)
  BY <1>6, <1>10, <1>11, <1>13, <1>15, <1>16 DEF Final, Today
<1>19. "raw" \notin Opening \cup Splits /\ "raw" \in Phases \ {"events"} /\ "raw" \in Backs /\ "raw" # "fill"
  BY DEF Opening, Splits, Phases, Backs
<1>20. Phase("raw", w)
  BY <1>13, <1>16, <1>17, <1>18, <1>19 DEF Phase, Knows
<1>21. CASE Assess(t, got, lo, hi, "raw")
  <2>1. Good(t)
    BY <1>9, <1>10, <1>13, <1>20, <1>21, AssessIs DEF Knows, w
  <2> QED BY <1>1, <1>2, <2>1, GoodMoves
<1>22. CASE Go(t, "raw", w)
  <2>1. Dated("raw", w)
    BY <1>15, <1>19, CalendarIs DEF Dated
  <2>2. Base(w, clock, bar, events, morning)
    BY <1>13, <1>15, KnowsKept DEF Same, Knows
  <2>3. Queries("raw", w, clock, bar, events, morning)
    BY <1>19, <1>20, <2>1, <2>2 DEF Queries
  <2> QED BY <1>1, <1>2, <1>19, <1>22, <2>3, GoIs, GoodMoves
<1> QED BY <1>1, <1>21, <1>22

LEMMA RawProvedKeeps == ASSUME IInv, NEW t \in Threads, RawProved(t), Elsewhere PROVE IInv'
<1> DEFINE m == my[t]
           s == IF m.window.lo > m.window.hi THEN m.staged ELSE Following(m.staged, Staged(m, m.raw))
           w == [m EXCEPT !.staged = s]
<1>1. at[t] = "raw" /\ UNCHANGED <<clock, attests, bar, events, morning, store>>
      /\ (Derive(t, w) \/ AskSource(t, w))
  BY DEF RawProved, source
<1>2. at[t] \in Phases \ Opening /\ Secure(at[t], m)
  BY <1>1 DEF Secure, Phases, Opening, Splits
<1>3. Knows(m) /\ m \in Memory /\ Phase(at[t], m) /\ Dated(at[t], m)
  BY <1>2, KnowsAt, QueryAt
<1>4. Ready(m) /\ Final(m)
  BY <1>1, <1>3 DEF Phase
<1>5. s \in Writes /\ Sound(s, m, bar)
  <2>1. Staged(m, m.raw) \in Writes /\ Sound(Staged(m, m.raw), m, bar)
    BY <1>1, <1>3, <1>4, StagedIs DEF IInv, SourceInv
  <2>2. m.staged \in Writes /\ Sound(m.staged, m, bar)
    BY <1>3 DEF Knows, Base, Memory
  <2> QED BY <2>1, <2>2, FollowingIs
<1> HIDE DEF s
<1>6. w \in Memory /\ Same(w, m, {"staged"}) /\ w.staged = s
  BY <1>3, <1>5 DEF Memory, Same, Fields
<1> HIDE DEF w
<1>7. w.rows = m.rows /\ w.tail = m.tail /\ w.raw = m.raw /\ w.lo = m.lo
  BY <1>6 DEF Same, Fields
<1>8. Knows(w) /\ w.r = m.r /\ w.then = m.then
  BY <1>3, <1>5, <1>6, <1>7, KnowsOf DEF Same, Knows, Base
<1>9. Ready(w)
  BY <1>4, <1>7, <1>8, ReadyKept
<1>10. Good(t)
  BY <1>1, <1>8, <1>9, DeriveIs, AskSourceIs
<1> QED BY <1>1, <1>2, <1>10, GoodMoves

LEMMA FrontCheckedKeeps == ASSUME IInv, NEW t \in Threads, FrontChecked(t), Elsewhere PROVE IInv'
<1> DEFINE m == my[t]
<1>1. at[t] = "front" /\ UNCHANGED <<clock, attests, bar, events, morning, store>>
      /\ (Finish(t, m) \/ Unsupported(t, m))
  BY DEF FrontChecked, source
<1>2. at[t] \in Phases \ Opening /\ Secure(at[t], m)
  BY <1>1 DEF Secure, Phases, Opening, Splits
<1>3. Knows(m) /\ m \in Memory /\ Phase(at[t], m) /\ Dated(at[t], m)
  BY <1>2, KnowsAt, QueryAt
<1>4. Ready(m)
  BY <1>1, <1>3 DEF Phase
<1>5. m.cal.dates # None => m.cal.dates = Sessions \cap Window(m.lo, m.r.end)
  BY <1>1, <1>3 DEF Dated, Backs, Asked
<1>6. Good(t)
  BY <1>1, <1>3, <1>4, <1>5, FinishIs, UnsupportedIs
<1> QED BY <1>1, <1>2, <1>6, GoodMoves

-----------------------------------------------------------------------------
(* Writes. *)

LEMMA EventsWritten ==
    ASSUME NEW s \in StoreTypes, StoredBars(s, clock, bar), StoredEvents(s, clock, events, morning),
           attests \in BOOLEAN, events \subseteq EventDays, NEW evs, evs \subseteq events,
           NEW W, W \subseteq Days, NEW checked \in Int \cup {None},
           checked # None => checked <= clock /\ (Day(checked) = Day(clock) => morning \subseteq evs),
           NEW x, x = WithEvents(s, evs, W, checked)
    PROVE  x \in StoreTypes /\ StoredBars(x, clock, bar) /\ StoredEvents(x, clock, events, morning)
<1> DEFINE r == evs \cup IF attests THEN s.rights \ W ELSE s.rights
           h == IF attests THEN s.whole \cup W ELSE s.whole \ W
           c == IF attests THEN checked ELSE None
<1>1. x = [s EXCEPT !.rights = r, !.whole = h, !.checked = c]
  BY DEF WithEvents
<1>2. s.rights \subseteq events /\ s.whole \subseteq Days
  BY DEF StoredEvents, StoreTypes
<1>3. r \in SUBSET EventDays /\ r \subseteq events /\ evs \subseteq r /\ h \in SUBSET Days
  BY <1>2
<1>4. c \in Int \cup {None} /\ (c = None \/ c = checked)
  OBVIOUS
<1> HIDE DEF r, h, c
<1>5. x \in StoreTypes /\ x.rights = r /\ x.checked = c /\ x.bars = s.bars /\ x.proven = s.proven
      /\ x.dates = s.dates /\ x.since = s.since
  BY <1>1, <1>3, <1>4 DEF StoreTypes
<1>6. StoredBars(x, clock, bar)
  BY <1>5 DEF StoredBars
<1>7. StoredEvents(x, clock, events, morning)
  BY <1>3, <1>4, <1>5 DEF StoredEvents
<1> QED BY <1>5, <1>6, <1>7

LEMMA BarsWritten ==
    ASSUME NEW s \in StoreTypes, StoredBars(s, clock, bar), NEW m, Knows(m), clock \in Nat,
           NEW x, x = WithBars(s, m.staged)
    PROVE  x \in StoreTypes /\ StoredBars(x, clock, bar) /\ x.rights = s.rights /\ x.checked = s.checked
<1> DEFINE w == m.staged
           f == [d \in Days |-> IF d \in DOMAIN w.rows THEN w.rows[d] ELSE s.bars[d]]
           p == (s.proven \ w.unsure) \cup w.sure
<1>1. x = [s EXCEPT !.bars = f, !.proven = p]
  BY DEF WithBars
<1>2. w \in Writes /\ Sound(w, m, bar) /\ m.ctx \in Nat /\ m.ctx <= clock
  BY DEF Knows, Base, Memory
<1>3. w.rows \in Written /\ w.sure \subseteq Days /\ w.unsure \subseteq Days
  BY <1>2 DEF Writes
<1>4. DOMAIN w.rows \subseteq Days /\ \A d \in DOMAIN w.rows : w.rows[d] \in {0, 2}
  BY <1>3 DEF Written
<1>5. s.bars \in [Days -> {0, 2}] /\ s.proven \subseteq Days
  BY DEF StoreTypes
<1>6. Today(m) \in Int /\ Today(m) <= Day(clock) /\ Day(clock) \in Int
  BY <1>2, DayIsMonotone DEF Today
<1> HIDE DEF w
<1>7. f \in [Days -> {0, 2}] /\ p \in SUBSET Days
  BY <1>3, <1>4, <1>5
<1>8. \A d \in Days : f[d] <= bar[d]
  BY <1>2, <1>4 DEF Sound, StoredBars
<1>9. \A d \in p : d < Day(clock) /\ f[d] = IF d \in Sessions THEN 2 ELSE 0
  <2> SUFFICES ASSUME NEW d \in p PROVE d < Day(clock) /\ f[d] = IF d \in Sessions THEN 2 ELSE 0
    OBVIOUS
  <2>1. d \in Days /\ d \in Int
    BY <1>7, DaysAreNumbers
  <2>2. CASE d \in w.sure
    <3>1. d < Today(m) /\ d \in DOMAIN w.rows /\ w.rows[d] = IF d \in Sessions THEN 2 ELSE 0
      BY <1>2, <2>2 DEF Sound
    <3>2. f[d] = w.rows[d]
      BY <2>1, <3>1
    <3>3. d < Day(clock)
      BY <1>6, <2>1, <3>1
    <3> QED BY <3>1, <3>2, <3>3
  <2>3. CASE d \notin w.sure
    <3>1. d \in s.proven /\ d \notin DOMAIN w.rows
      BY <1>2, <2>3 DEF Sound
    <3>2. f[d] = s.bars[d]
      BY <2>1, <3>1
    <3> QED BY <3>1, <3>2 DEF StoredBars
  <2> QED BY <2>2, <2>3
<1> HIDE DEF f, p
<1>10. x \in StoreTypes /\ x.rights = s.rights /\ x.checked = s.checked /\ x.bars = f /\ x.proven = p
      /\ x.dates = s.dates /\ x.since = s.since
  BY <1>1, <1>7 DEF StoreTypes
<1>11. StoredBars(x, clock, bar)
  BY <1>8, <1>9, <1>10 DEF StoredBars
<1> QED BY <1>10, <1>11

LEMMA PublishedIs ==
    ASSUME IInv, NEW m, Knows(m), NEW x, x = Published(store, m)
    PROVE  x \in StoreTypes /\ StoredBars(x, clock, bar) /\ StoredEvents(x, clock, events, morning)
<1> DEFINE s == IF m.publishes THEN WithEvents(store, m.evs, Days, m.ctx) ELSE store
<1>1. /\ store \in StoreTypes /\ StoredBars(store, clock, bar)
      /\ StoredEvents(store, clock, events, morning)
      /\ attests \in BOOLEAN /\ events \subseteq EventDays /\ clock \in Nat
  BY DEF IInv, TypeInv, SourceInv, StoreInv
<1>2. /\ m.evs \subseteq events /\ m.ctx \in Int \cup {None} /\ m.ctx <= clock
      /\ m.publishes /\ Day(m.ctx) = Day(clock) => morning \subseteq m.evs
  BY DEF Knows, Base, Factors, Memory
<1>3. s \in StoreTypes /\ StoredBars(s, clock, bar) /\ StoredEvents(s, clock, events, morning)
  <2>1. CASE m.publishes
    BY <1>1, <1>2, <2>1, EventsWritten
  <2>2. CASE ~m.publishes
    BY <1>1, <2>2
  <2> QED BY <2>1, <2>2
<1>4. x = WithBars(s, m.staged)
  BY DEF Published
<1> HIDE DEF s
<1>5. x \in StoreTypes /\ StoredBars(x, clock, bar) /\ x.rights = s.rights /\ x.checked = s.checked
  BY <1>1, <1>3, <1>4, BarsWritten
<1> QED BY <1>3, <1>5 DEF StoredEvents

\* A query ends, and its transaction may have been written.
LEMMA DoneMoves ==
    ASSUME IInv, NEW t \in Threads, Secure(at[t], my[t]), NEW m, Done(t, m),
           Holds("done", m, clock, bar, events, morning), StoreInv',
           UNCHANGED <<clock, attests, bar, events, morning>>, Elsewhere
    PROVE  IInv'
<1>1. lock["security"] = t
  BY DEF IInv, LockInv
<1>2. at[t] \notin ListSteps \cup {"done"} /\ "done" \notin ListSteps
  BY DEF Secure, Phases, Opening, Splits, ListSteps
<1>3. ~Secure("done", m)
  BY DEF Secure, Phases, Opening, Splits
<1>4. at' = [at EXCEPT ![t] = "done"] /\ my' = [my EXCEPT ![t] = m]
      /\ lock' = Leaving(t, {"security", "calendar"})
  BY DEF Done
<1>5. DOMAIN lock' = Locks /\ \A u \in Threads : u # t /\ lock["security"] = u => lock'["security"] = u
  BY <1>4, LeavingIs
<1> QED BY <1>1, <1>2, <1>3, <1>4, <1>5, ThreadMoves DEF Elsewhere

LEMMA CallOriginalKeeps == ASSUME IInv, NEW t \in Threads, CallOriginal(t), Elsewhere PROVE IInv'
<1>1. at[t] = "call original" /\ UNCHANGED <<clock, attests, bar, events, morning>> /\ Done(t, Idle)
      /\ (store' = store \/ store' = Published(store, my[t]))
  BY DEF CallOriginal, source, Ends
<1>2. at[t] \in Phases \ Opening /\ Secure(at[t], my[t])
  BY <1>1 DEF Secure, Phases, Opening, Splits
<1>3. Knows(my[t])
  BY <1>2, KnowsAt
<1>4. StoreInv'
  BY <1>1, <1>3, PublishedIs DEF StoreInv, IInv
<1>5. Holds("done", Idle, clock, bar, events, morning)
  BY DEF Holds
<1> QED BY <1>1, <1>2, <1>4, <1>5, DoneMoves

LEMMA CallDividendsKeeps == ASSUME IInv, NEW t \in Threads, CallDividends(t), Elsewhere PROVE IInv'
<1> DEFINE W == my[t].days
<1>1. at[t] = "call dividends" /\ UNCHANGED <<clock, attests, bar, events, morning>> /\ Done(t, Idle)
      /\ (store' = store \/ store' = WithEvents(store, EventsOf(W), W, None))
  BY DEF CallDividends, source, Ends
<1>2. Secure(at[t], my[t])
  BY <1>1 DEF Secure
<1>3. W \subseteq Days
  <2>1. Holds(at[t], my[t], clock, bar, events, morning)
    BY DEF IInv, ThreadInv
  <2>2. "call dividends" \notin {"idle", "done", "answer dates", "call dates", "dates"} \cup ListSteps \cup Phases
    BY DEF ListSteps, Phases, Opening, Splits
  <2> QED BY <1>1, <2>1, <2>2 DEF Holds, Queries
<1>4. /\ store \in StoreTypes /\ StoredBars(store, clock, bar)
      /\ StoredEvents(store, clock, events, morning)
      /\ attests \in BOOLEAN /\ events \subseteq EventDays /\ EventsOf(W) \subseteq events
  BY DEF IInv, SourceInv, StoreInv, EventsOf
<1>5. StoreInv'
  BY <1>1, <1>3, <1>4, EventsWritten DEF StoreInv
<1>6. Holds("done", Idle, clock, bar, events, morning)
  BY DEF Holds
<1> QED BY <1>1, <1>2, <1>5, <1>6, DoneMoves

LEMMA TakeDividendsKeeps == ASSUME IInv, NEW t \in Threads, TakeDividends(t), Elsewhere PROVE IInv'
<1> DEFINE W(r) == Window(Start(r), IF r.end = None THEN LastDay ELSE r.end)
           m(r) == [r |-> r, days |-> W(r)]
<1>1. at[t] = "idle" /\ Free("security") /\ UNCHANGED <<clock, attests, bar, events, morning, store>>
  BY DEF TakeDividends, source
<1>2. at[t] \notin ListSteps \cup {"done"} /\ "done" \notin ListSteps /\ "call dividends" \notin ListSteps
  BY <1>1 DEF ListSteps
<1>3. StoreInv'
  BY <1>1, StoreStays DEF IInv
<1>4. \A u \in Threads : lock["security"] # u
  BY <1>1, TimeAssumption DEF Free
<1>5. CASE Ends(t)
  <2>1. at' = [at EXCEPT ![t] = "done"] /\ my' = [my EXCEPT ![t] = Idle]
        /\ lock' = Leaving(t, {"security", "calendar"})
    BY <1>5 DEF Ends, Done
  <2>2. Holds("done", Idle, clock, bar, events, morning)
    BY DEF Holds
  <2>3. ~Secure("done", Idle)
    BY DEF Secure, Phases, Opening, Splits
  <2>4. DOMAIN lock' = Locks
    BY <2>1, LeavingIs
  <2> QED BY <1>1, <1>2, <1>3, <1>4, <2>1, <2>2, <2>3, <2>4, ThreadMoves DEF Elsewhere
<1>6. ASSUME NEW r \in DividendQueries, at' = [at EXCEPT ![t] = "call dividends"],
             my' = [my EXCEPT ![t] = m(r)], lock' = [lock EXCEPT !["security"] = t]
      PROVE  IInv'
  <2>1. W(r) \subseteq Days
    BY WindowsAreDays
  <2> HIDE DEF W
  <2>2. m(r).days \subseteq Days
    BY <2>1
  <2> HIDE DEF m
  <2>3. Holds("call dividends", m(r), clock, bar, events, morning)
    BY <2>2 DEF Holds
  <2>4. DOMAIN lock' = Locks /\ lock'["security"] = t
    BY <1>6 DEF IInv, TypeInv, Locks
  <2>5. "call dividends" # "events"
    OBVIOUS
  <2> QED BY <1>1, <1>2, <1>3, <1>4, <1>6, <2>3, <2>4, <2>5, ThreadMoves DEF Elsewhere
<1> QED BY <1>5, <1>6 DEF TakeDividends

-----------------------------------------------------------------------------
(* Answers. *)

LEMMA AdjustedIs ==
    ASSUME NEW m, NEW f \in Series
    PROVE  /\ DOMAIN Adjusted(m, f) = DOMAIN f
           /\ \A d \in DOMAIN f :
                /\ Adjusted(m, f)[d] \in [value : {1, 2}, filled : BOOLEAN, factors : SUBSET Cut(m)]
                /\ Adjusted(m, f)[d].value = f[d] /\ ~Adjusted(m, f)[d].filled
                /\ m.r.adjustment # "none" => Adjusted(m, f)[d].factors = Due(m.r, m.evs, d)
<1>1. \A d \in DOMAIN f : f[d] \in {1, 2}
  BY SeriesIs
<1>2. DOMAIN Adjusted(m, f) = DOMAIN f
  BY DEF Adjusted
<1>3. ASSUME NEW d \in DOMAIN f
      PROVE /\ Adjusted(m, f)[d] \in [value : {1, 2}, filled : BOOLEAN, factors : SUBSET Cut(m)]
            /\ Adjusted(m, f)[d].value = f[d] /\ ~Adjusted(m, f)[d].filled
            /\ m.r.adjustment # "none" => Adjusted(m, f)[d].factors = Due(m.r, m.evs, d)
  <2> DEFINE E == IF m.r.adjustment = "none" THEN {}
                  ELSE {e \in Cut(m) : IF Forward(m.r) THEN e > d ELSE e <= d}
             x == [value |-> f[d], filled |-> FALSE, factors |-> E]
  <2>1. Adjusted(m, f)[d] = x
    BY DEF Adjusted
  <2>2. E \subseteq Cut(m) /\ (m.r.adjustment # "none" => E = Due(m.r, m.evs, d))
    BY DEF Due, Cut
  <2> HIDE DEF E
  <2>3. x \in [value : {1, 2}, filled : BOOLEAN, factors : SUBSET Cut(m)]
        /\ x.value = f[d] /\ x.filled = FALSE /\ x.factors = E
    BY <1>1, <2>2
  <2> HIDE DEF x
  <2> QED BY <2>1, <2>2, <2>3
<1> QED BY <1>2, <1>3

\* The rows of an answer before they are trimmed.
Complete(m) ==
    LET rows == Adjusted(m, m.rows) IN IF m.r.fill THEN Filled(rows, m.cal.dates) ELSE rows

LEMMA CompleteIs ==
    ASSUME SourceInv, NEW m, Knows(m), Ready(m), Dated("fill", m),
           m.r.fill => Fillable(Adjusted(m, m.rows), m.cal.dates)
    PROVE  /\ DOMAIN Complete(m) \subseteq Window(m.lo, m.r.end)
           /\ DOMAIN m.rows \subseteq DOMAIN Complete(m)
           /\ \A d \in DOMAIN m.rows : Complete(m)[d] = Adjusted(m, m.rows)[d]
           /\ \A d \in DOMAIN Complete(m) : Complete(m)[d].filled <=> d \notin DOMAIN m.rows
<1> DEFINE rows == Adjusted(m, m.rows)
           R == [value : {1, 2}, filled : BOOLEAN, factors : SUBSET Cut(m)]
           D == DOMAIN m.rows
           C == m.cal.dates
<1>1. m.rows \in Series /\ D \subseteq Window(m.lo, m.r.end) /\ D \subseteq Days
  BY SeriesIs DEF Knows, Base, Memory, Ready, Within
<1>2. DOMAIN rows = D /\ \A d \in D : rows[d] \in R /\ ~rows[d].filled
  BY <1>1, AdjustedIs
<1> HIDE DEF rows, R
<1>3. CASE ~m.r.fill
  <2>1. Complete(m) = rows
    BY <1>3 DEF Complete, rows
  <2> QED BY <1>1, <1>2, <2>1 DEF rows
<1>4. CASE m.r.fill
  <2>1. C = Sessions \cap Window(m.lo, m.r.end)
    BY <1>4 DEF Dated, Asked
  <2>2. D \subseteq Sessions
    <3> SUFFICES ASSUME NEW d \in D, d \notin Sessions PROVE FALSE
      OBVIOUS
    <3>1. m.rows[d] \in {1, 2} /\ m.rows[d] <= bar[d] /\ d \in Days
      BY <1>1, SeriesIs DEF Knows, Base, Real
    <3>2. bar[d] = 0
      BY <3>1 DEF SourceInv
    <3> QED BY <3>1, <3>2
  <2>3. D \subseteq C /\ C \subseteq Days
    BY <1>1, <2>1, <2>2, WindowsAreDays
  <2> DEFINE before(d) == {e \in DOMAIN rows : e < d}
             g == [d \in C |-> IF d \in DOMAIN rows THEN rows[d]
                               ELSE [rows[Highest(before(d))] EXCEPT !.filled = TRUE]]
  <2>4. Complete(m) = g
    BY <1>4 DEF Complete, Filled, rows
  <2>5. ASSUME NEW d \in C \ D
        PROVE  [rows[Highest(before(d))] EXCEPT !.filled = TRUE].filled
    <3>1. C # {} /\ Lowest(C) \in D
      BY <1>2, <1>4, <2>5 DEF Fillable, rows
    <3>2. Lowest(C) <= d /\ Lowest(C) \in C
      BY <2>3, <3>1, LowestIs
    <3>3. Lowest(C) \in Int /\ d \in Int /\ Lowest(C) # d
      BY <2>3, <2>5, <3>1, <3>2, DaysAreNumbers
    <3>4. Lowest(C) \in before(d) /\ before(d) \subseteq Days
      BY <1>1, <1>2, <3>1, <3>2, <3>3
    <3>5. Highest(before(d)) \in before(d)
      BY <3>4, HighestIs
    <3>6. rows[Highest(before(d))] \in R
      BY <1>2, <3>5
    <3> QED BY <3>6 DEF R
  <2> HIDE DEF before
  <2>6. DOMAIN g = C /\ \A d \in D : g[d] = rows[d]
    BY <1>2, <2>3
  <2>7. \A d \in C \ D : g[d].filled
    BY <1>2, <2>5
  <2> HIDE DEF g
  <2>8. \A d \in C : g[d].filled <=> d \notin D
    BY <1>2, <2>6, <2>7
  <2> QED BY <2>1, <2>3, <2>4, <2>6, <2>8 DEF rows
<1> QED BY <1>3, <1>4

\* The answer of a query that has all its rows: nothing is missing since its
\* beginning, and every price has the factors of its day.
LEMMA AnswerIsCurrent ==
    ASSUME SourceInv, NEW m, Knows(m), Ready(m), Dated("fill", m),
           m.r.fill => Fillable(Adjusted(m, m.rows), m.cal.dates),
           NEW x, x.r = m.r, x.then = m.then, x.known = m.known,
           x.answer = Trimmed(m.r, Complete(m))
    PROVE  Current(x, bar) /\ Factored(x, events)
<1> DEFINE F == Complete(m)
           a == x.answer
           D == DOMAIN m.rows
           n == m.r.count
<1>1. m \in Memory /\ m.rows \in Series /\ n \in Counts /\ m.then \in [Days -> 0..2]
      /\ m.r.end \in Nat /\ m.lo \in Int /\ D \subseteq Days /\ (n # None <=> m.r.start = None)
  BY SeriesIs DEF Knows, Base, Memory, Requests
<1>2. /\ DOMAIN F \subseteq Window(m.lo, m.r.end) /\ D \subseteq DOMAIN F
      /\ \A d \in D : F[d] = Adjusted(m, m.rows)[d]
      /\ \A d \in DOMAIN F : F[d].filled <=> d \notin D
  BY CompleteIs
<1> HIDE DEF F
<1>3. DOMAIN F \subseteq Days
  BY <1>2, WindowsAreDays
<1>4. DOMAIN a \subseteq DOMAIN F /\ (\A d \in DOMAIN a : a[d] = F[d]) /\ (n = None => a = F)
  BY <1>1, <1>3, TrimmedIs DEF F
<1>5. n # None =>
        /\ \A d \in DOMAIN a, e \in DOMAIN F : d <= e => e \in DOMAIN a
        /\ Cardinality(DOMAIN a) <= n
        /\ Cardinality(DOMAIN a) < n => DOMAIN a = DOMAIN F
        /\ n \in Nat \ {0}
  BY <1>1, <1>3, TrimmedKeeps DEF F
<1>6. Unfilled(a) = D \cap DOMAIN a
  BY <1>2, <1>4 DEF Unfilled
<1>7. \A d \in Unfilled(a) : a[d] = Adjusted(m, m.rows)[d] /\ d \in D
  BY <1>2, <1>4, <1>6
<1> HIDE DEF a
<1>8. Has(m.rows, m, m.lo, m.r.end) /\ (n = None => m.lo = Start(m.r))
      /\ (n # None /\ Cardinality(D) < n => Has(m.rows, m, 0, m.r.end))
  BY DEF Ready
<1>9. ASSUME NEW d \in Window(Beginning(m.r, a), m.r.end), m.then[d] # 0
      PROVE  d \in Unfilled(a)
  <2>1. d \in Days /\ d \in Int /\ Beginning(m.r, a) <= d /\ d <= m.r.end
    BY DaysAreNumbers DEF Window
  <2>2. CASE n = None
    <3>1. Beginning(m.r, a) = Start(m.r)
      BY <2>2 DEF Beginning
    <3>2. d \in D
      BY <1>8, <1>9, <2>2, <3>1 DEF Has
    <3> QED BY <1>2, <1>4, <1>6, <2>2, <3>2
  <2>3. CASE n # None /\ Cardinality(DOMAIN a) = n
    <3>1. Beginning(m.r, a) = Lowest(DOMAIN a)
      BY <2>3 DEF Beginning
    <3>2. DOMAIN a # {} /\ DOMAIN a \subseteq Days
      BY <1>3, <1>4, <1>5, <2>3, FS_EmptySet
    <3>3. Lowest(DOMAIN a) \in DOMAIN a /\ Lowest(DOMAIN a) \in Int
      BY <3>2, LowestIs, DaysAreNumbers
    <3>4. m.lo <= Lowest(DOMAIN a)
      BY <1>2, <1>4, <3>3 DEF Window
    <3>5. d \in Window(m.lo, m.r.end)
      BY <1>1, <2>1, <3>1, <3>3, <3>4 DEF Window
    <3>6. d \in D
      BY <1>8, <1>9, <3>5 DEF Has
    <3>7. d \in DOMAIN a
      BY <1>2, <1>5, <2>1, <2>3, <3>1, <3>3, <3>6
    <3> QED BY <1>6, <3>6, <3>7
  <2>4. CASE n # None /\ Cardinality(DOMAIN a) # n
    <3>1. Beginning(m.r, a) = 0
      BY <1>1, <2>4 DEF Beginning, Start
    <3>2. Cardinality(DOMAIN a) \in Nat
      BY <1>3, <1>4, DaysAreFinite
    <3>3. DOMAIN a = DOMAIN F /\ Cardinality(DOMAIN a) < n
      BY <1>5, <2>4, <3>2
    <3>4. Cardinality(D) <= Cardinality(DOMAIN F) /\ Cardinality(D) \in Nat
      BY <1>1, <1>2, <1>3, DaysAreFinite, FS_Subset
    <3>5. Cardinality(D) < n
      BY <1>5, <2>4, <3>2, <3>3, <3>4
    <3>6. d \in D
      BY <1>8, <1>9, <2>4, <3>1, <3>5 DEF Has
    <3> QED BY <1>2, <1>6, <3>3, <3>6
  <2> QED BY <2>2, <2>3, <2>4
<1>10. \A d \in D : m.rows[d] \in {1, 2} /\ m.then[d] <= m.rows[d] /\ m.rows[d] <= bar[d]
  BY <1>1, SeriesIs DEF Knows, Base, Real
<1>11. \A d \in D : /\ Adjusted(m, m.rows)[d].value = m.rows[d]
                    /\ m.r.adjustment # "none" => Adjusted(m, m.rows)[d].factors = Due(m.r, m.evs, d)
  BY <1>1, AdjustedIs
<1>12. \A d \in Unfilled(a) : a[d].value = m.rows[d] /\ d \in D
  BY <1>7, <1>11
<1>13. Current(x, bar)
  <2>1. Beginning(x.r, x.answer) = Beginning(m.r, a)
    BY DEF a
  <2>2. Unfilled(a) \subseteq Days
    BY <1>1, <1>6
  <2>3. \A d \in Unfilled(a) : a[d].value \in 0..2 /\ m.then[d] <= a[d].value /\ a[d].value <= bar[d]
    <3> SUFFICES ASSUME NEW d \in Unfilled(a)
                 PROVE  a[d].value \in 0..2 /\ m.then[d] <= a[d].value /\ a[d].value <= bar[d]
      OBVIOUS
    <3>1. a[d].value = m.rows[d] /\ m.rows[d] \in {1, 2} /\ m.then[d] <= m.rows[d] /\ m.rows[d] <= bar[d]
      BY <1>10, <1>12
    <3> QED BY <3>1
  <2> QED BY <1>1, <1>9, <2>1, <2>2, <2>3 DEF Current, a
<1>14. Factored(x, events)
  <2> SUFFICES ASSUME m.r.adjustment # "none", NEW d \in Unfilled(a)
               PROVE  Due(m.r, m.known, d) \subseteq a[d].factors /\ a[d].factors \subseteq Due(m.r, events, d)
    BY DEF Factored, a
  <2>1. a[d].factors = Due(m.r, m.evs, d)
    BY <1>7, <1>11
  <2>2. m.known \subseteq m.evs /\ m.evs \subseteq events
    BY DEF Knows, Base, Factors
  <2>3. Due(m.r, m.known, d) \subseteq Due(m.r, m.evs, d) /\ Due(m.r, m.evs, d) \subseteq Due(m.r, events, d)
    BY <2>2 DEF Due
  <2> QED BY <2>1, <2>3
<1> QED BY <1>13, <1>14

LEMMA DeliverKeeps == ASSUME IInv, NEW t \in Threads, Deliver(t), Elsewhere PROVE IInv'
<1> DEFINE m == my[t]
           rows == Adjusted(m, m.rows)
           a == Trimmed(m.r, IF m.r.fill THEN Filled(rows, m.cal.dates) ELSE rows)
           x == [r |-> m.r, then |-> m.then, known |-> m.known, answer |-> a]
<1>1. at[t] = "fill" /\ UNCHANGED <<clock, attests, bar, events, morning>>
      /\ \/ Unsupported(t, m) /\ UNCHANGED store
         \/ /\ m.r.fill => Fillable(rows, m.cal.dates)
            /\ Done(t, x)
            /\ store' = store \/ store' = Published(store, m)
  BY DEF Deliver, source
<1>2. at[t] \in Phases \ Opening /\ Secure(at[t], m)
  BY <1>1 DEF Secure, Phases, Opening, Splits
<1>3. Knows(m) /\ Phase(at[t], m) /\ Dated(at[t], m)
  BY <1>2, KnowsAt, QueryAt
<1>4. Ready(m) /\ Dated("fill", m)
  BY <1>1, <1>3 DEF Phase
<1>5. CASE Unsupported(t, m) /\ UNCHANGED store
  BY <1>1, <1>2, <1>3, <1>5, UnsupportedIs, GoodMoves
<1>6. CASE /\ m.r.fill => Fillable(rows, m.cal.dates)
           /\ Done(t, x)
           /\ store' = store \/ store' = Published(store, m)
  <2>1. a = Trimmed(m.r, Complete(m))
    BY DEF Complete
  <2> HIDE DEF a
  <2>2. x.r = m.r /\ x.then = m.then /\ x.known = m.known /\ x.answer = a
    OBVIOUS
  <2> HIDE DEF x
  <2>3. Current(x, bar) /\ Factored(x, events)
    BY <1>3, <1>4, <1>6, <2>1, <2>2, AnswerIsCurrent DEF IInv
  <2>4. Holds("done", x, clock, bar, events, morning)
    BY <2>3 DEF Holds
  <2>5. StoreInv'
    BY <1>1, <1>3, <1>6, PublishedIs DEF StoreInv, IInv
  <2> QED BY <1>1, <1>2, <1>6, <2>4, <2>5, DoneMoves
<1> QED BY <1>1, <1>5, <1>6

-----------------------------------------------------------------------------
(* The calendar. *)

LEMMA LeftIs ==
    ASSUME NEW ps, PartsOK(ps)
    PROVE  /\ Head(ps) \in AskedParts /\ Tail(ps) \in Seq(AskedParts)
           /\ Left(ps) = Window(Head(ps).lo, Head(ps).hi) \cup Left(Tail(ps))
           /\ Head(ps) = ps[1] /\ (Head(ps).bounded => Head(ps).count = None)
           /\ \A i \in 1..Len(Tail(ps)) : i + 1 \in 1..Len(ps) /\ Tail(ps)[i] = ps[i + 1]
           /\ Tail(ps) # <<>> => PartsOK(Tail(ps))
           /\ Tail(ps) = <<>> => Left(Tail(ps)) = {}
<1> DEFINE q == Tail(ps)
<1>1. ps \in Seq(AskedParts) /\ ps # <<>> /\ Len(ps) \in Nat \ {0}
  BY DEF PartsOK
<1>2. Head(ps) = ps[1] /\ Head(ps) \in AskedParts /\ q \in Seq(AskedParts) /\ Len(q) = Len(ps) - 1
  BY <1>1
<1>3. ASSUME NEW i \in 1..Len(q) PROVE i + 1 \in 1..Len(ps) /\ q[i] = ps[i + 1]
  BY <1>1, <1>2, <1>3
<1>4. Left(ps) = Window(Head(ps).lo, Head(ps).hi) \cup Left(q)
  <2>1. ASSUME NEW d \in Left(ps) PROVE d \in Window(Head(ps).lo, Head(ps).hi) \cup Left(q)
    <3>1. d \in Days
      BY <2>1 DEF Left
    <3>2. PICK i \in 1..Len(ps) : d \in Window(ps[i].lo, ps[i].hi)
      BY <2>1 DEF Left
    <3>3. CASE i = 1
      BY <1>2, <3>2, <3>3
    <3>4. CASE i # 1
      <4>1. i - 1 \in 1..Len(q) /\ (i - 1) + 1 = i
        BY <1>1, <1>2, <3>4
      <4>2. q[i - 1] = ps[i]
        BY <1>3, <4>1
      <4> HIDE DEF q
      <4> QED BY <3>1, <3>2, <4>1, <4>2 DEF Left
    <3> QED BY <3>3, <3>4
  <2>2. Window(Head(ps).lo, Head(ps).hi) \subseteq Left(ps)
    <3>1. 1 \in 1..Len(ps)
      BY <1>1
    <3> QED BY <1>2, <3>1, WindowsAreDays DEF Left
  <2>3. ASSUME NEW d \in Left(q) PROVE d \in Left(ps)
    <3> HIDE DEF q
    <3>1. d \in Days
      BY <2>3 DEF Left
    <3>2. PICK i \in 1..Len(q) : d \in Window(q[i].lo, q[i].hi)
      BY <2>3 DEF Left
    <3> QED BY <1>3, <3>1, <3>2 DEF Left
  <2> QED BY <2>1, <2>2, <2>3
<1>5. Head(ps).bounded => Head(ps).count = None
  <2>1. 1 \in 1..Len(ps)
    BY <1>1
  <2> QED BY <1>2, <2>1 DEF PartsOK
<1> HIDE DEF q
<1>6. q # <<>> => PartsOK(q)
  BY <1>2, <1>3 DEF PartsOK
<1>7. q = <<>> => Left(q) = {}
  BY DEF Left
<1> QED BY <1>2, <1>3, <1>4, <1>5, <1>6, <1>7 DEF q

\* A question for dates, and the windows it is asked in.
Questions == [lo : Int, hi : Int, count : Counts, refresh : BOOLEAN, bounded : BOOLEAN]

LEMMA PartsIs ==
    ASSUME NEW c \in Questions, c.bounded => c.count = None, NEW ctx \in Nat, NEW ps, ps = Parts(c, ctx)
    PROVE  /\ PartsOK(ps) /\ \A i \in 1..Len(ps) : ps[i].count = c.count
           /\ Left(ps) = Window(c.lo, c.hi)
<1> DEFINE whole == [lo |-> c.lo, hi |-> c.hi, count |-> c.count, bounded |-> c.bounded, tail |-> FALSE]
           split == LiveSplit(c.lo, c.hi, Day(ctx), DatesProvenAt(ctx))
           p == [whole EXCEPT !.hi = split[1], !.bounded = TRUE]
           q == [whole EXCEPT !.lo = split[2], !.bounded = TRUE, !.tail = TRUE]
<1>1. c.lo \in Int /\ c.hi \in Int /\ c.count \in Counts /\ c.bounded \in BOOLEAN
  BY DEF Questions
<1>2. whole \in AskedParts /\ whole.count = c.count /\ whole.lo = c.lo /\ whole.hi = c.hi
      /\ whole.bounded = c.bounded
  BY <1>1 DEF AskedParts
<1>3. DatesProvenAt(ctx) \subseteq Days
  BY DEF DatesProvenAt
<1>4. \/ split[1] = None
      \/ split[1] = c.hi /\ split[2] = None /\ c.hi # Day(ctx)
      \/ split[1] \in Int /\ c.lo <= split[1] /\ split[1] <= c.hi - 1 /\ split[2] = split[1] + 1
  BY <1>1, <1>3, SplitIs
<1>5. \/ ps = <<whole>>
      \/ /\ c.count = None /\ c.hi = Day(ctx) /\ split[1] # None /\ ps = <<p, q>>
  BY DEF Parts
<1> HIDE DEF split, whole
<1>6. CASE ps = <<whole>>
  <2>1. Len(ps) = 1 /\ ps[1] = whole /\ ps \in Seq(AskedParts) /\ ps # <<>>
    BY <1>2, <1>6
  <2>2. \A i \in 1..Len(ps) : ps[i] = whole
    BY <2>1
  <2>3. Left(ps) = Window(c.lo, c.hi)
    <3>1. 1 \in 1..Len(ps)
      BY <2>1
    <3>2. \A d : (\E i \in 1..Len(ps) : d \in Window(ps[i].lo, ps[i].hi)) <=> d \in Window(c.lo, c.hi)
      BY <1>2, <2>2, <3>1
    <3> QED BY <3>2, WindowsAreDays DEF Left
  <2> QED BY <1>2, <2>1, <2>2, <2>3 DEF PartsOK
<1>7. CASE c.count = None /\ c.hi = Day(ctx) /\ split[1] # None /\ ps = <<p, q>>
  <2>1. split[1] \in Int /\ c.lo <= split[1] /\ split[1] <= c.hi - 1 /\ split[2] = split[1] + 1
    BY <1>4, <1>7
  <2>2. /\ p \in AskedParts /\ p.lo = c.lo /\ p.hi = split[1] /\ p.count = c.count
        /\ q \in AskedParts /\ q.lo = split[1] + 1 /\ q.hi = c.hi /\ q.count = c.count
    <3> DEFINE i == split[1]
               j == split[2]
               f == [whole EXCEPT !.hi = i, !.bounded = TRUE]
               g == [whole EXCEPT !.lo = j, !.bounded = TRUE, !.tail = TRUE]
    <3>1. p = f /\ q = g /\ i \in Int /\ j \in Int /\ j = i + 1
      BY <2>1
    <3> HIDE DEF i, j, p, q
    <3>2. f \in AskedParts /\ f.lo = whole.lo /\ f.hi = i /\ f.count = whole.count
      BY <1>2, <3>1 DEF AskedParts
    <3>3. g \in AskedParts /\ g.lo = j /\ g.hi = whole.hi /\ g.count = whole.count
      BY <1>2, <3>1 DEF AskedParts
    <3> QED BY <1>2, <3>1, <3>2, <3>3 DEF i
  <2> HIDE DEF p, q
  <2>3. Len(ps) = 2 /\ ps[1] = p /\ ps[2] = q /\ ps \in Seq(AskedParts) /\ ps # <<>>
    BY <1>7, <2>2
  <2>4. \A i \in 1..Len(ps) : ps[i] = p \/ ps[i] = q
    BY <2>3
  <2>5. \A i \in 1..Len(ps) : ps[i].count = None
    BY <1>7, <2>2, <2>4
  <2>6. 1 \in 1..Len(ps) /\ 2 \in 1..Len(ps)
    BY <2>3
  <2>7. \A d : (\E i \in 1..Len(ps) : d \in Window(ps[i].lo, ps[i].hi))
                 <=> d \in Window(c.lo, split[1]) \/ d \in Window(split[1] + 1, c.hi)
    BY <2>2, <2>3, <2>4, <2>6
  <2>8. ASSUME NEW d \in Days
        PROVE  d \in Window(c.lo, split[1]) \/ d \in Window(split[1] + 1, c.hi) <=> d \in Window(c.lo, c.hi)
    <3>1. d \in Int
      BY DaysAreNumbers
    <3> QED BY <1>1, <2>1, <3>1 DEF Window
  <2>9. Left(ps) = Window(c.lo, c.hi)
    BY <2>7, <2>8, WindowsAreDays DEF Left
  <2> QED BY <1>7, <2>3, <2>5, <2>9 DEF PartsOK
<1> QED BY <1>5, <1>6, <1>7

\* The calendar of a query after another window was answered.
Scanned(m, left, found) == [m EXCEPT !.cal = [m.cal EXCEPT !.parts = left, !.dates = found]]

LEMMA NextDates ==
    ASSUME NEW m, Base(m, clock, bar, events, morning), m.cal.back \in Backs, Phase(m.cal.back, m),
           NEW left \in Seq(AskedParts), NEW found \in SUBSET Days,
           left # <<>> => PartsOK(left) /\ \A i \in 1..Len(left) : left[i].count = None,
           found \cup (Sessions \cap Left(left)) = Sessions \cap Asked(m.cal.back, m),
           left = <<>> => Left(left) = {},
           NEW w, w = Scanned(m, left, found)
    PROVE  /\ w.cal.back = m.cal.back
           /\ left = <<>> => Queries(m.cal.back, w, clock, bar, events, morning)
           /\ left # <<>> => Queries("call dates", w, clock, bar, events, morning)
<1> DEFINE k == [m.cal EXCEPT !.parts = left, !.dates = found]
           p == m.cal.back
<1>1. m \in Memory /\ m.cal \in Calendars
  BY DEF Base, Memory
<1>2. found \in (SUBSET Days) \cup {None} /\ w = [m EXCEPT !.cal = k]
  BY DEF Scanned
<1>3. k \in Calendars /\ k.parts = left /\ k.dates = found /\ k.back = m.cal.back
  BY <1>1, <1>2 DEF Calendars
<1> HIDE DEF k
<1>4. w \in Memory /\ Same(w, m, {"cal"}) /\ w.cal = k
  BY <1>1, <1>2, <1>3 DEF Memory, Same, Fields
<1>5. Base(w, clock, bar, events, morning)
  BY <1>4, BaseKept DEF Same
<1>6. Phase(p, w) /\ Asked(p, w) = Asked(p, m)
  BY <1>4, PhaseKept
<1>7. p \in Phases
  BY DEF Backs, Phases, Splits
<1>8. ASSUME left = <<>> PROVE Queries(p, w, clock, bar, events, morning)
  <2>1. w.cal.dates = Sessions \cap Asked(p, w)
    BY <1>3, <1>4, <1>6, <1>8
  <2>2. Dated(p, w)
    BY <2>1 DEF Dated
  <2> QED BY <1>5, <1>6, <1>7, <2>2 DEF Queries
<1>9. ASSUME left # <<>> PROVE Queries("call dates", w, clock, bar, events, morning)
  <2>1. AsksDates(w)
    BY <1>3, <1>4, <1>6, <1>9 DEF AsksDates
  <2> QED BY <1>5, <2>1 DEF Queries
<1> QED BY <1>3, <1>4, <1>8, <1>9

LEMMA NextOnlyDates ==
    ASSUME NEW m, m \in DatesMemory, m.ctx <= clock, m.cal.back = "answer dates",
           NEW left \in Seq(AskedParts), NEW found \in SUBSET Days, PartsOK(left),
           NEW w, w = Scanned(m, left, found)
    PROVE  OnlyDates(w, clock)
<1> DEFINE k == [m.cal EXCEPT !.parts = left, !.dates = found]
<1>1. m.cal \in Calendars
  BY DEF DatesMemory
<1>2. found \in (SUBSET Days) \cup {None} /\ w = [m EXCEPT !.cal = k]
  BY DEF Scanned
<1>3. k \in Calendars /\ k.parts = left /\ k.dates = found /\ k.back = m.cal.back
  BY <1>1, <1>2 DEF Calendars
<1> HIDE DEF k
<1>4. w \in DatesMemory /\ w.cal = k /\ w.ctx = m.ctx
  BY <1>2, <1>3 DEF DatesMemory
<1> QED BY <1>3, <1>4 DEF OnlyDates

\* What BeginDates leaves: the windows still to ask for, and the dates found.
Begun(t, m, c, left, found) ==
    /\ my' = [my EXCEPT ![t] = Scanned(m, left, found)]
    /\ left # <<>> => PartsOK(left) /\ \A i \in 1..Len(left) : left[i].count = c.count
    /\ c.count = None => found \cup (Sessions \cap Left(left)) = Sessions \cap Window(c.lo, c.hi)
    /\ left = <<>> => Left(left) = {} /\ at' = [at EXCEPT ![t] = m.cal.back] /\ lock' = lock
    /\ left # <<>> => at' = [at EXCEPT ![t] = "call dates"] /\ lock' = [lock EXCEPT !["calendar"] = t]
Begins(t, m, c) == \E left \in Seq(AskedParts), found \in SUBSET Days : Begun(t, m, c, left, found)

\* The first window, which the store may answer.
LEMMA BeginDatesIs ==
    ASSUME StoreInv, NEW t, NEW m, m.ctx \in Nat, NEW c \in Questions, c.bounded => c.count = None,
           BeginDates(t, m, c)
    PROVE  Begins(t, m, c)
<1> DEFINE parts == Parts(c, m.ctx)
           first == Window(parts[1].lo, parts[1].hi)
           hit == ~c.refresh /\ parts[1].lo # 0 /\ first \subseteq DatesProvenAt(m.ctx)
           left == IF hit THEN Tail(parts) ELSE parts
           found == IF ~hit THEN {}
                    ELSE IF c.count # None THEN LastOf(store.dates \cap first, c.count)
                    ELSE store.dates \cap first
<1>1. /\ my' = [my EXCEPT ![t] = [m EXCEPT !.cal.parts = left, !.cal.dates = found]]
      /\ at' = [at EXCEPT ![t] = IF left = <<>> THEN m.cal.back ELSE "call dates"]
      /\ lock' = IF left = <<>> THEN lock ELSE [lock EXCEPT !["calendar"] = t]
  BY DEF BeginDates
<1>2. PartsOK(parts) /\ (\A i \in 1..Len(parts) : parts[i].count = c.count)
      /\ Left(parts) = Window(c.lo, c.hi)
  BY PartsIs
<1> HIDE DEF parts
<1>3. /\ parts \in Seq(AskedParts) /\ parts # <<>> /\ Head(parts) = parts[1]
      /\ Tail(parts) \in Seq(AskedParts)
      /\ Left(parts) = first \cup Left(Tail(parts))
      /\ \A i \in 1..Len(Tail(parts)) : i + 1 \in 1..Len(parts) /\ Tail(parts)[i] = parts[i + 1]
      /\ Tail(parts) # <<>> => PartsOK(Tail(parts))
      /\ Tail(parts) = <<>> => Left(Tail(parts)) = {}
  BY <1>2, LeftIs DEF PartsOK
<1>4. first \subseteq Days /\ store.dates \subseteq Days
  BY WindowsAreDays DEF StoreInv, StoreTypes
<1> HIDE DEF first
<1>5. hit => store.dates \cap first = Sessions \cap first
  BY <1>4 DEF DatesProvenAt, ValidForever, StoreInv, StoredBars
<1> HIDE DEF hit
<1>6. found \in SUBSET Days
  <2>1. LastOf(store.dates \cap first, c.count) \subseteq store.dates
    BY DEF LastOf
  <2> QED BY <1>4, <2>1
<1>7. c.count = None => found \cup (Sessions \cap Left(left)) = Sessions \cap Window(c.lo, c.hi)
  <2>1. CASE hit
    BY <1>2, <1>3, <1>5, <2>1
  <2>2. CASE ~hit
    BY <1>2, <2>2
  <2> QED BY <2>1, <2>2
<1>8. left \in Seq(AskedParts)
      /\ (left # <<>> => PartsOK(left) /\ \A i \in 1..Len(left) : left[i].count = c.count)
      /\ (left = <<>> => Left(left) = {})
  <2>1. CASE hit
    <3>1. left = Tail(parts)
      BY <2>1
    <3> HIDE DEF left
    <3> QED BY <1>2, <1>3, <3>1
  <2>2. CASE ~hit
    BY <1>2, <1>3, <2>2
  <2> QED BY <2>1, <2>2
<1> HIDE DEF left, found
<1>9. [m EXCEPT !.cal.parts = left, !.cal.dates = found] = Scanned(m, left, found)
  BY DEF Scanned
<1>10. Begun(t, m, c, left, found)
  BY <1>1, <1>7, <1>8, <1>9 DEF Begun
<1> QED BY <1>6, <1>8, <1>10 DEF Begins

LEMMA EndsMoves ==
    ASSUME IInv, NEW t \in Threads, at[t] \notin ListSteps \cup {"done"}, Ends(t),
           UNCHANGED <<clock, attests, bar, events, morning, store>>, Elsewhere
    PROVE  IInv'
<1>1. at' = [at EXCEPT ![t] = "done"] /\ my' = [my EXCEPT ![t] = Idle]
      /\ lock' = Leaving(t, {"security", "calendar"})
  BY DEF Ends, Done
<1>2. Holds("done", Idle, clock, bar, events, morning) /\ "done" \notin ListSteps
  BY DEF Holds, ListSteps
<1>3. ~Secure("done", Idle)
  BY DEF Secure, Phases, Opening, Splits
<1>4. DOMAIN lock' = Locks /\ \A u \in Threads : u # t /\ lock["security"] = u => lock'["security"] = u
  BY <1>1, LeavingIs
<1>5. StoreInv'
  BY StoreStays DEF IInv
<1> QED BY <1>1, <1>2, <1>3, <1>4, <1>5, ThreadMoves DEF Elsewhere

\* A query that reads dates moves on, with the calendar's lock or without it.
LEMMA DatesMove ==
    ASSUME IInv, NEW t \in Threads, at[t] \in {"idle", "dates", "call dates"},
           NEW s \in Backs \cup {"call dates", "answer dates"}, NEW m,
           at' = [at EXCEPT ![t] = s], my' = [my EXCEPT ![t] = m],
           Holds(s, m, clock, bar, events, morning),
           m.cal.back \in Backs => lock["security"] = t,
           s \in Backs => m.cal.back \in Backs,
           \/ lock' = lock \/ lock' = [lock EXCEPT !["calendar"] = t] \/ lock' = Leaving(t, {"calendar"}),
           StoreInv', store'.rights = store.rights, store'.checked = store.checked,
           UNCHANGED <<clock, attests, bar, events, morning>>, Elsewhere
    PROVE  IInv'
<1>1. at[t] \notin ListSteps \cup {"done"} /\ s \notin ListSteps /\ s # "events"
  BY DEF ListSteps, Backs
<1>2. DOMAIN lock' = Locks /\ lock'["security"] = lock["security"]
  BY DEF IInv, TypeInv, Locks, Leaving
<1>3. Secure(s, m) => lock'["security"] = t
  BY <1>2 DEF Secure, Phases, Opening, Splits
<1> QED BY <1>1, <1>2, <1>3, ThreadMoves DEF Elsewhere

LEMMA TakeDatesKeeps == ASSUME IInv, NEW t \in Threads, TakeDates(t), Elsewhere PROVE IInv'
<1> DEFINE k == [NoCalendar EXCEPT !.back = "answer dates"]
           m(r) == [r |-> r, ctx |-> clock, cal |-> k]
           c(r) == [lo |-> Start(r), hi |-> IF r.end = None THEN Day(clock) ELSE r.end,
                    count |-> r.count, refresh |-> r.refresh,
                    bounded |-> r.start # None /\ r.end # None /\ r.count = None]
<1>1. at[t] = "idle" /\ UNCHANGED <<clock, attests, bar, events, morning, store>>
  BY DEF TakeDates, source
<1>2. PICK r \in CalendarQueries : IF c(r).hi > Day(clock) THEN Ends(t) ELSE BeginDates(t, m(r), c(r))
  BY DEF TakeDates
<1>3. k \in Calendars /\ k.back = "answer dates"
  <2>1. "answer dates" \in Backs \cup {"none", "answer dates"}
    OBVIOUS
  <2> QED BY <2>1, CalendarIs DEF Calendars
<1> HIDE DEF k
<1>4. clock \in Nat /\ Day(clock) \in Int
  <2>1. clock \in Nat /\ clock <= clock
    BY DEF IInv, TypeInv
  <2> QED BY <2>1, DayIsMonotone
<1>5. r \in [start : Days \cup {None}, end : Days \cup {None}, count : (Nat \ {0}) \cup {None},
             refresh : BOOLEAN]
  BY QueriesAssumption
<1>6. c(r) \in Questions /\ (c(r).bounded => c(r).count = None)
  <2> DEFINE hi == IF r.end = None THEN Day(clock) ELSE r.end
             b == r.start # None /\ r.end # None /\ r.count = None
             x == [lo |-> Start(r), hi |-> hi, count |-> r.count, refresh |-> r.refresh, bounded |-> b]
  <2>1. Start(r) \in Int /\ hi \in Int
    <3>1. r.start \in Days \cup {None} /\ r.end \in Days \cup {None}
      BY <1>5
    <3>2. r.start # None => r.start \in Int
      BY <3>1, DaysAreNumbers
    <3>3. r.end # None => r.end \in Int
      BY <3>1, DaysAreNumbers
    <3>4. Start(r) \in Int
      BY <3>2 DEF Start
    <3> QED BY <1>4, <3>3, <3>4
  <2>2. r.count \in Counts /\ r.refresh \in BOOLEAN /\ b \in BOOLEAN /\ (b => r.count = None)
    BY <1>5 DEF Counts
  <2> HIDE DEF hi, b
  <2>3. x \in Questions /\ (x.bounded => x.count = None)
    BY <2>1, <2>2 DEF Questions
  <2> QED BY <2>3 DEF hi, b
<1>7. m(r) \in DatesMemory /\ m(r).ctx = clock /\ m(r).cal = k
  BY <1>3, <1>4 DEF DatesMemory
<1> HIDE DEF m, c
<1>8. CASE Ends(t)
  <2>1. at[t] \notin ListSteps \cup {"done"}
    BY <1>1 DEF ListSteps
  <2> QED BY <1>1, <1>8, <2>1, EndsMoves
<1>9. CASE BeginDates(t, m(r), c(r))
  <2>0. PICK left \in Seq(AskedParts), found \in SUBSET Days : Begun(t, m(r), c(r), left, found)
    <3>1. StoreInv /\ m(r).ctx \in Nat
      BY <1>4, <1>7 DEF IInv
    <3>2. Begins(t, m(r), c(r))
      BY <1>6, <1>9, <3>1, BeginDatesIs
    <3> QED BY <3>2 DEF Begins
  <2>1. /\ my' = [my EXCEPT ![t] = Scanned(m(r), left, found)]
        /\ left # <<>> => PartsOK(left)
        /\ left = <<>> => at' = [at EXCEPT ![t] = m(r).cal.back] /\ lock' = lock
        /\ left # <<>> => at' = [at EXCEPT ![t] = "call dates"] /\ lock' = [lock EXCEPT !["calendar"] = t]
    BY <2>0 DEF Begun
  <2> DEFINE w == Scanned(m(r), left, found)
  <2>2. w.cal.back = "answer dates"
    <3>1. m(r).cal \in Calendars /\ m(r).cal.back = "answer dates"
      BY <1>3, <1>7
    <3>2. w = [m(r) EXCEPT !.cal = [m(r).cal EXCEPT !.parts = left, !.dates = found]]
      BY DEF Scanned
    <3> QED BY <1>7, <3>1, <3>2 DEF DatesMemory, Calendars
  <2>3. left # <<>> => OnlyDates(w, clock)
    <3>1. m(r) \in DatesMemory /\ m(r).ctx <= clock /\ m(r).cal.back = "answer dates"
      <4>1. m(r) \in DatesMemory /\ m(r).ctx = clock /\ m(r).cal.back = "answer dates"
        BY <1>3, <1>7
      <4>2. clock <= clock
        BY <1>4
      <4> QED BY <4>1, <4>2
    <3> QED BY <2>1, <3>1, NextOnlyDates
  <2> HIDE DEF w
  <2> DEFINE s == IF left = <<>> THEN "answer dates" ELSE "call dates"
  <2>4. at' = [at EXCEPT ![t] = s] /\ my' = [my EXCEPT ![t] = w]
        /\ (lock' = lock \/ lock' = [lock EXCEPT !["calendar"] = t])
    BY <1>3, <1>7, <2>1 DEF w
  <2>5. Holds(s, w, clock, bar, events, morning)
    BY <2>3 DEF Holds
  <2>6. s \in {"call dates", "answer dates"} /\ s \notin Backs /\ w.cal.back \notin Backs
    BY <2>2 DEF Backs
  <2>7. StoreInv'
    BY <1>1, StoreStays DEF IInv
  <2> HIDE DEF s
  <2> QED BY <1>1, <2>4, <2>5, <2>6, <2>7, DatesMove
<1> QED BY <1>2, <1>8, <1>9

LEMMA ReadDatesKeeps == ASSUME IInv, NEW t \in Threads, ReadDates(t), Elsewhere PROVE IInv'
<1> DEFINE m == my[t]
           c == [lo |-> m.cal.lo, hi |-> m.cal.hi, count |-> None, refresh |-> FALSE, bounded |-> TRUE]
           p == m.cal.back
<1>1. at[t] = "dates" /\ UNCHANGED <<clock, attests, bar, events, morning, store>> /\ BeginDates(t, m, c)
  BY DEF ReadDates, source
<1>2. Base(m, clock, bar, events, morning) /\ ReadsDates(m)
  <2>1. Holds(at[t], m, clock, bar, events, morning)
    BY DEF IInv, ThreadInv
  <2>2. "dates" \notin {"idle", "done", "answer dates", "call dates", "call dividends"} \cup ListSteps \cup Phases
    BY DEF ListSteps, Phases, Opening, Splits
  <2> QED BY <1>1, <2>1, <2>2 DEF Holds, Queries
<1>3. m \in Memory /\ m.cal \in Calendars /\ m.ctx \in Nat /\ p \in Backs /\ Phase(p, m)
      /\ Window(m.cal.lo, m.cal.hi) = Asked(p, m)
  BY <1>2 DEF Base, Memory, ReadsDates
<1>4. lock["security"] = t
  BY <1>1, <1>3 DEF IInv, LockInv, Secure
<1>5. c \in Questions /\ c.bounded /\ c.count = None /\ c.lo = m.cal.lo /\ c.hi = m.cal.hi
  BY <1>3 DEF Questions, Calendars, Counts
<1> HIDE DEF c
<1>6. PICK left \in Seq(AskedParts), found \in SUBSET Days : Begun(t, m, c, left, found)
  <2>1. StoreInv
    BY DEF IInv
  <2>2. Begins(t, m, c)
    BY <1>1, <1>3, <1>5, <2>1, BeginDatesIs
  <2> QED BY <2>2 DEF Begins
<1> DEFINE w == Scanned(m, left, found)
<1>7. /\ w.cal.back = p
      /\ left = <<>> => Queries(p, w, clock, bar, events, morning)
      /\ left # <<>> => Queries("call dates", w, clock, bar, events, morning)
  <2>1. /\ left # <<>> => PartsOK(left) /\ \A i \in 1..Len(left) : left[i].count = None
        /\ found \cup (Sessions \cap Left(left)) = Sessions \cap Asked(p, m)
        /\ left = <<>> => Left(left) = {}
    BY <1>3, <1>5, <1>6 DEF Begun
  <2> QED BY <1>2, <1>3, <2>1, NextDates
<1> HIDE DEF w
<1> DEFINE s == IF left = <<>> THEN p ELSE "call dates"
<1>8. at' = [at EXCEPT ![t] = s] /\ my' = [my EXCEPT ![t] = w]
      /\ (lock' = lock \/ lock' = [lock EXCEPT !["calendar"] = t])
  BY <1>6 DEF Begun, w
<1>9. Holds(s, w, clock, bar, events, morning)
  BY <1>7 DEF Holds
<1>10. s \in Backs \cup {"call dates", "answer dates"} /\ w.cal.back \in Backs
  BY <1>3, <1>7
<1>11. StoreInv'
  BY <1>1, StoreStays DEF IInv
<1> HIDE DEF s
<1> QED BY <1>1, <1>4, <1>8, <1>9, <1>10, <1>11, DatesMove

LEMMA AnswerDatesKeeps == ASSUME IInv, NEW t \in Threads, AnswerDates(t), Elsewhere PROVE IInv'
<1>1. at[t] \notin ListSteps \cup {"done"} /\ Ends(t)
      /\ UNCHANGED <<clock, attests, bar, events, morning, store>>
  BY DEF AnswerDates, source, ListSteps
<1> QED BY <1>1, EndsMoves

\* What is known of a query that asks for dates.
LEMMA AtCallDates ==
    ASSUME IInv, NEW t \in Threads, at[t] = "call dates"
    PROVE  \/ OnlyDates(my[t], clock)
           \/ Base(my[t], clock, bar, events, morning) /\ AsksDates(my[t]) /\ lock["security"] = t
<1>1. Holds(at[t], my[t], clock, bar, events, morning)
  BY DEF IInv, ThreadInv
<1>2. "call dates" \notin {"idle", "done", "answer dates", "dates", "call dividends"} \cup ListSteps \cup Phases
  BY DEF ListSteps, Phases, Opening, Splits
<1>3. AsksDates(my[t]) => lock["security"] = t
  BY DEF IInv, LockInv, Secure, AsksDates
<1> QED BY <1>1, <1>2, <1>3 DEF Holds, Queries

LEMMA DatesFailKeeps == ASSUME IInv, NEW t \in Threads, DatesFail(t), Elsewhere PROVE IInv'
<1> DEFINE m == my[t]
           p == m.cal.back
           k == [m.cal EXCEPT !.dates = None]
           w == [m EXCEPT !.cal = k]
<1>1. at[t] = "call dates" /\ UNCHANGED <<clock, attests, bar, events, morning, store>>
      /\ \/ /\ p \in {"tail", "gap", "raw", "front"}
            /\ my' = [my EXCEPT ![t] = w] /\ at' = [at EXCEPT ![t] = p] /\ lock' = Leaving(t, {"calendar"})
         \/ Ends(t)
  BY DEF DatesFail, source
<1>2. CASE Ends(t)
  <2>1. at[t] \notin ListSteps \cup {"done"}
    BY <1>1 DEF ListSteps
  <2> QED BY <1>1, <1>2, <2>1, EndsMoves
<1>3. CASE /\ p \in {"tail", "gap", "raw", "front"}
           /\ my' = [my EXCEPT ![t] = w] /\ at' = [at EXCEPT ![t] = p] /\ lock' = Leaving(t, {"calendar"})
  <2>1. p \in Backs /\ p # "fill" /\ p \in Phases
    BY <1>3 DEF Backs, Phases, Splits
  <2>2. Base(m, clock, bar, events, morning) /\ AsksDates(m) /\ lock["security"] = t
    BY <1>1, <1>3, AtCallDates DEF OnlyDates
  <2>3. m \in Memory /\ m.cal \in Calendars
    BY <2>2 DEF Base, Memory
  <2>4. k \in Calendars /\ k.dates = None /\ k.back = p
    BY <2>3 DEF Calendars
  <2> HIDE DEF k
  <2>5. w \in Memory /\ Same(w, m, {"cal"}) /\ w.cal = k
    BY <2>3, <2>4 DEF Memory, Same, Fields
  <2> HIDE DEF w
  <2>6. Base(w, clock, bar, events, morning)
    BY <2>2, <2>5, BaseKept DEF Same
  <2>7. Phase(p, w)
    BY <2>1, <2>2, <2>5, PhaseKept DEF AsksDates
  <2>8. Dated(p, w)
    BY <2>1, <2>4, <2>5 DEF Dated
  <2>9. Holds(p, w, clock, bar, events, morning)
    BY <2>1, <2>6, <2>7, <2>8 DEF Holds, Queries
  <2>10. StoreInv'
    BY <1>1, StoreStays DEF IInv
  <2>11. w.cal.back \in Backs
    BY <2>1, <2>4, <2>5
  <2> QED BY <1>1, <1>3, <2>1, <2>2, <2>9, <2>10, <2>11, DatesMove
<1> QED BY <1>1, <1>2, <1>3

LEMMA DatesWritten ==
    ASSUME clock \in Nat, NEW s \in StoreTypes, StoredBars(s, clock, bar), NEW lo \in Int, NEW hi \in Int,
           NEW rows, rows \subseteq Window(lo, hi), NEW reusable \in BOOLEAN, NEW ctx \in Nat,
           reusable => hi < Day(clock) /\ rows = Sessions \cap Window(lo, hi),
           NEW x, x = WithDates(s, rows, lo, hi, reusable, ctx)
    PROVE  x \in StoreTypes /\ StoredBars(x, clock, bar) /\ x.rights = s.rights /\ x.checked = s.checked
<1> DEFINE W == Window(lo, hi)
           D == rows \cup IF reusable THEN s.dates \ W ELSE s.dates
           f == [d \in Days |-> IF d \notin W THEN s.since[d] ELSE IF reusable THEN ctx ELSE None]
<1>1. x = [s EXCEPT !.dates = D, !.since = f]
  BY DEF WithDates
<1>2. W \subseteq Days /\ rows \subseteq W
  BY WindowsAreDays
<1>3. \A d \in W : d \in Int /\ d <= hi
  BY DaysAreNumbers DEF Window
<1>4. Day(clock) \in Int
  <2>1. clock <= clock
    OBVIOUS
  <2> QED BY <2>1, DayIsMonotone
<1> HIDE DEF W
<1>5. s.since \in [Days -> Int \cup {None}] /\ s.dates \subseteq Days
  BY DEF StoreTypes
<1>6. f \in [Days -> Int \cup {None}] /\ D \in SUBSET Days
  BY <1>2, <1>5
<1>7. \A d \in Days : f[d] # None => d < Day(clock) /\ (d \in D <=> d \in Sessions)
  <2> SUFFICES ASSUME NEW d \in Days, f[d] # None PROVE d < Day(clock) /\ (d \in D <=> d \in Sessions)
    OBVIOUS
  <2>1. CASE d \in W
    <3>1. reusable
      BY <2>1
    <3>2. d < Day(clock)
      BY <1>3, <1>4, <2>1, <3>1
    <3>3. d \in D <=> d \in Sessions
      BY <2>1, <3>1 DEF W
    <3> QED BY <3>2, <3>3
  <2>2. CASE d \notin W
    <3>1. s.since[d] # None
      BY <2>2
    <3>2. d < Day(clock) /\ (d \in s.dates <=> d \in Sessions)
      BY <3>1 DEF StoredBars
    <3> QED BY <1>2, <2>2, <3>2
  <2> QED BY <2>1, <2>2
<1> HIDE DEF D, f
<1>8. x \in StoreTypes /\ x.rights = s.rights /\ x.checked = s.checked /\ x.bars = s.bars
      /\ x.proven = s.proven /\ x.dates = D /\ x.since = f
  BY <1>1, <1>6 DEF StoreTypes
<1>9. StoredBars(x, clock, bar)
  BY <1>7, <1>8 DEF StoredBars
<1> QED BY <1>8, <1>9

LEMMA CallDatesKeeps == ASSUME IInv, NEW t \in Threads, CallDates(t), Elsewhere PROVE IInv'
<1> DEFINE m == my[t]
           p == Head(m.cal.parts)
           rows == SessionsOf(p)
           before == {d \in rows : d < Today(m)}
           hi == IF ~p.tail THEN ClosedEnd(p.hi, Today(m))
                 ELSE IF before = {} THEN 0 ELSE Highest(before)
           closed == rows \cap Window(p.lo, hi)
           reusable == p.bounded /\ Finished(hi) /\ closed # {}
           left == Tail(m.cal.parts)
           found == m.cal.dates \cup rows
           w == Scanned(m, left, found)
<1>1. /\ at[t] = "call dates" /\ UNCHANGED <<clock, attests, bar, events, morning>>
      /\ my' = [my EXCEPT ![t] = w]
      /\ at' = [at EXCEPT ![t] = IF left = <<>> THEN m.cal.back ELSE "call dates"]
      /\ lock' = IF left = <<>> THEN Leaving(t, {"calendar"}) ELSE lock
      /\ store' = store \/ store' = WithDates(store, closed, p.lo, hi, reusable, m.ctx)
  <2>1. my' = [my EXCEPT ![t].cal.parts = left, ![t].cal.dates = @ \cup rows]
    BY DEF CallDates
  <2>2. [my EXCEPT ![t].cal.parts = left, ![t].cal.dates = @ \cup rows] = [my EXCEPT ![t] = w]
    BY DEF Scanned
  <2> HIDE DEF w
  <2> QED BY <2>1, <2>2 DEF CallDates, source
<1>2. \/ OnlyDates(m, clock)
      \/ Base(m, clock, bar, events, morning) /\ AsksDates(m) /\ lock["security"] = t
  BY <1>1, AtCallDates
<1>3. m.cal \in Calendars /\ m.ctx \in Nat /\ PartsOK(m.cal.parts) /\ m.cal.dates \in SUBSET Days
  BY <1>2 DEF OnlyDates, DatesMemory, Base, Memory, AsksDates
<1>4. /\ p \in AskedParts /\ left \in Seq(AskedParts)
      /\ Left(m.cal.parts) = Window(p.lo, p.hi) \cup Left(left)
      /\ (p.bounded => p.count = None)
      /\ \A i \in 1..Len(left) : i + 1 \in 1..Len(m.cal.parts) /\ left[i] = m.cal.parts[i + 1]
      /\ left # <<>> => PartsOK(left)
      /\ left = <<>> => Left(left) = {}
  BY <1>3, LeftIs
<1>5. p = m.cal.parts[1] /\ 1 \in 1..Len(m.cal.parts)
  <2>1. m.cal.parts \in Seq(AskedParts) /\ m.cal.parts # <<>>
    BY <1>3 DEF PartsOK
  <2> QED BY <2>1
<1> HIDE DEF p, left
<1>6. p.lo \in Int /\ p.hi \in Int /\ p.count \in Counts
  BY <1>4 DEF AskedParts
<1>7. rows \subseteq Window(p.lo, p.hi) /\ (p.count = None => rows = Sessions \cap Window(p.lo, p.hi))
  BY DEF SessionsOf, LastOf
<1> HIDE DEF rows
<1>8. rows \subseteq Days /\ found \in SUBSET Days
  BY <1>3, <1>7, WindowsAreDays
<1>9. clock \in Nat /\ Today(m) \in Int
  <2>1. clock \in Nat /\ m.ctx <= m.ctx
    BY <1>3 DEF IInv, TypeInv
  <2> QED BY <1>3, <2>1, DayIsMonotone DEF Today
<1>10. before # {} => Highest(before) \in Int /\ Highest(before) <= p.hi
  <2> SUFFICES ASSUME before # {} PROVE Highest(before) \in Int /\ Highest(before) <= p.hi
    OBVIOUS
  <2>1. Highest(before) \in before
    BY <1>8, HighestIs
  <2>2. Highest(before) \in Window(p.lo, p.hi)
    BY <1>7, <2>1
  <2> QED BY <2>2, DaysAreNumbers DEF Window
<1> HIDE DEF before
<1>11. hi \in Int /\ (hi = 0 \/ hi <= p.hi)
  <2>1. ClosedEnd(p.hi, Today(m)) \in Int /\ ClosedEnd(p.hi, Today(m)) <= p.hi
    BY <1>6, <1>9, ClosedEndIs
  <2> QED BY <1>10, <2>1
<1> HIDE DEF hi
<1>12. closed \subseteq Window(p.lo, hi)
  OBVIOUS
<1>13. reusable => hi < Day(clock) /\ closed = Sessions \cap Window(p.lo, hi)
  <2> SUFFICES ASSUME reusable PROVE closed = Sessions \cap Window(p.lo, hi)
    BY DEF Finished
  <2>1. rows = Sessions \cap Window(p.lo, p.hi)
    BY <1>4, <1>7
  <2>2. ASSUME NEW d \in Window(p.lo, hi) PROVE d \in Window(p.lo, p.hi)
    <3>1. d \in Days /\ d \in Int /\ d >= 1 /\ p.lo <= d /\ d <= hi
      BY DaysAreNumbers DEF Window
    <3>2. d <= p.hi
      BY <1>6, <1>11, <3>1
    <3> QED BY <3>1, <3>2 DEF Window
  <2> QED BY <2>1, <2>2
<1>14. reusable \in BOOLEAN
  BY <1>4 DEF AskedParts, Finished
<1> HIDE DEF closed, reusable
<1>15. StoreInv' /\ store'.rights = store.rights /\ store'.checked = store.checked
  <2>1. /\ store \in StoreTypes /\ StoredBars(store, clock, bar)
        /\ StoredEvents(store, clock, events, morning)
    BY DEF IInv, StoreInv
  <2>2. CASE store' = store
    BY <1>1, <2>1, <2>2 DEF StoreInv
  <2>3. CASE store' = WithDates(store, closed, p.lo, hi, reusable, m.ctx)
    <3>1. store' \in StoreTypes /\ StoredBars(store', clock, bar)
          /\ store'.rights = store.rights /\ store'.checked = store.checked
      BY <1>3, <1>6, <1>9, <1>11, <1>12, <1>13, <1>14, <2>1, <2>3, DatesWritten
    <3>2. StoredEvents(store', clock, events, morning)
      BY <2>1, <3>1 DEF StoredEvents
    <3> QED BY <1>1, <3>1, <3>2 DEF StoreInv
  <2> QED BY <1>1, <2>2, <2>3
<1> HIDE DEF found
<1>16. CASE OnlyDates(m, clock)
  <2> DEFINE s == IF left = <<>> THEN "answer dates" ELSE "call dates"
  <2>1. m \in DatesMemory /\ m.ctx <= clock /\ m.cal.back = "answer dates"
    BY <1>16 DEF OnlyDates
  <2>2. w.cal.back = "answer dates"
    <3>1. w = [m EXCEPT !.cal = [m.cal EXCEPT !.parts = left, !.dates = found]]
      BY DEF Scanned
    <3> QED BY <1>3, <2>1, <3>1 DEF DatesMemory, Calendars
  <2>3. left # <<>> => OnlyDates(w, clock)
    BY <1>4, <1>8, <2>1, NextOnlyDates
  <2> HIDE DEF w
  <2>4. at' = [at EXCEPT ![t] = s] /\ (lock' = lock \/ lock' = Leaving(t, {"calendar"}))
    BY <1>1, <2>1
  <2>5. Holds(s, w, clock, bar, events, morning)
    BY <2>3 DEF Holds
  <2>6. s \in {"call dates", "answer dates"} /\ s \notin Backs /\ w.cal.back \notin Backs
    BY <2>2 DEF Backs
  <2> HIDE DEF s
  <2> QED BY <1>1, <1>15, <2>4, <2>5, <2>6, DatesMove
<1>17. CASE Base(m, clock, bar, events, morning) /\ AsksDates(m) /\ lock["security"] = t
  <2> DEFINE b == m.cal.back
             s == IF left = <<>> THEN b ELSE "call dates"
  <2>1. b \in Backs /\ Phase(b, m) /\ (\A i \in 1..Len(m.cal.parts) : m.cal.parts[i].count = None)
        /\ m.cal.dates \cup (Sessions \cap Left(m.cal.parts)) = Sessions \cap Asked(b, m)
    BY <1>17 DEF AsksDates
  <2>2. rows = Sessions \cap Window(p.lo, p.hi)
    BY <1>5, <1>7, <2>1
  <2>3. found \cup (Sessions \cap Left(left)) = Sessions \cap Asked(b, m)
    BY <1>4, <2>1, <2>2 DEF found
  <2>4. left # <<>> => PartsOK(left) /\ \A i \in 1..Len(left) : left[i].count = None
    BY <1>4, <2>1
  <2>5. /\ w.cal.back = b
        /\ left = <<>> => Queries(b, w, clock, bar, events, morning)
        /\ left # <<>> => Queries("call dates", w, clock, bar, events, morning)
    BY <1>4, <1>8, <1>17, <2>1, <2>3, <2>4, NextDates
  <2> HIDE DEF w
  <2>6. at' = [at EXCEPT ![t] = s] /\ (lock' = lock \/ lock' = Leaving(t, {"calendar"}))
    BY <1>1
  <2>7. Holds(s, w, clock, bar, events, morning)
    BY <2>5 DEF Holds
  <2>8. s \in Backs \cup {"call dates", "answer dates"} /\ w.cal.back \in Backs
    BY <2>1, <2>5
  <2> HIDE DEF s
  <2> QED BY <1>1, <1>15, <1>17, <2>6, <2>7, <2>8, DatesMove
<1> QED BY <1>2, <1>16, <1>17

-----------------------------------------------------------------------------
(* What is stored whole. *)

\* A step of a list query changes the locals of no other query.
LEMMA ListMoves ==
    ASSUME IInv, NEW t \in Threads, at[t] \in {"idle"} \cup ListSteps, my[t] = Idle,
           NEW s \in ListSteps \cup {"done"}, NEW w,
           at' = [at EXCEPT ![t] = s], wants' = [wants EXCEPT ![t] = w], Wish(s, w, clock),
           DOMAIN lock' = Locks,
           \A u \in Threads : u # t /\ lock["security"] = u => lock'["security"] = u,
           UNCHANGED <<clock, attests, bar, events, morning, store, my>>, DOMAIN lists' = Keys, ListsInv'
    PROVE  IInv'
<1>1. TypeInv'
  BY DEF IInv, TypeInv
<1>2. SourceInv'
  BY DEF IInv, SourceInv
<1>3. StoreInv'
  BY StoreStays DEF IInv
<1>4. /\ at'[t] = s /\ wants'[t] = w
      /\ \A u \in Threads : u # t => at'[u] = at[u] /\ wants'[u] = wants[u]
  BY DEF IInv, TypeInv
<1>5. Holds(s, Idle, clock, bar, events, morning) /\ s \notin Phases \cup {"call dividends", "dates", "call dates"}
  BY DEF Holds, ListSteps, Phases, Opening, Splits
<1>6. ThreadInv'
  <2> SUFFICES ASSUME NEW u \in Threads PROVE Holds(at'[u], my[u], clock, bar, events, morning)
    BY DEF ThreadInv
  <2>1. Holds(at[u], my[u], clock, bar, events, morning)
    BY DEF IInv, ThreadInv
  <2> QED BY <1>4, <1>5, <2>1
<1>7. LockInv'
  <2> SUFFICES ASSUME NEW u \in Threads, Secure(at'[u], my[u]) PROVE lock'["security"] = u
    BY DEF LockInv
  <2>1. u # t
    BY <1>4, <1>5 DEF Secure
  <2>2. lock["security"] = u
    BY <1>4, <2>1 DEF IInv, LockInv
  <2> QED BY <2>1, <2>2
<1>8. KnownInv'
  <2> SUFFICES ASSUME NEW u \in Threads, at'[u] = "events", store.checked # None,
                      Day(store.checked) = Day(my[u].ctx), ~my[u].r.refresh
               PROVE  my[u].known \subseteq store.rights
    BY DEF KnownInv, Day
  <2>1. u # t
    BY <1>4 DEF ListSteps
  <2> QED BY <1>4, <2>1 DEF IInv, KnownInv
<1>9. WishInv'
  <2> SUFFICES ASSUME NEW u \in Threads PROVE Wish(at'[u], wants'[u], clock)
    BY DEF WishInv
  <2>1. Wish(at[u], wants[u], clock)
    BY DEF IInv, WishInv
  <2> QED BY <1>4, <2>1
<1> QED BY <1>1, <1>2, <1>3, <1>6, <1>7, <1>8, <1>9 DEF IInv

\* What is known of a query that is served whole.
LEMMA AtList ==
    ASSUME IInv, NEW t \in Threads, at[t] \in {"idle"} \cup ListSteps
    PROVE  /\ my[t] = Idle /\ clock \in Nat /\ Wish(at[t], wants[t], clock)
           /\ UNCHANGED <<clock, lists>> => ListsInv'
<1>1. Holds(at[t], my[t], clock, bar, events, morning)
  BY DEF IInv, ThreadInv
<1>2. \A s \in {"idle"} \cup ListSteps :
        s \notin {"done", "call dividends", "answer dates", "call dates", "dates"} \cup Phases
  BY DEF ListSteps, Phases, Opening, Splits
<1>3. my[t] = Idle
  BY <1>1, <1>2 DEF Holds, Queries
<1> QED BY <1>3 DEF IInv, TypeInv, WishInv, ListsInv

LEMMA AskListKeeps == ASSUME IInv, NEW t \in Threads, AskList(t), UNCHANGED barsVars PROVE IInv'
<1> DEFINE w(r) == [r |-> r, asked |-> clock, value |-> None, started |-> None]
<1>1. /\ at[t] = "idle" /\ at' = [at EXCEPT ![t] = "read list"]
      /\ UNCHANGED <<clock, attests, bar, events, morning, store, my, lock, lists>>
  BY DEF AskList, barsVars, source
<1>2. PICK r \in ListQueries : wants' = [wants EXCEPT ![t] = w(r)]
  BY DEF AskList
<1>3. my[t] = Idle /\ clock \in Nat /\ ListsInv'
  BY <1>1, AtList
<1>4. w(r) \in Wishes /\ w(r).asked = clock
  BY <1>3 DEF Wishes
<1> HIDE DEF w
<1>5. Wish("read list", w(r), clock)
  BY <1>3, <1>4 DEF Wish, ListSteps
<1>6. DOMAIN lock' = Locks /\ DOMAIN lists' = Keys
  BY <1>1 DEF IInv, TypeInv
<1>7. "read list" \in ListSteps \cup {"done"}
  BY DEF ListSteps
<1> QED BY <1>1, <1>2, <1>3, <1>5, <1>6, <1>7, ListMoves

LEMMA ReadListKeeps == ASSUME IInv, NEW t \in Threads, ReadList(t), UNCHANGED barsVars PROVE IInv'
<1> DEFINE w == wants[t]
           key == w.r.key
<1>1. at[t] = "read list" /\ UNCHANGED <<clock, attests, bar, events, morning, store, my, lists>>
      /\ Free(LockOf(key))
  BY DEF ReadList, barsVars, source
<1>2. my[t] = Idle /\ clock \in Nat /\ ListsInv' /\ Wish("read list", w, clock)
  BY <1>1, AtList DEF ListSteps
<1>3. w \in Wishes /\ w.asked \in Nat /\ w.asked <= clock
  BY <1>2 DEF Wish, ListSteps, Wishes
<1>4. w.r \in [key : Keys, refresh : BOOLEAN] /\ key \in Keys
  BY <1>3, ListsAssumption DEF Wishes
<1>5. DOMAIN lists' = Keys
  BY <1>1 DEF IInv, TypeInv
<1>6. CASE ~w.r.refresh /\ Fresh(key, clock) /\ End(t, [w EXCEPT !.value = lists[key].value], {})
  <2> DEFINE x == [w EXCEPT !.value = lists[key].value]
  <2>1. x.r = w.r /\ x.asked = w.asked /\ x.value = lists[key].value
    BY <1>3 DEF Wishes
  <2>2. at' = [at EXCEPT ![t] = "done"] /\ wants' = [wants EXCEPT ![t] = x] /\ lock' = Leaving(t, {})
    BY <1>6 DEF End
  <2> HIDE DEF x
  <2>3. key \notin Views => Day(x.value) >= Day(x.asked)
    <3> SUFFICES ASSUME key \notin Views PROVE Day(x.value) >= Day(w.asked)
      BY <2>1
    <3> DEFINE since == lists[key].since
               value == lists[key].value
    <3>1. since # None /\ Day(since) = Day(clock)
      BY <1>6 DEF Fresh, ValidDay, ValidForever
    <3>2. since \in Nat /\ value \in Nat /\ since <= value
      BY <1>4, <3>1 DEF IInv, ListsInv
    <3> HIDE DEF since, value
    <3>3. Day(since) <= Day(value) /\ Day(since) \in Int /\ Day(value) \in Int
      BY <3>2, DayIsMonotone
    <3>4. Day(w.asked) <= Day(clock) /\ Day(w.asked) \in Int /\ Day(clock) \in Int
      <4> DEFINE i == w.asked
      <4>1. i \in Nat /\ i <= clock
        BY <1>3
      <4> HIDE DEF i
      <4>2. clock \in Nat
        BY <1>2
      <4>3. i \in Int /\ clock \in Int /\ i <= clock
        BY <4>1, <4>2
      <4>4. Day(i) <= Day(clock) /\ Day(i) \in Int /\ Day(clock) \in Int
        BY <4>3, DayIsMonotone
      <4> QED BY <4>4 DEF i
    <3>5. x.value = value
      BY <2>1 DEF value
    <3> QED BY <3>1, <3>3, <3>4, <3>5
  <2>4. Wish("done", x, clock)
    BY <1>6, <2>1, <2>3 DEF Wish, Served, ListSteps
  <2>5. DOMAIN lock' = Locks /\ \A u : u # t /\ lock["security"] = u => lock'["security"] = u
    BY <2>2, LeavingIs
  <2>6. at[t] \in {"idle"} \cup ListSteps
    BY <1>1 DEF ListSteps
  <2> QED BY <1>1, <1>2, <1>5, <2>2, <2>4, <2>5, <2>6, ListMoves
<1>7. CASE /\ lock' = [lock EXCEPT ![LockOf(key)] = t]
           /\ wants' = [wants EXCEPT ![t].started = clock]
           /\ at' = [at EXCEPT ![t] = "call list"]
  <2> DEFINE x == [w EXCEPT !.started = clock]
  <2>1. x \in Wishes /\ x.asked = w.asked /\ x.started = clock
    BY <1>2, <1>3 DEF Wishes
  <2>2. wants' = [wants EXCEPT ![t] = x]
    BY <1>7
  <2> HIDE DEF x
  <2>3. Wish("call list", x, clock)
    BY <1>2, <1>3, <2>1 DEF Wish, ListSteps
  <2>4. \A u \in Threads : lock[LockOf(key)] # u
    BY <1>1, TimeAssumption DEF Free
  <2>5. DOMAIN lock' = Locks /\ \A u \in Threads : u # t /\ lock["security"] = u => lock'["security"] = u
    <3> DEFINE l == LockOf(key)
    <3>1. lock' = [lock EXCEPT ![l] = t] /\ DOMAIN lock = Locks
      BY <1>7 DEF IInv, TypeInv
    <3>2. \A u \in Threads : lock[l] # u
      BY <2>4
    <3> HIDE DEF l
    <3>3. "security" \in Locks
      BY DEF Locks
    <3> QED BY <3>1, <3>2, <3>3
  <2>6. at[t] \in {"idle"} \cup ListSteps /\ "call list" \in ListSteps
    BY <1>1 DEF ListSteps
  <2> QED BY <1>1, <1>2, <1>5, <1>7, <2>2, <2>3, <2>5, <2>6, ListMoves
<1> QED BY <1>6, <1>7 DEF ReadList

LEMMA CallListKeeps == ASSUME IInv, NEW t \in Threads, CallList(t), UNCHANGED barsVars PROVE IInv'
<1> DEFINE w == wants[t]
           x == [w EXCEPT !.value = clock]
<1>1. at[t] = "call list" /\ UNCHANGED <<clock, attests, bar, events, morning, store, my, lists, lock>>
      /\ at' = [at EXCEPT ![t] = "write list"] /\ wants' = [wants EXCEPT ![t] = x]
  BY DEF CallList, barsVars, source
<1>2. my[t] = Idle /\ clock \in Nat /\ ListsInv' /\ Wish("call list", w, clock)
  BY <1>1, AtList DEF ListSteps
<1>3. w \in Wishes /\ w.asked <= clock /\ w.started \in Nat /\ w.asked <= w.started /\ w.started <= clock
  BY <1>2 DEF Wish, ListSteps
<1>4. x \in Wishes /\ x.asked = w.asked /\ x.started = w.started /\ x.value = clock
  BY <1>2, <1>3 DEF Wishes
<1> HIDE DEF x
<1>5. Wish("write list", x, clock)
  BY <1>2, <1>3, <1>4 DEF Wish, ListSteps
<1>6. DOMAIN lock' = Locks /\ DOMAIN lists' = Keys
  BY <1>1 DEF IInv, TypeInv
<1>7. at[t] \in {"idle"} \cup ListSteps /\ "write list" \in ListSteps
  BY <1>1 DEF ListSteps
<1> QED BY <1>1, <1>2, <1>5, <1>6, <1>7, ListMoves

LEMMA ListFailsKeeps == ASSUME IInv, NEW t \in Threads, ListFails(t), UNCHANGED barsVars PROVE IInv'
<1>1. at[t] = "call list" /\ UNCHANGED <<clock, attests, bar, events, morning, store, my, lists>>
      /\ at' = [at EXCEPT ![t] = "done"] /\ wants' = [wants EXCEPT ![t] = NoWish]
      /\ lock' = Leaving(t, Locks)
  BY DEF ListFails, barsVars, source, End
<1>2. my[t] = Idle /\ ListsInv'
  BY <1>1, AtList DEF ListSteps
<1>3. Wish("done", NoWish, clock)
  BY DEF Wish, ListSteps
<1>4. DOMAIN lock' = Locks /\ \A u : u # t /\ lock["security"] = u => lock'["security"] = u
  BY <1>1, LeavingIs
<1>5. DOMAIN lists' = Keys /\ at[t] \in {"idle"} \cup ListSteps
  BY <1>1 DEF IInv, TypeInv, ListSteps
<1> QED BY <1>1, <1>2, <1>3, <1>4, <1>5, ListMoves

LEMMA WriteListKeeps == ASSUME IInv, NEW t \in Threads, WriteList(t), UNCHANGED barsVars PROVE IInv'
<1> DEFINE w == wants[t]
           key == w.r.key
           known == IF key \in Views /\ ~FinancialsAttested THEN None ELSE Stamp(w)
           value(k) == IF k = key THEN [value |-> w.value, since |-> known]
                       ELSE IF {k, key} = Views THEN Nothing ELSE lists[k]
           written == [k \in Keys |-> value(k)]
<1>1. at[t] = "write list" /\ UNCHANGED <<clock, attests, bar, events, morning, store, my>>
      /\ at' = [at EXCEPT ![t] = "done"] /\ wants' = [wants EXCEPT ![t] = w]
      /\ lock' = Leaving(t, Locks) /\ (lists' = written \/ lists' = lists)
  BY DEF WriteList, barsVars, source, End
<1>2. my[t] = Idle /\ clock \in Nat /\ Wish("write list", w, clock)
  BY <1>1, AtList DEF ListSteps
<1>3. w \in Wishes /\ w.asked \in Nat /\ w.started \in Nat /\ w.asked <= w.started
      /\ w.value \in Nat /\ w.started <= w.value /\ w.value <= clock
  BY <1>2 DEF Wish, ListSteps, Wishes
<1>4. Day(w.asked) <= Day(w.value) /\ w.asked <= w.value /\ Day(w.asked) \in Int /\ Day(w.value) \in Int
  <2>1. w.asked <= w.value
    BY <1>3
  <2> QED BY <1>3, <2>1, DayIsMonotone
<1>5. Wish("done", w, clock)
  BY <1>3, <1>4 DEF Wish, Served, ListSteps
<1>6. DOMAIN lists' = Keys /\ ListsInv'
  <2>1. DOMAIN lists = Keys /\ ListsInv
    BY DEF IInv, TypeInv
  <2>2. CASE lists' = lists
    BY <1>1, <2>1, <2>2 DEF ListsInv
  <2>3. CASE lists' = written
    <3>1. ASSUME NEW k \in Keys, value(k).since # None
          PROVE  value(k).since \in Nat /\ value(k).value \in Nat /\ value(k).since <= value(k).value
                 /\ value(k).value <= clock
      <4>1. CASE k = key
        BY <1>2, <1>3, <3>1, <4>1 DEF Stamp
      <4>2. CASE k # key
        BY <2>1, <3>1, <4>2 DEF Nothing, ListsInv
      <4> QED BY <4>1, <4>2
    <3> HIDE DEF value
    <3>2. \A k \in Keys : lists'[k] = value(k)
      BY <2>3
    <3> QED BY <1>1, <2>3, <3>1, <3>2 DEF ListsInv
  <2> QED BY <1>1, <2>2, <2>3
<1>7. DOMAIN lock' = Locks /\ \A u : u # t /\ lock["security"] = u => lock'["security"] = u
  BY <1>1, LeavingIs
<1>8. at[t] \in {"idle"} \cup ListSteps
  BY <1>1 DEF ListSteps
<1> QED BY <1>1, <1>2, <1>5, <1>6, <1>7, <1>8, ListMoves

-----------------------------------------------------------------------------
(* The source moves on and time passes. *)

LEMMA SourceMoves ==
    ASSUME IInv, clock' \in Nat, clock <= clock', bar' \in [Days -> 0..2], \A d \in Days : bar[d] <= bar'[d],
           events \subseteq events', Day(clock) = Day(clock') => morning' = morning,
           SourceInv', StoredEvents(store, clock', events', morning'),
           UNCHANGED <<at, lock, store, my, lists, wants>>
    PROVE  IInv'
<1>1. clock \in Nat /\ bar \in [Days -> 0..2]
  BY DEF IInv, TypeInv, SourceInv
<1>2. Day(clock) <= Day(clock') /\ Day(clock) \in Int /\ Day(clock') \in Int
  BY <1>1, DayIsMonotone
<1>3. TypeInv'
  BY DEF IInv, TypeInv
<1>4. StoreInv'
  <2>1. store \in StoreTypes /\ StoredBars(store, clock, bar)
    BY DEF IInv, StoreInv
  <2>2. \A d \in Days : store.bars[d] <= bar'[d]
    <3> SUFFICES ASSUME NEW d \in Days PROVE store.bars[d] <= bar'[d]
      OBVIOUS
    <3>1. store.bars[d] \in {0, 2} /\ store.bars[d] <= bar[d] /\ bar[d] <= bar'[d]
          /\ bar[d] \in 0..2 /\ bar'[d] \in 0..2
      BY <1>1, <2>1 DEF StoredBars, StoreTypes
    <3> QED BY <3>1
  <2>3. \A d \in Days : d < Day(clock) => d < Day(clock')
    BY <1>2, DaysAreNumbers
  <2>4. store.proven \subseteq Days
    BY <2>1 DEF StoreTypes
  <2>5. StoredBars(store, clock', bar')
    BY <2>1, <2>2, <2>3, <2>4 DEF StoredBars
  <2> QED BY <2>1, <2>5 DEF StoreInv
<1>5. ThreadInv'
  <2> SUFFICES ASSUME NEW t \in Threads PROVE Holds(at[t], my[t], clock', bar', events', morning')
    BY DEF ThreadInv
  <2>1. Holds(at[t], my[t], clock, bar, events, morning)
    BY DEF IInv, ThreadInv
  <2> QED BY <1>1, <2>1, HoldsLater
<1>6. LockInv' /\ KnownInv'
  BY DEF IInv, LockInv, KnownInv, Day
<1>7. ListsInv'
  <2> SUFFICES ASSUME NEW k \in Keys, lists[k].since # None
               PROVE  lists[k].since \in Nat /\ lists[k].value \in Nat
                      /\ lists[k].since <= lists[k].value /\ lists[k].value <= clock'
    BY DEF ListsInv
  <2>1. lists[k].since \in Nat /\ lists[k].value \in Nat
        /\ lists[k].since <= lists[k].value /\ lists[k].value <= clock
    BY DEF IInv, ListsInv
  <2> QED BY <1>1, <2>1
<1>8. WishInv'
  <2> SUFFICES ASSUME NEW t \in Threads PROVE Wish(at[t], wants[t], clock')
    BY DEF WishInv
  <2> DEFINE w == wants[t]
  <2>1. Wish(at[t], w, clock)
    BY DEF IInv, WishInv
  <2>2. CASE at[t] \in ListSteps
    <3>1. w \in Wishes /\ w.asked \in Nat /\ w.asked <= clock
      BY <2>1, <2>2 DEF Wish, Wishes
    <3>2. w.asked <= clock'
      BY <1>1, <3>1
    <3>3. /\ at[t] # "read list" => w.started \in Nat /\ w.asked <= w.started /\ w.started <= clock
          /\ at[t] = "write list" => w.value \in Nat /\ w.started <= w.value /\ w.value <= clock
      BY <2>1, <2>2 DEF Wish
    <3>4. \A x \in Nat : x <= clock => x <= clock'
      BY <1>1
    <3>5. /\ at[t] # "read list" => w.started \in Nat /\ w.asked <= w.started /\ w.started <= clock'
          /\ at[t] = "write list" => w.value \in Nat /\ w.started <= w.value /\ w.value <= clock'
      BY <3>3, <3>4
    <3> QED BY <2>2, <3>1, <3>2, <3>5 DEF Wish
  <2>3. CASE at[t] \notin ListSteps
    BY <2>1, <2>3 DEF Wish
  <2> QED BY <2>2, <2>3
<1> QED BY <1>3, <1>4, <1>5, <1>6, <1>7, <1>8 DEF IInv

\* What the source and the clock have, at the start of a step of theirs.
LEMMA AtSource ==
    ASSUME IInv
    PROVE  /\ clock \in Nat /\ Day(clock) \in Int /\ bar \in [Days -> 0..2] /\ attests \in BOOLEAN
           /\ events \subseteq EventDays /\ morning \subseteq events
           /\ StoredEvents(store, clock, events, morning) /\ store.checked \in Int \cup {None}
           /\ \A d \in Days : /\ d \notin Sessions \/ d > Day(clock) => bar[d] = 0
                              /\ d < Day(clock) => bar[d] # 1
                              /\ d = Day(clock) => bar[d] # 2
<1>1. clock \in Nat /\ clock <= clock
  BY DEF IInv, TypeInv
<1>2. Day(clock) \in Int
  BY <1>1, DayIsMonotone
<1> QED BY <1>1, <1>2 DEF IInv, SourceInv, StoreInv, StoreTypes

LEMMA DownloadKeeps == ASSUME IInv, Download, Elsewhere PROVE IInv'
<1>1. UNCHANGED <<clock, attests, events, morning, at, lock, store, my, lists, wants>>
  BY DEF Download, Elsewhere
<1>2. PICK d \in Sessions : d < Day(clock) /\ bar[d] = 0 /\ bar' = [bar EXCEPT ![d] = 2]
  BY DEF Download
<1>3. d \in Days /\ d \in Int
  BY DaysAssumption, DaysAreNumbers
<1>4. bar' \in [Days -> 0..2] /\ bar'[d] = 2 /\ \A e \in Days : e # d => bar'[e] = bar[e]
  BY <1>2, <1>3, AtSource
<1>5. \A e \in Days : bar[e] <= bar'[e]
  <2> SUFFICES ASSUME NEW e \in Days PROVE bar[e] <= bar'[e]
    OBVIOUS
  <2>1. bar[e] \in 0..2
    BY AtSource
  <2> QED BY <1>2, <1>4, <2>1
<1>6. SourceInv'
  <2>1. \A e \in Days : /\ e \notin Sessions \/ e > Day(clock) => bar'[e] = 0
                        /\ e < Day(clock) => bar'[e] # 1
                        /\ e = Day(clock) => bar'[e] # 2
    BY <1>2, <1>3, <1>4, AtSource
  <2> QED BY <1>1, <1>4, <2>1, AtSource DEF SourceInv, Day
<1>7. clock <= clock'
  BY <1>1, AtSource
<1> QED BY <1>1, <1>4, <1>5, <1>6, <1>7, AtSource, SourceMoves

LEMMA AnnounceKeeps == ASSUME IInv, Announce, Elsewhere PROVE IInv'
<1>1. UNCHANGED <<clock, attests, bar, morning, at, lock, store, my, lists, wants>>
  BY DEF Announce, Elsewhere
<1>2. events \subseteq events' /\ events' \subseteq EventDays
  BY AtSource DEF Announce
<1>3. SourceInv'
  BY <1>1, <1>2, AtSource DEF SourceInv, Day
<1>4. StoredEvents(store, clock', events', morning')
  BY <1>1, <1>2, AtSource DEF StoredEvents
<1>5. clock <= clock' /\ \A d \in Days : bar[d] <= bar'[d]
  BY <1>1, AtSource
<1>6. clock' \in Nat /\ bar' \in [Days -> 0..2]
  BY <1>1, AtSource
<1> QED BY <1>1, <1>2, <1>3, <1>4, <1>5, <1>6, SourceMoves

LEMMA TickKeeps == ASSUME IInv, Tick, Elsewhere PROVE IInv'
<1>1. UNCHANGED <<attests, events, at, lock, store, my, lists, wants>> /\ clock' = clock + 1
  BY DEF Tick, Elsewhere
<1>2. clock' \in Nat /\ clock <= clock' /\ Day(clock') \in Int /\ Day(clock) <= Day(clock')
      /\ Day(clock') <= Day(clock) + 1
  BY <1>1, AtSource, NextDay
<1>3. CASE Day(clock') = Day(clock)
  <2>1. UNCHANGED <<bar, morning>>
    BY <1>3 DEF Tick
  <2>2. \A d \in Days : bar[d] <= bar'[d]
    BY <2>1, AtSource
  <2>3. SourceInv'
    BY <1>1, <1>3, <2>1, AtSource DEF SourceInv, Day
  <2>4. StoredEvents(store, clock', events', morning')
    <3>1. store.checked # None => store.checked <= clock'
      BY <1>2, AtSource DEF StoredEvents
    <3> QED BY <1>1, <1>3, <2>1, <3>1, AtSource DEF StoredEvents
  <2>5. events \subseteq events' /\ morning' = morning /\ bar' \in [Days -> 0..2]
    BY <1>1, <2>1, AtSource
  <2> QED BY <1>1, <1>2, <2>2, <2>3, <2>4, <2>5, SourceMoves
<1>4. CASE Day(clock') # Day(clock)
  <2> DEFINE f(b) == [d \in Days |-> IF bar[d] = 1 THEN 2 ELSE IF d = Day(clock') THEN b ELSE bar[d]]
  <2>1. PICK b \in IF Day(clock') \in Sessions THEN {0, 1} ELSE {0} : bar' = f(b)
    BY <1>4 DEF Tick
  <2>2. morning' = events
    BY <1>4 DEF Tick
  <2>3. Day(clock') = Day(clock) + 1
    BY <1>2, <1>4, AtSource
  <2>4. ASSUME NEW d \in Days
        PROVE  /\ bar'[d] \in 0..2 /\ bar[d] <= bar'[d]
               /\ d \notin Sessions \/ d > Day(clock') => bar'[d] = 0
               /\ d < Day(clock') => bar'[d] # 1
               /\ d = Day(clock') => bar'[d] # 2
    <3>1. bar'[d] = IF bar[d] = 1 THEN 2 ELSE IF d = Day(clock') THEN b ELSE bar[d]
      BY <2>1
    <3>2. /\ d \in Int /\ Day(clock) \in Int /\ bar[d] \in 0..2
          /\ d \notin Sessions \/ d > Day(clock) => bar[d] = 0
          /\ d < Day(clock) => bar[d] # 1
          /\ d = Day(clock) => bar[d] # 2
      BY AtSource, DaysAreNumbers
    <3>3. b \in {0, 1} /\ (Day(clock') \notin Sessions => b = 0)
      BY <2>1
    <3>4. CASE d = Day(clock')
      <4>1. bar[d] = 0
        BY <2>3, <3>2, <3>4
      <4> QED BY <1>2, <3>1, <3>2, <3>3, <3>4, <4>1
    <3>5. CASE d > Day(clock')
      <4>1. bar[d] = 0 /\ d # Day(clock')
        BY <1>2, <2>3, <3>2, <3>5
      <4> QED BY <1>2, <3>1, <3>2, <3>5, <4>1
    <3>6. CASE d < Day(clock')
      <4>1. d # Day(clock')
        BY <1>2, <3>2, <3>6
      <4>2. bar'[d] = IF bar[d] = 1 THEN 2 ELSE bar[d]
        BY <3>1, <4>1
      <4> QED BY <1>2, <3>2, <3>6, <4>1, <4>2
    <3> QED BY <1>2, <3>2, <3>4, <3>5, <3>6
  <2>5. bar' \in [Days -> 0..2]
    <3>1. DOMAIN bar' = Days /\ bar' = [d \in Days |-> bar'[d]]
      BY <2>1
    <3> QED BY <2>4, <3>1
  <2>6. SourceInv'
    BY <1>1, <2>2, <2>4, <2>5, AtSource DEF SourceInv, Day
  <2>7. StoredEvents(store, clock', events', morning')
    <3>1. store.checked # None => store.checked <= clock' /\ Day(store.checked) # Day(clock')
      <4> SUFFICES ASSUME store.checked # None
                   PROVE  store.checked <= clock' /\ Day(store.checked) # Day(clock')
        OBVIOUS
      <4>1. store.checked \in Int /\ store.checked <= clock /\ clock \in Int
        BY AtSource DEF StoredEvents
      <4>2. Day(store.checked) <= Day(clock) /\ Day(store.checked) \in Int
        BY <4>1, DayIsMonotone
      <4> QED BY <1>2, <2>3, <4>1, <4>2, AtSource
    <3> QED BY <1>1, <3>1, AtSource DEF StoredEvents
  <2>8. events \subseteq events' /\ \A d \in Days : bar[d] <= bar'[d]
    BY <1>1, <2>4
  <2>9. Day(clock) = Day(clock') => morning' = morning
    BY <1>4
  <2> QED BY <1>1, <1>2, <2>5, <2>6, <2>7, <2>8, <2>9, SourceMoves
<1> QED BY <1>3, <1>4

-----------------------------------------------------------------------------
(* The beginning. *)

LEMMA InitHolds == Init => IInv
<1> SUFFICES ASSUME Init PROVE IInv
  OBVIOUS
<1>1. /\ clock = 0 /\ at = [t \in Threads |-> "idle"] /\ lock = [l \in Locks |-> None]
      /\ my = [t \in Threads |-> Idle] /\ wants = [t \in Threads |-> NoWish]
      /\ lists = [k \in Keys |-> Nothing]
  BY DEF Init, BarsInit, ListsInit
<1>2. TypeInv
  BY <1>1 DEF TypeInv
<1>3. Day(0) = FirstDay /\ FirstDay \in Nat \ {0} /\ FirstDay \in Days /\ Day(0) \in Int
  BY FirstDays, TimeAssumption, DaysAssumption
<1>4. SourceInv /\ morning = events
  <2>1. attests \in BOOLEAN /\ bar \in [Days -> 0..2] /\ events \subseteq EventDays /\ morning = events
    BY DEF Init, BarsInit
  <2>2. \A d \in Days : bar[d] \in IF d \notin Sessions \/ d > Day(0) THEN {0}
                                   ELSE IF d = Day(0) THEN {0, 1} ELSE {0, 2}
    BY DEF Init, BarsInit
  <2>3. ASSUME NEW d \in Days
        PROVE  /\ d \notin Sessions \/ d > Day(0) => bar[d] = 0
               /\ d < Day(0) => bar[d] # 1
               /\ d = Day(0) => bar[d] # 2
    <3>1. d \in Int
      BY DaysAreNumbers
    <3> QED BY <1>3, <2>2, <3>1
  <2> QED BY <1>1, <2>1, <2>3 DEF SourceInv
<1>5. StoreInv
  <2>1. store \in Stores /\ (\A d \in store.proven \cap Sessions : store.bars[d] = 2)
        /\ (store.checked = 0 => store.rights = events)
    BY DEF Init, BarsInit
  <2>2. \A d \in Days : bar[d] \in 0..2 /\ (d \notin Sessions => bar[d] = 0)
    BY <1>4 DEF SourceInv
  <2>3. CASE store = EmptyStore
    <3>1. store \in StoreTypes /\ store.bars = [d \in Days |-> 0] /\ store.proven = {}
          /\ store.since = [d \in Days |-> None] /\ store.rights = {} /\ store.checked = None
      BY <2>3 DEF EmptyStore, StoreTypes
    <3> QED BY <2>2, <3>1 DEF StoreInv, StoredBars, StoredEvents
  <2>4. ASSUME NEW b \in {f \in [Days -> {0, 2}] : \A d \in Days : f[d] <= bar[d]},
               NEW P \in SUBSET Past, NEW k \in Past, NEW R \in SUBSET events,
               NEW c \in {None, 0 - TicksPerDay, 0}, store = Earlier(b, P, k, R, c)
        PROVE  StoreInv
    <3> DEFINE D == Sessions \cap 1..k
               s == [d \in Days |-> IF d \in 1..k THEN 0 ELSE None]
               h == IF c = None THEN {} ELSE Days
    <3>1. 1..k \subseteq Past
      BY <1>3 DEF Past
    <3>2. Past \subseteq Days /\ \A d \in Past : d < Day(0)
      BY <1>3, DaysAssumption DEF Days, Past
    <3>3. b \in [Days -> {0, 2}] /\ P \in SUBSET Days /\ D \in SUBSET Days
          /\ s \in [Days -> Int \cup {None}] /\ R \in SUBSET EventDays /\ h \in SUBSET Days
      BY <1>4, <3>1, <3>2 DEF SourceInv
    <3>4. c \in Int \cup {None} /\ (c # None => c <= 0 /\ (c = 0 \/ Day(c) = Day(0) - 1))
      BY <1>3, FirstDays, TimeAssumption
    <3>5. \A d \in Days : s[d] # None => d < Day(0) /\ (d \in D <=> d \in Sessions)
      BY <3>1, <3>2
    <3> HIDE DEF D, s, h
    <3>6. store \in StoreTypes /\ store.bars = b /\ store.proven = P /\ store.dates = D
          /\ store.since = s /\ store.rights = R /\ store.checked = c
      BY <2>4, <3>3, <3>4 DEF Earlier, StoreTypes, D, s, h
    <3>7. \A d \in P : d < Day(0) /\ b[d] = IF d \in Sessions THEN 2 ELSE 0
      <4> SUFFICES ASSUME NEW d \in P PROVE d < Day(0) /\ b[d] = IF d \in Sessions THEN 2 ELSE 0
        OBVIOUS
      <4>1. d \in Days /\ d < Day(0) /\ b[d] \in {0, 2} /\ b[d] <= bar[d]
        BY <3>2, <3>3
      <4>2. d \notin Sessions => b[d] = 0
        BY <2>2, <4>1
      <4> QED BY <2>1, <3>6, <4>1, <4>2
    <3>8. StoredBars(store, clock, bar)
      BY <1>1, <3>5, <3>6, <3>7 DEF StoredBars
    <3>9. StoredEvents(store, clock, events, morning)
      <4>1. c # None /\ Day(c) = Day(0) => c = 0
        BY <1>3, <3>4
      <4> QED BY <1>1, <1>4, <2>1, <3>4, <3>6, <4>1 DEF StoredEvents
    <3>10. store \in StoreTypes
      BY <3>6
    <3> QED BY <3>8, <3>9, <3>10, Zenon DEF StoreInv
  <2>5. store = EmptyStore \/
        \E b \in {f \in [Days -> {0, 2}] : \A d \in Days : f[d] <= bar[d]},
           P \in SUBSET Past, k \in Past, R \in SUBSET events, c \in {None, 0 - TicksPerDay, 0} :
             store = Earlier(b, P, k, R, c)
    <3>1. store \in Stores
      BY <2>1
    <3> QED BY <3>1 DEF Stores
  <2> QED BY <2>3, <2>4, <2>5, Zenon
<1>6. ThreadInv /\ LockInv /\ KnownInv
  <2>1. \A t \in Threads : at[t] = "idle" /\ my[t] = Idle
    BY <1>1
  <2>2. Holds("idle", Idle, clock, bar, events, morning)
    BY DEF Holds
  <2>3. ~Secure("idle", Idle)
    BY DEF Secure, Phases, Opening, Splits
  <2> QED BY <2>1, <2>2, <2>3 DEF ThreadInv, LockInv, KnownInv
<1>7. ListsInv /\ WishInv
  BY <1>1 DEF ListsInv, Nothing, WishInv, Wish, ListSteps
<1> QED BY <1>2, <1>4, <1>5, <1>6, <1>7 DEF IInv

-----------------------------------------------------------------------------
(* Every step. *)

LEMMA BarsStepKeeps == ASSUME IInv, NEW t \in Threads, BarsStep(t), Elsewhere PROVE IInv'
BY TakeBarsKeeps, ReadEventsKeeps, CallEventsKeeps, PlanKeeps, CallBarsKeeps, TailRowsKeeps,
   TailProvedKeeps, CallGapKeeps, GapProvedKeeps, RawRowsKeeps, RawProvedKeeps, FrontCheckedKeeps,
   DeliverKeeps, CallOriginalKeeps, CallFailsKeeps
   DEF BarsStep

LEMMA UsesDatesKeeps == ASSUME IInv, NEW t \in Threads, UsesDates(t), Elsewhere PROVE IInv'
BY ReadDatesKeeps, CallDatesKeeps, DatesFailKeeps, AnswerDatesKeeps DEF UsesDates

LEMMA ListStepKeeps == ASSUME IInv, NEW t \in Threads, ListStep(t), UNCHANGED barsVars PROVE IInv'
BY AskListKeeps, ReadListKeeps, CallListKeeps, ListFailsKeeps, WriteListKeeps DEF ListStep

LEMMA NextKeeps == IInv /\ [Next]_vars => IInv'
<1> SUFFICES ASSUME IInv, [Next]_vars PROVE IInv'
  OBVIOUS
<1>1. CASE Tick /\ UNCHANGED listVars
  BY <1>1, TickKeeps DEF listVars, Elsewhere
<1>2. CASE (Download \/ Announce) /\ UNCHANGED listVars
  BY <1>2, DownloadKeeps, AnnounceKeeps DEF listVars, Elsewhere
<1>3. CASE \E t \in BarThreads : (BarsStep(t) \/ DividendStep(t)) /\ UNCHANGED listVars
  <2>1. PICK t \in BarThreads : (BarsStep(t) \/ DividendStep(t)) /\ UNCHANGED listVars
    BY <1>3
  <2>2. t \in Threads /\ Elsewhere
    BY <2>1, ThreadsAssumption DEF listVars, Elsewhere
  <2> QED BY <2>1, <2>2, BarsStepKeeps, TakeDividendsKeeps, CallDividendsKeeps DEF DividendStep
<1>4. CASE \E t \in DateThreads : TakeDates(t) /\ UNCHANGED listVars
  BY <1>4, ThreadsAssumption, TakeDatesKeeps DEF listVars, Elsewhere
<1>5. CASE \E t \in Threads : UsesDates(t) /\ UNCHANGED listVars
  BY <1>5, UsesDatesKeeps DEF listVars, Elsewhere
<1>6. CASE \E t \in Threads : ListStep(t) /\ UNCHANGED barsVars
  BY <1>6, ListStepKeeps
<1>7. CASE UNCHANGED vars
  <2>1. UNCHANGED <<clock, at, lock, faults, attests, bar, events, morning, store, my, lists, wants>>
    BY <1>7 DEF vars, barsVars, source, listVars
  <2>2. TypeInv' /\ SourceInv' /\ StoreInv' /\ LockInv' /\ KnownInv' /\ ListsInv' /\ WishInv'
    BY <2>1 DEF IInv, TypeInv, SourceInv, StoreInv, LockInv, KnownInv, ListsInv, WishInv, Day
  <2>3. ThreadInv'
    BY <2>1 DEF IInv, ThreadInv
  <2> QED BY <2>2, <2>3 DEF IInv
<1> QED BY <1>1, <1>2, <1>3, <1>4, <1>5, <1>6, <1>7 DEF Next

\* What is known of the clock, the source, the store and every query is so in
\* every state: IInv is inductive.
THEOREM QueriesAreSound == Spec => []IInv
<1>1. Init => IInv
  BY InitHolds
<1>2. IInv /\ [Next]_vars => IInv'
  BY NextKeeps
<1> QED BY <1>1, <1>2, PTL DEF Spec

\* What the store holds is over (service.py, historical_write and the evidence
\* of storage_evidence.py): no bar of an open day, on a proven day the final bar
\* of a session, and of the calendar what the source says, however the queries,
\* their failures, the downloads and a midnight interleave.
THEOREM CoverageIsFinal == Spec => []CoverageIsWhole
<1>1. IInv => CoverageIsWhole
  <2> SUFFICES ASSUME IInv PROVE CoverageIsWhole
    OBVIOUS
  <2>1. store \in StoreTypes /\ StoredBars(store, clock, bar)
    BY DEF IInv, StoreInv
  <2>2. \A d \in Days : store.bars[d] # 1
    BY <2>1 DEF StoreTypes
  <2> QED BY <2>1, <2>2 DEF CoverageIsWhole, StoredBars
<1> QED BY <1>1, QueriesAreSound, PTL

\* An answer put together from the store and the source (daily_bars) is never
\* older than the source was when its query began, and lacks no bar of then.
THEOREM AnswersCurrent == Spec => []AnswersAreCurrent
<1>1. IInv => AnswersAreCurrent
  <2> SUFFICES ASSUME IInv, NEW t \in Threads, at[t] = "done", my[t].r # None
               PROVE  LET r == my[t].r
                          a == my[t].answer
                          real == {d \in DOMAIN a : ~a[d].filled}
                          first == IF r.count # None /\ Cardinality(DOMAIN a) = r.count
                                   THEN Lowest(DOMAIN a) ELSE Start(r)
                      IN /\ \A d \in Window(first, r.end) : my[t].then[d] # 0 => d \in real
                         /\ \A d \in real : my[t].then[d] <= a[d].value /\ a[d].value <= bar[d]
    BY DEF AnswersAreCurrent
  <2>1. Current(my[t], bar)
    <3>1. Holds("done", my[t], clock, bar, events, morning)
      BY DEF IInv, ThreadInv
    <3>2. my[t] # Idle
      BY DEF Idle
    <3>3. "done" \notin {"idle", "call dividends", "answer dates", "call dates", "dates"} \cup ListSteps \cup Phases
      BY DEF ListSteps, Phases, Opening, Splits
    <3> QED BY <3>1, <3>2, <3>3 DEF Holds, Queries
  <2> QED BY <2>1 DEF Current, Unfilled, Beginning
<1> QED BY <1>1, QueriesAreSound, PTL

\* Prices are adjusted with the events of the day of the query
\* (_adjustment_events); a list, but for the views of financial reports, is not
\* older than the day it was asked for, and no refreshed one than its question.
THEOREM ServedToday == Spec => []ServedOfItsDay
<1>1. IInv => FactorsOfToday
  <2> SUFFICES ASSUME IInv, NEW t \in Threads, at[t] = "done", my[t].r # None, my[t].r.adjustment # "none"
               PROVE  \A d \in DOMAIN my[t].answer : ~my[t].answer[d].filled =>
                        /\ Due(my[t].r, my[t].known, d) \subseteq my[t].answer[d].factors
                        /\ my[t].answer[d].factors \subseteq Due(my[t].r, events, d)
    BY DEF FactorsOfToday, Due
  <2>1. Factored(my[t], events)
    <3>1. Holds("done", my[t], clock, bar, events, morning)
      BY DEF IInv, ThreadInv
    <3>2. my[t] # Idle
      BY DEF Idle
    <3>3. "done" \notin {"idle", "call dividends", "answer dates", "call dates", "dates"} \cup ListSteps \cup Phases
      BY DEF ListSteps, Phases, Opening, Splits
    <3> QED BY <3>1, <3>2, <3>3 DEF Holds, Queries
  <2> QED BY <2>1 DEF Factored, Unfilled
<1>2. IInv => CollectionsOfToday
  <2> SUFFICES ASSUME IInv, NEW t \in Threads, at[t] = "done", wants[t].r # None
               PROVE  LET w == wants[t] IN
                      /\ w.r.key \notin Views => Day(w.value) >= Day(w.asked)
                      /\ w.r.refresh => w.value >= w.asked
    BY DEF CollectionsOfToday
  <2>1. Wish("done", wants[t], clock)
    BY DEF IInv, WishInv
  <2>2. wants[t] # NoWish
    BY DEF NoWish
  <2> QED BY <2>1, <2>2 DEF Wish, Served, ListSteps
<1>3. IInv => ServedOfItsDay
  BY <1>1, <1>2 DEF ServedOfItsDay
<1> QED BY <1>3, QueriesAreSound, PTL
=============================================================================

----------------------------- MODULE DailyBars -----------------------------
(***************************************************************************)
(* The read-through queries of storage/service.py for the daily bars and   *)
(* the dividend events of one security and for the calendar of its market, *)
(* with the evidence of adapters/storage_evidence.py and the derivation of *)
(* storage/adjustment.py.                                                  *)
(*                                                                         *)
(* The store is seen day by day, as ProvenDays promises of Repository; all *)
(* policies are the default ones.  Only one thread at a time uses the bars *)
(* and events of a security, those of the calendar lock interleave.  A bar *)
(* is 1 while its day is open and 2 once it is final; an adjusted price is *)
(* the set of the events applied to it.                                    *)
(***************************************************************************)
EXTENDS QueryTime, Sequences

CONSTANTS
    LastDay,     \* days are 1 .. LastDay; 0 is date.min
    Sessions,    \* the days on which the market trades
    EventDays,   \* days of dividend events
    Odd,         \* those among them with a nonzero gugai
    Listed,      \* the listing date
    Year,        \* DAYS_PER_YEAR
    BarQueries, CalendarQueries, DividendQueries \* the requests that come

Days == 1..LastDay

ASSUME DaysAssumption ==
    /\ LastDay \in Nat /\ Sessions \subseteq Days /\ EventDays \subseteq Days
    /\ Odd \subseteq EventDays /\ Listed \in Days /\ FirstDay \in Days /\ Year \in Nat

\* What contracts/market.py and contracts/reference.py admit, up to days beyond
\* the model's.
ASSUME QueriesAssumption ==
    /\ BarQueries \subseteq
         [start : Days \cup {None}, end : Days \cup {None}, count : (Nat \ {0}) \cup {None},
          adjustment : {"none", "front", "back"}, fill : BOOLEAN, refresh : BOOLEAN,
          cutoff : Days \cup {None}]
    /\ CalendarQueries \subseteq
         [start : Days \cup {None}, end : Days \cup {None}, count : (Nat \ {0}) \cup {None},
          refresh : BOOLEAN]
    /\ DividendQueries \subseteq
         [start : Days \cup {None}, end : Days \cup {None}, refresh : BOOLEAN]

VARIABLES
    attests,  \* the adapter's evidence accepts collections of events: BigQmtCoverage
    bar,      \* the source's bar of each day: 0 (none), 1 (open) or 2 (final)
    events,   \* the days of the source's events
    morning,  \* history: events when the current day began
    store,    \* the three datasets of the repository
    my        \* what each thread knows

source == <<attests, bar, events, morning>>
barsVars == <<source, store, my>>

\* bars and proven are the rows and the proofs of daily_bars; dates and since
\* those of trading_dates, with the time of each proof; rights, whole and
\* checked those of dividend_events, with the time of its "adjustment" state.
EmptyStore == [bars |-> [d \in Days |-> 0], proven |-> {}, dates |-> {},
               since |-> [d \in Days |-> None], rights |-> {}, whole |-> {}, checked |-> None]

\* What an earlier process left: what it had proven, and rows it had only observed.
Past == 1..(Day(0) - 1)
Earlier(b, P, k, R, c) ==
    [bars |-> b, proven |-> P, dates |-> Sessions \cap 1..k,
     since |-> [d \in Days |-> IF d \in 1..k THEN 0 ELSE None],
     rights |-> R, whole |-> IF c = None THEN {} ELSE Days, checked |-> c]
\* A store is new, or an earlier process had it.
Stores ==
    {EmptyStore} \cup
    {Earlier(b, P, k, R, c) :
        b \in {f \in [Days -> {0, 2}] : \A d \in Days : f[d] <= bar[d]},
        P \in SUBSET Past, k \in Past, R \in SUBSET events, c \in {None, 0 - TicksPerDay, 0}}

NoCalendar == [lo |-> 0, hi |-> 0, parts |-> <<>>, dates |-> None, back |-> "none"]
NoRows == [d \in {} |-> 0]
NoWrites == [rows |-> NoRows, sure |-> {}, unsure |-> {}, doubt |-> FALSE]
Idle == [r |-> None]

BarsInit ==
    /\ attests \in BOOLEAN
    /\ bar \in [Days -> 0..2]
    /\ \A d \in Days : bar[d] \in IF d \notin Sessions \/ d > Day(0) THEN {0}
                              ELSE IF d = Day(0) THEN {0, 1} ELSE {0, 2}
    /\ events \in SUBSET EventDays /\ morning = events
    /\ store \in {s \in Stores :
                    /\ \A d \in s.proven \cap Sessions : s.bars[d] = 2
                    /\ s.checked = 0 => s.rights = events
                    /\ s.checked = None => s.rights = {}
                    /\ s.checked # None => attests}
    /\ my = [t \in Threads |-> Idle]

\* Two series as one, where g has what f lacks.
Over(f, g) == [d \in DOMAIN f \cup DOMAIN g |-> IF d \in DOMAIN f THEN f[d] ELSE g[d]]
Lowest(S) == CHOOSE d \in S : \A e \in S : d <= e
Highest(S) == CHOOSE d \in S : \A e \in S : d >= e
\* The last n days of S.
LastOf(S, n) == {d \in S : Cardinality({e \in S : e >= d}) <= n}

-----------------------------------------------------------------------------
(* The source. *)

\* A missing bar of an earlier session is downloaded.
Download ==
    /\ \E d \in Sessions : d < Day(clock) /\ bar[d] = 0 /\ bar' = [bar EXCEPT ![d] = 2]
    /\ UNCHANGED <<clock, at, lock, faults, attests, events, morning, store, my>>

Announce ==
    /\ \E e \in EventDays \ events : events' = events \cup {e}
    /\ UNCHANGED <<clock, at, lock, faults, attests, bar, morning, store, my>>

\* At midnight the bar of the day is final; the new day may have one or not.
Tick ==
    /\ clock < LastClock /\ clock' = clock + 1
    /\ IF Day(clock') = Day(clock) THEN UNCHANGED <<bar, morning>>
       ELSE /\ bar' \in {[d \in Days |-> IF bar[d] = 1 THEN 2
                                         ELSE IF d = Day(clock') THEN b ELSE bar[d]] :
                           b \in IF Day(clock') \in Sessions THEN {0, 1} ELSE {0}}
            /\ morning' = events
    /\ UNCHANGED <<at, lock, faults, attests, events, store, my>>

-----------------------------------------------------------------------------
(* Windows, evidence and writes. *)

Window(lo, hi) == {d \in Days : lo <= d /\ d <= hi}

\* live_split: the end of the closed history and the start of the tail, None
\* when the cache leaves nothing to splice.
LiveSplit(start, end, today, proven) ==
    LET last == IF Highest(proven) < end THEN Highest(proven) ELSE end - 1
    IN IF end # today THEN <<end, None>>
       ELSE IF proven = {} THEN <<None, None>>
       ELSE IF last < start THEN <<None, None>> ELSE <<last, last + 1>>

\* historical_write: only days closed when the acquisition began.
ClosedEnd(end, today) == IF end < today THEN end ELSE today - 1

\* assess has a clock of its own.
Finished(end) == end < Day(clock)

\* A write of daily bars: the days whose rows it replaces, and those whose proof
\* it brings or withdraws; lo > hi stands for None.
BarsWrite(rows, lo, hi, reusable) ==
    LET W == Window(lo, hi)
    IN [rows |-> [d \in IF reusable THEN W ELSE DOMAIN rows \cap W |->
                    IF d \in DOMAIN rows THEN rows[d] ELSE 0],
        sure |-> IF reusable THEN W ELSE {}, unsure |-> IF reusable THEN {} ELSE W,
        doubt |-> ~reusable]

\* The write w after those in ws, as one.
Following(ws, w) ==
    [rows |-> Over(w.rows, ws.rows), sure |-> (ws.sure \ w.unsure) \cup w.sure,
     unsure |-> (ws.unsure \ w.sure) \cup w.unsure, doubt |-> ws.doubt \/ w.doubt]

WithBars(s, w) ==
    [s EXCEPT !.bars = [d \in Days |-> IF d \in DOMAIN w.rows THEN w.rows[d] ELSE s.bars[d]],
              !.proven = (@ \ w.unsure) \cup w.sure]

\* A write of the events in W; checked is the time of the "adjustment" state
\* it carries, None without one.
WithEvents(s, evs, W, checked) ==
    [s EXCEPT !.rights = evs \cup IF attests THEN @ \ W ELSE @,
              !.whole = IF attests THEN @ \cup W ELSE @ \ W,
              !.checked = IF attests THEN checked ELSE None]

\* The transaction of an answer: its event and its bar writes.
Published(s, m) ==
    WithBars(IF m.publishes THEN WithEvents(s, m.evs, Days, m.ctx) ELSE s, m.staged)

-----------------------------------------------------------------------------
(* Steps of a thread. *)

TodayAnew(m) == Day(clock)  \* mutant: the clock is read again
Today(m) == Day(m.ctx)
Start(r) == IF r.start = None THEN 0 ELSE r.start
Go(t, step, m) == /\ at' = [at EXCEPT ![t] = step] /\ my' = [my EXCEPT ![t] = m]
                  /\ UNCHANGED lock

\* The end of a query; of an answer that was put together here, what it was
\* put together from remains.
Done(t, rest) ==
    /\ at' = [at EXCEPT ![t] = "done"]
    /\ my' = [my EXCEPT ![t] = rest]
    /\ lock' = Leaving(t, {"security", "calendar"})
Ends(t) == Done(t, Idle)

\* One call may fail; the outcome tells whether this one did.
Works(outcome) == outcome \in (IF MayFail THEN BOOLEAN ELSE {TRUE})
Counted(outcome) == faults' = IF outcome THEN faults ELSE faults + 1

\* normalized: an unset beginning is a year before the end, and a beginning
\* before the listing is the listing, if it is known.
Normalized(r, today, known) ==
    LET end == IF r.end = None THEN today ELSE r.end
        first == IF r.start # None THEN r.start ELSE IF end > Year THEN end - Year ELSE 0
        start == IF known /\ first < Listed /\ Listed <= end THEN Listed ELSE first
    IN [r EXCEPT !.end = end, !.start = IF r.count # None THEN None ELSE start]

\* daily_bars: the clock is read once the security is ours.
TakeBars(t) ==
    /\ at[t] = "idle" /\ Free("security")
    /\ \E r \in BarQueries, known \in BOOLEAN :
         LET m == [r |-> Normalized(r, Day(clock), known), ctx |-> clock, then |-> bar,
                   known |-> IF r.adjustment = "none" THEN {}
                             ELSE IF r.refresh THEN events ELSE morning,
                   evs |-> {}, attested |-> TRUE, publishes |-> FALSE, staged |-> NoWrites,
                   history |-> 0, tail |-> NoRows, raw |-> NoRows, lo |-> 0,
                   rows |-> NoRows, missing |-> {}, window |-> [lo |-> 0, hi |-> 0], local |-> FALSE,
                   complete |-> FALSE, cal |-> NoCalendar]
         IN /\ at' = [at EXCEPT ![t] = IF r.adjustment = "none" THEN "plan" ELSE "events"]
            /\ my' = [my EXCEPT ![t] = m]
    /\ lock' = [lock EXCEPT !["security"] = t]
    /\ UNCHANGED <<clock, faults, source, store>>

\* _adjustment_events: the complete collection, if it was checked today.
ReadEvents(t) ==
    /\ at[t] = "events"
    /\ IF ~my[t].r.refresh /\ store.whole = Days /\ ValidDay(store.checked, my[t].ctx)
       THEN Go(t, "plan", [my[t] EXCEPT !.evs = store.rights])
       ELSE Go(t, "call events", my[t])
    /\ UNCHANGED <<clock, faults, source, store>>

\* What the source answers to a question for the events of the days in W.
EventsOf(W) == events \cap W

CallEvents(t) ==
    /\ at[t] = "call events"
    /\ Go(t, "plan", [my[t] EXCEPT !.evs = EventsOf(Days), !.attested = attests, !.publishes = TRUE])
    /\ UNCHANGED <<clock, faults, source, store>>

-----------------------------------------------------------------------------
(* Which events matter, and whether they can be applied here. *)

Forward(r) == r.adjustment = "front"
Cut(m) == {e \in m.evs : m.r.cutoff = None \/ e <= m.r.cutoff}
Relevant(m, start) ==
    {e \in Cut(m) : IF Forward(m.r) THEN e > start ELSE e <= m.r.end}
Derivable(m, start) == Relevant(m, start) \cap Odd = {}
MayDerive(m, start) == Derivable(m, start) /\ (m.r.cutoff # None \/ m.attested)

\* Every row with the events applied to its prices; none if the rows are raw.
Adjusted(m, rows) ==
    [d \in DOMAIN rows |->
        [value |-> rows[d], filled |-> FALSE,
         factors |-> IF m.r.adjustment = "none" THEN {}
                     ELSE {e \in Cut(m) : IF Forward(m.r) THEN e > d ELSE e <= d}]]
Formulas(m, rows) ==
    \/ m.r.adjustment = "none" \/ DOMAIN rows = {}
    \/ {e \in Cut(m) : IF Forward(m.r) THEN e > Lowest(DOMAIN rows)
                       ELSE e <= Highest(DOMAIN rows)} \cap Odd = {}

\* FillPolicy: a session without a bar repeats the row before it.
Filled(rows, dates) ==
    [d \in dates |->
        IF d \in DOMAIN rows THEN rows[d]
        ELSE [rows[Highest({e \in DOMAIN rows : e < d})] EXCEPT !.filled = TRUE]]
Fillable(rows, dates) == dates # {} => Lowest(dates) \in DOMAIN rows

Trimmed(r, rows) ==
    IF r.count = None THEN rows ELSE [d \in LastOf(DOMAIN rows, r.count) |-> rows[d]]

-----------------------------------------------------------------------------
(* The ways to an answer. *)

AskSource(t, m) == Go(t, "call original", m)

\* UnsupportedDerivation
Unsupported(t, m) == IF m.r.cutoff # None THEN Ends(t) ELSE AskSource(t, m)

\* _source_daily up to its call.
SourceDaily(t, m) ==
    LET local == m.r.end <= Today(m) /\ MayDerive(m, Start(m.r))
    IN IF m.r.cutoff # None /\ ~local THEN Ends(t)
       ELSE IF local \/ m.r.refresh THEN Go(t, "call raw", [m EXCEPT !.local = local])
       ELSE AskSource(t, m)

NeedDates(t, m, lo, hi, back) ==
    Go(t, "dates", [m EXCEPT !.cal = [NoCalendar EXCEPT !.lo = lo, !.hi = hi, !.back = back]])

\* The evidence for rows of lo..hi, which back weighs: no calendar is read for
\* an unfinished or empty window.
Assess(t, m, lo, hi, back) ==
    LET w == [m EXCEPT !.window = [lo |-> lo, hi |-> hi], !.cal = NoCalendar]
    IN IF lo <= hi /\ Finished(hi) THEN NeedDates(t, w, lo, hi, back) ELSE Go(t, back, w)
Proves(m, rows) ==
    /\ m.cal.dates # None /\ m.cal.dates # {}
    /\ DOMAIN rows \cap Window(m.window.lo, m.window.hi) = m.cal.dates
Staged(m, rows) == BarsWrite(rows, m.window.lo, m.window.hi, Proves(m, rows))

\* _derive after its front check.
Finish(t, m) ==
    IF ~Formulas(m, m.rows) THEN Unsupported(t, m)
    ELSE IF m.r.fill /\ m.cal.dates = None THEN NeedDates(t, m, m.lo, m.r.end, "fill")
    ELSE Go(t, "fill", m)

Derive(t, m) ==
    LET c == [m EXCEPT !.cal = NoCalendar]
    IN IF Forward(m.r) /\ Relevant(m, m.lo) # {}
       THEN NeedDates(t, c, m.lo, m.r.end, "front") ELSE Finish(t, c)

Answer(t, m) ==
    IF m.complete /\ MayDerive(m, m.lo) THEN Derive(t, m)
    ELSE IF m.r.cutoff # None THEN Ends(t)
    ELSE IF /\ Forward(m.r) /\ Relevant(m, m.lo) # {}
            /\ m.staged.doubt
         THEN AskSource(t, m)
    ELSE SourceDaily(t, m)

CoveredUpTo(r) ==  \* mutant: the newest proven day proves all before it
    IF r.refresh \/ store.proven = {} THEN {} ELSE 1..Highest(store.proven)
Covered(r) == IF r.refresh THEN {} ELSE store.proven

\* _history_bars, up to the call for the first gap.
History(t, m) ==
    LET covered == Covered(m.r)
        window == Window(Start(m.r), m.history)
        rows == [d \in {e \in window \cap covered : store.bars[e] # 0} |-> store.bars[d]]
        needed == m.r.count - Cardinality(DOMAIN m.tail)
        suffix == {d \in window : \A e \in d..m.history : e \in covered}
        chosen == LastOf(DOMAIN rows \cap suffix, needed)
        From(lo, had, complete) ==
            Answer(t, [m EXCEPT !.lo = lo, !.rows = Over(had, m.tail), !.complete = complete])
    IN IF m.r.count # None /\ ~m.r.refresh /\ needed <= 0
       THEN From(Lowest(DOMAIN m.tail), NoRows, TRUE)
       ELSE IF m.r.count # None /\ ~m.r.refresh /\ Cardinality(chosen) >= needed
       THEN From(Lowest(chosen), [d \in chosen |-> rows[d]], TRUE)
       ELSE IF m.r.start = None \/ window \subseteq covered
       THEN From(Start(m.r), rows, m.r.start # None)
       ELSE Go(t, "call gap", [m EXCEPT !.lo = m.r.start, !.rows = Over(rows, m.tail),
                                        !.missing = window \ covered])

-----------------------------------------------------------------------------
(* The steps of a query for daily bars. *)

\* What the source answers now: the bars there are of the days asked for.
RowsNow(S) == [d \in {e \in S : bar[e] # 0} |-> bar[d]]

\* _daily: what the cache proves decides what is asked.
Plan(t) ==
    /\ at[t] = "plan"
    /\ LET m == my[t]
           split == LiveSplit(Start(m.r), m.r.end, Today(m), Covered(m.r))
           cut == [m EXCEPT !.history = split[1]]
       IN IF \/ m.r.end > Today(m) \/ split[1] = None
             \/ split[2] # None /\ ~Derivable(m, Start(m.r))
          THEN SourceDaily(t, m)
          ELSE IF split[2] # None THEN Go(t, "call tail", cut) ELSE History(t, cut)
    /\ UNCHANGED <<clock, faults, source, store>>

\* The calls for the tail and for the raw series may return bars of today, and
\* they may take until tomorrow.
CallBars(t) ==
    /\ at[t] \in {"call tail", "call raw"}
    /\ LET m == my[t] IN
         IF at[t] = "call tail"
         THEN Go(t, "tail rows", [m EXCEPT !.raw = RowsNow(Window(m.history + 1, m.r.end))])
         ELSE Go(t, "raw rows", [m EXCEPT !.raw = Trimmed(m.r, RowsNow(Window(Start(m.r), m.r.end)))])
    /\ UNCHANGED <<clock, faults, source, store>>

\* _tail_bars: only the closed part of the tail may be stored.
TailRows(t) ==
    /\ at[t] = "tail rows"
    /\ LET m == my[t]
           closed == {d \in DOMAIN m.raw : d < Today(m)}
           got == [m EXCEPT !.tail = Trimmed(m.r, m.raw), !.raw = [d \in closed |-> m.raw[d]]]
       IN IF closed = {} THEN History(t, got)
          ELSE Assess(t, got, m.history + 1, Highest(closed), "tail")
    /\ UNCHANGED <<clock, faults, source, store>>

TailProved(t) ==
    /\ at[t] = "tail"
    /\ LET m == my[t] IN
         History(t, [m EXCEPT !.staged = IF Proves(m, m.raw) THEN Staged(m, m.raw) ELSE NoWrites])
    /\ UNCHANGED <<clock, faults, source, store>>

\* The loop of _history_bars over the gaps of the cache.
CallGap(t) ==
    /\ at[t] = "call gap"
    /\ LET m == my[t]
           lo == Lowest(m.missing)
           hi == Highest({d \in m.missing : lo..d \subseteq m.missing})
       IN Assess(t, [m EXCEPT !.raw = RowsNow(Window(lo, hi))], lo, ClosedEnd(hi, Today(m)), "gap")
    /\ UNCHANGED <<clock, faults, source, store>>

GapProved(t) ==
    /\ at[t] = "gap"
    /\ LET m == my[t]
           left == m.missing \ Window(m.window.lo, m.window.hi)
           got == [m EXCEPT !.staged = Following(@, Staged(m, m.raw)),
                            !.rows = Over(m.raw, @),
                            !.missing = left]
       IN IF ~Proves(m, m.raw) THEN Answer(t, [got EXCEPT !.complete = FALSE])
          ELSE IF left # {} THEN Go(t, "call gap", got)
          ELSE Answer(t, [got EXCEPT !.complete = TRUE])
    /\ UNCHANGED <<clock, faults, source, store>>

\* What raw_write may store of the raw series of _source_daily.
RawRows(t) ==
    /\ at[t] = "raw rows"
    /\ LET m == my[t]
           days == DOMAIN m.raw
           closed == {d \in days : d < Today(m)}
           suffix == m.r.start = None /\ closed # {}
           got == [m EXCEPT !.rows = m.raw, !.raw = [d \in closed |-> m.raw[d]],
                            !.lo = IF m.r.count # None /\ days # {} THEN Lowest(days) ELSE Start(m.r)]
           lo == IF suffix THEN Lowest(closed) ELSE Start(m.r)
           hi == ClosedEnd(m.r.end, Today(m))
       IN IF m.r.start # None \/ suffix THEN Assess(t, got, lo, hi, "raw")
          ELSE Go(t, "raw", [got EXCEPT !.window = [lo |-> lo, hi |-> hi], !.cal = NoCalendar])
    /\ UNCHANGED <<clock, faults, source, store>>

RawProved(t) ==
    /\ at[t] = "raw"
    /\ LET m == [my[t] EXCEPT !.staged = IF my[t].window.lo > my[t].window.hi THEN @
                                         ELSE Following(@, Staged(my[t], my[t].raw))]
       IN IF m.local THEN Derive(t, m) ELSE AskSource(t, m)
    /\ UNCHANGED <<clock, faults, source, store>>

\* _derive: front with events needs a bar of every session of the window.
FrontChecked(t) ==
    /\ at[t] = "front"
    /\ LET m == my[t] IN
         IF m.cal.dates # None /\ DOMAIN m.rows = m.cal.dates
         THEN Finish(t, m) ELSE Unsupported(t, m)
    /\ UNCHANGED <<clock, faults, source, store>>

\* The rest of _derive: filling, trimming, and the write of all dependencies.
Deliver(t) ==
    /\ at[t] = "fill"
    /\ LET m == my[t]
           rows == Adjusted(m, m.rows)
       IN IF m.r.fill /\ ~Fillable(rows, m.cal.dates)
          THEN Unsupported(t, m) /\ UNCHANGED <<faults, store>>
          ELSE /\ Done(t, [r |-> m.r, then |-> m.then, known |-> m.known, answer |->
                        Trimmed(m.r, IF m.r.fill THEN Filled(rows, m.cal.dates) ELSE rows)])
               /\ \E written \in BOOLEAN :
                    /\ Works(written) /\ Counted(written)
                    /\ store' = IF written THEN Published(store, m) ELSE store
    /\ UNCHANGED <<clock, source>>

\* _source_answer
CallOriginal(t) ==
    /\ at[t] = "call original"
    /\ Ends(t)
    /\ \E written \in BOOLEAN :
         /\ Works(written) /\ Counted(written)
         /\ store' = IF written THEN Published(store, my[t]) ELSE store
    /\ UNCHANGED <<clock, source>>

\* A failure of the source, raised or returned, is the failure of the item.
CallFails(t) ==
    /\ at[t] \in {"call events", "call tail", "call gap", "call raw", "call original",
                  "call dividends"}
    /\ MayFail /\ faults' = faults + 1
    /\ Ends(t)
    /\ UNCHANGED <<clock, source, store>>

-----------------------------------------------------------------------------
(* trading_dates, called by a client or by a query for daily bars. *)

\* The days of the calendar that a query begun at ctx finds proven.
DatesProvenAt(ctx) == {d \in Days : ValidForever(store.since[d], ctx)}

\* What is asked of the source, one window after the other: the whole, or the
\* closed part and the tail.
Parts(c, ctx) ==
    LET whole == [lo |-> c.lo, hi |-> c.hi, count |-> c.count, bounded |-> c.bounded, tail |-> FALSE]
        split == LiveSplit(c.lo, c.hi, Day(ctx), DatesProvenAt(ctx))
    IN IF c.refresh \/ c.count # None \/ c.lo = 0 \/ c.hi # Day(ctx) \/ split[1] = None
       THEN <<whole>>
       ELSE <<[whole EXCEPT !.hi = split[1], !.bounded = TRUE],
              [whole EXCEPT !.lo = split[2], !.bounded = TRUE, !.tail = TRUE]>>

\* The first window may be answered by the cache.
BeginDates(t, m, c) ==
    LET parts == Parts(c, m.ctx)
        first == Window(parts[1].lo, parts[1].hi)
        hit == ~c.refresh /\ parts[1].lo # 0 /\ first \subseteq DatesProvenAt(m.ctx)
        left == IF hit THEN Tail(parts) ELSE parts
        found == IF ~hit THEN {}
                 ELSE IF c.count # None THEN LastOf(store.dates \cap first, c.count)
                 ELSE store.dates \cap first
    IN /\ my' = [my EXCEPT ![t] = [m EXCEPT !.cal.parts = left, !.cal.dates = found]]
       /\ at' = [at EXCEPT ![t] = IF left = <<>> THEN m.cal.back ELSE "call dates"]
       /\ lock' = IF left = <<>> THEN lock ELSE [lock EXCEPT !["calendar"] = t]

TakeDates(t) ==
    /\ at[t] = "idle" /\ Free("calendar")
    /\ \E r \in CalendarQueries :
         LET m == [r |-> r, ctx |-> clock,
                   cal |-> [NoCalendar EXCEPT !.back = "answer dates"]]
             c == [lo |-> Start(r), hi |-> IF r.end = None THEN Day(clock) ELSE r.end,
                   count |-> r.count, refresh |-> r.refresh,
                   bounded |-> r.start # None /\ r.end # None /\ r.count = None]
         IN IF c.hi > Day(clock) THEN Ends(t) ELSE BeginDates(t, m, c)
    /\ UNCHANGED <<clock, faults, source, store>>

\* A query for daily bars uses the calendar with its own, older clock reading.
ReadDates(t) ==
    /\ at[t] = "dates" /\ Free("calendar")
    /\ BeginDates(t, my[t], [lo |-> my[t].cal.lo, hi |-> my[t].cal.hi, count |-> None,
                             refresh |-> FALSE, bounded |-> TRUE])
    /\ UNCHANGED <<clock, faults, source, store>>

\* A write of trading dates.
WithDates(s, rows, lo, hi, reusable, ctx) ==
    [s EXCEPT !.dates = rows \cup IF reusable THEN @ \ Window(lo, hi) ELSE @,
              !.since = [d \in Days |-> IF d \notin Window(lo, hi) THEN s.since[d]
                                        ELSE IF reusable THEN ctx ELSE None]]

\* What the source answers for a window: its sessions, the newest ones if
\* they are counted.
SessionsOf(p) ==
    LET all == Sessions \cap Window(p.lo, p.hi)
    IN IF p.count = None THEN all ELSE LastOf(all, p.count)

\* One window: only its closed days are written; those of a tail end with its
\* last closed session, and only a proof of them is.
CallDates(t) ==
    /\ at[t] = "call dates"
    /\ LET m == my[t]
           p == Head(m.cal.parts)
           rows == SessionsOf(p)
           hi == IF ~p.tail THEN ClosedEnd(p.hi, Today(m))
                 ELSE IF {d \in rows : d < Today(m)} = {} THEN 0
                 ELSE Highest({d \in rows : d < Today(m)})
           closed == rows \cap Window(p.lo, hi)
           reusable == p.bounded /\ Finished(hi) /\ closed # {}
           left == Tail(m.cal.parts)
       IN /\ my' = [my EXCEPT ![t].cal.parts = left, ![t].cal.dates = @ \cup rows]
          /\ at' = [at EXCEPT ![t] = IF left = <<>> THEN m.cal.back ELSE "call dates"]
          /\ lock' = IF left = <<>> THEN Leaving(t, {"calendar"}) ELSE lock
          /\ \E written \in BOOLEAN :
               /\ Works(written) /\ Counted(written)
               /\ store' = IF written /\ p.lo <= hi /\ (reusable \/ ~p.tail)
                           THEN WithDates(store, closed, p.lo, hi, reusable, m.ctx) ELSE store
    /\ UNCHANGED <<clock, source>>

\* Without a calendar there is no evidence, and no filling either.
DatesFail(t) ==
    /\ at[t] = "call dates"
    /\ MayFail /\ faults' = faults + 1
    /\ IF my[t].cal.back \in {"tail", "gap", "raw", "front"}
       THEN /\ my' = [my EXCEPT ![t].cal.dates = None]
            /\ at' = [at EXCEPT ![t] = my[t].cal.back]
            /\ lock' = Leaving(t, {"calendar"})
       ELSE Ends(t)
    /\ UNCHANGED <<clock, source, store>>

AnswerDates(t) ==
    /\ at[t] = "answer dates"
    /\ Ends(t)
    /\ UNCHANGED <<clock, faults, source, store>>

-----------------------------------------------------------------------------
(* dividends *)

TakeDividends(t) ==
    /\ at[t] = "idle" /\ Free("security")
    /\ \E r \in DividendQueries :
         LET W == Window(Start(r), IF r.end = None THEN LastDay ELSE r.end)
             m == [r |-> r, days |-> W]
         IN IF ~r.refresh /\ W \subseteq store.whole
            THEN Ends(t)
            ELSE /\ at' = [at EXCEPT ![t] = "call dividends"]
                 /\ my' = [my EXCEPT ![t] = m]
                 /\ lock' = [lock EXCEPT !["security"] = t]
    /\ UNCHANGED <<clock, faults, source, store>>

CallDividends(t) ==
    /\ at[t] = "call dividends"
    /\ LET W == my[t].days IN
         /\ Ends(t)
         /\ \E written \in BOOLEAN :
              /\ Works(written) /\ Counted(written)
              /\ store' = IF written THEN WithEvents(store, EventsOf(W), W, None) ELSE store
    /\ UNCHANGED <<clock, source>>

-----------------------------------------------------------------------------
BarsStep(t) ==
    \/ TakeBars(t) \/ ReadEvents(t) \/ CallEvents(t) \/ Plan(t) \/ CallBars(t) \/ TailRows(t)
    \/ TailProved(t) \/ CallGap(t) \/ GapProved(t) \/ RawRows(t) \/ RawProved(t) \/ FrontChecked(t)
    \/ Deliver(t) \/ CallOriginal(t) \/ CallFails(t)
UsesDates(t) == ReadDates(t) \/ CallDates(t) \/ DatesFail(t) \/ AnswerDates(t)
DividendStep(t) == TakeDividends(t) \/ CallDividends(t)

-----------------------------------------------------------------------------
\* What the store holds is over: no bar of a day that was still open, and on
\* a proven day the final bar of the session, with none missing that the
\* source could deliver later.  The same for the calendar.
CoverageIsWhole ==
    /\ \A d \in Days : store.bars[d] # 1
    /\ \A d \in store.proven :
          d < Day(clock) /\ store.bars[d] = IF d \in Sessions THEN 2 ELSE 0
    /\ \A d \in Days : store.since[d] # None =>
          d < Day(clock) /\ (d \in store.dates <=> d \in Sessions)

\* An answer put together here is never older than the source was when the
\* query began: it has every bar of the window, or the newest ones a counted
\* query asks for, as the source had it then or later.
AnswersAreCurrent ==
    \A t \in Threads : at[t] = "done" /\ my[t].r # None =>
        LET r == my[t].r
            a == my[t].answer
            real == {d \in DOMAIN a : ~a[d].filled}
            first == IF r.count # None /\ Cardinality(DOMAIN a) = r.count
                     THEN Lowest(DOMAIN a) ELSE Start(r)
        IN /\ \A d \in Window(first, r.end) : my[t].then[d] # 0 => d \in real
           /\ \A d \in real : my[t].then[d] <= a[d].value /\ a[d].value <= bar[d]

\* Prices are adjusted with the source's events of the day of the query: all
\* that were known when that day began, or, on a refresh, when the query began.
FactorsOfToday ==
    \A t \in Threads : at[t] = "done" /\ my[t].r # None /\ my[t].r.adjustment # "none" =>
        LET r == my[t].r
            a == my[t].answer
            Due(evs, d) == {e \in evs : /\ r.cutoff = None \/ e <= r.cutoff
                                        /\ IF Forward(r) THEN e > d ELSE e <= d}
        IN \A d \in DOMAIN a : ~a[d].filled =>
             Due(my[t].known, d) \subseteq a[d].factors /\ a[d].factors \subseteq Due(events, d)
=============================================================================

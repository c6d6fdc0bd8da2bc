SPECIFICATION Spec
CONSTANTS
    Threads = {q, r}
    BarThreads = {q}
    DateThreads = {r}
    TicksPerDay = 1
    FirstDay = 3
    LastClock = 1
    MaxFaults = 1
    None = None
    LastDay = 4
    Sessions = {1, 3, 4}
    EventDays = {2}
    Odd = {}
    Listed = 2
    Year = 1
    FinancialsAttested = TRUE
    BarQueries <- SomeBars
    CalendarQueries <- SomeDates
    DividendQueries <- SomeDividends
    ListQueries <- SomeLists
    Traffic <- SomeTraffic
INVARIANTS
    CoverageIsWhole
    AnswersAreCurrent
    ServedOfItsDay
CHECK_DEADLOCK FALSE

SPECIFICATION HandleFairSpec
CONSTANTS
    Tasks = {d1, d2}
    MaxWorkers = 2
    MaxCompleted = 1
    Clock = {1}
    FailPendings = 1
INVARIANTS
    OutcomeReported
    WaitTellsTruth
PROPERTIES
    ImplementsTaskLife
    TasksSettle
CHECK_DEADLOCK FALSE

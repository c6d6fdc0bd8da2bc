SPECIFICATION Spec
CONSTANTS
    Requests = {r1, r2}
    Stops = {s1, s2}
    Tasks = {d1, d2}
    None = None
INVARIANTS
    AnswerIsTrue
CHECK_DEADLOCK FALSE

SPECIFICATION ClientSpec
CONSTANTS
    Requests = {r1, r2}
    Mutations = {r1}
    Stops = {s1, s2}
    Tasks = {d1}
    None = None
INVARIANTS
    NothingLeftAtClose
    RepliesSurviveStop
    ShutExactlyForStop
PROPERTIES
    StopsEnd
    MutationsKeepPromise
CHECK_DEADLOCK FALSE

SPECIFICATION OrderSpec
CONSTANTS
    Pings = {p1}
    Reads = {}
    Submits = {s1, s2}
    Cancels = {}
    Shared = {s1, s2}
    Clients = {k1, k2, k3}
    Pipes = {h1, h2, h3}
    Capacity = 2
    MaxInstance = 1
    None = None
    Broken = Broken
SYMMETRY Interchangeable
INVARIANTS
    OneOrderPerMarker
    RepliesAreOwn
    AnswersOwnOrder
CHECK_DEADLOCK FALSE

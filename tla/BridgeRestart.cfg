SPECIFICATION Spec
CONSTANTS
    Pings = {p1, p2}
    Reads = {}
    Submits = {}
    Cancels = {x1}
    Shared = {}
    Clients = {k1, k2}
    Pipes = {h1, h2}
    Capacity = 1
    MaxInstance = 2
    None = None
    Broken = Broken
SYMMETRY Interchangeable
INVARIANTS
    RunsWhereAddressed
PROPERTIES
    PromiseKept
    OnlyObservedIsInvalidated
CHECK_DEADLOCK FALSE

SPECIFICATION Spec
CONSTANTS
    Commands = {c1, c2, c3}
    Servers = {s1, s2}
    None = None
SYMMETRY Interchangeable
INVARIANTS
    InstallsAlone
    ReachableWhileServing
    RestartKeepsConfiguration
PROPERTIES
    ReadyIsOwn
CHECK_DEADLOCK FALSE

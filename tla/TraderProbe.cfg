SPECIFICATION Spec
CONSTANTS
    Workers = {w1, w2}
    Callers = {}
    Traders = {t1, t2}
    Hb = hb
    Main = main
    None = None
    EntryPoints = {"probe"}
    MaxAttempts = 0
    AttemptCap = 1
    MaxFailures = 1
INVARIANTS
    ProbeNeverRetries

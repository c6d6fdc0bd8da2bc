SPECIFICATION FairSpec
CONSTANTS
    Workers = {w1}
    Callers = {}
    Traders = {t1, t2}
    Hb = hb
    Main = main
    None = None
    EntryPoints = {"serve"}
    MaxAttempts = 0
    AttemptCap = 0
    MaxFailures = 2
PROPERTIES
    SilentLossNoticed
    Recovery
    ShutdownCompletes

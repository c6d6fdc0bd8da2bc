SPECIFICATION Spec
CONSTANTS
    Workers = {w1, w2}
    Callers = {c1}
    Traders = {t1, t2}
    Hb = hb
    Main = main
    None = None
    EntryPoints = {"serve", "probe"}
    MaxAttempts = 1
    AttemptCap = 1
    MaxFailures = 1
SYMMETRY Interchangeable
INVARIANTS
    NoLostReconnect
    DisconnectSticks
    OneLiveTrader
    StopIsFinal
    EventsTellConnection
    NoCallOnLostTrader

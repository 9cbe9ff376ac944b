\* Five bars, a caller and a sleeper that control the session between them, and
\* a sink that may call it back while an event is delivered to it.
CONSTANTS
    Bars = 5
    Warmup = 1
    Targets = {0, 1, 2}
    Holdings <- SmallHoldings
    Initial <- SmallInitial
    Nothing = Nothing
    Sleeps = TRUE
    Sinks = {"listening", "calling"}
SPECIFICATION Spec
INVARIANTS
    SessionMatchesEngine
PROPERTIES
    FrozenUnlessRunning
    LoopReturns
CHECK_DEADLOCK FALSE

\* A sink that calls the session back while an event is delivered to it.
CONSTANTS
    Bars = 5
    Warmup = 1
    Targets = {0, 1, 2}
    Holdings <- SmallHoldings
    Initial <- SmallInitial
    Nothing = Nothing
    Sleeps = TRUE
    Sinks = {"calling"}
SPECIFICATION Spec
INVARIANTS
    HaltedMeansLatched

CHECK_DEADLOCK FALSE

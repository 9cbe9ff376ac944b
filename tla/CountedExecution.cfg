\* What a counted execution may fail to be.
CONSTANTS
    Invocations = {i1, i2}
    None = None
    Prior = 5
    MaxBatch = 1
    MaxCrashes = 1
SPECIFICATION Spec
INVARIANT CountIsLaunches
CHECK_DEADLOCK FALSE

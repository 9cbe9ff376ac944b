\* Three invocations of any phase, one of which may die, in a batch of two.
CONSTANTS
    Invocations = {i1, i2, i3}
    None = None
    Prior = 5
    MaxBatch = 2
    MaxCrashes = 1
SPECIFICATION Spec
INVARIANTS
    StartsAreCounted
PROPERTIES
    EvidenceHolds
    ImplementsBudget
    InvocationEnds
CHECK_DEADLOCK FALSE

\* Every test of seven candidates; portfolios, prices and targets in whole
\* quanta; wrong fields; benchmarks.
CONSTANTS
    Parts = {"search", "sizing", "gate", "benchmark"}
    MaxUnits = 6
    SizingUnits = 80
    Quantum = 10
    BpsScale = 10
    WeightScale = 10
    FeeBps = 1
    SlippageBps = 1
    MinimumFee = 2
    MaxOrderNotional = 8
    Absent = Absent
    Policy <- MCPolicy
    MaxPosition = 8
    MaxTotalExposure = 8
    MaxDailyLoss = 5
    MaxDrawdown = 5
    MaxOpenPositions = 1
    DataAge = 0
    TradingEnabled = TRUE
    KillSwitchActive = FALSE
    Symbol = Symbol
    None = None
    NaN = NaN
    Cash = {0, 1, 2, 3, 4, 5, 6, 7, 8, 9, 10, 11, 12, 13, 14, 15, 16, 17, 18, 19, 20, 21, 22, 23, 24, 25, 26, 27, 28, 29, 30}
    Quantities = {0, 1, 2, 3, 4, 5, 6, 7, 8}
    Ticks = {1, 2, 3, 4, 5, 6}
    Targets = {1, 2, 3, 4, 5, 6, 7, 8}
    GatePolicy <- MCGatePolicy
    GateFee = 1
    GateCap = 7
    GateCash = {0, 8}
    GateQuantities = {0, 1, 4}
    GateTicks = {2}
    GateAmounts <- MCAmounts
    GateWrong = 2
    InitialCashes = {1, 2, 3, 4, 5, 6, 7, 8, 9, 10, 11, 12, 13, 14, 15, 16, 17, 18, 19, 20, 21, 22, 23, 24, 25, 26, 27, 28, 29, 30, 31, 32, 33, 34, 35, 36, 37, 38, 39, 40}
    BarTicks = {1, 3, 4}
    WarmupBars = 1
    NumBars = 3
SPECIFICATION AllSpec
INVARIANTS
    ResultIsSafe
    ResultIsLargest
    FindsLargestSafe
    SizedOrderIsAccepted
    GateHolds
    BenchmarkIsFair
PROPERTIES
    HalvesInterval
\* A search stops when its interval is empty, a benchmark after its last bar.
CHECK_DEADLOCK FALSE

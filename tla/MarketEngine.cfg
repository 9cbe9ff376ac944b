\* Three bars of moving prices, no sink: every order, limit and halt, under a
\* policy stricter than the configuration.
CONSTANTS
    Quantum = 10
    BpsScale = 10
    WeightScale = 10
    FeeBps = 1
    SlippageBps = 1
    MinimumFee = 2
    MaxOrderNotional = 10
    Absent = Absent
    Policy <- StrictPolicy
    MaxPosition = 10
    MaxTotalExposure = 10
    MaxDailyLoss = 5
    MaxDrawdown = 5
    MaxOpenPositions = 1
    DataAge = 0
    TradingEnabled = TRUE
    KillSwitchActive = FALSE
    Symbol = Symbol
    InitialCash = 60
    NumBars = 3
    Prices = {3, 5}
    Weights = {0, 5, 10}
    WarmupBars = 0
    HasSink = FALSE
    SinkFaults = FALSE
    StrategyFaults = FALSE
    RiskFaults = FALSE
    NoSignal = NoSignal
SPECIFICATION Spec
INVARIANTS
    NextBarOpen
    PostCostTarget
    OrdersAreConsistent
    LossLimitsLatch
    BooksReconcile

\* Four bars of one price: a sink, a strategy and a risk policy that may all fail,
\* and a minimum fee larger than what a unit sells for.
CONSTANTS
    Quantum = 10
    BpsScale = 10
    WeightScale = 10
    FeeBps = 1
    SlippageBps = 1
    MinimumFee = 6
    MaxOrderNotional = 10
    Absent = Absent
    Policy <- LoosePolicy
    MaxPosition = 10
    MaxTotalExposure = 10
    MaxDailyLoss = 10
    MaxDrawdown = 10
    MaxOpenPositions = 1
    DataAge = 0
    TradingEnabled = TRUE
    KillSwitchActive = FALSE
    Symbol = Symbol
    InitialCash = 13
    NumBars = 4
    Prices = {3}
    Weights = {0, 10}
    WarmupBars = 1
    HasSink = TRUE
    SinkFaults = TRUE
    StrategyFaults = TRUE
    RiskFaults = TRUE
    NoSignal = NoSignal
SPECIFICATION Spec
INVARIANTS
    TypeOK
    HaltFreezes
    AuditHolds
PROPERTIES
    PolicyGuardsLedger
    ImplementsContract
    CallEnds

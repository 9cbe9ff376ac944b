\* Five rows of three prices: up to three orders, an account of about ten
\* shares, fees and slippage of two in a hundred.  From 5024 quanta the fee
\* of the first order makes one later order larger by a share.
CONSTANTS
    Quantum = 1
    BpsScale = 100
    WeightScale = 10
    FeeBps = 2
    SlippageBps = 2
    MinimumFee = 0
    MaxOrderNotional = 6
    Absent = Absent
    Policy <- ContractPolicy
    MaxPosition = 6
    MaxTotalExposure = 8
    MaxDailyLoss = 1
    MaxDrawdown = 2
    MaxOpenPositions = 1
    DataAge = 0
    TradingEnabled = TRUE
    KillSwitchActive = FALSE
    Symbol = Symbol
    Fast = 1
    Slow = 2
    TargetWeight = 6
    InitialCash = 5024
    NumBars = 5
    Prices = {4, 5, 6}
    None = None
    MoneyTolerance = 2
    Algorithms = {"parity", "baseline", "walkforward", "legacy"}
    Dollars = {8, 9, 10}
    Charges = {0, 1}
    Capital = 100
    FirstSession = 3
    FinalSession = 6
    DailyLimit = 3
    DeclineLimit = 4
    FastCloses = 1
    SlowCloses = 2
    LongWeight = 20
    WarmupCloses = 2
    ThisFold = ThisFold
SPECIFICATION AllSpec
CHECK_DEADLOCK FALSE
INVARIANTS
    NeverShort
    ObservationIsSound
    FixtureMirrors
    ComparisonHolds
PROPERTIES
    HaltIsHonoured

CONSTANTS
    Prices = {8, 9, 10}
    Fees = {0, 1}
    InitialCash = 100
    FirstDay = 3
    LastDay = 6
    DailyLossLimit = 3
    DrawdownLimit = 4
    Fast = 1
    Slow = 2
    TargetWeight = 20
SPECIFICATION Spec
CHECK_DEADLOCK FALSE
INVARIANT DailyLossHalts

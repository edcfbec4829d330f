\* One open a day; prices that reach stop and target.
SPECIFICATION OperatorSpec
CONSTANTS
    Markets = {"SOL"}
    Prices = {10, 13}
    Gaps = {0}
    Asks <- AskTwo
    Decisions <- FewDecisions
    MinOpenLeverage = 3
    Free = Free
    Nothing = Nothing
    BPS = 10
    HourSecs = 1
    FeeBps = 1
    SpreadBps = 1
    MaintBufferBps = 1
    MaxLeverage = 2
    MaxStakeFracBps = 9
    RiskSizing = FALSE
    MinStopBps = 2
    MaxStopBps = 3
    MaxHoldTicks = 2
    MaxTrades = 1
    DailyLossBps = 2
    FundingBps = 1
    MinStake = 2
    StartBalance = 20
    MaxOpens = 2
INVARIANTS
    OperatorTypeOK
PROPERTIES
    FloorMirrors
    HaltsEnd
    PositionsLeave

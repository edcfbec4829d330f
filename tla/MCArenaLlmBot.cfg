\* Two markets, prices that reach the stop, the target and the liquidation.
CONSTANTS
    Markets = {SOL, BTC}
    Prices = {6, 10, 13}
    Gaps = {0, 1}
    Asks <- FourAsks
    Free = Free
    BPS = 10
    HourSecs = 1
    FeeBps = 1
    SpreadBps = 1
    MaintBufferBps = 1
    MaxLeverage = 2
    MaxStakeFracBps = 9
    RiskSizing = FALSE
    MinStopBps = 2
    MaxStopBps = 3
    MaxHoldTicks = 2
    MaxTrades = 1
    DailyLossBps = 2
    FundingBps = 1
    MinStake = 2
    StartBalance = 20
    MaxOpens = 2
SPECIFICATION Spec
INVARIANTS TypeOK Books DailyTradeCap
PROPERTY HaltMeansHalt
SYMMETRY MarketSymmetry

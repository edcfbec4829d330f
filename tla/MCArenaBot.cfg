\* Prints within a bucket, in the next, after a skipped one, after a gap longer
\* than the ring, and no newer than the last.
CONSTANTS
    Markets = {SOL}
    Prices = {8, 10, 13}
    Gaps = {0, 1, 3, 13}
    Free = Free
    BPS = 10
    FeeBps = 1
    SpreadBps = 1
    MaintBufferBps = 1
    BucketSecs = 2
    RingLen = 5
    MinCandles = 2
    ReadSpan = 2
    BreakoutBps = 1
    ActivityMultBps = 10
    TrendFilter = TRUE
    StakeFracBps = 5
    Leverage = 2
    ExitFavorableBps = 2
    MaxHoldTicks = 3
    MinStake = 2
    StartBalance = 20
    StartTime = 5
    MaxVisits = 2
    MaxPrints = 6
SPECIFICATION Spec
INVARIANTS
    AccountSound
    RingIsHistory
    SignalIsReference
    AgingIsPaced

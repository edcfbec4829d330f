SPECIFICATION Spec
CONSTANTS
    Subs = {s1}
    Targets = {"bot"}
    Whales = {}
    Refreshers = {}
    Keys = {k1, k2}
    Follows <- FollowsOne
    WalletOf <- OneWallet
    AutoClose = {s1}
    SourceOf <- SourceIsOne
    MarketOf <- OneMarket
    SideOf <- OneSide
    Stamped = {k1}
    MaxConcurrent = 2
    DailyCap = 1
    MaxSourceOpens = 1
    s1 = s1
    k1 = k1
    k2 = k2
INVARIANTS
    OneAttempt
    BookAtBootIsBaseline
    WithinDailyCap

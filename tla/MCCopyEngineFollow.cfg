\* One whale, a refresh of it that may be overtaken, and crashes.
SPECIFICATION FairSpec
CONSTANTS
    Subs = {s1}
    Targets = {"whale"}
    Whales = {"whale"}
    Refreshers = {"refresh"}
    Keys = {k1}
    Follows <- FollowsOne
    WalletOf <- OneWallet
    AutoClose = {s1}
    SourceOf <- SourceIsOne
    MarketOf <- OneMarket
    SideOf <- OneSide
    Stamped = {k1}
    MaxConcurrent = 1
    DailyCap = 1
    MaxSourceOpens = 1
    s1 = s1
    k1 = k1
PROPERTIES
    OnlyOrphansAreClosed
    FollowersLeave

\* One Hyperliquid whale.
SPECIFICATION Spec
CONSTANTS
    Sources = {a1}
    Kinds = {"hyperliquid"}
    Bets = {b1}
    MaxOpens = 1
    Prices = {1}
    MaxTimers = 1
INVARIANTS
    OnlyOrphansAreClosed

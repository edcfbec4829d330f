\* One source, a Pacifica whale or a leader wallet, and a bet on it.
SPECIFICATION FairSpec
CONSTANTS
    Sources = {a1}
    Kinds = {"pacifica", "leader"}
    Bets = {b1}
    MaxOpens = 2
    Prices = {1, 2}
    MaxTimers = 2
INVARIANTS
    TypeOK
    OnlyOrphansAreClosed
    NoEventIsLost
PROPERTIES
    OrphansLeave

SPECIFICATION FairSpec
CONSTANTS
    Procs = {p1, p2}
    Nobody = Nobody
    TTL = 6
    Recheck = 1
    MaxNap = 1
    MaxIter = 2
    MaxCrashes = 1
INVARIANTS
    OneTicker
    BaselinesFresh
PROPERTIES
    SomeoneTicks

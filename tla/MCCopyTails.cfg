\* Two requests on any rails, one close of the user and one of the sweep.
SPECIFICATION Spec
CONSTANTS
    Requests = {r1, r2}
    RailsOf <- AnyRail
    Users = {u1}
    Mirrors = {m1}
    SlowRequests = FALSE
SYMMETRY Symmetry
INVARIANTS
    TypeOK
    FlashStaysApart
    LiveTailsAreRecorded
    
    
PROPERTIES
    UnresolvedBlocks
CHECK_DEADLOCK FALSE

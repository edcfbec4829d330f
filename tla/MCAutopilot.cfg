\* Two workers, two bets of which the first takes most of the budget.
SPECIFICATION Spec
CONSTANTS
    Workers = {w1, w2}
    Markets = {m1, m2}
    NumBets = 2
    Budget = 3
    StakeMin = 1
    StakePct = 90
    MaxConcurrent = 2
    Gain = 2
    SlowTicks = FALSE
    MaxCrashes = 1
SYMMETRY Symmetry
INVARIANTS
    TypeOK
    StakesFitBudget
    MergesAreLostConfirms
    ExhaustedIsFlat
CHECK_DEADLOCK FALSE

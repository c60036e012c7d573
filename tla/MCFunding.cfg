SPECIFICATION FairSpec
CONSTANTS
    LowWater = 2
    PRIZE_PER_CLAIM = 1
    MAX_CONSECUTIVE_CLAIM_FAILURES = 2
    StartBalances = {1, 2}
    MaxSpends = 1
    MaxForeign = 1
    MaxRivals = 1
    MaxFaults = 1
INVARIANTS
    CountedIsCredited
    AttributedCommitted
PROPERTIES
    FundsReturn
CHECK_DEADLOCK FALSE

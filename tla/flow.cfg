SPECIFICATION FlowSpec
CONSTANTS
    Half = 16
    BaselineBuckets = 3
    Warmup = 2
    CooldownSlots = 2
    ZThreshold = 1
    swapCountFloor = 2
    minPreBuckets = 2
    Trades <- MCTrades
    Gaps = {1, 2}
    Horizon = 3
    MaxSwaps = 5
    MaxInWindow = 2
INVARIANTS BucketsHonest ReplayAgrees GradeHonest
CHECK_DEADLOCK FALSE
